------------------------------ MODULE Exports -------------------------------
(***************************************************************************)
(* An export of a report: a document that says how far it is, a job on the *)
(* queue that computes the csv, and the page that asks every second. The   *)
(* books keep changing.  BullMQ is modelled as this code uses it: a job    *)
(* whose worker dies or stalls runs again, and so does one that threw.     *)
(*                                                                         *)
(* MaxTries is the policy's 2, MaxPolls the page's 30; MaxBooks and        *)
(* MaxTrouble bound what else happens.                                     *)
(***************************************************************************)
EXTENDS Naturals

CONSTANTS Hands, MaxTries, MaxPolls, MaxBooks, MaxTrouble

ASSUME ExportsAssumption == MaxTries \in Nat \ {0} /\ MaxPolls \in Nat \ {0}

VARIABLES
  books,   \* counts postings: what a csv says is told by it
  report,  \* the ReportJob
  queued,  \* the job on the queue
  hand,    \* the attempts being made
  polling, \* the page
  trouble

exportVars == <<books, report, queued, hand, polling, trouble>>

NoFile == <<>>
Free == [at |-> "free", csv |-> NoFile]

\* Two attempts at once, one of them of a worker that had stalled.
Beside(h) == \E o \in Hands \ {h} : hand[o].at # "free"

ExportsInit ==
  /\ books = 0 /\ trouble = 0
  /\ report = [status |-> "none", asked |-> 0, csv |-> NoFile]
  /\ queued = [at |-> "none", tries |-> 0, doubled |-> FALSE]
  /\ hand = [h \in Hands |-> Free]
  /\ polling = [at |-> "rest", polls |-> 0, file |-> NoFile]

Troubled == trouble < MaxTrouble /\ trouble' = trouble + 1

Posting ==
  /\ books < MaxBooks /\ books' = books + 1
  /\ UNCHANGED <<report, queued, hand, polling, trouble>>

-----------------------------------------------------------------------------
(* The routes and the page *)

ExportAsk ==
  /\ polling.at = "rest"
  /\ report' = [report EXCEPT !.status = "queued", !.asked = books]
  /\ polling' = [polling EXCEPT !.at = "asking"]
  /\ UNCHANGED <<books, queued, hand, trouble>>

\* Redis may fail, or the process die, when the document is there and the job is not.
ExportEnqueue ==
  /\ polling.at = "asking"
  /\ \/ /\ queued' = [queued EXCEPT !.at = "waiting", !.tries = MaxTries]
        /\ polling' = [polling EXCEPT !.at = "polling"] /\ UNCHANGED trouble
     \/ Troubled /\ polling' = [polling EXCEPT !.at = "error"] /\ UNCHANGED queued
  /\ UNCHANGED <<books, report, hand>>

\* After thirty answers the page gives up; the export goes on.
Poll ==
  /\ polling.at = "polling"
  /\ polling' = [polling EXCEPT !.polls = @ + 1,
                                !.at = CASE report.status = "completed" -> "download"
                                         [] report.status = "failed" -> "error"
                                         [] OTHER -> IF polling.polls + 1 = MaxPolls THEN "gaveUp" ELSE @]
  /\ UNCHANGED <<books, report, queued, hand, trouble>>

Download ==
  /\ polling.at = "download"
  /\ polling' = IF report.status = "completed" /\ report.csv # NoFile
                THEN [polling EXCEPT !.at = "saved", !.file = report.csv]
                ELSE [polling EXCEPT !.at = "missing"]
  /\ UNCHANGED <<books, report, queued, hand, trouble>>

-----------------------------------------------------------------------------
(* processReportExport *)

Ends(h, how) ==
  /\ hand' = [hand EXCEPT ![h] = Free]
  /\ queued' = IF Beside(h) THEN queued
               ELSE IF how = "threw" /\ queued.tries > 0 THEN [queued EXCEPT !.at = "waiting"]
               ELSE [queued EXCEPT !.at = how]

Takes(h) ==
  /\ queued.at = "waiting" /\ hand[h].at = "free"
  /\ UNCHANGED <<books, report, polling, trouble>>

\* What is found running already is not written again.
Found == IF report.status = "running" THEN "foundRunning" ELSE "found"

\* Mutant: an export that is there is made again.
TakeAgain(h) ==
  /\ Takes(h)
  /\ queued' = [queued EXCEPT !.at = "active", !.tries = @ - 1, !.doubled = @ \/ Beside(h)]
  /\ hand' = [hand EXCEPT ![h].at = Found]

\* The document is read; what is completed is not made again.
Take(h) ==
  /\ Takes(h)
  /\ queued' = [queued EXCEPT !.at = IF report.status = "completed" THEN "over" ELSE "active",
                              !.tries = @ - 1, !.doubled = @ \/ Beside(h)]
  /\ hand' = IF report.status = "completed" THEN hand ELSE [hand EXCEPT ![h].at = Found]

\* And written, as it was found, whatever another attempt has made of it since.
MarkRunning(h) ==
  /\ hand[h].at \in {"found", "foundRunning"}
  /\ report' = IF hand[h].at = "found" THEN [report EXCEPT !.status = "running"] ELSE report
  /\ hand' = [hand EXCEPT ![h].at = "reading"]
  /\ UNCHANGED <<books, queued, polling, trouble>>

ReadBooks(h) ==
  /\ hand[h].at = "reading"
  /\ hand' = [hand EXCEPT ![h] = [at |-> "saving", csv |-> <<books>>]]
  /\ UNCHANGED <<books, report, queued, polling, trouble>>

SaveCsv(h) ==
  /\ hand[h].at = "saving"
  /\ report' = [report EXCEPT !.status = "completed", !.csv = hand[h].csv]
  /\ hand' = [hand EXCEPT ![h].at = "saved"]
  /\ UNCHANGED <<books, queued, polling, trouble>>

Answer(h) ==
  /\ hand[h].at = "saved" /\ Ends(h, "over")
  /\ UNCHANGED <<books, report, polling, trouble>>

\* The reading or the saving failed: that is saved, with the csv if there is one, and not
\* tried again.
SaveFailure(h) ==
  /\ hand[h].at \in {"reading", "saving"} /\ Troubled
  /\ report' = [report EXCEPT !.status = "failed",
                              !.csv = IF hand[h].csv = NoFile THEN @ ELSE hand[h].csv]
  /\ Ends(h, "over")
  /\ UNCHANGED <<books, polling>>

\* That cannot be saved either, or the process dies, if only before the queue knows that
\* the csv is saved: the attempt is made again.
Throw(h) ==
  /\ hand[h].at # "free" /\ Troubled
  /\ Ends(h, "threw")
  /\ UNCHANGED <<books, report, polling>>

\* A worker stalls: the job is given to another while it goes on.
StallExport(h) ==
  /\ hand[h].at # "free" /\ ~Beside(h) /\ queued.at = "active" /\ Troubled
  /\ queued.tries > 0
  /\ queued' = [queued EXCEPT !.at = "waiting"]
  /\ UNCHANGED <<books, report, hand, polling>>

ExportsNext ==
  \/ Posting \/ ExportAsk \/ ExportEnqueue \/ Poll \/ Download
  \/ \E h \in Hands : \/ Take(h) \/ MarkRunning(h) \/ ReadBooks(h) \/ SaveCsv(h) \/ Answer(h)
                      \/ SaveFailure(h) \/ Throw(h) \/ StallExport(h)

ExportsSpec == ExportsInit /\ [][ExportsNext]_exportVars

-----------------------------------------------------------------------------
(* Properties *)

AtWork == \E h \in Hands : hand[h].at # "free"

\* Whatever fails or stalls: a file that is downloaded was read from the books after it
\* was asked for; an export that is completed has one; a page that was told so gets it,
\* unless another attempt was beside; and an export that has neither completed nor failed
\* is waited for or worked at, unless no attempt is left, or it was never queued.
ExportsAreWhole ==
  /\ polling.at = "saved" => polling.file # NoFile /\ polling.file[1] >= report.asked
  /\ report.status = "completed" => report.csv # NoFile
  /\ polling.at = "missing" => queued.doubled
  /\ report.status \in {"queued", "running"} =>
       polling.at = "asking" \/ queued.at = "waiting" \/ AtWork \/ queued.tries = 0
=============================================================================
