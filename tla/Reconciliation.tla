---------------------------- MODULE Reconciliation --------------------------
(***************************************************************************)
(* Bank statements against the books (bankingService.insertDeduped,        *)
(* reconciliationService): statements are imported row by row, the server  *)
(* suggests which journal entry a line stands for, a clerk confirms, or    *)
(* has an entry made from the line.                                        *)
(*                                                                         *)
(* None of it but the posting itself is a transaction: every read, insert  *)
(* and save below is a step of its own, requests interleave, and a process *)
(* may die between any two.  Only the unique indexes hold things together: *)
(* one bank line per fingerprint, one reconciliation per bank line.        *)
(***************************************************************************)
EXTENDS Integers, Sequences, FiniteSets, SequencesExt

CONSTANTS
  Statement,   \* the fingerprints of a statement's rows, in order
  Uploads,     \* imports of that statement
  Requests,    \* requests to confirm matches or to make an entry
  Books,       \* entries posted by the documents
  Likely,      \* fingerprint and entry pairs of a score of 0.9 and more
  MaxBulk,     \* bound: matches in one confirmation
  MaxCrashes,  \* bound: processes that die
  None

ASSUME ReconciliationAssumption ==
  /\ Statement \in Seq(Range(Statement))
  /\ Likely \subseteq Range(Statement) \X Books
  /\ MaxBulk \in Nat \ {0} /\ MaxCrashes \in Nat
  /\ Books \cap Int = {} /\ None \notin Books \cup Int

VARIABLES
  lines,    \* bank lines, in order of insertion
  records,  \* reconciliations
  made,     \* made[n] is the line the n-th entry of createFromLine was made from
  upload,   \* each import: the row it is at, and whether it still runs
  req,      \* each request: where it is and with what
  crashes   \* processes that died

vars == <<lines, records, made, upload, req, crashes>>

\* todo: the matches, at: the one at hand, own: the entry made from the line,
\* before: (history) the requests that had answered when this one began;
\* alive: the process serving it lives.
Idle == [pc |-> "idle", kind |-> "confirm", todo |-> <<>>, at |-> 1, own |-> None,
          before |-> {}, alive |-> TRUE]

At(r, pc)   == req[r].alive /\ req[r].pc = pc
Match(r)    == req[r].todo[req[r].at]
Move(r, pc) == req' = [req EXCEPT ![r].pc = pc]
Ended       == {r \in Requests : req[r].pc \in {"ok", "refused"}}

Unreconciled == {n \in DOMAIN lines : lines[n].status = "unreconciled"}
Reconciled   == {rec.line : rec \in records}
Matched      == {rec.entry : rec \in records}

-----------------------------------------------------------------------------
(* Importing *)

\* insertDeduped: a row that is there already is counted and passed over.
Insert(u) ==
  /\ upload[u].on /\ upload[u].row \in DOMAIN Statement
  /\ LET print == Statement[upload[u].row] IN
       lines' = IF \E n \in DOMAIN lines : lines[n].print = print THEN lines
                ELSE Append(lines, [print |-> print, status |-> "unreconciled"])
  /\ upload' = [upload EXCEPT ![u].row = @ + 1]
  /\ UNCHANGED <<records, made, req, crashes>>

-----------------------------------------------------------------------------
(* Reconciling *)

\* Suggestions pair unreconciled lines with entries no reconciliation names,
\* each line with one entry and each entry with one line ...
Offers ==
  {S \in SUBSET {[line |-> n, entry |-> e] : n \in Unreconciled, e \in Books \ Matched} :
     /\ S # {} /\ Cardinality(S) <= MaxBulk
     /\ \A m \in S : <<lines[m.line].print, m.entry>> \in Likely
     /\ \A m, k \in S : m.line = k.line \/ m.entry = k.entry => m = k}

\* ... and the clerk sends back what the page showed, in its order.
Confirm(r) ==
  /\ At(r, "idle")
  /\ \E S \in Offers : \E todo \in SetToSeqs(S) :
       req' = [req EXCEPT ![r] = [Idle EXCEPT !.pc = "check", !.todo = todo, !.before = Ended]]
  /\ UNCHANGED <<lines, records, made, upload, crashes>>

\* Mutant: createFromLine leaves the check to confirm.
MakeUnchecked(r) ==
  /\ At(r, "idle")
  /\ \E n \in DOMAIN lines :
       req' = [req EXCEPT ![r] = [Idle EXCEPT !.pc = "post", !.kind = "make", !.before = Ended,
                                              !.todo = <<[line |-> n, entry |-> None]>>]]
  /\ UNCHANGED <<lines, records, made, upload, crashes>>

\* createFromLine up to its transaction; the line is read outside of it.
Make(r) ==
  /\ At(r, "idle")
  /\ \E n \in Unreconciled :
       req' = [req EXCEPT ![r] = [Idle EXCEPT !.pc = "post", !.kind = "make", !.before = Ended,
                                              !.todo = <<[line |-> n, entry |-> None]>>]]
  /\ UNCHANGED <<lines, records, made, upload, crashes>>

\* The entry is posted, in a transaction of its own (module Ledger) ...
PostEntry(r) ==
  /\ At(r, "post")
  /\ made' = Append(made, Match(r).line)
  /\ LET e == Len(made) + 1 IN
       req' = [req EXCEPT ![r].pc = "check", ![r].own = e, ![r].todo[1].entry = e]
  /\ UNCHANGED <<lines, records, upload, crashes>>

\* ... or the ledger refuses it.
PostRefused(r) ==
  /\ At(r, "post")
  /\ Move(r, "refused")
  /\ UNCHANGED <<lines, records, made, upload, crashes>>


\* confirm reads the line; a bulk stops at the first it cannot confirm.
Check(r) ==
  /\ At(r, "check")
  /\ Move(r, IF Match(r).line \in Unreconciled THEN "record" ELSE "refused")
  /\ UNCHANGED <<lines, records, made, upload, crashes>>

\* Reconciliation.create; the unique index refuses a second one of a line.
Record(r) ==
  /\ At(r, "record")
  /\ IF Match(r).line \in Reconciled
     THEN Move(r, "refused") /\ UNCHANGED records
     ELSE /\ Move(r, "save")
          /\ records' = records \cup {[line |-> Match(r).line, entry |-> Match(r).entry,
               method |-> IF req[r].kind = "make" THEN "manual" ELSE "suggested"]}
  /\ UNCHANGED <<lines, made, upload, crashes>>

\* txn.save(), then the next match, the answer, or the method of the record.
Save(r) ==
  /\ At(r, "save")
  /\ lines' = [lines EXCEPT ![Match(r).line].status = "reconciled"]
  /\ req' = IF req[r].kind = "make" THEN [req EXCEPT ![r].pc = "method"]
            ELSE [req EXCEPT ![r].at = @ + 1,
                             ![r].pc = IF req[r].at = Len(req[r].todo) THEN "ok" ELSE "check"]
  /\ UNCHANGED <<records, made, upload, crashes>>

\* Reconciliation.updateOne({ bankTransactionId }, { method: 'created' })
SetMethod(r) ==
  /\ At(r, "method")
  /\ req' = [req EXCEPT ![r].at = @ + 1, ![r].pc = "ok"]
  /\ LET n == req[r].todo[1].line IN
       records' = {IF rec.line = n THEN [rec EXCEPT !.method = "created"] ELSE rec : rec \in records}
  /\ UNCHANGED <<lines, made, upload, crashes>>

\* The process dies, with an import or a request half done.
Crash ==
  /\ crashes < MaxCrashes
  /\ crashes' = crashes + 1
  /\ \/ \E u \in Uploads :
          /\ upload[u].on /\ upload[u].row \in DOMAIN Statement
          /\ upload' = [upload EXCEPT ![u].on = FALSE]
          /\ UNCHANGED req
     \/ \E r \in Requests :
          /\ req[r].alive /\ req[r].pc \notin {"idle", "ok", "refused"}
          /\ req' = [req EXCEPT ![r].alive = FALSE]
          /\ UNCHANGED upload
  /\ UNCHANGED <<lines, records, made>>

Init ==
  /\ lines = <<>> /\ records = {} /\ made = <<>>
  /\ upload = [u \in Uploads |-> [row |-> 1, on |-> TRUE]]
  /\ req = [r \in Requests |-> Idle]
  /\ crashes = 0

Next ==
  \/ \E u \in Uploads : Insert(u)
  \/ \E r \in Requests :
       \/ Confirm(r) \/ Make(r) \/ PostEntry(r) \/ PostRefused(r)
       \/ Check(r) \/ Record(r) \/ Save(r) \/ SetMethod(r)
  \/ Crash

Spec == Init /\ [][Next]_vars

-----------------------------------------------------------------------------
(* Properties *)

\* "Importing the same statement twice creates zero rows": once an import has
\* run to its end every row of the statement is there exactly once, whatever
\* imports overlapped it or died half way.
ImportedOnce ==
  \A u \in Uploads : upload[u].row > Len(Statement) =>
    \A p \in Range(Statement) : Cardinality({n \in DOMAIN lines : lines[n].print = p}) = 1

\* A line is marked reconciled only with a reconciliation of it, and has one
\* unmarked only while the request that made it is about to mark it, or died; and
\* whatever a request has passed, all of it when it answered, is reconciled with
\* the entry the request named: a bulk that fails leaves exactly what it did.
MarkFollowsRecord ==
  /\ \A n \in DOMAIN lines :
       /\ lines[n].status = "reconciled" => n \in Reconciled
       /\ n \in Reconciled \cap Unreconciled =>
            \E r \in Requests : req[r].pc = "save" /\ Match(r).line = n
  /\ \A r \in Requests : \A k \in 1..(req[r].at - 1) :
       LET m == req[r].todo[k] IN
       /\ lines[m.line].status = "reconciled"
       /\ \E rec \in records : rec.line = m.line /\ rec.entry = m.entry

\* What a request was told is reconciled - lines and entries - no request that begins
\* afterwards uses again: neither to match another line with the entry, nor to make an
\* entry from the line.  (Two pages of suggestions that were made before either was
\* confirmed may match one entry with two lines.)
NeverUsedAgain ==
  \A r, s \in Requests : req[r].pc = "ok" /\ r \in req[s].before =>
    \A k \in DOMAIN req[r].todo :
      /\ req[s].own # None => req[r].todo[k].line # made[req[s].own]
      /\ \A l \in DOMAIN req[s].todo : req[r].todo[k].entry # req[s].todo[l].entry

\* What the bank booked once is in the books once: a row is not imported twice, a line is
\* marked with its reconciliation, and neither a line that is done nor its entry is used
\* again.
MatchedOnce == ImportedOnce /\ MarkFollowsRecord /\ NeverUsedAgain
=============================================================================
