---------------------------- MODULE Recognition -----------------------------
(***************************************************************************)
(* What becomes of a file that is uploaded to be read (ocr/, and the       *)
(* fields documentService takes from the text): its text layer, the bytes  *)
(* themselves, or its pages as pictures, which uploads send one by one     *)
(* through one queue to one Tesseract worker, started when first needed.   *)
(*                                                                         *)
(* The worker is external: a page that is clear is read right, of one that *)
(* is not any number may be lost or misread; a start or a reading may      *)
(* fail; and a second page before the first is answered would race with it.*)
(* Confidences are in percent.                                             *)
(***************************************************************************)
EXTENDS Integers, Sequences, FiniteSets, Functions

CONSTANTS
  Files,      \* the uploads
  Papers,     \* what may be uploaded
  MaxPages,   \* OCR_MAX_PAGES
  MaxBreaks   \* bound: starts and readings that fail

ASSUME RecognitionAssumption == MaxPages \in Nat \ {0} /\ MaxBreaks \in Nat

\* A paper is of a kind, said to be text or not, and has pages; each figure of the
\* invoice stands on one.
ASSUME PapersAssumption ==
  \A paper \in Papers :
    /\ paper.kind \in {"plain", "layer", "broken", "other", "scan"}
    /\ paper.clear \in Seq(BOOLEAN) \ {<<>>}
    /\ paper.stands \in [{"taxable", "tax", "total"} -> Nat \ {0}]

VARIABLES
  file,   \* the papers
  scan,   \* each upload: where it is, the page it is at, the pages read, the extraction
  tail,   \* the uploads in the queue
  worker, \* the worker, and the page it was given last
  breaks

recognitionVars == <<file, scan, tail, worker, breaks>>

\* The figures of the one invoice there is, and a misread one.
Figures == {"taxable", "tax", "total"}
Invoice == [taxable |-> 10, tax |-> 2, total |-> 12]
Misread == 7
Lost == 0

NoPage == <<>>
NoExtraction == [taxable |-> Lost, total |-> Lost, arithmeticOk |-> "unknown", base |-> 0, pages |-> 0]
NoText == [g \in Figures |-> Lost]

Floor == 70
ClearPage == 90
PoorPage == 40

RecognitionInit ==
  /\ file \in [Files -> Papers]
  /\ scan = [f \in Files |-> [at |-> "new", page |-> 1, got |-> <<>>, failed |-> FALSE, doc |-> NoExtraction]]
  /\ tail = <<>> /\ worker = [at |-> "none", page |-> NoPage] /\ breaks = 0

-----------------------------------------------------------------------------
(* parseInvoiceText *)

gate(value, confidence) == IF confidence >= Floor THEN value ELSE Lost

\* Taxable and tax that do not add up to the total cost both their confidence.
parseInvoiceText(text, base, pages) ==
  LET whole == \A g \in Figures : text[g] # Lost
      ok == text["taxable"] + text["tax"] = text["total"]
      confidence == IF whole /\ ~ok THEN PoorPage ELSE base
  IN [taxable |-> gate(text["taxable"], confidence), total |-> gate(text["total"], confidence),
      arithmeticOk |-> IF ~whole THEN "unknown" ELSE IF ok THEN "yes" ELSE "no",
      base |-> base, pages |-> pages]

Extracted(f, text, base, pages) ==
  scan' = [scan EXCEPT ![f].at = "extracted", ![f].doc = parseInvoiceText(text, base, pages)]

-----------------------------------------------------------------------------
(* runOcr *)

\* Bytes that are text, or said to be, are taken as they are.
AsText(f) == IF file[f].kind = "plain" THEN Invoice ELSE NoText

\* An upload arrives.  A scan, or a picture, gets in the queue with its first page.
Receive(f) ==
  /\ scan[f].at = "new"
  /\ \/ /\ file[f].declared = "text"
        /\ Extracted(f, AsText(f), 95, 1) /\ UNCHANGED tail
     \/ /\ file[f].declared # "text"
        /\ CASE file[f].kind = "layer" -> Extracted(f, Invoice, 99, Len(file[f].clear)) /\ UNCHANGED tail
             [] file[f].kind = "broken" -> Extracted(f, NoText, 0, 0) /\ UNCHANGED tail
             [] file[f].kind \in {"plain", "other"} -> Extracted(f, AsText(f), 80, 1) /\ UNCHANGED tail
             [] file[f].kind = "scan" -> /\ tail' = Append(tail, f)
                                         /\ scan' = [scan EXCEPT ![f].at = "queued"]
  /\ UNCHANGED <<file, worker, breaks>>

-----------------------------------------------------------------------------
(* recognize, serialise and getWorker *)

\* Mutant: a page does not wait for its turn.
TurnAny(f) == \E k \in DOMAIN tail : tail[k] = f

Turn(f) == tail # <<>> /\ f = Head(tail)

StartWorker(f) ==
  /\ Turn(f) /\ worker.at = "none"
  /\ worker' = [worker EXCEPT !.at = "starting"]
  /\ UNCHANGED <<file, scan, tail, breaks>>

WorkerStarts ==
  /\ worker.at = "starting"
  /\ worker' = [worker EXCEPT !.at = "ready"]
  /\ UNCHANGED <<file, scan, tail, breaks>>

SendPage(f) ==
  /\ Turn(f) /\ scan[f].at = "queued" /\ worker.at = "ready"
  /\ worker' = [worker EXCEPT !.page = <<f, scan[f].page>>]
  /\ scan' = [scan EXCEPT ![f].at = "sent"]
  /\ UNCHANGED <<file, tail, breaks>>

\* What may be read of a page: its figures, wrong or not at all where it is not clear.
ReadingsOf(paper, n) ==
  {text \in [Figures -> {Lost, Misread} \cup {Invoice[g] : g \in Figures}] :
     \A g \in Figures :
       text[g] \in IF paper.stands[g] # n THEN {Lost}
                   ELSE IF paper.clear[n] THEN {Invoice[g]} ELSE {Invoice[g], Misread, Lost}}

Pages(f) == IF Len(file[f].clear) < MaxPages THEN Len(file[f].clear) ELSE MaxPages

Mean(pages) ==
  SumFunctionOnSet([n \in DOMAIN pages |-> pages[n].confidence], DOMAIN pages) \div Len(pages)

\* The pages' texts one after the other: a figure is looked for from the front.
Joined(pages) ==
  [g \in Figures |->
     LET has == {n \in DOMAIN pages : pages[n].text[g] # Lost}
     IN IF has = {} THEN Lost ELSE pages[CHOOSE n \in has : \A m \in has : n <= m].text[g]]

\* The worker answers; the next page goes to the end of the queue.
PageRead(f) ==
  /\ scan[f].at = "sent"
  /\ LET up == scan[f]
         sent == worker.page
         paper == file[sent[1]]
     IN \E text \in ReadingsOf(paper, sent[2]) :
          LET page == [text |-> text, of |-> sent,
                       confidence |-> IF paper.clear[sent[2]] THEN ClearPage ELSE PoorPage]
              got == Append(up.got, page)
              last == up.page = Pages(f)
          IN /\ scan' = [scan EXCEPT ![f] =
                  IF last
                  THEN [up EXCEPT !.at = "extracted", !.got = got,
                                  !.doc = parseInvoiceText(Joined(got), Mean(got), Len(got))]
                  ELSE [up EXCEPT !.at = "queued", !.got = got, !.page = up.page + 1]]
             /\ tail' = IF last THEN Tail(tail) ELSE Append(Tail(tail), f)
  /\ UNCHANGED <<file, worker, breaks>>

\* A start that fails is forgotten, the next page tries again; so is a reading that
\* fails.  The upload at hand is given up, and has no text.
PageFails(f) ==
  /\ Turn(f) /\ breaks < MaxBreaks /\ breaks' = breaks + 1
  /\ \/ worker.at = "starting" /\ worker' = [worker EXCEPT !.at = "none"]
     \/ scan[f].at = "sent" /\ UNCHANGED worker
  /\ scan' = [scan EXCEPT ![f] = [scan[f] EXCEPT !.at = "extracted", !.failed = TRUE,
                                                 !.doc = parseInvoiceText(NoText, 0, 0)]]
  /\ tail' = Tail(tail)
  /\ UNCHANGED file

RecognitionNext ==
  \/ WorkerStarts
  \/ \E f \in Files : Receive(f) \/ StartWorker(f) \/ SendPage(f) \/ PageRead(f) \/ PageFails(f)

RecognitionSpec == RecognitionInit /\ [][RecognitionNext]_recognitionVars

-----------------------------------------------------------------------------
(* Property *)

\* The pages of a file that was read as pictures, and how many of them were clear.
PoorPages(f) == {n \in 1..Pages(f) : ~file[f].clear[n]}

\* "Failure is closed, never invented": what is read as pictures is read from the file's
\* own pages, in order; a wrong figure is only shown of a file one page of which was not
\* clear while the mean of all hid it, and never if the three were read and refute
\* each other; and a file all of whose figures stand on clear pages within the limit, if no
\* failure was its own, shows them, but for a file that was declared to be text.
ReadIsOwn ==
  \A f \in Files : scan[f].at = "extracted" =>
    LET doc == scan[f].doc  got == scan[f].got
        shown == {doc.taxable, doc.total} \ {Lost}
        wrong == doc.taxable \notin {Lost, 10} \/ doc.total \notin {Lost, 12}
    IN /\ \A n \in DOMAIN got : got[n].of = <<f, n>>
       /\ shown # {} => doc.base >= Floor /\ doc.arithmeticOk # "no"
       /\ wrong => /\ PoorPages(f) # {} /\ Len(got) > 1
                   /\ PoorPages(f) # 1..Pages(f)
       /\ /\ file[f].kind = "scan" /\ file[f].declared # "text" /\ ~scan[f].failed
          /\ PoorPages(f) = {} /\ (\A g \in Figures : file[f].stands[g] \in 1..Pages(f))
          => doc.taxable = 10 /\ doc.total = 12
=============================================================================
