-------------------------- MODULE MCReconciliation --------------------------
(* Instances of Reconciliation, Recognition, Scan and Answers for TLC.  A behaviour *)
(* runs one of them: what is recognised is scanned, a scan ends in a csv, which is  *)
(* what an import begins with, and a turn of the copilot only reads the books.      *)
EXTENDS Reconciliation, Scan, Answers, TLC

CONSTANTS p1, p2, sale, rent, u1, u2, r1, r2, r3, t1, t2, f1, f2

VARIABLE which

MCStatement == <<p1, p2>>
MCLikely    == {<<p1, sale>>, <<p2, sale>>, <<p2, rent>>}

\* A withdrawal twice a deposit: what makes a check pass that should not.
MCMovements == {-20, 10}
MCOpenings  == {10}
MCErrors    == {1, 10}

APaper == [opening |-> 10, moves |-> [n \in 1..Rows |-> 10], columns |-> TRUE, unsigned |-> FALSE]

\* The figures on one page, or spread.
OnePage == [g \in Figures |-> 1]
Spread  == [taxable |-> 1, tax |-> 2, total |-> 2]
Beyond  == [taxable |-> 1, tax |-> 2, total |-> 4]
Upload(kind, declared, clear, stands) ==
  [kind |-> kind, declared |-> declared, clear |-> clear, stands |-> stands]

AFile == Upload("plain", "text", <<TRUE>>, OnePage)

MCPapers ==
  {Upload("scan", "other", clear, OnePage) :
     clear \in {<<TRUE>>, <<FALSE>>, <<TRUE, FALSE>>, <<FALSE, TRUE, TRUE>>}}
  \cup {Upload("scan", "other", clear, Spread) :
     clear \in {<<TRUE, TRUE>>, <<TRUE, FALSE, TRUE>>}}
  \cup {Upload("scan", "other", <<TRUE, TRUE, TRUE, TRUE>>, Beyond)}
  \cup {Upload(kind, declared, <<TRUE>>, OnePage) :
     kind \in {"scan", "layer", "broken", "other", "plain"}, declared \in {"other", "text"}}

BankInit ==
  /\ which \in {"statements", "uploads", "scan", "answers"}
  /\ Init /\ RecognitionInit /\ ScanInit /\ AnswersInit
  /\ which # "uploads" => file = [f \in Files |-> AFile]
  /\ which # "scan" => paper = APaper /\ label # NoNumber
  /\ which # "answers" => provider = "engine" /\ allowed = {} /\ booked = "nothing"

BankNext ==
  /\ UNCHANGED which
  /\ \/ which = "statements" /\ Next /\ UNCHANGED <<recognitionVars, scanVars, answerVars>>
     \/ which = "uploads" /\ RecognitionNext /\ UNCHANGED <<vars, scanVars, answerVars>>
     \/ which = "scan" /\ ScanNext /\ UNCHANGED <<vars, recognitionVars, answerVars>>
     \/ which = "answers" /\ AnswersNext /\ UNCHANGED <<vars, recognitionVars, scanVars>>

BankSpec == BankInit /\ [][BankNext]_<<vars, recognitionVars, scanVars, answerVars, which>>

RequestSymmetry == Permutations({r1, r2, r3}) \cup Permutations({u1, u2}) \cup Permutations({t1, t2})
=============================================================================
