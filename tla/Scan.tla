-------------------------------- MODULE Scan --------------------------------
(***************************************************************************)
(* Reading a bank statement out of scanned text (ocr/statement.ts).  Once  *)
(* the columns are gone a row is its date, some words and some numbers, so *)
(* what the numbers mean goes by their order and is checked against the    *)
(* running balance, which one row hands to the next.                       *)
(*                                                                         *)
(* The statement is any; the scanner (external) may misread or lose any    *)
(* number of it, or a whole row.  One step reads one row.  Rows are kept    *)
(* with their place on the paper, so of those found a set will do.         *)
(***************************************************************************)
EXTENDS Recognition, Functions

CONSTANTS
  Movements,  \* what the bank booked, in paise; a withdrawal is negative
  Openings,   \* balances a statement may begin with
  Rows,       \* rows of the statement
  Errors,     \* by how much a number may be misread
  MaxFaults   \* bound: numbers misread or lost, and rows lost

ASSUME ScanAssumption ==
  /\ Movements \subseteq Int \ {0} /\ Openings \subseteq Int /\ Errors \subseteq Int \ {0}
  /\ Rows \in Nat \ {0} /\ MaxFaults \in Nat

VARIABLES
  paper,     \* the statement: what it says, and how it prints it
  read,      \* (history) the numbers and the marker read from each row so far
  label,     \* the opening balance as it was read, or none
  running,   \* the balance rows are checked against, or none
  rows,      \* the rows found
  unparsed,  \* the rows reported as not read
  faults     \* what the scanner got wrong

scanVars == <<paper, read, label, running, rows, unparsed, faults>>

\* A number that may be missing.
Some(n) == <<n>>
NoNumber == <<>>
Known(x) == x # NoNumber
The(x) == x[1]

Size(n) == IF n < 0 THEN -n ELSE n

Balance(n) == paper.opening + SumFunctionOnSet(paper.moves, 1..n)

\* Withdrawals have a minus or brackets, or a column of their own; a balance that is
\* overdrawn has a minus, or just a DR beside it.
Printed(n) ==
  [amount  |-> IF paper.columns THEN Size(paper.moves[n]) ELSE paper.moves[n],
   balance |-> IF paper.unsigned THEN Size(Balance(n)) ELSE Balance(n)]

\* What the scanner may make of a number, and its faults.
Readings(n) == {[value |-> Some(n), wrong |-> 0], [value |-> NoNumber, wrong |-> 1]}
               \cup {[value |-> Some(x), wrong |-> 1] : x \in {n + e : e \in Errors} \cup ({0} \ {n})}

-----------------------------------------------------------------------------
(* parseStatementText *)

\* One number is the amount.  Of more, the last is the balance and the last of
\* the others that is not zero the amount.
AmountOf(numbers) ==
  IF Len(numbers) = 1 THEN Some(numbers[1])
  ELSE LET filled == {k \in 1..Len(numbers) - 1 : numbers[k] # 0}
       IN IF filled = {} THEN NoNumber
          ELSE Some(numbers[CHOOSE k \in filled : \A j \in filled : j <= k])

BalanceOf(numbers) == IF Len(numbers) = 1 THEN NoNumber ELSE Some(numbers[Len(numbers)])

Agrees(amount, balance) ==
  /\ Known(balance) /\ Known(running)
  /\ Size(Size(The(balance) - The(running)) - Size(amount)) <= 1

\* The change of the balance says the direction; failing that a CR or DR among the
\* words, failing that a minus.
Direction(amount, balance, marker) ==
  IF Agrees(amount, balance) THEN (IF The(balance) >= The(running) THEN "credit" ELSE "debit")
  ELSE IF marker # "none" THEN marker
  ELSE IF amount < 0 THEN "debit" ELSE "unknown"

Found(n, amount, balance, marker) ==
  [row |-> n, amount |-> Size(amount), direction |-> Direction(amount, balance, marker),
   checked |-> Agrees(amount, balance)]

\* Mutant: the balance of a row that is not understood is not taken over.
TakeRowOnly(n, numbers, marker) ==
  LET amount == AmountOf(numbers)  balance == BalanceOf(numbers) IN
  IF Direction(The(amount), balance, marker) = "unknown"
  THEN unparsed' = unparsed \cup {n} /\ UNCHANGED <<rows, running>>
  ELSE /\ rows' = rows \cup {Found(n, The(amount), balance, marker)}
       /\ running' = IF Known(balance) THEN balance ELSE running
       /\ UNCHANGED unparsed

\* A row that has an amount.
TakeRow(n, numbers, marker) ==
  LET amount == AmountOf(numbers)  balance == BalanceOf(numbers) IN
  /\ running' = IF Known(balance) THEN balance ELSE running
  /\ IF Direction(The(amount), balance, marker) = "unknown"
     THEN unparsed' = unparsed \cup {n} /\ UNCHANGED rows
     ELSE /\ rows' = rows \cup {Found(n, The(amount), balance, marker)}
          /\ UNCHANGED unparsed

\* One turn of the loop.  A row without a number, or with none but zeros before the
\* balance, is reported and leaves the balance before it in force.
ReadRow ==
  LET n == Len(read) + 1 IN
  /\ n <= Rows
  /\ \E amount \in Readings(Printed(n).amount), balance \in Readings(Printed(n).balance),
        marker \in {"none", "credit", "debit"} :
       LET numbers == amount.value \o balance.value IN
       /\ faults' = faults + amount.wrong + balance.wrong
       /\ read' = Append(read, [numbers |-> numbers, marker |-> marker])
       /\ IF numbers = <<>> \/ ~Known(AmountOf(numbers))
          THEN unparsed' = unparsed \cup {n} /\ UNCHANGED <<rows, running>>
          ELSE TakeRow(n, numbers, marker)
  /\ faults' <= MaxFaults
  /\ UNCHANGED <<paper, label>>

\* A row whose date was not read is not taken for a row at all.
SkipRow ==
  /\ Len(read) < Rows /\ faults < MaxFaults
  /\ read' = Append(read, [numbers |-> <<>>, marker |-> "none"])
  /\ faults' = faults + 1
  /\ UNCHANGED <<paper, label, running, rows, unparsed>>

ScanInit ==
  /\ paper \in [opening : Openings, moves : [1..Rows -> Movements],
                columns : BOOLEAN, unsigned : BOOLEAN]
  /\ label \in {Some(paper.opening), NoNumber}
  /\ running = label
  /\ read = <<>> /\ rows = {} /\ unparsed = {}
  /\ faults = IF Known(label) THEN 0 ELSE 1

ScanNext == ReadRow \/ SkipRow

ScanSpec == ScanInit /\ [][ScanNext]_scanVars

-----------------------------------------------------------------------------
(* rowsToCsv and importCsv *)

\* The csv has one column of signed amounts; importing it drops zeros.
Signed(r) == IF r.direction = "debit" THEN -r.amount ELSE r.amount

Imported ==
  {[row |-> f.row, amount |-> Size(Signed(f)),
    direction |-> IF Signed(f) >= 0 THEN "credit" ELSE "debit"] : f \in {g \in rows : Signed(g) # 0}}

-----------------------------------------------------------------------------
(* Property *)

\* The balance after row n was read, with its sign, on a row that had an amount.
BalanceWasRead(n) ==
  IF n = 0 THEN label = Some(paper.opening)
  ELSE LET numbers == read[n].numbers IN
       Len(numbers) = 2 /\ numbers[1] # 0 /\ numbers[2] = Balance(n)

AmountWasRead(n) == Size(read[n].numbers[1]) = Size(paper.moves[n])

IsTrue(r) ==
  /\ r.direction = IF paper.moves[r.row] < 0 THEN "debit" ELSE "credit"
  /\ Size(r.amount - Size(paper.moves[r.row])) <= 1

\* "Two separate readings agree and the row is trustworthy": a movement that is
\* imported from a row that was checked against two balances that were both read
\* right is the bank's, to a paisa; and whatever happened to the rows before, a row
\* that was read right after one whose balance was read right is imported as it is.
\* (A balance that was lost, or is overdrawn and printed without its sign, may make
\* the check pass on a movement in the wrong direction.)
CheckedIsTrue ==
  LET balanced(n) == BalanceWasRead(n - 1) /\ BalanceWasRead(n) IN
  /\ \A f \in rows : f.checked /\ balanced(f.row) => \E r \in Imported : r.row = f.row /\ IsTrue(r)
  /\ \A n \in DOMAIN read : balanced(n) /\ AmountWasRead(n) =>
       \E r \in Imported : r.row = n /\ IsTrue(r)

\* What is read of papers is true: of a file, and of a statement's rows.
ReadIsTrue == ReadIsOwn /\ CheckedIsTrue
=============================================================================
