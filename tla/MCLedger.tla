------------------------------ MODULE MCLedger ------------------------------
(* Instances of Ledger for TLC. *)
EXTENDS Ledger, TLC

CONSTANTS ar, sales, cash, c1, c2

MCAccounts == {ar, sales, cash}
MCDebitNormal == {ar, cash}

Blank == [a \in MCAccounts |-> [debit |-> 0, credit |-> 0]]
Dr(n) == [debit |-> n, credit |-> 0]
Cr(n) == [debit |-> 0, credit |-> n]

\* An invoice over three accounts, a receipt in the next year, and a draft
\* that does not balance.
Sale    == [date |-> 1, lines |-> [Blank EXCEPT ![ar] = Dr(2), ![cash] = Dr(1), ![sales] = Cr(3)]]
Receipt == [date |-> 2, lines |-> [Blank EXCEPT ![cash] = Dr(2), ![ar] = Cr(2)]]
Skewed  == [date |-> 2, lines |-> [Blank EXCEPT ![cash] = Dr(2), ![ar] = Cr(1)]]

TwoDrafts == {Sale, Receipt}

MCFyOf    == <<"26-27", "27-28">>
MCDocFyOf == <<"26-27", "26-27">>
MCYears   == {"26-27", "27-28"}
MCDays    == 1..2

Symmetry == Permutations({c1, c2})
=============================================================================
