------------------------------- MODULE Journal ------------------------------
(***************************************************************************)
(* What the general ledger promises, with no transactions, counters or     *)
(* caches: a journal that only grows, entry by entry, numbered 1, 2, 3...  *)
(* in each financial year; an entry is undone by at most one mirror entry; *)
(* the account totals are at every moment those of the journal; and an     *)
(* entry is announced exactly when it is there.                            *)
(* Module Ledger implements it (LedgerProofs, run ledger).                 *)
(***************************************************************************)
EXTENDS Integers, Sequences

CONSTANTS
  Accounts,
  Years,
  None,        \* the id of no entry
  Balanced(_)  \* lines whose debits equal their credits

VARIABLES
  journal, \* sequence of entries
  last,    \* last number given in each financial year
  totals,  \* debits minus credits of each account
  announced \* entries the rest of the system is told of, by their place

Mirror(lines) ==
  [a \in Accounts |-> [debit |-> lines[a].credit, credit |-> lines[a].debit]]

Net(lines, a) == lines[a].debit - lines[a].credit

\* Entry e is added to journal j, balanced and with the next number.
Extend(j, e) ==
  /\ journal' = Append(j, e)
  /\ Balanced(e.lines)
  /\ e.no = last[e.fy] + 1
  /\ e.reversedBy = None
  /\ last' = [last EXCEPT ![e.fy] = e.no]
  /\ totals' = [a \in Accounts |-> totals[a] + Net(e.lines, a)]
  /\ announced' = announced \cup {Len(j) + 1}

Grows == Len(journal') = Len(journal) + 1
New   == journal'[Len(journal) + 1]

Post == Grows /\ New.reverses = None /\ Extend(journal, New)

Reverse ==
  /\ Grows
  /\ \E i \in DOMAIN journal :
       /\ journal[i].reversedBy = None
       /\ New.reverses = i
       /\ New.lines = Mirror(journal[i].lines)
       /\ Extend([journal EXCEPT ![i].reversedBy = Len(journal) + 1], New)

Init ==
  /\ journal = <<>>
  /\ last = [y \in Years |-> 0]
  /\ totals = [a \in Accounts |-> 0]
  /\ announced = {}

Next == Post \/ Reverse

Spec == Init /\ [][Next]_<<journal, last, totals, announced>>
=============================================================================
