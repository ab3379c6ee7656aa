------------------------------- MODULE Ledger -------------------------------
(***************************************************************************)
(* The general ledger of FinPilot: GeneralLedger.post and .reverse, the    *)
(* document counters they draw from, and the snapshot transactions that    *)
(* services run them in (utils/withTransaction.ts).                        *)
(*                                                                         *)
(* A client (a request being served by an api process) opens a transaction *)
(* on a snapshot of the database, decides everything on that snapshot, and *)
(* commits all its writes in one step.  MongoDB's snapshot isolation lets  *)
(* the commit happen only if no document it writes was written by someone  *)
(* else since the snapshot; otherwise withTransaction runs the callback    *)
(* again on a fresh snapshot.  What a transaction only READS is not        *)
(* checked.  missed records, per open transaction, the documents written   *)
(* under its feet.                                                         *)
(*                                                                         *)
(* One company is modelled: every collection is tenant scoped.             *)
(***************************************************************************)
EXTENDS Integers, Sequences, FiniteSets, Functions

CONSTANTS
  Clients,        \* concurrent requests
  NoTx,           \* value of tx[c] when client c has no open transaction
  Accounts,       \* the chart of accounts
  SystemAccounts, \* seeded accounts: may be deactivated, never removed
  Editable,       \* accounts somebody edits while the model runs
  DebitNormal,    \* accounts of type asset or expense
  Days,           \* accounting dates, 1..n
  Years,          \* financial years
  FyOf,           \* financialYear(date, company.financialYearStartMonth)
  DocFyOf,        \* financialYear(date), as documents call it (April start)
  BooksBegin,     \* company.booksBeginDate
  LockDays,       \* values an operator may give company.booksLockedUpto
  DocSeries,      \* series users put on their documents
  Drafts,         \* journal drafts submitted, well formed or not
  MaxEntries      \* bound on the length of the journal

JV == "JV"
Series == DocSeries \cup {JV}
None == 0
NoDoc == [series |-> JV, fy |-> CHOOSE y \in Years : TRUE, no |-> 0]

ASSUME DaysAssumption ==
  /\ Days \subseteq Nat \ {0}
  /\ FyOf \in [Days -> Years]
  /\ DocFyOf \in [Days -> Years]
  /\ BooksBegin \in Nat
  /\ LockDays \subseteq Nat
  /\ Years # {}

ASSUME DraftsAssumption ==
  \A d \in Drafts :
    /\ d.date \in Days
    /\ d.lines \in [Accounts -> [debit : Int, credit : Int]]

ASSUME AccountsAssumption ==
  /\ IsFiniteSet(Accounts)
  /\ DebitNormal \subseteq Accounts
  /\ SystemAccounts \subseteq Accounts
  /\ Editable \subseteq Accounts

ASSUME MaxEntriesAssumption == MaxEntries \in Nat

VARIABLES
  entries,    \* journalentries, in commit order; an entry's id is its index
  counter,    \* counters: last number drawn per financial year and series
  balance,    \* accounts.currentBalancePaise, the denormalised cache
  status,     \* accounts: "active", "inactive" or "deleted"
  lockedUpto, \* company.booksLockedUpto, 0 when null
  outbox,     \* outboxevents 'journal.posted', by entry id
  today,      \* the wall clock, as a date
  tx          \* the open transaction of each client

db   == <<entries, counter, balance, status, lockedUpto, outbox>>
vars == <<entries, counter, balance, status, lockedUpto, outbox, today, tx>>

-----------------------------------------------------------------------------
(* Transactions *)

Snapshot == [ entries |-> entries, counter |-> counter, balance |-> balance,
              status |-> status, lockedUpto |-> lockedUpto ]

NothingMissed == [counters |-> {}, accounts |-> {}, entries |-> {}]

Open(c) == tx[c] # NoTx

Start(req) == [req |-> req, clock |-> today, snap |-> Snapshot,
               missed |-> NothingMissed]

\* Every other open transaction has now missed these writes.
Missing(t, writes) ==
  [t EXCEPT !.missed = [counters |-> @.counters \cup writes.counters,
                        accounts |-> @.accounts \cup writes.accounts,
                        entries  |-> @.entries  \cup writes.entries]]

Publish(writes) ==
  [o \in Clients |-> IF Open(o) THEN Missing(tx[o], writes) ELSE tx[o]]

\* Mutant: postings do not write the accounts they read.
ConflictsCountersOnly(t, writes) ==
  \/ t.missed.counters \cap writes.counters # {}
  \/ t.missed.entries  \cap writes.entries  # {}

Conflicts(t, writes) ==
  \/ t.missed.counters \cap writes.counters # {}
  \/ t.missed.accounts \cap writes.accounts # {}
  \/ t.missed.entries  \cap writes.entries  # {}

-----------------------------------------------------------------------------
(* GeneralLedger.post: the guards, in the order of the code *)

\* The lines of an entry, by account; an account without a line has a line of
\* zeros.  (A draft line that is neither debit nor credit, which the code
\* rejects, is not represented; nor are two lines on one account.)
Touched(lines) == {a \in Accounts : lines[a].debit # 0 \/ lines[a].credit # 0}

SumDebits(lines)  == SumFunction([a \in Accounts |-> lines[a].debit])
SumCredits(lines) == SumFunction([a \in Accounts |-> lines[a].credit])

DebitXorCredit(line) ==
  /\ line.debit >= 0 /\ line.credit >= 0
  /\ (line.debit > 0) # (line.credit > 0)

Balanced(lines) == SumDebits(lines) = SumCredits(lines)

WellFormed(lines) ==
  /\ Cardinality(Touched(lines)) >= 2
  /\ \A a \in Touched(lines) : DebitXorCredit(lines[a])
  /\ Balanced(lines)
  /\ SumDebits(lines) # 0

\* Mutant: the locked period is not looked at.
PeriodBegun(date, locked) == date >= BooksBegin

PeriodOpen(date, locked) == date >= BooksBegin /\ date > locked

Postable(snap, date, lines) ==
  /\ PeriodOpen(date, snap.lockedUpto)
  /\ WellFormed(lines)
  /\ \A a \in Touched(lines) : snap.status[a] = "active"

\* Mutant: a reversal repeats the lines.
SwapNothing(lines) == lines

Swap(lines) ==
  [a \in Accounts |-> [debit |-> lines[a].credit, credit |-> lines[a].debit]]

\* balanceDelta: what a line does to its account's natural balance.
BalanceDelta(a, line) ==
  IF a \in DebitNormal THEN line.debit - line.credit ELSE line.credit - line.debit

-----------------------------------------------------------------------------
(* The three ways a service calls the ledger:                              *)
(*   "post"     journalService.postManual                                  *)
(*   "document" a service that numbers a document, then posts its entry    *)
(*   "reverse"  GeneralLedger.reverse                                      *)

Requests ==
  [op : {"post"}, draft : Drafts]
    \cup [op : {"document"}, draft : Drafts, series : DocSeries]
    \cup [op : {"reverse"}, target : 1..MaxEntries]

IsReversal(t) == t.req.op = "reverse"
Original(t)   == t.snap.entries[t.req.target]

Date(t)  == IF IsReversal(t) THEN t.clock ELSE t.req.draft.date
Lines(t) == IF IsReversal(t) THEN Swap(Original(t).lines) ELSE t.req.draft.lines

\* Mutant: reverse does not look at reversedByEntryId.
AcceptedAgain(t) ==
  /\ IsReversal(t) => t.req.target \in DOMAIN t.snap.entries
  /\ Postable(t.snap, Date(t), Lines(t))

Accepted(t) ==
  /\ IsReversal(t) => /\ t.req.target \in DOMAIN t.snap.entries
                      /\ Original(t).reversedBy = None
  /\ Postable(t.snap, Date(t), Lines(t))

\* nextNumber for the document, then for the entry: two $inc on counters, on
\* the same one when the document's series is the ledger's own.
DocKey(t) == <<DocFyOf[Date(t)], t.req.series>>
JVKey(t)  == <<FyOf[Date(t)], JV>>

AfterDocument(t) ==
  IF t.req.op = "document"
  THEN [t.snap.counter EXCEPT ![DocKey(t)] = @ + 1]
  ELSE t.snap.counter

\* Mutant: the counter runs the wrong way.
DrawnBackwards(t) == [AfterDocument(t) EXCEPT ![JVKey(t)] = @ - 1]

Drawn(t) == [AfterDocument(t) EXCEPT ![JVKey(t)] = @ + 1]

Writes(t) ==
  [ counters |-> {JVKey(t)} \cup (IF t.req.op = "document" THEN {DocKey(t)} ELSE {}),
    accounts |-> Touched(Lines(t)),
    entries  |-> IF IsReversal(t) THEN {t.req.target} ELSE {} ]

NewEntry(t) ==
  [ no |-> Drawn(t)[JVKey(t)], fy |-> FyOf[Date(t)], date |-> Date(t),
    lines |-> Lines(t),
    doc |-> IF t.req.op = "document"
            THEN [series |-> t.req.series, fy |-> DocFyOf[Date(t)],
                  no |-> AfterDocument(t)[DocKey(t)]]
            ELSE NoDoc,
    reverses |-> IF IsReversal(t) THEN t.req.target ELSE None,
    reversedBy |-> None ]

\* original.status = 'reversed'; original.reversedByEntryId = reversal._id.
\* The two fields move together: reversedBy stands for both.
Stamped(t, id) ==
  IF IsReversal(t)
  THEN [entries EXCEPT ![t.req.target] =
          [Original(t) EXCEPT !.reversedBy = id]]
  ELSE entries

-----------------------------------------------------------------------------
(* Actions *)

\* withTransaction starts a session and the callback takes its snapshot.
Begin(c) ==
  /\ ~Open(c)
  /\ Len(entries) < MaxEntries
  /\ \E req \in Requests :
       /\ req.op = "reverse" => req.target \in DOMAIN entries
       /\ tx' = [tx EXCEPT ![c] = Start(req)]
  /\ UNCHANGED <<db, today>>

\* A TransientTransactionError - a write conflict, a lost primary - makes
\* session.withTransaction run the callback again, on a new snapshot.
Retry(c) ==
  /\ Open(c)
  /\ tx' = [tx EXCEPT ![c] = Start(tx[c].req)]
  /\ UNCHANGED <<db, today>>

\* Mutant: counters and outbox are written without the session.
RejectOutsideTransaction(c) ==
  /\ Open(c)
  /\ ~Accepted(tx[c])
  /\ counter' = [k \in DOMAIN counter |->
                   IF k \in Writes(tx[c]).counters THEN counter[k] + 1 ELSE counter[k]]
  /\ outbox' = outbox \cup {Len(entries) + 1}
  /\ tx' = [tx EXCEPT ![c] = NoTx]
  /\ UNCHANGED <<entries, balance, status, lockedUpto, today>>

\* A guard throws an AppError: the transaction aborts, nothing is written.
Reject(c) ==
  /\ Open(c)
  /\ ~Accepted(tx[c])
  /\ tx' = [tx EXCEPT ![c] = NoTx]
  /\ UNCHANGED <<db, today>>

\* The process dies or the transaction expires before the commit.
Crash(c) ==
  /\ Open(c)
  /\ tx' = [tx EXCEPT ![c] = NoTx]
  /\ UNCHANGED <<db, today>>

Commit(c) ==
  LET t  == tx[c]
      w  == Writes(t)
      id == Len(entries) + 1
  IN
  /\ Open(c)
  /\ Len(entries) < MaxEntries
  /\ Accepted(t)
  /\ ~Conflicts(t, w)
  /\ entries' = Append(Stamped(t, id), NewEntry(t))
  /\ counter' = [k \in DOMAIN counter |->
                   IF k \in w.counters THEN Drawn(t)[k] ELSE counter[k]]
  /\ balance' = [a \in Accounts |->
                   IF a \in w.accounts
                   THEN t.snap.balance[a] + BalanceDelta(a, Lines(t)[a])
                   ELSE balance[a]]
  /\ outbox' = outbox \cup {id}
  /\ tx' = [Publish(w) EXCEPT ![c] = NoTx]
  /\ UNCHANGED <<status, lockedUpto, today>>

\* accountService.update with isActive, and accountService.remove: single
\* document writes outside any transaction.
WriteAccount(a, s) ==
  /\ status[a] # "deleted"
  /\ status[a] # s
  /\ status' = [status EXCEPT ![a] = s]
  /\ tx' = Publish([NothingMissed EXCEPT !.accounts = {a}])
  /\ UNCHANGED <<entries, counter, balance, lockedUpto, outbox, today>>

SetActive(a) == \E s \in {"active", "inactive"} : WriteAccount(a, s)

Remove(a) == a \notin SystemAccounts /\ WriteAccount(a, "deleted")

\* Nothing in the program writes booksLockedUpto: an operator (or a test)
\* sets it on the company document.  No ledger transaction writes that
\* document, so none conflicts with this.
ClosePeriod ==
  /\ \E d \in LockDays : d > lockedUpto /\ lockedUpto' = d
  /\ UNCHANGED <<entries, counter, balance, status, outbox, today, tx>>

Tick ==
  /\ today + 1 \in Days
  /\ today' = today + 1
  /\ UNCHANGED <<db, tx>>

Init ==
  /\ entries = <<>>
  /\ counter = [k \in Years \X Series |-> 0]
  /\ balance = [a \in Accounts |-> 0]
  /\ status = [a \in Accounts |-> "active"]
  /\ lockedUpto = 0
  /\ outbox = {}
  /\ today \in Days
  /\ tx = [c \in Clients |-> NoTx]

Next ==
  \/ \E c \in Clients :
       Begin(c) \/ Retry(c) \/ Reject(c) \/ Crash(c) \/ Commit(c)
  \/ \E a \in Editable : SetActive(a) \/ Remove(a)
  \/ ClosePeriod
  \/ Tick

Spec == Init /\ [][Next]_vars

-----------------------------------------------------------------------------
(* Properties *)

Entry ==
  [ no : Nat, fy : Years, date : Days, lines : [Accounts -> [debit : Int, credit : Int]],
    doc : [series : Series, fy : Years, no : Nat],
    reverses : Nat, reversedBy : Nat ]

Database ==
  [ entries : Seq(Entry), counter : [Years \X Series -> Nat],
    balance : [Accounts -> Int],
    status : [Accounts -> {"active", "inactive", "deleted"}],
    lockedUpto : Nat ]

Transaction ==
  [ req : Requests, clock : Days, snap : Database,
    missed : [ counters : SUBSET (Years \X Series), accounts : SUBSET Accounts,
               entries : SUBSET Nat ] ]

\* The database and every open transaction have the types of the models.
TypeOK ==
  /\ Snapshot \in Database
  /\ outbox \subseteq Nat
  /\ today \in Days
  /\ tx \in [Clients -> Transaction \cup {NoTx}]

\* Snapshot isolation, as the postings rely on it: whatever an open transaction
\* has not missed a write of is still as its snapshot shows it.
SnapshotFresh ==
  \A c \in Clients : Open(c) =>
    LET t == tx[c] IN
    /\ \A k \in (Years \X Series) \ t.missed.counters :
         t.snap.counter[k] = counter[k]
    /\ \A a \in Accounts \ t.missed.accounts :
         t.snap.balance[a] = balance[a] /\ t.snap.status[a] = status[a]
    /\ Len(t.snap.entries) <= Len(entries)
    /\ \A i \in DOMAIN t.snap.entries :
         i \notin t.missed.entries => t.snap.entries[i] = entries[i]

InYear(y) == {i \in DOMAIN entries : entries[i].fy = y}

\* I6 for the journal: in every financial year the entry numbers are exactly
\* 1..n, n the counter, each used once - whatever transactions overlapped,
\* were retried or were abandoned after drawing a number.
GaplessEntryNumbers ==
  \A y \in Years :
    /\ {entries[i].no : i \in InYear(y)} = 1..counter[<<y, JV>>]
    /\ \A i, j \in InYear(y) : entries[i].no = entries[j].no => i = j

Posted(a) == {i \in DOMAIN entries : a \in Touched(entries[i].lines)}

\* What checkCompanyIntegrity recomputes: an account's cached balance is the
\* sum of its journal lines, although postings only ever increment it.
BalancesMatchJournal ==
  \A a \in Accounts :
    balance[a] = SumFunction([i \in Posted(a) |-> BalanceDelta(a, entries[i].lines[a])])

\* I4: an entry is reversed at most once, by an entry with its lines swapped,
\* and the two point at each other - also when two requests race to reverse it.
ReversalsPair ==
  /\ \A i \in DOMAIN entries : entries[i].reversedBy # None =>
       /\ entries[i].reversedBy \in DOMAIN entries
       /\ entries[entries[i].reversedBy].reverses = i
       /\ entries[entries[i].reversedBy].lines = Swap(entries[i].lines)
  /\ \A j \in DOMAIN entries : entries[j].reverses # None =>
       /\ entries[j].reverses < j
       /\ entries[entries[j].reverses].reversedBy = j

\* I4: committed entries are only ever stamped as reversed, once.
JournalAppendOnly ==
  [][ /\ Len(entries) <= Len(entries')
      /\ \A i \in DOMAIN entries :
           /\ entries'[i] = [entries[i] EXCEPT !.reversedBy = entries'[i].reversedBy]
           /\ entries[i].reversedBy # None =>
                entries'[i].reversedBy = entries[i].reversedBy ]_entries

NewEntries == {i \in DOMAIN entries' : i > Len(entries)}

\* An account that is inactive or deleted when an entry commits is not in the
\* entry, although the guard looked at it earlier, on the snapshot: the cached
\* balance makes every posting write, hence conflict on, its accounts.
PostsOnlyToActiveAccounts ==
  [][ \A i \in NewEntries : \A a \in Touched(entries'[i].lines) :
        status[a] = "active" ]_entries

\* booksLockedUpto "is checked by GeneralLedger.post() before every write": an
\* entry enters a closed period only from a transaction that was already open
\* when the period was closed.  (The code gives no more than that.)
OnlyOverlappingPostsAreLate ==
  [][ \A i \in NewEntries : entries'[i].date <= lockedUpto =>
        \E c \in Clients : /\ Open(c)
                           /\ tx[c].snap.lockedUpto < entries'[i].date
                           /\ tx'[c] = NoTx ]_entries

\* Ledger implements Journal: totals are the cached balances, read with the
\* sign of the account's type; last is the counter of the JV series.
J == INSTANCE Journal WITH
       journal <- entries,
       last <- [y \in Years |-> counter[<<y, JV>>]],
       totals <- [a \in Accounts |->
                    IF a \in DebitNormal THEN balance[a] ELSE 0 - balance[a]],
       announced <- outbox

\* Every step of the ledger is a step of the abstract journal, or none: whatever
\* is retried, refused or dies, an entry, its number, its part of the balances,
\* its stamp on the entry it reverses and its event come together or not at all.
ImplementsJournal == J!Spec
=============================================================================
