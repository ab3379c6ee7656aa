---------------------------- MODULE LedgerProofs ----------------------------
(***************************************************************************)
(* Theorems about the ledger, the job that checks it and what is read and  *)
(* exported of it (Ledger, LedgerIntegrity, Reports, Exports), for any     *)
(* number of clients, accounts, drafts, entries, pages and exports.        *)
(***************************************************************************)
EXTENDS LedgerIntegrity, Reports, SequenceTheorems, SumTheorems, TLAPS

USE DEF JV, Series, None

Key == Years \X Series

-----------------------------------------------------------------------------
(* Types *)

LEMMA NoDocType == NoDoc \in [series : Series, fy : Years, no : Nat]
BY DaysAssumption DEF NoDoc

LEMMA SwapType ==
  ASSUME NEW lines \in [Accounts -> [debit : Int, credit : Int]]
  PROVE  Swap(lines) \in [Accounts -> [debit : Int, credit : Int]]
BY DEF Swap

\* The date and lines of an accepted request are well typed: a draft's come
\* from Drafts, a reversal's from the clock and the entry it reverses.
LEMMA RequestType ==
  ASSUME NEW t \in Transaction, Accepted(t)
  PROVE  /\ Date(t) \in Days
         /\ Lines(t) \in [Accounts -> [debit : Int, credit : Int]]
         /\ IsReversal(t) => /\ t.req.target \in DOMAIN t.snap.entries
                             /\ t.req.target \in Nat \ {0}
                             /\ Original(t) \in Entry
                             /\ Original(t).reversedBy = None
         /\ t.req.op = "document" => t.req.series \in DocSeries
<1>1. CASE IsReversal(t)
  <2>1. /\ t.req.target \in DOMAIN t.snap.entries
        /\ t.snap.entries \in Seq(Entry)
        /\ Original(t).reversedBy = None
    BY <1>1 DEF Accepted, Transaction, Database
  <2>2. Original(t) \in Entry /\ t.req.target \in Nat \ {0}
    BY <2>1 DEF Original
  <2>3. Original(t).lines \in [Accounts -> [debit : Int, credit : Int]]
    BY <2>2 DEF Entry
  <2> QED BY <1>1, <2>1, <2>2, <2>3, SwapType DEF Date, Lines, Transaction, IsReversal
<1>2. CASE ~IsReversal(t)
  <2>1. t.req \in Requests BY DEF Transaction
  <2>2. t.req.draft \in Drafts /\ (t.req.op = "document" => t.req.series \in DocSeries)
    BY <1>2, <2>1 DEF Requests, IsReversal
  <2> QED BY <1>2, <2>2, DraftsAssumption DEF Date, Lines
<1> QED BY <1>1, <1>2

\* Drawing numbers keeps the counters natural numbers.
LEMMA DrawnType ==
  ASSUME NEW t \in Transaction, Accepted(t)
  PROVE  /\ JVKey(t) \in Key
         /\ t.req.op = "document" => DocKey(t) \in Key
         /\ AfterDocument(t) \in [Key -> Nat]
         /\ Drawn(t) \in [Key -> Nat]
         /\ Writes(t).counters \subseteq Key
<1>1. Date(t) \in Days /\ (t.req.op = "document" => t.req.series \in DocSeries)
  BY RequestType
<1>2. JVKey(t) \in Key BY <1>1, DaysAssumption DEF JVKey, Key
<1>3. t.req.op = "document" => DocKey(t) \in Key
  BY <1>1, DaysAssumption DEF DocKey, Key
<1>4. t.snap.counter \in [Key -> Nat] BY DEF Transaction, Database, Key
<1>5. AfterDocument(t) \in [Key -> Nat] BY <1>4, <1>3 DEF AfterDocument
<1>6. Drawn(t) \in [Key -> Nat] BY <1>2, <1>5 DEF Drawn
<1>7. Writes(t).counters \subseteq Key BY <1>2, <1>3 DEF Writes
<1> QED BY <1>2, <1>3, <1>5, <1>6, <1>7

LEMMA NewEntryType ==
  ASSUME NEW t \in Transaction, Accepted(t)
  PROVE  NewEntry(t) \in Entry
<1>1. /\ Date(t) \in Days
      /\ Lines(t) \in [Accounts -> [debit : Int, credit : Int]]
      /\ IsReversal(t) => t.req.target \in Nat
      /\ t.req.op = "document" => t.req.series \in DocSeries
  BY RequestType
<1>2. FyOf[Date(t)] \in Years /\ DocFyOf[Date(t)] \in Years
  BY <1>1, DaysAssumption
<1>3. Drawn(t)[JVKey(t)] \in Nat BY DrawnType
<1>4. (IF t.req.op = "document"
       THEN [series |-> t.req.series, fy |-> DocFyOf[Date(t)],
             no |-> AfterDocument(t)[DocKey(t)]]
       ELSE NoDoc) \in [series : Series, fy : Years, no : Nat]
  <2>1. CASE t.req.op = "document" BY <1>1, <1>2, <2>1, DrawnType
  <2>2. CASE t.req.op # "document" BY <2>2, NoDocType
  <2> QED BY <2>1, <2>2
<1>5. (IF IsReversal(t) THEN t.req.target ELSE None) \in Nat BY <1>1
<1> QED BY <1>1, <1>2, <1>3, <1>4, <1>5 DEF NewEntry, Entry

\* Stamping the original changes nothing but its reversedBy.
LEMMA StampedType ==
  ASSUME NEW t \in Transaction, Accepted(t), NEW id \in Nat,
         entries \in Seq(Entry)
  PROVE  /\ Stamped(t, id) \in Seq(Entry)
         /\ Len(Stamped(t, id)) = Len(entries)
<1>1. CASE IsReversal(t)
  <2> DEFINE i == t.req.target
             o == [Original(t) EXCEPT !.reversedBy = id]
  <2>1. o \in Entry BY <1>1, RequestType DEF Entry
  <2>2. Stamped(t, id) = [entries EXCEPT ![i] = o] BY <1>1 DEF Stamped
  <2> HIDE DEF i, o
  <2>3. CASE i \in 1..Len(entries) BY <2>1, <2>2, <2>3, ExceptSeq
  <2>4. CASE i \notin 1..Len(entries)
    <3>1. entries \in [1..Len(entries) -> Entry] OBVIOUS
    <3>2. [entries EXCEPT ![i] = o] = entries BY <3>1, <2>4
    <3> QED BY <2>2, <3>2
  <2> QED BY <2>3, <2>4
<1>2. CASE ~IsReversal(t) BY <1>2 DEF Stamped
<1> QED BY <1>1, <1>2

LEMMA PublishType ==
  ASSUME TypeOK,
         NEW w \in [counters : SUBSET Key, accounts : SUBSET Accounts,
                    entries : SUBSET Nat]
  PROVE  Publish(w) \in [Clients -> Transaction \cup {NoTx}]
<1> SUFFICES ASSUME NEW c \in Clients, Open(c)
             PROVE  Missing(tx[c], w) \in Transaction
  BY DEF Publish, TypeOK, Open
<1>1. tx[c] \in Transaction BY DEF TypeOK, Open
<1> QED BY <1>1 DEF Missing, Transaction, Key

LEMMA StartType ==
  ASSUME TypeOK, NEW req \in Requests
  PROVE  Start(req) \in Transaction
BY DEF TypeOK, Start, Transaction, NothingMissed

LEMMA WritesType ==
  ASSUME NEW t \in Transaction, Accepted(t)
  PROVE  Writes(t) \in [counters : SUBSET Key, accounts : SUBSET Accounts,
                        entries : SUBSET Nat]
<1>1. Writes(t).counters \subseteq Key BY DrawnType
<1>2. Touched(Lines(t)) \subseteq Accounts BY DEF Touched
<1>3. (IF IsReversal(t) THEN {t.req.target} ELSE {}) \subseteq Nat BY RequestType
<1> QED BY <1>1, <1>2, <1>3 DEF Writes

LEMMA CommitType ==
  ASSUME TypeOK, NEW c \in Clients, Commit(c)
  PROVE  TypeOK'
<1> DEFINE t == tx[c]
           id == Len(entries) + 1
<1>1. t \in Transaction /\ Accepted(t) /\ entries \in Seq(Entry) /\ id \in Nat
  BY DEF Commit, TypeOK, Open, Database, Snapshot
<1> HIDE DEF t, id
<1>2. entries' \in Seq(Entry)
  <2>1. entries' = Append(Stamped(t, id), NewEntry(t)) BY DEF Commit, t, id
  <2> QED BY <1>1, <2>1, StampedType, NewEntryType
<1>3. counter' \in [Key -> Nat]
  <2>1. counter \in [Key -> Nat] BY DEF TypeOK, Snapshot, Database, Key
  <2>2. Drawn(t) \in [Key -> Nat] BY <1>1, DrawnType
  <2>3. counter' = [k \in DOMAIN counter |->
                      IF k \in Writes(t).counters THEN Drawn(t)[k] ELSE counter[k]]
    BY DEF Commit, t
  <2> QED BY <2>1, <2>2, <2>3
<1>4. balance' \in [Accounts -> Int]
  <2>1. balance \in [Accounts -> Int] /\ t.snap.balance \in [Accounts -> Int]
    BY <1>1 DEF TypeOK, Snapshot, Database, Transaction
  <2>2. Lines(t) \in [Accounts -> [debit : Int, credit : Int]]
    BY <1>1, RequestType
  <2>3. \A a \in Accounts : BalanceDelta(a, Lines(t)[a]) \in Int
    BY <2>2 DEF BalanceDelta
  <2>4. balance' = [a \in Accounts |->
                      IF a \in Writes(t).accounts
                      THEN t.snap.balance[a] + BalanceDelta(a, Lines(t)[a])
                      ELSE balance[a]]
    BY DEF Commit, t
  <2> QED BY <2>1, <2>3, <2>4
<1>5. UNCHANGED <<status, lockedUpto, today>> BY DEF Commit
<1>6. Snapshot' \in Database
  BY <1>2, <1>3, <1>4, <1>5 DEF TypeOK, Snapshot, Database, Key
<1>7. outbox' \subseteq Nat BY <1>1 DEF Commit, TypeOK, id
<1>8. tx' \in [Clients -> Transaction \cup {NoTx}]
  <2>1. Publish(Writes(t)) \in [Clients -> Transaction \cup {NoTx}]
    BY <1>1, WritesType, PublishType
  <2> QED BY <2>1 DEF Commit, t
<1> QED BY <1>5, <1>6, <1>7, <1>8 DEF TypeOK

LEMMA WriteAccountType ==
  ASSUME TypeOK, NEW a \in Accounts,
         NEW s \in {"active", "inactive", "deleted"}, WriteAccount(a, s)
  PROVE  TypeOK'
<1>1. status' \in [Accounts -> {"active", "inactive", "deleted"}]
  BY DEF WriteAccount, TypeOK, Snapshot, Database
<1>2. [NothingMissed EXCEPT !.accounts = {a}] \in
        [counters : SUBSET Key, accounts : SUBSET Accounts, entries : SUBSET Nat]
  BY DEF NothingMissed
<1>3. tx' \in [Clients -> Transaction \cup {NoTx}]
  BY <1>2, PublishType DEF WriteAccount
<1>4. Snapshot' \in Database
  BY <1>1 DEF WriteAccount, TypeOK, Snapshot, Database
<1> QED BY <1>3, <1>4 DEF WriteAccount, TypeOK

LEMMA TypeStep ==
  ASSUME TypeOK, [Next]_vars
  PROVE  TypeOK'
<1>1. ASSUME NEW c \in Clients, Begin(c) PROVE TypeOK'
  <2>1. PICK req \in Requests : tx' = [tx EXCEPT ![c] = Start(req)]
    BY <1>1 DEF Begin
  <2>2. Start(req) \in Transaction BY StartType
  <2> QED BY <1>1, <2>1, <2>2 DEF Begin, TypeOK, db, Snapshot, Database
<1>2. ASSUME NEW c \in Clients, Retry(c) PROVE TypeOK'
  <2>1. tx[c].req \in Requests BY <1>2 DEF Retry, TypeOK, Open, Transaction
  <2>2. Start(tx[c].req) \in Transaction BY <2>1, StartType
  <2> QED BY <1>2, <2>2 DEF Retry, TypeOK, db, Snapshot, Database
<1>3. ASSUME NEW c \in Clients, Reject(c) \/ Crash(c) PROVE TypeOK'
  BY <1>3 DEF Reject, Crash, TypeOK, db, Snapshot, Database
<1>4. ASSUME NEW c \in Clients, Commit(c) PROVE TypeOK'
  BY <1>4, CommitType
<1>5. ASSUME NEW a \in Editable, SetActive(a) \/ Remove(a) PROVE TypeOK'
  BY <1>5, WriteAccountType, AccountsAssumption DEF SetActive, Remove
<1>6. CASE ClosePeriod
  BY <1>6, DaysAssumption DEF ClosePeriod, TypeOK, Snapshot, Database
<1>7. CASE Tick
  BY <1>7 DEF Tick, TypeOK, db, Snapshot, Database
<1>8. CASE UNCHANGED vars
  BY <1>8 DEF vars, TypeOK, Snapshot, Database
<1> QED BY <1>1, <1>2, <1>3, <1>4, <1>5, <1>6, <1>7, <1>8 DEF Next

LEMMA TypeInit == Init => TypeOK
BY DEF Init, TypeOK, Snapshot, Database

\* Type correctness (TypeOK): whatever is posted, reversed, retried or
\* abandoned, the collections and the open transactions keep their types.
THEOREM TypeCorrect == Spec => []TypeOK
BY TypeInit, TypeStep, PTL DEF Spec

-----------------------------------------------------------------------------
(* What a commit does, said of the current state instead of the snapshot *)

ExceptReversedBy(e, id) == [e EXCEPT !.reversedBy = id]

LEMMA ExceptReversedByType ==
  ASSUME NEW e \in Entry, NEW id \in Nat
  PROVE  ExceptReversedBy(e, id) \in Entry
BY DEF ExceptReversedBy, Entry

LEMMA CommitEntries ==
  ASSUME TypeOK, SnapshotFresh, NEW c \in Clients, Commit(c)
  PROVE  /\ Len(entries') = Len(entries) + 1
         /\ entries'[Len(entries) + 1] = NewEntry(tx[c])
         /\ NewEntry(tx[c]) \in Entry
         /\ IsReversal(tx[c]) =>
              /\ tx[c].req.target \in DOMAIN entries
              /\ entries[tx[c].req.target] = Original(tx[c])
              /\ Original(tx[c]).reversedBy = None
         /\ \A i \in DOMAIN entries :
              entries'[i] = IF IsReversal(tx[c]) /\ i = tx[c].req.target
                            THEN ExceptReversedBy(entries[i], Len(entries) + 1)
                            ELSE entries[i]
<1> DEFINE t == tx[c]
           id == Len(entries) + 1
           i  == t.req.target
<1>1. t \in Transaction /\ Accepted(t) /\ entries \in Seq(Entry) /\ id \in Nat
  BY DEF Commit, TypeOK, Open, Database, Snapshot
<1>2. entries' = Append(Stamped(t, id), NewEntry(t)) BY DEF Commit
<1>3. NewEntry(t) \in Entry BY <1>1, NewEntryType
<1>4. Stamped(t, id) \in Seq(Entry) /\ Len(Stamped(t, id)) = Len(entries)
  BY <1>1, StampedType
<1>5. IsReversal(t) => /\ i \in DOMAIN entries
                       /\ entries[i] = Original(t)
                       /\ Original(t).reversedBy = None
  <2> SUFFICES ASSUME IsReversal(t)
               PROVE  /\ i \in DOMAIN entries
                      /\ entries[i] = Original(t)
                      /\ Original(t).reversedBy = None
    OBVIOUS
  <2>1. i \in DOMAIN t.snap.entries /\ Original(t).reversedBy = None
    BY <1>1, RequestType
  <2>2. i \notin t.missed.entries BY DEF Commit, Conflicts, Writes
  <2>3. t.snap.entries \in Seq(Entry) BY <1>1 DEF Transaction, Database
  <2>4. Len(t.snap.entries) <= Len(entries) /\ t.snap.entries[i] = entries[i]
    BY <2>1, <2>2 DEF SnapshotFresh, Commit
  <2> QED BY <1>1, <2>1, <2>3, <2>4 DEF Original
<1>6. \A j \in DOMAIN entries :
        Stamped(t, id)[j] = IF IsReversal(t) /\ j = i
                            THEN ExceptReversedBy(entries[j], id) ELSE entries[j]
  <2>1. CASE IsReversal(t)
    BY <1>1, <1>5, <2>1 DEF Stamped, ExceptReversedBy
  <2>2. CASE ~IsReversal(t) BY <2>2 DEF Stamped
  <2> QED BY <2>1, <2>2
<1> HIDE DEF t, id, i
<1>7. Len(entries') = id /\ entries'[id] = NewEntry(t)
  BY <1>1, <1>2, <1>3, <1>4 DEF id
<1>8. \A j \in DOMAIN entries : entries'[j] = Stamped(t, id)[j]
  BY <1>1, <1>2, <1>3, <1>4
<1> QED BY <1>3, <1>5, <1>6, <1>7, <1>8 DEF t, id, i

\* The commit moves the counters it draws from by one, from their current value.
LEMMA CommitCounters ==
  ASSUME TypeOK, SnapshotFresh, NEW c \in Clients, Commit(c), JV \notin DocSeries
  PROVE  /\ JVKey(tx[c]) \in Key
         /\ NewEntry(tx[c]).fy = JVKey(tx[c])[1]
         /\ NewEntry(tx[c]).no = counter[JVKey(tx[c])] + 1
         /\ \A y \in Years :
              counter'[<<y, JV>>] = IF <<y, JV>> = JVKey(tx[c])
                                    THEN counter[<<y, JV>>] + 1
                                    ELSE counter[<<y, JV>>]
<1> DEFINE t == tx[c]
           k == JVKey(t)
<1>1. t \in Transaction /\ Accepted(t) /\ counter \in [Key -> Nat]
  BY DEF Commit, TypeOK, Open, Database, Snapshot, Key
<1>2. /\ k \in Key
      /\ AfterDocument(t) \in [Key -> Nat]
      /\ Drawn(t) = [AfterDocument(t) EXCEPT ![k] = @ + 1]
      /\ t.snap.counter \in [Key -> Nat]
  BY <1>1, DrawnType DEF Drawn, Transaction, Database, Key
<1>3. t.req.op = "document" => t.req.series # JV BY <1>1, RequestType
<1>4. t.req.op = "document" => \A y \in Years : DocKey(t) # <<y, JV>>
  BY <1>3 DEF DocKey
<1>5. k = <<FyOf[Date(t)], JV>> /\ FyOf[Date(t)] \in Years
  BY <1>1, RequestType, DaysAssumption DEF JVKey
<1>6. \A y \in Years : AfterDocument(t)[<<y, JV>>] = t.snap.counter[<<y, JV>>]
  BY <1>2, <1>4 DEF AfterDocument, Key
<1>7. t.snap.counter[k] = counter[k]
  <2>1. k \in Writes(t).counters BY DEF Writes
  <2>2. k \notin t.missed.counters BY <2>1 DEF Commit, Conflicts
  <2> QED BY <1>2, <2>2 DEF SnapshotFresh, Commit, Key
<1>8. Drawn(t)[k] = counter[k] + 1 BY <1>2, <1>5, <1>6, <1>7
<1>9. ASSUME NEW y \in Years
      PROVE counter'[<<y, JV>>] = IF <<y, JV>> = k THEN counter[<<y, JV>>] + 1
                                  ELSE counter[<<y, JV>>]
  <2>1. counter'[<<y, JV>>] = IF <<y, JV>> \in Writes(t).counters
                              THEN Drawn(t)[<<y, JV>>] ELSE counter[<<y, JV>>]
    BY <1>1 DEF Commit, Key
  <2>2. <<y, JV>> \in Writes(t).counters <=> <<y, JV>> = k
    BY <1>4 DEF Writes
  <2> QED BY <1>8, <2>1, <2>2
<1>10. NewEntry(t).fy = k[1] /\ NewEntry(t).no = Drawn(t)[k]
  BY <1>5 DEF NewEntry
<1> QED BY <1>2, <1>8, <1>9, <1>10

-----------------------------------------------------------------------------
(* Snapshot isolation *)

LEMMA StartFresh ==
  ASSUME TypeOK, SnapshotFresh, NEW c \in Clients, NEW req,
         tx' = [tx EXCEPT ![c] = Start(req)], UNCHANGED db
  PROVE  SnapshotFresh'
<1> SUFFICES ASSUME NEW d \in Clients, tx'[d] # NoTx
             PROVE LET t == tx'[d] IN
               /\ \A k \in (Years \X Series) \ t.missed.counters :
                    t.snap.counter[k] = counter'[k]
               /\ \A a \in Accounts \ t.missed.accounts :
                    t.snap.balance[a] = balance'[a] /\ t.snap.status[a] = status'[a]
               /\ Len(t.snap.entries) <= Len(entries')
               /\ \A i \in DOMAIN t.snap.entries :
                    i \notin t.missed.entries => t.snap.entries[i] = entries'[i]
  BY DEF SnapshotFresh, Open
<1>1. CASE d = c
  <2>1. tx'[d] = Start(req) BY <1>1 DEF TypeOK
  <2> QED BY <2>1 DEF Start, Snapshot, NothingMissed, db, TypeOK, Database
<1>2. CASE d # c
  <2>1. tx'[d] = tx[d] BY <1>2 DEF TypeOK
  <2> QED BY <2>1 DEF SnapshotFresh, Open, db
<1> QED BY <1>1, <1>2

\* A transaction that publishes its writes leaves the others' snapshots fresh.
LEMMA PublishFresh ==
  ASSUME TypeOK, SnapshotFresh,
         NEW w, NEW d \in Clients, Open(d), tx'[d] = Missing(tx[d], w),
         \A k \in Key \ w.counters : counter'[k] = counter[k],
         \A a \in Accounts \ w.accounts :
           balance'[a] = balance[a] /\ status'[a] = status[a],
         Len(entries) <= Len(entries'),
         Len(entries') \in Nat,
         \A i \in DOMAIN entries : i \notin w.entries => entries'[i] = entries[i]
  PROVE  LET t == tx'[d] IN
           /\ \A k \in (Years \X Series) \ t.missed.counters :
                t.snap.counter[k] = counter'[k]
           /\ \A a \in Accounts \ t.missed.accounts :
                t.snap.balance[a] = balance'[a] /\ t.snap.status[a] = status'[a]
           /\ Len(t.snap.entries) <= Len(entries')
           /\ \A i \in DOMAIN t.snap.entries :
                i \notin t.missed.entries => t.snap.entries[i] = entries'[i]
<1>1. tx[d] \in Transaction BY DEF TypeOK, Open
<1>2. /\ tx'[d].snap = tx[d].snap
      /\ tx'[d].missed = [counters |-> tx[d].missed.counters \cup w.counters,
                          accounts |-> tx[d].missed.accounts \cup w.accounts,
                          entries  |-> tx[d].missed.entries  \cup w.entries]
  BY <1>1 DEF Missing, Transaction
<1>3. entries \in Seq(Entry) /\ tx[d].snap.entries \in Seq(Entry)
  BY <1>1 DEF TypeOK, Snapshot, Database, Transaction
<1>4. Len(tx[d].snap.entries) <= Len(entries) BY DEF SnapshotFresh
<1>5. \A i \in DOMAIN tx[d].snap.entries : i \in DOMAIN entries
  BY <1>3, <1>4
<1> QED BY <1>2, <1>3, <1>4, <1>5 DEF SnapshotFresh, Key

LEMMA CommitFresh ==
  ASSUME TypeOK, SnapshotFresh, NEW c \in Clients, Commit(c)
  PROVE  SnapshotFresh'
<1> DEFINE w == Writes(tx[c])
<1> SUFFICES ASSUME NEW d \in Clients, tx'[d] # NoTx
             PROVE LET t == tx'[d] IN
               /\ \A k \in (Years \X Series) \ t.missed.counters :
                    t.snap.counter[k] = counter'[k]
               /\ \A a \in Accounts \ t.missed.accounts :
                    t.snap.balance[a] = balance'[a] /\ t.snap.status[a] = status'[a]
               /\ Len(t.snap.entries) <= Len(entries')
               /\ \A i \in DOMAIN t.snap.entries :
                    i \notin t.missed.entries => t.snap.entries[i] = entries'[i]
  BY DEF SnapshotFresh, Open
<1>1. d # c /\ Open(d) /\ tx'[d] = Missing(tx[d], w)
  BY DEF Commit, Publish, Open, TypeOK
<1>2. \A k \in Key \ w.counters : counter'[k] = counter[k]
  BY DEF Commit, TypeOK, Snapshot, Database, Key
<1>3. \A a \in Accounts \ w.accounts :
        balance'[a] = balance[a] /\ status'[a] = status[a]
  BY DEF Commit
<1>4. Len(entries') = Len(entries) + 1 /\ Len(entries) \in Nat
  BY CommitEntries DEF TypeOK, Snapshot, Database
<1>5. \A i \in DOMAIN entries : i \notin w.entries => entries'[i] = entries[i]
  BY CommitEntries DEF Writes
<1> HIDE DEF w
<1>6. Len(entries) <= Len(entries') /\ Len(entries') \in Nat BY <1>4
<1> QED BY <1>1, <1>2, <1>3, <1>5, <1>6, PublishFresh

LEMMA WriteAccountFresh ==
  ASSUME TypeOK, SnapshotFresh, NEW a \in Accounts, NEW s, WriteAccount(a, s)
  PROVE  SnapshotFresh'
<1> DEFINE w == [NothingMissed EXCEPT !.accounts = {a}]
<1> SUFFICES ASSUME NEW d \in Clients, tx'[d] # NoTx
             PROVE LET t == tx'[d] IN
               /\ \A k \in (Years \X Series) \ t.missed.counters :
                    t.snap.counter[k] = counter'[k]
               /\ \A b \in Accounts \ t.missed.accounts :
                    t.snap.balance[b] = balance'[b] /\ t.snap.status[b] = status'[b]
               /\ Len(t.snap.entries) <= Len(entries')
               /\ \A i \in DOMAIN t.snap.entries :
                    i \notin t.missed.entries => t.snap.entries[i] = entries'[i]
  BY DEF SnapshotFresh, Open
<1>1. Open(d) /\ tx'[d] = Missing(tx[d], w)
  BY DEF WriteAccount, Publish, Open
<1>2. /\ \A k \in Key \ w.counters : counter'[k] = counter[k]
      /\ \A i \in DOMAIN entries : i \notin w.entries => entries'[i] = entries[i]
      /\ Len(entries) <= Len(entries') /\ Len(entries') \in Nat
  BY DEF WriteAccount, TypeOK, Snapshot, Database
<1>3. \A b \in Accounts \ w.accounts :
        balance'[b] = balance[b] /\ status'[b] = status[b]
  BY DEF WriteAccount, NothingMissed, TypeOK, Snapshot, Database
<1> HIDE DEF w
<1> QED BY <1>1, <1>2, <1>3, PublishFresh

LEMMA FreshStep ==
  ASSUME TypeOK, SnapshotFresh, [Next]_vars
  PROVE  SnapshotFresh'
<1>1. ASSUME NEW c \in Clients, Begin(c) \/ Retry(c) PROVE SnapshotFresh'
  BY <1>1, StartFresh DEF Begin, Retry
<1>2. ASSUME NEW c \in Clients, Reject(c) \/ Crash(c) PROVE SnapshotFresh'
  <2>1. tx' = [tx EXCEPT ![c] = NoTx] /\ UNCHANGED db
    BY <1>2 DEF Reject, Crash
  <2>2. \A d \in Clients : tx'[d] # NoTx => tx'[d] = tx[d]
    BY <2>1 DEF TypeOK
  <2> QED BY <2>1, <2>2 DEF SnapshotFresh, Open, db
<1>3. ASSUME NEW c \in Clients, Commit(c) PROVE SnapshotFresh'
  BY <1>3, CommitFresh
<1>4. ASSUME NEW a \in Editable, SetActive(a) \/ Remove(a) PROVE SnapshotFresh'
  BY <1>4, WriteAccountFresh, AccountsAssumption DEF SetActive, Remove
<1>5. CASE ClosePeriod \/ Tick \/ UNCHANGED vars
  BY <1>5 DEF ClosePeriod, Tick, vars, db, SnapshotFresh, Open
<1> QED BY <1>1, <1>2, <1>3, <1>4, <1>5 DEF Next

LEMMA FreshInit == Init => SnapshotFresh
BY DEF Init, SnapshotFresh, Open

\* Snapshot isolation (SnapshotFresh): what an open transaction has not missed
\* a write of is still as it read it, so that a commit without conflict may
\* compute from its snapshot as if it ran alone.
THEOREM SnapshotIsolation == Spec => []SnapshotFresh
BY FreshInit, FreshStep, TypeCorrect, PTL DEF Spec

-----------------------------------------------------------------------------
(* Properties of the journal.  Only Commit touches it. *)

LEMMA OnlyCommitWrites ==
  ASSUME [Next]_vars
  PROVE  \/ \E c \in Clients : Commit(c)
         \/ UNCHANGED <<entries, counter, balance, outbox>>
BY DEF Next, vars, db, Begin, Retry, Reject, Crash, SetActive, Remove,
       WriteAccount, ClosePeriod, Tick

\* I4 (JournalAppendOnly): no step rewrites or drops a committed entry; the only
\* change is the stamp of its reversal, once.
THEOREM AppendOnly == Spec => JournalAppendOnly
<1> DEFINE A == /\ Len(entries) <= Len(entries')
                /\ \A i \in DOMAIN entries :
                     /\ entries'[i] = [entries[i] EXCEPT !.reversedBy =
                                         entries'[i].reversedBy]
                     /\ entries[i].reversedBy # None =>
                          entries'[i].reversedBy = entries[i].reversedBy
<1>1. TypeOK /\ SnapshotFresh /\ [Next]_vars => [A]_entries
  <2> SUFFICES ASSUME TypeOK, SnapshotFresh, NEW c \in Clients, Commit(c) PROVE A
    BY OnlyCommitWrites
  <2>1. entries \in Seq(Entry) BY DEF TypeOK, Snapshot, Database
  <2>2. Len(entries') = Len(entries) + 1 BY CommitEntries
  <2>3. ASSUME NEW i \in DOMAIN entries
        PROVE  /\ entries'[i] = [entries[i] EXCEPT !.reversedBy =
                                   entries'[i].reversedBy]
               /\ entries[i].reversedBy # None =>
                    entries'[i].reversedBy = entries[i].reversedBy
    <3>1. entries[i] \in Entry BY <2>1
    <3>2. entries'[i] = IF IsReversal(tx[c]) /\ i = tx[c].req.target
                        THEN ExceptReversedBy(entries[i], Len(entries) + 1)
                        ELSE entries[i]
      BY CommitEntries
    <3>3. IsReversal(tx[c]) /\ i = tx[c].req.target => entries[i].reversedBy = None
      BY CommitEntries
    <3> QED BY <3>1, <3>2, <3>3 DEF ExceptReversedBy, Entry
  <2> QED BY <2>1, <2>2, <2>3
<1> QED BY <1>1, TypeCorrect, SnapshotIsolation, PTL DEF Spec, JournalAppendOnly

\* What gapless numbering says, element by element.
Numbered ==
  /\ \A i \in DOMAIN entries :
       entries[i].no \in 1..counter[<<entries[i].fy, JV>>]
  /\ \A y \in Years : \A n \in 1..counter[<<y, JV>>] :
       \E i \in DOMAIN entries : entries[i].fy = y /\ entries[i].no = n
  /\ \A i, j \in DOMAIN entries :
       entries[i].fy = entries[j].fy /\ entries[i].no = entries[j].no => i = j

LEMMA NumberedIsGapless == TypeOK /\ Numbered => GaplessEntryNumbers
BY DEF Numbered, GaplessEntryNumbers, InYear

LEMMA CommitNumbered ==
  ASSUME TypeOK, SnapshotFresh, Numbered, NEW c \in Clients, Commit(c),
         JV \notin DocSeries
  PROVE  Numbered'
<1> DEFINE n == Len(entries)
           e == NewEntry(tx[c])
           k == JVKey(tx[c])
<1>1. /\ entries \in Seq(Entry) /\ n \in Nat
      /\ counter \in [Key -> Nat]
      /\ e \in Entry
  BY CommitEntries DEF TypeOK, Snapshot, Database, Key
<1>2. /\ Len(entries') = n + 1 /\ entries'[n + 1] = e
      /\ entries' \in Seq(Entry)
      /\ \A i \in 1..n : /\ entries'[i].no = entries[i].no
                         /\ entries'[i].fy = entries[i].fy
                         /\ entries[i].fy \in Years
                         /\ entries[i].no \in Nat
  <2>1. entries' \in Seq(Entry) BY CommitType DEF TypeOK, Snapshot, Database
  <2>2. ASSUME NEW i \in 1..n
        PROVE /\ entries'[i].no = entries[i].no /\ entries'[i].fy = entries[i].fy
              /\ entries[i].fy \in Years /\ entries[i].no \in Nat
    <3>1. entries[i] \in Entry BY <1>1
    <3>2. entries'[i] = entries[i] \/ entries'[i] = ExceptReversedBy(entries[i], n + 1)
      BY <1>1, CommitEntries
    <3> QED BY <3>1, <3>2 DEF ExceptReversedBy, Entry
  <2> QED BY <2>1, <2>2, CommitEntries
<1>3. /\ k = <<e.fy, JV>> /\ e.fy \in Years
      /\ e.no = counter[k] + 1
      /\ \A y \in Years : counter'[<<y, JV>>] =
           IF <<y, JV>> = k THEN counter[<<y, JV>>] + 1 ELSE counter[<<y, JV>>]
  BY <1>1, CommitCounters DEF JVKey, Entry
<1> HIDE DEF n, e, k
<1>4. counter[k] \in Nat /\ \A y \in Years : counter[<<y, JV>>] \in Nat
  BY <1>1, <1>3 DEF Key
<1>5. \A i \in 1..n : entries[i].no \in 1..counter[<<entries[i].fy, JV>>]
  BY <1>1, <1>2 DEF Numbered, n
<1>6. \A i \in 1..n+1 : entries'[i].no \in 1..counter'[<<entries'[i].fy, JV>>]
  <2> TAKE i \in 1..n+1
  <2>1. CASE i = n + 1 BY SMTT(30), <1>2, <1>3, <1>4, <2>1
  <2>2. CASE i \in 1..n
    <3> DEFINE y == entries[i].fy
    <3>1. /\ entries'[i].no = entries[i].no /\ entries'[i].fy = y /\ y \in Years
          /\ entries[i].no \in Nat
      BY <1>2, <2>2
    <3>2. entries[i].no \in 1..counter[<<y, JV>>] BY <1>5, <2>2
    <3> HIDE DEF y
    <3>3. counter[<<y, JV>>] \in Nat BY <1>4, <3>1
    <3>4. counter'[<<y, JV>>] \in {counter[<<y, JV>>], counter[<<y, JV>>] + 1}
      BY <1>3, <3>1
    <3> QED BY <3>1, <3>2, <3>3, <3>4
  <2> QED BY <1>1, <2>1, <2>2
<1>7. ASSUME NEW y \in Years, NEW m \in 1..counter'[<<y, JV>>]
      PROVE  \E i \in 1..n+1 : entries'[i].fy = y /\ entries'[i].no = m
  <2>1. CASE <<y, JV>> = k /\ m = counter[k] + 1
    BY <1>1, <1>2, <1>3, <2>1
  <2>2. CASE ~(<<y, JV>> = k /\ m = counter[k] + 1)
    <3>1. m \in 1..counter[<<y, JV>>]
      <4>1. CASE <<y, JV>> = k BY <1>3, <1>4, <2>2, <4>1
      <4>2. CASE <<y, JV>> # k BY <1>3, <4>2
      <4> QED BY <4>1, <4>2
    <3>2. \E i \in DOMAIN entries : entries[i].fy = y /\ entries[i].no = m
      BY <3>1 DEF Numbered
    <3>3. DOMAIN entries = 1..n BY <1>1 DEF n
    <3>4. PICK i \in 1..n : entries[i].fy = y /\ entries[i].no = m
      BY <3>2, <3>3
    <3> QED BY <1>1, <1>2, <3>4
  <2> QED BY <2>1, <2>2
<1>8. ASSUME NEW i \in 1..n+1, NEW j \in 1..n+1,
             entries'[i].fy = entries'[j].fy, entries'[i].no = entries'[j].no
      PROVE  i = j
  <2>1. CASE i \in 1..n /\ j \in 1..n
    BY <1>1, <1>2, <1>8, <2>1 DEF Numbered, n
  <2>2. CASE i = n + 1 /\ j \in 1..n
    <3>1. entries[j].fy = e.fy /\ entries[j].no = counter[k] + 1
      BY <1>2, <1>3, <1>8, <2>2
    <3>2. entries[j].no \in 1..counter[k] BY <1>3, <1>5, <2>2, <3>1
    <3> QED BY <1>4, <3>1, <3>2
  <2>3. CASE j = n + 1 /\ i \in 1..n
    <3>1. entries[i].fy = e.fy /\ entries[i].no = counter[k] + 1
      BY <1>2, <1>3, <1>8, <2>3
    <3>2. entries[i].no \in 1..counter[k] BY <1>3, <1>5, <2>3, <3>1
    <3> QED BY <1>4, <3>1, <3>2
  <2> QED BY <1>1, <2>1, <2>2, <2>3
<1>9. DOMAIN entries' = 1..n+1 BY <1>2
<1> QED BY <1>6, <1>7, <1>8, <1>9 DEF Numbered

\* I6 (GaplessEntryNumbers): the numbers of each year's entries are exactly
\* 1..n, each used once - provided no document shares the JV series.
THEOREM GaplessNumbering ==
  ASSUME JV \notin DocSeries
  PROVE  Spec => []GaplessEntryNumbers
<1>1. Init => Numbered BY DaysAssumption DEF Init, Numbered
<1>2. TypeOK /\ SnapshotFresh /\ Numbered /\ [Next]_vars => Numbered'
  <2> SUFFICES ASSUME TypeOK, SnapshotFresh, Numbered, [Next]_vars PROVE Numbered'
    OBVIOUS
  <2>1. CASE \E c \in Clients : Commit(c) BY <2>1, CommitNumbered
  <2>2. CASE UNCHANGED <<entries, counter>> BY <2>2 DEF Numbered
  <2> QED BY <2>1, <2>2, OnlyCommitWrites
<1> QED BY <1>1, <1>2, NumberedIsGapless, TypeCorrect, SnapshotIsolation, PTL DEF Spec

LEMMA CommitReversals ==
  ASSUME TypeOK, SnapshotFresh, ReversalsPair, NEW c \in Clients, Commit(c)
  PROVE  ReversalsPair'
<1> DEFINE n == Len(entries)
           e == NewEntry(tx[c])
           r == IsReversal(tx[c])
           g == tx[c].req.target
<1>1. /\ entries \in Seq(Entry) /\ entries' \in Seq(Entry)
      /\ n \in Nat /\ DOMAIN entries = 1..n /\ DOMAIN entries' = 1..n+1
      /\ entries'[n + 1] = e /\ e \in Entry
      /\ r => g \in 1..n /\ entries[g].reversedBy = 0
  BY CommitType, CommitEntries DEF TypeOK, Snapshot, Database
<1>2. /\ r => e.reverses = g /\ e.lines = Swap(entries[g].lines)
      /\ ~r => e.reverses = 0
      /\ e.reversedBy = 0
  BY CommitEntries DEF NewEntry, Lines
<1>3. ASSUME NEW i \in 1..n
      PROVE /\ entries'[i].reverses = entries[i].reverses
            /\ entries'[i].lines = entries[i].lines
            /\ entries'[i].reversedBy =
                 IF r /\ i = g THEN n + 1 ELSE entries[i].reversedBy
            /\ entries[i].reverses \in Nat /\ entries[i].reversedBy \in Nat
  <2>1. entries[i] \in Entry BY <1>1
  <2>2. entries'[i] = IF r /\ i = g THEN ExceptReversedBy(entries[i], n + 1)
                      ELSE entries[i]
    BY <1>1, CommitEntries
  <2> QED BY <2>1, <2>2 DEF ExceptReversedBy, Entry
<1> HIDE DEF n, e, r, g
<1>4. ASSUME NEW i \in 1..n+1, entries'[i].reversedBy # 0
      PROVE /\ entries'[i].reversedBy \in 1..n+1
            /\ entries'[entries'[i].reversedBy].reverses = i
            /\ entries'[entries'[i].reversedBy].lines = Swap(entries'[i].lines)
  <2>1. i \in 1..n BY <1>1, <1>2, <1>4
  <2>2. CASE r /\ i = g BY <1>1, <1>2, <1>3, <2>1, <2>2
  <2>3. CASE ~(r /\ i = g)
    <3>1. entries'[i].reversedBy = entries[i].reversedBy BY <1>3, <2>1, <2>3
    <3>2. /\ entries[i].reversedBy \in 1..n
          /\ entries[entries[i].reversedBy].reverses = i
          /\ entries[entries[i].reversedBy].lines = Swap(entries[i].lines)
      BY <1>1, <1>4, <2>1, <3>1 DEF ReversalsPair
    <3> QED BY <1>1, <1>3, <2>1, <3>1, <3>2
  <2> QED BY <2>2, <2>3
<1>5. ASSUME NEW j \in 1..n+1, entries'[j].reverses # 0
      PROVE /\ entries'[j].reverses < j
            /\ entries'[entries'[j].reverses].reversedBy = j
  <2>1. CASE j = n + 1
    <3>1. r /\ e.reverses = g /\ g \in 1..n BY <1>1, <1>2, <1>5, <2>1
    <3>2. entries'[j].reverses = g BY <1>1, <2>1, <3>1
    <3>3. entries'[g].reversedBy = n + 1 BY <1>3, <3>1
    <3> QED BY <1>1, <2>1, <3>1, <3>2, <3>3
  <2>2. CASE j \in 1..n
    <3>1. entries'[j].reverses = entries[j].reverses BY <1>3, <2>2
    <3>2. entries[j].reverses < j /\ entries[entries[j].reverses].reversedBy = j
      BY <1>1, <1>5, <2>2, <3>1 DEF ReversalsPair
    <3>3. entries[j].reverses \in 1..n BY <1>1, <1>3, <1>5, <2>2, <3>1, <3>2
    <3>4. ~(r /\ entries[j].reverses = g) BY <1>1, <2>2, <3>2
    <3> QED BY <1>3, <3>1, <3>2, <3>3, <3>4
  <2> QED BY <1>1, <2>1, <2>2
<1> QED BY <1>1, <1>4, <1>5 DEF ReversalsPair

\* I4 (ReversalsPair): a reversed entry has exactly one reversal, its mirror
\* image, however many requests raced to reverse it.
THEOREM ReversedAtMostOnce == Spec => []ReversalsPair
<1>1. Init => ReversalsPair BY DEF Init, ReversalsPair
<1>2. TypeOK /\ SnapshotFresh /\ ReversalsPair /\ [Next]_vars => ReversalsPair'
  <2> SUFFICES ASSUME TypeOK, SnapshotFresh, ReversalsPair, [Next]_vars
               PROVE  ReversalsPair'
    OBVIOUS
  <2>1. CASE \E c \in Clients : Commit(c) BY <2>1, CommitReversals
  <2>2. CASE UNCHANGED entries BY <2>2 DEF ReversalsPair
  <2> QED BY <2>1, <2>2, OnlyCommitWrites
<1> QED BY <1>1, <1>2, TypeCorrect, SnapshotIsolation, PTL DEF Spec

\* PostsOnlyToActiveAccounts: the account check made on the snapshot still
\* holds when the entry commits.
THEOREM ActiveAccounts == Spec => PostsOnlyToActiveAccounts
<1> DEFINE A == \A i \in NewEntries : \A a \in Touched(entries'[i].lines) :
                  status[a] = "active"
<1>1. TypeOK /\ SnapshotFresh /\ [Next]_vars => [A]_entries
  <2> SUFFICES ASSUME TypeOK, SnapshotFresh, NEW c \in Clients, Commit(c),
                      NEW i \in NewEntries, NEW a \in Touched(entries'[i].lines)
               PROVE  status[a] = "active"
    BY OnlyCommitWrites
  <2> DEFINE t == tx[c]
  <2>1. entries \in Seq(Entry) /\ entries' \in Seq(Entry)
    BY CommitType DEF TypeOK, Snapshot, Database
  <2>2. i = Len(entries) + 1 BY <2>1, CommitEntries DEF NewEntries
  <2>3. entries'[i].lines = Lines(t)
    <3>1. entries'[i] = NewEntry(t) BY <2>2, CommitEntries
    <3>2. NewEntry(t).lines = Lines(t) BY DEF NewEntry
    <3> QED BY <3>1, <3>2
  <2>4. a \in Writes(t).accounts /\ a \in Accounts BY <2>3 DEF Writes, Touched
  <2>5. t.snap.status[a] = "active" BY <2>3 DEF Commit, Accepted, Postable
  <2>6. a \notin t.missed.accounts BY <2>4 DEF Commit, Conflicts
  <2> QED BY <2>4, <2>5, <2>6 DEF SnapshotFresh, Commit
<1> QED BY <1>1, TypeCorrect, SnapshotIsolation, PTL DEF Spec, PostsOnlyToActiveAccounts

\* OnlyOverlappingPostsAreLate: the period guard, looked at on the snapshot only,
\* still keeps every transaction opened after the period closed out of it.
THEOREM LatePostsOverlap == Spec => OnlyOverlappingPostsAreLate
<1> DEFINE A == \A i \in NewEntries : entries'[i].date <= lockedUpto =>
                  \E c \in Clients : /\ Open(c)
                                     /\ tx[c].snap.lockedUpto < entries'[i].date
                                     /\ tx'[c] = NoTx
<1>1. TypeOK /\ SnapshotFresh /\ [Next]_vars => [A]_entries
  <2> SUFFICES ASSUME TypeOK, SnapshotFresh, NEW c \in Clients, Commit(c),
                      NEW i \in NewEntries
               PROVE  /\ Open(c)
                      /\ tx[c].snap.lockedUpto < entries'[i].date
                      /\ tx'[c] = NoTx
    BY OnlyCommitWrites
  <2> DEFINE t == tx[c]
  <2>1. entries \in Seq(Entry) /\ entries' \in Seq(Entry)
    BY CommitType DEF TypeOK, Snapshot, Database
  <2>2. i = Len(entries) + 1 BY <2>1, CommitEntries DEF NewEntries
  <2>3. entries'[i].date = Date(t)
    <3>1. entries'[i] = NewEntry(t) /\ NewEntry(t) \in Entry
      BY <2>2, CommitEntries
    <3>2. NewEntry(t).date = Date(t) BY DEF NewEntry
    <3> QED BY <3>1, <3>2
  <2>4. Open(c) /\ PeriodOpen(Date(t), t.snap.lockedUpto)
    BY DEF Commit, Accepted, Postable
  <2>5. Date(t) \in Nat /\ t.snap.lockedUpto \in Nat
    <3>1. t \in Transaction BY <2>4 DEF TypeOK, Open
    <3>2. Accepted(t) BY DEF Commit
    <3>3. Date(t) \in Days BY <3>1, <3>2, RequestType
    <3> QED BY <3>1, <3>3, DaysAssumption DEF Transaction, Database
  <2>6. tx'[c] = NoTx
    <3>1. tx' = [Publish(Writes(t)) EXCEPT ![c] = NoTx] BY DEF Commit
    <3> QED BY <3>1 DEF Publish
  <2> QED BY <2>3, <2>4, <2>5, <2>6 DEF PeriodOpen
<1> QED BY <1>1, TypeCorrect, SnapshotIsolation, PTL DEF Spec, OnlyOverlappingPostsAreLate

-----------------------------------------------------------------------------
(* The cached balances *)

\* What the entries of a set did to an account.
Movements(a, S) == SumFunction([i \in S |-> BalanceDelta(a, entries[i].lines[a])])

LEMMA EntryDelta ==
  ASSUME NEW e \in Entry, NEW a \in Accounts
  PROVE  /\ e.lines[a].debit \in Int /\ e.lines[a].credit \in Int
         /\ BalanceDelta(a, e.lines[a]) \in Int
         /\ a \notin Touched(e.lines) => BalanceDelta(a, e.lines[a]) = 0
<1>1. e.lines \in [Accounts -> [debit : Int, credit : Int]] BY DEF Entry
<1> QED BY <1>1 DEF BalanceDelta, Touched

LEMMA PostedFinite ==
  ASSUME TypeOK, NEW a
  PROVE  Posted(a) \subseteq 1..Len(entries) /\ IsFiniteSet(Posted(a))
<1>1. entries \in Seq(Entry) BY DEF TypeOK, Snapshot, Database
<1>2. Posted(a) \subseteq 1..Len(entries) /\ Len(entries) \in Nat BY <1>1 DEF Posted
<1>3. IsFiniteSet(1..Len(entries)) BY <1>2, FS_Interval
<1> QED BY <1>2, <1>3, FS_Subset

\* A balance with the sign of its account's type is debits minus credits.
LEMMA CommitTotals ==
  ASSUME TypeOK, SnapshotFresh, NEW c \in Clients, Commit(c), NEW a \in Accounts
  PROVE  LET net == NewEntry(tx[c]).lines[a].debit - NewEntry(tx[c]).lines[a].credit
         IN  /\ balance[a] \in Int /\ net \in Int
             /\ balance'[a] = balance[a] + (IF a \in DebitNormal THEN net ELSE -net)
<1> DEFINE t == tx[c]
<1>1. t \in Transaction /\ Accepted(t) /\ balance \in [Accounts -> Int]
  BY DEF Commit, TypeOK, Open, Snapshot, Database
<1>2. Lines(t) \in [Accounts -> [debit : Int, credit : Int]] BY <1>1, RequestType
<1>3. NewEntry(t).lines = Lines(t) BY DEF NewEntry
<1>4. balance'[a] = IF a \in Touched(Lines(t))
                    THEN t.snap.balance[a] + BalanceDelta(a, Lines(t)[a])
                    ELSE balance[a]
  BY DEF Commit, Writes
<1>5. CASE a \in Touched(Lines(t))
  <2>1. a \notin t.missed.accounts BY <1>5 DEF Commit, Conflicts, Writes
  <2>2. t.snap.balance[a] = balance[a] BY <2>1 DEF SnapshotFresh, Commit
  <2> QED BY <1>1, <1>2, <1>3, <1>4, <1>5, <2>2 DEF BalanceDelta
<1>6. CASE a \notin Touched(Lines(t))
  <2>1. Lines(t)[a].debit = 0 /\ Lines(t)[a].credit = 0 BY <1>6 DEF Touched
  <2> QED BY <1>1, <1>2, <1>3, <1>4, <1>6, <2>1
<1> QED BY <1>5, <1>6

LEMMA CommitBalances ==
  ASSUME TypeOK, SnapshotFresh, BalancesMatchJournal, NEW c \in Clients, Commit(c)
  PROVE  BalancesMatchJournal'
<1> SUFFICES ASSUME NEW a \in Accounts
             PROVE  balance'[a] = SumFunction([i \in Posted(a)' |->
                                                 BalanceDelta(a, entries'[i].lines[a])])
  BY DEF BalancesMatchJournal
<1> DEFINE n == Len(entries)
           e == NewEntry(tx[c])
           old == [i \in Posted(a) |-> BalanceDelta(a, entries[i].lines[a])]
           new == [i \in Posted(a)' |-> BalanceDelta(a, entries'[i].lines[a])]
<1>1. /\ entries \in Seq(Entry) /\ entries' \in Seq(Entry)
      /\ n \in Nat /\ Len(entries') = n + 1 /\ entries'[n + 1] = e /\ e \in Entry
  BY CommitType, CommitEntries DEF TypeOK, Snapshot, Database
<1>2. ASSUME NEW i \in 1..n PROVE entries'[i].lines = entries[i].lines
  <2>1. entries[i] \in Entry BY <1>1
  <2>2. entries'[i] = entries[i] \/ entries'[i] = ExceptReversedBy(entries[i], n + 1)
    BY <1>1, CommitEntries
  <2> QED BY <2>1, <2>2 DEF ExceptReversedBy, Entry
<1>3. /\ Posted(a) \subseteq 1..n /\ IsFiniteSet(Posted(a))
      /\ Posted(a)' = Posted(a) \cup (IF a \in Touched(e.lines) THEN {n + 1} ELSE {})
  <2>1. DOMAIN entries = 1..n /\ DOMAIN entries' = 1..n+1 BY <1>1
  <2> HIDE DEF n, e
  <2>2. Posted(a)' = Posted(a) \cup (IF a \in Touched(e.lines) THEN {n + 1} ELSE {})
    BY <1>1, <1>2, <2>1 DEF Posted
  <2> QED BY <2>2, PostedFinite DEF n
<1>4. /\ \A i \in Posted(a) : old[i] \in Int /\ new[i] = old[i]
      /\ balance[a] = SumFunctionOnSet(old, Posted(a))
  <2>1. balance[a] = SumFunctionOnSet(old, Posted(a))
    BY DEF BalancesMatchJournal, SumFunction
  <2>2. ASSUME NEW i \in Posted(a) PROVE old[i] \in Int /\ new[i] = old[i]
    <3>1. i \in Posted(a)' /\ i \in 1..n /\ entries[i] \in Entry BY <1>1, <1>3
    <3> QED BY <1>2, <3>1, EntryDelta
  <2> QED BY <2>1, <2>2
<1>5. SumFunctionOnSet(new, Posted(a)) = SumFunctionOnSet(old, Posted(a))
  <2> HIDE DEF old, new
  <2> QED BY <1>3, <1>4, SumSame
<1>6. balance'[a] = balance[a] + BalanceDelta(a, e.lines[a]) /\ balance[a] \in Int
  <2>1. PICK x \in Int, y \in Int : x = e.lines[a].debit /\ y = e.lines[a].credit
    BY <1>1, EntryDelta
  <2>2. BalanceDelta(a, e.lines[a]) = IF a \in DebitNormal THEN x - y ELSE y - x
    BY <2>1 DEF BalanceDelta
  <2>3. /\ balance[a] \in Int
        /\ balance'[a] = balance[a] + (IF a \in DebitNormal THEN x - y ELSE -(x - y))
    BY <2>1, CommitTotals
  <2> QED BY <2>2, <2>3
<1>7. SumFunctionOnSet(new, Posted(a)') = balance'[a]
  <2>1. CASE a \in Touched(e.lines)
    <3>1. Posted(a)' = Posted(a) \cup {n + 1} /\ n + 1 \notin Posted(a)
      BY <1>1, <1>3, <2>1
    <3>2. new[n + 1] = BalanceDelta(a, e.lines[a]) /\ new[n + 1] \in Int
      BY <1>1, <3>1, EntryDelta
    <3> HIDE DEF n, e, old, new
    <3>3. \A i \in Posted(a) \cup {n + 1} : new[i] \in Int BY <1>4, <3>2
    <3>4. SumFunctionOnSet(new, Posted(a) \cup {n + 1})
            = new[n + 1] + SumFunctionOnSet(new, Posted(a))
      BY <1>3, <3>1, <3>3, SumAdd
    <3> QED BY <1>4, <1>5, <1>6, <3>1, <3>2, <3>4
  <2>2. CASE a \notin Touched(e.lines)
    <3>1. BalanceDelta(a, e.lines[a]) = 0 BY <1>1, <2>2, EntryDelta
    <3>2. Posted(a)' = Posted(a) BY <1>3, <2>2
    <3> HIDE DEF n, e, old, new
    <3> QED BY <1>4, <1>5, <1>6, <3>1, <3>2
  <2> QED BY <2>1, <2>2
<1> QED BY <1>7 DEF SumFunction

LEMMA BalancesInit == Init => BalancesMatchJournal
<1> SUFFICES ASSUME Init, NEW a \in Accounts
             PROVE  balance[a] = SumFunction([i \in Posted(a) |->
                                                BalanceDelta(a, entries[i].lines[a])])
  BY DEF BalancesMatchJournal
<1>1. Posted(a) = {} /\ balance[a] = 0 BY DEF Init, Posted
<1> QED BY <1>1, SumEmpty DEF SumFunction

LEMMA BalancesStep ==
  ASSUME TypeOK, SnapshotFresh, BalancesMatchJournal, [Next]_vars
  PROVE  BalancesMatchJournal'
<1>1. CASE \E c \in Clients : Commit(c) BY <1>1, CommitBalances
<1>2. CASE UNCHANGED <<entries, balance>>
  <2>1. ASSUME NEW a \in Accounts
        PROVE  [i \in Posted(a)' |-> BalanceDelta(a, entries'[i].lines[a])]
                 = [i \in Posted(a) |-> BalanceDelta(a, entries[i].lines[a])]
    BY <1>2 DEF Posted
  <2> QED BY <1>2, <2>1 DEF BalancesMatchJournal
<1> QED BY <1>1, <1>2, OnlyCommitWrites

\* What the nightly job recomputes (BalancesMatchJournal): an account's cached
\* balance is the sum of its journal lines, although every posting computes it
\* from the balance in its own snapshot, and only ever adds to that.
THEOREM BalancesHold == Spec => []BalancesMatchJournal
BY BalancesInit, BalancesStep, TypeCorrect, SnapshotIsolation, PTL DEF Spec

-----------------------------------------------------------------------------
(* Refinement: the ledger implements the abstract journal *)

LEMMA CommitRefines ==
  ASSUME TypeOK, SnapshotFresh, JV \notin DocSeries, NEW c \in Clients, Commit(c)
  PROVE  J!Next
<1> DEFINE n == Len(entries)
           e == NewEntry(tx[c])
           i == tx[c].req.target
           stamped == IF IsReversal(tx[c])
                      THEN [entries EXCEPT ![i].reversedBy = n + 1] ELSE entries
<1>1. /\ entries \in Seq(Entry) /\ entries' \in Seq(Entry)
      /\ counter \in [Key -> Nat] /\ counter' \in [Key -> Nat] /\ n \in Nat
  <2>1. TypeOK' BY CommitType
  <2>2. entries \in Seq(Entry) /\ counter \in [Key -> Nat]
    BY DEF TypeOK, Snapshot, Database, Key
  <2>3. entries' \in Seq(Entry) /\ counter' \in [Key -> Nat]
    BY <2>1 DEF TypeOK, Snapshot, Database, Key
  <2> QED BY <2>2, <2>3
<1>2. Len(entries') = n + 1 /\ entries'[n + 1] = e /\ e \in Entry
  BY CommitEntries
<1>3. IsReversal(tx[c]) => i \in DOMAIN entries /\ entries[i] = Original(tx[c])
                           /\ Original(tx[c]).reversedBy = None
  BY CommitEntries
<1>4. stamped \in Seq(Entry) /\ Len(stamped) = n
      /\ \A j \in 1..n : stamped[j] = entries'[j]
  <2>1. CASE IsReversal(tx[c])
    <3> DEFINE o == ExceptReversedBy(entries[i], n + 1)
    <3>1. i \in 1..n /\ entries[i] \in Entry /\ n + 1 \in Nat
      BY <1>1, <1>3, <2>1
    <3>2. o \in Entry BY <3>1, ExceptReversedByType
    <3>3. stamped = [entries EXCEPT ![i] = o]
      BY <2>1, <3>1 DEF ExceptReversedBy
    <3>4. \A j \in 1..n : entries'[j] = IF j = i THEN o ELSE entries[j]
      BY <1>1, <2>1, CommitEntries
    <3> HIDE DEF o, stamped, i, n
    <3>5. [entries EXCEPT ![i] = o] \in Seq(Entry)
          /\ Len([entries EXCEPT ![i] = o]) = Len(entries)
          /\ \A j \in 1..Len(entries) :
               [entries EXCEPT ![i] = o][j] = IF j = i THEN o ELSE entries[j]
      BY <1>1, <3>1, <3>2, ExceptSeq DEF n
    <3> QED BY <3>3, <3>4, <3>5 DEF n
  <2>2. CASE ~IsReversal(tx[c]) BY <1>1, <2>2, CommitEntries
  <2> QED BY <2>1, <2>2
<1> HIDE DEF stamped
<1>5. entries' = Append(stamped, e)
  <2>1. Append(stamped, e) \in Seq(Entry) /\ Len(Append(stamped, e)) = n + 1
    BY <1>1, <1>2, <1>4
  <2>2. \A j \in 1..n+1 : entries'[j] = Append(stamped, e)[j]
    BY <1>1, <1>2, <1>4
  <2> QED BY <1>1, <1>2, <2>1, <2>2, SeqEqual
<1>6. Balanced(e.lines) BY DEF NewEntry, Commit, Accepted, Postable, WellFormed
<1>7. e.reversedBy = 0 /\ e.fy \in Years BY <1>2 DEF NewEntry, Entry
<1>8. /\ e.no = counter[<<e.fy, JV>>] + 1
      /\ \A y \in Years : counter'[<<y, JV>>] =
           IF y = e.fy THEN e.no ELSE counter[<<y, JV>>]
  <2>1. JVKey(tx[c]) = <<e.fy, JV>> BY CommitCounters DEF JVKey, NewEntry
  <2> QED BY <1>7, <2>1, CommitCounters
<1>9. [y \in Years |-> counter'[<<y, JV>>]]
        = [[y \in Years |-> counter[<<y, JV>>]] EXCEPT ![e.fy] = e.no]
  BY <1>7, <1>8
<1>10. \A a \in Accounts :
         (IF a \in DebitNormal THEN balance'[a] ELSE 0 - balance'[a])
           = (IF a \in DebitNormal THEN balance[a] ELSE 0 - balance[a])
               + (e.lines[a].debit - e.lines[a].credit)
  BY CommitTotals
<1>11. J!New = e BY <1>2 DEF J!New
<1>12. J!Extend(stamped, e)
  <2>1. outbox' = outbox \cup {Len(stamped) + 1} BY <1>4 DEF Commit
  <2> QED BY <1>5, <1>6, <1>7, <1>8, <1>9, <1>10, <2>1 DEF J!Extend, J!Net
<1>13. J!Grows BY <1>2 DEF J!Grows
<1>14. CASE IsReversal(tx[c])
  <2>1. e.reverses = i BY <1>14 DEF NewEntry
  <2>2. e.lines = J!Mirror(entries[i].lines)
    BY <1>3, <1>14 DEF NewEntry, Lines, Swap, J!Mirror
  <2>3. i \in DOMAIN entries /\ entries[i].reversedBy = 0 BY <1>3, <1>14
  <2>4. J!Extend([entries EXCEPT ![i].reversedBy = n + 1], e)
    BY <1>12, <1>14 DEF stamped
  <2> QED BY <1>11, <1>13, <2>1, <2>2, <2>3, <2>4 DEF J!Next, J!Reverse, J!Extend
<1>15. CASE ~IsReversal(tx[c])
  <2>1. e.reverses = 0 BY <1>15 DEF NewEntry
  <2>2. J!Extend(entries, e) BY <1>12, <1>15 DEF stamped
  <2> QED BY <1>11, <1>13, <2>1, <2>2 DEF J!Next, J!Post, J!Extend
<1> QED BY <1>14, <1>15

\* The ledger, with its snapshots, retries and cached balances, implements the
\* abstract journal (ImplementsJournal): a commit is one abstract posting or
\* reversal, every other step is invisible.
THEOREM Refinement ==
  ASSUME JV \notin DocSeries
  PROVE  Spec => ImplementsJournal
<1>1. Init => J!Init
  <2> SUFFICES ASSUME Init PROVE J!Init
    OBVIOUS
  <2>1. \A y \in Years : counter[<<y, JV>>] = 0 BY DEF Init
  <2>2. \A a \in Accounts :
          (IF a \in DebitNormal THEN balance[a] ELSE 0 - balance[a]) = 0
    <3>1. \A a \in Accounts : balance[a] = 0 BY DEF Init
    <3> QED BY <3>1
  <2> QED BY <2>1, <2>2 DEF Init, J!Init
<1>2. TypeOK /\ SnapshotFresh /\ [Next]_vars
        => [J!Next]_<<entries, [y \in Years |-> counter[<<y, JV>>]],
                      [a \in Accounts |->
                         IF a \in DebitNormal THEN balance[a] ELSE 0 - balance[a]],
                      outbox>>
  <2>1. CASE \E c \in Clients : Commit(c) BY <2>1, CommitRefines
  <2>2. CASE UNCHANGED <<entries, counter, balance, outbox>> BY <2>2
  <2> QED BY <2>1, <2>2, OnlyCommitWrites
<1> QED BY <1>1, <1>2, TypeCorrect, SnapshotIsolation, PTL
        DEF Spec, ImplementsJournal, J!Spec

-----------------------------------------------------------------------------
(* The nightly job beside a ledger that keeps posting *)

LEMMA EntriesKept ==
  ASSUME TypeOK, SnapshotFresh, [Next]_vars
  PROVE  /\ Len(entries) \in Nat /\ Len(entries') \in Nat /\ Len(entries) <= Len(entries')
         /\ DOMAIN entries = 1..Len(entries) /\ DOMAIN entries' = 1..Len(entries')
         /\ \A i \in 1..Len(entries) : /\ entries'[i].lines = entries[i].lines
                                       /\ entries'[i].date = entries[i].date
<1>1. entries \in Seq(Entry) BY DEF TypeOK, Snapshot, Database
<1>2. CASE UNCHANGED entries BY <1>1, <1>2
<1>3. ASSUME NEW c \in Clients, Commit(c)
      PROVE  /\ Len(entries') = Len(entries) + 1 /\ entries' \in Seq(Entry)
             /\ \A i \in 1..Len(entries) : /\ entries'[i].lines = entries[i].lines
                                           /\ entries'[i].date = entries[i].date
  <2>1. Len(entries') = Len(entries) + 1 /\ entries' \in Seq(Entry)
    BY <1>3, CommitType, CommitEntries DEF TypeOK, Snapshot, Database
  <2>2. ASSUME NEW i \in 1..Len(entries)
        PROVE  entries'[i].lines = entries[i].lines /\ entries'[i].date = entries[i].date
    <3>1. entries[i] \in Entry BY <1>1
    <3>2. entries'[i] = entries[i] \/ entries'[i] = ExceptReversedBy(entries[i], Len(entries) + 1)
      BY <1>1, <1>3, CommitEntries
    <3> QED BY <3>1, <3>2 DEF ExceptReversedBy, Entry
  <2> QED BY <2>1, <2>2
<1> QED BY <1>1, <1>2, <1>3, OnlyCommitWrites

LEMMA MovementsKept ==
  ASSUME TypeOK, SnapshotFresh, [Next]_vars, NEW a \in Accounts, NEW S \in SUBSET (1..Len(entries))
  PROVE  SumFunction([i \in S |-> BalanceDelta(a, entries'[i].lines[a])]) = Movements(a, S)
<1>1. \A i \in S : entries'[i].lines = entries[i].lines BY EntriesKept
<1>2. [i \in S |-> BalanceDelta(a, entries'[i].lines[a])]
        = [i \in S |-> BalanceDelta(a, entries[i].lines[a])]
  BY <1>1
<1> QED BY <1>2 DEF Movements

\* The entries the job's first query saw.
Seen(a) == {i \in 1..job.seen : a \in Touched(entries[i].lines)}

JobOK ==
  /\ job = [at |-> job.at, expected |-> job.expected, seen |-> job.seen]
  /\ job.at \in {"idle", "accounts", "fix", "numbers"}
  /\ nights \in Nat
  /\ job.at = "accounts" =>
       /\ job.expected \in [Accounts -> Int]
       /\ job.seen \in Nat /\ job.seen <= Len(entries)
       /\ \A a \in Accounts : job.expected[a] = Movements(a, Seen(a))
  /\ job.at = "fix" =>
       FixDrift /\ drifts \subseteq Accounts /\ job.expected \in [DOMAIN job.expected -> Int]
  /\ nights = 0 => job.at = "idle"

\* Until the job has put a balance right, balances are those of the journal.
Untouched == ~FixDrift \/ nights = 0 \/ job.at = "accounts"

AuditInv == TypeOK /\ SnapshotFresh /\ JobOK /\ (Untouched => BalancesMatchJournal)

LEMMA AuditInitial == AuditInit => AuditInv
BY TypeInit, FreshInit, BalancesInit DEF AuditInit, AuditInv, JobOK, Idle

\* While the ledger goes on, what the job saw of the journal stays there.
LEMMA AuditLedger ==
  ASSUME AuditInv, [Next]_vars, UNCHANGED jobVars
  PROVE  AuditInv'
<1>1. TypeOK' /\ SnapshotFresh' BY TypeStep, FreshStep DEF AuditInv
<1>2. Untouched' => BalancesMatchJournal'
  BY BalancesStep DEF AuditInv, Untouched, jobVars
<1>3. ASSUME job.at = "accounts", NEW a \in Accounts
      PROVE  Movements(a, Seen(a))' = Movements(a, Seen(a))
  <2>1. /\ job.seen \in Nat /\ job.seen <= Len(entries) /\ job' = job
        /\ Len(entries) \in Nat /\ Len(entries') \in Nat /\ Len(entries) <= Len(entries')
        /\ \A i \in 1..Len(entries) : entries'[i].lines = entries[i].lines
    BY <1>3, EntriesKept DEF AuditInv, JobOK, jobVars
  <2>2. Seen(a)' = Seen(a) /\ Seen(a) \in SUBSET (1..Len(entries)) BY <2>1 DEF Seen
  <2>3. Movements(a, Seen(a))' = SumFunction([i \in Seen(a) |-> BalanceDelta(a, entries'[i].lines[a])])
    BY <2>2 DEF Movements
  <2>4. TypeOK /\ SnapshotFresh BY DEF AuditInv
  <2> QED BY <2>1, <2>2, <2>3, <2>4, MovementsKept
<1>4. JobOK'
  <2>1. JobOK /\ UNCHANGED <<job, nights, drifts>> BY DEF AuditInv, jobVars
  <2>2. ASSUME job.at = "accounts" PROVE job.seen <= Len(entries')
    <3>1. job.seen \in Nat /\ job.seen <= Len(entries) BY <2>1, <2>2 DEF JobOK
    <3> QED BY <3>1, EntriesKept DEF AuditInv
  <2>3. \A a \in Accounts : job.at = "accounts" => job'.expected[a] = Movements(a, Seen(a))'
    BY <1>3, <2>1 DEF JobOK
  <2> QED BY <2>1, <2>2, <2>3 DEF JobOK
<1> QED BY <1>1, <1>2, <1>4 DEF AuditInv

LEMMA AuditAggregates ==
  ASSUME AuditInv, Aggregate, ~FixDrift \/ Runs <= 1
  PROVE  AuditInv'
<1>1. UNCHANGED vars /\ TypeOK /\ SnapshotFresh /\ JobOK
  BY DEF Aggregate, AuditInv
<1>2. TypeOK' /\ SnapshotFresh' BY <1>1, TypeStep, FreshStep
<1>3. Untouched BY <1>1, IntegrityAssumption DEF Aggregate, Untouched, JobOK
<1>4. BalancesMatchJournal' BY <1>1, <1>3, BalancesStep DEF AuditInv
<1>5. /\ entries' = entries /\ Len(entries) \in Nat /\ DOMAIN entries = 1..Len(entries)
      /\ job' = [at |-> "accounts", expected |-> [a \in Accounts |-> Expected(a)],
                 seen |-> Len(entries)]
      /\ nights' \in Nat \ {0} /\ drifts' = {}
  BY <1>1, EntriesKept DEF Aggregate, vars, JobOK
<1>6. ASSUME NEW a \in Accounts
      PROVE  job'.expected[a] \in Int /\ job'.expected[a] = Movements(a, Seen(a))'
  <2>1. Seen(a)' = Posted(a) BY <1>5 DEF Seen, Posted
  <2>2. Movements(a, Seen(a))' = Movements(a, Posted(a)) BY <1>5, <2>1 DEF Movements
  <2>3. job'.expected[a] = Movements(a, Posted(a)) BY <1>5 DEF Expected, Movements
  <2>4. balance[a] = Movements(a, Posted(a))
    BY <1>3 DEF AuditInv, BalancesMatchJournal, Movements
  <2>5. balance[a] \in Int BY <1>1 DEF TypeOK, Snapshot, Database
  <2> QED BY <2>2, <2>3, <2>4, <2>5
<1>7. job'.expected \in [Accounts -> Int] BY <1>5, <1>6
<1>8. JobOK' BY <1>5, <1>6, <1>7 DEF JobOK
<1> QED BY <1>2, <1>4, <1>8 DEF AuditInv

\* An account drifts, for the job, only if an entry was posted to it after its
\* first query.
LEMMA AuditReads ==
  ASSUME AuditInv, ReadAccounts
  PROVE  /\ AuditInv'
         /\ \A a \in drifts' : \E i \in DOMAIN entries :
              i > job.seen /\ a \in Touched(entries[i].lines)
<1>1. /\ UNCHANGED vars /\ TypeOK /\ SnapshotFresh /\ JobOK /\ job.at = "accounts"
      /\ drifts' = {a \in Accounts : job.expected[a] # balance[a]} /\ nights' = nights
      /\ BalancesMatchJournal
  BY DEF ReadAccounts, AuditInv, Untouched
<1>2. TypeOK' /\ SnapshotFresh' /\ BalancesMatchJournal' BY <1>1, TypeStep, FreshStep, BalancesStep
<1>3. JobOK'
  <2>1. job' = [at |-> IF FixDrift /\ drifts' # {} THEN "fix" ELSE "numbers",
                expected |-> job.expected, seen |-> job.seen]
    <3>1. job = [at |-> job.at, expected |-> job.expected, seen |-> job.seen] BY <1>1 DEF JobOK
    <3> QED BY <3>1 DEF ReadAccounts
  <2>2. nights \in Nat \ {0} /\ job.expected \in [DOMAIN job.expected -> Int] BY <1>1 DEF JobOK
  <2> QED BY <1>1, <2>1, <2>2 DEF JobOK
<1>4. ASSUME NEW a \in drifts', ~ \E i \in DOMAIN entries : i > job.seen /\ a \in Touched(entries[i].lines)
      PROVE  FALSE
  <2>1. a \in Accounts /\ job.expected[a] # balance[a] BY <1>1
  <2>2. /\ Len(entries) \in Nat /\ DOMAIN entries = 1..Len(entries)
        /\ job.seen \in Nat /\ job.seen <= Len(entries)
    BY <1>1, EntriesKept DEF JobOK
  <2>3. Seen(a) = Posted(a) BY <1>4, <2>2 DEF Seen, Posted
  <2>4. job.expected[a] = Movements(a, Posted(a)) BY <1>1, <2>1, <2>3 DEF JobOK
  <2>5. balance[a] = Movements(a, Posted(a)) BY <1>1, <2>1 DEF BalancesMatchJournal, Movements
  <2> QED BY <2>1, <2>4, <2>5
<1>5. AuditInv' BY <1>2, <1>3 DEF AuditInv
<1> QED BY <1>4, <1>5

LEMMA AuditFixes ==
  ASSUME AuditInv, Fix
  PROVE  AuditInv'
<1>1. TypeOK /\ SnapshotFresh /\ JobOK /\ job.at = "fix" BY DEF AuditInv, Fix
<1>2. PICK a \in drifts :
        /\ a \in DOMAIN job.expected
        /\ balance' = [balance EXCEPT ![a] = job.expected[a]]
        /\ tx' = Publish([NothingMissed EXCEPT !.accounts = {a}])
        /\ job'.at \in {"fix", "numbers"}
        /\ job' = [at |-> job'.at, expected |-> job'.expected, seen |-> job'.seen]
        /\ job'.expected = [b \in DOMAIN job.expected \ {a} |-> job.expected[b]]
  <2>1. job = [at |-> job.at, expected |-> job.expected, seen |-> job.seen] BY <1>1 DEF JobOK
  <2> QED BY <2>1 DEF Fix
<1>3. /\ FixDrift /\ a \in Accounts /\ job.expected[a] \in Int
      /\ job'.expected \in [DOMAIN job'.expected -> Int] /\ nights \in Nat \ {0}
  BY <1>1, <1>2 DEF JobOK
<1>4. UNCHANGED <<entries, counter, status, lockedUpto, outbox, today, nights, drifts>> BY DEF Fix
<1> DEFINE w == [NothingMissed EXCEPT !.accounts = {a}]
<1>5. w \in [counters : SUBSET Key, accounts : SUBSET Accounts, entries : SUBSET Nat]
  BY <1>3 DEF NothingMissed
<1>6. TypeOK'
  <2>1. tx' \in [Clients -> Transaction \cup {NoTx}] BY <1>1, <1>2, <1>5, PublishType
  <2>2. balance' \in [Accounts -> Int] BY <1>1, <1>2, <1>3 DEF TypeOK, Snapshot, Database
  <2> QED BY <1>1, <1>4, <2>1, <2>2 DEF TypeOK, Snapshot, Database
<1>7. SnapshotFresh'
  <2> SUFFICES ASSUME NEW d \in Clients, tx'[d] # NoTx
               PROVE LET t == tx'[d] IN
                 /\ \A k \in (Years \X Series) \ t.missed.counters :
                      t.snap.counter[k] = counter'[k]
                 /\ \A b \in Accounts \ t.missed.accounts :
                      t.snap.balance[b] = balance'[b] /\ t.snap.status[b] = status'[b]
                 /\ Len(t.snap.entries) <= Len(entries')
                 /\ \A i \in DOMAIN t.snap.entries :
                      i \notin t.missed.entries => t.snap.entries[i] = entries'[i]
    BY DEF SnapshotFresh, Open
  <2>1. Open(d) /\ tx'[d] = Missing(tx[d], w) BY <1>2 DEF Publish, Open
  <2>2. \A b \in Accounts \ w.accounts : balance'[b] = balance[b] /\ status'[b] = status[b]
    BY <1>1, <1>2, <1>4 DEF NothingMissed, TypeOK, Snapshot, Database
  <2>3. Len(entries) <= Len(entries') /\ Len(entries') \in Nat
    BY <1>1, <1>4 DEF TypeOK, Snapshot, Database
  <2> HIDE DEF w
  <2> QED BY <1>1, <1>4, <2>1, <2>2, <2>3, PublishFresh
<1>8. JobOK' BY <1>1, <1>2, <1>3, <1>4 DEF JobOK
<1>9. ~Untouched' BY <1>2, <1>3, <1>4, IntegrityAssumption DEF Untouched
<1> QED BY <1>6, <1>7, <1>8, <1>9 DEF AuditInv

LEMMA AuditNumbers ==
  ASSUME AuditInv, ReadNumbers
  PROVE  AuditInv' /\ UNCHANGED drifts
<1>1. /\ UNCHANGED vars /\ TypeOK /\ SnapshotFresh /\ JobOK /\ job.at = "numbers"
      /\ job' = Idle /\ UNCHANGED <<nights, drifts>>
  BY DEF ReadNumbers, AuditInv
<1>2. TypeOK' /\ SnapshotFresh' BY <1>1, TypeStep, FreshStep
<1>3. Untouched' => BalancesMatchJournal'
  <2>1. Untouched' => Untouched BY <1>1 DEF Untouched, Idle, JobOK
  <2> QED BY <1>1, <2>1, BalancesStep DEF AuditInv
<1>4. JobOK' BY <1>1 DEF JobOK, Idle
<1> QED BY <1>1, <1>2, <1>3, <1>4 DEF AuditInv

\* "Any non-zero result is a P1" (DriftNeedsOverlap): the nightly job, which reads the
\* journal and the accounts apart, never reports drift of an account that no entry was
\* posted to in between.  So it is of every run of the scheduled job, which repairs
\* nothing, and of the first run with fixDrift: a repair may itself write a balance that
\* a posting has overtaken.
THEOREM DriftHasCause ==
  ASSUME ~FixDrift \/ Runs <= 1
  PROVE  AuditSpec => DriftNeedsOverlap
<1> DEFINE A == \A a \in drifts' \ drifts : \E i \in DOMAIN entries :
                  i > job.seen /\ a \in Touched(entries[i].lines)
<1>1. AuditInv /\ [AuditNext]_<<vars, jobVars>> => AuditInv' /\ [A]_drifts
  <2> SUFFICES ASSUME AuditInv, [AuditNext]_<<vars, jobVars>> PROVE AuditInv' /\ [A]_drifts
    OBVIOUS
  <2>1. CASE [Next]_vars /\ UNCHANGED jobVars
    BY <2>1, AuditLedger DEF jobVars
  <2>2. CASE Aggregate
    <3>1. drifts' = {} BY <2>2 DEF Aggregate
    <3> QED BY <2>2, <3>1, AuditAggregates
  <2>3. CASE ReadAccounts BY <2>3, AuditReads
  <2>4. CASE Fix
    <3>1. UNCHANGED drifts BY <2>4 DEF Fix
    <3> QED BY <2>4, <3>1, AuditFixes
  <2>5. CASE ReadNumbers BY <2>5, AuditNumbers
  <2> QED BY <2>1, <2>2, <2>3, <2>4, <2>5 DEF AuditNext
<1> QED BY <1>1, AuditInitial, PTL DEF AuditSpec, DriftNeedsOverlap

-----------------------------------------------------------------------------
(* Reports: the balance sheet *)

LineType == [Accounts -> [debit : Int, credit : Int]]

EntriesBalanced == \A i \in DOMAIN entries : Balanced(entries[i].lines)

LEMMA BalancedStep ==
  ASSUME TypeOK, SnapshotFresh, EntriesBalanced, [Next]_vars
  PROVE  EntriesBalanced'
<1>1. CASE UNCHANGED entries BY <1>1 DEF EntriesBalanced
<1>2. ASSUME NEW c \in Clients, Commit(c) PROVE EntriesBalanced'
  <2>1. Balanced(NewEntry(tx[c]).lines)
    BY <1>2 DEF NewEntry, Commit, Accepted, Postable, WellFormed
  <2>2. Len(entries') = Len(entries) + 1 /\ entries'[Len(entries) + 1] = NewEntry(tx[c])
    BY <1>2, CommitEntries
  <2> QED BY <2>1, <2>2, EntriesKept DEF EntriesBalanced
<1> QED BY <1>1, <1>2, OnlyCommitWrites

\* The entries of a report, and what they did to an account, debits less credits.
Reported(n, day) == {i \in 1..n : entries[i].date <= day}
Net(i, a) == entries[i].lines[a].debit - entries[i].lines[a].credit
NetOf(a, E) == SumFunctionOnSet([i \in E |-> Net(i, a)], E)

LEMMA ReportedFinite ==
  ASSUME TypeOK, NEW n \in Nat, n <= Len(entries), NEW day
  PROVE  /\ Reported(n, day) \subseteq DOMAIN entries /\ IsFiniteSet(Reported(n, day))
         /\ \A i \in Reported(n, day) : entries[i] \in Entry
         /\ \A i \in Reported(n, day), a \in Accounts : Net(i, a) \in Int
<1>1. entries \in Seq(Entry) BY DEF TypeOK, Snapshot, Database
<1>2. Reported(n, day) \subseteq 1..n /\ 1..n \subseteq DOMAIN entries BY <1>1 DEF Reported
<1>3. IsFiniteSet(Reported(n, day))
  <2>1. IsFiniteSet(1..n) BY FS_Interval
  <2> QED BY <1>2, <2>1, FS_Subset
<1>4. \A i \in Reported(n, day) : entries[i] \in Entry BY <1>1, <1>2
<1>5. ASSUME NEW i \in Reported(n, day), NEW a \in Accounts PROVE Net(i, a) \in Int
  BY <1>4, EntryDelta DEF Net
<1> QED BY <1>2, <1>3, <1>4, <1>5

\* An entry whose debits equal its credits nets to nothing over all accounts.
LEMMA EntryNetsToNothing ==
  ASSUME NEW i, entries[i] \in Entry, Balanced(entries[i].lines)
  PROVE  SumFunctionOnSet([a \in Accounts |-> Net(i, a)], Accounts) = 0
<1> DEFINE debit == [a \in Accounts |-> entries[i].lines[a].debit]
           credit == [a \in Accounts |-> entries[i].lines[a].credit]
           net == [a \in Accounts |-> Net(i, a)]
<1>1. \A a \in Accounts : debit[a] \in Int /\ credit[a] \in Int /\ net[a] = debit[a] - credit[a]
  BY EntryDelta DEF Net
<1>2. SumFunctionOnSet(debit, Accounts) = SumFunctionOnSet(credit, Accounts)
  BY DEF Balanced, SumDebits, SumCredits, SumFunction
<1> HIDE DEF debit, credit, net
<1>3. SumFunctionOnSet(net, Accounts) = SumFunctionOnSet(debit, Accounts) - SumFunctionOnSet(credit, Accounts)
  BY <1>1, SumMinus, AccountsAssumption
<1>4. SumFunctionOnSet(credit, Accounts) \in Int BY <1>1, SumType, AccountsAssumption
<1>5. SumFunctionOnSet(net, Accounts) = 0 BY <1>2, <1>3, <1>4
<1> QED BY <1>5 DEF net

\* So do the entries of a report: its columns are sums of rows that are nothing.
LEMMA ReportNetsToNothing ==
  ASSUME TypeOK, EntriesBalanced, NEW n \in Nat, n <= Len(entries), NEW day
  PROVE  SumFunctionOnSet([a \in Accounts |-> NetOf(a, Reported(n, day))], Accounts) = 0
<1> DEFINE E == Reported(n, day)
           F == [i \in E |-> [a \in Accounts |-> Net(i, a)]]
           rows == [i \in E |-> SumFunctionOnSet(F[i], Accounts)]
<1>1. IsFiniteSet(E) /\ IsFiniteSet(Accounts) /\ \A i \in E : \A a \in Accounts : F[i][a] \in Int
  BY ReportedFinite, AccountsAssumption
<1>2. SumFunctionOnSet(rows, E)
        = SumFunctionOnSet([a \in Accounts |-> SumFunctionOnSet([i \in E |-> F[i][a]], E)], Accounts)
  <2> HIDE DEF E, F
  <2> QED BY <1>1, SumSwap
<1>3. [a \in Accounts |-> SumFunctionOnSet([i \in E |-> F[i][a]], E)]
        = [a \in Accounts |-> NetOf(a, E)]
  <2>1. \A a \in Accounts : [i \in E |-> F[i][a]] = [i \in E |-> Net(i, a)] OBVIOUS
  <2> HIDE DEF F
  <2> QED BY <2>1 DEF NetOf
<1>4. \A i \in E : rows[i] = 0
  <2> SUFFICES ASSUME NEW i \in E PROVE SumFunctionOnSet(F[i], Accounts) = 0 OBVIOUS
  <2>1. F[i] = [a \in Accounts |-> Net(i, a)] OBVIOUS
  <2>2. entries[i] \in Entry /\ Balanced(entries[i].lines)
    BY ReportedFinite DEF EntriesBalanced
  <2> HIDE DEF E, F
  <2> QED BY <2>1, <2>2, EntryNetsToNothing
<1>5. SumFunctionOnSet(rows, E) = 0
  <2> HIDE DEF E, rows
  <2> QED BY <1>1, <1>4, SumZero
<1> HIDE DEF F, rows
<1> QED BY <1>2, <1>3, <1>5 DEF E

\* A row of a trial balance is its account's net, with the sign of its type.
LEMMA TrialBalanceRow ==
  ASSUME TypeOK, NEW n \in Nat, n <= Len(entries), NEW day, NEW a \in Accounts
  PROVE  /\ NetOf(a, Reported(n, day)) \in Int
         /\ TrialBalance(n, day)[a] = IF a \in DebitNormal THEN NetOf(a, Reported(n, day))
                                      ELSE 0 - NetOf(a, Reported(n, day))
<1> DEFINE E == Reported(n, day)
           net == [i \in E |-> Net(i, a)]
           delta == [i \in E |-> BalanceDelta(a, entries[i].lines[a])]
<1>1. IsFiniteSet(E) /\ \A i \in E : net[i] \in Int BY ReportedFinite
<1>2. \A i \in E : delta[i] = IF a \in DebitNormal THEN net[i] ELSE 0 - net[i]
  <2>1. \A i \in E : entries[i].lines[a].debit \in Int /\ entries[i].lines[a].credit \in Int
    BY ReportedFinite, EntryDelta
  <2> QED BY <2>1 DEF BalanceDelta, Net
<1>3. TrialBalance(n, day)[a] = SumFunctionOnSet(delta, E)
  BY DEF TrialBalance, SumFunction, Reported
<1>4. NetOf(a, E) = SumFunctionOnSet(net, E) BY DEF NetOf
<1> HIDE DEF E, net, delta
<1>5. SumFunctionOnSet(net, E) \in Int BY <1>1, SumType
<1>6. SumFunctionOnSet(delta, E) = IF a \in DebitNormal THEN SumFunctionOnSet(net, E)
                                   ELSE 0 - SumFunctionOnSet(net, E)
  <2>1. CASE a \in DebitNormal BY <1>1, <1>2, <2>1, SumSame
  <2>2. CASE a \notin DebitNormal
    <3>1. \A i \in E : net[i] \in Int /\ delta[i] = 0 - net[i] BY <1>1, <1>2, <2>2
    <3>2. SumFunctionOnSet(delta, E) = 0 - SumFunctionOnSet(net, E) BY <1>1, <3>1, SumNegated
    <3> QED BY <2>2, <3>2
  <2> QED BY <2>1, <2>2
<1> QED BY <1>3, <1>4, <1>5, <1>6 DEF E

\* Assets are liabilities, equity and profit, of the same entries.
LEMMA SheetOfOneJournal ==
  ASSUME TypeOK, EntriesBalanced, NEW n \in Nat, n <= Len(entries), NEW day
  PROVE  Balances(TrialBalance(n, day), TrialBalance(n, day))
<1> DEFINE tb == TrialBalance(n, day)
           net == [a \in Accounts |-> NetOf(a, Reported(n, day))]
           Tot(S) == SumFunctionOnSet(tb, S)
           Nets(S) == SumFunctionOnSet(net, S)
<1>1. \A a \in Accounts : net[a] \in Int /\ tb[a] = IF a \in DebitNormal THEN net[a] ELSE 0 - net[a]
  BY TrialBalanceRow
<1>2. Nets(Accounts) = 0 BY ReportNetsToNothing
<1> HIDE DEF tb, net
<1>3. ASSUME NEW S \in SUBSET Accounts PROVE IsFiniteSet(S) /\ Nets(S) \in Int /\ Tot(S) \in Int
  <2>1. IsFiniteSet(S) BY AccountsAssumption, FS_Subset
  <2>2. \A a \in S : net[a] \in Int /\ tb[a] \in Int BY <1>1
  <2> QED BY <2>1, <2>2, SumType
<1>4. ASSUME NEW S \in SUBSET Accounts, S \subseteq DebitNormal PROVE Tot(S) = Nets(S)
  <2>1. \A a \in S : tb[a] = net[a] BY <1>1, <1>4
  <2> QED BY <1>3, <2>1, SumSame
<1>5. ASSUME NEW S \in SUBSET Accounts, S \cap DebitNormal = {} PROVE Tot(S) = 0 - Nets(S)
  <2>1. \A a \in S : net[a] \in Int /\ tb[a] = 0 - net[a] BY <1>1, <1>5
  <2> QED BY <1>3, <2>1, SumNegated
<1>6. ASSUME NEW S \in SUBSET Accounts, NEW P PROVE Nets(S) = Nets(S \cap P) + Nets(S \ P)
  BY <1>1, <1>3, SumSplit
<1> DEFINE debits == Accounts \cap DebitNormal
           credits == Accounts \ DebitNormal
<1>7. Nets(Accounts) = Nets(debits) + Nets(credits) BY <1>6
<1>8. /\ Nets(debits) = Nets(debits \cap Nominal) + Nets(debits \ Nominal)
      /\ Nets(credits) = Nets(credits \cap Nominal) + Nets(credits \ Nominal)
  BY <1>6
<1>9. /\ debits \ Nominal = Assets /\ credits \ Nominal = OwedAndOwned
      /\ debits \cap Nominal = Nominal \cap DebitNormal
      /\ credits \cap Nominal = Nominal \ DebitNormal
  BY AccountsAssumption, ReportsAssumption DEF Assets, OwedAndOwned
<1> DEFINE d == Nominal \cap DebitNormal
           c == Nominal \ DebitNormal
<1>10. /\ Assets \in SUBSET Accounts /\ Assets \subseteq DebitNormal
       /\ OwedAndOwned \in SUBSET Accounts /\ OwedAndOwned \cap DebitNormal = {}
       /\ d \in SUBSET Accounts /\ d \subseteq DebitNormal
       /\ c \in SUBSET Accounts /\ c \cap DebitNormal = {}
  BY AccountsAssumption, ReportsAssumption DEF Assets, OwedAndOwned
<1>11. /\ Tot(Assets) = Nets(Assets) /\ Tot(d) = Nets(d)
       /\ Tot(OwedAndOwned) = 0 - Nets(OwedAndOwned) /\ Tot(c) = 0 - Nets(c)
  BY <1>4, <1>5, <1>10
<1>12. /\ Nets(Assets) \in Int /\ Nets(d) \in Int /\ Nets(OwedAndOwned) \in Int /\ Nets(c) \in Int
  BY <1>3, <1>10
<1>13. (Nets(d) + Nets(Assets)) + (Nets(c) + Nets(OwedAndOwned)) = 0
  BY <1>2, <1>7, <1>8, <1>9
<1> HIDE DEF Tot, Nets, d, c
<1>14. Tot(Assets) = Tot(OwedAndOwned) + (Tot(c) - Tot(d)) BY <1>11, <1>12, <1>13
<1> QED BY <1>14 DEF Balances, NetProfit, Total, Tot, tb, d, c

\* What was posted without income or expense leaves those accounts as they were.
LEMMA NominalUnmoved ==
  ASSUME TypeOK, NEW n \in Nat, NEW m \in Nat, n <= m, m <= Len(entries), NEW day,
         \A i \in n + 1 .. m :
           entries[i].date <= day => Touched(entries[i].lines) \cap Nominal = {},
         NEW a \in Nominal
  PROVE  TrialBalance(m, day)[a] = TrialBalance(n, day)[a]
<1> DEFINE E == Reported(n, day)
           G == Reported(m, day)
           old == [i \in E |-> BalanceDelta(a, entries[i].lines[a])]
           new == [i \in G |-> BalanceDelta(a, entries[i].lines[a])]
<1>1. a \in Accounts BY ReportsAssumption
<1>2. E \subseteq G /\ \A i \in G \ E : i \in n + 1 .. m /\ entries[i].date <= day
  BY DEF Reported
<1>3. /\ IsFiniteSet(G) /\ IsFiniteSet(E)
      /\ \A i \in G : entries[i] \in Entry
  <2>1. n <= Len(entries) BY DEF TypeOK, Snapshot, Database
  <2> QED BY <2>1, ReportedFinite
<1>4. \A i \in G : new[i] \in Int BY <1>1, <1>3, EntryDelta
<1>5. \A i \in E : new[i] = old[i] BY <1>2
<1>6. \A i \in G \ E : new[i] = 0
  <2> SUFFICES ASSUME NEW i \in G \ E PROVE BalanceDelta(a, entries[i].lines[a]) = 0 OBVIOUS
  <2>1. a \notin Touched(entries[i].lines) /\ entries[i] \in Entry BY <1>2, <1>3
  <2> QED BY <1>1, <2>1, EntryDelta
<1>7. TrialBalance(m, day)[a] = SumFunctionOnSet(new, G) /\ TrialBalance(n, day)[a] = SumFunctionOnSet(old, E)
  BY <1>1 DEF TrialBalance, SumFunction, Reported
<1> HIDE DEF E, G, old, new
<1>8. G \cap E = E BY <1>2
<1>9. SumFunctionOnSet(new, G) = SumFunctionOnSet(new, G \cap E) + SumFunctionOnSet(new, G \ E)
  BY <1>3, <1>4, SumSplit
<1>10. SumFunctionOnSet(new, G \ E) = 0
  <2>1. IsFiniteSet(G \ E) BY <1>3, FS_Subset, G \ E \subseteq G
  <2> QED BY <1>6, <2>1, SumZero
<1>11. SumFunctionOnSet(new, E) = SumFunctionOnSet(old, E) BY <1>3, <1>5, SumSame
<1>12. SumFunctionOnSet(new, E) \in Int
  <2>1. \A i \in E : new[i] \in Int BY <1>2, <1>4
  <2> QED BY <1>3, <2>1, SumType
<1>13. SumFunctionOnSet(new, G) = SumFunctionOnSet(new, E)
  <2>1. SumFunctionOnSet(new, G \cap E) = SumFunctionOnSet(new, E) BY <1>8
  <2>2. SumFunctionOnSet(new, G) = SumFunctionOnSet(new, E) + 0 BY <1>9, <1>10, <2>1
  <2> QED BY <1>12, <2>2
<1> QED BY <1>7, <1>11, <1>13

LEMMA SheetOfTwoJournals ==
  ASSUME TypeOK, EntriesBalanced, NEW n \in Nat, NEW m \in Nat, n <= m, m <= Len(entries), NEW day,
         \A i \in n + 1 .. m :
           entries[i].date <= day => Touched(entries[i].lines) \cap Nominal = {}
  PROVE  Balances(TrialBalance(n, day), TrialBalance(m, day))
<1> DEFINE f == TrialBalance(n, day)
           g == TrialBalance(m, day)
<1>1. n <= Len(entries) BY DEF TypeOK, Snapshot, Database
<1>2. Balances(f, f) BY <1>1, SheetOfOneJournal
<1>3. \A a \in Nominal : g[a] = f[a] BY NominalUnmoved
<1> HIDE DEF f, g
<1>4. ASSUME NEW S \in SUBSET Nominal PROVE Total(g, S) = Total(f, S)
  <2>1. IsFiniteSet(S) BY AccountsAssumption, ReportsAssumption, FS_Subset
  <2> QED BY <1>3, <2>1, SumSame DEF Total
<1>5. NetProfit(g) = NetProfit(f) BY <1>4 DEF NetProfit
<1>6. Balances(f, g) BY <1>2, <1>5 DEF Balances
<1> QED BY <1>6 DEF f, g

SheetOK ==
  /\ sheet = [at |-> sheet.at, day |-> sheet.day, first |-> sheet.first,
              second |-> sheet.second, balances |-> sheet.balances]
  /\ sheet.at \in {"rest", "profit"}
  /\ sheet.first \in Nat /\ sheet.first <= Len(entries)
  /\ sheet.second \in Nat /\ sheet.second <= Len(entries)
  /\ SheetBalances

LEMMA SheetLedger ==
  ASSUME TypeOK, SnapshotFresh, SheetOK, [Next]_vars, UNCHANGED sheet
  PROVE  SheetOK'
<1>1. /\ Len(entries) \in Nat /\ Len(entries') \in Nat /\ Len(entries) <= Len(entries')
      /\ \A i \in 1..Len(entries) : /\ entries'[i].lines = entries[i].lines
                                    /\ entries'[i].date = entries[i].date
  BY EntriesKept
<1>2. \A i \in sheet.first + 1 .. sheet.second : i \in 1..Len(entries)
  BY <1>1 DEF SheetOK
<1>3. SheetBalances' BY <1>1, <1>2 DEF SheetOK, SheetBalances
<1> QED BY <1>1, <1>3 DEF SheetOK

LEMMA SheetReads ==
  ASSUME TypeOK, EntriesBalanced, SheetOK, SheetRead \/ ProfitRead
  PROVE  SheetOK'
<1>1. Len(entries) \in Nat /\ entries' = entries
  <2>1. Len(entries) \in Nat BY DEF TypeOK, Snapshot, Database
  <2>2. entries' = entries BY DEF SheetRead, ProfitRead, vars
  <2> QED BY <2>1, <2>2
<1>2. CASE SheetRead
  <2>1. PICK day \in Days : sheet' = [NoSheet EXCEPT !.at = "profit", !.day = day, !.first = Len(entries)]
    BY <1>2 DEF SheetRead
  <2>2. sheet' = [at |-> "profit", day |-> day, first |-> Len(entries), second |-> 0, balances |-> TRUE]
    BY <2>1 DEF NoSheet
  <2> QED BY <1>1, <2>2 DEF SheetOK, SheetBalances
<1>3. CASE ProfitRead
  <2> DEFINE n == sheet.first
             m == Len(entries)
             ok == Balances(TrialBalance(n, sheet.day), TrialBalance(m, sheet.day))
  <2>1. sheet' = [at |-> "rest", day |-> sheet.day, first |-> n, second |-> m, balances |-> ok]
    BY <1>3 DEF ProfitRead, SheetOK
  <2>2. ok \/ \E i \in n + 1 .. m : entries[i].date <= sheet.day /\ Touched(entries[i].lines) \cap Nominal # {}
    BY <1>1, SheetOfTwoJournals DEF SheetOK
  <2> HIDE DEF n, m, ok
  <2>3. SheetBalances' BY <1>1, <2>1, <2>2 DEF SheetBalances
  <2> QED BY <1>1, <2>1, <2>3 DEF SheetOK, n, m
<1> QED BY <1>2, <1>3

-----------------------------------------------------------------------------
(* Reports: the ledger of an account, page by page *)

\* The sort is a strict order of the entries.
LEMMA BeforeOrder ==
  ASSUME TypeOK, NEW i \in DOMAIN entries, NEW j \in DOMAIN entries, NEW k \in DOMAIN entries
  PROVE  /\ ~Before(i, i)
         /\ Before(i, j) /\ Before(j, k) => Before(i, k)
         /\ i # j => Before(i, j) \/ Before(j, i)
<1>1. entries \in Seq(Entry) BY DEF TypeOK, Snapshot, Database
<1>2. /\ i \in Nat /\ j \in Nat /\ k \in Nat
      /\ entries[i] \in Entry /\ entries[j] \in Entry /\ entries[k] \in Entry
  BY <1>1
<1>3. entries[i].date \in Nat /\ entries[j].date \in Nat /\ entries[k].date \in Nat
  BY <1>2, DaysAssumption DEF Entry
<1> QED BY <1>2, <1>3 DEF Before

InOrder(rows) == \A m, n \in DOMAIN rows : m < n => Before(rows[m], rows[n])

LEMMA HasLast ==
  ASSUME TypeOK, NEW S \in SUBSET DOMAIN entries, IsFiniteSet(S), S # {}
  PROVE  \E x \in S : \A y \in S \ {x} : Before(y, x)
<1> DEFINE good == {T \in SUBSET S : T # {} => \E x \in T : \A y \in T \ {x} : Before(y, x)}
<1>1. {} \in good OBVIOUS
<1>2. ASSUME NEW T \in good, NEW z \in S \ T PROVE T \cup {z} \in good
  <2>1. CASE T = {} BY <2>1
  <2>2. CASE T # {}
    <3>1. PICK x \in T : \A y \in T \ {x} : Before(y, x) BY <2>2
    <3>2. CASE Before(x, z)
      <4>1. \A y \in T : Before(y, z) BY <3>1, <3>2, BeforeOrder
      <4> QED BY <4>1
    <3>3. CASE Before(z, x) BY <3>1, <3>3
    <3>4. Before(x, z) \/ Before(z, x) BY BeforeOrder
    <3> QED BY <3>2, <3>3, <3>4
  <2> QED BY <2>1, <2>2
<1>3. S \in good
  <2>1. good \in SUBSET SUBSET S OBVIOUS
  <2> HIDE DEF good
  <2> QED BY <1>1, <1>2, <2>1, SetInduction
<1> QED BY <1>3

LEMMA SortExists ==
  ASSUME TypeOK, NEW S \in SUBSET DOMAIN entries, IsFiniteSet(S)
  PROVE  \E rows \in [1..Cardinality(S) -> S] : InOrder(rows)
<1> DEFINE Fine(T) == \E rows \in [1..Cardinality(T) -> T] : InOrder(rows)
           bad == {n \in Nat : \E T \in SUBSET S : Cardinality(T) = n /\ ~Fine(T)}
<1> SUFFICES ASSUME ~Fine(S) PROVE FALSE OBVIOUS
<1>1. \A T \in SUBSET S : IsFiniteSet(T) /\ Cardinality(T) \in Nat BY FS_Subset, FS_CardinalityType
<1>2. PICK n \in bad : \A m \in bad : n <= m
  <2>1. bad \in SUBSET Nat /\ bad # {} BY <1>1
  <2> HIDE DEF bad
  <2> QED BY <2>1, LeastNat
<1>3. PICK T \in SUBSET S : Cardinality(T) = n /\ ~Fine(T) BY <1>2
<1>4. n \in Nat /\ IsFiniteSet(T) BY <1>1, <1>2
<1>5. T # {}
  <2> SUFFICES ASSUME T = {} PROVE Fine(T) BY <1>3
  <2>1. Cardinality(T) = 0 /\ 1..0 = {} BY FS_EmptySet
  <2>2. [m \in {} |-> m] \in [1..Cardinality(T) -> T] /\ InOrder([m \in {} |-> m])
    BY <2>1 DEF InOrder
  <2> QED BY <2>2
<1>6. PICK x \in T : \A y \in T \ {x} : Before(y, x)
  <2>1. T \in SUBSET DOMAIN entries OBVIOUS
  <2> QED BY <1>4, <1>5, <2>1, HasLast
<1>7. Cardinality(T \ {x}) = n - 1 /\ n - 1 \in Nat /\ T \ {x} \in SUBSET S
  <2>1. Cardinality(T \ {x}) = n - 1 BY <1>3, <1>4, FS_RemoveElement
  <2> QED BY <1>1, <2>1
<1>8. Fine(T \ {x})
  <2>1. n - 1 \notin bad
    <3> HIDE DEF bad
    <3> QED BY <1>2, <1>4
  <2> HIDE DEF Fine
  <2> QED BY <1>7, <2>1
<1>9. PICK rows \in [1..n - 1 -> T \ {x}] : InOrder(rows) BY <1>7, <1>8
<1> DEFINE more == [m \in 1..n |-> IF m = n THEN x ELSE rows[m]]
<1>10. more \in [1..n -> T] BY <1>4, <1>7, <1>9
<1>11. InOrder(more)
  <2> SUFFICES ASSUME NEW l \in 1..n, NEW m \in 1..n, l < m PROVE Before(more[l], more[m])
    BY DEF InOrder
  <2>1. l \in 1..n - 1 /\ rows[l] \in T \ {x} /\ more[l] = rows[l] BY <1>4, <1>9
  <2>2. CASE m = n BY <1>6, <2>1, <2>2
  <2>3. CASE m # n
    <3>1. m \in 1..n - 1 /\ more[m] = rows[m] BY <1>4, <2>3
    <3> QED BY <1>9, <2>1, <3>1 DEF InOrder
  <2> QED BY <2>2, <2>3
<1> QED BY <1>3, <1>10, <1>11

LEMMA SortedIs ==
  ASSUME TypeOK, NEW S \in SUBSET DOMAIN entries, IsFiniteSet(S)
  PROVE  /\ Cardinality(S) \in Nat
         /\ Sorted(S) \in [1..Cardinality(S) -> S] /\ InOrder(Sorted(S))
         /\ \A x \in S : \E m \in 1..Cardinality(S) : Sorted(S)[m] = x
<1> DEFINE n == Cardinality(S)
           rows == Sorted(S)
<1>1. n \in Nat BY FS_CardinalityType
<1>2. rows \in [1..n -> S] /\ InOrder(rows) BY SortExists DEF Sorted, InOrder
<1>3. rows \in Injection(1..n, S)
  <2> SUFFICES ASSUME NEW l \in 1..n, NEW m \in 1..n, rows[l] = rows[m] PROVE l = m
    BY <1>2 DEF Injection, IsInjective
  <2>1. ~(l < m) /\ ~(m < l)
    <3>1. ~Before(rows[l], rows[l]) BY <1>2, BeforeOrder
    <3> QED BY <1>2, <3>1 DEF InOrder
  <2> QED BY <1>1, <2>1
<1>4. Cardinality(1..n) = n BY <1>1, FS_Interval
<1>5. rows \in Surjection(1..n, S)
  <2> HIDE DEF rows, n
  <2> QED BY <1>3, <1>4, FS_Injection DEF n
<1> QED BY <1>1, <1>2, <1>5 DEF Surjection

\* The rows a page is taken from.
Rest(a, shown) == {i \in Posted(a) : shown = <<>> \/ After(i, SE!Last(shown))}

\* The first rows of a sort: all of them, or a page of them that nothing left precedes.
LEMMA FirstRows ==
  ASSUME TypeOK, NEW E \in SUBSET DOMAIN entries, IsFiniteSet(E),
         NEW k \in Nat, k <= Cardinality(E)
  PROVE  LET page == SubSeq(Sorted(E), 1, k)
         IN /\ page \in Seq(E) /\ Len(page) = k /\ InOrder(page)
            /\ \A x \in E : \/ \E m \in 1..k : page[m] = x
                            \/ k < Cardinality(E) /\ (k > 0 => Before(page[k], x))
<1> DEFINE rows == Sorted(E)
           N == Cardinality(E)
           page == SubSeq(rows, 1, k)
<1>1. /\ N \in Nat /\ rows \in [1..N -> E] /\ InOrder(rows)
      /\ \A x \in E : \E m \in 1..N : rows[m] = x
  BY SortedIs
<1>2. page \in Seq(E) /\ Len(page) = k /\ \A m \in 1..k : page[m] = rows[m]
  <2>1. \A m \in 1..k : rows[m] \in E BY <1>1
  <2>2. /\ page \in Seq(E) /\ Len(page) = IF 1 <= k THEN k - 1 + 1 ELSE 0
        /\ \A m \in 1..k - 1 + 1 : page[m] = rows[1 + m - 1]
    <3> HIDE DEF rows
    <3> QED BY <2>1, SubSeqProperties
  <2> HIDE DEF page, rows
  <2> QED BY <2>2
<1>3. DOMAIN page = 1..k BY <1>2
<1> HIDE DEF page, rows, N
<1>4. InOrder(page)
  <2> SUFFICES ASSUME NEW l \in 1..k, NEW m \in 1..k, l < m PROVE Before(page[l], page[m])
    BY <1>3 DEF InOrder
  <2>1. l \in DOMAIN rows /\ m \in DOMAIN rows BY <1>1 DEF N
  <2>2. Before(rows[l], rows[m]) BY <1>1, <2>1 DEF InOrder
  <2> QED BY <1>2, <2>2
<1>5. ASSUME NEW x \in E
      PROVE  (\E m \in 1..k : page[m] = x) \/ (k < N /\ (k > 0 => Before(page[k], x)))
  <2>1. PICK n \in 1..N : rows[n] = x BY <1>1
  <2>2. CASE n <= k
    <3>1. n \in 1..k BY <1>1, <2>1, <2>2
    <3>2. page[n] = x BY <1>2, <2>1, <3>1
    <3> QED BY <3>1, <3>2
  <2>3. CASE k < n
    <3>1. k < N BY <1>1, <2>1, <2>3
    <3>2. ASSUME k > 0 PROVE Before(page[k], x)
      <4>1. k \in DOMAIN rows /\ n \in DOMAIN rows BY <1>1, <2>1, <3>1, <3>2
      <4>2. Before(rows[k], rows[n]) BY <1>1, <2>3, <4>1 DEF InOrder
      <4>3. k \in 1..k BY <3>2
      <4> QED BY <1>2, <2>1, <4>2, <4>3
    <3> QED BY <3>1, <3>2
  <2> QED BY <1>1, <2>1, <2>2, <2>3
<1> QED BY <1>2, <1>4, <1>5 DEF page, rows, N

\* A page adds the first of the rest, and says there are more when there are.
LEMMA PageRows ==
  ASSUME TypeOK, NEW a, NEW shown, NEW known, PageShown(a, shown, known)
  PROVE  \E page \in Seq(Rest(a, shown)), at \in {"rest", "more"} :
           /\ pages' = [at |-> at, account |-> a, known |-> known, shown |-> shown \o page]
           /\ InOrder(page)
           /\ at = "more" => page # <<>>
           /\ \A x \in Rest(a, shown) : \/ \E m \in DOMAIN page : page[m] = x
                                        \/ at = "more" /\ Before(page[Len(page)], x)
<1> DEFINE E == Rest(a, shown)
           N == Cardinality(E)
           k == IF N > PageSize THEN PageSize ELSE N
           l == IF N > PageSize THEN PageSize + 1 ELSE N
           at == IF N > PageSize THEN "more" ELSE "rest"
           rows == Sorted(E)
           query == SubSeq(rows, 1, l)
           page == SubSeq(rows, 1, k)
<1>1. E \in SUBSET DOMAIN entries /\ IsFiniteSet(E) /\ PageSize \in Nat /\ PageSize > 0
  <2>1. IsFiniteSet(DOMAIN entries)
    <3>1. DOMAIN entries = 1..Len(entries) /\ Len(entries) \in Nat BY DEF TypeOK, Snapshot, Database
    <3>2. IsFiniteSet(1..Len(entries)) BY <3>1, FS_Interval
    <3> QED BY <3>1, <3>2
  <2>2. E \subseteq DOMAIN entries BY DEF Rest, Posted
  <2> QED BY <2>1, <2>2, FS_Subset, ReportsAssumption
<1>2. N \in Nat /\ rows \in [1..N -> E] BY <1>1, SortedIs
<1>3. /\ k \in Nat /\ k <= N /\ l \in Nat /\ l <= N /\ k <= l
      /\ (l > PageSize <=> N > PageSize)
      /\ (N > PageSize => k > 0) /\ (k < N => N > PageSize)
  BY <1>1, <1>2
<1> HIDE DEF E
<1>4. Len(rows) = N
  BY <1>2 
<1>5. query \in Seq(E) /\ Len(query) = l
  <2> HIDE DEF N, l
  <2> QED BY <1>1, <1>3, FirstRows DEF N
<1>6. page \in Seq(E) /\ Len(page) = k /\ InOrder(page)
      /\ \A x \in E : (\E m \in 1..k : page[m] = x) \/ (k < N /\ (k > 0 => Before(page[k], x)))
  <2> HIDE DEF k
  <2> QED BY <1>1, <1>3, FirstRows
<1>7. SubSeq(query, 1, k) = page
  <2>1. \A m \in 1..k : query[m] = rows[m] /\ page[m] = rows[m]
    <3>1. \A m \in 1..l : rows[m] \in E BY <1>2, <1>3
    <3>2. \A m \in 1..l - 1 + 1 : query[m] = rows[1 + m - 1]
      <4> HIDE DEF rows, l
      <4> QED BY <1>3, <3>1, SubSeqProperties
    <3>3. \A m \in 1..k - 1 + 1 : page[m] = rows[1 + m - 1]
      <4>1. \A m \in 1..k : rows[m] \in E BY <1>3, <3>1
      <4> HIDE DEF rows, k
      <4> QED BY <1>3, <4>1, SubSeqProperties
    <3> HIDE DEF query, page, rows, k, l
    <3> QED BY <1>3, <3>2, <3>3
  <2>2. \A m \in 1..k : query[m] \in E BY <1>3, <1>5
  <2>3. /\ SubSeq(query, 1, k) \in Seq(E)
        /\ Len(SubSeq(query, 1, k)) = IF 1 <= k THEN k - 1 + 1 ELSE 0
        /\ \A m \in 1..k - 1 + 1 : SubSeq(query, 1, k)[m] = query[1 + m - 1]
    <3> HIDE DEF query, k
    <3> QED BY <1>3, <2>2, SubSeqProperties
  <2> HIDE DEF query, page, rows, k, l
  <2>4. Len(SubSeq(query, 1, k)) = k BY <1>3, <2>3
  <2>5. \A m \in 1..k : SubSeq(query, 1, k)[m] = page[m]  BY <1>3, <2>1, <2>3
  <2> QED BY <1>6, <2>3, <2>4, <2>5, SeqEqual
<1>8. PageQuery(a, shown) = query
  <2> HIDE DEF N
  <2> QED BY <1>4 DEF PageQuery, Rest, E
<1>9. pages' = [at |-> at, account |-> a, known |-> known, shown |-> shown \o page]
  <2>1. pages' = [at |-> IF Len(query) > PageSize THEN "more" ELSE "rest",
                  account |-> a, known |-> known,
                  shown |-> shown \o SubSeq(query, 1, IF Len(query) > PageSize THEN PageSize
                                                      ELSE Len(query))]
    BY <1>8 DEF PageShown
  <2>2. (IF Len(query) > PageSize THEN PageSize ELSE Len(query)) = k BY <1>3, <1>5
  <2>3. (IF Len(query) > PageSize THEN "more" ELSE "rest") = at BY <1>3, <1>5
  <2> HIDE DEF query, page, k, at
  <2> QED BY <1>7, <2>1, <2>2, <2>3
<1>10. /\ at = "more" => page # <<>>
       /\ \A x \in E : \/ \E m \in DOMAIN page : page[m] = x
                       \/ at = "more" /\ Before(page[Len(page)], x)
  <2>1. DOMAIN page = 1..k /\ (k > 0 => page # <<>>)
    <3> HIDE DEF page, k
    <3> QED BY <1>3, <1>6
  <2>2. (k < N => k > 0 /\ at = "more") /\ (at = "more" => k > 0) BY <1>3
  <2> HIDE DEF page, k, at, N
  <2> QED BY <1>6, <2>1, <2>2
<1>11. at \in {"rest", "more"} OBVIOUS
<1> HIDE DEF page, at
<1> QED BY <1>6, <1>9, <1>10, <1>11 DEF E

\* Some of an account's pages have been read: what was there at the first is among
\* them, or, when there are more, after their last row.
Covered(a, known, shown) ==
  \A i \in Posted(a) \cap (1..known) : \E m \in DOMAIN shown : shown[m] = i
CoveredSoFar(a, known, shown) ==
  \A i \in Posted(a) \cap (1..known) : \/ \E m \in DOMAIN shown : shown[m] = i
                                       \/ After(i, shown[Len(shown)])

PagesOK ==
  /\ pages = [at |-> pages.at, account |-> pages.account, known |-> pages.known,
              shown |-> pages.shown]
  /\ pages.at \in {"rest", "more"}
  /\ pages.known \in Nat /\ pages.known <= Len(entries)
  /\ pages.shown \in Seq(DOMAIN entries) /\ InOrder(pages.shown)
  /\ pages.at = "more" => /\ pages.shown # <<>>
                          /\ CoveredSoFar(pages.account, pages.known, pages.shown)
  /\ pages.at = "rest" /\ pages.account # None =>
       Covered(pages.account, pages.known, pages.shown)

LEMMA PagesOKIsWhole == PagesOK => PagesAreWhole
BY DEF PagesOK, PagesAreWhole, InOrder, Covered, SE!ToSet

\* A page after those shown, or a first one.
LEMMA PageRead ==
  ASSUME TypeOK, NEW a, NEW known \in Nat, known <= Len(entries),
         NEW shown \in Seq(DOMAIN entries), InOrder(shown),
         shown # <<>> => CoveredSoFar(a, known, shown),
         PageShown(a, shown, known), UNCHANGED entries
  PROVE  PagesOK'
<1>1. PICK page \in Seq(Rest(a, shown)), at \in {"rest", "more"} :
        /\ pages' = [at |-> at, account |-> a, known |-> known, shown |-> shown \o page]
        /\ InOrder(page)
        /\ at = "more" => page # <<>>
        /\ \A x \in Rest(a, shown) : \/ \E m \in DOMAIN page : page[m] = x
                                     \/ at = "more" /\ Before(page[Len(page)], x)
  BY PageRows
<1> DEFINE all == shown \o page
           last == shown[Len(shown)]
<1>2. Rest(a, shown) \subseteq DOMAIN entries BY DEF Rest, Posted
<1>3. page \in Seq(DOMAIN entries) BY <1>2, SeqMonotonic
<1>4. /\ all \in Seq(DOMAIN entries) /\ Len(all) = Len(shown) + Len(page)
      /\ \A m \in 1..Len(shown) + Len(page) :
           all[m] = IF m <= Len(shown) THEN shown[m] ELSE page[m - Len(shown)]
  BY <1>3, ConcatProperties
<1>5. /\ Len(shown) \in Nat /\ Len(page) \in Nat /\ DOMAIN shown = 1..Len(shown)
      /\ DOMAIN page = 1..Len(page)
      /\ (shown # <<>> => Len(shown) > 0) /\ (page # <<>> => Len(page) > 0)
  BY <1>3
<1>6. /\ Len(all) \in Nat /\ DOMAIN all = 1..Len(all)
  <2> HIDE DEF all
  <2> QED BY <1>4
<1> HIDE DEF all
<1>14. PICK L \in Nat, P \in Nat :
        /\ L = Len(shown) /\ P = Len(page) /\ DOMAIN shown = 1..L /\ DOMAIN page = 1..P
        /\ Len(all) = L + P /\ DOMAIN all = 1..L + P
        /\ \A m \in 1..L + P : all[m] = IF m <= L THEN shown[m] ELSE page[m - L]
  BY <1>4, <1>5, <1>6
\* Every row of the page is after what was shown.
<1>7. \A n \in DOMAIN page : page[n] \in Rest(a, shown) BY <1>5
<1>8. ASSUME NEW n \in DOMAIN page, shown # <<>> PROVE Before(last, page[n])
  BY <1>7, <1>8 DEF Rest, After, SE!Last
<1>9. InOrder(all)
  <2> SUFFICES ASSUME NEW l \in 1..Len(all), NEW m \in 1..Len(all), l < m
               PROVE  Before(all[l], all[m])
    BY <1>6 DEF InOrder
  <2>1. CASE m <= Len(shown)
    <3>1. l \in DOMAIN shown /\ m \in DOMAIN shown /\ all[l] = shown[l] /\ all[m] = shown[m]
      BY <1>14, <2>1
    <3> QED BY <3>1 DEF InOrder
  <2>2. CASE Len(shown) < l
    <3>1. /\ l - L \in DOMAIN page /\ m - L \in DOMAIN page /\ l - L < m - L
          /\ all[l] = page[l - L] /\ all[m] = page[m - L]
      <4>1. l \in 1..L + P /\ m \in 1..L + P /\ L < l /\ l < m BY <1>14, <2>2
      <4>2. l - L \in 1..P /\ m - L \in 1..P /\ ~(l <= L) /\ ~(m <= L) BY <4>1
      <4> QED BY <1>14, <4>1, <4>2
    <3> QED BY <1>1, <3>1 DEF InOrder
  <2>3. CASE l <= Len(shown) /\ Len(shown) < m
    <3>1. /\ l \in DOMAIN shown /\ Len(shown) \in DOMAIN shown /\ m - Len(shown) \in DOMAIN page
          /\ all[l] = shown[l] /\ all[m] = page[m - Len(shown)] /\ shown # <<>>
      <4>1. l \in 1..L + P /\ m \in 1..L + P /\ l <= L /\ L < m BY <1>14, <2>3
      <4>2. l \in 1..L /\ L \in 1..L /\ m - L \in 1..P /\ ~(m <= L) BY <4>1
      <4>3. all[l] = shown[l] /\ all[m] = page[m - L] BY <1>14, <4>1, <4>2
      <4>4. shown # <<>> BY <1>5, <1>14, <4>2
      <4> QED BY <1>14, <4>2, <4>3, <4>4
    <3>2. Before(last, page[m - Len(shown)]) BY <1>8, <3>1
    <3>3. l = Len(shown) \/ Before(shown[l], last)
      <4>1. l \in 1..L + P /\ l <= L BY <1>14, <2>3
      <4>2. l = L \/ l < L BY <4>1
      <4>3. CASE l < L
        <5>1. l \in DOMAIN shown /\ L \in DOMAIN shown BY <1>14, <3>1
        <5>2. Before(shown[l], shown[L]) BY <4>3, <5>1 DEF InOrder
        <5> QED BY <1>14, <5>2
      <4> QED BY <1>14, <4>2, <4>3
    <3>4. /\ shown[l] \in DOMAIN entries /\ last \in DOMAIN entries
          /\ page[m - Len(shown)] \in DOMAIN entries
      BY <1>2, <1>7, <3>1
    <3>5. Before(shown[l], page[m - Len(shown)])
      BY <3>2, <3>3, <3>4, BeforeOrder
    <3> QED BY <3>1, <3>5
  <2> QED BY <1>4, <1>5, <2>1, <2>2, <2>3
<1>10. ASSUME NEW i \in Posted(a) \cap (1..known)
       PROVE  \/ \E m \in DOMAIN all : all[m] = i
              \/ at = "more" /\ page # <<>> /\ Before(all[Len(all)], i)
  <2>1. ASSUME NEW m \in DOMAIN shown, shown[m] = i PROVE \E n \in DOMAIN all : all[n] = i
    <3>1. m \in DOMAIN all /\ all[m] = i BY <1>14, <2>1
    <3> QED BY <3>1
  <2>2. CASE i \in Rest(a, shown)
    <3>1. ASSUME NEW m \in DOMAIN page, page[m] = i PROVE \E n \in DOMAIN all : all[n] = i
      <4>1. m + L \in DOMAIN all /\ all[m + L] = i
        <5>1. m \in 1..P /\ m + L \in 1..L + P /\ ~(m + L <= L) /\ (m + L) - L = m BY <1>14, <3>1
        <5> QED BY <1>14, <3>1, <5>1
      <4> QED BY <4>1
    <3>2. CASE at = "more" /\ Before(page[Len(page)], i)
      <4>1. P > 0 BY <1>1, <1>5, <1>14, <3>2
      <4>2. L + P \in 1..L + P /\ ~(L + P <= L) /\ (L + P) - L = P BY <4>1
      <4>3. all[Len(all)] = page[Len(page)] BY <1>14, <4>2
      <4> QED BY <1>1, <3>2, <4>3
    <3> QED BY <1>1, <2>2, <3>1, <3>2
  <2>3. CASE i \notin Rest(a, shown)
    <3>1. shown # <<>> /\ ~After(i, last) BY <2>3 DEF Rest, SE!Last
    <3>2. \E m \in DOMAIN shown : shown[m] = i BY <3>1 DEF CoveredSoFar
    <3> QED BY <2>1, <3>2
  <2> QED BY <2>2, <2>3
<1>11. entries' = entries OBVIOUS
<1>12. pages' = [at |-> at, account |-> a, known |-> known, shown |-> all] BY <1>1 DEF all
<1>13. at = "more" => all # <<>>
  <2> SUFFICES ASSUME at = "more", all = <<>> PROVE FALSE OBVIOUS
  <2>1. P > 0 BY <1>1, <1>5, <1>14
  <2>2. Len(all) = 0 OBVIOUS
  <2> QED BY <1>14, <2>1, <2>2
<1>15. /\ pages' = [at |-> pages'.at, account |-> pages'.account, known |-> pages'.known,
                    shown |-> pages'.shown]
       /\ pages'.at \in {"rest", "more"} /\ pages'.account = a
       /\ pages'.known \in Nat /\ pages'.known <= Len(entries')
       /\ pages'.shown \in Seq(DOMAIN entries') /\ pages'.at = at /\ pages'.shown = all
       /\ pages'.known = known
  BY <1>4, <1>11, <1>12 DEF all
<1>16. InOrder(pages.shown)' BY <1>9, <1>11, <1>15 DEF InOrder, Before
<1>17. Posted(a)' = Posted(a) BY <1>11 DEF Posted
<1>18. Posted(pages.account)' = Posted(a)  BY <1>11, <1>15 DEF Posted
<1>19. at = "more" => CoveredSoFar(pages.account, pages.known, pages.shown)'
  BY <1>10, <1>11, <1>15, <1>18 DEF CoveredSoFar, After, Before
<1>20. at = "rest" => Covered(pages.account, pages.known, pages.shown)'
  BY <1>10, <1>15, <1>18 DEF Covered
<1> QED BY <1>13, <1>15, <1>16, <1>19, <1>20 DEF PagesOK

LEMMA PagesRead ==
  ASSUME TypeOK, PagesOK, PageFirst \/ PageNext
  PROVE  PagesOK'
<1>1. UNCHANGED entries BY DEF PageFirst, PageNext, vars
<1>2. Len(entries) \in Nat BY DEF TypeOK, Snapshot, Database
<1>3. ASSUME NEW a \in Viewed, PageShown(a, <<>>, Len(entries)) PROVE PagesOK'
  <2> DEFINE none == <<>>
  <2>1. none \in Seq(DOMAIN entries) /\ InOrder(none) BY DEF InOrder
  <2>2. PICK n \in Nat : n = Len(entries) /\ n <= Len(entries) BY <1>2
  <2>3. PageShown(a, none, n) BY <1>3, <2>2
  <2>4. none # <<>> => CoveredSoFar(a, n, none) OBVIOUS
  <2> HIDE DEF none
  <2> QED BY <1>1, <2>1, <2>2, <2>3, <2>4, PageRead
<1>4. CASE PageNext
  <2>1. PageShown(pages.account, pages.shown, pages.known) /\ pages.at = "more"
    BY <1>4 DEF PageNext
  <2> QED BY <1>1, <2>1, PageRead DEF PagesOK
<1> QED BY <1>3, <1>4 DEF PageFirst

\* Posting and reversing move no entry in the order, and none that was there.
LEMMA PagesLedger ==
  ASSUME TypeOK, SnapshotFresh, PagesOK, [Next]_vars, UNCHANGED pages
  PROVE  PagesOK'
<1>1. /\ Len(entries) \in Nat /\ Len(entries') \in Nat /\ Len(entries) <= Len(entries')
      /\ DOMAIN entries = 1..Len(entries) /\ DOMAIN entries' = 1..Len(entries')
      /\ \A i \in 1..Len(entries) : /\ entries'[i].lines = entries[i].lines
                                    /\ entries'[i].date = entries[i].date
  BY EntriesKept
<1>2. \A i, j \in DOMAIN entries : Before(i, j)' <=> Before(i, j) BY <1>1 DEF Before
<1>3. /\ pages.shown \in Seq(DOMAIN entries')
      /\ \A m \in DOMAIN pages.shown : pages.shown[m] \in DOMAIN entries
      /\ pages.shown # <<>> => pages.shown[Len(pages.shown)] \in DOMAIN entries
  <2>1. DOMAIN entries \subseteq DOMAIN entries' BY <1>1
  <2>2. pages.shown \in Seq(DOMAIN entries) BY DEF PagesOK
  <2> QED BY <2>1, <2>2, SeqMonotonic
<1>4. InOrder(pages.shown)' BY <1>2, <1>3 DEF PagesOK, InOrder
<1>5. Posted(pages.account)' \cap (1..pages.known) = Posted(pages.account) \cap (1..pages.known)
  BY <1>1 DEF Posted, PagesOK
<1>6. Covered(pages.account, pages.known, pages.shown)'
        <=> Covered(pages.account, pages.known, pages.shown)
  BY <1>5 DEF Covered
<1>7. pages.at = "more" => CoveredSoFar(pages.account, pages.known, pages.shown)'
  <2> SUFFICES ASSUME pages.at = "more", NEW i \in Posted(pages.account) \cap (1..pages.known)
               PROVE  \/ \E m \in DOMAIN pages.shown : pages.shown[m] = i
                      \/ After(i, pages.shown[Len(pages.shown)])'
    BY <1>5 DEF CoveredSoFar
  <2>1. \/ \E m \in DOMAIN pages.shown : pages.shown[m] = i
        \/ After(i, pages.shown[Len(pages.shown)])
    BY DEF PagesOK, CoveredSoFar
  <2>2. i \in DOMAIN entries BY DEF Posted
  <2> QED BY <1>2, <1>3, <2>1, <2>2 DEF After, PagesOK
<1> QED BY <1>1, <1>3, <1>4, <1>6, <1>7 DEF PagesOK

-----------------------------------------------------------------------------
(* Exports *)

File == {NoFile} \cup {<<n>> : n \in Nat}

ExportsType ==
  /\ books \in Nat
  /\ report \in [status : {"none", "queued", "running", "completed", "failed"},
                 asked : Nat, csv : File]
  /\ queued \in [at : {"none", "waiting", "active", "over", "threw"}, tries : Nat,
                 doubled : BOOLEAN]
  /\ hand \in [Hands -> [at : {"free", "found", "foundRunning", "reading", "saving", "saved"},
                     csv : File]]
  /\ polling \in [at : {"rest", "asking", "polling", "download", "saved", "missing",
                        "gaveUp", "error"},
                  polls : Nat, file : File]

\* A csv that is there was read after it was asked for.
Since(csv) == csv # NoFile => csv[1] >= report.asked

Busy(h) == hand[h].at # "free"

CsvsAreSince ==
  /\ report.asked <= books /\ Since(report.csv) /\ Since(polling.file)
  /\ \A h \in Hands : Since(hand[h].csv)
  /\ \A h \in Hands : hand[h].at \in {"saving", "saved"} => hand[h].csv # NoFile

NotYetQueued ==
  /\ polling.at \in {"rest", "asking"} =>
       /\ queued.at = "none" /\ queued.tries = 0 /\ ~queued.doubled /\ report.csv = NoFile
       /\ polling.file = NoFile /\ report.status # "completed"
       /\ \A h \in Hands : ~Busy(h) /\ hand[h].csv = NoFile
  /\ polling.at = "rest" => report.status = "none"

\* A second attempt beside a first takes the last of two tries, so nothing is tried
\* after that; and until then the one that saved its csv has left the report completed,
\* or failed.
TriesCounted ==
  /\ queued.tries <= MaxTries
  /\ queued.at = "waiting" => queued.tries > 0
  /\ \A h \in Hands : Busy(h) => queued.tries < MaxTries
  /\ queued.doubled => queued.tries = 0
  /\ \A g, h \in Hands : g # h /\ Busy(g) /\ Busy(h) => queued.doubled
  /\ \A h \in Hands : hand[h].at = "saved" =>
       report.status \notin {"queued", "running"} \/ queued.tries = 0
  /\ \A h \in Hands : Busy(h) /\ hand[h].at # "saved" /\ report.status = "completed" =>
       queued.doubled

Told ==
  /\ polling.at = "saved" => polling.file # NoFile
  /\ polling.at = "download" => report.status = "completed" \/ queued.doubled

ExportsInv ==
  ExportsType /\ CsvsAreSince /\ NotYetQueued /\ TriesCounted /\ Told /\ ExportsAreWhole

LEMMA FileIs ==
  /\ NoFile \in File
  /\ \A n \in Nat : <<n>> \in File /\ <<n>> # NoFile /\ <<n>>[1] = n
  /\ \A csv \in File : csv # NoFile => csv[1] \in Nat
BY DEF File, NoFile

LEMMA ExportsInitial == ExportsInit => ExportsInv
<1> SUFFICES ASSUME ExportsInit PROVE ExportsInv OBVIOUS
<1>1. NoFile \in File BY DEF File
<1> QED BY <1>1, ExportsAssumption DEF ExportsInit, ExportsInv, ExportsType, ExportsAreWhole,
          CsvsAreSince, NotYetQueued, TriesCounted, Told, Since, Busy, Free, NoFile

LEMMA ExportsPage ==
  ASSUME ExportsInv, Posting \/ ExportAsk \/ ExportEnqueue \/ Poll \/ Download
  PROVE  ExportsInv'
<1> USE DEF ExportsInv
<1>1. CASE Posting
  <2>1. /\ books' = books + 1
        /\ report' = report /\ queued' = queued /\ hand' = hand /\ polling' = polling
    BY <1>1, ExportsAssumption DEF Posting, ExportsType
  <2>2. ExportsType' BY <2>1, FileIs, ExportsAssumption DEF ExportsType
  <2>3. CsvsAreSince' BY <2>1, FileIs DEF CsvsAreSince, Since, ExportsType
  <2>4. NotYetQueued' BY <2>1 DEF NotYetQueued, ExportsType, Busy
  <2>5. TriesCounted' BY <2>1, ExportsAssumption DEF TriesCounted, NotYetQueued, ExportsType, Busy
  <2>6. Told' BY <2>1 DEF Told, TriesCounted, ExportsType
  <2>7. ExportsAreWhole' BY <2>1 DEF ExportsAreWhole, Told, TriesCounted, CsvsAreSince, NotYetQueued, ExportsType, Since, AtWork, Busy
  <2> QED BY <2>2, <2>3, <2>4, <2>5, <2>6, <2>7 DEF ExportsInv
<1>2. CASE ExportAsk
  <2>1. /\ polling.at = "rest"
        /\ books' = books /\ queued' = queued /\ hand' = hand
        /\ report' = [status |-> "queued", asked |-> books, csv |-> report.csv]
        /\ polling' = [at |-> "asking", polls |-> polling.polls, file |-> polling.file]
    BY <1>2, ExportsAssumption DEF ExportAsk, ExportsType
  <2>2. ExportsType' BY <2>1, FileIs, ExportsAssumption DEF ExportsType
  <2>3. CsvsAreSince' BY <2>1, FileIs DEF CsvsAreSince, NotYetQueued, Since, ExportsType
  <2>4. NotYetQueued' BY <2>1 DEF NotYetQueued, ExportsType, Busy
  <2>5. TriesCounted' BY <2>1, ExportsAssumption DEF TriesCounted, NotYetQueued, ExportsType, Busy
  <2>6. Told' BY <2>1 DEF Told, TriesCounted, ExportsType
  <2>7. ExportsAreWhole' BY <2>1 DEF ExportsAreWhole, Told, TriesCounted, CsvsAreSince, NotYetQueued, ExportsType, Since, AtWork, Busy
  <2> QED BY <2>2, <2>3, <2>4, <2>5, <2>6, <2>7 DEF ExportsInv
<1>3. CASE ExportEnqueue
  <2>1. /\ polling.at = "asking"
        /\ books' = books /\ report' = report /\ hand' = hand
        /\ \/ /\ queued' = [at |-> "waiting", tries |-> MaxTries, doubled |-> queued.doubled]
              /\ polling' = [at |-> "polling", polls |-> polling.polls, file |-> polling.file]
           \/ /\ queued' = queued
              /\ polling' = [at |-> "error", polls |-> polling.polls, file |-> polling.file]
    BY <1>3, ExportsAssumption DEF ExportEnqueue, ExportsType, Troubled
  <2>2. ExportsType' BY <2>1, FileIs, ExportsAssumption DEF ExportsType
  <2>3. CsvsAreSince' BY <2>1, FileIs DEF CsvsAreSince, Since, ExportsType
  <2>4. NotYetQueued' BY <2>1 DEF NotYetQueued, ExportsType, Busy
  <2>5. TriesCounted' BY <2>1, ExportsAssumption DEF TriesCounted, NotYetQueued, ExportsType, Busy
  <2>6. Told' BY <2>1 DEF Told, TriesCounted, ExportsType
  <2>7. ExportsAreWhole' BY <2>1 DEF ExportsAreWhole, Told, TriesCounted, CsvsAreSince, NotYetQueued, ExportsType, Since, AtWork, Busy
  <2> QED BY <2>2, <2>3, <2>4, <2>5, <2>6, <2>7 DEF ExportsInv
<1>4. CASE Poll
  <2>1. /\ polling.at = "polling"
        /\ books' = books /\ report' = report /\ queued' = queued /\ hand' = hand
        /\ polling' = [at |-> polling'.at, polls |-> polling.polls + 1, file |-> polling.file]
        /\ polling'.at \in {"download", "error", "gaveUp", "polling"}
        /\ polling'.at = "download" => report.status = "completed"
    BY <1>4, ExportsAssumption DEF Poll, ExportsType
  <2>2. ExportsType' BY <2>1, FileIs, ExportsAssumption DEF ExportsType
  <2>3. CsvsAreSince' BY <2>1, FileIs DEF CsvsAreSince, Since, ExportsType
  <2>4. NotYetQueued' BY <2>1 DEF NotYetQueued, ExportsType, Busy
  <2>5. TriesCounted' BY <2>1, ExportsAssumption DEF TriesCounted, NotYetQueued, ExportsType, Busy
  <2>6. Told' BY <2>1 DEF Told, TriesCounted, ExportsType
  <2>7. ExportsAreWhole' BY <2>1 DEF ExportsAreWhole, Told, TriesCounted, CsvsAreSince, NotYetQueued, ExportsType, Since, AtWork, Busy
  <2> QED BY <2>2, <2>3, <2>4, <2>5, <2>6, <2>7 DEF ExportsInv
<1>5. CASE Download
  <2>1. /\ polling.at = "download"
        /\ books' = books /\ report' = report /\ queued' = queued /\ hand' = hand
        /\ IF report.status = "completed" /\ report.csv # NoFile
           THEN polling' = [at |-> "saved", polls |-> polling.polls, file |-> report.csv]
           ELSE polling' = [at |-> "missing", polls |-> polling.polls, file |-> polling.file]
    BY <1>5, ExportsAssumption DEF Download, ExportsType
  <2>2. ExportsType' BY <2>1, FileIs, ExportsAssumption DEF ExportsType
  <2>3. CsvsAreSince' BY <2>1, FileIs DEF CsvsAreSince, Since, ExportsType
  <2>4. NotYetQueued' BY <2>1 DEF NotYetQueued, ExportsType, Busy
  <2>5. TriesCounted' BY <2>1, ExportsAssumption DEF TriesCounted, NotYetQueued, ExportsType, Busy
  <2>6. Told' BY <2>1 DEF Told, TriesCounted, ExportsType
  <2>7. ExportsAreWhole' BY <2>1 DEF ExportsAreWhole, Told, TriesCounted, CsvsAreSince, NotYetQueued, ExportsType, Since, AtWork, Busy
  <2> QED BY <2>2, <2>3, <2>4, <2>5, <2>6, <2>7 DEF ExportsInv
<1> QED BY <1>1, <1>2, <1>3, <1>4, <1>5

LEMMA ExportsWork ==
  ASSUME MaxTries <= 2, ExportsInv, NEW h \in Hands,
         \/ Take(h) \/ MarkRunning(h) \/ ReadBooks(h) \/ SaveCsv(h) \/ Answer(h)
         \/ SaveFailure(h) \/ Throw(h) \/ StallExport(h)
  PROVE  ExportsInv'
<1> USE DEF ExportsInv
<1>1. CASE Take(h)
  <2>1. /\ books' = books /\ polling' = polling
        /\ queued.at = "waiting" /\ ~Busy(h)
        /\ queued' = [at |-> queued'.at, tries |-> queued.tries - 1, doubled |-> (queued.doubled \/ Beside(h))]
        /\ report' = report
        /\ IF report.status = "completed" THEN queued'.at = "over" /\ hand' = hand
           ELSE /\ queued'.at = "active"
                /\ \E at \in {"found", "foundRunning"} :
                     hand' = [hand EXCEPT ![h] = [at |-> at, csv |-> hand[h].csv]]
    <3>1. /\ books' = books /\ polling' = polling /\ report' = report
          /\ queued.at = "waiting" /\ hand[h].at = "free" /\ ~Busy(h)
      BY <1>1 DEF Take, Takes, Busy
    <3>2. PICK q : q = queued OBVIOUS
    <3>3. q = [at |-> q.at, tries |-> q.tries, doubled |-> q.doubled] BY <3>2 DEF ExportsType
    <3>4. \E at \in {"over", "active"} :
            /\ queued' = [q EXCEPT !.at = at, !.tries = @ - 1, !.doubled = @ \/ Beside(h)]
            /\ (at = "over") <=> (report.status = "completed")
      BY <1>1, <3>2 DEF Take
    <3>5. queued' = [at |-> queued'.at, tries |-> queued.tries - 1, doubled |-> (queued.doubled \/ Beside(h))]
          /\ queued'.at = (IF report.status = "completed" THEN "over" ELSE "active")
      BY <3>2, <3>3, <3>4
    <3>6. CASE report.status = "completed"
      <4>1. hand' = hand BY <1>1, <3>6 DEF Take
      <4> QED BY <3>1, <3>5, <3>6, <4>1
    <3>7. CASE report.status # "completed"
      <4>1. PICK at \in {"found", "foundRunning"} : hand' = [hand EXCEPT ![h].at = at]
        BY <1>1, <3>7 DEF Take, Found
      <4>2. hand' = [hand EXCEPT ![h] = [at |-> at, csv |-> hand[h].csv]]
        <5>1. hand[h] = [at |-> hand[h].at, csv |-> hand[h].csv] BY DEF ExportsType
        <5>2. PICK g : g = hand[h] OBVIOUS
        <5>3. [g EXCEPT !.at = at] = [at |-> at, csv |-> g.csv] BY <5>1, <5>2
        <5>4. hand' = [hand EXCEPT ![h] = [g EXCEPT !.at = at]] BY <4>1, <5>2
        <5> QED BY <5>2, <5>3, <5>4
      <4> QED BY <3>1, <3>5, <3>7, <4>2
    <3> QED BY <3>6, <3>7
  <2>8. /\ queued.tries - 1 \in Nat /\ ~queued.doubled
        /\ \A o \in Hands \ {h} : Busy(o) => queued.tries - 1 = 0
    <3>1. /\ queued.tries \in Nat /\ queued.tries > 0 /\ queued.doubled \in BOOLEAN
          /\ queued.doubled => queued.tries = 0
      BY <2>1 DEF TriesCounted, ExportsType
    <3>2. \A o \in Hands : Busy(o) => queued.tries < MaxTries BY DEF TriesCounted
    <3>3. MaxTries \in Nat BY ExportsAssumption
    <3> QED BY <3>1, <3>2, <3>3, MaxTries <= 2
  <2>2. ExportsType'
    <3> DEFINE d == queued.doubled \/ Beside(h)
    <3>1. d \in BOOLEAN BY DEF ExportsType, Beside
    <3> HIDE DEF d
    <3>3. queued' = [at |-> queued'.at, tries |-> queued.tries - 1, doubled |-> d]
          /\ queued'.at \in {"over", "active"}
      BY <2>1 DEF d
    <3>2. queued' \in [at : {"none", "waiting", "active", "over", "threw"}, tries : Nat,
                       doubled : BOOLEAN]
      BY <2>8, <3>1, <3>3
    <3> QED BY <2>1, <3>2 DEF ExportsType
  <2>3. CsvsAreSince' BY <2>1, FileIs DEF CsvsAreSince, Since, ExportsType
  <2>4. NotYetQueued' BY <2>1 DEF NotYetQueued, ExportsType, Busy
  <2>5. TriesCounted'
    <3>1. queued'.tries = queued.tries - 1 /\ queued'.at \in {"over", "active"}
      BY <2>1
    <3>9. queued'.doubled <=> Beside(h)
      <4>1. queued'.doubled = (queued.doubled \/ Beside(h)) BY <2>1
      <4> QED BY <2>8, <4>1
    <3>2. \A o \in Hands : Busy(o)' => o = h \/ Busy(o) BY <2>1 DEF Busy, ExportsType
    <3>3. queued'.doubled => queued'.tries = 0 BY <2>8, <3>1, <3>9 DEF Beside, Busy
    <3>4. \A f, g \in Hands : f # g /\ Busy(f)' /\ Busy(g)' => queued'.doubled
      BY <2>1, <2>8, <3>2, <3>9 DEF TriesCounted, Beside, Busy
    <3>5. \A o \in Hands : hand'[o].at = "saved" =>
             report'.status \notin {"queued", "running"} \/ queued'.tries = 0
      BY <2>1, <2>8, <3>1 DEF Busy, ExportsType
    <3>6. \A o \in Hands : Busy(o)' /\ hand'[o].at # "saved" /\ report'.status = "completed" =>
             queued'.doubled
      BY <2>1, <2>8 DEF TriesCounted, ExportsType, Busy
    <3>7. queued'.tries < MaxTries BY <2>8, <3>1, ExportsAssumption DEF TriesCounted, ExportsType
    <3>8. queued'.tries <= MaxTries /\ queued'.at # "waiting"
      BY <2>8, <3>1, <3>7, ExportsAssumption
    <3> QED BY <3>3, <3>4, <3>5, <3>6, <3>7, <3>8 DEF TriesCounted, Busy
  <2>6. Told' BY <2>1 DEF Told, TriesCounted, ExportsType
  <2>7. ExportsAreWhole' BY <2>1 DEF ExportsAreWhole, Told, TriesCounted, CsvsAreSince, NotYetQueued, ExportsType, Since, Beside, AtWork, Busy
  <2> QED BY <2>2, <2>3, <2>4, <2>5, <2>6, <2>7 DEF ExportsInv
<1>2. CASE ReadBooks(h)
  <2>1. /\ books' = books /\ polling' = polling /\ report' = report /\ queued' = queued
        /\ hand[h].at = "reading"
        /\ hand' = [hand EXCEPT ![h] = [at |-> "saving", csv |-> <<books>>]]
    BY <1>2, ExportsAssumption DEF ReadBooks, ExportsType
  <2>2. ExportsType' BY <2>1, FileIs, ExportsAssumption DEF ExportsType
  <2>3. CsvsAreSince' BY <2>1, FileIs DEF CsvsAreSince, Since, ExportsType
  <2>4. NotYetQueued' BY <2>1 DEF NotYetQueued, ExportsType, Busy
  <2>5. TriesCounted' BY <2>1, ExportsAssumption DEF TriesCounted, NotYetQueued, Beside, ExportsType, Busy
  <2>6. Told' BY <2>1 DEF Told, TriesCounted, ExportsType
  <2>7. ExportsAreWhole' BY <2>1 DEF ExportsAreWhole, Told, TriesCounted, CsvsAreSince, NotYetQueued, ExportsType, Since, Beside, AtWork, Busy
  <2> QED BY <2>2, <2>3, <2>4, <2>5, <2>6, <2>7 DEF ExportsInv
<1>3. CASE SaveCsv(h)
  <2>1. /\ books' = books /\ polling' = polling /\ queued' = queued
        /\ hand[h].at = "saving"
        /\ hand' = [hand EXCEPT ![h] = [at |-> "saved", csv |-> hand[h].csv]]
        /\ report' = [status |-> "completed", asked |-> report.asked, csv |-> hand[h].csv]
    <3>1. report' = [report EXCEPT !.status = "completed", !.csv = hand[h].csv] BY <1>3 DEF SaveCsv
    <3>2. hand' = [hand EXCEPT ![h].at = "saved"] /\ hand[h].at = "saving" BY <1>3 DEF SaveCsv
    <3>3. report = [status |-> report.status, asked |-> report.asked, csv |-> report.csv]
          /\ hand[h] = [at |-> hand[h].at, csv |-> hand[h].csv]
      BY DEF ExportsType
    <3>4. report' = [status |-> "completed", asked |-> report.asked, csv |-> hand[h].csv]
      BY <3>1, <3>3
    <3>5. [hand[h] EXCEPT !.at = "saved"] = [at |-> "saved", csv |-> hand[h].csv] BY <3>3
    <3>6. hand' = [hand EXCEPT ![h] = [hand[h] EXCEPT !.at = "saved"]] BY <3>2
    <3> QED BY <1>3, <3>2, <3>4, <3>5, <3>6 DEF SaveCsv
  <2>2. ExportsType' BY <2>1, FileIs, ExportsAssumption DEF ExportsType
  <2>3. CsvsAreSince' BY <2>1, FileIs DEF CsvsAreSince, Since, ExportsType
  <2>4. NotYetQueued' BY <2>1 DEF NotYetQueued, ExportsType, Busy
  <2>5. TriesCounted' BY <2>1, ExportsAssumption DEF TriesCounted, NotYetQueued, Beside, ExportsType, Busy
  <2>6. Told' BY <2>1 DEF Told, TriesCounted, ExportsType
  <2>7. ExportsAreWhole' BY <2>1 DEF ExportsAreWhole, Told, TriesCounted, CsvsAreSince, NotYetQueued, ExportsType, Since, Beside, AtWork, Busy
  <2> QED BY <2>2, <2>3, <2>4, <2>5, <2>6, <2>7 DEF ExportsInv
<1>4. CASE Answer(h)
  <2>1. /\ books' = books /\ polling' = polling /\ report' = report
        /\ hand[h].at = "saved"
        /\ hand' = [hand EXCEPT ![h] = [at |-> "free", csv |-> NoFile]]
        /\ IF Beside(h) THEN queued' = queued
           ELSE queued' = [at |-> "over", tries |-> queued.tries, doubled |-> queued.doubled]
    BY <1>4, ExportsAssumption DEF Answer, Ends, Free, ExportsType
  <2>2. ExportsType' BY <2>1, FileIs, ExportsAssumption DEF ExportsType
  <2>3. CsvsAreSince' BY <2>1, FileIs DEF CsvsAreSince, Since, ExportsType
  <2>4. NotYetQueued' BY <2>1 DEF NotYetQueued, ExportsType, Busy
  <2>5. TriesCounted' BY <2>1, ExportsAssumption DEF TriesCounted, NotYetQueued, Beside, ExportsType, Busy
  <2>6. Told' BY <2>1 DEF Told, TriesCounted, ExportsType
  <2>7. ExportsAreWhole' BY <2>1 DEF ExportsAreWhole, Told, TriesCounted, CsvsAreSince, NotYetQueued, ExportsType, Since, Beside, AtWork, Busy
  <2> QED BY <2>2, <2>3, <2>4, <2>5, <2>6, <2>7 DEF ExportsInv
<1>5. CASE SaveFailure(h)
  <2>1. /\ books' = books /\ polling' = polling
        /\ hand[h].at \in {"reading", "saving"}
        /\ hand' = [hand EXCEPT ![h] = [at |-> "free", csv |-> NoFile]]
        /\ report' = [status |-> "failed", asked |-> report.asked, csv |-> report'.csv]
        /\ report'.csv \in {report.csv, hand[h].csv}
        /\ IF Beside(h) THEN queued' = queued
           ELSE queued' = [at |-> "over", tries |-> queued.tries, doubled |-> queued.doubled]
    BY <1>5, ExportsAssumption DEF SaveFailure, Ends, Free, ExportsType
  <2>2. ExportsType' BY <2>1, FileIs, ExportsAssumption DEF ExportsType
  <2>3. CsvsAreSince' BY <2>1, FileIs DEF CsvsAreSince, Since, ExportsType
  <2>4. NotYetQueued' BY <2>1 DEF NotYetQueued, ExportsType, Busy
  <2>5. TriesCounted' BY <2>1, ExportsAssumption DEF TriesCounted, NotYetQueued, Beside, ExportsType, Busy
  <2>6. Told' BY <2>1 DEF Told, TriesCounted, ExportsType, Busy
  <2>7. ExportsAreWhole' BY <2>1 DEF ExportsAreWhole, Told, TriesCounted, CsvsAreSince, NotYetQueued, ExportsType, Since, Beside, AtWork, Busy
  <2> QED BY <2>2, <2>3, <2>4, <2>5, <2>6, <2>7 DEF ExportsInv
<1>6. CASE Throw(h)
  <2>1. /\ books' = books /\ polling' = polling /\ report' = report
        /\ Busy(h)
        /\ hand' = [hand EXCEPT ![h] = [at |-> "free", csv |-> NoFile]]
        /\ IF Beside(h) THEN queued' = queued
           ELSE queued' = [at |-> IF queued.tries > 0 THEN "waiting" ELSE "threw", tries |-> queued.tries,
                           doubled |-> queued.doubled]
    BY <1>6, ExportsAssumption DEF Throw, Ends, Free, Busy, ExportsType
  <2>2. ExportsType' BY <2>1, FileIs, ExportsAssumption DEF ExportsType
  <2>3. CsvsAreSince' BY <2>1, FileIs DEF CsvsAreSince, Since, ExportsType
  <2>4. NotYetQueued' BY <2>1 DEF NotYetQueued, ExportsType, Busy
  <2>5. TriesCounted' BY <2>1, ExportsAssumption DEF TriesCounted, NotYetQueued, Beside, ExportsType, Busy
  <2>6. Told' BY <2>1 DEF Told, TriesCounted, ExportsType
  <2>7. ExportsAreWhole' BY <2>1 DEF ExportsAreWhole, Told, TriesCounted, CsvsAreSince, NotYetQueued, ExportsType, Since, Beside, AtWork, Busy
  <2> QED BY <2>2, <2>3, <2>4, <2>5, <2>6, <2>7 DEF ExportsInv
<1>7. CASE StallExport(h)
  <2>1. /\ books' = books /\ polling' = polling /\ report' = report /\ hand' = hand
        /\ Busy(h) /\ queued.tries > 0
        /\ queued' = [at |-> "waiting", tries |-> queued.tries, doubled |-> queued.doubled]
    BY <1>7, ExportsAssumption DEF StallExport, Busy, ExportsType
  <2>2. ExportsType' BY <2>1, FileIs, ExportsAssumption DEF ExportsType
  <2>3. CsvsAreSince' BY <2>1, FileIs DEF CsvsAreSince, Since, ExportsType
  <2>4. NotYetQueued' BY <2>1 DEF NotYetQueued, ExportsType, Busy
  <2>5. TriesCounted' BY <2>1, ExportsAssumption DEF TriesCounted, NotYetQueued, Beside, ExportsType, Busy
  <2>6. Told' BY <2>1 DEF Told, TriesCounted, ExportsType
  <2>7. ExportsAreWhole' BY <2>1 DEF ExportsAreWhole, Told, TriesCounted, CsvsAreSince, NotYetQueued, ExportsType, Since, Beside, AtWork, Busy
  <2> QED BY <2>2, <2>3, <2>4, <2>5, <2>6, <2>7 DEF ExportsInv
<1>8. CASE MarkRunning(h)
  <2>1. /\ books' = books /\ polling' = polling /\ queued' = queued
        /\ Busy(h) /\ hand[h].at # "saved"
        /\ hand' = [hand EXCEPT ![h] = [at |-> "reading", csv |-> hand[h].csv]]
        /\ \/ report' = report
           \/ report' = [status |-> "running", asked |-> report.asked, csv |-> report.csv]
    <3>1. hand' = [hand EXCEPT ![h].at = "reading"] /\ hand[h].at \in {"found", "foundRunning"}
      BY <1>8 DEF MarkRunning
    <3>2. report = [status |-> report.status, asked |-> report.asked, csv |-> report.csv]
          /\ hand[h] = [at |-> hand[h].at, csv |-> hand[h].csv]
      BY DEF ExportsType
    <3>3. [hand[h] EXCEPT !.at = "reading"] = [at |-> "reading", csv |-> hand[h].csv] BY <3>2
    <3>4. hand' = [hand EXCEPT ![h] = [hand[h] EXCEPT !.at = "reading"]] BY <3>1
    <3>5. [report EXCEPT !.status = "running"]
            = [status |-> "running", asked |-> report.asked, csv |-> report.csv]
      BY <3>2
    <3> QED BY <1>8, <3>1, <3>3, <3>4, <3>5 DEF MarkRunning, Busy
  <2>2. ExportsType' BY <2>1, FileIs, ExportsAssumption DEF ExportsType
  <2>3. CsvsAreSince' BY <2>1, FileIs DEF CsvsAreSince, Since, ExportsType
  <2>4. NotYetQueued' BY <2>1 DEF NotYetQueued, ExportsType, Busy
  <2>5. TriesCounted' BY <2>1, ExportsAssumption DEF TriesCounted, NotYetQueued, Beside, ExportsType, Busy
  <2>6. Told' BY <2>1 DEF Told, TriesCounted, ExportsType, Busy
  <2>7. ExportsAreWhole' BY <2>1 DEF ExportsAreWhole, Told, TriesCounted, CsvsAreSince, NotYetQueued, ExportsType, Since, Beside, AtWork, Busy
  <2> QED BY <2>2, <2>3, <2>4, <2>5, <2>6, <2>7 DEF ExportsInv
<1> QED BY <1>1, <1>2, <1>3, <1>4, <1>5, <1>6, <1>7, <1>8

ReportInv ==
  /\ TypeOK /\ SnapshotFresh /\ EntriesBalanced
  /\ SheetOK /\ PagesOK /\ ExportsInv

LEMMA ReportInitial == Init /\ ReportInit /\ ExportsInit => ReportInv
<1> SUFFICES ASSUME Init, ReportInit, ExportsInit PROVE ReportInv OBVIOUS
<1>1. TypeOK /\ SnapshotFresh BY TypeInit, FreshInit
<1>2. entries = <<>> BY DEF Init
<1>3. Len(entries) = 0 /\ DOMAIN entries = {} BY <1>2
<1>4. EntriesBalanced BY <1>3 DEF EntriesBalanced
<1>5. SheetOK BY <1>3 DEF ReportInit, NoSheet, SheetOK, SheetBalances
<1>6. PagesOK
  <2>1. pages = [at |-> "rest", account |-> None, known |-> 0, shown |-> <<>>]
    BY DEF ReportInit, NoPages
  <2>2. pages.shown \in Seq(DOMAIN entries) /\ InOrder(pages.shown) BY <2>1 DEF InOrder
  <2> QED BY <1>3, <2>1, <2>2 DEF PagesOK
<1> QED BY <1>1, <1>4, <1>5, <1>6, ExportsInitial DEF ReportInv

\* While entries are posted and reversed, the balance sheet balances unless income or
\* expense came between its two trial balances; the pages of an account's ledger miss
\* nothing and repeat nothing; and what is exported is what was asked for, or newer
\* (reportService.balanceSheet, GeneralLedger.accountLedger, processReportExport).  The
\* policy's two tries are a premise: with more, an attempt that stalled can end the job
\* another has been given.
THEOREM ReadsSound ==
  ASSUME MaxTries <= 2
  PROVE  ReportSpec => []ReadsAreSound
<1>1. Init /\ ReportInit /\ ExportsInit => ReportInv BY ReportInitial
<1>2. ReportInv /\ [\/ Next /\ UNCHANGED <<reportVars, exportVars>>
                    \/ ReportNext /\ UNCHANGED exportVars
                    \/ ExportsNext /\ UNCHANGED <<vars, reportVars>>
                   ]_<<vars, reportVars, exportVars>>
        => ReportInv'
  <2> SUFFICES ASSUME ReportInv,
                      [\/ Next /\ UNCHANGED <<reportVars, exportVars>>
                       \/ ReportNext /\ UNCHANGED exportVars
                       \/ ExportsNext /\ UNCHANGED <<vars, reportVars>>
                      ]_<<vars, reportVars, exportVars>>
               PROVE  ReportInv'
    OBVIOUS
  <2>1. ASSUME [Next]_vars, UNCHANGED reportVars, ExportsInv' PROVE ReportInv'
    <3>1. TypeOK' /\ SnapshotFresh' BY <2>1, TypeStep, FreshStep DEF ReportInv
    <3>2. EntriesBalanced' BY <2>1, BalancedStep DEF ReportInv
    <3>3. SheetOK' BY <2>1, SheetLedger DEF ReportInv, reportVars
    <3>4. PagesOK' BY <2>1, PagesLedger DEF ReportInv, reportVars
    <3> QED BY <2>1, <3>1, <3>2, <3>3, <3>4 DEF ReportInv
  <2>2. ASSUME UNCHANGED exportVars PROVE ExportsInv'
    BY <2>2 DEF ReportInv, exportVars, ExportsInv, ExportsType, CsvsAreSince, NotYetQueued,
       TriesCounted, Told, ExportsAreWhole, Since, Busy, AtWork
  <2>3. CASE Next /\ UNCHANGED <<reportVars, exportVars>> BY <2>1, <2>2, <2>3
  <2>4. CASE UNCHANGED <<vars, reportVars, exportVars>> BY <2>1, <2>2, <2>4
  <2>5. CASE ExportsNext /\ UNCHANGED <<vars, reportVars>>
    <3>1. ExportsInv' BY <2>5, ExportsPage, ExportsWork DEF ExportsNext, ReportInv
    <3> QED BY <2>1, <2>5, <3>1
  <2>6. CASE ReportNext /\ UNCHANGED exportVars
    <3>1. UNCHANGED vars
      BY <2>6 DEF ReportNext, SheetRead, ProfitRead, PageFirst, PageNext
    <3>2. TypeOK' /\ SnapshotFresh' BY <3>1, TypeStep, FreshStep DEF ReportInv
    <3>3. EntriesBalanced' BY <3>1, BalancedStep DEF ReportInv
    <3>4. SheetOK'
      <4>1. CASE SheetRead \/ ProfitRead BY <4>1, SheetReads DEF ReportInv
      <4>2. CASE PageFirst \/ PageNext
        <5>1. UNCHANGED sheet BY <4>2 DEF PageFirst, PageNext
        <5> QED BY <3>1, <5>1, SheetLedger DEF ReportInv
      <4> QED BY <2>6, <4>1, <4>2 DEF ReportNext
    <3>5. PagesOK'
      <4>1. CASE PageFirst \/ PageNext BY <4>1, PagesRead DEF ReportInv
      <4>2. CASE SheetRead \/ ProfitRead
        <5>1. UNCHANGED pages BY <4>2 DEF SheetRead, ProfitRead
        <5> QED BY <3>1, <5>1, PagesLedger DEF ReportInv
      <4> QED BY <2>6, <4>1, <4>2 DEF ReportNext
    <3> QED BY <2>2, <2>6, <3>2, <3>3, <3>4, <3>5 DEF ReportInv
  <2> QED BY <2>3, <2>4, <2>5, <2>6
<1>3. ReportInv => ReadsAreSound
  BY PagesOKIsWhole DEF ReportInv, ReadsAreSound, SheetOK, ExportsInv
<1> QED BY <1>1, <1>2, <1>3, PTL DEF ReportSpec

=============================================================================
