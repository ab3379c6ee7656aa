--------------------------- MODULE InvoiceProofs ----------------------------
(***************************************************************************)
(* About invoices: that the record of an e-invoice follows the IRP, that   *)
(* reminders are told once, and that totals, entries and returns agree,    *)
(* for any number of invoices, workers, attempts, runs, days, faults,      *)
(* lines, rates and edits.                                                 *)
(*                                                                         *)
(* E-invoices.  A job has one owner, and an invoice one job in the queue:  *)
(* its replay only when its main job is retired.  So an invoice whose      *)
(* workers never stalled has one worker, and that worker's guard still     *)
(* holds when it writes.  What the IRP says only moves forward, which is   *)
(* what a cancellation may rely on.                                        *)
(*                                                                         *)
(* Reminders.  Two things to tell of are stored in two rows, and a row is  *)
(* stored by one run, which is then the only one that tells of it; what a  *)
(* run found is told, left to tell, or was not to be stored.               *)
(*                                                                         *)
(* Totals and returns.  Sums are exchanged (SumTheorems): the tax of the   *)
(* lines by component is that of the components by line, and an entry is   *)
(* its lines' taxable value and tax.  A document in force has one entry in *)
(* the journal, a cancelled one has two, and a return's rows have the tax  *)
(* of every rate of every invoice in them once.  What a payment posts      *)
(* moves the output tax as its record says, summand by summand; what a     *)
(* hand reverses is in neither sum.                                        *)
(***************************************************************************)
EXTENDS EInvoice, Notices, Invoicing, FiniteSetTheorems, SumTheorems, TLAPS

Ein      == {"not_applicable", "pending", "generated", "failed", "cancelled"}
Invoice  == [status : {"draft", "issued", "cancelled"}, ein : Ein]
Job      == [state : {"none", "waiting", "active", "completed", "failed"}, tries : Nat,
             told : BOOLEAN]
Points   == {"idle", "calling", "ok", "rejected", "error", "complete", "giveup", "retry"}
Worker   == [at : Points, job : Jobs \cup {<<>>}, owns : BOOLEAN]
Canceler == [at : {"no", "open", "called"}, saw : Ein \cup {"none"}, stale : BOOLEAN]
Reaper   == [todo : SUBSET Invoices, handled : SUBSET Invoices]

Busy(w) == worker[w].at # "idle"
Main(i) == <<i, "main">>
Again(i) == <<i, "replay">>

\* Everything is well typed; a busy worker has a job, an idle one owns none.
EInvoiceTypeOK ==
  /\ inv \in [Invoices -> Invoice]
  /\ row \in [Invoices -> {"none", "pending", "published"}]
  /\ stream \in [Invoices -> {"no", "arrived", "handled"}]
  /\ reaper \in Reaper /\ reaper.handled \subseteq reaper.todo
  /\ job \in [Jobs -> Job]
  /\ worker \in [Workers -> Worker]
  /\ \A w \in Workers : /\ Busy(w) => worker[w].job \in Jobs
                        /\ worker[w].owns => Busy(w)
  /\ dead \subseteq Jobs
  /\ irn \in [Invoices -> {"none", "active", "cancelled"}]
  /\ calls \in [Invoices -> Nat]
  /\ cancel \in [Invoices -> Canceler]
  /\ doubled \subseteq Invoices
  /\ faults \in Nat

-----------------------------------------------------------------------------
(* E-invoices: the queue *)

\* An active job has one owner, and who has lost its job stalled.
JobsAreOwned ==
  /\ \A w \in Workers : worker[w].owns => job[worker[w].job].state = "active"
  /\ \A w, x \in Workers : worker[w].owns /\ worker[x].owns
                             /\ worker[w].job = worker[x].job => w = x
  /\ \A w \in Workers : Busy(w) /\ worker[w].job[1] \notin doubled => worker[w].owns

\* Of an invoice that is not issued nobody knows.
Unknown(i) ==
  inv[i].status = "draft" =>
    /\ inv[i].ein = "not_applicable" /\ calls[i] = 0
    /\ row[i] = "none" /\ stream[i] = "no" /\ i \notin reaper.todo
    /\ job[Main(i)].state = "none" /\ job[Again(i)].state = "none"
    /\ \A w \in Workers : Busy(w) => worker[w].job[1] # i

\* The main job has failed, and will not be queued again.
Retired(i) ==
  \/ job[Main(i)].state = "failed" /\ job[Main(i)].told
  \/ /\ job[Main(i)].state = "none" /\ row[i] = "published"
     /\ i \notin reaper.todo /\ stream[i] = "no"

\* Only a job that is retired is dead, or is replayed.
ReplaysFit(i) ==
  Main(i) \in dead \/ Again(i) \in dead \/ job[Again(i)].state # "none" => Retired(i)

-----------------------------------------------------------------------------
(* E-invoices: the IRP *)

\* What is recorded of the IRN, or was seen, or is about to be written, is so there.
IrpKnows(i) ==
  /\ inv[i].ein = "cancelled" => irn[i] = "cancelled"
  /\ inv[i].ein = "generated" => irn[i] # "none"
  /\ cancel[i].saw = "generated" => irn[i] # "none"
  /\ cancel[i].at = "called" => irn[i] = "cancelled"
  /\ inv[i].status = "cancelled" =>
       /\ cancel[i].at = "no"
       /\ cancel[i].saw = "generated" => irn[i] = "cancelled"
  /\ \A w \in Workers : worker[w].at = "ok" /\ worker[w].job[1] = i => irn[i] # "none"

\* What a worker found when it took its job is so until it writes.
Calling(w) == worker[w].at \in {"calling", "ok", "rejected", "error"}

GuardHolds(i) ==
  i \notin doubled =>
    \A w \in Workers : Calling(w) /\ worker[w].job[1] = i => inv[i].ein # "generated"

\* Without a fault, a call that was made is recorded or about to be.
CalledOnce(i) ==
  faults = 0 /\ inv[i].status = "issued" /\ calls[i] # 0 =>
    /\ calls[i] = 1
    /\ \/ inv[i].ein = "generated"
       \/ \E w \in Workers : worker[w].at = "ok" /\ worker[w].job[1] = i

NoFaultNoDouble == faults = 0 => doubled = {} /\ \A i \in Invoices : job[Again(i)].state = "none"

IInv ==
  /\ EInvoiceTypeOK /\ JobsAreOwned /\ NoFaultNoDouble
  /\ \A i \in Invoices :
       Unknown(i) /\ ReplaysFit(i) /\ IrpKnows(i) /\ GuardHolds(i) /\ CalledOnce(i)
-----------------------------------------------------------------------------

LEMMA JobParts ==
  /\ \A i \in Invoices : /\ Main(i) \in Jobs /\ Main(i)[1] = i
                         /\ Again(i) \in Jobs /\ Again(i)[1] = i /\ Main(i) # Again(i)
  /\ \A j \in Jobs : j[1] \in Invoices /\ (j = Main(j[1]) \/ j = Again(j[1]))
BY DEF Jobs, Main, Again

\* One function, at one place.
LEMMA JobType ==
  ASSUME EInvoiceTypeOK, NEW j \in Jobs, NEW q \in Job, job' = [job EXCEPT ![j] = q]
  PROVE  /\ job' \in [Jobs -> Job] /\ job'[j] = q
         /\ \A k \in Jobs : k # j => job'[k] = job[k]
BY DEF EInvoiceTypeOK

LEMMA WorkerType ==
  ASSUME EInvoiceTypeOK, NEW w \in Workers, NEW q \in Worker, worker' = [worker EXCEPT ![w] = q]
  PROVE  /\ worker' \in [Workers -> Worker] /\ worker'[w] = q
         /\ \A x \in Workers : x # w => worker'[x] = worker[x]
BY DEF EInvoiceTypeOK

LEMMA IdleType == IdleWorker \in Worker /\ IdleWorker.at = "idle" /\ IdleWorker.owns = FALSE
<1>1. IdleWorker \in Worker /\ IdleWorker.at = "idle" BY DEF IdleWorker, Worker, Points
<1>2. IdleWorker.owns = FALSE BY DEF IdleWorker
<1> QED BY <1>1, <1>2

LEMMA NoJobType == NoJob \in Job /\ NoJob.state = "none"
BY DEF NoJob, Job

\* A job of that id is queued, if there is none.
LEMMA EnqueueType ==
  ASSUME EInvoiceTypeOK, NEW i \in Invoices, Enqueue(Main(i))
  PROVE  /\ job' \in [Jobs -> Job]
         /\ \A k \in Jobs : k # Main(i) => job'[k] = job[k]
         /\ job[Main(i)].state # "none" => job'[Main(i)] = job[Main(i)]
         /\ job[Main(i)].state = "none" => job'[Main(i)].state = "waiting"
<1> DEFINE q == [NoJob EXCEPT !.state = "waiting"]
<1>1. q \in Job /\ q.state = "waiting" BY DEF NoJob, Job
<1>2. Main(i) \in Jobs BY JobParts
<1>3. CASE job[Main(i)].state = "none"
  <2>1. job' = [job EXCEPT ![Main(i)] = q] BY <1>3 DEF Enqueue
  <2> HIDE DEF q
  <2>2. /\ job' \in [Jobs -> Job] /\ job'[Main(i)] = q
        /\ \A k \in Jobs : k # Main(i) => job'[k] = job[k]
    BY <1>1, <1>2, <2>1, JobType
  <2> QED BY <1>1, <1>3, <2>2
<1>4. CASE job[Main(i)].state # "none"
  <2>1. job' = job BY <1>4 DEF Enqueue
  <2> QED BY <1>4, <2>1 DEF EInvoiceTypeOK
<1> QED BY <1>3, <1>4

\* Who has a job, or is one, is of an invoice that is issued.
LEMMA KnownOnce ==
  ASSUME IInv
  PROVE  /\ \A w \in Workers : Busy(w) => /\ worker[w].job \in Jobs
                                          /\ worker[w].job[1] \in Invoices
                                          /\ inv[worker[w].job[1]].status # "draft"
         /\ \A j \in Jobs : job[j].state # "none" => inv[j[1]].status # "draft"
         /\ \A i \in Invoices : Retired(i) => inv[i].status # "draft"
<1>1. \A w \in Workers : Busy(w) => worker[w].job \in Jobs /\ worker[w].job[1] \in Invoices
  BY JobParts DEF IInv, EInvoiceTypeOK
<1>2. \A i \in Invoices : Unknown(i) BY DEF IInv
<1>3. \A w \in Workers : Busy(w) => inv[worker[w].job[1]].status # "draft"
  BY <1>1, <1>2 DEF Unknown
<1>4. \A j \in Jobs : job[j].state # "none" => inv[j[1]].status # "draft"
  BY <1>2, JobParts DEF Unknown
<1>5. \A i \in Invoices : Retired(i) => inv[i].status # "draft"
  BY <1>2 DEF Unknown, Retired
<1> QED BY <1>1, <1>3, <1>4, <1>5

\* An invoice none of whose workers stalled has one.
LEMMA AloneWithInvoice ==
  ASSUME IInv, NEW w \in Workers, NEW x \in Workers, Busy(w), Busy(x),
         worker[w].job[1] = worker[x].job[1], worker[w].job[1] \notin doubled
  PROVE  w = x
<1>1. worker[w].owns /\ worker[x].owns BY DEF IInv, JobsAreOwned
<1>2. worker[w].job \in Jobs /\ worker[x].job \in Jobs BY KnownOnce
<1>3. job[worker[w].job].state = "active" /\ job[worker[x].job].state = "active"
  BY <1>1 DEF IInv, JobsAreOwned
<1>4. worker[w].job = worker[x].job
  <2> DEFINE i == worker[w].job[1]
  <2>1. i \in Invoices /\ worker[w].job \in {Main(i), Again(i)}
        /\ worker[x].job \in {Main(i), Again(i)}
    BY <1>2, JobParts
  <2>2. ReplaysFit(i) BY <2>1 DEF IInv
  <2> HIDE DEF i
  <2>3. ~(job[Main(i)].state = "active" /\ job[Again(i)].state = "active")
    BY <2>2 DEF ReplaysFit, Retired
  <2> QED BY <1>3, <2>1, <2>3
<1> QED BY <1>1, <1>4 DEF IInv, JobsAreOwned

-----------------------------------------------------------------------------
(* What a step leaves alone *)

LEMMA StaysUnknown ==
  ASSUME NEW i \in Invoices, Unknown(i),
         inv'[i].status = "draft" =>
           /\ inv'[i] = inv[i] /\ calls'[i] = calls[i]
           /\ row'[i] = row[i] /\ stream'[i] = stream[i]
           /\ i \in reaper'.todo => i \in reaper.todo
           /\ job'[Main(i)].state = job[Main(i)].state
           /\ job'[Again(i)].state = job[Again(i)].state
           /\ \A w \in Workers : worker'[w].at # "idle" /\ worker'[w].job[1] = i =>
                worker[w].at # "idle" /\ worker[w].job[1] = i
  PROVE  Unknown(i)'
BY DEF Unknown, Busy, Main, Again

LEMMA ReplaysStay ==
  ASSUME NEW i \in Invoices, ReplaysFit(i),
         Main(i) \in dead' => Main(i) \in dead, Again(i) \in dead' => Again(i) \in dead,
         job'[Again(i)].state # "none" => job[Again(i)].state # "none",
         job'[Main(i)] = job[Main(i)], row'[i] = row[i] \/ row'[i] = "published",
         i \in reaper'.todo => i \in reaper.todo, stream'[i] = stream[i] \/ stream'[i] = "no"
  PROVE  ReplaysFit(i)'
BY DEF ReplaysFit, Retired, Main, Again

LEMMA IrpSame ==
  ASSUME NEW i \in Invoices, IrpKnows(i), inv'[i] = inv[i], irn'[i] = irn[i],
         cancel'[i].at = cancel[i].at, cancel'[i].saw = cancel[i].saw,
         \A w \in Workers : worker'[w].at = "ok" /\ worker'[w].job[1] = i =>
           worker[w].at = "ok" /\ worker[w].job[1] = i
  PROVE  IrpKnows(i)'
BY DEF IrpKnows

LEMMA GuardStays ==
  ASSUME NEW i \in Invoices, GuardHolds(i), i \in doubled => i \in doubled',
         inv'[i].ein = "generated" => inv[i].ein = "generated",
         \A w \in Workers :
           worker'[w].at \in {"calling", "ok", "rejected", "error"} /\ worker'[w].job[1] = i =>
             worker[w].at \in {"calling", "ok", "rejected", "error"} /\ worker[w].job[1] = i
  PROVE  GuardHolds(i)'
BY DEF GuardHolds, Calling

LEMMA CallsStay ==
  ASSUME NEW i \in Invoices, CalledOnce(i), faults' = 0 => faults = 0,
         inv'[i].status = "issued" =>
           inv[i].status = "issued" /\ (inv[i].ein = "generated" => inv'[i].ein = "generated"),
         calls'[i] = calls[i],
         \A w \in Workers : worker[w].at = "ok" /\ worker[w].job[1] = i =>
           worker'[w].at = "ok" /\ worker'[w].job[1] = i
  PROVE  CalledOnce(i)'
BY DEF CalledOnce

LEMMA OwnersStay ==
  ASSUME EInvoiceTypeOK, JobsAreOwned, worker' = worker, doubled' = doubled,
         \A j \in Jobs : job'[j].state # job[j].state => job[j].state # "active"
  PROVE  JobsAreOwned'
<1>1. \A w \in Workers : worker[w].owns => worker[w].job \in Jobs BY DEF EInvoiceTypeOK
<1>2. \A w \in Workers : worker'[w].owns => job'[worker'[w].job].state = "active"
  BY <1>1 DEF JobsAreOwned
<1> QED BY <1>2 DEF JobsAreOwned, Busy

LEMMA FaultyType ==
  ASSUME EInvoiceTypeOK, Faulty
  PROVE  faults' \in Nat /\ faults' # 0
BY DEF EInvoiceTypeOK, Faulty
-----------------------------------------------------------------------------
(* Issue, and the publishers *)

USE DEF pipe

LEMMA IssueInv == ASSUME IInv, NEW i \in Invoices, Issue(i) PROVE IInv'
<1>1. /\ EInvoiceTypeOK /\ inv[i].status = "draft" /\ row' = [row EXCEPT ![i] = "pending"]
      /\ UNCHANGED <<reaper, job, worker, dead, irn, calls, cancel, aged, doubled>>
  BY DEF IInv, Issue
<1>2. /\ stream' \in [Invoices -> {"no", "arrived", "handled"}]
      /\ \A x \in Invoices : x # i => stream'[x] = stream[x]
      /\ faults' \in Nat /\ (faults' = 0 => faults = 0)
  BY <1>1, FaultyType DEF Issue, EInvoiceTypeOK
<1> DEFINE q == [status |-> "issued", ein |-> "pending"]
<1>3. q \in Invoice /\ q.status = "issued" /\ q.ein = "pending" BY DEF Invoice, Ein
<1>4. inv' = [inv EXCEPT ![i] = q] BY DEF Issue
<1> HIDE DEF q
<1>5. /\ inv' \in [Invoices -> Invoice] /\ inv'[i] = q
      /\ \A x \in Invoices : x # i => inv'[x] = inv[x] /\ row'[x] = row[x]
  BY <1>1, <1>3, <1>4 DEF EInvoiceTypeOK
<1>6. EInvoiceTypeOK' BY <1>1, <1>2, <1>5 DEF EInvoiceTypeOK, Busy
<1>7. JobsAreOwned' BY <1>1, OwnersStay DEF IInv
<1>8. NoFaultNoDouble' BY <1>1, <1>2 DEF IInv, NoFaultNoDouble, Again
<1>9. ASSUME NEW x \in Invoices PROVE Unknown(x)'
  BY <1>1, <1>2, <1>3, <1>5, StaysUnknown DEF IInv
<1>10. ASSUME NEW x \in Invoices PROVE ReplaysFit(x)'
  <2>1. CASE x = i
    <3>1. ~Retired(i) /\ ReplaysFit(i) BY <1>1, KnownOnce DEF IInv
    <3> QED BY <1>1, <2>1, <3>1 DEF ReplaysFit, Main, Again
  <2>2. CASE x # i BY <1>1, <1>2, <1>5, <2>2, ReplaysStay DEF IInv
  <2> QED BY <2>1, <2>2
<1>11. ASSUME NEW x \in Invoices PROVE IrpKnows(x)'
  <2>1. CASE x = i
    <3>1. IrpKnows(i) BY DEF IInv
    <3> QED BY <1>1, <1>3, <1>5, <2>1, <3>1 DEF IrpKnows
  <2>2. CASE x # i BY <1>1, <1>5, <2>2, IrpSame DEF IInv
  <2> QED BY <2>1, <2>2
<1>12. ASSUME NEW x \in Invoices PROVE GuardHolds(x)'
  BY <1>1, <1>3, <1>5, GuardStays DEF IInv
<1>13. ASSUME NEW x \in Invoices PROVE CalledOnce(x)'
  <2>1. CASE x = i
    <3>1. calls'[i] = 0 BY <1>1 DEF IInv, Unknown
    <3> QED BY <2>1, <3>1 DEF CalledOnce
  <2>2. CASE x # i BY <1>1, <1>2, <1>5, <2>2, CallsStay DEF IInv
  <2> QED BY <2>1, <2>2
<1> QED BY <1>6, <1>7, <1>8, <1>9, <1>10, <1>11, <1>12, <1>13 DEF IInv

\* A publisher changes rows and jobs, of invoices that are issued.
LEMMA PublisherStep ==
  ASSUME IInv, EInvoiceTypeOK',
         inv' = inv, worker' = worker, dead' = dead, irn' = irn, calls' = calls,
         cancel' = cancel, doubled' = doubled, faults' = 0 => faults = 0,
         \A j \in Jobs : job'[j] = job[j]
                           \/ \E x \in Invoices : j = Main(x) /\ job[j].state = "none",
         \A x \in Invoices : Unknown(x)' /\ ReplaysFit(x)'
  PROVE  IInv'
<1>1. JobsAreOwned' BY OwnersStay DEF IInv
<1>2. NoFaultNoDouble'
  <2>1. \A x \in Invoices : job'[Again(x)] = job[Again(x)]
    BY JobParts DEF Main, Again
  <2> QED BY <2>1 DEF IInv, NoFaultNoDouble, Again
<1>3. \A x \in Invoices : IrpKnows(x)' BY IrpSame DEF IInv
<1>4. \A x \in Invoices : GuardHolds(x)' BY GuardStays DEF IInv
<1>5. \A x \in Invoices : CalledOnce(x)' BY CallsStay DEF IInv
<1> QED BY <1>1, <1>2, <1>3, <1>4, <1>5 DEF IInv

\* An event is handled: the job is queued, or the fault leaves what there was.
LEMMA HandleStep ==
  ASSUME IInv, NEW i \in Invoices, inv[i].status # "draft",
         EInvoiceTypeOK', row' = row,
         inv' = inv, worker' = worker, dead' = dead, irn' = irn, calls' = calls,
         cancel' = cancel, doubled' = doubled, faults' = 0 => faults = 0,
         stream[i] # "no" \/ i \in reaper.todo,
         Enqueue(Main(i)) \/ job' = job,
         \A x \in Invoices : x \in reaper'.todo => x \in reaper.todo,
         \A x \in Invoices : x # i => stream'[x] = stream[x],
         stream'[i] = stream[i] \/ stream[i] # "no"
  PROVE  IInv'
<1>1. EInvoiceTypeOK BY DEF IInv
<1>2. /\ \A k \in Jobs : k # Main(i) => job'[k] = job[k]
      /\ job[Main(i)].state # "none" => job'[Main(i)] = job[Main(i)]
      /\ job[Main(i)].state = "none" => job'[Main(i)].state \in {"none", "waiting"}
  BY <1>1, EnqueueType
<1>3. \A j \in Jobs : job'[j] = job[j]
                        \/ \E x \in Invoices : j = Main(x) /\ job[j].state = "none"
  BY <1>2
<1>4. \A x \in Invoices : x # i => job'[Main(x)] = job[Main(x)]
  BY <1>2, JobParts
<1>5. \A x \in Invoices : job'[Again(x)] = job[Again(x)]
  BY <1>2, JobParts DEF Main, Again
<1>6. ASSUME NEW x \in Invoices PROVE Unknown(x)'
  <2>1. CASE x # i BY <1>4, <1>5, <2>1, StaysUnknown DEF IInv
  <2>2. CASE x = i BY <2>2 DEF Unknown
  <2> QED BY <2>1, <2>2
<1>7. ASSUME NEW x \in Invoices PROVE ReplaysFit(x)'
  <2>1. CASE x # i
    BY <1>4, <1>5, <2>1, ReplaysStay DEF IInv
  <2>2. CASE x = i
    <3>1. Retired(i) => job[Main(i)].state = "failed" /\ job[Main(i)].told
      BY DEF Retired
    <3>2. Retired(i) => Retired(i)' BY <1>2, <3>1 DEF Retired, Main
    <3>3. ReplaysFit(i) BY DEF IInv
    <3> QED BY <1>5, <2>2, <3>2, <3>3 DEF ReplaysFit, Main, Again
  <2> QED BY <2>1, <2>2
<1> QED BY <1>3, <1>6, <1>7, PublisherStep

LEMMA StreamHandleInv == ASSUME IInv, NEW i \in Invoices, StreamHandle(i) PROVE IInv'
<1>1. /\ EInvoiceTypeOK /\ stream[i] = "arrived"
      /\ UNCHANGED <<inv, row, reaper, worker, dead, irn, calls, cancel, aged, doubled>>
  BY DEF IInv, StreamHandle
<1>2. inv[i].status # "draft" BY <1>1 DEF IInv, Unknown
<1>3. /\ stream' \in [Invoices -> {"no", "arrived", "handled"}]
      /\ \A x \in Invoices : x # i => stream'[x] = stream[x]
      /\ faults' \in Nat /\ (faults' = 0 => faults = 0)
      /\ Enqueue(Main(i)) \/ job' = job
  BY <1>1, FaultyType DEF StreamHandle, EInvoiceTypeOK, Main
<1>4. job' \in [Jobs -> Job] BY <1>1, <1>3, EnqueueType DEF EInvoiceTypeOK
<1>5. EInvoiceTypeOK' BY <1>1, <1>3, <1>4 DEF EInvoiceTypeOK, Busy
<1> QED BY <1>1, <1>2, <1>3, <1>5, HandleStep

LEMMA ReapHandleInv == ASSUME IInv, NEW i \in Invoices, ReapHandle(i) PROVE IInv'
<1>1. /\ EInvoiceTypeOK /\ i \in reaper.todo /\ reaper.handled = {}
      /\ UNCHANGED <<inv, row, stream, worker, dead, irn, calls, cancel, aged, doubled>>
  BY DEF IInv, ReapHandle
<1>2. inv[i].status # "draft" BY <1>1 DEF IInv, Unknown
<1>3. /\ reaper' \in Reaper /\ reaper'.handled \subseteq reaper'.todo
      /\ \A x \in Invoices : x \in reaper'.todo => x \in reaper.todo
      /\ faults' \in Nat /\ (faults' = 0 => faults = 0)
      /\ Enqueue(Main(i)) \/ job' = job
  BY <1>1, FaultyType DEF ReapHandle, EInvoiceTypeOK, Main, Reaper
<1>4. job' \in [Jobs -> Job] BY <1>1, <1>3, EnqueueType DEF EInvoiceTypeOK
<1>5. EInvoiceTypeOK' BY <1>1, <1>3, <1>4 DEF EInvoiceTypeOK, Busy
<1> QED BY <1>1, <1>2, <1>3, <1>5, HandleStep

\* A row is marked published, and is handled no more.
LEMMA MarkStep ==
  ASSUME IInv, NEW i \in Invoices, inv[i].status # "draft",
         row' = [row EXCEPT ![i] = "published"],
         stream' \in [Invoices -> {"no", "arrived", "handled"}],
         \A x \in Invoices : stream'[x] = stream[x] \/ (x = i /\ stream'[x] = "no"),
         reaper' \in Reaper, reaper'.handled \subseteq reaper'.todo,
         \A x \in Invoices : x \in reaper'.todo => x \in reaper.todo,
         UNCHANGED <<inv, job, worker, dead, irn, calls, cancel, aged, doubled, faults>>
  PROVE  IInv'
<1>1. EInvoiceTypeOK BY DEF IInv
<1>2. /\ row' \in [Invoices -> {"none", "pending", "published"}] /\ row'[i] = "published"
      /\ \A x \in Invoices : x # i => row'[x] = row[x]
  BY <1>1 DEF EInvoiceTypeOK
<1>3. EInvoiceTypeOK' BY <1>1, <1>2 DEF EInvoiceTypeOK, Busy
<1>4. ASSUME NEW x \in Invoices PROVE Unknown(x)'
  <2>1. CASE x # i BY <1>2, <2>1, StaysUnknown DEF IInv
  <2>2. CASE x = i BY <2>2 DEF Unknown
  <2> QED BY <2>1, <2>2
<1>5. ASSUME NEW x \in Invoices PROVE ReplaysFit(x)'
  BY <1>2, ReplaysStay DEF IInv
<1> QED BY <1>3, <1>4, <1>5, PublisherStep

LEMMA StreamMarkInv == ASSUME IInv, NEW i \in Invoices, StreamMark(i) PROVE IInv'
<1>1. /\ EInvoiceTypeOK /\ stream[i] = "handled" /\ stream' = [stream EXCEPT ![i] = "no"]
      /\ row' = [row EXCEPT ![i] = "published"]
      /\ UNCHANGED <<inv, reaper, job, worker, dead, irn, calls, cancel, aged, doubled, faults>>
  BY DEF IInv, StreamMark
<1>2. inv[i].status # "draft" BY <1>1 DEF IInv, Unknown
<1>3. /\ stream' \in [Invoices -> {"no", "arrived", "handled"}]
      /\ \A x \in Invoices : stream'[x] = stream[x] \/ (x = i /\ stream'[x] = "no")
      /\ reaper' \in Reaper /\ reaper'.handled \subseteq reaper'.todo /\ reaper' = reaper
  BY <1>1 DEF EInvoiceTypeOK
<1> QED BY <1>1, <1>2, <1>3, MarkStep

LEMMA ReapMarkInv == ASSUME IInv, NEW i \in Invoices, ReapMark(i) PROVE IInv'
<1>1. /\ EInvoiceTypeOK /\ i \in reaper.todo /\ row' = [row EXCEPT ![i] = "published"]
      /\ reaper' = [todo |-> reaper.todo \ {i}, handled |-> {}]
      /\ UNCHANGED <<inv, stream, job, worker, dead, irn, calls, cancel, aged, doubled, faults>>
  BY DEF IInv, ReapMark, EInvoiceTypeOK, Reaper
<1>2. inv[i].status # "draft" BY <1>1 DEF IInv, Unknown
<1>3. /\ reaper' \in Reaper /\ reaper'.handled \subseteq reaper'.todo
      /\ \A x \in Invoices : x \in reaper'.todo => x \in reaper.todo
  BY <1>1 DEF EInvoiceTypeOK, Reaper
<1>4. /\ stream' \in [Invoices -> {"no", "arrived", "handled"}] /\ stream' = stream
      /\ \A x \in Invoices : stream'[x] = stream[x] \/ (x = i /\ stream'[x] = "no")
  BY <1>1 DEF EInvoiceTypeOK
<1> QED BY <1>1, <1>2, <1>3, <1>4, MarkStep

LEMMA ReapReadInv == ASSUME IInv, ReapRead PROVE IInv'
<1>1. /\ EInvoiceTypeOK
      /\ reaper' = [NoReaper EXCEPT !.todo = {i \in Invoices : row[i] = "pending"}]
      /\ UNCHANGED <<inv, row, stream, job, worker, dead, irn, calls, cancel, aged, doubled,
                     faults>>
  BY DEF IInv, ReapRead
<1>2. /\ reaper' \in Reaper /\ reaper'.handled \subseteq reaper'.todo
      /\ reaper'.todo = {i \in Invoices : row[i] = "pending"}
  BY <1>1 DEF Reaper, NoReaper
<1>3. EInvoiceTypeOK' BY <1>1, <1>2 DEF EInvoiceTypeOK, Busy
<1>4. ASSUME NEW x \in Invoices PROVE Unknown(x)'
  <2>1. Unknown(x) /\ (row[x] = "none" => x \notin reaper'.todo) BY <1>2 DEF IInv
  <2> QED BY <1>1, <2>1 DEF Unknown, Busy, Main, Again
<1>5. ASSUME NEW x \in Invoices PROVE ReplaysFit(x)'
  <2>1. ReplaysFit(x) /\ (row[x] = "published" => x \notin reaper'.todo) BY <1>2 DEF IInv
  <2> QED BY <1>1, <2>1 DEF ReplaysFit, Retired, Main, Again
<1> QED BY <1>1, <1>3, <1>4, <1>5, PublisherStep
-----------------------------------------------------------------------------
(* The workers *)

\* A job that is not retired may move: its invoice has no replay.
LEMMA ReplaysMove ==
  ASSUME IInv, NEW j \in Jobs, job[j].state \in {"waiting", "active", "completed"},
         \A k \in Jobs : k # j => job'[k] = job[k],
         dead' = dead, row' = row, stream' = stream, reaper' = reaper
  PROVE  \A x \in Invoices : ReplaysFit(x)'
<1> SUFFICES ASSUME NEW x \in Invoices PROVE ReplaysFit(x)' OBVIOUS
<1>1. ReplaysFit(x) BY DEF IInv
<1>2. CASE j = Main(x)
  <2>1. ~Retired(x) BY <1>2 DEF Retired
  <2>2. job'[Again(x)] = job[Again(x)] BY <1>2, JobParts
  <2> QED BY <1>1, <2>1, <2>2 DEF ReplaysFit, Main, Again
<1>3. CASE j = Again(x)
  <2>1. Retired(x) BY <1>1, <1>3 DEF ReplaysFit
  <2>2. job'[Main(x)] = job[Main(x)] BY <1>3, JobParts
  <2>3. Retired(x)' BY <2>1, <2>2 DEF Retired, Main
  <2> QED BY <2>3 DEF ReplaysFit
<1>4. CASE j # Main(x) /\ j # Again(x)
  <2>1. job'[Main(x)] = job[Main(x)] /\ job'[Again(x)] = job[Again(x)]
    BY <1>4, JobParts
  <2> QED BY <1>1, <2>1, ReplaysStay
<1> QED BY <1>2, <1>3, <1>4

\* Without a fault there is no replay that could move.
LEMMA FaultlessStays ==
  ASSUME IInv, faults' = 0 => faults = 0, faults' = 0 => doubled' = doubled,
         \A x \in Invoices : job[Again(x)].state = "none" => job'[Again(x)].state = "none"
  PROVE  NoFaultNoDouble'
BY DEF IInv, NoFaultNoDouble, Again

\* The queue, when a job in it moves and is not lost.
LEMMA JobMoves ==
  ASSUME IInv, NEW j \in Jobs, job[j].state # "none",
         \A k \in Jobs : k # j => job'[k] = job[k]
  PROVE  /\ \A x \in Invoices : job[Again(x)].state = "none" => job'[Again(x)].state = "none"
         /\ \A x \in Invoices : inv[x].status = "draft" =>
              /\ job'[Main(x)] = job[Main(x)] /\ job'[Again(x)] = job[Again(x)]
<1>1. \A x \in Invoices : job[Again(x)].state = "none" => job'[Again(x)] = job[Again(x)]
  BY JobParts
<1>2. \A x \in Invoices : inv[x].status = "draft" =>
        job[Main(x)].state = "none" /\ job[Again(x)].state = "none"
  BY DEF IInv, Unknown
<1>3. \A x \in Invoices : inv[x].status = "draft" =>
        job'[Main(x)] = job[Main(x)] /\ job'[Again(x)] = job[Again(x)]
  BY <1>2, JobParts
<1> QED BY <1>1, <1>3

LEMMA TakeInv ==
  ASSUME IInv, NEW w \in Workers, NEW j \in Jobs, Take(w, j) PROVE IInv'
<1>1. /\ EInvoiceTypeOK /\ worker[w] = IdleWorker /\ job[j].state = "waiting"
      /\ UNCHANGED <<inv, row, stream, reaper, dead, irn, calls, cancel, aged, doubled, faults>>
  BY DEF IInv, Take
<1>2. PICK s \in {"completed", "active"} :
        /\ job' = [job EXCEPT ![j].state = s]
        /\ s = "completed" => worker' = worker
        /\ s = "active" =>
             /\ inv[j[1]].ein # "generated"
             /\ worker' = [worker EXCEPT ![w] = [at |-> "calling", job |-> j, owns |-> TRUE]]
  BY DEF Take
<1> DEFINE q == [job[j] EXCEPT !.state = s]
<1>3. q \in Job /\ q.state = s BY <1>1, <1>2 DEF EInvoiceTypeOK, Job
<1>4. job' = [job EXCEPT ![j] = q] BY <1>2
<1> HIDE DEF q
<1>5. /\ job' \in [Jobs -> Job] /\ job'[j].state = s
      /\ \A k \in Jobs : k # j => job'[k] = job[k]
  BY <1>1, <1>3, <1>4, JobType
<1>6. \A x \in Invoices : ReplaysFit(x)' BY <1>1, <1>5, ReplaysMove
<1>7. NoFaultNoDouble' BY <1>1, <1>5, JobMoves, FaultlessStays
<1>8. inv[j[1]].status # "draft" BY <1>1, KnownOnce
<1>9. CASE s = "completed"
  <2>1. worker' = worker BY <1>2, <1>9
  <2>2. EInvoiceTypeOK' BY <1>1, <1>5, <2>1 DEF EInvoiceTypeOK, Busy
  <2>3. \A k \in Jobs : job'[k].state # job[k].state => job[k].state # "active"
    BY <1>1, <1>5
  <2>4. JobsAreOwned' BY <1>1, <2>1, <2>3, OwnersStay DEF IInv
  <2>5. \A x \in Invoices : Unknown(x)' BY <1>1, <1>5, <2>1, JobMoves, StaysUnknown DEF IInv
  <2>6. \A x \in Invoices : IrpKnows(x)' BY <1>1, <2>1, IrpSame DEF IInv
  <2>7. \A x \in Invoices : GuardHolds(x)' BY <1>1, <2>1, GuardStays DEF IInv
  <2>8. \A x \in Invoices : CalledOnce(x)' BY <1>1, <2>1, CallsStay DEF IInv
  <2> QED BY <1>6, <1>7, <2>2, <2>4, <2>5, <2>6, <2>7, <2>8 DEF IInv
<1>10. CASE s = "active"
  <2> DEFINE p == [at |-> "calling", job |-> j, owns |-> TRUE]
  <2>1. p \in Worker /\ p.at = "calling" /\ p.job = j /\ p.owns BY DEF Worker, Points
  <2>2. worker' = [worker EXCEPT ![w] = p] BY <1>2, <1>10
  <2> HIDE DEF p
  <2>3. /\ worker' \in [Workers -> Worker]
        /\ worker'[w].at = "calling" /\ worker'[w].job = j /\ worker'[w].owns
        /\ \A x \in Workers : x # w => worker'[x] = worker[x]
    BY <1>1, <2>1, <2>2, WorkerType
  <2>4. worker[w].at = "idle" /\ ~worker[w].owns BY <1>1, IdleType
  <2>5. EInvoiceTypeOK' BY <1>1, <1>5, <2>3 DEF EInvoiceTypeOK, Busy
  <2>6. JobsAreOwned'
    <3>1. \A x \in Workers : worker[x].owns =>
            /\ worker[x].job # j /\ job'[worker[x].job] = job[worker[x].job]
            /\ job[worker[x].job].state = "active"
      BY <1>1, <1>5 DEF IInv, JobsAreOwned, EInvoiceTypeOK
    <3>2. \A x \in Workers : worker'[x].owns => job'[worker'[x].job].state = "active"
      BY <1>5, <1>10, <2>3, <3>1
    <3>3. \A x, y \in Workers : worker'[x].owns /\ worker'[y].owns
                                  /\ worker'[x].job = worker'[y].job => x = y
      BY <2>3, <3>1 DEF IInv, JobsAreOwned
    <3>4. \A x \in Workers : worker'[x].at # "idle" /\ worker'[x].job[1] \notin doubled'
                               => worker'[x].owns
      BY <1>1, <2>3 DEF IInv, JobsAreOwned, Busy
    <3> QED BY <3>2, <3>3, <3>4 DEF JobsAreOwned, Busy
  <2>7. \A x \in Invoices : Unknown(x)'
    BY <1>1, <1>5, <1>8, <2>3, JobMoves, StaysUnknown DEF IInv
  <2>8. \A x \in Invoices : IrpKnows(x)' BY <1>1, <2>3, IrpSame DEF IInv
  <2>9. ASSUME NEW x \in Invoices PROVE GuardHolds(x)'
    BY <1>1, <1>2, <1>10, <2>3 DEF IInv, GuardHolds, Calling
  <2>10. \A x \in Invoices : CalledOnce(x)' BY <1>1, <2>3, <2>4, CallsStay DEF IInv
  <2> QED BY <1>6, <1>7, <2>5, <2>6, <2>7, <2>8, <2>9, <2>10 DEF IInv
<1> QED BY <1>2, <1>9, <1>10

\* The owners, when a worker goes on with its job.
LEMMA OwnersGoOn ==
  ASSUME JobsAreOwned, NEW w \in Workers, job' = job, doubled' = doubled,
         \A x \in Workers : x # w => worker'[x] = worker[x],
         worker'[w].job = worker[w].job, worker'[w].owns = worker[w].owns,
         worker[w].at # "idle"
  PROVE  JobsAreOwned'
<1>1. \A x \in Workers : /\ worker'[x].job = worker[x].job /\ worker'[x].owns = worker[x].owns
                         /\ worker'[x].at # "idle" => worker[x].at # "idle"
  OBVIOUS
<1> QED BY <1>1 DEF JobsAreOwned, Busy

\* The worker, when it goes on.
LEMMA GoesOn ==
  ASSUME EInvoiceTypeOK, NEW w \in Workers, NEW a \in Points, worker[w].at # "idle",
         a # "idle", worker' = [worker EXCEPT ![w].at = a]
  PROVE  /\ worker' \in [Workers -> Worker] /\ worker'[w].at = a
         /\ worker'[w].job = worker[w].job /\ worker'[w].owns = worker[w].owns
         /\ \A x \in Workers : x # w => worker'[x] = worker[x]
         /\ \A x \in Workers : /\ worker'[x].at # "idle" => worker'[x].job \in Jobs
                               /\ worker'[x].owns => worker'[x].at # "idle"
<1> DEFINE q == [worker[w] EXCEPT !.at = a]
<1>1. q \in Worker /\ q.at = a /\ q.job = worker[w].job /\ q.owns = worker[w].owns
  BY DEF EInvoiceTypeOK, Worker
<1>2. worker' = [worker EXCEPT ![w] = q] OBVIOUS
<1> HIDE DEF q
<1>3. /\ worker' \in [Workers -> Worker] /\ worker'[w] = q
      /\ \A x \in Workers : x # w => worker'[x] = worker[x]
  BY <1>1, <1>2, WorkerType
<1>4. \A x \in Workers : /\ worker'[x].at # "idle" => worker'[x].job \in Jobs
                         /\ worker'[x].owns => worker'[x].at # "idle"
  BY <1>1, <1>3 DEF EInvoiceTypeOK, Busy
<1> QED BY <1>1, <1>3, <1>4

LEMMA CallInv == ASSUME IInv, NEW w \in Workers, Call(w) PROVE IInv'
<1> DEFINE j == worker[w].job
           i == worker[w].job[1]
<1>1. /\ EInvoiceTypeOK /\ worker[w].at = "calling"
      /\ UNCHANGED <<inv, row, stream, reaper, job, dead, cancel, aged, doubled, faults>>
  BY DEF IInv, Call
<1>2. i \in Invoices /\ inv[i].status # "draft" BY <1>1, KnownOnce DEF Busy
<1>3. PICK a \in {"ok", "rejected", "error"} :
        /\ worker' = [worker EXCEPT ![w].at = a]
        /\ a # "ok" => irn' = irn /\ calls' = calls
        /\ a = "ok" =>
             /\ irn' = [irn EXCEPT ![i] = IF @ = "none" THEN "active" ELSE @]
             /\ calls' = [calls EXCEPT ![i] = IF @ < MaxCalls THEN @ + 1 ELSE @]
  BY DEF Call
<1>4. /\ worker' \in [Workers -> Worker] /\ worker'[w].at = a
      /\ worker'[w].job = worker[w].job /\ worker'[w].owns = worker[w].owns
      /\ \A x \in Workers : x # w => worker'[x] = worker[x]
      /\ \A x \in Workers : /\ worker'[x].at # "idle" => worker'[x].job \in Jobs
                            /\ worker'[x].owns => worker'[x].at # "idle"
  BY <1>1, <1>3, GoesOn DEF Points
<1>5. /\ irn' \in [Invoices -> {"none", "active", "cancelled"}]
      /\ \A x \in Invoices : irn[x] # "none" => irn'[x] = irn[x]
      /\ \A x \in Invoices : x # i => irn'[x] = irn[x] /\ calls'[x] = calls[x]
      /\ a = "ok" => irn'[i] # "none"
  BY <1>1, <1>2, <1>3 DEF EInvoiceTypeOK
<1>6. /\ calls' \in [Invoices -> Nat]
      /\ a = "ok" /\ calls[i] = 0 => calls'[i] = 1
      /\ a # "ok" => calls'[i] = calls[i]
  BY <1>1, <1>2, <1>3, EInvoiceAssumption DEF EInvoiceTypeOK
<1>7. EInvoiceTypeOK' BY <1>1, <1>4, <1>5, <1>6 DEF EInvoiceTypeOK, Busy
<1>8. JobsAreOwned' BY <1>1, <1>4, OwnersGoOn DEF IInv
<1>9. NoFaultNoDouble' BY <1>1, FaultlessStays DEF IInv
<1>10. ASSUME NEW x \in Invoices PROVE Unknown(x)'
  <2>1. inv[x].status = "draft" => calls'[x] = calls[x] BY <1>2, <1>5
  <2> QED BY <1>1, <1>4, <2>1, StaysUnknown DEF IInv
<1>11. ASSUME NEW x \in Invoices PROVE ReplaysFit(x)' BY <1>1, ReplaysStay DEF IInv
<1>12. ASSUME NEW x \in Invoices PROVE IrpKnows(x)'
  <2>1. IrpKnows(x) BY DEF IInv
  <2>2. \A y \in Workers : worker'[y].at = "ok" /\ worker'[y].job[1] = x => irn'[x] # "none"
    BY <1>4, <1>5, <2>1 DEF IrpKnows
  <2> QED BY <1>1, <1>5, <2>1, <2>2 DEF IrpKnows
<1>13. ASSUME NEW x \in Invoices PROVE GuardHolds(x)'
  BY <1>1, <1>3, <1>4, GuardStays DEF IInv
<1>14. ASSUME NEW x \in Invoices PROVE CalledOnce(x)'
  <2>1. CASE a # "ok" \/ x # i
    BY <1>1, <1>3, <1>4, <1>5, <2>1, CallsStay DEF IInv
  <2>2. CASE a = "ok" /\ x = i
    <3> SUFFICES ASSUME faults' = 0, inv'[i].status = "issued", calls'[i] # 0
                 PROVE  calls'[i] = 1 /\ \E y \in Workers : /\ worker'[y].at = "ok"
                                                            /\ worker'[y].job[1] = i
      BY <2>2 DEF CalledOnce
    <3>1. i \notin doubled BY <1>1 DEF IInv, NoFaultNoDouble
    <3>2. inv[i].ein # "generated" BY <1>1, <1>2, <3>1 DEF IInv, GuardHolds, Calling
    <3>3. \A y \in Workers : ~(worker[y].at = "ok" /\ worker[y].job[1] = i)
      BY <1>1, <3>1, AloneWithInvoice DEF Busy
    <3>4. calls[i] = 0 BY <1>1, <1>2, <3>2, <3>3 DEF IInv, CalledOnce
    <3> QED BY <1>4, <1>6, <2>2, <3>4
  <2> QED BY <2>1, <2>2
<1> QED BY <1>7, <1>8, <1>9, <1>10, <1>11, <1>12, <1>13, <1>14 DEF IInv
LEMMA WriteInv == ASSUME IInv, NEW w \in Workers, Write(w) PROVE IInv'
<1> DEFINE i == worker[w].job[1]
<1>1. /\ EInvoiceTypeOK /\ worker[w].at \in {"ok", "rejected", "error"}
      /\ UNCHANGED <<row, stream, reaper, job, dead, irn, calls, aged, doubled, faults>>
  BY DEF IInv, Write
<1>2. i \in Invoices /\ inv[i].status # "draft" BY <1>1, KnownOnce DEF Busy
<1>3. PICK e \in Ein :
        /\ inv' = [inv EXCEPT ![i].ein = e]
        /\ worker[w].at = "ok" => e = "generated"
        /\ worker[w].at = "rejected" => e = "failed"
        /\ worker[w].at = "error" => e = inv[i].ein
  <2>1. inv[i].ein \in Ein BY <1>1, <1>2 DEF EInvoiceTypeOK, Invoice
  <2>2. CASE worker[w].at = "ok"
    <3>1. inv' = [inv EXCEPT ![i].ein = "generated"] BY <2>2 DEF Write
    <3> QED BY <2>2, <3>1 DEF Ein
  <2>3. CASE worker[w].at = "rejected"
    <3>1. inv' = [inv EXCEPT ![i].ein = "failed"] BY <2>3 DEF Write
    <3> QED BY <2>3, <3>1 DEF Ein
  <2>4. CASE worker[w].at = "error"
    <3>1. inv' = [inv EXCEPT ![i].ein = inv[i].ein] BY <2>4 DEF Write
    <3> QED BY <2>1, <2>4, <3>1
  <2> QED BY <1>1, <2>2, <2>3, <2>4
<1>4. PICK a \in {"complete", "giveup", "retry"} : worker' = [worker EXCEPT ![w].at = a]
  <2>1. CASE worker[w].at = "ok"
    <3>1. worker' = [worker EXCEPT ![w].at = "complete"] BY <2>1 DEF Write
    <3> QED BY <3>1
  <2>2. CASE worker[w].at = "rejected"
    <3>1. worker' = [worker EXCEPT ![w].at = "giveup"] BY <2>2 DEF Write
    <3> QED BY <3>1
  <2>3. CASE worker[w].at = "error"
    <3>1. worker' = [worker EXCEPT ![w].at = "retry"] BY <2>3 DEF Write
    <3> QED BY <3>1
  <2> QED BY <1>1, <2>1, <2>2, <2>3
<1>5. /\ worker' \in [Workers -> Worker] /\ worker'[w].at = a
      /\ worker'[w].job = worker[w].job /\ worker'[w].owns = worker[w].owns
      /\ \A x \in Workers : x # w => worker'[x] = worker[x]
      /\ \A x \in Workers : /\ worker'[x].at # "idle" => worker'[x].job \in Jobs
                            /\ worker'[x].owns => worker'[x].at # "idle"
  BY <1>1, <1>4, GoesOn DEF Points
<1>6. /\ inv' \in [Invoices -> Invoice]
      /\ inv'[i].ein = e /\ inv'[i].status = inv[i].status
      /\ \A x \in Invoices : x # i => inv'[x] = inv[x]
  BY <1>1, <1>2, <1>3 DEF EInvoiceTypeOK, Invoice
<1>7. /\ cancel' \in [Invoices -> Canceler]
      /\ \A x \in Invoices : cancel'[x].at = cancel[x].at /\ cancel'[x].saw = cancel[x].saw
  <2>1. PICK b \in BOOLEAN : cancel' = [cancel EXCEPT ![i].stale = b]
    <3>1. cancel[i].stale \in BOOLEAN BY <1>1, <1>2 DEF EInvoiceTypeOK, Canceler
    <3>2. cancel' = [cancel EXCEPT ![i].stale = cancel[i].stale \/ cancel[i].at # "no"]
      BY DEF Write, Touch
    <3> QED BY <3>1, <3>2
  <2> QED BY <1>1, <1>2, <2>1 DEF EInvoiceTypeOK, Canceler
<1>8. EInvoiceTypeOK' BY <1>1, <1>5, <1>6, <1>7 DEF EInvoiceTypeOK, Busy
<1>9. JobsAreOwned' BY <1>1, <1>5, OwnersGoOn DEF IInv
<1>10. NoFaultNoDouble' BY <1>1, FaultlessStays DEF IInv
<1>11. ASSUME NEW x \in Invoices PROVE Unknown(x)'
  <2>1. inv'[x].status = "draft" => inv'[x] = inv[x] BY <1>2, <1>6
  <2> QED BY <1>1, <1>5, <2>1, StaysUnknown DEF IInv
<1>12. ASSUME NEW x \in Invoices PROVE ReplaysFit(x)' BY <1>1, ReplaysStay DEF IInv
<1>13. \A y \in Workers : worker'[y].at = "ok" => y # w /\ worker'[y] = worker[y]
  BY <1>4, <1>5
<1>14. ASSUME NEW x \in Invoices PROVE IrpKnows(x)'
  <2>1. IrpKnows(x) BY DEF IInv
  <2>2. CASE x # i BY <1>1, <1>6, <1>7, <1>13, <2>1, <2>2, IrpSame
  <2>3. CASE x = i
    <3>1. e = "generated" => irn[i] # "none"
      BY <1>1, <1>3, <2>1, <2>3 DEF IrpKnows
    <3>2. e = "cancelled" => irn[i] = "cancelled"
      BY <1>1, <1>3, <2>1, <2>3 DEF IrpKnows
    <3> QED BY <1>1, <1>6, <1>7, <1>13, <2>1, <2>3, <3>1, <3>2 DEF IrpKnows
  <2> QED BY <2>2, <2>3
<1>15. ASSUME NEW x \in Workers, i \notin doubled, worker[x].at # "idle",
              worker[x].job[1] = i
       PROVE  x = w
  BY <1>1, <1>15, AloneWithInvoice DEF Busy
<1>16. ASSUME NEW x \in Invoices PROVE GuardHolds(x)'
  <2>1. CASE x # i BY <1>1, <1>4, <1>5, <1>6, <2>1, GuardStays DEF IInv
  <2>2. CASE x = i
    <3>1. i \notin doubled => \A y \in Workers :
            ~(worker'[y].at \in {"calling", "ok", "rejected", "error"}
                /\ worker'[y].job[1] = i)
      BY <1>4, <1>5, <1>15
    <3> QED BY <1>1, <2>2, <3>1 DEF GuardHolds, Calling
  <2> QED BY <2>1, <2>2
<1>17. ASSUME NEW x \in Invoices PROVE CalledOnce(x)'
  <2>1. CASE x # i BY <1>1, <1>5, <1>6, <2>1, CallsStay DEF IInv
  <2>2. CASE x = i
    <3> SUFFICES ASSUME faults' = 0, inv'[i].status = "issued", calls'[i] # 0
                 PROVE  /\ calls'[i] = 1
                        /\ \/ inv'[i].ein = "generated"
                           \/ \E y \in Workers : /\ worker'[y].at = "ok"
                                                 /\ worker'[y].job[1] = i
      BY <2>2 DEF CalledOnce
    <3>1. i \notin doubled BY <1>1 DEF IInv, NoFaultNoDouble
    <3>2. inv[i].ein # "generated" BY <1>1, <1>2, <3>1 DEF IInv, GuardHolds, Calling
    <3>3. CalledOnce(i) BY <1>2 DEF IInv
    <3>4. /\ calls[i] = 1
          /\ \E y \in Workers : worker[y].at = "ok" /\ worker[y].job[1] = i
      BY <1>1, <1>6, <3>2, <3>3 DEF CalledOnce
    <3>5. worker[w].at = "ok" BY <1>15, <3>1, <3>4
    <3> QED BY <1>1, <1>3, <1>6, <3>4, <3>5
  <2> QED BY <2>1, <2>2
<1> QED BY <1>8, <1>9, <1>10, <1>11, <1>12, <1>14, <1>16, <1>17 DEF IInv

\* A worker loses its job, or is done with it; the job is settled if it was the owner's.
LEMMA LetGoStep ==
  ASSUME IInv, EInvoiceTypeOK', NEW w \in Workers, worker[w].at # "idle",
         UNCHANGED <<inv, row, stream, reaper, dead, irn, calls, cancel>>,
         faults' = 0 => faults = 0 /\ doubled' = doubled, doubled \subseteq doubled',
         \A x \in Workers : x # w => worker'[x] = worker[x],
         worker'[w].owns = FALSE,
         worker'[w].at # "idle" =>
           worker'[w].job = worker[w].job /\ worker[w].job[1] \in doubled'
             /\ worker'[w].at = worker[w].at,
         worker'[w].at = "idle" => worker[w].at # "ok",
         faults' = 0 => worker'[w].at = "idle",
         job' \in [Jobs -> Job],
         \A k \in Jobs : job'[k] = job[k]
                           \/ (worker[w].owns /\ k = worker[w].job /\ job'[k].state # "none")
  PROVE  IInv'
<1>1. EInvoiceTypeOK BY DEF IInv
<1>2. worker[w].job \in Jobs /\ inv[worker[w].job[1]].status # "draft"
  BY KnownOnce DEF Busy
<1>3. worker[w].owns => job[worker[w].job].state = "active" BY DEF IInv, JobsAreOwned
<1>4. JobsAreOwned'
  <2>1. \A x \in Workers : x # w /\ worker[x].owns => job'[worker[x].job] = job[worker[x].job]
    BY <1>1 DEF IInv, JobsAreOwned, EInvoiceTypeOK
  <2>2. \A x \in Workers : worker'[x].owns => job'[worker'[x].job].state = "active"
    BY <2>1 DEF IInv, JobsAreOwned
  <2>3. \A x, y \in Workers : worker'[x].owns /\ worker'[y].owns
                                /\ worker'[x].job = worker'[y].job => x = y
    BY DEF IInv, JobsAreOwned
  <2>4. \A x \in Workers : worker'[x].at # "idle" /\ worker'[x].job[1] \notin doubled'
                             => worker'[x].owns
    BY DEF IInv, JobsAreOwned, Busy
  <2> QED BY <2>2, <2>3, <2>4 DEF JobsAreOwned, Busy
<1>5. NoFaultNoDouble' /\ \A x \in Invoices : Unknown(x)' /\ ReplaysFit(x)'
  <2>1. CASE worker[w].owns
    <3>1. \A k \in Jobs : k # worker[w].job => job'[k] = job[k] OBVIOUS
    <3>2. NoFaultNoDouble' BY <1>2, <1>3, <2>1, <3>1, JobMoves, FaultlessStays
    <3>3. \A x \in Invoices : ReplaysFit(x)' BY <1>2, <1>3, <2>1, <3>1, ReplaysMove
    <3>4. \A x \in Invoices : inv[x].status = "draft" =>
            job'[Main(x)] = job[Main(x)] /\ job'[Again(x)] = job[Again(x)]
      BY <1>2, <1>3, <2>1, <3>1, JobMoves
    <3>5. ASSUME NEW x \in Invoices PROVE Unknown(x)'
      <4>1. Unknown(x) /\ (inv[x].status = "draft" => worker[w].job[1] # x)
        BY <1>2 DEF IInv
      <4> QED BY <3>4, <4>1, StaysUnknown
    <3> QED BY <3>2, <3>3, <3>5
  <2>2. CASE ~worker[w].owns
    <3>1. \A k \in Jobs : job'[k] = job[k] BY <2>2
    <3>2. \A x \in Invoices : job'[Main(x)] = job[Main(x)] /\ job'[Again(x)] = job[Again(x)]
      BY <3>1, JobParts
    <3>3. NoFaultNoDouble' BY <3>2, FaultlessStays
    <3>4. \A x \in Invoices : ReplaysFit(x)' BY <3>2, ReplaysStay DEF IInv
    <3>5. ASSUME NEW x \in Invoices PROVE Unknown(x)'
      <4>1. Unknown(x) /\ (inv[x].status = "draft" => worker[w].job[1] # x)
        BY <1>2 DEF IInv
      <4> QED BY <3>2, <4>1, StaysUnknown
    <3> QED BY <3>3, <3>4, <3>5
  <2> QED BY <2>1, <2>2
<1>6. \A x \in Workers : worker'[x].at # "idle" =>
        worker'[x].at = worker[x].at /\ worker'[x].job = worker[x].job
  OBVIOUS
<1>7. \A x \in Invoices : IrpKnows(x)' BY <1>6, IrpSame DEF IInv
<1>8. \A x \in Invoices : GuardHolds(x)' BY <1>6, GuardStays DEF IInv
<1>9. ASSUME NEW x \in Invoices PROVE CalledOnce(x)'
  <2>1. CASE faults' # 0 BY <2>1 DEF CalledOnce
  <2>2. CASE faults' = 0
    <3>1. \A y \in Workers : worker[y].at = "ok" => y # w BY <2>2
    <3> QED BY <3>1, CallsStay DEF IInv
  <2> QED BY <2>1, <2>2
<1> QED BY <1>4, <1>5, <1>7, <1>8, <1>9 DEF IInv
LEMMA ConcludeInv == ASSUME IInv, NEW w \in Workers, Conclude(w) PROVE IInv'
<1> DEFINE j == worker[w].job
<1>1. /\ EInvoiceTypeOK /\ worker[w].at \in {"complete", "giveup", "retry"}
      /\ worker' = [worker EXCEPT ![w] = IdleWorker]
      /\ UNCHANGED <<inv, row, stream, reaper, dead, irn, calls, cancel, aged, doubled, faults>>
  BY DEF IInv, Conclude, Finish
<1>2. j \in Jobs BY <1>1, KnownOnce DEF Busy
<1>3. job[j] \in Job BY <1>1, <1>2 DEF EInvoiceTypeOK
<1>4. \/ job' = job
      \/ worker[w].owns /\ \E q \in Job : q.state # "none" /\ job' = [job EXCEPT ![j] = q]
  <2>1. CASE ~worker[w].owns BY <2>1 DEF Conclude, Completed, Failed
  <2>2. CASE worker[w].owns /\ worker[w].at = "complete"
    <3> DEFINE q == [job[j] EXCEPT !.state = "completed"]
    <3>1. q \in Job /\ q.state # "none" BY <1>3 DEF Job
    <3>2. job' = [job EXCEPT ![j] = q] BY <2>2 DEF Conclude, Completed
    <3> HIDE DEF q
    <3> QED BY <2>2, <3>1, <3>2
  <2>3. CASE worker[w].owns /\ worker[w].at # "complete"
    <3> DEFINE n == job[j].tries + 1
               q == [state |-> "failed", tries |-> n, told |-> FALSE]
               r == [state |-> "waiting", tries |-> n, told |-> TRUE]
    <3>1. n \in Nat BY <1>3 DEF Job
    <3>2. q \in Job /\ q.state # "none" /\ r \in Job /\ r.state # "none"
      BY <3>1 DEF Job
    <3>3. job' = [job EXCEPT ![j] = q] \/ job' = [job EXCEPT ![j] = r]
      BY <2>3 DEF Conclude, Failed
    <3> HIDE DEF q, r
    <3> QED BY <2>3, <3>2, <3>3
  <2> QED BY <2>1, <2>2, <2>3
<1>5. /\ job' \in [Jobs -> Job]
      /\ \A k \in Jobs : job'[k] = job[k]
                           \/ (worker[w].owns /\ k = j /\ job'[k].state # "none")
  <2>1. CASE job' = job BY <1>1, <2>1 DEF EInvoiceTypeOK
  <2>2. CASE worker[w].owns /\ \E q \in Job : q.state # "none" /\ job' = [job EXCEPT ![j] = q]
    <3>1. PICK q \in Job : q.state # "none" /\ job' = [job EXCEPT ![j] = q] BY <2>2
    <3> QED BY <1>1, <1>2, <2>2, <3>1, JobType
  <2> QED BY <1>4, <2>1, <2>2
<1>6. /\ worker' \in [Workers -> Worker]
      /\ worker'[w].at = "idle" /\ worker'[w].owns = FALSE
      /\ \A x \in Workers : x # w => worker'[x] = worker[x]
  BY <1>1, IdleType, WorkerType
<1>7. EInvoiceTypeOK' BY <1>1, <1>5, <1>6 DEF EInvoiceTypeOK, Busy
<1> QED BY <1>1, <1>5, <1>6, <1>7, LetGoStep

LEMMA StallInv == ASSUME IInv, NEW w \in Workers, Stall(w) PROVE IInv'
<1> DEFINE j == worker[w].job
<1>1. /\ EInvoiceTypeOK /\ worker[w].owns /\ Faulty
      /\ worker' = [worker EXCEPT ![w].owns = FALSE]
      /\ job' = [job EXCEPT ![j].state = "waiting"]
      /\ doubled' = doubled \cup {j[1]}
      /\ UNCHANGED <<inv, row, stream, reaper, dead, irn, calls, cancel, aged>>
  BY DEF IInv, Stall
<1>2. /\ worker[w].at # "idle" /\ worker[w] \in Worker
      /\ j \in Jobs /\ j[1] \in Invoices /\ job[j] \in Job
  BY <1>1, KnownOnce DEF Busy, EInvoiceTypeOK
<1> DEFINE q == [job[j] EXCEPT !.state = "waiting"]
           p == [worker[w] EXCEPT !.owns = FALSE]
<1>a. q \in Job /\ q.state = "waiting" BY <1>2 DEF Job
<1>b. p \in Worker /\ p.at = worker[w].at /\ p.job = j /\ p.owns = FALSE BY <1>2 DEF Worker
<1>3. job' = [job EXCEPT ![j] = q] /\ worker' = [worker EXCEPT ![w] = p] BY <1>1
<1> HIDE DEF q, p
<1>4. /\ q \in Job /\ q.state = "waiting"
      /\ p \in Worker /\ p.at = worker[w].at /\ p.job = j /\ p.owns = FALSE
  BY <1>a, <1>b
<1>5. /\ job' \in [Jobs -> Job] /\ job'[j].state = "waiting"
      /\ \A k \in Jobs : k # j => job'[k] = job[k]
  BY <1>1, <1>2, <1>4, <1>3, JobType
<1>6. /\ worker' \in [Workers -> Worker]
      /\ worker'[w].at = worker[w].at /\ worker'[w].job = j /\ worker'[w].owns = FALSE
      /\ \A x \in Workers : x # w => worker'[x] = worker[x]
  BY <1>1, <1>4, <1>3, WorkerType
<1>7. faults' \in Nat /\ faults' # 0 /\ doubled' \subseteq Invoices
  BY <1>1, <1>2, FaultyType DEF EInvoiceTypeOK
<1>8. EInvoiceTypeOK' BY <1>1, <1>5, <1>6, <1>7 DEF EInvoiceTypeOK, Busy
<1> QED BY <1>1, <1>2, <1>5, <1>6, <1>7, <1>8, LetGoStep

-----------------------------------------------------------------------------
(* Dead letters, eviction and replay *)

\* Jobs change that no worker has, of invoices that are issued.
LEMMA JobStep ==
  ASSUME IInv, EInvoiceTypeOK', NEW j \in Jobs, inv[j[1]].status # "draft",
         UNCHANGED <<inv, row, stream, reaper, worker, irn, calls, cancel, doubled>>,
         faults' = 0 => faults = 0,
         job[j].state # "active",
         \A k \in Jobs : k # j => job'[k] = job[k],
         NoFaultNoDouble', \A x \in Invoices : ReplaysFit(x)'
  PROVE  IInv'
<1>1. JobsAreOwned' BY OwnersStay DEF IInv
<1>2. \A x \in Invoices : inv[x].status = "draft" =>
        job'[Main(x)] = job[Main(x)] /\ job'[Again(x)] = job[Again(x)]
  BY JobParts
<1>3. \A x \in Invoices : Unknown(x)' BY <1>2, StaysUnknown DEF IInv
<1>4. \A x \in Invoices : IrpKnows(x)' BY IrpSame DEF IInv
<1>5. \A x \in Invoices : GuardHolds(x)' BY GuardStays DEF IInv
<1>6. \A x \in Invoices : CalledOnce(x)' BY CallsStay DEF IInv
<1> QED BY <1>1, <1>3, <1>4, <1>5, <1>6 DEF IInv

LEMMA BuryInv == ASSUME IInv, NEW j \in Jobs, Bury(j) PROVE IInv'
<1>1. /\ EInvoiceTypeOK /\ job[j].state = "failed" /\ ~job[j].told
      /\ job' = [job EXCEPT ![j].told = TRUE] /\ dead' = dead \cup {j}
      /\ UNCHANGED <<inv, row, stream, reaper, worker, irn, calls, cancel, aged, doubled, faults>>
  BY DEF IInv, Bury
<1> DEFINE q == [job[j] EXCEPT !.told = TRUE]
<1>2. q \in Job /\ q.state = "failed" /\ q.told BY <1>1 DEF EInvoiceTypeOK, Job
<1>3. job' = [job EXCEPT ![j] = q] BY <1>1
<1> HIDE DEF q
<1>4. /\ job' \in [Jobs -> Job] /\ job'[j].state = "failed" /\ job'[j].told
      /\ \A k \in Jobs : k # j => job'[k] = job[k]
  BY <1>1, <1>2, <1>3, JobType
<1>5. EInvoiceTypeOK' BY <1>1, <1>4 DEF EInvoiceTypeOK, Busy
<1>6. inv[j[1]].status # "draft" BY <1>1, KnownOnce
<1>7. NoFaultNoDouble' BY <1>1, <1>4, JobMoves, FaultlessStays
<1>8. ASSUME NEW x \in Invoices PROVE ReplaysFit(x)'
  <2>1. ReplaysFit(x) BY DEF IInv
  <2>2. CASE j = Main(x) BY <1>4, <2>2 DEF ReplaysFit, Retired, Main
  <2>3. CASE j = Again(x)
    <3>1. Retired(x) BY <1>1, <2>1, <2>3 DEF ReplaysFit
    <3>2. job'[Main(x)] = job[Main(x)] BY <1>4, <2>3, JobParts
    <3> QED BY <1>1, <3>1, <3>2 DEF ReplaysFit, Retired, Main
  <2>4. CASE j # Main(x) /\ j # Again(x)
    <3>1. job'[Main(x)] = job[Main(x)] /\ job'[Again(x)] = job[Again(x)]
      BY <1>4, <2>4, JobParts
    <3> QED BY <1>1, <2>1, <2>4, <3>1, ReplaysStay DEF Main, Again
  <2> QED BY <2>2, <2>3, <2>4
<1> QED BY <1>1, <1>4, <1>5, <1>6, <1>7, <1>8, JobStep

LEMMA EvictInv == ASSUME IInv, NEW j \in Jobs, Evict(j) PROVE IInv'
<1>1. /\ EInvoiceTypeOK
      /\ \/ job[j].state = "completed"
         \/ /\ job[j].state = "failed" /\ row[j[1]] = "published"
            /\ j[1] \notin reaper.todo /\ stream[j[1]] = "no"
      /\ job' = [job EXCEPT ![j] = NoJob]
      /\ UNCHANGED <<inv, row, stream, reaper, worker, dead, irn, calls, cancel, aged, doubled,
                     faults>>
  BY DEF IInv, Evict
<1>2. /\ job' \in [Jobs -> Job] /\ job'[j].state = "none"
      /\ \A k \in Jobs : k # j => job'[k] = job[k]
  BY <1>1, NoJobType, JobType
<1>3. EInvoiceTypeOK' BY <1>1, <1>2 DEF EInvoiceTypeOK, Busy
<1>4. inv[j[1]].status # "draft" /\ job[j].state \notin {"none", "active"}
  BY <1>1, KnownOnce
<1>5. NoFaultNoDouble' BY <1>1, <1>2, <1>4, JobMoves, FaultlessStays
<1>6. \A x \in Invoices : ReplaysFit(x)'
  <2>1. CASE job[j].state = "completed" BY <1>1, <1>2, <2>1, ReplaysMove
  <2>2. CASE job[j].state # "completed"
    <3> SUFFICES ASSUME NEW x \in Invoices PROVE ReplaysFit(x)' OBVIOUS
    <3>1. ReplaysFit(x) BY DEF IInv
    <3>2. CASE j = Main(x)
      <4>1. j[1] = x BY <3>2, JobParts
      <4> QED BY <1>1, <1>2, <2>2, <3>2, <4>1 DEF ReplaysFit, Retired, Main
    <3>3. CASE j # Main(x)
      <4>1. job'[Main(x)] = job[Main(x)] BY <1>2, <3>3, JobParts
      <4>2. job'[Again(x)].state # "none" => job[Again(x)].state # "none"
        BY <1>2, JobParts
      <4> QED BY <1>1, <3>1, <4>1, <4>2, ReplaysStay DEF Main, Again
    <3> QED BY <3>2, <3>3
  <2> QED BY <2>1, <2>2
<1> QED BY <1>1, <1>2, <1>3, <1>4, <1>5, <1>6, JobStep

LEMMA ReplayInv == ASSUME IInv, NEW i \in Invoices, Replay(i) PROVE IInv'
<1>1. /\ EInvoiceTypeOK /\ Faulty
      /\ <<i, "main">> \in dead \/ <<i, "replay">> \in dead
      /\ job[Again(i)].state = "none"
      /\ job' = [job EXCEPT ![Again(i)] = [NoJob EXCEPT !.state = "waiting"]]
      /\ UNCHANGED <<inv, row, stream, reaper, worker, dead, irn, calls, cancel, aged, doubled>>
  BY DEF IInv, Replay, Again
<1>2. Again(i) \in Jobs /\ Again(i)[1] = i BY JobParts
<1> DEFINE q == [NoJob EXCEPT !.state = "waiting"]
<1>3. q \in Job BY DEF NoJob, Job
<1>4. job' = [job EXCEPT ![Again(i)] = q] BY <1>1
<1> HIDE DEF q
<1>5. /\ job' \in [Jobs -> Job] /\ \A k \in Jobs : k # Again(i) => job'[k] = job[k]
  BY <1>1, <1>2, <1>3, <1>4, JobType
<1>6. faults' \in Nat /\ faults' # 0 BY <1>1, FaultyType
<1>7. EInvoiceTypeOK' BY <1>1, <1>5, <1>6 DEF EInvoiceTypeOK, Busy
<1>8. Retired(i) BY <1>1 DEF IInv, ReplaysFit, Main, Again
<1>9. inv[Again(i)[1]].status # "draft" BY <1>2, <1>8, KnownOnce
<1>10. NoFaultNoDouble' BY <1>6 DEF NoFaultNoDouble
<1>11. ASSUME NEW x \in Invoices PROVE ReplaysFit(x)'
  <2>1. job'[Main(x)] = job[Main(x)] BY <1>5, JobParts DEF Main, Again
  <2>2. CASE x = i
    <3>1. Retired(x)' BY <1>1, <1>8, <2>1, <2>2 DEF Retired, Main
    <3> QED BY <3>1 DEF ReplaysFit
  <2>3. CASE x # i
    <3>1. job'[Again(x)] = job[Again(x)] BY <1>5, <2>3, JobParts
    <3> QED BY <1>1, <2>1, <3>1, ReplaysStay DEF IInv
  <2> QED BY <2>2, <2>3
<1> QED BY <1>1, <1>2, <1>5, <1>6, <1>7, <1>9, <1>10, <1>11, JobStep
-----------------------------------------------------------------------------
(* Cancelling, and the crash *)

\* An invoice and its cancellation change, and nothing the workers rely on.
LEMMA CancelStep ==
  ASSUME IInv, EInvoiceTypeOK', NEW i \in Invoices,
         UNCHANGED <<row, stream, reaper, job, worker, dead, calls, doubled>>,
         faults' = 0 => faults = 0,
         \A x \in Invoices : x # i =>
           inv'[x] = inv[x] /\ irn'[x] = irn[x] /\ cancel'[x] = cancel[x],
         inv'[i] = inv[i] \/ inv'[i].status = "cancelled",
         inv'[i].ein = "generated" => inv[i].ein = "generated",
         IrpKnows(i)'
  PROVE  IInv'
<1>1. JobsAreOwned' BY OwnersStay DEF IInv
<1>2. NoFaultNoDouble' BY FaultlessStays DEF IInv
<1>3. ASSUME NEW x \in Invoices PROVE Unknown(x)'
  <2>1. inv'[x].status = "draft" => inv'[x] = inv[x] OBVIOUS
  <2> QED BY <2>1, StaysUnknown DEF IInv
<1>4. \A x \in Invoices : ReplaysFit(x)' BY ReplaysStay DEF IInv
<1>5. ASSUME NEW x \in Invoices PROVE IrpKnows(x)'
  <2>1. CASE x # i BY <2>1, IrpSame DEF IInv
  <2>2. CASE x = i BY <2>2
  <2> QED BY <2>1, <2>2
<1>6. \A x \in Invoices : GuardHolds(x)' BY GuardStays DEF IInv
<1>7. ASSUME NEW x \in Invoices PROVE CalledOnce(x)'
  <2>1. inv'[x].status = "issued" => inv'[x] = inv[x] OBVIOUS
  <2> QED BY <2>1, CallsStay DEF IInv
<1> QED BY <1>1, <1>2, <1>3, <1>4, <1>5, <1>6, <1>7 DEF IInv

\* One cancellation, at its invoice.
LEMMA CancelType ==
  ASSUME EInvoiceTypeOK, NEW i \in Invoices, NEW q \in Canceler,
         cancel' = [cancel EXCEPT ![i] = q]
  PROVE  /\ cancel' \in [Invoices -> Canceler] /\ cancel'[i] = q
         /\ \A x \in Invoices : x # i => cancel'[x] = cancel[x]
BY DEF EInvoiceTypeOK

LEMMA CancelStartInv == ASSUME IInv, NEW i \in Invoices, CancelStart(i) PROVE IInv'
<1>1. /\ EInvoiceTypeOK /\ inv[i].status = "issued"
      /\ cancel' = [cancel EXCEPT ![i] = [at |-> "open", saw |-> inv[i].ein, stale |-> FALSE]]
      /\ UNCHANGED <<inv, row, stream, reaper, job, worker, dead, irn, calls, aged, doubled,
                     faults>>
  BY DEF IInv, CancelStart
<1> DEFINE q == [at |-> "open", saw |-> inv[i].ein, stale |-> FALSE]
<1>2. q \in Canceler /\ q.at = "open" /\ q.saw = inv[i].ein
  BY <1>1 DEF EInvoiceTypeOK, Invoice, Canceler
<1>3. cancel' = [cancel EXCEPT ![i] = q] BY <1>1
<1> HIDE DEF q
<1>4. /\ cancel' \in [Invoices -> Canceler]
      /\ cancel'[i].at = "open" /\ cancel'[i].saw = inv[i].ein
      /\ \A x \in Invoices : x # i => cancel'[x] = cancel[x]
  BY <1>1, <1>2, <1>3, CancelType
<1>5. EInvoiceTypeOK' BY <1>1, <1>4 DEF EInvoiceTypeOK, Busy
<1>6. IrpKnows(i)'
  <2>1. IrpKnows(i) BY DEF IInv
  <2> QED BY <1>1, <1>4, <2>1 DEF IrpKnows
<1> QED BY <1>1, <1>4, <1>5, <1>6, CancelStep

LEMMA CancelCallInv == ASSUME IInv, NEW i \in Invoices, CancelCall(i) PROVE IInv'
<1>1. /\ EInvoiceTypeOK /\ cancel[i].at = "open" /\ cancel[i].saw = "generated"
      /\ irn' = [irn EXCEPT ![i] = IF @ = "active" THEN "cancelled" ELSE @]
      /\ cancel' = [cancel EXCEPT ![i].at = "called"]
      /\ UNCHANGED <<inv, row, stream, reaper, job, worker, dead, calls, aged, doubled, faults>>
  BY DEF IInv, CancelCall
<1> DEFINE q == [cancel[i] EXCEPT !.at = "called"]
<1>2. q \in Canceler /\ q.at = "called" /\ q.saw = "generated"
  BY <1>1 DEF EInvoiceTypeOK, Canceler
<1>3. cancel' = [cancel EXCEPT ![i] = q] BY <1>1
<1> HIDE DEF q
<1>4. /\ cancel' \in [Invoices -> Canceler]
      /\ cancel'[i].at = "called" /\ cancel'[i].saw = "generated"
      /\ \A x \in Invoices : x # i => cancel'[x] = cancel[x]
  BY <1>1, <1>2, <1>3, CancelType
<1>5. IrpKnows(i) BY DEF IInv
<1>6. /\ irn' \in [Invoices -> {"none", "active", "cancelled"}] /\ irn'[i] = "cancelled"
      /\ \A x \in Invoices : x # i => irn'[x] = irn[x]
  BY <1>1, <1>5 DEF EInvoiceTypeOK, IrpKnows
<1>7. EInvoiceTypeOK' BY <1>1, <1>4, <1>6 DEF EInvoiceTypeOK, Busy
<1>8. IrpKnows(i)' BY <1>1, <1>4, <1>5, <1>6 DEF IrpKnows
<1> QED BY <1>1, <1>4, <1>6, <1>7, <1>8, CancelStep

LEMMA CancelCommitInv == ASSUME IInv, NEW i \in Invoices, CancelCommit(i) PROVE IInv'
<1>1. /\ EInvoiceTypeOK
      /\ cancel[i].at = IF cancel[i].saw = "generated" THEN "called" ELSE "open"
      /\ cancel' = [cancel EXCEPT ![i] = [NoCancel EXCEPT !.saw = cancel[i].saw]]
      /\ UNCHANGED <<row, stream, reaper, job, worker, dead, irn, calls, aged, doubled, faults>>
  BY DEF IInv, CancelCommit
<1>2. inv[i] \in Invoice /\ cancel[i] \in Canceler BY <1>1 DEF EInvoiceTypeOK
<1>3. PICK e \in Ein :
        /\ e = IF cancel[i].saw = "generated" THEN "cancelled" ELSE inv[i].ein
        /\ inv' = [inv EXCEPT ![i].status = "cancelled", ![i].ein = e]
  <2> DEFINE e == IF cancel[i].saw = "generated" THEN "cancelled" ELSE inv[i].ein
  <2>1. e \in Ein BY <1>2 DEF Invoice, Ein
  <2>2. inv' = [inv EXCEPT ![i].status = "cancelled", ![i].ein = e] BY DEF CancelCommit
  <2> QED BY <2>1, <2>2
<1> DEFINE p == [inv[i] EXCEPT !.status = "cancelled", !.ein = e]
           q == [NoCancel EXCEPT !.saw = cancel[i].saw]
<1>4. /\ p \in Invoice /\ p.status = "cancelled" /\ p.ein = e
      /\ q \in Canceler /\ q.at = "no" /\ q.saw = cancel[i].saw
  BY <1>2, <1>3 DEF Invoice, NoCancel, Canceler
<1>5. inv' = [inv EXCEPT ![i] = p] /\ cancel' = [cancel EXCEPT ![i] = q]
  BY <1>1, <1>3
<1> HIDE DEF p, q
<1>6. /\ inv' \in [Invoices -> Invoice]
      /\ inv'[i].status = "cancelled" /\ inv'[i].ein = e
      /\ \A x \in Invoices : x # i => inv'[x] = inv[x]
  BY <1>1, <1>4, <1>5 DEF EInvoiceTypeOK
<1>7. /\ cancel' \in [Invoices -> Canceler]
      /\ cancel'[i].at = "no" /\ cancel'[i].saw = cancel[i].saw
      /\ \A x \in Invoices : x # i => cancel'[x] = cancel[x]
  BY <1>1, <1>4, <1>5, CancelType
<1>8. EInvoiceTypeOK' BY <1>1, <1>6, <1>7 DEF EInvoiceTypeOK, Busy
<1>9. IrpKnows(i) BY DEF IInv
<1>10. cancel[i].saw = "generated" => irn[i] = "cancelled" BY <1>1, <1>9 DEF IrpKnows
<1>11. IrpKnows(i)' BY <1>1, <1>3, <1>6, <1>7, <1>9, <1>10 DEF IrpKnows
<1> QED BY <1>1, <1>3, <1>6, <1>7, <1>8, <1>11, CancelStep

LEMMA CancelAbortInv == ASSUME IInv, NEW i \in Invoices, CancelAbort(i) PROVE IInv'
<1>1. /\ EInvoiceTypeOK /\ cancel[i].at # "no"
      /\ cancel' = [cancel EXCEPT ![i] = NoCancel]
      /\ UNCHANGED <<inv, row, stream, reaper, job, worker, dead, irn, calls, aged, doubled>>
  BY DEF IInv, CancelAbort
<1>2. faults' \in Nat /\ (faults' = 0 => faults = 0)
  BY <1>1, FaultyType DEF CancelAbort, EInvoiceTypeOK
<1>3. NoCancel \in Canceler /\ NoCancel.at = "no" /\ NoCancel.saw = "none"
  BY DEF NoCancel, Canceler
<1>4. /\ cancel' \in [Invoices -> Canceler]
      /\ cancel'[i].at = "no" /\ cancel'[i].saw = "none"
      /\ \A x \in Invoices : x # i => cancel'[x] = cancel[x]
  BY <1>1, <1>3, CancelType
<1>5. EInvoiceTypeOK' BY <1>1, <1>2, <1>4 DEF EInvoiceTypeOK, Busy
<1>6. IrpKnows(i)'
  <2>1. IrpKnows(i) BY DEF IInv
  <2> QED BY <1>1, <1>4, <2>1 DEF IrpKnows
<1> QED BY <1>1, <1>2, <1>4, <1>5, <1>6, CancelStep

LEMMA AgeInv == ASSUME IInv, NEW i \in Invoices, Age(i) PROVE IInv'
<1>1. /\ EInvoiceTypeOK
      /\ UNCHANGED <<inv, row, stream, reaper, job, worker, dead, irn, calls, cancel, doubled,
                     faults>>
  BY DEF IInv, Age
<1>2. EInvoiceTypeOK' BY <1>1 DEF EInvoiceTypeOK, Busy
<1>3. IrpKnows(i)' BY <1>1, IrpSame DEF IInv
<1> QED BY <1>1, <1>2, <1>3, CancelStep

LEMMA CrashInv == ASSUME IInv, Crash PROVE IInv'
<1>1. /\ EInvoiceTypeOK /\ Faulty
      /\ stream' = [i \in Invoices |-> "no"] /\ reaper' = NoReaper
      /\ worker' = [w \in Workers |-> IdleWorker]
      /\ UNCHANGED <<inv, row, dead, irn, calls, cancel, aged, doubled>>
  BY DEF IInv, Crash
<1>2. /\ job' \in [Jobs -> Job]
      /\ \A j \in Jobs : /\ job'[j].state = "none" <=> job[j].state = "none"
                         /\ job'[j].state = "failed" <=> job[j].state = "failed"
                         /\ job'[j].told = TRUE
  <2> DEFINE q(j) == [job[j] EXCEPT !.state = IF @ = "active" THEN "waiting" ELSE @,
                                    !.told = TRUE]
  <2>1. job' = [j \in Jobs |-> q(j)] BY DEF Crash
  <2>2. ASSUME NEW j \in Jobs
        PROVE  /\ q(j) \in Job
               /\ q(j).state = "none" <=> job[j].state = "none"
               /\ q(j).state = "failed" <=> job[j].state = "failed"
               /\ q(j).told = TRUE
    <3>1. job[j] \in Job BY <1>1 DEF EInvoiceTypeOK
    <3>2. PICK s \in {"none", "waiting", "active", "completed", "failed"} :
            s = IF job[j].state = "active" THEN "waiting" ELSE job[j].state
      BY <3>1 DEF Job
    <3>3. q(j) = [job[j] EXCEPT !.state = s, !.told = TRUE] BY <3>2
    <3> HIDE DEF q
    <3>4. q(j) \in Job /\ q(j).state = s /\ q(j).told = TRUE BY <3>1, <3>3 DEF Job
    <3> QED BY <3>2, <3>4
  <2> HIDE DEF q
  <2>3. job' \in [Jobs -> Job] BY <2>1, <2>2
  <2>4. \A j \in Jobs : job'[j] = q(j) BY <2>1
  <2> QED BY <2>2, <2>3, <2>4
<1>3. \A w \in Workers : worker'[w].at = "idle" /\ worker'[w].owns = FALSE
  BY <1>1, IdleType
<1>4. worker' \in [Workers -> Worker] BY <1>1, IdleType
<1>5. /\ stream' \in [Invoices -> {"no", "arrived", "handled"}]
      /\ \A x \in Invoices : stream'[x] = "no"
      /\ reaper' \in Reaper /\ reaper'.todo = {} /\ reaper'.handled = {}
      /\ faults' \in Nat /\ faults' # 0
  BY <1>1, FaultyType DEF NoReaper, Reaper
<1>6. EInvoiceTypeOK' BY <1>1, <1>2, <1>3, <1>4, <1>5 DEF EInvoiceTypeOK, Busy
<1>7. JobsAreOwned' BY <1>3 DEF JobsAreOwned, Busy
<1>8. NoFaultNoDouble' BY <1>5 DEF NoFaultNoDouble
<1>9. ASSUME NEW x \in Invoices PROVE Unknown(x)'
  <2>1. Unknown(x) /\ Main(x) \in Jobs /\ Again(x) \in Jobs BY JobParts DEF IInv
  <2> QED BY <1>1, <1>2, <1>3, <1>5, <2>1 DEF Unknown, Busy, Main, Again
<1>10. ASSUME NEW x \in Invoices PROVE ReplaysFit(x)'
  <2>1. ReplaysFit(x) /\ Main(x) \in Jobs /\ Again(x) \in Jobs BY JobParts DEF IInv
  <2> QED BY <1>1, <1>2, <1>5, <2>1 DEF ReplaysFit, Retired, Main, Again
<1>11. ASSUME NEW x \in Invoices PROVE IrpKnows(x)'
  BY <1>1, <1>3, IrpSame DEF IInv
<1>12. ASSUME NEW x \in Invoices PROVE GuardHolds(x)'
  BY <1>3 DEF GuardHolds, Calling
<1>13. ASSUME NEW x \in Invoices PROVE CalledOnce(x)'
  BY <1>5 DEF CalledOnce
<1> QED BY <1>6, <1>7, <1>8, <1>9, <1>10, <1>11, <1>12, <1>13 DEF IInv

-----------------------------------------------------------------------------
(* The behaviours *)

LEMMA InitInv == ASSUME Init PROVE IInv
<1>1. /\ \A i \in Invoices :
           /\ inv[i].status = "draft" /\ inv[i].ein = "not_applicable" /\ row[i] = "none"
           /\ stream[i] = "no" /\ irn[i] = "none" /\ calls[i] = 0
           /\ cancel[i].at = "no" /\ cancel[i].saw = "none"
      /\ inv \in [Invoices -> Invoice]
      /\ row \in [Invoices -> {"none", "pending", "published"}]
      /\ stream \in [Invoices -> {"no", "arrived", "handled"}]
      /\ irn \in [Invoices -> {"none", "active", "cancelled"}]
      /\ calls \in [Invoices -> Nat]
      /\ cancel \in [Invoices -> Canceler]
  BY DEF Init, NoCancel, Invoice, Ein, Canceler
<1>2. reaper \in Reaper /\ reaper.todo = {} /\ reaper.handled = {}
  BY DEF Init, NoReaper, Reaper
<1>3. job \in [Jobs -> Job] /\ \A j \in Jobs : job[j].state = "none"
  BY NoJobType DEF Init
<1>4. /\ worker \in [Workers -> Worker]
      /\ \A w \in Workers : worker[w].at = "idle" /\ worker[w].owns = FALSE
  BY IdleType DEF Init
<1>5. dead = {} /\ doubled = {} /\ faults = 0 BY DEF Init
<1>6. EInvoiceTypeOK BY <1>1, <1>2, <1>3, <1>4, <1>5 DEF EInvoiceTypeOK, Busy
<1>7. JobsAreOwned BY <1>4 DEF JobsAreOwned, Busy
<1>8. NoFaultNoDouble BY <1>3, <1>5, JobParts DEF NoFaultNoDouble
<1>9. ASSUME NEW i \in Invoices
      PROVE  Unknown(i) /\ ReplaysFit(i) /\ IrpKnows(i) /\ GuardHolds(i) /\ CalledOnce(i)
  <2>1. Unknown(i) BY <1>1, <1>2, <1>3, <1>4, JobParts DEF Unknown, Busy
  <2>2. ReplaysFit(i) BY <1>3, <1>5, JobParts DEF ReplaysFit
  <2>3. IrpKnows(i) /\ GuardHolds(i) /\ CalledOnce(i)
    BY <1>1, <1>4 DEF IrpKnows, GuardHolds, CalledOnce, Calling
  <2> QED BY <2>1, <2>2, <2>3
<1> QED BY <1>6, <1>7, <1>8, <1>9 DEF IInv

LEMMA StutterInv == ASSUME IInv, UNCHANGED vars PROVE IInv'
BY DEF IInv, vars, EInvoiceTypeOK, JobsAreOwned, NoFaultNoDouble, Unknown, ReplaysFit, Retired,
       IrpKnows, GuardHolds, CalledOnce, Calling, Busy, Main, Again

LEMMA NextInv == ASSUME IInv, [Next]_vars PROVE IInv'
<1>1. ASSUME NEW i \in Invoices,
             Issue(i) \/ StreamHandle(i) \/ StreamMark(i) \/ Replay(i) \/ Age(i)
      PROVE  IInv'
  BY <1>1, IssueInv, StreamHandleInv, StreamMarkInv, ReplayInv, AgeInv
<1>2. CASE Reap BY <1>2, ReapReadInv, ReapHandleInv, ReapMarkInv DEF Reap
<1>3. ASSUME NEW w \in Workers, Work(w) \/ Stall(w) PROVE IInv'
  BY <1>3, TakeInv, CallInv, WriteInv, ConcludeInv, StallInv DEF Work
<1>4. ASSUME NEW j \in Jobs, Bury(j) \/ Evict(j) PROVE IInv'
  BY <1>4, BuryInv, EvictInv
<1>5. ASSUME NEW i \in Invoices, Cancel(i) PROVE IInv'
  BY <1>5, CancelStartInv, CancelCallInv, CancelCommitInv, CancelAbortInv DEF Cancel
<1>6. CASE Crash BY <1>6, CrashInv
<1>7. CASE UNCHANGED vars BY <1>7, StutterInv
<1> QED BY <1>1, <1>2, <1>3, <1>4, <1>5, <1>6, <1>7 DEF Next

LEMMA Invariance == Spec => []IInv
BY InitInv, NextInv, PTL DEF Spec

\* The part of the property that is about states.
RecordIsTrue ==
  \A i \in Invoices :
    /\ inv[i].ein = "cancelled" => irn[i] = "cancelled"
    /\ inv[i].ein = "generated" => irn[i] # "none"
    /\ faults = 0 /\ inv[i].status = "issued" => calls[i] <= 1
    /\ inv[i].status = "cancelled" /\ irn[i] = "active" => cancel[i].saw # "generated"

RecordOnlyEnds ==
  \A i \in Invoices \ doubled :
    inv[i].ein = "generated" => inv'[i].ein \in {"generated", "cancelled"}

LEMMA InvMeansTrue == ASSUME IInv PROVE RecordIsTrue
<1> SUFFICES ASSUME NEW i \in Invoices
             PROVE  /\ inv[i].ein = "cancelled" => irn[i] = "cancelled"
                    /\ inv[i].ein = "generated" => irn[i] # "none"
                    /\ faults = 0 /\ inv[i].status = "issued" => calls[i] <= 1
                    /\ inv[i].status = "cancelled" /\ irn[i] = "active"
                         => cancel[i].saw # "generated"
  BY DEF RecordIsTrue
<1>1. IrpKnows(i) /\ CalledOnce(i) BY DEF IInv
<1>2. faults = 0 /\ inv[i].status = "issued" => calls[i] <= 1
  BY <1>1 DEF CalledOnce
<1> QED BY <1>1, <1>2 DEF IrpKnows

\* A worker that writes finds what it found when it took the job.
LEMMA StepsOnlyEnd == ASSUME IInv, [Next]_vars PROVE [RecordOnlyEnds]_inv
<1> SUFFICES ASSUME inv' # inv, NEW i \in Invoices \ doubled, inv[i].ein = "generated"
             PROVE  inv'[i].ein \in {"generated", "cancelled"}
  BY DEF RecordOnlyEnds
<1>1. /\ EInvoiceTypeOK /\ Unknown(i) /\ GuardHolds(i) BY DEF IInv
<1>2. CASE \E x \in Invoices : Issue(x)
  <2>1. PICK x \in Invoices : Issue(x) BY <1>2
  <2>2. x # i BY <1>1, <2>1 DEF Issue, Unknown
  <2>3. inv'[i] = inv[i] BY <1>1, <2>1, <2>2 DEF Issue, EInvoiceTypeOK
  <2> QED BY <2>3
<1>3. CASE \E w \in Workers : Write(w)
  <2>1. PICK w \in Workers : Write(w) BY <1>3
  <2>2. worker[w].job[1] # i BY <1>1, <2>1 DEF Write, GuardHolds, Calling
  <2>3. PICK e : inv' = [inv EXCEPT ![worker[w].job[1]].ein = e] BY <2>1 DEF Write
  <2>4. inv'[i] = inv[i] BY <1>1, <2>2, <2>3 DEF EInvoiceTypeOK
  <2> QED BY <2>4
<1>4. CASE \E x \in Invoices : CancelCommit(x)
  <2>1. PICK x \in Invoices : CancelCommit(x) BY <1>4
  <2>2. PICK e : /\ e = "cancelled" \/ e = inv[x].ein
                 /\ inv' = [inv EXCEPT ![x].status = "cancelled", ![x].ein = e]
    BY <2>1 DEF CancelCommit
  <2>3. inv'[i].ein = IF i = x THEN e ELSE inv[i].ein
    BY <1>1, <2>2 DEF EInvoiceTypeOK, Invoice
  <2> QED BY <2>2, <2>3
<1>5. (\E x \in Invoices : Issue(x)) \/ (\E w \in Workers : Write(w))
        \/ (\E x \in Invoices : CancelCommit(x))
  BY DEF Next, vars, Reap, Work, Cancel, StreamHandle, StreamMark, Replay, Age, ReapRead,
         ReapHandle, ReapMark, Take, Call, Conclude, Stall, Bury, Evict, CancelStart, CancelCall,
         CancelAbort, Crash
<1> QED BY <1>2, <1>3, <1>4, <1>5

\* For any number of invoices, workers and faults: what is recorded of an IRN is so
\* at the IRP, the publishers that know nothing of each other make one call, and an
\* IRN once recorded is not lost, as long as no worker that stalled works beside
\* another.  (invoiceService.issue and .cancel, jobs/einvoice.ts, maintenance.ts)
THEOREM RecordHolds == Spec => RecordFollowsIrp
<1>1. IInv /\ [Next]_vars => [RecordOnlyEnds]_inv BY StepsOnlyEnd
<1>2. IInv => RecordIsTrue BY InvMeansTrue
<1>3. Spec => [][Next]_vars BY PTL DEF Spec
<1>4. Spec => []RecordIsTrue /\ [][RecordOnlyEnds]_inv
  BY <1>1, <1>2, <1>3, Invariance, PTL
<1> QED BY <1>4 DEF RecordFollowsIrp, RecordIsTrue, RecordOnlyEnds

-----------------------------------------------------------------------------
(* Reminders *)

\* All that a run may find to tell on one of the dates.
FindableOn(d) ==
  {Notice(CompanyOf[i], "overdue", i, d) : i \in Debts}
    \cup {Notice(c, kind, kind, d) : c \in Numbered, kind \in DueOn(Dates[d])}
Findable == UNION {FindableOn(d) : d \in DOMAIN Dates}

\* What is stored of a notice; it is unique.
Row(n) == <<n.company, dedupeKey(n)>>

\* What a run may be doing, and what a change of the preferences.
Run == [at : {"rest", "next", "store", "email", "whatsapp", "over", "failed"},
        listed : SUBSET Findable, left : SUBSET Findable, now : SUBSET Findable,
        under : [Preferred -> BOOLEAN], spared : SUBSET Findable]

Change == [at : {"write"}, company : Owned, saw : [Preferred -> BOOLEAN], field : Preferred,
           to : BOOLEAN, overtaken : BOOLEAN]

\* A run tells one thing at a time.
RunTypes ==
  /\ reminder \in [Runs -> Run]
  /\ \A r \in Runs :
       IF reminder[r].at \in {"store", "email", "whatsapp"}
       THEN \E n \in Findable : reminder[r].now = {n} ELSE reminder[r].now = {}
ChangeTypes ==
  /\ prefs \in [Owned -> [Preferred -> BOOLEAN]]
  /\ wished \in [Owned -> [Preferred -> BOOLEAN]]
  /\ patch \in [Toggles -> Change \cup {[at |-> "rest"]}]
MishapTypes ==
  mishap \in [unlocked : SUBSET Findable, untold : SUBSET Findable, crossed : SUBSET Owned,
              landed : SUBSET Findable]
\* Everything is well typed.
NoticesTypeOK == today \in DOMAIN Dates /\ RunTypes /\ ChangeTypes /\ MishapTypes

\* The run has stored n, or could not, and is telling of it.
Tells(r, n) == reminder[r].at \in {"email", "whatsapp"} /\ n \in reminder[r].now

\* Whatever was told, or is being told, is stored, and by nobody else, unless it could
\* not be stored.
ToldIsStored ==
  /\ \A s \in told : s[2] \in mishap.unlocked \/ Row(s[2]) \in entered
  /\ \A r \in Runs : \A n \in reminder[r].now : Tells(r, n) =>
       \/ n \in mishap.unlocked
       \/ /\ Row(n) \in entered
          /\ Doing(r, "email") => <<"email", n>> \notin told
          /\ <<"whatsapp", n>> \notin told
          /\ \A q \in Runs : Tells(q, n) => q = r
  /\ \A s \in again : s[2] \in mishap.unlocked

\* What is stored was told by mail, or is not lost track of.
StoredIsTold ==
  /\ \A e \in entered : \E n \in mishap.landed : Row(n) = e
  /\ \A n \in mishap.landed :
       \/ <<"email", n>> \in told \/ n \in mishap.untold
       \/ \E r \in Runs : Doing(r, "email") /\ n \in reminder[r].now

\* What a run found it has told of, has still to tell, or was not to store.
RunsFollowLists ==
  \A r \in Runs : reminder[r].at \in {"next", "store", "email", "whatsapp", "over"} =>
    /\ \A n \in reminder[r].listed :
         \/ n \in mishap.landed \/ n \in reminder[r].spared \/ n \in reminder[r].left
         \/ Doing(r, "store") /\ n \in reminder[r].now
    /\ Doing(r, "store") /\ ~reminder[r].under["inApp"] =>
         reminder[r].now \subseteq reminder[r].spared
    /\ Doing(r, "over") => reminder[r].left = {}

\* A change that was not overtaken has read what is stored.
ChangesFollow ==
  /\ \A p \in Toggles : patch[p].at = "write" /\ ~patch[p].overtaken =>
       patch[p].saw = prefs[patch[p].company]
  /\ \A c \in Owned \ mishap.crossed : prefs[c] = wished[c]

\* The inductive invariant.
NoticesInv == NoticesTypeOK /\ ToldIsStored /\ StoredIsTold /\ RunsFollowLists /\ ChangesFollow

-----------------------------------------------------------------------------

\* A notice is of an invoice, or of a return.
LEMMA FindableForm ==
  ASSUME NEW n \in Findable
  PROVE  \E d \in DOMAIN Dates :
           \/ \E i \in Debts : n = Notice(CompanyOf[i], "overdue", i, d)
           \/ \E c \in Numbered, kind \in DueOn(Dates[d]) : n = Notice(c, kind, kind, d)
BY DEF Findable, FindableOn

\* Two things to tell of are stored in two rows.
LEMMA RowsDiffer ==
  ASSUME NEW m \in Findable, NEW n \in Findable, Row(m) = Row(n)
  PROVE  m = n
<1> DEFINE IsOverdue(x) == \E d \in DOMAIN Dates : \E i \in Debts :
                             x = Notice(CompanyOf[i], "overdue", i, d)
           IsDue(x) == \E d \in DOMAIN Dates : \E c \in Numbered, kind \in DueOn(Dates[d]) :
                         x = Notice(c, kind, kind, d)
<1>1. (IsOverdue(m) \/ IsDue(m)) /\ (IsOverdue(n) \/ IsDue(n)) BY FindableForm
<1>2. m.company = n.company /\ dedupeKey(m) = dedupeKey(n) BY DEF Row
<1>3. /\ m.of = n.of
      /\ (IF m.event = "overdue" THEN m.day ELSE 0) = (IF n.event = "overdue" THEN n.day ELSE 0)
  BY <1>2 DEF dedupeKey
<1>4. \A x : IsOverdue(x) => x.event = "overdue" /\ x.day \in Nat \ {0}
  BY RemindersAssumption DEF Notice
<1>5. \A x : IsDue(x) => /\ x.event # "overdue" /\ x.event = x.of
                         /\ x.event \in DueOn(Dates[x.day]) /\ x.day \in DOMAIN Dates
  BY DEF Notice, DueOn
<1>6. CASE IsOverdue(m) /\ IsOverdue(n) BY <1>2, <1>3, <1>6 DEF Notice
<1>7. CASE IsDue(m) /\ IsDue(n)
  <2>1. Dates[m.day] = Dates[n.day] BY <1>3, <1>5, <1>7 DEF DueOn
  <2>2. m.day = n.day BY <1>5, <1>7, <2>1, RemindersAssumption
  <2> QED BY <1>2, <1>3, <1>5, <1>7, <2>2 DEF Notice
<1>8. ~(IsOverdue(m) /\ IsDue(n)) /\ ~(IsDue(m) /\ IsOverdue(n)) BY <1>3, <1>4, <1>5
<1> QED BY <1>1, <1>6, <1>7, <1>8

\* A run that tells has one thing to tell.
LEMMA TellingIs ==
  ASSUME NoticesTypeOK, NEW r \in Runs, reminder[r].at \in {"store", "email", "whatsapp"}
  PROVE  Telling(r) \in Findable /\ reminder[r].now = {Telling(r)}
BY DEF NoticesTypeOK, RunTypes, Telling

\* What is found today can be found.
LEMMA ListsAreFindable ==
  ASSUME NoticesTypeOK
  PROVE  /\ overdueInvoiceReminders(today) \subseteq Findable
         /\ gstDueDateReminders(today) \subseteq Findable
BY DEF NoticesTypeOK, overdueInvoiceReminders, gstDueDateReminders, Findable, FindableOn

\* One run moves on, to q.
LEMMA RunMoves ==
  ASSUME NoticesTypeOK, NEW r \in Runs, NEW q \in Run,
         reminder' = [reminder EXCEPT ![r] = reminder'[r]], reminder'[r] = q,
         IF q.at \in {"store", "email", "whatsapp"}
         THEN \E n \in Findable : q.now = {n} ELSE q.now = {}
  PROVE  /\ RunTypes'
         /\ reminder'[r] = q
         /\ \A o \in Runs : o # r => reminder'[o] = reminder[o]
BY DEF NoticesTypeOK, RunTypes


\* A new run has told nothing, and has all it found still to tell.
LEMMA StartKeeps ==
  ASSUME NoticesInv, NEW r \in Runs, Start(r)
  PROVE  NoticesInv'
<1>1. PICK listed \in SUBSET Findable :
        reminder' = [reminder EXCEPT ![r] = [NoRun EXCEPT !.at = "next", !.listed = listed,
                                                          !.left = listed]]
  BY ListsAreFindable DEF Start, NoticesInv
<1> DEFINE q == [at |-> "next", listed |-> listed, left |-> listed, now |-> {},
                 under |-> Defaults, spared |-> {}]
<1>0. reminder \in [Runs -> Run] BY DEF NoticesInv, NoticesTypeOK, RunTypes
<1>2. reminder'[r] = q BY <1>0, <1>1, ZenonT(30) DEF NoRun
<1>14. reminder' = [reminder EXCEPT ![r] = reminder'[r]] BY <1>0, <1>1
<1>3. q \in Run BY DEF Run, Defaults
<1>4. q.at = "next" /\ q.now = {} /\ q.listed = q.left OBVIOUS
<1> HIDE DEF q
<1>5. RunTypes' /\ reminder'[r] = q /\ \A o \in Runs : o # r => reminder'[o] = reminder[o]
  BY <1>2, <1>3, <1>4, <1>14, RunMoves DEF NoticesInv
<1>6. UNCHANGED <<today, prefs, entered, patch, told, again, wished, mishap>> BY DEF Start
<1>7. ~Doing(r, "email") BY DEF Start, Doing
<1>8. NoticesTypeOK' BY <1>5, <1>6 DEF NoticesInv, NoticesTypeOK, ChangeTypes, MishapTypes
<1>9. ToldIsStored' BY <1>4, <1>5, <1>6 DEF NoticesInv, ToldIsStored, Tells, Doing
<1>10. StoredIsTold' BY <1>4, <1>5, <1>6, <1>7 DEF NoticesInv, StoredIsTold, Doing
<1>11. RunsFollowLists' BY <1>4, <1>5, <1>6 DEF NoticesInv, RunsFollowLists, Doing
<1>12. ChangesFollow' BY <1>6 DEF NoticesInv, ChangesFollow
<1> QED BY <1>8, <1>9, <1>10, <1>11, <1>12 DEF NoticesInv

\* A notice leaves the list to be stored, or because it is not wanted.
LEMMA ConsiderKeeps ==
  ASSUME NoticesInv, NEW r \in Runs, Consider(r)
  PROVE  NoticesInv'
<1> DEFINE old == reminder[r]
<1>0. reminder \in [Runs -> Run] BY DEF NoticesInv, NoticesTypeOK, RunTypes
<1>1. PICK n, under, at, now, spared :
        /\ n \in old.left
        /\ reminder' = [reminder EXCEPT ![r].left = @ \ {n}, ![r].under = under, ![r].at = at,
                                        ![r].now = now, ![r].spared = spared]
        /\ under = prefs[n.company]
        /\ \/ at = "store" /\ now = {n} /\ spared = old.spared /\ under.inApp
           \/ at = "store" /\ now = {n} /\ spared = old.spared \cup {n}
           \/ at = "next" /\ now = {} /\ spared = old.spared \cup {n}
  <2>1. PICK n \in old.left :
          reminder' =
             [reminder EXCEPT ![r].left = @ \ {n}, ![r].under = prefs[n.company],
                          ![r].at = IF prefs[n.company][n.event] THEN "store" ELSE "next",
                          ![r].now = IF prefs[n.company][n.event] THEN {n} ELSE {},
                          ![r].spared = IF prefs[n.company][n.event] /\ prefs[n.company].inApp
                                        THEN @ ELSE @ \cup {n}]
    BY DEF Consider
  <2> DEFINE under == prefs[n.company]
             at == IF prefs[n.company][n.event] THEN "store" ELSE "next"
             now == IF prefs[n.company][n.event] THEN {n} ELSE {}
             spared == IF prefs[n.company][n.event] /\ prefs[n.company].inApp
                                        THEN old.spared ELSE old.spared \cup {n}
  <2>2. reminder' = [reminder EXCEPT ![r].left = @ \ {n}, ![r].under = under, ![r].at = at,
                                        ![r].now = now, ![r].spared = spared]
    BY <2>1, <1>0 DEF Run
  <2>3. \/ at = "store" /\ now = {n} /\ spared = old.spared /\ under.inApp
        \/ at = "store" /\ now = {n} /\ spared = old.spared \cup {n}
        \/ at = "next" /\ now = {} /\ spared = old.spared \cup {n}
    OBVIOUS
  <2> QED BY <2>2, <2>3
<1> DEFINE q == [at |-> at, listed |-> old.listed, left |-> old.left \ {n}, now |-> now,
                 under |-> under, spared |-> spared]
<1>2. old \in Run /\ old.at = "next" /\ n \in Findable /\ old.now = {}
  BY <1>1 DEF Consider, Doing, NoticesInv, NoticesTypeOK, RunTypes, Run
<1>14. reminder' = [reminder EXCEPT ![r] = reminder'[r]] BY <1>0, <1>1 DEF Run
<1>3. reminder'[r] = q BY ZenonT(60), <1>0, <1>1 DEF Run
<1>4. under \in [Preferred -> BOOLEAN]
  <2>1. n.company \in Owned BY <1>2, FindableForm, RemindersAssumption DEF Notice
  <2> QED BY <1>1, <2>1 DEF NoticesInv, NoticesTypeOK, ChangeTypes
<1>5. q \in Run BY <1>1, <1>2, <1>4 DEF Run
<1>6. /\ q.listed = old.listed /\ q.left = old.left \ {n}
      /\ \/ q.at = "store" /\ q.now = {n} /\ q.spared = old.spared /\ q.under["inApp"]
         \/ q.at = "store" /\ q.now = {n} /\ q.spared = old.spared \cup {n}
         \/ q.at = "next" /\ q.now = {} /\ q.spared = old.spared \cup {n}
  BY <1>1
<1> HIDE DEF q
<1>7. RunTypes' /\ reminder'[r] = q /\ \A o \in Runs : o # r => reminder'[o] = reminder[o]
  BY <1>2, <1>3, <1>5, <1>6, <1>14, RunMoves DEF NoticesInv
<1>8. UNCHANGED <<today, prefs, entered, patch, told, again, wished, mishap>> BY DEF Consider
<1>9. NoticesTypeOK' BY <1>7, <1>8 DEF NoticesInv, NoticesTypeOK, ChangeTypes, MishapTypes
<1>10. ToldIsStored' BY <1>6, <1>7, <1>8 DEF NoticesInv, ToldIsStored, Tells, Doing
<1>11. StoredIsTold' BY <1>2, <1>7, <1>8 DEF NoticesInv, StoredIsTold, Doing
<1>12. RunsFollowLists' BY <1>2, <1>6, <1>7, <1>8 DEF NoticesInv, RunsFollowLists, Doing
<1>13. ChangesFollow' BY <1>8 DEF NoticesInv, ChangesFollow
<1> QED BY <1>9, <1>10, <1>11, <1>12, <1>13 DEF NoticesInv

\* Only one run stores a row; so before it did nobody told of what is in it.
LEMMA StoreKeeps ==
  ASSUME NoticesInv, NEW r \in Runs, Store(r)
  PROVE  NoticesInv'
<1>0. reminder \in [Runs -> Run] BY DEF NoticesInv, NoticesTypeOK, RunTypes
<1> DEFINE old == reminder[r]
<1>15. PICK n : n = Telling(r) OBVIOUS
<1>1. old \in Run /\ old.at = "store" /\ n \in Findable /\ old.now = {n}
  BY <1>15, TellingIs DEF Store, Doing, NoticesInv, NoticesTypeOK, RunTypes
<1>2. PICK at, now :
        /\ reminder' = [reminder EXCEPT ![r].at = at, ![r].now = now]
        /\ \/ /\ at = "email" /\ now = {n} /\ ~old.under["inApp"]
              /\ mishap' = [mishap EXCEPT !.unlocked = @ \cup {n}] /\ entered' = entered
           \/ at = "next" /\ now = {} /\ Row(n) \in entered /\ UNCHANGED <<entered, mishap>>
           \/ /\ at = "email" /\ now = {n} /\ Row(n) \notin entered
              /\ entered' = entered \cup {Row(n)}
              /\ mishap' = [mishap EXCEPT !.landed = @ \cup {n}]
  <2>2. [reminder EXCEPT ![r].at = "email"]
          = [reminder EXCEPT ![r].at = "email", ![r].now = {n}]
    BY <1>0, <1>1 DEF Run
  <2>4. CASE ~old.under["inApp"]
    <3>1. reminder' = [reminder EXCEPT ![r].at = "email", ![r].now = {n}]
      BY <2>2, <2>4 DEF Store
    <3>2. mishap' = [mishap EXCEPT !.unlocked = @ \cup {n}] /\ entered' = entered
      BY <1>15, <2>4 DEF Store
    <3> QED BY <2>4, <3>1, <3>2
  <2>5. CASE old.under["inApp"] /\ Row(n) \in entered
    BY <1>15, <2>5 DEF Store, Row
  <2>6. CASE old.under["inApp"] /\ Row(n) \notin entered
    <3>1. reminder' = [reminder EXCEPT ![r].at = "email", ![r].now = {n}]
      BY <1>15, <2>2, <2>6 DEF Store, Row
    <3>2. entered' = entered \cup {Row(n)} /\ mishap' = [mishap EXCEPT !.landed = @ \cup {n}]
      BY <1>15, <2>6 DEF Store, Row
    <3> QED BY <2>6, <3>1, <3>2
  <2> QED BY <2>4, <2>5, <2>6
<1> DEFINE q == [at |-> at, listed |-> old.listed, left |-> old.left, now |-> now,
                 under |-> old.under, spared |-> old.spared]
<1>14. reminder' = [reminder EXCEPT ![r] = reminder'[r]] BY <1>0, <1>2 DEF Run
<1>21. reminder' = [reminder EXCEPT ![r].at = at, ![r].now = now] BY <1>2
<1>16. reminder'[r] = q BY <1>0, <1>21 DEF Run
<1>17. q \in Run BY <1>1, <1>2 DEF Run
<1>18. q.listed = old.listed /\ q.left = old.left /\ q.under = old.under
       /\ q.spared = old.spared /\ q.at = at /\ q.now = now
  OBVIOUS
<1> HIDE DEF q
<1>3. RunTypes' /\ reminder'[r] = q /\ \A o \in Runs : o # r => reminder'[o] = reminder[o]
  <2>1. IF q.at \in {"store", "email", "whatsapp"}
        THEN \E m \in Findable : q.now = {m} ELSE q.now = {}
    BY <1>1, <1>2, <1>18
  <2> QED BY <1>14, <1>16, <1>17, <2>1, RunMoves DEF NoticesInv
<1>4. UNCHANGED <<today, prefs, patch, told, again, wished>> BY DEF Store
<1>19. MishapTypes BY DEF NoticesInv, NoticesTypeOK
<1>5. MishapTypes' /\ mishap'.untold = mishap.untold /\ mishap'.crossed = mishap.crossed
  BY <1>1, <1>2, <1>19 DEF MishapTypes
<1>22. ASSUME mishap' = [mishap EXCEPT !.unlocked = @ \cup {n}]
       PROVE  mishap'.unlocked = mishap.unlocked \cup {n} /\ mishap'.landed = mishap.landed
  BY <1>19, <1>22 DEF MishapTypes
<1>23. ASSUME mishap' = [mishap EXCEPT !.landed = @ \cup {n}]
       PROVE  mishap'.landed = mishap.landed \cup {n} /\ mishap'.unlocked = mishap.unlocked
  BY <1>19, <1>23 DEF MishapTypes
<1>24. \/ /\ at = "email" /\ now = {n} /\ ~old.under["inApp"] /\ entered' = entered
          /\ mishap'.unlocked = mishap.unlocked \cup {n} /\ mishap'.landed = mishap.landed
       \/ /\ at = "next" /\ now = {} /\ Row(n) \in entered /\ entered' = entered
          /\ mishap'.unlocked = mishap.unlocked /\ mishap'.landed = mishap.landed
       \/ /\ at = "email" /\ now = {n} /\ Row(n) \notin entered /\ entered' = entered \cup {Row(n)}
          /\ mishap'.landed = mishap.landed \cup {n} /\ mishap'.unlocked = mishap.unlocked
  BY <1>2, <1>22, <1>23
<1>6. /\ mishap.unlocked \subseteq mishap'.unlocked
      /\ mishap.landed \subseteq mishap'.landed
      /\ entered \subseteq entered'
      /\ \A m \in mishap'.landed : m \in mishap.landed \/ (m = n /\ at = "email")
  BY <1>24
<1>7. at = "email" => n \in mishap'.unlocked \/ (Row(n) \in entered' /\ n \in mishap'.landed)
  BY <1>24
<1>8. \A e \in entered' : e \in entered \/ (e = Row(n) /\ n \in mishap'.landed)
  BY <1>24
<1>9. NoticesTypeOK' BY <1>3, <1>4, <1>5 DEF NoticesInv, NoticesTypeOK, ChangeTypes
<1>20. Row(n) \notin entered =>
         /\ \A o \in Runs : Tells(o, n) => n \in mishap.unlocked
         /\ \A s \in told : s[2] = n => n \in mishap.unlocked
  BY DEF NoticesInv, ToldIsStored, Tells
<1>10. ToldIsStored'
  <2>1. (\A s \in told : s[2] \in mishap.unlocked \/ Row(s[2]) \in entered)'
    BY <1>4, <1>6 DEF NoticesInv, ToldIsStored, Row, dedupeKey
  <2>2. (\A s \in again : s[2] \in mishap.unlocked)'
    BY <1>4, <1>6 DEF NoticesInv, ToldIsStored
  <2>3. ASSUME NEW o \in Runs, NEW m \in reminder'[o].now, Tells(o, m)'
        PROVE  \/ m \in mishap'.unlocked
               \/ /\ Row(m) \in entered'
                  /\ Doing(o, "email")' => <<"email", m>> \notin told'
                  /\ <<"whatsapp", m>> \notin told'
                  /\ \A p \in Runs : Tells(p, m)' => p = o
    <3>1. CASE o = r
      <4>1. at = "email" /\ m = n BY <1>2, <1>3, <1>18, <2>3, <3>1 DEF Tells
      <4>2. CASE n \notin mishap'.unlocked
        <5>1. Row(n) \in entered' /\ Row(n) \notin entered /\ n \notin mishap.unlocked
          BY <1>24, <4>1, <4>2
        <5>2. \A p \in Runs : Tells(p, n)' => p = r
          BY <1>3, <1>20, <5>1 DEF Tells
        <5>3. <<"email", n>> \notin told' /\ <<"whatsapp", n>> \notin told'
          BY <1>4, <1>20, <5>1
        <5> QED BY <3>1, <4>1, <5>1, <5>2, <5>3
      <4> QED BY <4>1, <4>2
    <3>2. CASE o # r
      <4>1. Tells(o, m) /\ m \in reminder[o].now BY <1>3, <2>3, <3>2 DEF Tells
      <4>2. CASE m \in mishap.unlocked BY <1>6, <4>2
      <4>3. CASE m \notin mishap.unlocked
        <5>1. /\ Row(m) \in entered
              /\ Doing(o, "email") => <<"email", m>> \notin told
              /\ <<"whatsapp", m>> \notin told
              /\ \A p \in Runs : Tells(p, m) => p = o
          BY <4>1, <4>3 DEF NoticesInv, ToldIsStored
        <5>2. ASSUME Tells(r, m)' PROVE m \in mishap'.unlocked
          <6>1. at = "email" /\ m = n BY <1>2, <1>3, <1>18, <5>2 DEF Tells
          <6> QED BY <1>24, <5>1, <6>1
        <5> QED BY <1>3, <1>4, <1>6, <3>2, <5>1, <5>2 DEF Tells, Doing
      <4> QED BY <4>2, <4>3
    <3> QED BY <3>1, <3>2
  <2> QED BY <2>1, <2>2, <2>3 DEF ToldIsStored
<1>11. StoredIsTold'
  <2>1. (\A e \in entered : \E m \in mishap.landed : Row(m) = e)'
    BY <1>6, <1>8 DEF NoticesInv, StoredIsTold, Row, dedupeKey
  <2>2. ASSUME NEW m \in mishap'.landed
        PROVE  \/ <<"email", m>> \in told' \/ m \in mishap'.untold
               \/ \E o \in Runs : Doing(o, "email")' /\ m \in reminder'[o].now
    <3>1. CASE m = n /\ at = "email" BY <1>1, <1>2, <1>3, <1>18, <3>1 DEF Doing
    <3>2. CASE m \in mishap.landed
      BY <1>1, <1>3, <1>4, <1>5, <3>2 DEF NoticesInv, StoredIsTold, Doing
    <3> QED BY <1>6, <3>1, <3>2
  <2> QED BY <2>1, <2>2 DEF StoredIsTold
<1>12. RunsFollowLists'
  <2>1. Row(n) \in entered => n \in mishap.landed
    BY <1>1, RowsDiffer DEF NoticesInv, NoticesTypeOK, MishapTypes, StoredIsTold
  <2>2. n \in mishap'.landed \/ n \in old.spared
    <3>1. ~old.under["inApp"] => n \in old.spared BY <1>1 DEF NoticesInv, RunsFollowLists, Doing
    <3> QED BY <1>24, <2>1, <3>1
  <2>3. ASSUME NEW o \in Runs, o # r,
               reminder[o].at \in {"next", "store", "email", "whatsapp", "over"}
        PROVE  \A m \in reminder[o].listed :
                 \/ m \in mishap'.landed \/ m \in reminder[o].spared \/ m \in reminder[o].left
                 \/ Doing(o, "store") /\ m \in reminder[o].now
    BY <1>6, <2>3 DEF NoticesInv, RunsFollowLists
  <2>4. \A m \in old.listed :
          m \in mishap'.landed \/ m \in old.spared \/ m \in old.left
    BY <1>1, <1>6, <2>2 DEF NoticesInv, RunsFollowLists
  <2> QED BY <1>1, <1>24, <1>3, <1>18, <2>3, <2>4 DEF NoticesInv, RunsFollowLists, Doing
<1>13. ChangesFollow' BY <1>4, <1>5 DEF NoticesInv, ChangesFollow
<1> QED BY <1>9, <1>10, <1>11, <1>12, <1>13 DEF NoticesInv

\* The run that stored a row mails it, once, or the mail is lost.
LEMMA SendMailKeeps ==
  ASSUME NoticesInv, NEW r \in Runs, SendMail(r)
  PROVE  NoticesInv'
<1>0. reminder \in [Runs -> Run] BY DEF NoticesInv, NoticesTypeOK, RunTypes
<1> DEFINE old == reminder[r]
<1>1. PICK n : n = Telling(r) OBVIOUS
<1>2. old \in Run /\ old.at = "email" /\ n \in Findable /\ old.now = {n}
  BY <1>1, TellingIs DEF SendMail, Doing, NoticesInv, NoticesTypeOK, RunTypes
<1> DEFINE q == [at |-> "whatsapp", listed |-> old.listed, left |-> old.left, now |-> old.now,
                 under |-> old.under, spared |-> old.spared]
<1>3. reminder' = [reminder EXCEPT ![r].at = "whatsapp"] BY DEF SendMail
<1>4. reminder' = [reminder EXCEPT ![r] = reminder'[r]] BY <1>0, <1>3 DEF Run
<1>5. reminder'[r] = q BY <1>0, <1>3 DEF Run
<1>6. q \in Run BY <1>2 DEF Run
<1>7. q.at = "whatsapp" /\ q.listed = old.listed /\ q.left = old.left /\ q.now = {n}
      /\ q.under = old.under /\ q.spared = old.spared
  BY <1>2
<1> HIDE DEF q
<1>8. RunTypes' /\ reminder'[r] = q /\ \A o \in Runs : o # r => reminder'[o] = reminder[o]
  BY <1>2, <1>4, <1>5, <1>6, <1>7, RunMoves DEF NoticesInv
<1>9. UNCHANGED <<today, prefs, entered, patch, wished>> BY DEF SendMail
<1>10. MishapTypes BY DEF NoticesInv, NoticesTypeOK
<1>11. \/ /\ told' = told \cup {<<"email", n>>}
          /\ again' = again \cup ({<<"email", n>>} \cap told)
          /\ mishap' = mishap
       \/ mishap' = [mishap EXCEPT !.untold = @ \cup {n}] /\ UNCHANGED <<told, again>>
  BY <1>1 DEF SendMail, Sends
<1>12. /\ MishapTypes' /\ mishap'.unlocked = mishap.unlocked /\ mishap'.landed = mishap.landed
       /\ mishap'.crossed = mishap.crossed /\ mishap.untold \subseteq mishap'.untold
  BY <1>2, <1>10, <1>11 DEF MishapTypes
<1>13. /\ \A s \in told' : s \in told \/ s = <<"email", n>>
       /\ \A s \in again' : s \in again \/ (s = <<"email", n>> /\ s \in told)
       /\ told \subseteq told' /\ (<<"email", n>> \in told' \/ n \in mishap'.untold)
  BY <1>2, <1>10, <1>11 DEF MishapTypes
<1>14. NoticesTypeOK' BY <1>8, <1>9, <1>12 DEF NoticesInv, NoticesTypeOK, ChangeTypes
<1>15. \/ n \in mishap.unlocked
       \/ /\ Row(n) \in entered /\ <<"email", n>> \notin told /\ <<"whatsapp", n>> \notin told
          /\ \A o \in Runs : Tells(o, n) => o = r
  BY <1>2 DEF NoticesInv, ToldIsStored, Tells, Doing
<1>16. ToldIsStored'
  <2>1. ASSUME NEW s \in told' PROVE s[2] \in mishap'.unlocked \/ Row(s[2]) \in entered'
    <3>1. CASE s \in told BY <1>9, <1>12, <3>1 DEF NoticesInv, ToldIsStored
    <3>2. CASE s[2] = n BY <1>9, <1>12, <1>15, <3>2
    <3> QED BY <1>13, <3>1, <3>2
  <2>2. (\A s \in again : s[2] \in mishap.unlocked)'
    BY <1>12, <1>13, <1>15 DEF NoticesInv, ToldIsStored
  <2>3. ASSUME NEW o \in Runs, NEW m \in reminder'[o].now, Tells(o, m)'
        PROVE  \/ m \in mishap'.unlocked
               \/ /\ Row(m) \in entered'
                  /\ Doing(o, "email")' => <<"email", m>> \notin told'
                  /\ <<"whatsapp", m>> \notin told'
                  /\ \A p \in Runs : Tells(p, m)' => p = o
    <3>1. \A p \in Runs : Tells(p, m)' => Tells(p, m)
      BY <1>2, <1>7, <1>8 DEF Tells
    <3>2. m \in reminder[o].now BY <2>3, <3>1 DEF Tells
    <3>3. CASE m \in mishap.unlocked BY <1>12, <3>3
    <3>4. CASE m \notin mishap.unlocked
      <4>1. /\ Row(m) \in entered
            /\ Doing(o, "email") => <<"email", m>> \notin told
            /\ <<"whatsapp", m>> \notin told
            /\ \A p \in Runs : Tells(p, m) => p = o
        BY <2>3, <3>1, <3>2, <3>4 DEF NoticesInv, ToldIsStored
      <4>2. Doing(o, "email")' => Doing(o, "email") /\ o # r BY <1>7, <1>8 DEF Doing
      <4>3. o # r => m # n BY <1>2, <4>1 DEF Tells
      <4>4. <<"whatsapp", m>> \notin told' BY <1>13, <4>1
      <4>5. o # r => (<<"email", m>> \notin told \/ ~Doing(o, "email")) BY <4>1
      <4>6. Doing(o, "email")' => <<"email", m>> \notin told' BY <1>13, <4>1, <4>2, <4>3
      <4> QED BY <1>9, <3>1, <4>1, <4>4, <4>6
    <3> QED BY <3>3, <3>4
  <2> QED BY <2>1, <2>2, <2>3 DEF ToldIsStored
<1>17. StoredIsTold'
  <2>1. (\A e \in entered : \E m \in mishap.landed : Row(m) = e)'
    BY <1>9, <1>12 DEF NoticesInv, StoredIsTold
  <2>2. ASSUME NEW m \in mishap'.landed
        PROVE  \/ <<"email", m>> \in told' \/ m \in mishap'.untold
               \/ \E o \in Runs : Doing(o, "email")' /\ m \in reminder'[o].now
    <3>1. \/ <<"email", m>> \in told \/ m \in mishap.untold
          \/ \E o \in Runs : Doing(o, "email") /\ m \in reminder[o].now
      BY <1>12, <2>2 DEF NoticesInv, StoredIsTold
    <3> QED BY <1>2, <1>8, <1>12, <1>13, <3>1 DEF Doing
  <2> QED BY <2>1, <2>2 DEF StoredIsTold
<1>18. RunsFollowLists' BY <1>2, <1>7, <1>8, <1>12 DEF NoticesInv, RunsFollowLists, Doing
<1>19. ChangesFollow' BY <1>9, <1>12 DEF NoticesInv, ChangesFollow
<1> QED BY <1>14, <1>16, <1>17, <1>18, <1>19 DEF NoticesInv

\* So it is with the template.
LEMMA SendTemplateKeeps ==
  ASSUME NoticesInv, NEW r \in Runs, SendTemplate(r)
  PROVE  NoticesInv'
<1>0. reminder \in [Runs -> Run] BY DEF NoticesInv, NoticesTypeOK, RunTypes
<1> DEFINE old == reminder[r]
<1>1. PICK n : n = Telling(r) OBVIOUS
<1>2. old \in Run /\ old.at = "whatsapp" /\ n \in Findable /\ old.now = {n}
  BY <1>1, TellingIs DEF SendTemplate, Doing, NoticesInv, NoticesTypeOK, RunTypes
<1> DEFINE q == [at |-> "next", listed |-> old.listed, left |-> old.left, now |-> {},
                 under |-> old.under, spared |-> old.spared]
<1>3. reminder' = [reminder EXCEPT ![r].at = "next", ![r].now = {}] BY DEF SendTemplate
<1>4. reminder' = [reminder EXCEPT ![r] = reminder'[r]] BY <1>0, <1>3 DEF Run
<1>5. reminder'[r] = q BY <1>0, <1>3 DEF Run
<1>6. q \in Run BY <1>2 DEF Run
<1>7. q.at = "next" /\ q.listed = old.listed /\ q.left = old.left /\ q.now = {}
      /\ q.under = old.under /\ q.spared = old.spared
  OBVIOUS
<1> HIDE DEF q
<1>8. RunTypes' /\ reminder'[r] = q /\ \A o \in Runs : o # r => reminder'[o] = reminder[o]
  BY <1>2, <1>4, <1>5, <1>6, <1>7, RunMoves DEF NoticesInv
<1>9. UNCHANGED <<today, prefs, entered, patch, wished, mishap>> BY DEF SendTemplate
<1>10. MishapTypes BY DEF NoticesInv, NoticesTypeOK
<1>11. \/ /\ told' = told \cup {<<"whatsapp", n>>}
          /\ again' = again \cup ({<<"whatsapp", n>>} \cap told)
       \/ UNCHANGED <<told, again>>
  BY <1>1 DEF SendTemplate, Sends
<1>13. /\ \A s \in told' : s \in told \/ s = <<"whatsapp", n>>
       /\ \A s \in again' : s \in again \/ (s = <<"whatsapp", n>> /\ s \in told)
       /\ told \subseteq told'
  BY <1>11
<1>14. NoticesTypeOK' BY <1>8, <1>9 DEF NoticesInv, NoticesTypeOK, ChangeTypes, MishapTypes
<1>15. \/ n \in mishap.unlocked
       \/ /\ Row(n) \in entered /\ <<"whatsapp", n>> \notin told
          /\ \A o \in Runs : Tells(o, n) => o = r
  BY <1>2 DEF NoticesInv, ToldIsStored, Tells, Doing
<1>16. ToldIsStored'
  <2>1. ASSUME NEW s \in told' PROVE s[2] \in mishap'.unlocked \/ Row(s[2]) \in entered'
    <3>1. CASE s \in told BY <1>9, <3>1 DEF NoticesInv, ToldIsStored
    <3>2. CASE s[2] = n BY <1>9, <1>15, <3>2
    <3> QED BY <1>13, <3>1, <3>2
  <2>2. (\A s \in again : s[2] \in mishap.unlocked)'
    BY <1>9, <1>13, <1>15 DEF NoticesInv, ToldIsStored
  <2>3. ASSUME NEW o \in Runs, NEW m \in reminder'[o].now, Tells(o, m)'
        PROVE  \/ m \in mishap'.unlocked
               \/ /\ Row(m) \in entered'
                  /\ Doing(o, "email")' => <<"email", m>> \notin told'
                  /\ <<"whatsapp", m>> \notin told'
                  /\ \A p \in Runs : Tells(p, m)' => p = o
    <3>1. \A p \in Runs : Tells(p, m)' => Tells(p, m) /\ p # r
      BY <1>2, <1>7, <1>8 DEF Tells
    <3>2. m \in reminder[o].now /\ o # r BY <2>3, <3>1 DEF Tells
    <3>3. CASE m \in mishap.unlocked BY <1>9, <3>3
    <3>4. CASE m \notin mishap.unlocked
      <4>1. /\ Row(m) \in entered
            /\ Doing(o, "email") => <<"email", m>> \notin told
            /\ <<"whatsapp", m>> \notin told
            /\ \A p \in Runs : Tells(p, m) => p = o
        BY <2>3, <3>1, <3>2, <3>4 DEF NoticesInv, ToldIsStored
      <4>2. Doing(o, "email")' => Doing(o, "email") BY <1>8, <3>2 DEF Doing
      <4>3. m # n BY <1>2, <3>2, <4>1 DEF Tells
      <4>4. <<"whatsapp", m>> \notin told' BY <1>13, <4>1, <4>3
      <4>6. Doing(o, "email")' => <<"email", m>> \notin told' BY <1>13, <4>1, <4>2
      <4> QED BY <1>9, <3>1, <4>1, <4>4, <4>6
    <3> QED BY <3>3, <3>4
  <2> QED BY <2>1, <2>2, <2>3 DEF ToldIsStored
<1>17. StoredIsTold'
  <2>1. (\A e \in entered : \E m \in mishap.landed : Row(m) = e)'
    BY <1>9 DEF NoticesInv, StoredIsTold
  <2>2. ASSUME NEW m \in mishap'.landed
        PROVE  \/ <<"email", m>> \in told' \/ m \in mishap'.untold
               \/ \E o \in Runs : Doing(o, "email")' /\ m \in reminder'[o].now
    <3>1. \/ <<"email", m>> \in told \/ m \in mishap.untold
          \/ \E o \in Runs : Doing(o, "email") /\ m \in reminder[o].now
      BY <1>9, <2>2 DEF NoticesInv, StoredIsTold
    <3> QED BY <1>2, <1>8, <1>9, <1>13, <3>1 DEF Doing
  <2> QED BY <2>1, <2>2 DEF StoredIsTold
<1>18. RunsFollowLists' BY <1>2, <1>7, <1>8, <1>9 DEF NoticesInv, RunsFollowLists, Doing
<1>19. ChangesFollow' BY <1>9 DEF NoticesInv, ChangesFollow
<1> QED BY <1>14, <1>16, <1>17, <1>18, <1>19 DEF NoticesInv

\* A run ends with nothing left to tell.
LEMMA EndKeeps ==
  ASSUME NoticesInv, NEW r \in Runs, End(r)
  PROVE  NoticesInv'
<1>0. reminder \in [Runs -> Run] BY DEF NoticesInv, NoticesTypeOK, RunTypes
<1> DEFINE old == reminder[r]
<1>2. old \in Run /\ old.at = "next" /\ old.left = {} /\ old.now = {}
  BY DEF End, Doing, NoticesInv, NoticesTypeOK, RunTypes
<1> DEFINE q == [at |-> "over", listed |-> old.listed, left |-> old.left, now |-> old.now,
                 under |-> old.under, spared |-> old.spared]
<1>3. reminder' = [reminder EXCEPT ![r].at = "over"] BY DEF End
<1>4. reminder' = [reminder EXCEPT ![r] = reminder'[r]] BY <1>0, <1>3 DEF Run
<1>5. reminder'[r] = q BY <1>0, <1>3 DEF Run
<1>6. q \in Run BY <1>2 DEF Run
<1>7. q.at = "over" /\ q.listed = old.listed /\ q.left = {} /\ q.now = {}
      /\ q.under = old.under /\ q.spared = old.spared
  BY <1>2
<1> HIDE DEF q
<1>8. RunTypes' /\ reminder'[r] = q /\ \A o \in Runs : o # r => reminder'[o] = reminder[o]
  BY <1>2, <1>4, <1>5, <1>6, <1>7, RunMoves DEF NoticesInv
<1>9. UNCHANGED <<today, prefs, entered, patch, told, again, wished, mishap>> BY DEF End
<1>10. NoticesTypeOK' BY <1>8, <1>9 DEF NoticesInv, NoticesTypeOK, ChangeTypes, MishapTypes
<1>11. ToldIsStored' BY <1>2, <1>7, <1>8, <1>9 DEF NoticesInv, ToldIsStored, Tells, Doing
<1>12. StoredIsTold' BY <1>2, <1>7, <1>8, <1>9 DEF NoticesInv, StoredIsTold, Doing
<1>13. RunsFollowLists' BY <1>2, <1>7, <1>8, <1>9 DEF NoticesInv, RunsFollowLists, Doing
<1>14. ChangesFollow' BY <1>9 DEF NoticesInv, ChangesFollow
<1> QED BY <1>10, <1>11, <1>12, <1>13, <1>14 DEF NoticesInv

\* What a run that dies had stored and not mailed is never mailed.
LEMMA AbortKeeps ==
  ASSUME NoticesInv, NEW r \in Runs, Abort(r)
  PROVE  NoticesInv'
<1>0. reminder \in [Runs -> Run] BY DEF NoticesInv, NoticesTypeOK, RunTypes
<1> DEFINE old == reminder[r]
<1>2. /\ old \in Run /\ old.now \subseteq Findable
      /\ old.at \in {"next", "store", "email", "whatsapp"}
  BY <1>0 DEF Abort, Run
<1> DEFINE q == [at |-> "failed", listed |-> old.listed, left |-> old.left, now |-> {},
                 under |-> old.under, spared |-> old.spared]
<1>3. reminder' = [reminder EXCEPT ![r].at = "failed", ![r].now = {}] BY DEF Abort
<1>4. reminder' = [reminder EXCEPT ![r] = reminder'[r]] BY <1>0, <1>3 DEF Run
<1>5. reminder'[r] = q BY <1>0, <1>3 DEF Run
<1>6. q \in Run BY <1>2 DEF Run
<1>7. q.at = "failed" /\ q.now = {} OBVIOUS
<1> HIDE DEF q
<1>8. RunTypes' /\ reminder'[r] = q /\ \A o \in Runs : o # r => reminder'[o] = reminder[o]
  BY <1>2, <1>4, <1>5, <1>6, <1>7, RunMoves DEF NoticesInv
<1>9. UNCHANGED <<today, prefs, entered, patch, told, again, wished>> BY DEF Abort
<1>10. PICK lost \in SUBSET Findable :
         /\ mishap' = [mishap EXCEPT !.untold = lost]
         /\ mishap.untold \subseteq lost /\ (Doing(r, "email") => old.now \subseteq lost)
  <2>1. mishap.untold \subseteq Findable BY DEF NoticesInv, NoticesTypeOK, MishapTypes
  <2>2. CASE Doing(r, "email")
    <3>1. mishap' = [mishap EXCEPT !.untold = mishap.untold \cup old.now] BY <2>2 DEF Abort
    <3> QED BY <1>2, <2>1, <3>1
  <2>3. CASE ~Doing(r, "email")
    <3>1. mishap' = [mishap EXCEPT !.untold = mishap.untold] BY <2>3 DEF Abort
    <3> QED BY <2>1, <2>3, <3>1
  <2> QED BY <2>2, <2>3
<1>11. /\ MishapTypes' /\ mishap'.untold = lost /\ mishap'.unlocked = mishap.unlocked
       /\ mishap'.landed = mishap.landed /\ mishap'.crossed = mishap.crossed
  BY <1>10 DEF NoticesInv, NoticesTypeOK, MishapTypes
<1>12. NoticesTypeOK' BY <1>8, <1>9, <1>11 DEF NoticesInv, NoticesTypeOK, ChangeTypes
<1>13. ToldIsStored' BY <1>7, <1>8, <1>9, <1>11 DEF NoticesInv, ToldIsStored, Tells, Doing
<1>14. StoredIsTold'
  <2>1. (\A e \in entered : \E m \in mishap.landed : Row(m) = e)'
    BY <1>9, <1>11 DEF NoticesInv, StoredIsTold
  <2>2. ASSUME NEW m \in mishap'.landed
        PROVE  \/ <<"email", m>> \in told' \/ m \in mishap'.untold
               \/ \E o \in Runs : Doing(o, "email")' /\ m \in reminder'[o].now
    <3>1. \/ <<"email", m>> \in told \/ m \in mishap.untold
          \/ \E o \in Runs : Doing(o, "email") /\ m \in reminder[o].now
      BY <1>11, <2>2 DEF NoticesInv, StoredIsTold
    <3> QED BY <1>8, <1>9, <1>10, <1>11, <3>1 DEF Doing
  <2> QED BY <2>1, <2>2 DEF StoredIsTold
<1>15. RunsFollowLists' BY <1>7, <1>8, <1>11 DEF NoticesInv, RunsFollowLists, Doing
<1>16. ChangesFollow' BY <1>9, <1>11 DEF NoticesInv, ChangesFollow
<1> QED BY <1>12, <1>13, <1>14, <1>15, <1>16 DEF NoticesInv

\* A change reads what is stored ...
LEMMA PatchReadKeeps ==
  ASSUME NoticesInv, NEW p \in Toggles, PatchRead(p)
  PROVE  NoticesInv'
<1>1. PICK c \in Owned, f \in Preferred :
        patch' = [patch EXCEPT ![p] = [at |-> "write", company |-> c, saw |-> prefs[c],
                                       field |-> f, to |-> ~prefs[c][f], overtaken |-> FALSE]]
  <2>1. Switches \subseteq Preferred BY RemindersAssumption DEF Preferred
  <2> QED BY <2>1 DEF PatchRead
<1>2. UNCHANGED <<today, prefs, entered, reminder, told, again, wished, mishap>>
  BY DEF PatchRead
<1>3. ChangeTypes'
  <2>1. prefs[c] \in [Preferred -> BOOLEAN] BY DEF NoticesInv, NoticesTypeOK, ChangeTypes
  <2>2. prefs[c][f] \in BOOLEAN BY <2>1
  <2>3. (~prefs[c][f]) \in BOOLEAN OBVIOUS
  <2>4. [at |-> "write", company |-> c, saw |-> prefs[c], field |-> f,
         to |-> ~prefs[c][f], overtaken |-> FALSE] \in Change
    BY <2>1, <2>3 DEF Change
  <2> QED BY <1>1, <1>2, <2>4 DEF NoticesInv, NoticesTypeOK, ChangeTypes
<1>4. NoticesTypeOK' BY <1>2, <1>3 DEF NoticesInv, NoticesTypeOK, RunTypes, MishapTypes
<1>5. ToldIsStored' BY <1>2 DEF NoticesInv, ToldIsStored, Tells, Doing
<1>6. StoredIsTold' BY <1>2 DEF NoticesInv, StoredIsTold, Doing
<1>7. RunsFollowLists' BY <1>2 DEF NoticesInv, RunsFollowLists, Doing
<1>8. ChangesFollow' BY <1>1, <1>2 DEF NoticesInv, NoticesTypeOK, ChangeTypes, ChangesFollow
<1> QED BY <1>4, <1>5, <1>6, <1>7, <1>8 DEF NoticesInv

\* ... and writes over what others that read it will write.
LEMMA PatchWriteKeeps ==
  ASSUME NoticesInv, NEW p \in Toggles, PatchWrite(p)
  PROVE  NoticesInv'
<1> DEFINE w == patch[p]
<1>1. w \in Change /\ w.at = "write"
  BY DEF PatchWrite, NoticesInv, NoticesTypeOK, ChangeTypes
<1>2. PICK c \in Owned, f \in Preferred, to \in BOOLEAN, saw \in [Preferred -> BOOLEAN] :
        c = w.company /\ f = w.field /\ to = w.to /\ saw = w.saw
  BY <1>1 DEF Change
<1>3. /\ prefs' = [prefs EXCEPT ![c] = [saw EXCEPT ![f] = to]]
      /\ wished' = [wished EXCEPT ![c] = [wished[c] EXCEPT ![f] = to]]
      /\ patch' = [o \in Toggles |->
                     IF o = p THEN [at |-> "rest"]
                     ELSE IF patch[o].at = "write" /\ patch[o].company = c
                     THEN [patch[o] EXCEPT !.overtaken = TRUE] ELSE patch[o]]
  BY <1>2 DEF PatchWrite
<1>4. PICK crossed \in SUBSET Owned :
        /\ mishap' = [mishap EXCEPT !.crossed = crossed]
        /\ mishap.crossed \subseteq crossed /\ (w.overtaken => c \in crossed)
  <2>1. mishap.crossed \subseteq Owned BY DEF NoticesInv, NoticesTypeOK, MishapTypes
  <2>2. CASE w.overtaken
    <3>1. mishap' = [mishap EXCEPT !.crossed = mishap.crossed \cup {c}]
      BY <1>2, <2>2 DEF PatchWrite
    <3> QED BY <2>1, <3>1
  <2>3. CASE ~w.overtaken
    <3>1. mishap' = [mishap EXCEPT !.crossed = mishap.crossed] BY <2>3 DEF PatchWrite
    <3> QED BY <2>1, <2>3, <3>1
  <2> QED BY <2>2, <2>3
<1>5. /\ MishapTypes' /\ mishap'.crossed = crossed /\ mishap'.unlocked = mishap.unlocked
      /\ mishap'.landed = mishap.landed /\ mishap'.untold = mishap.untold
  BY <1>4 DEF NoticesInv, NoticesTypeOK, MishapTypes
<1>6. UNCHANGED <<today, entered, reminder, told, again>> BY DEF PatchWrite
<1>7. ASSUME NEW o \in Toggles
      PROVE  /\ patch'[o] \in Change \cup {[at |-> "rest"]}
             /\ patch'[o].at = "write" /\ ~patch'[o].overtaken =>
                  patch'[o] = patch[o] /\ patch[o].company # c
  <2>1. patch[o] \in Change \cup {[at |-> "rest"]} BY DEF NoticesInv, NoticesTypeOK, ChangeTypes
  <2>2. CASE o = p BY <1>3, <2>2
  <2>3. CASE o # p /\ patch[o].at = "write" /\ patch[o].company = c
    <3>1. patch[o] \in Change BY <2>1, <2>3
    <3>2. patch'[o] = [patch[o] EXCEPT !.overtaken = TRUE] BY <1>3, <2>3
    <3> QED BY <3>1, <3>2 DEF Change
  <2>4. CASE o # p /\ ~(patch[o].at = "write" /\ patch[o].company = c)
    BY <1>3, <2>1, <2>4
  <2> QED BY <2>2, <2>3, <2>4
<1>8. ChangeTypes'
  <2>1. patch' \in [Toggles -> Change \cup {[at |-> "rest"]}] BY <1>3, <1>7
  <2> QED BY <1>2, <1>3, <2>1 DEF NoticesInv, NoticesTypeOK, ChangeTypes
<1>9. NoticesTypeOK' BY <1>5, <1>6, <1>8 DEF NoticesInv, NoticesTypeOK, RunTypes
<1>10. ToldIsStored' BY <1>5, <1>6 DEF NoticesInv, ToldIsStored, Tells, Doing
<1>11. StoredIsTold' BY <1>5, <1>6 DEF NoticesInv, StoredIsTold, Doing
<1>12. RunsFollowLists' BY <1>5, <1>6 DEF NoticesInv, RunsFollowLists, Doing
<1>13. ChangesFollow'
  <2>1. ASSUME NEW o \in Toggles, patch'[o].at = "write", ~patch'[o].overtaken
        PROVE  patch'[o].saw = prefs'[patch'[o].company]
    <3>1. patch'[o] = patch[o] /\ patch[o].company # c BY <1>7, <2>1
    <3>2. patch[o].saw = prefs[patch[o].company] BY <2>1, <3>1 DEF NoticesInv, ChangesFollow
    <3>3. patch[o].company \in Owned
      BY <2>1, <3>1 DEF NoticesInv, NoticesTypeOK, ChangeTypes, Change
    <3> QED BY <1>3, <3>1, <3>2, <3>3 DEF NoticesInv, NoticesTypeOK, ChangeTypes
  <2>2. ASSUME NEW d \in Owned \ mishap'.crossed PROVE prefs'[d] = wished'[d]
    <3>1. prefs[d] = wished[d] BY <1>4, <1>5 DEF NoticesInv, ChangesFollow
    <3>2. CASE d # c BY <1>3, <3>1, <3>2 DEF NoticesInv, NoticesTypeOK, ChangeTypes
    <3>3. CASE d = c
      <4>1. saw = prefs[c] BY <1>1, <1>2, <1>4, <1>5, <3>3 DEF NoticesInv, ChangesFollow
      <4> QED BY <1>3, <3>1, <3>3, <4>1 DEF NoticesInv, NoticesTypeOK, ChangeTypes
    <3> QED BY <3>2, <3>3
  <2> QED BY <2>1, <2>2 DEF ChangesFollow
<1> QED BY <1>9, <1>10, <1>11, <1>12, <1>13 DEF NoticesInv

\* Payments and days change nothing that was found or told.
LEMMA NothingIsTold ==
  ASSUME NoticesInv, today' \in DOMAIN Dates,
         UNCHANGED <<prefs, entered, reminder, patch, told, again, wished, mishap>>
  PROVE  NoticesInv'
<1>1. NoticesTypeOK' BY DEF NoticesInv, NoticesTypeOK, RunTypes, ChangeTypes, MishapTypes
<1>2. ToldIsStored' BY DEF NoticesInv, ToldIsStored, Tells, Doing
<1>3. StoredIsTold' BY DEF NoticesInv, StoredIsTold, Doing
<1>4. RunsFollowLists' BY DEF NoticesInv, RunsFollowLists, Doing
<1>5. ChangesFollow' BY DEF NoticesInv, ChangesFollow
<1> QED BY <1>1, <1>2, <1>3, <1>4, <1>5 DEF NoticesInv

\* The invariant holds at the start ...
LEMMA NoticesStart == NoticesInit => NoticesInv
<1> SUFFICES ASSUME NoticesInit PROVE NoticesInv OBVIOUS
<1>1. /\ today = 1 /\ prefs = [c \in Owned |-> Defaults] /\ wished = prefs
      /\ entered = {} /\ told = {} /\ again = {}
      /\ reminder = [r \in Runs |-> NoRun] /\ patch = [p \in Toggles |-> [at |-> "rest"]]
      /\ mishap = [unlocked |-> {}, untold |-> {}, crossed |-> {}, landed |-> {}]
  BY DEF NoticesInit
<1>2. NoRun \in Run /\ NoRun.at = "rest" /\ NoRun.now = {} BY DEF NoRun, Run, Defaults
<1>3. Defaults \in [Preferred -> BOOLEAN] BY DEF Defaults
<1>4. NoticesTypeOK
  <2>1. today \in DOMAIN Dates BY <1>1, RemindersAssumption
  <2>2. RunTypes BY <1>1, <1>2 DEF RunTypes
  <2>3. ChangeTypes BY <1>1, <1>3 DEF ChangeTypes
  <2>4. MishapTypes BY <1>1 DEF MishapTypes
  <2> QED BY <2>1, <2>2, <2>3, <2>4 DEF NoticesTypeOK
<1>5. ToldIsStored BY <1>1, <1>2 DEF ToldIsStored, Tells
<1>6. StoredIsTold BY <1>1 DEF StoredIsTold
<1>7. RunsFollowLists BY <1>1, <1>2 DEF RunsFollowLists
<1>8. ChangesFollow BY <1>1 DEF ChangesFollow
<1> QED BY <1>4, <1>5, <1>6, <1>7, <1>8 DEF NoticesInv

\* ... and is preserved by every step.
LEMMA NoticesStep == NoticesInv /\ [NoticesNext]_noticeVars => NoticesInv'
<1> SUFFICES ASSUME NoticesInv, [NoticesNext]_noticeVars PROVE NoticesInv' OBVIOUS
<1>1. ASSUME NEW r \in Runs, Start(r) PROVE NoticesInv' BY <1>1, StartKeeps
<1>2. ASSUME NEW r \in Runs, Consider(r) PROVE NoticesInv' BY <1>2, ConsiderKeeps
<1>3. ASSUME NEW r \in Runs, Store(r) PROVE NoticesInv' BY <1>3, StoreKeeps
<1>4. ASSUME NEW r \in Runs, SendMail(r) PROVE NoticesInv' BY <1>4, SendMailKeeps
<1>5. ASSUME NEW r \in Runs, SendTemplate(r) PROVE NoticesInv' BY <1>5, SendTemplateKeeps
<1>6. ASSUME NEW r \in Runs, End(r) PROVE NoticesInv' BY <1>6, EndKeeps
<1>7. ASSUME NEW r \in Runs, Abort(r) PROVE NoticesInv' BY <1>7, AbortKeeps
<1>8. ASSUME NEW p \in Toggles, PatchRead(p) PROVE NoticesInv' BY <1>8, PatchReadKeeps
<1>9. ASSUME NEW p \in Toggles, PatchWrite(p) PROVE NoticesInv' BY <1>9, PatchWriteKeeps
<1>10. ASSUME NEW i \in Debts, Paid(i) PROVE NoticesInv'
  BY <1>10, NothingIsTold DEF Paid, NoticesInv, NoticesTypeOK
<1>11. ASSUME Tomorrow PROVE NoticesInv'
  <2>1. today' \in DOMAIN Dates
    BY <1>11, RemindersAssumption DEF Tomorrow, NoticesInv, NoticesTypeOK
  <2> QED BY <1>11, <2>1, NothingIsTold DEF Tomorrow
<1>12. ASSUME UNCHANGED noticeVars PROVE NoticesInv'
  BY <1>12, NothingIsTold DEF noticeVars, NoticesInv, NoticesTypeOK
<1> QED
  BY <1>1, <1>2, <1>3, <1>4, <1>5, <1>6, <1>7, <1>8, <1>9, <1>10, <1>11, <1>12 DEF NoticesNext

\* For any number of owners, invoices, days, runs, mishaps and changes of preferences:
\* nobody is told twice of one thing on one day unless nothing could be stored, what is
\* stored is mailed or its mail was lost, a run that ends has told of all it found, and
\* a preference is what was asked for last unless changes crossed.
\* (notificationService.notify, jobs/notifications.ts, preferences)
THEOREM RemindersHold == NoticesSpec => []ToldOnce
<1>1. NoticesInv => ToldOnce
  BY DEF NoticesInv, ToldOnce, ToldIsStored, StoredIsTold, RunsFollowLists, ChangesFollow, Doing
<1> QED BY <1>1, NoticesStart, NoticesStep, PTL DEF NoticesSpec

-----------------------------------------------------------------------------
(* Amounts *)

Tax == [Components -> Int]

LEMMA RoundType == \A a, b \in Int : b > 0 => Round(a, b) \in Int
BY DEF Round

\* Rounding to the rupee changes an amount by 49 paise down and 50 up at most.
LEMMA RoundedToRupee == \A a \in Int : Round(a, 100) * 100 - a \in -49..50
<1> SUFFICES ASSUME NEW a \in Int PROVE Round(a, 100) * 100 - a \in -49..50 OBVIOUS
<1>1. PICK q \in Int : q = (2 * a + 100) \div 200 OBVIOUS
<1>2. 200 * q <= 2 * a + 100 /\ 2 * a + 100 < 200 * q + 200 BY <1>1
<1>3. Round(a, 100) = q BY <1>1 DEF Round
<1>4. q * 100 - a \in -49..50 BY <1>2
<1> QED BY <1>3, <1>4

LEMMA LineAmounts ==
  \A l \in LineType : Gross(l) \in Int /\ Discount(l) \in Int /\ Taxable(l) \in Int
<1> SUFFICES ASSUME NEW l \in LineType
             PROVE  Gross(l) \in Int /\ Discount(l) \in Int /\ Taxable(l) \in Int
  OBVIOUS
<1>1. l.qty \in Int /\ l.rate \in Int /\ l.discount \in Int BY DEF LineType
<1>2. Gross(l) \in Int
  <2>1. l.qty * l.rate \in Int BY <1>1
  <2> QED BY <2>1, RoundType DEF Gross
<1>3. Discount(l) \in Int
  <2>1. Gross(l) * l.discount \in Int BY <1>1, <1>2
  <2> QED BY <2>1, RoundType DEF Discount
<1> QED BY <1>2, <1>3 DEF Taxable

LEMMA ComponentsFinite == IsFiniteSet(Components)
<1>1. IsFiniteSet({}) BY FS_EmptySet
<1>2. IsFiniteSet({"cgst"}) BY <1>1, FS_AddElement
<1>3. IsFiniteSet({"cgst", "sgst"}) BY <1>2, FS_AddElement
<1>4. IsFiniteSet({"cgst", "sgst", "igst"}) BY <1>3, FS_AddElement
<1>5. IsFiniteSet({"cgst", "sgst", "igst", "cess"}) BY <1>4, FS_AddElement
<1> QED BY <1>5 DEF Components

\* A tax has four components.
LEMMA TaxOfFour ==
  ASSUME NEW t, \A c \in Components : t[c] \in Int
  PROVE  /\ TaxOf(t) = t["cgst"] + t["sgst"] + t["igst"] + t["cess"]
         /\ TaxOf(t) \in Int
<1>1. \A c \in {"cgst", "sgst", "igst", "cess"} : t[c] \in Int BY DEF Components
<1>2. SumFunctionOnSet(t, {"cgst"}) = t["cgst"] /\ IsFiniteSet({"cgst"}) BY <1>1, SumOfOne
<1>3. /\ SumFunctionOnSet(t, {"cgst"} \cup {"sgst"}) = t["sgst"] + SumFunctionOnSet(t, {"cgst"})
      /\ IsFiniteSet({"cgst"} \cup {"sgst"})
  BY <1>1, <1>2, SumAdd
<1>4. /\ SumFunctionOnSet(t, {"cgst"} \cup {"sgst"} \cup {"igst"})
           = t["igst"] + SumFunctionOnSet(t, {"cgst"} \cup {"sgst"})
      /\ IsFiniteSet({"cgst"} \cup {"sgst"} \cup {"igst"})
  BY <1>1, <1>3, SumAdd
<1>5. SumFunctionOnSet(t, {"cgst"} \cup {"sgst"} \cup {"igst"} \cup {"cess"})
        = t["cess"] + SumFunctionOnSet(t, {"cgst"} \cup {"sgst"} \cup {"igst"})
  BY <1>1, <1>4, SumAdd
<1>6. {"cgst"} \cup {"sgst"} \cup {"igst"} \cup {"cess"} = Components BY DEF Components
<1>7. TaxOf(t) = t["cess"] + (t["igst"] + (t["sgst"] + t["cgst"]))
  BY <1>2, <1>3, <1>4, <1>5, <1>6 DEF TaxOf
<1> QED BY <1>1, <1>7

\* The tax of a line is the same, split in two or not.
LEMMA LineTaxes ==
  ASSUME NEW l \in LineType, NEW inter \in BOOLEAN
  PROVE  /\ LineTax(l, inter) \in Tax
         /\ TaxOf(LineTax(l, inter)) = Round(Taxable(l) * l.gst, 100) + Round(Taxable(l) * l.cess, 100)
<1>1. Taxable(l) \in Int /\ l.gst \in Int /\ l.cess \in Int BY LineAmounts DEF LineType
<1>2. Taxable(l) * l.gst \in Int /\ Taxable(l) * l.cess \in Int BY <1>1
<1>3. PICK tax \in Int, cess \in Int :
        tax = Round(Taxable(l) * l.gst, 100) /\ cess = Round(Taxable(l) * l.cess, 100)
  BY <1>2, RoundType
<1>4. PICK half \in Int : half = tax \div 2 OBVIOUS
<1> DEFINE t == LineTax(l, inter)
<1>5. /\ t = [c \in Components |-> t[c]]
      /\ t["cess"] = cess
      /\ t["cgst"] = IF inter THEN 0 ELSE half
      /\ t["sgst"] = IF inter THEN 0 ELSE tax - half
      /\ t["igst"] = IF inter THEN tax ELSE 0
  BY <1>3, <1>4 DEF LineTax, SplitTax, Components
<1>6. \A c \in Components : t[c] \in Int BY <1>5 DEF Components
<1>7. TaxOf(t) = t["cgst"] + t["sgst"] + t["igst"] + t["cess"]
  <2> HIDE DEF t
  <2> QED BY <1>6, TaxOfFour
<1>8. t \in Tax BY <1>5, <1>6 DEF Tax
<1>9. t["cgst"] + t["sgst"] + t["igst"] + t["cess"] = tax + cess
  <2> HIDE DEF t
  <2>1. CASE inter BY <1>5, <2>1
  <2>2. CASE ~inter BY <1>5, <2>2
  <2> QED BY <2>1, <2>2
<1> QED BY <1>3, <1>7, <1>8, <1>9

\* What lines add up to.
LEMMA LinesAddUp ==
  ASSUME NEW L \in SUBSET LineType, IsFiniteSet(L), NEW inter \in BOOLEAN
  PROVE  /\ TaxableOf(L) \in Int
         /\ TaxTotals(L, inter) \in Tax
         /\ TaxOf(TaxTotals(L, inter)) = SumFunctionOnSet([l \in L |-> TaxOf(LineTax(l, inter))], L)
         /\ TaxOf(TaxTotals(L, inter)) \in Int
<1>1. TaxableOf(L) \in Int
  <2> DEFINE f == [l \in L |-> Taxable(l)]
  <2>1. \A l \in L : f[l] \in Int BY LineAmounts
  <2>2. TaxableOf(L) = SumFunctionOnSet(f, L) BY DEF TaxableOf, SumFunction
  <2> HIDE DEF f
  <2> QED BY <2>1, <2>2, SumType
<1> DEFINE F == [l \in L |-> LineTax(l, inter)]
           col(c) == [l \in L |-> F[l][c]]
           cols == [c \in Components |-> SumFunctionOnSet(col(c), L)]
           rows == [l \in L |-> SumFunctionOnSet(F[l], Components)]
<1>2. \A l \in L : \A c \in Components : F[l][c] \in Int BY LineTaxes DEF Tax
<1>3. TaxTotals(L, inter) = cols
  <2>1. \A c \in Components : SumFunction([l \in L |-> LineTax(l, inter)[c]]) = SumFunctionOnSet(col(c), L)
    BY DEF SumFunction
  <2> QED BY <2>1 DEF TaxTotals
<1>4. \A c \in Components : cols[c] \in Int
  <2> SUFFICES ASSUME NEW c \in Components PROVE SumFunctionOnSet(col(c), L) \in Int OBVIOUS
  <2>1. \A l \in L : col(c)[l] \in Int BY <1>2
  <2> HIDE DEF col
  <2> QED BY <2>1, SumType
<1>5. cols \in Tax
  <2> HIDE DEF col
  <2> QED BY <1>4 DEF Tax
<1>6. SumFunctionOnSet(rows, L) = SumFunctionOnSet(cols, Components)
  <2> HIDE DEF F
  <2> QED BY <1>2, ComponentsFinite, SumSwap
<1>7. rows = [l \in L |-> TaxOf(LineTax(l, inter))] BY DEF TaxOf
<1> HIDE DEF rows, cols
<1>8. TaxOf(cols) = SumFunctionOnSet(cols, Components) BY DEF TaxOf
<1>9. TaxOf(cols) \in Int BY <1>4, TaxOfFour
<1> QED BY <1>1, <1>3, <1>5, <1>6, <1>7, <1>8, <1>9

\* A supply is taxed the same within a state and across a border.
LEMMA SameTax ==
  ASSUME NEW L \in SUBSET LineType, IsFiniteSet(L), NEW inter \in BOOLEAN
  PROVE  TaxOf(TaxTotals(L, inter)) = TaxOf(TaxTotals(L, ~inter))
<1>1. \A l \in L : TaxOf(LineTax(l, inter)) = TaxOf(LineTax(l, ~inter)) BY LineTaxes
<1>2. [l \in L |-> TaxOf(LineTax(l, inter))] = [l \in L |-> TaxOf(LineTax(l, ~inter))] BY <1>1
<1>3. (~inter) \in BOOLEAN OBVIOUS
<1>4. TaxOf(TaxTotals(L, inter)) = SumFunctionOnSet([l \in L |-> TaxOf(LineTax(l, inter))], L)
  BY LinesAddUp
<1>5. TaxOf(TaxTotals(L, ~inter)) = SumFunctionOnSet([l \in L |-> TaxOf(LineTax(l, ~inter))], L)
  BY <1>3, LinesAddUp
<1> QED BY <1>2, <1>4, <1>5

TotalsType == [taxable : Int, tax : Tax, roundOff : Int, grand : Int]

LEMMA TotalsTyped ==
  ASSUME NEW L \in SUBSET LineType, IsFiniteSet(L), NEW inter \in BOOLEAN
  PROVE  /\ Totals(L, inter) \in TotalsType
         /\ Totals(L, inter).tax = TaxTotals(L, inter)
         /\ Totals(L, inter).grand
              = TaxableOf(L) + TaxOf(TaxTotals(L, inter)) + Totals(L, inter).roundOff
         /\ Totals(L, inter).roundOff \in -49..50
<1>1. PICK taxable \in Int, tax \in Tax, sum \in Int :
        taxable = TaxableOf(L) /\ tax = TaxTotals(L, inter) /\ sum = TaxOf(tax)
  BY LinesAddUp
<1>2. PICK raw \in Int : raw = taxable + sum OBVIOUS
<1>3. PICK grand \in Int : grand = Round(raw, 100) * 100
  <2>1. Round(raw, 100) \in Int BY RoundType
  <2> QED BY <2>1
<1>4. grand - raw \in -49..50 BY <1>3, RoundedToRupee
<1>5. Totals(L, inter) = [taxable |-> taxable, tax |-> tax, roundOff |-> grand - raw, grand |-> grand]
  BY <1>1, <1>2, <1>3 DEF Totals
<1>6. Totals(L, inter) \in TotalsType BY <1>5 DEF TotalsType
<1> QED BY <1>1, <1>2, <1>4, <1>5, <1>6

LEMMA BillTotalsTyped ==
  ASSUME NEW L \in SUBSET LineType, IsFiniteSet(L), NEW inter \in BOOLEAN
  PROVE  /\ BillTotals(L, inter) \in TotalsType
         /\ BillTotals(L, inter).grand = TaxableOf(L) + TaxOf(TaxTotals(L, inter))
<1>1. PICK taxable \in Int, tax \in Tax, sum \in Int :
        taxable = TaxableOf(L) /\ tax = TaxTotals(L, inter) /\ sum = TaxOf(tax)
  BY LinesAddUp
<1>2. BillTotals(L, inter) = [taxable |-> taxable, tax |-> tax, roundOff |-> 0, grand |-> taxable + sum]
  BY <1>1 DEF BillTotals
<1> QED BY <1>1, <1>2 DEF TotalsType

-----------------------------------------------------------------------------
(* Entries *)

\* What is on the accounts that are not incomes, and on those that are.
LEMMA BookAddsUp ==
  ASSUME NEW f, \A a \in Accounts : f[a] \in Int, DOMAIN f = Accounts
  PROVE  /\ SumFunction(f) = f["receivable"] + f["payable"] + f["cost"] + f["roundOff"]
                               + f["advance"] + f["bank"] + SumFunctionOnSet(f, Incomes)
         /\ SumFunctionOnSet(f, Incomes) \in Int
<1>1. /\ \A a \in {"receivable", "payable", "cost", "roundOff", "advance", "bank"} : f[a] \in Int
      /\ \A a \in Incomes : f[a] \in Int
  BY DEF Accounts, Fixed
<1>2. PICK A : A = {"receivable"} OBVIOUS
<1>3. PICK B : B = A \cup {"payable"} OBVIOUS
<1>4. PICK C : C = B \cup {"cost"} OBVIOUS
<1>a. SumFunctionOnSet(f, A) = f["receivable"] /\ IsFiniteSet(A) BY <1>1, <1>2, SumOfOne
<1>b. SumFunctionOnSet(f, B) = f["payable"] + SumFunctionOnSet(f, A) /\ IsFiniteSet(B)
  <2>1. "payable" \notin A /\ \A a \in A \cup {"payable"} : f[a] \in Int BY <1>1, <1>2
  <2> QED BY <1>3, <1>a, <2>1, SumAdd
<1>c. SumFunctionOnSet(f, C) = f["cost"] + SumFunctionOnSet(f, B) /\ IsFiniteSet(C)
  <2>1. "cost" \notin B /\ \A a \in B \cup {"cost"} : f[a] \in Int BY <1>1, <1>2, <1>3
  <2> QED BY <1>4, <1>b, <2>1, SumAdd
<1>d. PICK D : D = C \cup {"roundOff"} OBVIOUS
<1>e. PICK E : E = D \cup {"advance"} OBVIOUS
<1>f. SumFunctionOnSet(f, D) = f["roundOff"] + SumFunctionOnSet(f, C) /\ IsFiniteSet(D)
  <2>1. "roundOff" \notin C /\ \A a \in C \cup {"roundOff"} : f[a] \in Int BY <1>1, <1>2, <1>3, <1>4
  <2> QED BY <1>c, <1>d, <2>1, SumAdd
<1>g. SumFunctionOnSet(f, E) = f["advance"] + SumFunctionOnSet(f, D) /\ IsFiniteSet(E)
  <2>1. "advance" \notin D /\ \A a \in D \cup {"advance"} : f[a] \in Int
    BY <1>1, <1>2, <1>3, <1>4, <1>d
  <2> QED BY <1>e, <1>f, <2>1, SumAdd
<1>5. SumFunctionOnSet(f, E \cup {"bank"}) = f["bank"] + SumFunctionOnSet(f, E)
      /\ IsFiniteSet(E \cup {"bank"})
  <2>1. "bank" \notin E /\ \A a \in E \cup {"bank"} : f[a] \in Int
    BY <1>1, <1>2, <1>3, <1>4, <1>d, <1>e
  <2> QED BY <1>g, <2>1, SumAdd
<1>6. E \cup {"bank"} = Fixed BY <1>2, <1>3, <1>4, <1>d, <1>e DEF Fixed
<1>7. IsFiniteSet(Incomes) /\ Fixed \cap Incomes = {} BY InvoicingAssumption
<1>8. \A a \in Fixed \cup Incomes : f[a] \in Int BY <1>1 DEF Fixed
<1>9. SumFunctionOnSet(f, Fixed \cup Incomes) = SumFunctionOnSet(f, Fixed) + SumFunctionOnSet(f, Incomes)
  BY <1>5, <1>6, <1>7, <1>8, SumUnion
<1>10. SumFunction(f) = SumFunctionOnSet(f, Fixed \cup Incomes) BY DEF SumFunction, Accounts
<1>11. SumFunctionOnSet(f, Incomes) \in Int BY <1>1, <1>7, SumType
<1>12. SumFunctionOnSet(f, Fixed)
         = f["bank"] + (f["advance"] + (f["roundOff"] + (f["cost"] + (f["payable"] + f["receivable"]))))
  BY <1>a, <1>b, <1>c, <1>f, <1>g, <1>5, <1>6
<1> QED BY <1>1, <1>9, <1>10, <1>11, <1>12

EntryType == [book : [Accounts -> Int], out : Tax, itc : Tax]

LEMMA NoTaxIsNone == NoTax \in Tax /\ TaxOf(NoTax) = 0
<1>1. NoTax \in Tax BY DEF NoTax, Tax
<1>2. \A c \in Components : NoTax[c] = 0 BY DEF NoTax
<1>3. TaxOf(NoTax) = 0 BY <1>2, ComponentsFinite, SumZero DEF TaxOf
<1> QED BY <1>1, <1>3

LEMMA NegatedTax ==
  ASSUME NEW t \in Tax
  PROVE  /\ [c \in Components |-> 0 - t[c]] \in Tax
         /\ TaxOf([c \in Components |-> 0 - t[c]]) = 0 - TaxOf(t)
<1>1. PICK u : u = [c \in Components |-> 0 - t[c]] OBVIOUS
<1>2. u \in Tax /\ \A c \in Components : t[c] \in Int /\ u[c] = 0 - t[c] BY <1>1 DEF Tax
<1>3. SumFunctionOnSet(u, Components) = 0 - SumFunctionOnSet(t, Components)
  BY <1>2, ComponentsFinite, SumNegated
<1> QED BY <1>1, <1>2, <1>3 DEF TaxOf

\* The income accounts share what the lines are worth.
LEMMA IncomesShare ==
  ASSUME NEW L \in SUBSET LineType, IsFiniteSet(L)
  PROVE  /\ \A a \in Incomes : Value(L, a) \in Int
         /\ SumFunctionOnSet([a \in Incomes |-> Value(L, a)], Incomes) = TaxableOf(L)
<1> DEFINE f == [l \in L |-> Taxable(l)]
           key == [l \in L |-> l.account]
           groups == [a \in Incomes |-> SumFunctionOnSet(f, {l \in L : key[l] = a})]
<1>1. IsFiniteSet(Incomes) BY InvoicingAssumption
<1>2. \A l \in L : f[l] \in Int /\ key[l] \in Incomes BY LineAmounts DEF LineType
<1>3. SumFunctionOnSet(f, L) = SumFunctionOnSet(groups, Incomes)
  <2> HIDE DEF f, key
  <2> QED BY <1>1, <1>2, SumOfGroups
<1>4. ASSUME NEW a \in Incomes PROVE Value(L, a) = groups[a] /\ Value(L, a) \in Int
  <2>1. PICK P, g : P = {l \in L : l.account = a} /\ g = [l \in P |-> Taxable(l)] OBVIOUS
  <2>2. P \in SUBSET L /\ IsFiniteSet(P) BY <2>1, FS_Subset
  <2>3. \A l \in P : f[l] = g[l] BY <2>1, <2>2
  <2>4. Value(L, a) = SumFunctionOnSet(g, P) BY <2>1 DEF Value, TaxableOf, SumFunction
  <2>5. groups[a] = SumFunctionOnSet(f, P) BY <2>1
  <2>6. \A l \in P : g[l] \in Int BY <1>2, <2>2, <2>3
  <2> HIDE DEF f, groups
  <2>7. SumFunctionOnSet(f, P) = SumFunctionOnSet(g, P) BY <2>2, <2>3, SumSame
  <2>8. SumFunctionOnSet(g, P) \in Int BY <2>2, <2>6, SumType
  <2> QED BY <2>4, <2>5, <2>7, <2>8
<1>5. groups = [a \in Incomes |-> Value(L, a)] BY <1>4
<1>6. TaxableOf(L) = SumFunctionOnSet(f, L) BY DEF TaxableOf, SumFunction
<1> QED BY <1>3, <1>4, <1>5, <1>6

\* "I2 by design": the entry of an invoice balances.
LEMMA InvoiceBalances ==
  ASSUME NEW L \in SUBSET LineType, IsFiniteSet(L), NEW inter \in BOOLEAN,
         NEW i, i.lines = L, i.totals = Totals(L, inter)
  PROVE  Balanced(InvoiceEntry(i)) /\ InvoiceEntry(i) \in EntryType
<1>1. PICK t \in TotalsType : t = i.totals BY TotalsTyped
<1>2. /\ t.grand \in Int /\ t.roundOff \in Int /\ t.tax \in Tax
      /\ t.grand = TaxableOf(L) + TaxOf(t.tax) + t.roundOff
  BY <1>1, TotalsTyped DEF TotalsType
<1>3. PICK e : e = InvoiceEntry(i) OBVIOUS
<1>4. PICK b : b = [a \in Accounts |-> CASE a = "receivable" -> t.grand
                                  [] a = "roundOff"   -> 0 - t.roundOff
                                  [] a \in Incomes    -> 0 - Value(L, a)
                                  [] OTHER            -> 0]
  OBVIOUS
<1>5. PICK out : out = [c \in Components |-> 0 - t.tax[c]] OBVIOUS
<1>6. e = [book |-> b, out |-> out, itc |-> NoTax]
  BY <1>1, <1>3, <1>4, <1>5 DEF InvoiceEntry
<1>7. out \in Tax /\ TaxOf(out) = 0 - TaxOf(t.tax) BY <1>2, <1>5, NegatedTax
<1>8. \A a \in Incomes : a \notin {"receivable", "payable", "cost", "roundOff", "advance", "bank"}
  BY InvoicingAssumption DEF Fixed
<1>9. /\ b["receivable"] = t.grand /\ b["roundOff"] = 0 - t.roundOff
      /\ b["payable"] = 0 /\ b["cost"] = 0 /\ b["advance"] = 0 /\ b["bank"] = 0
      /\ \A a \in Incomes : b[a] = 0 - Value(L, a)
      /\ DOMAIN b = Accounts
  BY <1>4, <1>8 DEF Accounts, Fixed
<1>10. \A a \in Accounts : b[a] \in Int
  <2>1. ASSUME NEW a \in Incomes PROVE b[a] \in Int
    <3>1. Value(L, a) \in Int BY IncomesShare
    <3> QED BY <1>9, <3>1
  <2>2. /\ b["receivable"] \in Int /\ b["roundOff"] \in Int /\ b["payable"] \in Int
        /\ b["cost"] \in Int /\ b["advance"] \in Int /\ b["bank"] \in Int
    BY <1>2, <1>9
  <2> QED BY <2>1, <2>2 DEF Accounts, Fixed
<1>11. /\ SumFunction(b) = b["receivable"] + b["payable"] + b["cost"] + b["roundOff"]
                             + b["advance"] + b["bank"] + SumFunctionOnSet(b, Incomes)
       /\ SumFunctionOnSet(b, Incomes) \in Int
  BY <1>9, <1>10, BookAddsUp
<1>12. SumFunctionOnSet(b, Incomes) = 0 - TaxableOf(L)
  <2> DEFINE v == [a \in Incomes |-> Value(L, a)]
  <2>1. \A a \in Incomes : v[a] \in Int /\ b[a] = 0 - v[a] BY <1>9, IncomesShare
  <2>2. SumFunctionOnSet(v, Incomes) = TaxableOf(L) BY IncomesShare
  <2> HIDE DEF v
  <2>3. IsFiniteSet(Incomes) BY InvoicingAssumption
  <2>4. SumFunctionOnSet(b, Incomes) = 0 - SumFunctionOnSet(v, Incomes) BY <2>1, <2>3, SumNegated
  <2> QED BY <2>2, <2>4
<1>13. TaxableOf(L) \in Int /\ TaxOf(t.tax) \in Int
  <2>1. \A c \in Components : t.tax[c] \in Int BY <1>2 DEF Tax
  <2>2. TaxOf(t.tax) \in Int BY <2>1, TaxOfFour
  <2> QED BY <2>2, LinesAddUp
<1>14. PICK x \in Int, y \in Int, r \in Int, g \in Int :
         x = TaxableOf(L) /\ y = TaxOf(t.tax) /\ r = t.roundOff /\ g = t.grand
  BY <1>2, <1>13
<1>15. SumFunction(b) = g + 0 + 0 + (0 - r) + 0 + 0 + (0 - x)
  BY <1>9, <1>11, <1>12, <1>14
<1>16. SumFunction(b) + TaxOf(out) + TaxOf(NoTax) = 0
  <2>1. g = x + y + r BY <1>2, <1>14
  <2>2. TaxOf(out) = 0 - y /\ TaxOf(NoTax) = 0 BY <1>7, <1>14, NoTaxIsNone
  <2> QED BY <1>15, <2>1, <2>2
<1>17. Balanced(e) BY <1>6, <1>16 DEF Balanced
<1>18. b \in [Accounts -> Int] BY <1>4, <1>10
<1>19. e \in EntryType BY <1>6, <1>7, <1>18, NoTaxIsNone DEF EntryType
<1> QED BY <1>3, <1>17, <1>19

\* So does that of a bill, credit or not.
LEMMA BillBalances ==
  ASSUME NEW L \in SUBSET LineType, IsFiniteSet(L), NEW inter \in BOOLEAN,
         NEW x, x.lines = L, x.inter = inter, x.totals = BillTotals(L, inter)
  PROVE  Balanced(BillEntry(x)) /\ BillEntry(x) \in EntryType
<1> DEFINE E == Eligible(L)
           taxed == [l \in L |-> TaxOf(LineTax(l, inter))]
           worth == [l \in L |-> Taxable(l)]
           costs == [l \in L |-> LineCost(l, inter)]
           given == [l \in L |-> IF l \in E THEN TaxOf(LineTax(l, inter)) ELSE 0]
           all == [l \in L |-> costs[l] + given[l]]
<1>1. E \in SUBSET L /\ E \in SUBSET LineType /\ IsFiniteSet(E) BY FS_Subset DEF Eligible
<1>2. /\ \A l \in L : Taxable(l) \in Int /\ TaxOf(LineTax(l, inter)) \in Int
  <2> SUFFICES ASSUME NEW l \in L PROVE Taxable(l) \in Int /\ TaxOf(LineTax(l, inter)) \in Int
    OBVIOUS
  <2>1. LineTax(l, inter) \in Tax BY LineTaxes
  <2>2. \A c \in Components : LineTax(l, inter)[c] \in Int BY <2>1 DEF Tax
  <2> QED BY <2>2, TaxOfFour, LineAmounts
<1>3. \A l \in L : l \in E <=> l.itc BY DEF Eligible
<1>4. \A l \in L : /\ taxed[l] \in Int /\ worth[l] \in Int /\ costs[l] \in Int /\ given[l] \in Int
                   /\ all[l] = costs[l] + given[l] /\ all[l] = worth[l] + taxed[l]
                   /\ given[l] = IF l \in E THEN taxed[l] ELSE 0
  BY <1>2, <1>3 DEF LineCost
<1>5. TaxOf(TaxTotals(L, inter)) = SumFunctionOnSet(taxed, L) BY LinesAddUp
<1>6. TaxOf(TaxTotals(E, inter)) = SumFunctionOnSet(given, L)
  <2>1. PICK g : g = [l \in E |-> TaxOf(LineTax(l, inter))] OBVIOUS
  <2>2. TaxOf(TaxTotals(E, inter)) = SumFunctionOnSet(g, E) BY <1>1, <2>1, LinesAddUp
  <2>3. /\ \A l \in E : g[l] \in Int
        /\ \A l \in L : given[l] = IF l \in E THEN g[l] ELSE 0
    BY <1>1, <1>2, <2>1
  <2> HIDE DEF given, E
  <2>4. SumFunctionOnSet(g, E) = SumFunctionOnSet(given, L)
    BY <1>1, <2>3, SumOfPart
  <2> QED BY <2>2, <2>4
<1>7. TaxableOf(L) = SumFunctionOnSet(worth, L) BY DEF TaxableOf, SumFunction
<1>8. SumFunction([l \in L |-> LineCost(l, inter)]) = SumFunctionOnSet(costs, L) BY DEF SumFunction
<1>9. /\ SumFunctionOnSet(all, L) = SumFunctionOnSet(costs, L) + SumFunctionOnSet(given, L)
      /\ SumFunctionOnSet(all, L) = SumFunctionOnSet(worth, L) + SumFunctionOnSet(taxed, L)
      /\ SumFunctionOnSet(costs, L) \in Int /\ SumFunctionOnSet(given, L) \in Int
      /\ SumFunctionOnSet(worth, L) \in Int /\ SumFunctionOnSet(taxed, L) \in Int
  <2> HIDE DEF taxed, worth, costs, given, all
  <2>1. SumFunctionOnSet(all, L) = SumFunctionOnSet(costs, L) + SumFunctionOnSet(given, L)
    BY <1>4, SumPlus
  <2>2. SumFunctionOnSet(all, L) = SumFunctionOnSet(worth, L) + SumFunctionOnSet(taxed, L)
    BY <1>4, SumPlus
  <2>3. SumFunctionOnSet(costs, L) \in Int BY <1>4, SumType
  <2>4. SumFunctionOnSet(given, L) \in Int BY <1>4, SumType
  <2>5. SumFunctionOnSet(worth, L) \in Int BY <1>4, SumType
  <2>6. SumFunctionOnSet(taxed, L) \in Int BY <1>4, SumType
  <2> QED BY <2>1, <2>2, <2>3, <2>4, <2>5, <2>6
<1>10. PICK cost \in Int, credit \in Int, net \in Int, due \in Int :
         /\ cost = SumFunction([l \in L |-> LineCost(l, inter)])
         /\ credit = TaxOf(TaxTotals(E, inter))
         /\ net = TaxableOf(L) /\ due = TaxOf(TaxTotals(L, inter))
         /\ cost + credit = net + due
  <2> HIDE DEF taxed, worth, costs, given, all
  <2> QED BY <1>5, <1>6, <1>7, <1>8, <1>9
<1>11. x.totals.grand = net + due BY <1>10, BillTotalsTyped
<1>12. PICK b : b = [a \in Accounts |-> CASE a = "cost"    -> cost
                                  [] a = "payable" -> 0 - (net + due)
                                  [] OTHER         -> 0]
  OBVIOUS
<1>13. PICK e : e = BillEntry(x) OBVIOUS
<1>14. e = [book |-> b, out |-> NoTax, itc |-> TaxTotals(E, inter)]
  <2> HIDE DEF E
  <2>1. Eligible(x.lines) = E BY DEF E
  <2>2. [a \in Accounts |-> CASE a = "cost"    -> SumFunction([l \in x.lines |-> LineCost(l, x.inter)])
                              [] a = "payable" -> 0 - x.totals.grand
                              [] OTHER         -> 0] = b
    BY <1>10, <1>11, <1>12
  <2> QED BY <1>13, <2>1, <2>2 DEF BillEntry
<1>15. \A a \in Incomes : a \notin {"receivable", "payable", "cost", "roundOff", "advance", "bank"}
  BY InvoicingAssumption DEF Fixed
<1>16. /\ b["receivable"] = 0 /\ b["roundOff"] = 0 /\ b["advance"] = 0 /\ b["bank"] = 0
       /\ b["payable"] = 0 - (net + due) /\ b["cost"] = cost
       /\ \A a \in Incomes : b[a] = 0
       /\ DOMAIN b = Accounts
  BY <1>12, <1>15 DEF Accounts, Fixed
<1>17. \A a \in Accounts : b[a] \in Int
  BY <1>16 DEF Accounts, Fixed
<1>18. SumFunction(b) = b["receivable"] + b["payable"] + b["cost"] + b["roundOff"]
                          + b["advance"] + b["bank"] + SumFunctionOnSet(b, Incomes)
  BY <1>16, <1>17, BookAddsUp
<1>19. SumFunctionOnSet(b, Incomes) = 0
  <2>1. IsFiniteSet(Incomes) BY InvoicingAssumption
  <2> QED BY <1>16, <2>1, SumZero
<1>20. SumFunction(b) + TaxOf(NoTax) + TaxOf(TaxTotals(E, inter)) = 0
  <2>1. TaxOf(NoTax) = 0 BY NoTaxIsNone
  <2>2. SumFunction(b) = 0 + (0 - (net + due)) + cost + 0 + 0 + 0 + 0 BY <1>16, <1>18, <1>19
  <2> QED BY <1>10, <2>1, <2>2
<1>21. Balanced(e) BY <1>14, <1>20 DEF Balanced
<1>22. TaxTotals(E, inter) \in Tax BY <1>1, LinesAddUp
<1>23. b \in [Accounts -> Int] BY <1>12, <1>17
<1> HIDE DEF E
<1>24. e \in EntryType BY <1>14, <1>22, <1>23, NoTaxIsNone DEF EntryType
<1> QED BY <1>13, <1>21, <1>24

-----------------------------------------------------------------------------
(* The invariant *)

InvoiceType == [status : {"absent", "draft", "cancelled"} \cup Standing, paid : Nat,
                party : Parties \cup {NoParty}, snapshot : Parties \cup {NoParty}, month : Nat,
                pos : States \cup {NoParty}, lines : SUBSET LineType, inter : BOOLEAN,
                totals : TotalsType]

BillType == [status : {"absent", "draft", "approved", "cancelled"}, month : Nat,
             lines : SUBSET LineType, inter : BOOLEAN, totals : TotalsType]

\* An invoice is worth what its lines are, at its place of supply.
InvoiceFits(v) ==
  /\ v \in InvoiceType /\ IsFiniteSet(v.lines)
  /\ v.status # "absent" =>
       /\ v.pos \in States
       /\ v.totals = Totals(v.lines, v.inter)
       /\ v.inter = InterState(HomeState, v.pos)

BillFits(v) ==
  /\ v \in BillType /\ IsFiniteSet(v.lines)
  /\ v.status # "absent" => v.totals = BillTotals(v.lines, v.inter)

\* What an edit is about to write is a draft with totals of its own.
EditFits(v) ==
  v = Resting \/ (/\ v \in [on : SalesInvoices, write : InvoiceType]
                  /\ InvoiceFits(v.write) /\ v.write.status = "draft")

Documents   == SalesInvoices \cup Bills
EntryOf(d)  == IF d \in SalesInvoices THEN InvoiceEntry(invoice[d]) ELSE BillEntry(bill[d])
DateOf(d)   == IF d \in SalesInvoices THEN invoice[d].month ELSE bill[d].month
InForce(d)  == IF d \in SalesInvoices THEN invoice[d].status \in Standing ELSE bill[d].status = "approved"
Undone(d)   == IF d \in SalesInvoices THEN invoice[d].status = "cancelled" ELSE bill[d].status = "cancelled"
Posting(d)  == [lines |-> EntryOf(d), month |-> DateOf(d), doc |-> d, part |-> 0, undoes |-> 0,
                by |-> "document"]
Undoing(d, m) == [lines |-> Negated(EntryOf(d)), month |-> m, doc |-> d, part |-> 0, undoes |-> 1,
                  by |-> "document"]

\* The entries documents posted, and those payments did.
Own == {k \in journal : k.by = "document"}
Paying(m) == {k \in journal : k.by = "payment" /\ k.month = m}

\* Documents have in the journal an entry of each that was issued, one more of each
\* that was cancelled, and nothing else.
JournalFits ==
  /\ IsFiniteSet(Own)
  /\ \A k \in Own :
       /\ k.doc \in Documents
       /\ \/ k = Posting(k.doc) /\ (InForce(k.doc) \/ Undone(k.doc))
          \/ Undone(k.doc) /\ \E m \in Nat : k = Undoing(k.doc, m)
  /\ \A d \in Documents : InForce(d) \/ Undone(d) => Posting(d) \in Own
  /\ \A d \in Documents : Undone(d) => \E m \in Nat : Undoing(d, m) \in Own
  /\ \A k, n \in Own : k.doc = n.doc /\ k.undoes = n.undoes => k = n

DocumentsFit ==
  /\ invoice \in [SalesInvoices -> InvoiceType] /\ \A i \in SalesInvoices : InvoiceFits(invoice[i])
  /\ bill \in [Bills -> BillType] /\ \A b \in Bills : BillFits(bill[b])
  /\ DOMAIN editor = Editors /\ \A e \in Editors : EditFits(editor[e])
  /\ month \in Nat

UseType == [part : Nat, month : Nat]

PaymentType == [month : Nat, pool : Nat, left : Nat, tax : Tax, uses : Seq(UseType)]

\* Who made which entries: documents and payments their own, and hands only reversals.
EntryFits(k) ==
  /\ k = [lines |-> k.lines, month |-> k.month, doc |-> k.doc, part |-> k.part, undoes |-> k.undoes,
          by |-> k.by]
  /\ k.by \in {"document", "payment", "hand"} /\ k.undoes \in Nat
  /\ k.by = "hand" => k.undoes # 0
  /\ k.by = "payment" =>
       /\ k.doc \in Receipts /\ payment[k.doc] # NoPayment
       /\ k.part <= Len(payment[k.doc].uses) /\ k.part \in Nat
       /\ k.lines.out \in Tax /\ k.lines.itc = NoTax

\* What payments posted to the tax accounts is what their records say.
Out(c) == [k \in journal |-> k.lines.out[c]]

PaymentsFit ==
  /\ payment \in [Receipts -> PaymentType]
  /\ IsFiniteSet(journal) /\ \A k \in journal : EntryFits(k)
  /\ \A m \in Months, c \in Components :
       SumFunctionOnSet(Out(c), Paying(m)) = 0 - OnAdvances(m, c)

InvoicingInv == DocumentsFit /\ JournalFits /\ PaymentsFit

-----------------------------------------------------------------------------
(* Payments *)

LEMMA ReversalIs ==
  ASSUME NEW k, EntryFits(k), NEW by
  PROVE  Reversal(k, by) = [lines |-> Negated(k.lines), month |-> month, doc |-> k.doc, part |-> k.part,
                            undoes |-> k.undoes + 1, by |-> by]
<1>1. PICK a, b, c, d, e, f :
        k = [lines |-> a, month |-> b, doc |-> c, part |-> d, undoes |-> e, by |-> f]
  BY DEF EntryFits
<1>2. PICK n, u : n = Negated(a) /\ u = e + 1 OBVIOUS
<1>3. Reversal(k, by) = [k EXCEPT !.lines = n, !.month = month, !.undoes = u, !.by = by]
  BY <1>1, <1>2 DEF Reversal
<1>4. PICK k1 : k1 = [k EXCEPT !.lines = n] OBVIOUS
<1>5. k1 = [lines |-> n, month |-> b, doc |-> c, part |-> d, undoes |-> e, by |-> f] BY <1>1, <1>4
<1>6. PICK k2 : k2 = [k1 EXCEPT !.month = month] OBVIOUS
<1>7. k2 = [lines |-> n, month |-> month, doc |-> c, part |-> d, undoes |-> e, by |-> f] BY <1>5, <1>6
<1>8. PICK k3 : k3 = [k2 EXCEPT !.undoes = u] OBVIOUS
<1>9. k3 = [lines |-> n, month |-> month, doc |-> c, part |-> d, undoes |-> u, by |-> f] BY <1>7, <1>8
<1>10. PICK k4 : k4 = [k3 EXCEPT !.by = by] OBVIOUS
<1>11. k4 = [lines |-> n, month |-> month, doc |-> c, part |-> d, undoes |-> u, by |-> by] BY <1>9, <1>10
<1>12. Reversal(k, by) = k4 BY <1>3, <1>4, <1>6, <1>8, <1>10
<1> QED BY <1>1, <1>2, <1>11, <1>12

LEMMA AdvanceTaxType ==
  ASSUME NEW advance \in Nat, NEW rate \in Nat, NEW inter \in BOOLEAN
  PROVE  AdvanceTax(advance, rate, inter) \in Tax
<1>1. PICK net \in Int : net = Round(advance * 100, 100 + rate)
  <2>1. advance * 100 \in Int /\ 100 + rate \in Int /\ 100 + rate > 0 OBVIOUS
  <2> QED BY <2>1, RoundType
<1>2. PICK tax \in Int : tax = Round(net * rate, 100)
  <2>1. net * rate \in Int OBVIOUS
  <2> QED BY <2>1, RoundType
<1>3. PICK half \in Int : half = tax \div 2 OBVIOUS
<1>4. PICK split : split = SplitTax(net, rate, inter) OBVIOUS
<1>5. split = IF inter THEN [cgst |-> 0, sgst |-> 0, igst |-> tax]
              ELSE [cgst |-> half, sgst |-> tax - half, igst |-> 0]
  BY <1>2, <1>3, <1>4 DEF SplitTax
<1>6. split["cgst"] \in Int /\ split["sgst"] \in Int /\ split["igst"] \in Int
  <2>1. CASE inter BY <1>5, <2>1
  <2>2. CASE ~inter BY <1>5, <2>2
  <2> QED BY <2>1, <2>2
<1>7. AdvanceTax(advance, rate, inter) = [c \in Components |-> IF c = "cess" THEN 0 ELSE split[c]]
  BY <1>1, <1>4 DEF AdvanceTax
<1>8. \A c \in Components : (IF c = "cess" THEN 0 ELSE split[c]) \in Int BY <1>6 DEF Components
<1> QED BY <1>7, <1>8 DEF Tax

LEMMA ShareType ==
  ASSUME NEW v \in PaymentType, NEW part \in Nat
  PROVE  ShareOf(v, part) \in Tax
<1> SUFFICES ASSUME NEW c \in Components
             PROVE  (IF v.pool = 0 THEN 0 ELSE Round(v.tax[c] * part, v.pool)) \in Int
  BY DEF ShareOf, Tax
<1>1. PICK x \in Int : x = v.tax[c] BY DEF PaymentType, Tax
<1>2. x * part \in Int OBVIOUS
<1>3. v.pool \in Nat BY DEF PaymentType
<1> QED BY <1>1, <1>2, <1>3, RoundType

\* What is released, and what is held, are integers.
LEMMA HeldIs ==
  ASSUME NEW v \in PaymentType, NEW m, NEW c \in Components
  PROVE  /\ IsFiniteSet(UsedIn(v, m)) /\ \A n \in UsedIn(v, m) : ShareOf(v, v.uses[n].part)[c] \in Int
         /\ Released(v, m, c) \in Int /\ HeldOn(v, m, c) \in Int
<1>1. PICK u : u = v.uses OBVIOUS
<1>2. u \in Seq(UseType) BY <1>1 DEF PaymentType
<1>3. PICK n \in Nat : n = Len(u) /\ DOMAIN u = 1..n /\ \A j \in 1..n : u[j] \in UseType BY <1>2
<1>4. IsFiniteSet(1..n) BY <1>3, FS_Interval
<1>5. UsedIn(v, m) \subseteq 1..n BY <1>1, <1>3 DEF UsedIn
<1>6. IsFiniteSet(UsedIn(v, m)) BY <1>4, <1>5, FS_Subset
<1>7. \A j \in UsedIn(v, m) : v.uses[j].part \in Nat BY <1>1, <1>3, <1>5 DEF UseType
<1>8. \A j \in UsedIn(v, m) : ShareOf(v, v.uses[j].part)[c] \in Int BY <1>7, ShareType DEF Tax
<1>9. PICK f : f = [j \in UsedIn(v, m) |-> ShareOf(v, v.uses[j].part)[c]] OBVIOUS
<1>10. Released(v, m, c) = SumFunctionOnSet(f, UsedIn(v, m)) BY <1>9 DEF Released, SumFunction
<1>11. \A j \in UsedIn(v, m) : f[j] \in Int BY <1>8, <1>9
<1>12. Released(v, m, c) \in Int BY <1>6, <1>10, <1>11, SumType
<1>13. v.tax[c] \in Int BY DEF PaymentType, Tax
<1>14. HeldOn(v, m, c) \in Int BY <1>12, <1>13 DEF HeldOn
<1> QED BY <1>6, <1>8, <1>12, <1>14

\* Of a payment not used yet, all is held.
LEMMA NotUsed ==
  ASSUME NEW v \in PaymentType, v.uses = <<>>, NEW m, NEW c \in Components
  PROVE  HeldOn(v, m, c) = IF v.month = m THEN v.tax[c] ELSE 0
<1>1. UsedIn(v, m) = {} BY DEF UsedIn
<1>2. Released(v, m, c) = 0 BY <1>1, SumEmpty DEF Released, SumFunction
<1>3. v.tax[c] \in Int BY DEF PaymentType, Tax
<1> QED BY <1>2, <1>3 DEF HeldOn

LEMMA NoPaymentIs ==
  /\ NoPayment \in PaymentType
  /\ \A m : \A c \in Components : HeldOn(NoPayment, m, c) = 0
<1>1. NoPayment \in PaymentType BY NoTaxIsNone DEF NoPayment, PaymentType
<1>2. NoPayment.uses = <<>> /\ NoPayment.tax = NoTax BY DEF NoPayment
<1>3. \A c \in Components : NoTax[c] = 0 BY DEF NoTax
<1> QED BY <1>1, <1>2, <1>3, NotUsed

\* A use of a payment releases its share of the tax.
AfterUse(v, part, date) ==
  [[v EXCEPT !.left = v.left - part] EXCEPT !.uses = Append(v.uses, [part |-> part, month |-> date])]

LEMMA UsedOnce ==
  ASSUME NEW v \in PaymentType, NEW part \in Nat, part <= v.left, NEW date \in Nat, NEW w,
         w = AfterUse(v, part, date), NEW m, NEW c \in Components
  PROVE  /\ w \in PaymentType /\ w # NoPayment /\ Len(w.uses) = Len(v.uses) + 1
         /\ HeldOn(w, m, c) = HeldOn(v, m, c) - IF date = m THEN ShareOf(v, part)[c] ELSE 0
<1>1. PICK u, use : u = v.uses /\ use = [part |-> part, month |-> date] OBVIOUS
<1>2. u \in Seq(UseType) /\ use \in UseType BY <1>1 DEF PaymentType, UseType
<1>3. PICK n \in Nat : n = Len(u) /\ DOMAIN u = 1..n BY <1>2
<1>4. PICK q : q = Append(u, use) OBVIOUS
<1>5. /\ q \in Seq(UseType) /\ Len(q) = n + 1 /\ DOMAIN q = 1..(n + 1) /\ q[n + 1] = use
      /\ \A j \in 1..n : q[j] = u[j]
  BY <1>2, <1>3, <1>4
<1>6. PICK x : x = [v EXCEPT !.left = v.left - part] OBVIOUS
<1>7. /\ x \in PaymentType /\ x.month = v.month /\ x.pool = v.pool /\ x.tax = v.tax
  <2>1. PICK left \in Nat : left = v.left - part BY DEF PaymentType
  <2>2. x = [v EXCEPT !.left = left] BY <1>6, <2>1
  <2> QED BY <2>2 DEF PaymentType
<1>8. w = [x EXCEPT !.uses = q] BY <1>1, <1>4, <1>6 DEF AfterUse
<1>9. /\ w \in PaymentType /\ w.month = v.month /\ w.pool = v.pool /\ w.tax = v.tax /\ w.uses = q
  BY <1>5, <1>7, <1>8 DEF PaymentType
<1>10. w # NoPayment /\ Len(w.uses) = Len(v.uses) + 1
  <2>1. NoPayment.uses = <<>> BY DEF NoPayment
  <2>2. q # <<>> BY <1>5
  <2> QED BY <1>1, <1>3, <1>5, <1>9, <2>1, <2>2
<1>11. \A a : ShareOf(w, a) = ShareOf(v, a) BY <1>9 DEF ShareOf
<1>12. PICK old, new, share : old = UsedIn(v, m) /\ new = UsedIn(w, m) /\ share = ShareOf(v, part)[c]
  OBVIOUS
<1>13. old = {j \in 1..n : u[j].month = m} BY <1>1, <1>3, <1>12 DEF UsedIn
<1>14. new = {j \in 1..(n + 1) : q[j].month = m} BY <1>5, <1>9, <1>12 DEF UsedIn
<1>15. use.month = date /\ use.part = part BY <1>1
<1>16. new = IF date = m THEN old \cup {n + 1} ELSE old
  <2>1. \A j : j \in 1..(n + 1) <=> j \in 1..n \/ j = n + 1 OBVIOUS
  <2>2. n + 1 \notin 1..n OBVIOUS
  <2> QED BY <1>5, <1>13, <1>14, <1>15, <2>1, <2>2
<1>25. PICK f, g : /\ f = [j \in old |-> ShareOf(v, v.uses[j].part)[c]]
                   /\ g = [j \in new |-> ShareOf(w, w.uses[j].part)[c]]
  OBVIOUS
<1>17. IsFiniteSet(old) /\ \A j \in old : f[j] \in Int BY <1>12, <1>25, HeldIs
<1>18. \A j \in old : g[j] = f[j]
  <2> SUFFICES ASSUME NEW j \in old PROVE g[j] = f[j] OBVIOUS
  <2>1. j \in new /\ j \in 1..n BY <1>13, <1>16
  <2>2. w.uses[j] = v.uses[j] BY <1>1, <1>5, <1>9, <2>1
  <2>3. f[j] = ShareOf(v, v.uses[j].part)[c] /\ g[j] = ShareOf(w, w.uses[j].part)[c] BY <1>25, <2>1
  <2> QED BY <1>11, <2>2, <2>3
<1>19. share \in Int BY <1>12, ShareType DEF Tax
<1>20. Released(v, m, c) = SumFunctionOnSet(f, old) /\ Released(w, m, c) = SumFunctionOnSet(g, new)
  BY <1>12, <1>25 DEF Released, SumFunction
<1>21. date = m => g[n + 1] = share /\ n + 1 \notin old
  <2> SUFFICES ASSUME date = m PROVE g[n + 1] = share /\ n + 1 \notin old OBVIOUS
  <2>1. n + 1 \in new BY <1>16
  <2>2. w.uses[n + 1] = use BY <1>5, <1>9
  <2>3. g[n + 1] = ShareOf(w, part)[c] BY <1>15, <1>25, <2>1, <2>2
  <2>4. n + 1 \notin 1..n OBVIOUS
  <2> QED BY <1>11, <1>12, <1>13, <2>3, <2>4
<1>22. SumFunctionOnSet(g, old) = SumFunctionOnSet(f, old) BY <1>17, <1>18, SumSame
<1>23. Released(w, m, c) = Released(v, m, c) + IF date = m THEN share ELSE 0
  <2>1. Released(v, m, c) \in Int BY HeldIs
  <2>2. CASE date = m
    <3>1. \A j \in old \cup {n + 1} : g[j] \in Int BY <1>17, <1>18, <1>19, <1>21, <2>2
    <3>2. SumFunctionOnSet(g, old \cup {n + 1}) = g[n + 1] + SumFunctionOnSet(g, old)
      BY <1>17, <1>21, <2>2, <3>1, SumAdd
    <3> QED BY <1>16, <1>19, <1>20, <1>21, <1>22, <2>1, <2>2, <3>2
  <2>3. CASE date # m BY <1>16, <1>20, <1>22, <2>1, <2>3
  <2> QED BY <2>2, <2>3
<1>24. HeldOn(w, m, c) = HeldOn(v, m, c) - IF date = m THEN share ELSE 0
  <2>1. PICK r \in Int : r = Released(v, m, c) BY HeldIs
  <2>2. PICK t \in Int : t = IF v.month = m THEN v.tax[c] ELSE 0 BY DEF PaymentType, Tax
  <2>3. HeldOn(v, m, c) = t - r BY <2>1, <2>2 DEF HeldOn
  <2>4. HeldOn(w, m, c) = t - Released(w, m, c) BY <1>9, <2>2 DEF HeldOn
  <2> QED BY <1>19, <1>23, <2>1, <2>3, <2>4
<1> QED BY <1>9, <1>10, <1>12, <1>24

\* The records say nothing of tax before any payment is in.
LEMMA NothingHeld ==
  ASSUME NEW m, NEW c \in Components, payment = [p \in Receipts |-> NoPayment]
  PROVE  OnAdvances(m, c) = 0
<1>1. PICK f : f = [p \in Receipts |-> HeldOn(payment[p], m, c)] OBVIOUS
<1>2. \A p \in Receipts : f[p] = 0 BY <1>1, NoPaymentIs
<1>3. OnAdvances(m, c) = SumFunctionOnSet(f, Receipts) BY <1>1 DEF OnAdvances, SumFunction
<1> QED BY <1>2, <1>3, SumZero, InvoicingAssumption

LEMMA SumHeld ==
  ASSUME payment \in [Receipts -> PaymentType], NEW m, NEW c \in Components
  PROVE  OnAdvances(m, c) \in Int
<1>1. PICK f : f = [p \in Receipts |-> HeldOn(payment[p], m, c)] OBVIOUS
<1>2. \A p \in Receipts : f[p] \in Int BY <1>1, HeldIs
<1>3. OnAdvances(m, c) = SumFunctionOnSet(f, Receipts) BY <1>1 DEF OnAdvances, SumFunction
<1> QED BY <1>2, <1>3, SumType, InvoicingAssumption

\* A change of one payment's record.
LEMMA RecordChanges ==
  ASSUME payment \in [Receipts -> PaymentType], NEW p \in Receipts, NEW w \in PaymentType,
         payment' = [payment EXCEPT ![p] = w], NEW m, NEW c \in Components
  PROVE  /\ OnAdvances(m, c) \in Int
         /\ OnAdvances(m, c)' = OnAdvances(m, c) - HeldOn(payment[p], m, c) + HeldOn(w, m, c)
<1>1. PICK f, g : /\ f = [r \in Receipts |-> HeldOn(payment[r], m, c)]
                  /\ g = [r \in Receipts |-> HeldOn(payment'[r], m, c)]
  OBVIOUS
<1>2. payment'[p] = w /\ \A r \in Receipts \ {p} : payment'[r] = payment[r] OBVIOUS
<1>3. \A r \in Receipts : payment[r] \in PaymentType /\ payment'[r] \in PaymentType BY <1>2
<1>4. \A r \in Receipts : f[r] \in Int /\ g[r] \in Int BY <1>1, <1>3, HeldIs
<1>5. \A r \in Receipts : r # p => g[r] = f[r] BY <1>1, <1>2
<1>6. OnAdvances(m, c) = SumFunctionOnSet(f, Receipts) /\ OnAdvances(m, c)' = SumFunctionOnSet(g, Receipts)
  BY <1>1 DEF OnAdvances, SumFunction
<1>7. IsFiniteSet(Receipts) BY InvoicingAssumption
<1>8. SumFunctionOnSet(g, Receipts) = SumFunctionOnSet(f, Receipts) - f[p] + g[p]
  <2>1. p \in Receipts OBVIOUS
  <2> QED BY ONLY <1>4, <1>5, <1>7, <2>1, SumChange
<1>9. f[p] = HeldOn(payment[p], m, c) /\ g[p] = HeldOn(w, m, c) BY <1>1, <1>2
<1> QED BY <1>4, <1>6, <1>7, <1>8, <1>9, SumType

\* What an entry adds to what payments posted.
LEMMA EntryAdds ==
  ASSUME IsFiniteSet(journal), \A k \in journal : EntryFits(k), NEW new, new \notin journal,
         journal' = journal \cup {new}, new.by = "payment" => new.lines.out \in Tax,
         NEW m, NEW c \in Components
  PROVE  SumFunctionOnSet(Out(c)', Paying(m)')
           = SumFunctionOnSet(Out(c), Paying(m))
               + IF new.by = "payment" /\ new.month = m THEN new.lines.out[c] ELSE 0
<1>1. PICK f, g, P, Q : f = Out(c) /\ g = Out(c)' /\ P = Paying(m) /\ Q = Paying(m)' OBVIOUS
<1>2. \A k \in journal : f[k] = k.lines.out[c] /\ g[k] = k.lines.out[c] BY <1>1 DEF Out
<1>3. g[new] = new.lines.out[c] BY <1>1 DEF Out
<1>4. P \subseteq journal /\ IsFiniteSet(P) BY <1>1, FS_Subset DEF Paying
<1>5. \A k \in P : f[k] \in Int /\ g[k] = f[k]
  <2> SUFFICES ASSUME NEW k \in P PROVE f[k] \in Int /\ g[k] = f[k] OBVIOUS
  <2>1. k.lines.out \in Tax BY <1>1, <1>4 DEF Paying, EntryFits
  <2> QED BY <1>2, <1>4, <2>1 DEF Tax
<1>6. SumFunctionOnSet(g, P) = SumFunctionOnSet(f, P) BY <1>4, <1>5, SumSame
<1>7. SumFunctionOnSet(f, P) \in Int BY <1>4, <1>5, SumType
<1>8. CASE new.by = "payment" /\ new.month = m
  <2>1. Q = P \cup {new} BY <1>1, <1>8 DEF Paying
  <2>2. new \notin P /\ g[new] \in Int BY <1>3, <1>4, <1>8 DEF Tax
  <2>3. \A k \in P \cup {new} : g[k] \in Int BY <1>5, <2>2
  <2>4. SumFunctionOnSet(g, P \cup {new}) = g[new] + SumFunctionOnSet(g, P) BY <1>4, <2>2, <2>3, SumAdd
  <2> QED BY <1>1, <1>3, <1>6, <1>7, <1>8, <2>1, <2>2, <2>4
<1>9. CASE ~(new.by = "payment" /\ new.month = m)
  <2>1. Q = P BY <1>1, <1>9 DEF Paying
  <2> QED BY <1>1, <1>6, <1>7, <1>9, <2>1
<1> QED BY <1>8, <1>9

-----------------------------------------------------------------------------
(* The initial state *)

LEMMA NothingFits ==
  /\ NoTotals \in TotalsType
  /\ InvoiceFits(NoInvoice) /\ NoInvoice.status = "absent"
  /\ BillFits(NoBill) /\ NoBill.status = "absent"
<1>1. NoTotals \in TotalsType BY DEF NoTotals, TotalsType, Tax
<1>2. IsFiniteSet({}) BY FS_EmptySet
<1>3. NoInvoice \in InvoiceType BY <1>1 DEF NoInvoice, InvoiceType
<1>4. NoBill \in BillType BY <1>1 DEF NoBill, BillType
<1>5. NoInvoice.status = "absent" /\ NoInvoice.lines = {} BY DEF NoInvoice
<1>6. NoBill.status = "absent" /\ NoBill.lines = {} BY DEF NoBill
<1> QED BY <1>1, <1>2, <1>3, <1>4, <1>5, <1>6 DEF InvoiceFits, BillFits

LEMMA InvoicingStarts == InvoicingInit => InvoicingInv
<1> SUFFICES ASSUME InvoicingInit PROVE InvoicingInv OBVIOUS
<1>1. \A i \in SalesInvoices : invoice[i] = NoInvoice BY DEF InvoicingInit
<1>2. \A b \in Bills : bill[b] = NoBill BY DEF InvoicingInit
<1>3. DocumentsFit
  <2>1. invoice \in [SalesInvoices -> InvoiceType] /\ \A i \in SalesInvoices : InvoiceFits(invoice[i])
    BY <1>1, NothingFits DEF InvoicingInit, InvoiceFits
  <2>2. bill \in [Bills -> BillType] /\ \A b \in Bills : BillFits(bill[b])
    BY <1>2, NothingFits DEF InvoicingInit, BillFits
  <2>3. DOMAIN editor = Editors /\ \A e \in Editors : EditFits(editor[e])
    BY DEF InvoicingInit, EditFits
  <2>4. month \in Nat BY DEF InvoicingInit
  <2> QED BY <2>1, <2>2, <2>3, <2>4 DEF DocumentsFit
<1>4. \A d \in Documents : ~InForce(d) /\ ~Undone(d)
  <2> SUFFICES ASSUME NEW d \in Documents PROVE ~InForce(d) /\ ~Undone(d) OBVIOUS
  <2>1. CASE d \in SalesInvoices BY <1>1, <2>1, NothingFits DEF InForce, Undone, Standing
  <2>2. CASE d \notin SalesInvoices BY <1>2, <2>2, NothingFits DEF InForce, Undone, Documents
  <2> QED BY <2>1, <2>2
<1>5. journal = {} /\ IsFiniteSet({}) BY FS_EmptySet DEF InvoicingInit
<1>6. JournalFits BY <1>4, <1>5 DEF JournalFits, Own
<1>7. PaymentsFit
  <2>1. payment = [p \in Receipts |-> NoPayment] BY DEF InvoicingInit
  <2>2. payment \in [Receipts -> PaymentType] BY <2>1, NoPaymentIs
  <2>3. \A m \in Months, c \in Components :
          SumFunctionOnSet(Out(c), Paying(m)) = 0 /\ OnAdvances(m, c) = 0
    BY <1>5, <2>1, SumEmpty, NothingHeld DEF Paying
  <2> QED BY <1>5, <2>2, <2>3 DEF PaymentsFit
<1> QED BY <1>3, <1>6, <1>7 DEF InvoicingInv

-----------------------------------------------------------------------------
(* Documents, step by step *)

LEMMA LineSetsFinite == \A L \in LineSets : L \in SUBSET LineType /\ IsFiniteSet(L)
BY InvoicingAssumption

LEMMA TotalsOfLines ==
  \A L \in SUBSET LineType : \A inter \in BOOLEAN : IsFiniteSet(L) => Totals(L, inter) \in TotalsType
BY TotalsTyped

LEMMA BillTotalsOfLines ==
  \A L \in SUBSET LineType : \A inter \in BOOLEAN : IsFiniteSet(L) => BillTotals(L, inter) \in TotalsType
BY BillTotalsTyped

LEMMA InterStateType == \A a, b : InterState(a, b) \in BOOLEAN
BY DEF InterState

LEMMA PlaceKnown ==
  /\ \A given \in Places \cup {NoParty}, p \in Parties : PlaceOf(given, p) \in States
  /\ \A pos \in States : \A p : PlaceOf(pos, p) = pos
BY InvoicingAssumption DEF PlaceOf

LEMMA DraftFits ==
  ASSUME NEW p \in Parties, NEW L \in LineSets, NEW m \in Months, NEW pos \in States,
         NEW inter, inter = InterState(HomeState, pos)
  PROVE  InvoiceFits([status |-> "draft", paid |-> 0, party |-> p, snapshot |-> p, month |-> m, pos |-> pos,
                      lines |-> L, inter |-> inter, totals |-> Totals(L, inter)])
<1>1. PICK v : v = [status |-> "draft", paid |-> 0, party |-> p, snapshot |-> p, month |-> m, pos |-> pos,
                      lines |-> L, inter |-> inter, totals |-> Totals(L, inter)]
  OBVIOUS
<1>2. inter \in BOOLEAN BY InterStateType
<1>3. L \in SUBSET LineType /\ IsFiniteSet(L) /\ m \in Nat BY LineSetsFinite, InvoicingAssumption
<1>4. Totals(L, inter) \in TotalsType BY <1>2, <1>3, TotalsOfLines
<1>5. v \in InvoiceType BY <1>1, <1>2, <1>3, <1>4 DEF InvoiceType
<1>6. /\ v.lines = L /\ v.pos = pos /\ v.totals = Totals(v.lines, v.inter)
      /\ v.inter = InterState(HomeState, v.pos)
  BY <1>1
<1>7. InvoiceFits(v) BY <1>3, <1>5, <1>6 DEF InvoiceFits
<1> QED BY <1>1, <1>7

\* What a patch leaves of a draft is a draft, but for its totals.
LEMMA PatchedDraft ==
  ASSUME NEW old, InvoiceFits(old), old.status = "draft", NEW new \in Patched(old)
  PROVE  /\ new \in InvoiceType /\ IsFiniteSet(new.lines) /\ new.status = "draft"
         /\ new.pos \in States
<1>1. old \in InvoiceType /\ IsFiniteSet(old.lines) /\ old.pos \in States BY DEF InvoiceFits
<1>2. CASE \E p \in Parties : new = [old EXCEPT !.party = p] BY <1>1, <1>2 DEF InvoiceType
<1>3. CASE \E L \in LineSets : new = [old EXCEPT !.lines = L]
  BY <1>1, <1>3, LineSetsFinite DEF InvoiceType
<1>4. CASE \E m \in Months : new = [old EXCEPT !.month = m]
  BY <1>1, <1>4, InvoicingAssumption DEF InvoiceType
<1>5. CASE \E place \in Places : new = [old EXCEPT !.pos = place]
  BY <1>1, <1>5, InvoicingAssumption DEF InvoiceType
<1> QED BY <1>2, <1>3, <1>4, <1>5 DEF Patched

LEMMA MergedFits ==
  ASSUME NEW old, InvoiceFits(old), old.status = "draft", NEW new \in Patched(old)
  PROVE  InvoiceFits(Merged(new)) /\ Merged(new).status = "draft"
<1>1. /\ new \in InvoiceType /\ IsFiniteSet(new.lines) /\ new.status = "draft"
      /\ new.pos \in States
  BY PatchedDraft
<1>2. PICK inter \in BOOLEAN : inter = InterState(HomeState, new.pos) BY InterStateType
<1>3. PICK totals \in TotalsType : totals = Totals(new.lines, inter)
  <2>1. new.lines \in SUBSET LineType BY <1>1 DEF InvoiceType
  <2> QED BY <1>1, <2>1, TotalsOfLines
<1>4. PlaceOf(new.pos, new.party) = new.pos BY <1>1, PlaceKnown
<1>5. Merged(new) = [new EXCEPT !.inter = inter, !.totals = totals]
  BY <1>2, <1>3, <1>4 DEF Merged
<1>6. PICK v : v = [new EXCEPT !.inter = inter] OBVIOUS
<1>7. v \in InvoiceType /\ v.inter = inter /\ v.lines = new.lines /\ v.pos = new.pos /\ v.status = "draft"
  BY <1>1, <1>6 DEF InvoiceType
<1>8. PICK w : w = [v EXCEPT !.totals = totals] OBVIOUS
<1>9. w \in InvoiceType /\ w.inter = inter /\ w.lines = new.lines /\ w.pos = new.pos /\ w.status = "draft"
      /\ w.totals = totals
  BY <1>7, <1>8 DEF InvoiceType
<1>10. Merged(new) = w BY <1>5, <1>6, <1>8
<1>11. InvoiceFits(w) BY <1>1, <1>2, <1>3, <1>9 DEF InvoiceFits
<1> QED BY <1>9, <1>10, <1>11

LEMMA PlainLines ==
  ASSUME NEW L \in LineSets
  PROVE  Plain(L) \in SUBSET LineType /\ IsFiniteSet(Plain(L))
<1>1. L \in SUBSET LineType /\ IsFiniteSet(L) BY LineSetsFinite
<1> DEFINE f == [l \in L |-> [l EXCEPT !.discount = 0]]
<1>2. IsFiniteSet({f[l] : l \in L})
  <2> HIDE DEF f
  <2> QED BY <1>1, ValuesFinite
<1>3. {f[l] : l \in L} = Plain(L) BY DEF Plain
<1>4. \A l \in LineType : [l EXCEPT !.discount = 0] \in LineType BY DEF LineType
<1>5. Plain(L) \in SUBSET LineType BY <1>1, <1>4 DEF Plain
<1> QED BY <1>2, <1>3, <1>5

LEMMA EnteredFits ==
  ASSUME NEW L \in LineSets, NEW m \in Months, NEW inter \in BOOLEAN
  PROVE  BillFits([status |-> "draft", month |-> m, lines |-> Plain(L), inter |-> inter,
                   totals |-> BillTotals(Plain(L), inter)])
<1>1. PICK P : P = Plain(L) OBVIOUS
<1>2. P \in SUBSET LineType /\ IsFiniteSet(P) /\ m \in Nat BY <1>1, PlainLines, InvoicingAssumption
<1>3. PICK v : v = [status |-> "draft", month |-> m, lines |-> P, inter |-> inter,
                   totals |-> BillTotals(P, inter)]
  OBVIOUS
<1>4. BillTotals(P, inter) \in TotalsType BY <1>2, BillTotalsOfLines
<1>5. v \in BillType BY <1>2, <1>3, <1>4 DEF BillType
<1>6. v.lines = P /\ v.totals = BillTotals(v.lines, v.inter) BY <1>3
<1>7. BillFits(v) BY <1>2, <1>5, <1>6 DEF BillFits
<1> QED BY <1>1, <1>3, <1>7

\* A change of status leaves a document what it was.
Turned(v, s) == [v EXCEPT !.status = s]

LEMMA StatusOnly ==
  ASSUME NEW v, InvoiceFits(v), v.status # "absent", NEW s \in {"issued", "cancelled", "overdue"},
         NEW w, w = Turned(v, s)
  PROVE  /\ InvoiceFits(w) /\ w.status = s /\ w.month = v.month /\ w.lines = v.lines
         /\ w.totals = v.totals /\ InvoiceEntry(w) = InvoiceEntry(v)
<1>2. v \in InvoiceType BY DEF InvoiceFits
<1>3. /\ w \in InvoiceType /\ w.status = s /\ w.month = v.month /\ w.lines = v.lines
      /\ w.totals = v.totals /\ w.pos = v.pos /\ w.inter = v.inter
  BY <1>2 DEF InvoiceType, Standing, Turned
<1>4. InvoiceFits(w) BY <1>3 DEF InvoiceFits
<1>5. InvoiceEntry(w) = InvoiceEntry(v) BY <1>3 DEF InvoiceEntry
<1> QED BY <1>3, <1>4, <1>5

\* And so does what is paid of it.
PaidOff(v, x, s) == [[v EXCEPT !.paid = x] EXCEPT !.status = s]

LEMMA PaidOnly ==
  ASSUME NEW v, InvoiceFits(v), v.status # "absent", NEW x \in Nat, NEW s \in Standing,
         NEW w, w = PaidOff(v, x, s)
  PROVE  /\ InvoiceFits(w) /\ w.status = s /\ w.month = v.month
         /\ InvoiceEntry(w) = InvoiceEntry(v)
<1>2. v \in InvoiceType BY DEF InvoiceFits
<1>3. PICK u : u = [v EXCEPT !.paid = x] OBVIOUS
<1>4. /\ u \in InvoiceType /\ u.status = v.status /\ u.month = v.month /\ u.lines = v.lines
      /\ u.totals = v.totals /\ u.pos = v.pos /\ u.inter = v.inter
  BY <1>2, <1>3 DEF InvoiceType
<1>5. /\ w \in InvoiceType /\ w.status = s /\ w.month = v.month /\ w.lines = v.lines
      /\ w.totals = v.totals /\ w.pos = v.pos /\ w.inter = v.inter
  BY <1>3, <1>4 DEF InvoiceType, PaidOff
<1>6. InvoiceFits(w) BY <1>5, <1>2 DEF InvoiceFits, Standing
<1>7. InvoiceEntry(w) = InvoiceEntry(v) BY <1>5 DEF InvoiceEntry
<1> QED BY <1>5, <1>6, <1>7

LEMMA BillStatusOnly ==
  ASSUME NEW v, BillFits(v), v.status # "absent", NEW s \in {"approved", "cancelled"}
  PROVE  /\ BillFits([v EXCEPT !.status = s]) /\ [v EXCEPT !.status = s].status = s
         /\ [v EXCEPT !.status = s].month = v.month
         /\ BillEntry([v EXCEPT !.status = s]) = BillEntry(v)
<1>1. PICK w : w = [v EXCEPT !.status = s] OBVIOUS
<1>2. v \in BillType BY DEF BillFits
<1>3. /\ w \in BillType /\ w.status = s /\ w.month = v.month /\ w.lines = v.lines
      /\ w.totals = v.totals /\ w.inter = v.inter
  BY <1>1, <1>2 DEF BillType
<1>4. BillFits(w) BY <1>3 DEF BillFits
<1>5. BillEntry(w) = BillEntry(v) BY <1>3 DEF BillEntry
<1> QED BY <1>1, <1>3, <1>4, <1>5

\* An invoice turns overdue, or is paid in part or whole: it stands as it did.
Goes(i) ==
  /\ invoice[i].status \in Standing
  /\ \/ invoice'[i] = Turned(invoice[i], "overdue")
     \/ \E x \in Nat, s \in Standing : invoice'[i] = PaidOff(invoice[i], x, s)

\* No step but its own touches a document, and no edit one that was issued.
InvoiceStep(i) ==
  \/ invoice'[i] = invoice[i]
  \/ invoice[i].status = "absent" /\ InvoiceFits(invoice'[i]) /\ invoice'[i].status = "draft"
  \/ invoice[i].status = "draft" /\ InvoiceFits(invoice'[i]) /\ invoice'[i].status = "draft"
  \/ invoice[i].status = "draft" /\ invoice'[i] = Turned(invoice[i], "issued")
  \/ invoice[i].status = "issued" /\ invoice'[i] = Turned(invoice[i], "cancelled")
  \/ Goes(i)

LEMMA InvoiceStepFits ==
  ASSUME NEW i \in SalesInvoices, InvoiceFits(invoice[i]), InvoiceStep(i)
  PROVE  InvoiceFits(invoice'[i])
<1>1. PICK v, w : v = invoice[i] /\ w = invoice'[i] OBVIOUS
<1> SUFFICES InvoiceFits(w) BY <1>1
<1>2. InvoiceFits(v) BY <1>1
<1>4. ASSUME v.status # "absent", NEW x \in Nat, NEW s \in Standing, w = PaidOff(v, x, s)
      PROVE  InvoiceFits(w)
  BY <1>2, <1>4, PaidOnly
<1>3. ASSUME v.status # "absent", NEW s \in {"issued", "cancelled", "overdue"}, w = Turned(v, s)
      PROVE  InvoiceFits(w)
  BY <1>2, <1>3, StatusOnly
<1>5. CASE v.status = "draft" /\ w = Turned(v, "issued") BY <1>3, <1>5
<1>6. CASE v.status = "issued" /\ w = Turned(v, "cancelled") BY <1>3, <1>6
<1>7. CASE Goes(i)
  <2>1. /\ v.status \in Standing
        /\ w = Turned(v, "overdue") \/ \E x \in Nat, s \in Standing : w = PaidOff(v, x, s)
    BY <1>1, <1>7 DEF Goes
  <2>2. v.status # "absent" BY <2>1 DEF Standing
  <2> QED BY <1>3, <1>4, <2>1, <2>2
<1> QED BY <1>1, <1>2, <1>5, <1>6, <1>7 DEF InvoiceStep

BillStep(b) ==
  \/ bill'[b] = bill[b]
  \/ bill[b].status = "absent" /\ BillFits(bill'[b]) /\ bill'[b].status = "draft"
  \/ bill[b].status = "draft" /\ bill'[b] = [bill[b] EXCEPT !.status = "approved"]
  \/ bill[b].status = "approved" /\ bill'[b] = [bill[b] EXCEPT !.status = "cancelled"]

LEMMA BillStepFits ==
  ASSUME NEW b \in Bills, BillFits(bill[b]), BillStep(b)
  PROVE  BillFits(bill'[b])
<1>1. CASE bill[b].status = "draft" /\ bill'[b] = [bill[b] EXCEPT !.status = "approved"]
  BY <1>1, BillStatusOnly
<1>2. CASE bill[b].status = "approved" /\ bill'[b] = [bill[b] EXCEPT !.status = "cancelled"]
  BY <1>2, BillStatusOnly
<1> QED BY <1>1, <1>2 DEF BillStep

\* What settling does to an invoice, and which steps do it.
LEMMA SettleIs ==
  ASSUME DocumentsFit, NEW i \in SalesInvoices, NEW part \in Nat, Settle(i, part)
  PROVE  \E x \in Nat, s \in Standing :
           invoice[i].status \in Standing /\ invoice' = [invoice EXCEPT ![i] = PaidOff(invoice[i], x, s)]
<1>1. PICK v : v = invoice[i] OBVIOUS
<1>2. v \in InvoiceType /\ invoice \in [SalesInvoices -> InvoiceType] BY <1>1 DEF DocumentsFit
<1>3. PICK x : x = v.paid + part OBVIOUS
<1>4. PICK s : s = IF part = Due(i) THEN "paid" ELSE "partially_paid" OBVIOUS
<1>5. x \in Nat /\ s \in Standing /\ v.status \in Standing
  BY <1>1, <1>2, <1>3, <1>4 DEF InvoiceType, Standing, Settle
<1>6. invoice' = [invoice EXCEPT ![i].paid = @ + part, ![i].status = s] BY <1>4 DEF Settle
<1>7. PICK f : f = [invoice EXCEPT ![i].paid = @ + part] OBVIOUS
<1>8. f = [invoice EXCEPT ![i] = [v EXCEPT !.paid = x]] BY <1>1, <1>3, <1>7
<1>9. invoice' = [f EXCEPT ![i].status = s] BY <1>6, <1>7
<1>10. f[i] = [v EXCEPT !.paid = x] BY <1>2, <1>8
<1>11. invoice' = [f EXCEPT ![i] = PaidOff(v, x, s)] BY <1>9, <1>10 DEF PaidOff
<1>12. invoice' = [invoice EXCEPT ![i] = PaidOff(v, x, s)] BY <1>8, <1>11
<1> QED BY <1>1, <1>5, <1>12

\* Receive, its choices named.
Brings(p, amount, part, rate, from, m) ==
  LET rest == amount - part
      tax  == AdvanceTax(rest, rate, InterState(StateOf[from], HomeState))
  IN /\ part <= amount
     /\ IF part = 0 THEN UNCHANGED invoice ELSE \E i \in SalesInvoices : Settle(i, part)
     /\ Post(MoneyEntry(amount, 0 - part, TaxOf(tax) - rest, [c \in Components |-> 0 - tax[c]]),
             m, p, 0, "payment")
     /\ payment' = [payment EXCEPT ![p] =
                       [month |-> m, pool |-> rest, left |-> rest, tax |-> tax, uses |-> <<>>]]

LEMMA ReceiveIs ==
  ASSUME NEW p \in Receipts, Receive(p)
  PROVE  \E amount \in Amounts, part \in Shares \cup {0}, rate \in AdvanceRates, from \in Parties,
            m \in Months : Brings(p, amount, part, rate, from, m)
<1>1. PICK amount \in Amounts, part \in Shares \cup {0}, rate \in AdvanceRates, from \in Parties, m \in Months :
        LET rest == amount - part
            tax  == AdvanceTax(rest, rate, InterState(StateOf[from], HomeState))
            e    == MoneyEntry(amount, 0 - part, TaxOf(tax) - rest, [c \in Components |-> 0 - tax[c]])
        IN /\ part <= amount
           /\ IF part = 0 THEN UNCHANGED invoice ELSE \E i \in SalesInvoices : Settle(i, part)
           /\ Postable(e, {"bank"})
           /\ Post(e, m, p, 0, "payment")
           /\ payment' = [payment EXCEPT ![p] =
                            [month |-> m, pool |-> rest, left |-> rest, tax |-> tax, uses |-> <<>>]]
  BY DEF Receive
<1>2. Brings(p, amount, part, rate, from, m) BY <1>1 DEF Brings
<1> QED BY <1>2

LEMMA PaymentSettles ==
  ASSUME NEW p \in Receipts, Receive(p) \/ Allocate(p) \/ Refund(p)
  PROVE  UNCHANGED invoice \/ \E i \in SalesInvoices, part \in Nat : Settle(i, part)
<1>1. Shares \subseteq Nat BY InvoicingAssumption
<1>2. CASE Receive(p)
  <2>1. PICK part \in Shares \cup {0} :
          IF part = 0 THEN UNCHANGED invoice ELSE \E i \in SalesInvoices : Settle(i, part)
    BY <1>2 DEF Receive
  <2> QED BY <1>1, <2>1
<1>3. CASE Allocate(p) BY <1>1, <1>3 DEF Allocate
<1>4. CASE Refund(p) BY <1>4 DEF Refund
<1> QED BY <1>2, <1>3, <1>4

LEMMA DocumentsStep ==
  ASSUME DocumentsFit, [InvoicingNext]_invoicingVars
  PROVE  /\ \A i \in SalesInvoices : InvoiceStep(i)
         /\ \A b \in Bills : BillStep(b)
         /\ DocumentsFit'
<1> USE DEF DocumentsFit
<1>1. /\ DOMAIN invoice' = SalesInvoices /\ \A i \in SalesInvoices : InvoiceStep(i)
  <2>1. CASE UNCHANGED invoice BY <2>1 DEF InvoiceStep
  <2>2. ASSUME NEW j \in SalesInvoices, Draft(j)
        PROVE  DOMAIN invoice' = SalesInvoices /\ \A i \in SalesInvoices : InvoiceStep(i)
    <3>1. PICK p \in Parties, L \in LineSets, m \in Months, given \in Places \cup {NoParty} :
            invoice' = [invoice EXCEPT ![j] =
              [status |-> "draft", paid |-> 0, party |-> p, snapshot |-> p, month |-> m,
               pos |-> PlaceOf(given, p), lines |-> L,
               inter |-> InterState(HomeState, PlaceOf(given, p)),
               totals |-> Totals(L, InterState(HomeState, PlaceOf(given, p)))]]
      BY <2>2 DEF Draft
    <3>2. PICK pos \in States, inter \in BOOLEAN :
            pos = PlaceOf(given, p) /\ inter = InterState(HomeState, pos)
      BY PlaceKnown, InterStateType
    <3>3. PICK v : v = [status |-> "draft", paid |-> 0, party |-> p, snapshot |-> p, month |-> m, pos |-> pos,
                      lines |-> L, inter |-> inter, totals |-> Totals(L, inter)]
      OBVIOUS
    <3>4. InvoiceFits(v) /\ v.status = "draft" BY <3>2, <3>3, DraftFits
    <3>5. invoice' = [invoice EXCEPT ![j] = v] BY <3>1, <3>2, <3>3
    <3>6. invoice[j].status = "absent" BY <2>2 DEF Draft
    <3> QED BY <3>4, <3>5, <3>6 DEF InvoiceStep
  <2>3. ASSUME NEW e \in Editors, WriteDraft(e)
        PROVE  DOMAIN invoice' = SalesInvoices /\ \A i \in SalesInvoices : InvoiceStep(i)
    <3>1. PICK v : v = editor[e] OBVIOUS
    <3>2. v # Resting /\ EditFits(v) BY <2>3, <3>1 DEF WriteDraft
    <3>3. v.on \in SalesInvoices /\ InvoiceFits(v.write) /\ v.write.status = "draft"
      BY <3>2 DEF EditFits
    <3>4. invoice' = IF invoice[v.on].status = "draft" THEN [invoice EXCEPT ![v.on] = v.write] ELSE invoice
      BY <2>3, <3>1 DEF WriteDraft
    <3>5. CASE invoice[v.on].status = "draft" BY <3>3, <3>4, <3>5 DEF InvoiceStep
    <3>6. CASE invoice[v.on].status # "draft" BY <3>4, <3>6 DEF InvoiceStep
    <3> QED BY <3>5, <3>6
  <2>4. ASSUME NEW j \in SalesInvoices, IssueInvoice(j)
        PROVE  DOMAIN invoice' = SalesInvoices /\ \A i \in SalesInvoices : InvoiceStep(i)
    <3>1. /\ invoice[j].status = "draft"
          /\ invoice' = [invoice EXCEPT ![j] = Turned(invoice[j], "issued")]
      BY <2>4 DEF IssueInvoice, Turned
    <3> QED BY <3>1 DEF InvoiceStep
  <2>5. ASSUME NEW j \in SalesInvoices, CancelInvoice(j)
        PROVE  DOMAIN invoice' = SalesInvoices /\ \A i \in SalesInvoices : InvoiceStep(i)
    <3>1. /\ invoice[j].status = "issued"
          /\ invoice' = [invoice EXCEPT ![j] = Turned(invoice[j], "cancelled")]
      BY <2>5 DEF CancelInvoice, Turned
    <3> QED BY <3>1 DEF InvoiceStep
  <2>6. ASSUME NEW j \in SalesInvoices, Overdue(j)
        PROVE  DOMAIN invoice' = SalesInvoices /\ \A i \in SalesInvoices : InvoiceStep(i)
    <3>1. /\ invoice[j].status = "issued"
          /\ invoice' = [invoice EXCEPT ![j] = Turned(invoice[j], "overdue")]
      BY <2>6 DEF Overdue, Turned
    <3> QED BY <3>1 DEF InvoiceStep, Goes, Standing
  <2>7. ASSUME NEW j \in SalesInvoices, NEW part \in Nat, Settle(j, part)
        PROVE  DOMAIN invoice' = SalesInvoices /\ \A i \in SalesInvoices : InvoiceStep(i)
    <3>1. PICK x \in Nat, s \in Standing :
            invoice[j].status \in Standing /\ invoice' = [invoice EXCEPT ![j] = PaidOff(invoice[j], x, s)]
      BY <2>7, SettleIs
    <3> QED BY <3>1 DEF InvoiceStep, Goes
  <2>8. ASSUME NEW p \in Receipts, Receive(p) \/ Allocate(p) \/ Refund(p)
        PROVE  UNCHANGED invoice \/ \E i \in SalesInvoices, part \in Nat : Settle(i, part)
    BY <2>8, PaymentSettles
  <2> QED BY <2>1, <2>2, <2>3, <2>4, <2>5, <2>6, <2>7, <2>8
          DEF InvoicingNext, invoicingVars, ReadDraft, Enter, Approve, CancelBill, ReverseByHand, NextMonth
<1>2. /\ DOMAIN bill' = Bills /\ \A b \in Bills : BillStep(b)
  <2>1. CASE UNCHANGED bill BY <2>1 DEF BillStep
  <2>2. ASSUME NEW j \in Bills, Enter(j)
        PROVE  DOMAIN bill' = Bills /\ \A b \in Bills : BillStep(b)
    <3>1. PICK p \in Parties, L \in LineSets, m \in Months :
            bill' = [bill EXCEPT ![j] =
              [status |-> "draft", month |-> m, lines |-> Plain(L),
               inter |-> InterState(StateOf[p], HomeState),
               totals |-> BillTotals(Plain(L), InterState(StateOf[p], HomeState))]]
      BY <2>2 DEF Enter
    <3>2. PICK inter \in BOOLEAN : inter = InterState(StateOf[p], HomeState) BY InterStateType
    <3>3. PICK v : v = [status |-> "draft", month |-> m, lines |-> Plain(L), inter |-> inter,
                   totals |-> BillTotals(Plain(L), inter)]
      OBVIOUS
    <3>4. BillFits(v) /\ v.status = "draft" BY <3>3, EnteredFits
    <3>5. bill' = [bill EXCEPT ![j] = v] BY <3>1, <3>2, <3>3
    <3>6. bill[j].status = "absent" BY <2>2 DEF Enter
    <3> QED BY <3>4, <3>5, <3>6 DEF BillStep
  <2>3. ASSUME NEW j \in Bills, Approve(j)
        PROVE  DOMAIN bill' = Bills /\ \A b \in Bills : BillStep(b)
    <3>1. /\ bill[j].status = "draft"
          /\ bill' = [bill EXCEPT ![j] = [bill[j] EXCEPT !.status = "approved"]]
      BY <2>3 DEF Approve
    <3> QED BY <3>1 DEF BillStep
  <2>4. ASSUME NEW j \in Bills, CancelBill(j)
        PROVE  DOMAIN bill' = Bills /\ \A b \in Bills : BillStep(b)
    <3>1. /\ bill[j].status = "approved"
          /\ bill' = [bill EXCEPT ![j] = [bill[j] EXCEPT !.status = "cancelled"]]
      BY <2>4 DEF CancelBill
    <3> QED BY <3>1 DEF BillStep
  <2> QED BY <2>1, <2>2, <2>3, <2>4
          DEF InvoicingNext, invoicingVars, Draft, WriteDraft, ReadDraft, IssueInvoice, CancelInvoice,
              Overdue, Receive, Allocate, Refund, Use, ReverseByHand, NextMonth
<1>3. invoice' \in [SalesInvoices -> InvoiceType] /\ \A i \in SalesInvoices : InvoiceFits(invoice'[i])
  <2>1. \A i \in SalesInvoices : InvoiceFits(invoice'[i]) BY <1>1, InvoiceStepFits
  <2>2. invoice' = [i \in SalesInvoices |-> invoice'[i]]
    <3>1. CASE UNCHANGED invoice BY <3>1
    <3>2. CASE \E i \in SalesInvoices : \E v : invoice' = [invoice EXCEPT ![i] = v] BY <3>2
    <3>3. CASE \E p \in Receipts : Receive(p) \/ Allocate(p) \/ Refund(p)
      BY <3>1, <3>2, <3>3, PaymentSettles, SettleIs
    <3> QED BY <3>1, <3>2, <3>3
            DEF InvoicingNext, invoicingVars, Draft, WriteDraft, ReadDraft, IssueInvoice, CancelInvoice,
                Overdue, Enter, Approve, CancelBill, ReverseByHand, NextMonth
  <2> QED BY <2>1, <2>2 DEF InvoiceFits
<1>4. bill' \in [Bills -> BillType] /\ \A b \in Bills : BillFits(bill'[b])
  <2>1. \A b \in Bills : BillFits(bill'[b]) BY <1>2, BillStepFits
  <2>2. bill' = [b \in Bills |-> bill'[b]]
    <3>1. CASE UNCHANGED bill BY <3>1
    <3>2. CASE \E b \in Bills : \E v : bill' = [bill EXCEPT ![b] = v] BY <3>2
    <3> QED BY <3>1, <3>2
            DEF InvoicingNext, invoicingVars, Draft, WriteDraft, ReadDraft, IssueInvoice, CancelInvoice,
                Overdue, Enter, Approve, CancelBill, Receive, Allocate, Refund, Use, ReverseByHand, NextMonth
  <2> QED BY <2>1, <2>2 DEF BillFits
<1>5. DOMAIN editor' = Editors /\ \A e \in Editors : EditFits(editor'[e])
  <2>1. CASE UNCHANGED editor BY <2>1
  <2>2. ASSUME NEW f \in Editors, WriteDraft(f)
        PROVE  DOMAIN editor' = Editors /\ \A e \in Editors : EditFits(editor'[e])
    <3>1. editor' = [editor EXCEPT ![f] = Resting] BY <2>2 DEF WriteDraft
    <3>2. EditFits(Resting) BY DEF EditFits
    <3> QED BY <3>1, <3>2
  <2>3. ASSUME NEW f \in Editors, NEW i \in SalesInvoices, ReadDraft(f, i)
        PROVE  DOMAIN editor' = Editors /\ \A e \in Editors : EditFits(editor'[e])
    <3>1. PICK new \in Patched(invoice[i]) :
            editor' = [editor EXCEPT ![f] = [on |-> i, write |-> Merged(new)]]
      BY <2>3 DEF ReadDraft
    <3>2. InvoiceFits(Merged(new)) /\ Merged(new).status = "draft"
      BY <2>3, MergedFits DEF ReadDraft
    <3>3. PICK v : v = [on |-> i, write |-> Merged(new)] OBVIOUS
    <3>4. EditFits(v)
      <4>1. Merged(new) \in InvoiceType BY <3>2 DEF InvoiceFits
      <4> QED BY <3>2, <3>3, <4>1 DEF EditFits
    <3>5. editor' = [editor EXCEPT ![f] = v] BY <3>1, <3>3
    <3> QED BY <3>4, <3>5
  <2> QED BY <2>1, <2>2, <2>3
          DEF InvoicingNext, invoicingVars, Draft, IssueInvoice, CancelInvoice, Overdue, Enter, Approve,
              CancelBill, Receive, Allocate, Refund, Use, ReverseByHand, NextMonth
<1>6. month' \in Nat
  BY InvoicingAssumption
  DEF InvoicingNext, invoicingVars, Draft, WriteDraft, ReadDraft, IssueInvoice, CancelInvoice, Overdue,
      Enter, Approve, CancelBill, Receive, Allocate, Refund, Use, ReverseByHand, NextMonth
<1>7. DocumentsFit' BY <1>3, <1>4, <1>5, <1>6 DEF InvoiceFits, BillFits, EditFits
<1> QED BY <1>1, <1>2, <1>7

-----------------------------------------------------------------------------
(* The journal, step by step *)

\* What a step leaves of what a document has posted.
SameDocument(d) ==
  /\ InForce(d)' = InForce(d) /\ Undone(d)' = Undone(d)
  /\ InForce(d) \/ Undone(d) => EntryOf(d)' = EntryOf(d) /\ DateOf(d)' = DateOf(d)

LEMMA JournalKept ==
  ASSUME JournalFits, Own' = Own, \A d \in Documents : SameDocument(d)
  PROVE  JournalFits'
<1>1. \A d \in Documents : InForce(d) \/ Undone(d) => Posting(d)' = Posting(d)
  BY DEF SameDocument, Posting
<1>2. \A d \in Documents : Undone(d) => \A m : Undoing(d, m)' = Undoing(d, m)
  BY DEF SameDocument, Undoing
<1>3. \A d \in Documents : InForce(d)' = InForce(d) /\ Undone(d)' = Undone(d) BY DEF SameDocument
<1>4. ASSUME NEW k \in Own'
      PROVE  /\ k.doc \in Documents'
             /\ \/ k = Posting(k.doc)' /\ (InForce(k.doc)' \/ Undone(k.doc)')
                \/ Undone(k.doc)' /\ \E m \in Nat : k = Undoing(k.doc, m)'
  <2>1. /\ k.doc \in Documents
        /\ \/ k = Posting(k.doc) /\ (InForce(k.doc) \/ Undone(k.doc))
           \/ Undone(k.doc) /\ \E m \in Nat : k = Undoing(k.doc, m)
    BY DEF JournalFits
  <2>2. k.doc \in Documents' BY <2>1 DEF Documents
  <2>3. CASE k = Posting(k.doc) /\ (InForce(k.doc) \/ Undone(k.doc))
    BY <1>1, <1>3, <2>1, <2>2, <2>3
  <2>4. CASE Undone(k.doc) /\ \E m \in Nat : k = Undoing(k.doc, m)
    <3>1. PICK m \in Nat : k = Undoing(k.doc, m) BY <2>4
    <3>2. k = Undoing(k.doc, m)' /\ Undone(k.doc)' BY <1>2, <1>3, <2>1, <2>4, <3>1
    <3> QED BY <2>2, <3>2
  <2> QED BY <2>1, <2>3, <2>4
<1>5. \A d \in Documents : InForce(d)' \/ Undone(d)' => Posting(d)' \in Own'
  BY <1>1, <1>3 DEF JournalFits
<1>6. \A d \in Documents : Undone(d)' => \E m \in Nat : Undoing(d, m)' \in Own'
  BY <1>2, <1>3 DEF JournalFits
<1>7. IsFiniteSet(Own') /\ \A k, n \in Own' : k.doc = n.doc /\ k.undoes = n.undoes => k = n
  BY DEF JournalFits
<1>8. Documents' = Documents BY DEF Documents
<1> QED BY <1>4, <1>5, <1>6, <1>7, <1>8 DEF JournalFits

\* A document posts: it had not before.
LEMMA JournalPosted ==
  ASSUME JournalFits, NEW p \in Documents, ~InForce(p), ~Undone(p), InForce(p)', ~Undone(p)',
         \A d \in Documents \ {p} : SameDocument(d),
         Own' = Own \cup {Posting(p)'}
  PROVE  JournalFits'
<1>1. \A d \in Documents \ {p} : InForce(d) \/ Undone(d) => Posting(d)' = Posting(d)
  BY DEF SameDocument, Posting
<1>2. \A d \in Documents \ {p} : Undone(d) => \A m : Undoing(d, m)' = Undoing(d, m)
  BY DEF SameDocument, Undoing
<1>3. \A d \in Documents \ {p} : InForce(d)' = InForce(d) /\ Undone(d)' = Undone(d) BY DEF SameDocument
<1>4. \A k \in Own : k.doc # p BY DEF JournalFits
<1>5. PICK new : new = Posting(p)' OBVIOUS
<1>6. new.doc = p /\ Own' = Own \cup {new} BY <1>5 DEF Posting
<1>7. ASSUME NEW k \in Own'
      PROVE  /\ k.doc \in Documents'
             /\ \/ k = Posting(k.doc)' /\ (InForce(k.doc)' \/ Undone(k.doc)')
                \/ Undone(k.doc)' /\ \E m \in Nat : k = Undoing(k.doc, m)'
  <2>1. CASE k = new BY <1>5, <1>6, <2>1 DEF Documents
  <2>2. CASE k \in Own
    <3>1. /\ k.doc \in Documents \ {p}
          /\ \/ k = Posting(k.doc) /\ (InForce(k.doc) \/ Undone(k.doc))
             \/ Undone(k.doc) /\ \E m \in Nat : k = Undoing(k.doc, m)
      BY <1>4, <2>2 DEF JournalFits
    <3>2. k.doc \in Documents' BY <3>1 DEF Documents
    <3>3. CASE k = Posting(k.doc) /\ (InForce(k.doc) \/ Undone(k.doc))
      BY <1>1, <1>3, <3>1, <3>2, <3>3
    <3>4. CASE Undone(k.doc) /\ \E m \in Nat : k = Undoing(k.doc, m)
      <4>1. PICK m \in Nat : k = Undoing(k.doc, m) BY <3>4
      <4>2. k = Undoing(k.doc, m)' /\ Undone(k.doc)' BY <1>2, <1>3, <3>1, <3>4, <4>1
      <4> QED BY <3>2, <4>2
    <3> QED BY <3>1, <3>3, <3>4
  <2> QED BY <1>6, <2>1, <2>2
<1>8. \A d \in Documents : InForce(d)' \/ Undone(d)' => Posting(d)' \in Own'
  <2>1. Posting(p)' \in Own' BY <1>5, <1>6
  <2>2. \A d \in Documents \ {p} : InForce(d)' \/ Undone(d)' => Posting(d)' \in Own'
    BY <1>1, <1>3, <1>6 DEF JournalFits
  <2> QED BY <2>1, <2>2
<1>9. \A d \in Documents : Undone(d)' => \E m \in Nat : Undoing(d, m)' \in Own'
  <2> SUFFICES ASSUME NEW d \in Documents, Undone(d)' PROVE \E m \in Nat : Undoing(d, m)' \in Own'
    OBVIOUS
  <2>1. d \in Documents \ {p} /\ Undone(d) BY <1>3
  <2>2. PICK m \in Nat : Undoing(d, m) \in Own BY <2>1 DEF JournalFits
  <2>3. Undoing(d, m)' \in Own' BY <1>2, <1>6, <2>1, <2>2
  <2> QED BY <2>3
<1>10. IsFiniteSet(Own') BY <1>6, FS_AddElement DEF JournalFits
<1>11. \A k, n \in Own' : k.doc = n.doc /\ k.undoes = n.undoes => k = n
  BY <1>4, <1>6 DEF JournalFits
<1>12. Documents' = Documents BY DEF Documents
<1> QED BY <1>7, <1>8, <1>9, <1>10, <1>11, <1>12 DEF JournalFits

\* A document is reversed: it was in force, and is no more.
LEMMA JournalUndone ==
  ASSUME JournalFits, NEW p \in Documents, InForce(p), ~Undone(p), Undone(p)',
         EntryOf(p)' = EntryOf(p), DateOf(p)' = DateOf(p), NEW date \in Nat,
         \A d \in Documents \ {p} : SameDocument(d),
         Own' = Own \cup {Undoing(p, date)}
  PROVE  JournalFits'
<1>1. \A d \in Documents : InForce(d) \/ Undone(d) => Posting(d)' = Posting(d)
  BY DEF SameDocument, Posting
<1>2. \A d \in Documents : InForce(d) \/ Undone(d) => \A m : Undoing(d, m)' = Undoing(d, m)
  BY DEF SameDocument, Undoing
<1>3. \A d \in Documents \ {p} : InForce(d)' = InForce(d) /\ Undone(d)' = Undone(d) BY DEF SameDocument
<1>4. PICK new : new = Undoing(p, date) OBVIOUS
<1>5. new.doc = p /\ new.undoes = 1 /\ Own' = Own \cup {new} BY <1>4 DEF Undoing
<1>6. \A k \in Own : k.doc = p => k.undoes = 0 BY DEF JournalFits, Posting
<1>7. ASSUME NEW k \in Own'
      PROVE  /\ k.doc \in Documents'
             /\ \/ k = Posting(k.doc)' /\ (InForce(k.doc)' \/ Undone(k.doc)')
                \/ Undone(k.doc)' /\ \E m \in Nat : k = Undoing(k.doc, m)'
  <2>1. CASE k = new BY <1>2, <1>4, <1>5, <2>1 DEF Documents
  <2>2. CASE k \in Own
    <3>1. /\ k.doc \in Documents
          /\ \/ k = Posting(k.doc) /\ (InForce(k.doc) \/ Undone(k.doc))
             \/ Undone(k.doc) /\ \E m \in Nat : k = Undoing(k.doc, m)
      BY <2>2 DEF JournalFits
    <3>2. k.doc \in Documents' BY <3>1 DEF Documents
    <3>5. InForce(k.doc) \/ Undone(k.doc) => InForce(k.doc)' \/ Undone(k.doc)'
      BY <1>3, <3>1
    <3>6. Undone(k.doc) => Undone(k.doc)' BY <1>3, <3>1
    <3>3. CASE k = Posting(k.doc) /\ (InForce(k.doc) \/ Undone(k.doc))
      BY <1>1, <3>1, <3>2, <3>3, <3>5
    <3>4. CASE Undone(k.doc) /\ \E m \in Nat : k = Undoing(k.doc, m)
      <4>1. PICK m \in Nat : k = Undoing(k.doc, m) BY <3>4
      <4>2. k = Undoing(k.doc, m)' /\ Undone(k.doc)' BY <1>2, <3>1, <3>4, <3>6, <4>1
      <4> QED BY <3>2, <4>2
    <3> QED BY <3>1, <3>3, <3>4
  <2> QED BY <1>5, <2>1, <2>2
<1>8. \A d \in Documents : InForce(d)' \/ Undone(d)' => InForce(d) \/ Undone(d) BY <1>3
<1>9. \A d \in Documents : InForce(d)' \/ Undone(d)' => Posting(d)' \in Own'
  BY <1>1, <1>5, <1>8 DEF JournalFits
<1>10. \A d \in Documents : Undone(d)' => \E m \in Nat : Undoing(d, m)' \in Own'
  <2>1. Undoing(p, date)' \in Own' BY <1>2, <1>4, <1>5
  <2>2. ASSUME NEW d \in Documents \ {p}, Undone(d)'
        PROVE  \E m \in Nat : Undoing(d, m)' \in Own'
    <3>1. Undone(d) BY <1>3, <2>2
    <3>2. PICK m \in Nat : Undoing(d, m) \in Own BY <3>1 DEF JournalFits
    <3>3. Undoing(d, m)' \in Own' BY <1>2, <1>5, <3>1, <3>2
    <3> QED BY <3>3
  <2> QED BY <2>1, <2>2
<1>11. IsFiniteSet(Own') BY <1>5, FS_AddElement DEF JournalFits
<1>12. \A k, n \in Own' : k.doc = n.doc /\ k.undoes = n.undoes => k = n
  BY <1>5, <1>6 DEF JournalFits
<1>13. Documents' = Documents BY DEF Documents
<1> QED BY <1>7, <1>9, <1>10, <1>11, <1>12, <1>13 DEF JournalFits

LEMMA GoesKeeps ==
  ASSUME DocumentsFit, NEW i \in SalesInvoices, Goes(i)
  PROVE  /\ invoice'[i].status \in Standing /\ invoice'[i].month = invoice[i].month
         /\ InvoiceEntry(invoice'[i]) = InvoiceEntry(invoice[i])
<1>1. PICK v, w : v = invoice[i] /\ w = invoice'[i] OBVIOUS
<1>2. /\ InvoiceFits(v) /\ v.status \in Standing /\ v.status # "absent"
      /\ w = Turned(v, "overdue") \/ \E x \in Nat, s \in Standing : w = PaidOff(v, x, s)
  BY <1>1 DEF Goes, DocumentsFit, Standing
<1>3. ASSUME NEW s \in {"issued", "cancelled", "overdue"}, w = Turned(v, s)
      PROVE  w.status = s /\ w.month = v.month /\ InvoiceEntry(w) = InvoiceEntry(v)
  BY <1>2, <1>3, StatusOnly
<1>4. ASSUME NEW x \in Nat, NEW s \in Standing, w = PaidOff(v, x, s)
      PROVE  w.status = s /\ w.month = v.month /\ InvoiceEntry(w) = InvoiceEntry(v)
  BY <1>2, <1>4, PaidOnly
<1>5. w.status \in Standing /\ w.month = v.month /\ InvoiceEntry(w) = InvoiceEntry(v)
  BY <1>2, <1>3, <1>4 DEF Standing
<1> QED BY <1>1, <1>5

LEMMA SameInvoice ==
  ASSUME DocumentsFit, NEW i \in SalesInvoices,
         \/ invoice'[i] = invoice[i]
         \/ invoice[i].status \in {"absent", "draft"} /\ invoice'[i].status = "draft"
         \/ Goes(i)
  PROVE  SameDocument(i)
<1>1. CASE invoice'[i] = invoice[i] BY <1>1 DEF SameDocument, InForce, Undone, EntryOf, DateOf
<1>2. CASE invoice[i].status \in {"absent", "draft"} /\ invoice'[i].status = "draft"
  <2>1. ~InForce(i) /\ ~Undone(i) BY <1>2 DEF InForce, Undone, Standing
  <2>2. InForce(i)' = FALSE /\ Undone(i)' = FALSE BY <1>2 DEF InForce, Undone, Standing
  <2>3. InForce(i) = FALSE /\ Undone(i) = FALSE BY <1>2 DEF InForce, Undone, Standing
  <2> QED BY <2>1, <2>2, <2>3 DEF SameDocument
<1>3. CASE Goes(i)
  <2>1. InForce(i) = TRUE /\ Undone(i) = FALSE BY <1>3 DEF InForce, Undone, Standing, Goes
  <2>2. InForce(i)' = TRUE /\ Undone(i)' = FALSE BY <1>3, GoesKeeps DEF InForce, Undone, Standing
  <2>3. EntryOf(i)' = EntryOf(i) /\ DateOf(i)' = DateOf(i) BY <1>3, GoesKeeps DEF EntryOf, DateOf
  <2> QED BY <2>1, <2>2, <2>3 DEF SameDocument
<1> QED BY <1>1, <1>2, <1>3

LEMMA SameBill ==
  ASSUME NEW b \in Bills, bill'[b] = bill[b] \/
           (bill[b].status \in {"absent", "draft"} /\ bill'[b].status = "draft")
  PROVE  SameDocument(b)
<1>0. b \notin SalesInvoices BY InvoicingAssumption
<1>1. CASE bill'[b] = bill[b] BY <1>0, <1>1 DEF SameDocument, InForce, Undone, EntryOf, DateOf
<1>2. CASE bill[b].status \in {"absent", "draft"} /\ bill'[b].status = "draft"
  <2>1. ~InForce(b) /\ ~Undone(b) BY <1>0, <1>2 DEF InForce, Undone
  <2>2. InForce(b)' = FALSE /\ Undone(b)' = FALSE BY <1>0, <1>2 DEF InForce, Undone
  <2>3. InForce(b) = FALSE /\ Undone(b) = FALSE BY <1>0, <1>2 DEF InForce, Undone
  <2> QED BY <2>1, <2>2, <2>3 DEF SameDocument
<1> QED BY <1>1, <1>2

LEMMA SameDocuments ==
  ASSUME DocumentsFit, NEW D \in SUBSET Documents,
         \A i \in SalesInvoices \cap D :
           \/ invoice'[i] = invoice[i]
           \/ invoice[i].status \in {"absent", "draft"} /\ invoice'[i].status = "draft"
           \/ Goes(i),
         \A b \in Bills \cap D : bill'[b] = bill[b] \/
           (bill[b].status \in {"absent", "draft"} /\ bill'[b].status = "draft")
  PROVE  \A d \in D : SameDocument(d)
<1> SUFFICES ASSUME NEW d \in D PROVE SameDocument(d) OBVIOUS
<1>1. CASE d \in SalesInvoices BY <1>1, SameInvoice
<1>2. CASE d \in Bills BY <1>2, SameBill
<1> QED BY <1>1, <1>2 DEF Documents

\* Documents post nothing but when one is issued, approved or cancelled.
LEMMA QuietOwn ==
  ASSUME PaymentsFit,
         \/ UNCHANGED invoicingVars
         \/ \E i \in SalesInvoices : Draft(i) \/ Overdue(i)
         \/ \E e \in Editors : WriteDraft(e) \/ \E i \in SalesInvoices : ReadDraft(e, i)
         \/ \E b \in Bills : Enter(b)
         \/ \E p \in Receipts : Receive(p) \/ Allocate(p) \/ Refund(p)
         \/ ReverseByHand
         \/ NextMonth
  PROVE  Own' = Own
<1>1. CASE journal' = journal BY <1>1 DEF Own
<1>2. ASSUME NEW e, NEW date, NEW doc, NEW n, Post(e, date, doc, n, "payment") PROVE Own' = Own
  <2>1. PICK new : /\ new = [lines |-> e, month |-> date, doc |-> doc, part |-> n, undoes |-> 0,
                              by |-> "payment"]
                   /\ journal' = journal \cup {new}
    BY <1>2 DEF Post
  <2>2. new.by = "payment" BY <2>1
  <2> QED BY <2>1, <2>2 DEF Own
<1>3. ASSUME NEW p \in Receipts, Receive(p) \/ Allocate(p) \/ Refund(p) PROVE Own' = Own
  <2>1. CASE Receive(p)
    <3>1. PICK amount \in Amounts, part \in Shares \cup {0}, rate \in AdvanceRates, from \in Parties,
               m \in Months : Brings(p, amount, part, rate, from, m)
      BY <2>1, ReceiveIs
    <3> QED BY <1>2, <3>1 DEF Brings
  <2>2. CASE Allocate(p) \/ Refund(p)
    <3>1. PICK part, bank, receivable : Use(p, part, bank, receivable) BY <2>2 DEF Allocate, Refund
    <3> QED BY <1>2, <3>1 DEF Use
  <2> QED BY <1>3, <2>1, <2>2
<1>4. CASE ReverseByHand
  <2>1. PICK k \in journal : journal' = journal \cup {Reversal(k, "hand")}
    BY <1>4 DEF ReverseByHand, Reverse
  <2>2. Reversal(k, "hand").by = "hand" BY ReversalIs DEF PaymentsFit
  <2> QED BY <2>1, <2>2 DEF Own
<1> QED BY <1>1, <1>3, <1>4
        DEF invoicingVars, Draft, Overdue, WriteDraft, ReadDraft, Enter, NextMonth

LEMMA QuietStep ==
  ASSUME DocumentsFit, JournalFits, PaymentsFit,
         \/ UNCHANGED invoicingVars
         \/ \E i \in SalesInvoices : Draft(i) \/ Overdue(i)
         \/ \E e \in Editors : WriteDraft(e) \/ \E i \in SalesInvoices : ReadDraft(e, i)
         \/ \E b \in Bills : Enter(b)
         \/ \E p \in Receipts : Receive(p) \/ Allocate(p) \/ Refund(p)
         \/ ReverseByHand
         \/ NextMonth
  PROVE  JournalFits'
<1>1. Own' = Own BY QuietOwn
<1>4. \A i \in SalesInvoices :
        \/ invoice'[i] = invoice[i]
        \/ invoice[i].status \in {"absent", "draft"} /\ invoice'[i].status = "draft"
        \/ Goes(i)
  <2>1. CASE UNCHANGED invoice BY <2>1
  <2>2. ASSUME NEW j \in SalesInvoices, Draft(j)
        PROVE  \A i \in SalesInvoices :
                 \/ invoice'[i] = invoice[i]
                 \/ invoice[i].status \in {"absent", "draft"} /\ invoice'[i].status = "draft"
    <3>1. invoice[j].status = "absent" /\ invoice'[j].status = "draft"
      BY <2>2 DEF Draft, DocumentsFit
    <3>2. \A i \in SalesInvoices \ {j} : invoice'[i] = invoice[i] BY <2>2 DEF Draft, DocumentsFit
    <3> QED BY <3>1, <3>2
  <2>3. ASSUME NEW e \in Editors, WriteDraft(e)
        PROVE  \A i \in SalesInvoices :
                 \/ invoice'[i] = invoice[i]
                 \/ invoice[i].status \in {"absent", "draft"} /\ invoice'[i].status = "draft"
    <3>1. PICK v : v = editor[e] OBVIOUS
    <3>2. v.on \in SalesInvoices /\ v.write.status = "draft"
      BY <2>3, <3>1 DEF WriteDraft, EditFits, DocumentsFit
    <3>3. invoice' = IF invoice[v.on].status = "draft" THEN [invoice EXCEPT ![v.on] = v.write] ELSE invoice
      BY <2>3, <3>1 DEF WriteDraft
    <3> QED BY <3>2, <3>3 DEF DocumentsFit
  <2>4. ASSUME NEW j \in SalesInvoices, Overdue(j)
        PROVE  \A i \in SalesInvoices : invoice'[i] = invoice[i] \/ Goes(i)
    <3>1. /\ invoice[j].status = "issued"
          /\ invoice' = [invoice EXCEPT ![j] = Turned(invoice[j], "overdue")]
      BY <2>4 DEF Overdue, Turned
    <3> QED BY <3>1 DEF Goes, Standing, DocumentsFit
  <2>5. ASSUME NEW j \in SalesInvoices, NEW part \in Nat, Settle(j, part)
        PROVE  \A i \in SalesInvoices : invoice'[i] = invoice[i] \/ Goes(i)
    <3>1. PICK x \in Nat, s \in Standing :
            /\ invoice[j].status \in Standing
            /\ invoice' = [invoice EXCEPT ![j] = PaidOff(invoice[j], x, s)]
      BY <2>5, SettleIs
    <3> QED BY <3>1 DEF Goes, DocumentsFit
  <2>6. ASSUME NEW p \in Receipts, Receive(p) \/ Allocate(p) \/ Refund(p)
        PROVE  UNCHANGED invoice \/ \E i \in SalesInvoices, part \in Nat : Settle(i, part)
    BY <2>6, PaymentSettles
  <2> QED BY <2>1, <2>2, <2>3, <2>4, <2>5, <2>6
          DEF invoicingVars, ReadDraft, Enter, ReverseByHand, NextMonth
<1>5. \A b \in Bills :
        \/ bill'[b] = bill[b]
        \/ bill[b].status \in {"absent", "draft"} /\ bill'[b].status = "draft"
  <2>1. CASE UNCHANGED bill BY <2>1
  <2>2. ASSUME NEW j \in Bills, Enter(j)
        PROVE  \A b \in Bills :
                 \/ bill'[b] = bill[b]
                 \/ bill[b].status \in {"absent", "draft"} /\ bill'[b].status = "draft"
    <3>1. bill[j].status = "absent" /\ bill'[j].status = "draft"
      BY <2>2 DEF Enter, DocumentsFit
    <3>2. \A b \in Bills \ {j} : bill'[b] = bill[b] BY <2>2 DEF Enter, DocumentsFit
    <3> QED BY <3>1, <3>2
  <2> QED BY <2>1, <2>2
          DEF invoicingVars, Draft, Overdue, WriteDraft, ReadDraft, Receive, Allocate, Refund, Use,
              ReverseByHand, NextMonth
<1>6. \A d \in Documents : SameDocument(d) BY <1>4, <1>5, SameDocuments
<1> QED BY <1>1, <1>6, JournalKept

\* The one entry of a document in force is its posting: cancelling reverses that.
LEMMA OwnIsPosting ==
  ASSUME JournalFits, PaymentsFit, NEW d \in Documents, ~Undone(d), NEW k \in journal, OwnEntry(k, d)
  PROVE  k = Posting(d) /\ EntryFits(k)
<1>1. EntryFits(k) BY DEF PaymentsFit
<1>2. k.doc = d /\ k.undoes = 0 BY DEF OwnEntry
<1>3. d \notin Receipts BY InvoicingAssumption DEF Documents
<1>4. k.by = "document" BY <1>1, <1>2, <1>3 DEF EntryFits
<1>5. k \in Own BY <1>4 DEF Own
<1> QED BY <1>1, <1>2, <1>5 DEF JournalFits

LEMMA JournalStep ==
  ASSUME DocumentsFit, JournalFits, PaymentsFit, [InvoicingNext]_invoicingVars
  PROVE  JournalFits'
<1>1. ASSUME NEW i \in SalesInvoices, IssueInvoice(i) PROVE JournalFits'
  <2>1. /\ invoice[i].status = "draft" /\ InvoiceFits(invoice[i]) /\ bill' = bill
        /\ invoice' = [invoice EXCEPT ![i] = Turned(invoice[i], "issued")]
        /\ journal' = journal \cup {[lines |-> InvoiceEntry(invoice[i]), month |-> invoice[i].month,
                                     doc |-> i, part |-> 0, undoes |-> 0, by |-> "document"]}
    BY <1>1 DEF IssueInvoice, Post, DocumentsFit, Turned
  <2>2. PICK w : w = Turned(invoice[i], "issued") OBVIOUS
  <2>3. /\ w.status = "issued" /\ w.month = invoice[i].month
        /\ InvoiceEntry(w) = InvoiceEntry(invoice[i])
    BY <2>1, <2>2, StatusOnly
  <2>4. invoice'[i] = w /\ \A j \in SalesInvoices \ {i} : invoice'[j] = invoice[j]
    BY <2>1, <2>2 DEF DocumentsFit
  <2>5. i \in Documents /\ ~InForce(i) /\ ~Undone(i) BY <2>1 DEF Documents, InForce, Undone, Standing
  <2>6. InForce(i)' /\ ~Undone(i)' BY <2>3, <2>4 DEF InForce, Undone, Standing
  <2>7. \A d \in Documents \ {i} : SameDocument(d) BY <2>1, <2>4, SameDocuments
  <2>8. EntryOf(i)' = InvoiceEntry(w) /\ DateOf(i)' = w.month
    BY <2>4 DEF EntryOf, DateOf
  <2>9. Own' = Own \cup {Posting(i)'}
    <3>1. journal' = journal \cup {Posting(i)'} BY <2>1, <2>3, <2>8 DEF Posting
    <3>2. Posting(i)'.by = "document" BY DEF Posting
    <3> QED BY <3>1, <3>2 DEF Own
  <2> QED BY <2>5, <2>6, <2>7, <2>9, JournalPosted
<1>2. ASSUME NEW i \in SalesInvoices, CancelInvoice(i) PROVE JournalFits'
  <2>1. /\ invoice[i].status = "issued" /\ InvoiceFits(invoice[i]) /\ bill' = bill /\ month \in Nat
        /\ invoice' = [invoice EXCEPT ![i] = Turned(invoice[i], "cancelled")]
    BY <1>2 DEF CancelInvoice, DocumentsFit, Turned
  <2>2. PICK w : w = Turned(invoice[i], "cancelled") OBVIOUS
  <2>3. /\ w.status = "cancelled" /\ w.month = invoice[i].month
        /\ InvoiceEntry(w) = InvoiceEntry(invoice[i])
    BY <2>1, <2>2, StatusOnly
  <2>4. invoice'[i] = w /\ \A j \in SalesInvoices \ {i} : invoice'[j] = invoice[j]
    BY <2>1, <2>2 DEF DocumentsFit
  <2>5. i \in Documents /\ InForce(i) /\ ~Undone(i) BY <2>1 DEF Documents, InForce, Undone, Standing
  <2>6. Undone(i)' BY <2>3, <2>4 DEF Undone
  <2>7. \A d \in Documents \ {i} : SameDocument(d) BY <2>1, <2>4, SameDocuments
  <2>8. EntryOf(i)' = InvoiceEntry(w) /\ DateOf(i)' = w.month
    BY <2>4 DEF EntryOf, DateOf
  <2>9. EntryOf(i) = InvoiceEntry(invoice[i]) /\ DateOf(i) = invoice[i].month BY DEF EntryOf, DateOf
  <2>10. Own' = Own \cup {Undoing(i, month)}
    <3>1. PICK k \in journal : OwnEntry(k, i) /\ journal' = journal \cup {Reversal(k, "document")}
      BY <1>2 DEF CancelInvoice, Reverse
    <3>2. k = Posting(i) /\ EntryFits(k) BY <2>5, <3>1, OwnIsPosting
    <3>3. Reversal(k, "document") = Undoing(i, month)
      BY <3>2, ReversalIs DEF Posting, Undoing
    <3>4. Undoing(i, month).by = "document" BY DEF Undoing
    <3> QED BY <3>1, <3>3, <3>4 DEF Own
  <2> QED BY <2>1, <2>3, <2>5, <2>6, <2>7, <2>8, <2>9, <2>10, JournalUndone
<1>3. ASSUME NEW b \in Bills, Approve(b) PROVE JournalFits'
  <2>1. /\ bill[b].status = "draft" /\ BillFits(bill[b]) /\ invoice' = invoice
        /\ bill' = [bill EXCEPT ![b] = [bill[b] EXCEPT !.status = "approved"]]
        /\ journal' = journal \cup {[lines |-> BillEntry(bill[b]), month |-> bill[b].month,
                                     doc |-> b, part |-> 0, undoes |-> 0, by |-> "document"]}
        /\ b \notin SalesInvoices
    BY <1>3, InvoicingAssumption DEF Approve, Post, DocumentsFit
  <2>2. PICK w : w = [bill[b] EXCEPT !.status = "approved"] OBVIOUS
  <2>3. w.status = "approved" /\ w.month = bill[b].month /\ BillEntry(w) = BillEntry(bill[b])
    BY <2>1, <2>2, BillStatusOnly
  <2>4. bill'[b] = w /\ \A j \in Bills \ {b} : bill'[j] = bill[j]
    BY <2>1, <2>2 DEF DocumentsFit
  <2>5. b \in Documents /\ ~InForce(b) /\ ~Undone(b) BY <2>1 DEF Documents, InForce, Undone
  <2>6. InForce(b)' /\ ~Undone(b)' BY <2>1, <2>3, <2>4 DEF InForce, Undone
  <2>7. \A d \in Documents \ {b} : SameDocument(d) BY <2>1, <2>4, SameDocuments
  <2>8. EntryOf(b)' = BillEntry(w) /\ DateOf(b)' = w.month
    <3>1. EntryOf(b)' = BillEntry(bill'[b]) BY <2>1 DEF EntryOf
    <3>2. DateOf(b)' = bill'[b].month BY <2>1 DEF DateOf
    <3> QED BY <2>4, <3>1, <3>2
  <2>9. Own' = Own \cup {Posting(b)'}
    <3>1. journal' = journal \cup {Posting(b)'} BY <2>1, <2>3, <2>8 DEF Posting
    <3>2. Posting(b)'.by = "document" BY DEF Posting
    <3> QED BY <3>1, <3>2 DEF Own
  <2> QED BY <2>5, <2>6, <2>7, <2>9, JournalPosted
<1>4. ASSUME NEW b \in Bills, CancelBill(b) PROVE JournalFits'
  <2>1. /\ bill[b].status = "approved" /\ BillFits(bill[b]) /\ invoice' = invoice /\ month \in Nat
        /\ bill' = [bill EXCEPT ![b] = [bill[b] EXCEPT !.status = "cancelled"]]
        /\ b \notin SalesInvoices
    BY <1>4, InvoicingAssumption DEF CancelBill, DocumentsFit
  <2>2. PICK w : w = [bill[b] EXCEPT !.status = "cancelled"] OBVIOUS
  <2>3. w.status = "cancelled" /\ w.month = bill[b].month /\ BillEntry(w) = BillEntry(bill[b])
    BY <2>1, <2>2, BillStatusOnly
  <2>4. bill'[b] = w /\ \A j \in Bills \ {b} : bill'[j] = bill[j]
    BY <2>1, <2>2 DEF DocumentsFit
  <2>5. b \in Documents /\ InForce(b) /\ ~Undone(b) BY <2>1 DEF Documents, InForce, Undone
  <2>6. Undone(b)' BY <2>1, <2>3, <2>4 DEF Undone
  <2>7. \A d \in Documents \ {b} : SameDocument(d) BY <2>1, <2>4, SameDocuments
  <2>8. EntryOf(b)' = BillEntry(w) /\ DateOf(b)' = w.month
    <3>1. EntryOf(b)' = BillEntry(bill'[b]) BY <2>1 DEF EntryOf
    <3>2. DateOf(b)' = bill'[b].month BY <2>1 DEF DateOf
    <3> QED BY <2>4, <3>1, <3>2
  <2>9. EntryOf(b) = BillEntry(bill[b]) /\ DateOf(b) = bill[b].month BY <2>1 DEF EntryOf, DateOf
  <2>10. Own' = Own \cup {Undoing(b, month)}
    <3>1. PICK k \in journal : OwnEntry(k, b) /\ journal' = journal \cup {Reversal(k, "document")}
      BY <1>4 DEF CancelBill, Reverse
    <3>2. k = Posting(b) /\ EntryFits(k) BY <2>5, <3>1, OwnIsPosting
    <3>3. Reversal(k, "document") = Undoing(b, month)
      BY <3>2, ReversalIs DEF Posting, Undoing
    <3>4. Undoing(b, month).by = "document" BY DEF Undoing
    <3> QED BY <3>1, <3>3, <3>4 DEF Own
  <2> QED BY <2>1, <2>3, <2>5, <2>6, <2>7, <2>8, <2>9, <2>10, JournalUndone
<1> QED BY <1>1, <1>2, <1>3, <1>4, QuietStep DEF InvoicingNext

-----------------------------------------------------------------------------
(* Payments, step by step *)

\* An entry that no payment posted leaves what payments posted.
LEMMA OthersPost ==
  ASSUME PaymentsFit, payment' = payment,
         \/ journal' = journal
         \/ \E new : /\ journal' = journal \cup {new} /\ new.by \in {"document", "hand"}
                     /\ EntryFits(new)
  PROVE  PaymentsFit'
<1>1. /\ payment \in [Receipts -> PaymentType] /\ IsFiniteSet(journal)
      /\ \A k \in journal : EntryFits(k)
  BY DEF PaymentsFit
<1>2. \A k : EntryFits(k)' <=> EntryFits(k) BY DEF EntryFits
<1>3. \A m, c : OnAdvances(m, c)' = OnAdvances(m, c) BY DEF OnAdvances
<1>4. CASE journal' = journal
  <2>1. \A m, c : Out(c)' = Out(c) /\ Paying(m)' = Paying(m) BY <1>4 DEF Out, Paying
  <2> QED BY <1>1, <1>2, <1>3, <1>4, <2>1 DEF PaymentsFit
<1>5. ASSUME NEW new, new \notin journal, journal' = journal \cup {new}, new.by \in {"document", "hand"},
             EntryFits(new)
      PROVE  PaymentsFit'
  <2>1. ~(new.by = "payment") BY <1>5
  <2>2. \A m : \A c \in Components :
          SumFunctionOnSet(Out(c)', Paying(m)')
            = SumFunctionOnSet(Out(c), Paying(m))
               + IF new.by = "payment" /\ new.month = m THEN new.lines.out[c] ELSE 0
    BY <1>1, <1>5, <2>1, EntryAdds
  <2>3. \A m \in Months, c \in Components : OnAdvances(m, c) \in Int BY <1>1, SumHeld
  <2>4. \A m \in Months, c \in Components :
          SumFunctionOnSet(Out(c), Paying(m)) = 0 - OnAdvances(m, c)
    BY DEF PaymentsFit
  <2>5. \A m \in Months, c \in Components :
          SumFunctionOnSet(Out(c)', Paying(m)') = 0 - OnAdvances(m, c)
    BY <2>1, <2>2, <2>3, <2>4
  <2>6. IsFiniteSet(journal') /\ \A k \in journal' : EntryFits(k)
    BY <1>1, <1>5, FS_AddElement
  <2> QED BY <1>1, <1>2, <1>3, <2>5, <2>6 DEF PaymentsFit
<1>6. ASSUME NEW new, new \in journal, journal' = journal \cup {new} PROVE PaymentsFit'
  BY <1>4, <1>6
<1> QED BY <1>4, <1>5, <1>6

\* A payment's record becomes w and a new entry is posted, which moves the tax
\* accounts as the record changes.
Posts(p, w, new) ==
  /\ w \in PaymentType /\ w # NoPayment /\ payment' = [payment EXCEPT ![p] = w]
  /\ new = [lines |-> new.lines, month |-> new.month, doc |-> p, part |-> new.part, undoes |-> 0,
            by |-> "payment"]
  /\ journal' = journal \cup {new} /\ new.lines.out \in Tax /\ new.lines.itc = NoTax
  /\ new.part \in Nat /\ new.part <= Len(w.uses) /\ Len(w.uses) \in Nat
  /\ payment[p] # NoPayment => Len(payment[p].uses) < new.part /\ Len(payment[p].uses) \in Nat
  /\ \A m : \A c \in Components :
       HeldOn(w, m, c) = HeldOn(payment[p], m, c) - IF new.month = m THEN new.lines.out[c] ELSE 0

LEMMA PaymentPosts ==
  ASSUME PaymentsFit, NEW p \in Receipts, NEW w, NEW new, Posts(p, w, new)
  PROVE  PaymentsFit'
<1> USE DEF Posts
<1>1. /\ payment \in [Receipts -> PaymentType] /\ IsFiniteSet(journal)
      /\ \A k \in journal : EntryFits(k)
  BY DEF PaymentsFit
<1>2. new.by = "payment" /\ new.doc = p /\ new.undoes = 0 OBVIOUS
<1>3. PICK old : old = payment[p] OBVIOUS
<1>4. old # NoPayment => Len(old.uses) < new.part /\ Len(old.uses) \in Nat BY <1>3
<1>5. new \notin journal
  <2> SUFFICES ASSUME new \in journal PROVE FALSE OBVIOUS
  <2>1. old # NoPayment /\ new.part <= Len(old.uses) BY <1>1, <1>2, <1>3 DEF EntryFits
  <2> QED BY <1>4, <2>1
<1>6. payment' \in [Receipts -> PaymentType] /\ payment'[p] = w
      /\ \A r \in Receipts \ {p} : payment'[r] = payment[r]
  BY <1>1
<1>7. ASSUME NEW k \in journal PROVE EntryFits(k)'
  <2>1. CASE k.by = "payment" /\ k.doc = p
    <3>1. old # NoPayment /\ k.part <= Len(old.uses) /\ k.part \in Nat BY <1>1, <1>3, <2>1 DEF EntryFits
    <3>2. k.part <= Len(w.uses) BY <1>4, <3>1
    <3> QED BY <1>1, <1>6, <2>1, <3>2 DEF EntryFits
  <2>2. CASE k.by = "payment" /\ k.doc # p BY <1>1, <1>6, <2>2 DEF EntryFits
  <2>3. CASE k.by # "payment" BY <1>1, <2>3 DEF EntryFits
  <2> QED BY <2>1, <2>2, <2>3
<1>8. EntryFits(new)' BY <1>2, <1>6 DEF EntryFits
<1>9. IsFiniteSet(journal') /\ \A k \in journal' : EntryFits(k)' BY <1>1, <1>7, <1>8, FS_AddElement
<1>10. ASSUME NEW m \in Months, NEW c \in Components
       PROVE  SumFunctionOnSet(Out(c)', Paying(m)') = 0 - OnAdvances(m, c)'
  <2>1. PICK x : x = IF new.month = m THEN new.lines.out[c] ELSE 0 OBVIOUS
  <2>2. x \in Int BY <2>1 DEF Tax
  <2>3. SumFunctionOnSet(Out(c)', Paying(m)') = SumFunctionOnSet(Out(c), Paying(m)) + x
    <3>1. SumFunctionOnSet(Out(c)', Paying(m)')
           = SumFunctionOnSet(Out(c), Paying(m))
               + IF new.by = "payment" /\ new.month = m THEN new.lines.out[c] ELSE 0
      BY <1>1, <1>5, EntryAdds
    <3> QED BY <1>2, <2>1, <3>1
  <2>4. SumFunctionOnSet(Out(c), Paying(m)) = 0 - OnAdvances(m, c) BY DEF PaymentsFit
  <2>5. /\ OnAdvances(m, c) \in Int
        /\ OnAdvances(m, c)' = OnAdvances(m, c) - HeldOn(old, m, c) + HeldOn(w, m, c)
    BY <1>1, <1>3, SumHeld, RecordChanges
  <2>6. HeldOn(old, m, c) \in Int /\ HeldOn(w, m, c) = HeldOn(old, m, c) - x
    <3>1. old \in PaymentType BY <1>1, <1>3
    <3> QED BY <1>3, <2>1, <3>1, HeldIs
  <2>7. PICK a, b \in Int : a = OnAdvances(m, c) /\ b = HeldOn(old, m, c) BY <2>5, <2>6
  <2>8. OnAdvances(m, c)' = a - b + (b - x) BY <2>5, <2>6, <2>7
  <2>9. SumFunctionOnSet(Out(c)', Paying(m)') = (0 - a) + x BY <2>3, <2>4, <2>7
  <2>10. (0 - a) + x = 0 - (a - b + (b - x)) BY <2>2, <2>7
  <2> QED BY <2>8, <2>9, <2>10
<1> QED BY <1>6, <1>9, <1>10 DEF PaymentsFit

LEMMA MoneyOut ==
  \A bank, receivable, advance, tax :
    /\ MoneyEntry(bank, receivable, advance, tax).out = tax
    /\ MoneyEntry(bank, receivable, advance, tax).itc = NoTax
BY DEF MoneyEntry

\* A payment received, and its part used.
LEMMA BringsKeeps ==
  ASSUME PaymentsFit, NEW p \in Receipts, payment[p] = NoPayment,
         NEW amount \in Amounts, NEW part \in Shares \cup {0}, NEW rate \in AdvanceRates,
         NEW from \in Parties, NEW m \in Months, Brings(p, amount, part, rate, from, m)
  PROVE  PaymentsFit'
<1>1. amount \in Nat /\ part \in Nat /\ part <= amount /\ rate \in Nat /\ m \in Nat \ {0}
  BY InvoicingAssumption DEF Brings
<1>2. PICK rest \in Nat : rest = amount - part BY <1>1
<1>3. PICK tax \in Tax : tax = AdvanceTax(rest, rate, InterState(StateOf[from], HomeState))
  BY <1>1, AdvanceTaxType, InterStateType
<1>4. PICK e : e = MoneyEntry(amount, 0 - part, TaxOf(tax) - rest, [c \in Components |-> 0 - tax[c]])
  OBVIOUS
<1>5. PICK w : w = [month |-> m, pool |-> rest, left |-> rest, tax |-> tax, uses |-> <<>>] OBVIOUS
<1>6. PICK new : new = [lines |-> e, month |-> m, doc |-> p, part |-> 0, undoes |-> 0, by |-> "payment"]
  OBVIOUS
<1>7. payment' = [payment EXCEPT ![p] = w] /\ journal' = journal \cup {new}
  BY <1>2, <1>3, <1>4, <1>5, <1>6 DEF Brings, Post
<1>8. w \in PaymentType /\ w.uses = <<>> /\ w.month = m /\ w.tax = tax
  BY <1>1, <1>5 DEF PaymentType
<1>9. w # NoPayment
  <2>1. NoPayment.month = 0 BY DEF NoPayment
  <2> QED BY <1>1, <1>8, <2>1
<1>10. \A c \in Components : tax[c] \in Int BY DEF Tax
<1>11. e.out \in Tax /\ e.itc = NoTax /\ \A c \in Components : e.out[c] = 0 - tax[c]
  <2>1. e.out = [c \in Components |-> 0 - tax[c]] /\ e.itc = NoTax BY <1>4, MoneyOut
  <2> QED BY <1>10, <2>1 DEF Tax
<1>12. /\ new = [lines |-> new.lines, month |-> new.month, doc |-> p, part |-> new.part, undoes |-> 0,
                 by |-> "payment"]
       /\ new.lines = e /\ new.month = m /\ new.part = 0
  BY <1>6
<1>13. Len(w.uses) = 0 BY <1>8
<1>14. ASSUME NEW d, NEW c \in Components
       PROVE  HeldOn(w, d, c)
                = HeldOn(payment[p], d, c) - IF new.month = d THEN new.lines.out[c] ELSE 0
  <2>1. HeldOn(w, d, c) = IF m = d THEN tax[c] ELSE 0 BY <1>8, NotUsed
  <2>2. HeldOn(payment[p], d, c) = 0 BY NoPaymentIs
  <2>3. new.lines.out[c] = 0 - tax[c] /\ tax[c] \in Int BY <1>10, <1>11, <1>12
  <2> QED BY <1>12, <2>1, <2>2, <2>3
<1>15. new.part \in Nat /\ new.part <= Len(w.uses) /\ Len(w.uses) \in Nat BY <1>12, <1>13
<1>16. new.lines.out \in Tax /\ new.lines.itc = NoTax BY <1>11, <1>12
<1>17. payment[p] # NoPayment => Len(payment[p].uses) < new.part /\ Len(payment[p].uses) \in Nat
  OBVIOUS
<1>18. Posts(p, w, new) BY <1>7, <1>8, <1>9, <1>12, <1>14, <1>15, <1>16, <1>17 DEF Posts
<1> QED BY <1>18, PaymentPosts

LEMMA UseKeeps ==
  ASSUME PaymentsFit, month \in Nat, NEW p \in Receipts, NEW part \in Shares, NEW bank, NEW receivable,
         Use(p, part, bank, receivable)
  PROVE  PaymentsFit'
<1>1. PICK old : old = payment[p] OBVIOUS
<1>2. old \in PaymentType /\ payment \in [Receipts -> PaymentType] BY <1>1 DEF PaymentsFit
<1>3. part \in Nat \ {0} /\ part <= old.left BY <1>1, InvoicingAssumption DEF Use
<1>4. PICK share \in Tax : share = ShareOf(old, part) BY <1>2, <1>3, ShareType
<1>5. PICK e : e = MoneyEntry(bank, receivable, part - TaxOf(share), share) OBVIOUS
<1>6. PICK w : w = AfterUse(old, part, month) OBVIOUS
<1>7. PICK n \in Nat : n = Len(old.uses) BY <1>2 DEF PaymentType
<1>8. PICK new : new = [lines |-> e, month |-> month, doc |-> p, part |-> n + 1, undoes |-> 0,
                        by |-> "payment"]
  OBVIOUS
<1>9. journal' = journal \cup {new} BY <1>1, <1>4, <1>5, <1>7, <1>8 DEF Use, Post
<1>10. payment' = [payment EXCEPT ![p] = w]
  <2>1. payment' = [payment EXCEPT ![p].left = @ - part,
                                   ![p].uses = Append(@, [part |-> part, month |-> month])]
    BY DEF Use
  <2>2. PICK x : x = [old EXCEPT !.left = old.left - part] OBVIOUS
  <2>3. PICK f : f = [payment EXCEPT ![p].left = @ - part] OBVIOUS
  <2>4. f = [payment EXCEPT ![p] = x] BY <1>1, <2>2, <2>3
  <2>5. f[p] = x BY <1>2, <2>4
  <2>6. x.uses = old.uses BY <1>2, <2>2 DEF PaymentType
  <2>7. payment' = [f EXCEPT ![p].uses = Append(@, [part |-> part, month |-> month])] BY <2>1, <2>3
  <2>8. PICK q : q = Append(old.uses, [part |-> part, month |-> month]) OBVIOUS
  <2>9. payment' = [f EXCEPT ![p].uses = q] BY <2>5, <2>6, <2>7, <2>8
  <2>10. w = [x EXCEPT !.uses = q] BY <1>6, <2>2, <2>8 DEF AfterUse
  <2>11. payment' = [f EXCEPT ![p] = w] BY <2>5, <2>9, <2>10
  <2> QED BY <2>4, <2>11
<1>20. month \in Nat /\ part \in Nat /\ part <= old.left BY <1>3
<1>12. ASSUME NEW m, NEW c \in Components
       PROVE  /\ HeldOn(w, m, c) = HeldOn(old, m, c) - IF month = m THEN share[c] ELSE 0
              /\ w \in PaymentType /\ w # NoPayment /\ Len(w.uses) = Len(old.uses) + 1
  <2>1. PICK date \in Nat : date = month BY <1>20
  <2>2. w = AfterUse(old, part, date) BY <1>6, <2>1
  <2>3. old \in PaymentType /\ part \in Nat /\ part <= old.left BY <1>2, <1>20
  <2>4. /\ w \in PaymentType /\ w # NoPayment /\ Len(w.uses) = Len(old.uses) + 1
        /\ HeldOn(w, m, c) = HeldOn(old, m, c) - IF date = m THEN ShareOf(old, part)[c] ELSE 0
    BY ONLY <2>2, <2>3, date \in Nat, UsedOnce, c \in Components
  <2> QED BY <1>4, <2>1, <2>4
<1>11. w \in PaymentType /\ w # NoPayment /\ Len(w.uses) = n + 1
  <2>1. PICK c \in Components : c = "cgst" BY DEF Components
  <2>2. PICK x : x = HeldOn(w, month, c) OBVIOUS
  <2>3. w \in PaymentType /\ w # NoPayment /\ Len(w.uses) = Len(old.uses) + 1 BY <1>12, <2>2
  <2> QED BY <1>7, <2>3
<1>13. e.out = share /\ e.itc = NoTax BY <1>5, MoneyOut
<1>14. /\ new = [lines |-> new.lines, month |-> new.month, doc |-> p, part |-> new.part, undoes |-> 0,
                 by |-> "payment"]
       /\ new.lines = e /\ new.month = month /\ new.part = n + 1
  BY <1>8
<1>15. new.part \in Nat /\ new.part <= Len(w.uses) /\ Len(w.uses) \in Nat BY <1>11, <1>14
<1>16. new.lines.out \in Tax /\ new.lines.itc = NoTax BY <1>13, <1>14
<1>17. Len(payment[p].uses) < new.part /\ Len(payment[p].uses) \in Nat BY <1>1, <1>7, <1>14
<1>18. \A m : \A c \in Components :
         HeldOn(w, m, c) = HeldOn(payment[p], m, c) - IF new.month = m THEN new.lines.out[c] ELSE 0
  BY <1>1, <1>12, <1>13, <1>14
<1>19. Posts(p, w, new) BY <1>9, <1>10, <1>11, <1>14, <1>15, <1>16, <1>17, <1>18 DEF Posts
<1> QED BY <1>19, PaymentPosts

LEMMA PaymentsStep ==
  ASSUME DocumentsFit, PaymentsFit, [InvoicingNext]_invoicingVars
  PROVE  PaymentsFit'
<1>1. CASE journal' = journal /\ payment' = payment BY <1>1, OthersPost
<1>2. ASSUME NEW e, NEW date, NEW doc, Post(e, date, doc, 0, "document"), payment' = payment
      PROVE  PaymentsFit'
  <2>1. PICK new : new = [lines |-> e, month |-> date, doc |-> doc, part |-> 0, undoes |-> 0,
                          by |-> "document"]
    OBVIOUS
  <2>2. journal' = journal \cup {new} BY <1>2, <2>1 DEF Post
  <2>3. new.by = "document" /\ EntryFits(new) BY <2>1 DEF EntryFits
  <2> QED BY <1>2, <2>2, <2>3, OthersPost
<1>3. ASSUME NEW k \in journal, NEW by \in {"document", "hand"}, Reverse(k, by), payment' = payment
      PROVE  PaymentsFit'
  <2>1. EntryFits(k) BY DEF PaymentsFit
  <2>2. k.undoes \in Nat BY <2>1 DEF EntryFits
  <2>3. PICK new : new = Reversal(k, by) OBVIOUS
  <2>4. new = [lines |-> Negated(k.lines), month |-> month, doc |-> k.doc, part |-> k.part,
               undoes |-> k.undoes + 1, by |-> by]
    BY <2>1, <2>3, ReversalIs
  <2>5. new.by = by /\ EntryFits(new) BY <2>2, <2>4 DEF EntryFits
  <2>6. journal' = journal \cup {new} BY <1>3, <2>3 DEF Reverse
  <2> QED BY <1>3, <2>5, <2>6, OthersPost
<1>4. ASSUME NEW p \in Receipts, Receive(p) PROVE PaymentsFit'
  <2>1. payment[p] = NoPayment BY <1>4 DEF Receive
  <2> QED BY <1>4, <2>1, ReceiveIs, BringsKeeps
<1>5. ASSUME NEW p \in Receipts, Allocate(p) \/ Refund(p) PROVE PaymentsFit'
  <2>1. PICK part \in Shares : \E bank, receivable : Use(p, part, bank, receivable)
    BY <1>5 DEF Allocate, Refund
  <2>2. month \in Nat BY DEF DocumentsFit
  <2> QED BY <2>1, <2>2, UseKeeps
<1>6. ASSUME NEW i \in SalesInvoices, IssueInvoice(i) PROVE PaymentsFit'
  BY <1>2, <1>6 DEF IssueInvoice
<1>7. ASSUME NEW i \in SalesInvoices, CancelInvoice(i) PROVE PaymentsFit'
  BY <1>3, <1>7 DEF CancelInvoice
<1>8. ASSUME NEW b \in Bills, Approve(b) PROVE PaymentsFit'
  BY <1>2, <1>8 DEF Approve
<1>9. ASSUME NEW b \in Bills, CancelBill(b) PROVE PaymentsFit'
  BY <1>3, <1>9 DEF CancelBill
<1>10. CASE ReverseByHand BY <1>3, <1>10 DEF ReverseByHand
<1> QED BY <1>1, <1>4, <1>5, <1>6, <1>7, <1>8, <1>9, <1>10
        DEF InvoicingNext, invoicingVars, Draft, Overdue, WriteDraft, ReadDraft, Enter, NextMonth

LEMMA InvoicingNextStep ==
  ASSUME InvoicingInv, [InvoicingNext]_invoicingVars PROVE InvoicingInv'
BY DocumentsStep, JournalStep, PaymentsStep DEF InvoicingInv

-----------------------------------------------------------------------------
(* Totals *)

\* What is worth its lines is taxed alike on both sides of a border, and balances.
LEMMA InvoicesBalance ==
  ASSUME DocumentsFit, NEW i \in SalesInvoices, invoice[i].status # "absent"
  PROVE  /\ invoice[i].totals = Totals(invoice[i].lines, invoice[i].inter)
         /\ invoice[i].inter = InterState(HomeState, invoice[i].pos)
         /\ TaxOf(invoice[i].totals.tax) = TaxOf(TaxTotals(invoice[i].lines, ~invoice[i].inter))
         /\ Balanced(InvoiceEntry(invoice[i])) /\ invoice[i].totals.roundOff \in -49..50
<1>1. PICK v : v = invoice[i] OBVIOUS
<1>2. InvoiceFits(v) /\ v.status # "absent" BY <1>1 DEF DocumentsFit
<1>3. /\ v.lines \in SUBSET LineType /\ IsFiniteSet(v.lines) /\ v.inter \in BOOLEAN
      /\ v.totals = Totals(v.lines, v.inter) /\ v.inter = InterState(HomeState, v.pos)
  BY <1>2 DEF InvoiceFits, InvoiceType
<1>4. v.totals.tax = TaxTotals(v.lines, v.inter) /\ v.totals.roundOff \in -49..50
  BY <1>3, TotalsTyped
<1>5. TaxOf(v.totals.tax) = TaxOf(TaxTotals(v.lines, ~v.inter)) BY <1>3, <1>4, SameTax
<1>6. Balanced(InvoiceEntry(v)) BY <1>3, InvoiceBalances
<1> QED BY <1>1, <1>3, <1>4, <1>5, <1>6

LEMMA BillsBalance ==
  ASSUME DocumentsFit, NEW b \in Bills, bill[b].status # "absent"
  PROVE  Balanced(BillEntry(bill[b]))
<1>1. PICK v : v = bill[b] OBVIOUS
<1>2. BillFits(v) /\ v.status # "absent" BY <1>1 DEF DocumentsFit
<1>3. /\ v.lines \in SUBSET LineType /\ IsFiniteSet(v.lines) /\ v.inter \in BOOLEAN
      /\ v.totals = BillTotals(v.lines, v.inter)
  BY <1>2 DEF BillFits, BillType
<1>4. Balanced(BillEntry(v)) BY <1>3, BillBalances
<1> QED BY <1>1, <1>4

\* What is issued stays what was issued.
IssuedStays ==
  \A i \in SalesInvoices :
    invoice[i].status \notin {"absent", "draft"} =>
      [invoice'[i] EXCEPT !.status = invoice[i].status, !.paid = invoice[i].paid] = invoice[i]

\* An invoice with what it was paid and its status put back
Back(w, v) == [w EXCEPT !.status = v.status, !.paid = v.paid]

LEMMA BackIs ==
  ASSUME NEW v, v \in InvoiceType
  PROVE  /\ Back(v, v) = v /\ \A s : Back(Turned(v, s), v) = v
         /\ \A x, s : Back(PaidOff(v, x, s), v) = v
<1>1. PICK a, b, c, d, e, f, g, h, i :
        v = [status |-> a, paid |-> b, party |-> c, snapshot |-> d, month |-> e, pos |-> f, lines |-> g,
             inter |-> h, totals |-> i]
  BY DEF InvoiceType
<1>2. ASSUME NEW x, NEW s
      PROVE  Back([status |-> s, paid |-> x, party |-> c, snapshot |-> d, month |-> e, pos |-> f,
                   lines |-> g, inter |-> h, totals |-> i], v) = v
  <2>1. PICK w : w = [status |-> s, paid |-> x, party |-> c, snapshot |-> d, month |-> e, pos |-> f,
                      lines |-> g, inter |-> h, totals |-> i]
    OBVIOUS
  <2>2. PICK u : u = [w EXCEPT !.status = a] OBVIOUS
  <2>3. u = [status |-> a, paid |-> x, party |-> c, snapshot |-> d, month |-> e, pos |-> f,
             lines |-> g, inter |-> h, totals |-> i]
    BY <2>1, <2>2
  <2>4. Back(w, v) = [u EXCEPT !.paid = b] BY <1>1, <2>2 DEF Back
  <2>5. Back(w, v) = v BY <1>1, <2>3, <2>4
  <2> QED BY <2>1, <2>5
<1>3. Back(v, v) = v BY <1>1, <1>2
<1>4. ASSUME NEW s PROVE Back(Turned(v, s), v) = v
  <2>1. Turned(v, s) = [status |-> s, paid |-> b, party |-> c, snapshot |-> d, month |-> e, pos |-> f,
                        lines |-> g, inter |-> h, totals |-> i]
    BY <1>1 DEF Turned
  <2> QED BY <1>2, <2>1
<1>5. ASSUME NEW x, NEW s PROVE Back(PaidOff(v, x, s), v) = v
  <2>1. PICK u : u = [v EXCEPT !.paid = x] OBVIOUS
  <2>2. u = [status |-> a, paid |-> x, party |-> c, snapshot |-> d, month |-> e, pos |-> f,
             lines |-> g, inter |-> h, totals |-> i]
    BY <1>1, <2>1
  <2>3. PaidOff(v, x, s) = [u EXCEPT !.status = s] BY <2>1 DEF PaidOff
  <2>4. PaidOff(v, x, s) = [status |-> s, paid |-> x, party |-> c, snapshot |-> d, month |-> e, pos |-> f,
                            lines |-> g, inter |-> h, totals |-> i]
    BY <2>2, <2>3
  <2> QED BY <1>2, <2>4
<1> QED BY <1>3, <1>4, <1>5

LEMMA IssuedKept ==
  ASSUME DocumentsFit, [InvoicingNext]_invoicingVars PROVE IssuedStays
<1> SUFFICES ASSUME NEW i \in SalesInvoices, invoice[i].status \notin {"absent", "draft"}
             PROVE  [invoice'[i] EXCEPT !.status = invoice[i].status, !.paid = invoice[i].paid]
                      = invoice[i]
  BY Zenon DEF IssuedStays
<1>1. PICK v, w : v = invoice[i] /\ w = invoice'[i] OBVIOUS
<1>2. v \in InvoiceType BY <1>1 DEF DocumentsFit
<1>3. InvoiceStep(i) BY DocumentsStep
<1>4. \/ w = v \/ w = Turned(v, "cancelled") \/ w = Turned(v, "overdue")
      \/ \E x \in Nat, s \in Standing : w = PaidOff(v, x, s)
  BY <1>1, <1>3 DEF InvoiceStep, Goes
<1>5. Back(w, v) = v BY <1>2, <1>4, BackIs
<1>6. Back(invoice'[i], invoice[i]) = invoice[i] BY <1>1, <1>5
<1> QED BY <1>6 DEF Back

\* The state part of TotalsFollowLines.
TotalsFit ==
  /\ \A i \in SalesInvoices :
       invoice[i].status # "absent" =>
         /\ invoice[i].totals = Totals(invoice[i].lines, invoice[i].inter)
         /\ invoice[i].inter = InterState(HomeState, invoice[i].pos)
         /\ TaxOf(invoice[i].totals.tax) = TaxOf(TaxTotals(invoice[i].lines, ~invoice[i].inter))
         /\ Balanced(InvoiceEntry(invoice[i])) /\ invoice[i].totals.roundOff \in -49..50
  /\ \A b \in Bills : bill[b].status # "absent" => Balanced(BillEntry(bill[b]))

\* Totals follow lines (the property TotalsFollowLines): whatever lines, places and
\* edits that overlap, an invoice's totals are its lines', taxed alike within a state
\* and across a border, its entry balances, and what is issued stays as it is.
THEOREM TotalsHold == InvoicingSpec => TotalsFollowLines
<1>1. InvoicingInit => InvoicingInv BY InvoicingStarts
<1>2. InvoicingInv /\ [InvoicingNext]_invoicingVars => InvoicingInv' BY InvoicingNextStep
<1>3. InvoicingInv => TotalsFit BY InvoicesBalance, BillsBalance DEF InvoicingInv, TotalsFit
<1>4. InvoicingInv /\ [InvoicingNext]_invoicingVars => [IssuedStays]_invoice
  BY IssuedKept DEF InvoicingInv
<1>5. InvoicingSpec => []TotalsFit /\ [][IssuedStays]_invoice
  BY <1>1, <1>2, <1>3, <1>4, PTL DEF InvoicingSpec
<1> QED BY <1>5 DEF TotalsFollowLines, TotalsFit, IssuedStays

-----------------------------------------------------------------------------
(* The journal's movement *)

\* What moves in a month, but for what straddles months, is what documents in
\* force of that month have posted.
OfDocuments(m) == {k \in Own \ Straddling : k.month = m}

LEMMA KeptIs ==
  ASSUME PaymentsFit, NEW m
  PROVE  /\ Kept(m) = OfDocuments(m) \cup Paying(m) /\ OfDocuments(m) \cap Paying(m) = {}
         /\ IsFiniteSet(OfDocuments(m)) /\ IsFiniteSet(Paying(m))
<1>1. IsFiniteSet(journal) /\ \A k \in journal : k.by \in {"document", "payment", "hand"}
  BY DEF PaymentsFit, EntryFits
<1>2. OfDocuments(m) \subseteq journal /\ Paying(m) \subseteq journal BY DEF OfDocuments, Paying, Own
<1>3. \A k \in Straddling : k.by = "document" BY DEF Straddling
<1>4. Kept(m) = OfDocuments(m) \cup Paying(m) BY <1>1, <1>3 DEF Kept, OfDocuments, Paying, Own
<1>5. OfDocuments(m) \cap Paying(m) = {} BY DEF OfDocuments, Paying, Own
<1> QED BY <1>1, <1>2, <1>4, <1>5, FS_Subset

LEMMA StraddlingIs ==
  \A k \in Own : k \in Straddling <=> \E n \in Own : n.doc = k.doc /\ n.month # k.month
BY DEF Own, Straddling

LEMMA MonthMoves ==
  ASSUME JournalFits, NEW m \in Nat, NEW f, NEW w, \A d \in Documents : w[d] \in Int,
         \A k \in Own : f[k] = IF k.undoes = 1 THEN 0 - w[k.doc] ELSE w[k.doc]
  PROVE  SumFunctionOnSet(f, OfDocuments(m))
           = SumFunctionOnSet(w, {d \in Documents : InForce(d) /\ DateOf(d) = m})
<1> DEFINE K == OfDocuments(m)
           live == {d \in Documents : InForce(d) /\ DateOf(d) = m}
           key == [k \in K |-> k.doc]
           of(d) == {k \in K : key[k] = d}
           sums == [d \in Documents |-> SumFunctionOnSet(f, of(d))]
<1>1. IsFiniteSet(Documents) BY InvoicingAssumption, FS_Union DEF Documents
<1>2. K \in SUBSET Own /\ IsFiniteSet(K) BY FS_Subset DEF OfDocuments, JournalFits
<1>3. \A k \in K : f[k] \in Int /\ key[k] \in Documents BY <1>2 DEF JournalFits
<1>4. SumFunctionOnSet(f, K) = SumFunctionOnSet(sums, Documents)
  <2> HIDE DEF K, key
  <2> QED BY <1>1, <1>2, <1>3, SumOfGroups
<1>5. ASSUME NEW d \in Documents PROVE sums[d] = IF d \in live THEN w[d] ELSE 0
  <2>1. of(d) = {k \in Own : k.doc = d /\ k.month = m /\ k \notin Straddling}
    BY DEF OfDocuments
  <2>2. PICK S : S = of(d) OBVIOUS
  <2>3. sums[d] = SumFunctionOnSet(f, S) BY <2>2
  <2>4. S = {k \in Own : k.doc = d /\ k.month = m /\ k \notin Straddling} BY <2>1, <2>2
  <2> HIDE DEF of, sums, K, key
  <2>5. CASE ~InForce(d) /\ ~Undone(d)
    <3>1. S = {} BY <2>4, <2>5 DEF JournalFits
    <3>2. SumFunctionOnSet(f, {}) = 0 BY SumEmpty
    <3> QED BY <2>3, <2>5, <3>1, <3>2
  <2>6. CASE InForce(d) /\ ~Undone(d)
    <3>1. \A k \in Own : k.doc = d => k = Posting(d) BY <2>6 DEF JournalFits
    <3>2. Posting(d) \in Own BY <2>6 DEF JournalFits
    <3>3. PICK p : p = Posting(d) OBVIOUS
    <3>4. p.doc = d /\ p.month = DateOf(d) /\ p.undoes = 0 BY <3>3 DEF Posting
    <3>5. CASE DateOf(d) = m
      <4>1. p \notin Straddling BY <3>1, <3>2, <3>3, <3>4, StraddlingIs
      <4>2. S = {p} BY <2>4, <3>1, <3>2, <3>3, <3>4, <3>5, <4>1
      <4>3. f[p] = w[d] /\ w[d] \in Int BY <3>2, <3>3, <3>4
      <4>4. SumFunctionOnSet(f, {p}) = f[p] BY <4>3, SumOfOne
      <4> QED BY <2>3, <2>6, <3>5, <4>2, <4>3, <4>4
    <3>6. CASE DateOf(d) # m
      <4>1. S = {} BY <2>4, <3>1, <3>3, <3>4, <3>6
      <4>2. SumFunctionOnSet(f, {}) = 0 BY SumEmpty
      <4> QED BY <2>3, <3>6, <4>1, <4>2
    <3> QED BY <3>5, <3>6
  <2>7. CASE Undone(d)
    <3>1. ~InForce(d) BY <2>7 DEF InForce, Undone, Standing
    <3>2. PICK n \in Nat : Undoing(d, n) \in Own BY <2>7 DEF JournalFits
    <3>3. PICK p, q : p = Posting(d) /\ q = Undoing(d, n) OBVIOUS
    <3>4. p \in Own /\ q \in Own BY <2>7, <3>2, <3>3 DEF JournalFits
    <3>5. /\ p.doc = d /\ p.month = DateOf(d) /\ p.undoes = 0
          /\ q.doc = d /\ q.month = n /\ q.undoes = 1
      BY <3>3 DEF Posting, Undoing
    <3>6. \A k \in Own : k.doc = d => k = p \/ k = q
      <4> SUFFICES ASSUME NEW k \in Own, k.doc = d PROVE k = p \/ k = q OBVIOUS
      <4>1. k.undoes = 0 \/ k.undoes = 1 BY DEF JournalFits, Posting, Undoing
      <4> QED BY <3>4, <3>5, <4>1 DEF JournalFits
    <3>7. CASE n # DateOf(d)
      <4>1. p \in Straddling /\ q \in Straddling BY <3>4, <3>5, <3>7, StraddlingIs
      <4>2. S = {} BY <2>4, <3>6, <4>1
      <4>3. SumFunctionOnSet(f, {}) = 0 BY SumEmpty
      <4> QED BY <2>3, <3>1, <4>2, <4>3
    <3>8. CASE n = DateOf(d) /\ n # m
      <4>1. S = {} BY <2>4, <3>5, <3>6, <3>8
      <4>2. SumFunctionOnSet(f, {}) = 0 BY SumEmpty
      <4> QED BY <2>3, <3>1, <4>1, <4>2
    <3>9. CASE n = DateOf(d) /\ n = m
      <4>1. p \notin Straddling /\ q \notin Straddling BY <3>4, <3>5, <3>6, <3>9, StraddlingIs
      <4>2. S = {p} \cup {q} BY <2>4, <3>4, <3>5, <3>6, <3>9, <4>1
      <4>3. f[p] = w[d] /\ f[q] = 0 - w[d] /\ w[d] \in Int BY <3>4, <3>5
      <4>4. SumFunctionOnSet(f, {p}) = f[p] /\ IsFiniteSet({p}) BY <4>3, SumOfOne
      <4>5. q \notin {p} BY <3>5
      <4>6. \A x \in {p} \cup {q} : f[x] \in Int BY <4>3
      <4>7. SumFunctionOnSet(f, {p} \cup {q}) = f[q] + SumFunctionOnSet(f, {p})
        BY ONLY <4>4, <4>5, <4>6, SumAdd
      <4>8. SumFunctionOnSet(f, S) = 0
        <5>1. PICK x \in Int : f[p] = x /\ f[q] = 0 - x BY <4>3
        <5>2. SumFunctionOnSet(f, {p} \cup {q}) = (0 - x) + x BY <4>4, <4>7, <5>1
        <5>3. (0 - x) + x = 0 OBVIOUS
        <5> QED BY <4>2, <5>2, <5>3
      <4> QED BY <2>3, <3>1, <4>8
    <3> QED BY <3>7, <3>8, <3>9
  <2> QED BY <2>5, <2>6, <2>7
<1>6. \A d \in Documents : sums[d] = IF d \in live THEN w[d] ELSE 0 BY <1>5
<1>7. live \in SUBSET Documents /\ \A d \in live : w[d] \in Int OBVIOUS
<1> HIDE DEF sums, live, K
<1>8. SumFunctionOnSet(w, live) = SumFunctionOnSet(sums, Documents)
  BY ONLY <1>1, <1>6, <1>7, SumOfPart
<1>9. SumFunctionOnSet(f, K) = SumFunctionOnSet(w, live) BY <1>4, <1>8
<1> QED BY <1>9 DEF K, live

-----------------------------------------------------------------------------
(* The returns and the books *)

\* An entry of a document in force, or cancelled, as its fields.
LEMMA EntryFields ==
  ASSUME DocumentsFit, NEW d \in Documents, NEW c \in Components
  PROVE  /\ d \in SalesInvoices => /\ EntryOf(d).out[c] = 0 - invoice[d].totals.tax[c]
                                   /\ EntryOf(d).itc[c] = 0
                                   /\ invoice[d].totals.tax[c] \in Int
         /\ d \notin SalesInvoices =>
              /\ d \in Bills /\ EntryOf(d).out[c] = 0
              /\ EntryOf(d).itc[c] = TaxTotals(Eligible(bill[d].lines), bill[d].inter)[c]
              /\ EntryOf(d).itc[c] \in Int
<1>1. CASE d \in SalesInvoices
  <2>1. EntryOf(d) = InvoiceEntry(invoice[d]) BY <1>1 DEF EntryOf
  <2>2. PICK v : v = invoice[d] /\ v \in InvoiceType BY <1>1 DEF DocumentsFit
  <2>3. v.totals \in TotalsType BY <2>2 DEF InvoiceType
  <2>4. v.totals.tax[c] \in Int BY <2>3 DEF TotalsType, Tax
  <2>5. InvoiceEntry(v).out[c] = 0 - v.totals.tax[c] /\ InvoiceEntry(v).itc[c] = 0
    BY DEF InvoiceEntry, NoTax
  <2> QED BY <1>1, <2>1, <2>2, <2>4, <2>5
<1>2. CASE d \notin SalesInvoices
  <2>1. d \in Bills /\ EntryOf(d) = BillEntry(bill[d]) BY <1>2 DEF EntryOf, Documents
  <2>2. PICK v : v = bill[d] /\ BillFits(v) BY <2>1 DEF DocumentsFit
  <2>3. v.lines \in SUBSET LineType /\ IsFiniteSet(v.lines) /\ v.inter \in BOOLEAN
    BY <2>2 DEF BillFits, BillType
  <2>4. PICK E : E = Eligible(v.lines) OBVIOUS
  <2>5. E \in SUBSET LineType /\ IsFiniteSet(E) BY <2>3, <2>4, FS_Subset DEF Eligible
  <2>6. TaxTotals(E, v.inter)[c] \in Int BY <2>3, <2>5, LinesAddUp DEF Tax
  <2>7. BillEntry(v).out[c] = 0 /\ BillEntry(v).itc[c] = TaxTotals(E, v.inter)[c]
    BY <2>4 DEF BillEntry, NoTax
  <2> QED BY <1>2, <2>1, <2>2, <2>4, <2>6, <2>7
<1> QED BY <1>1, <1>2

\* What an entry in the journal has of a component.
LEMMA JournalFields ==
  ASSUME JournalFits, NEW k \in Own, NEW c \in Components
  PROVE  /\ k.lines.out[c] = IF k.undoes = 1 THEN 0 - EntryOf(k.doc).out[c] ELSE EntryOf(k.doc).out[c]
         /\ k.lines.itc[c] = IF k.undoes = 1 THEN 0 - EntryOf(k.doc).itc[c] ELSE EntryOf(k.doc).itc[c]
<1>1. CASE k = Posting(k.doc)
  <2>1. k.undoes = 0 /\ k.lines = EntryOf(k.doc) BY <1>1 DEF Posting
  <2> QED BY <2>1
<1>2. CASE \E m \in Nat : k = Undoing(k.doc, m)
  <2>1. k.undoes = 1 /\ k.lines = Negated(EntryOf(k.doc)) BY <1>2 DEF Undoing
  <2>2. \A e : Negated(e).out[c] = 0 - e.out[c] /\ Negated(e).itc[c] = 0 - e.itc[c] BY DEF Negated
  <2> QED BY <2>1, <2>2
<1> QED BY <1>1, <1>2 DEF JournalFits

Live(m) == {d \in Documents : InForce(d) /\ DateOf(d) = m}

LEMMA LiveAre ==
  ASSUME NEW m
  PROVE  /\ Live(m) = Filed(m) \cup Claimed(m)
         /\ Filed(m) \cap Claimed(m) = {}
         /\ IsFiniteSet(Live(m)) /\ IsFiniteSet(Filed(m)) /\ IsFiniteSet(Claimed(m))
         /\ Filed(m) = Live(m) \cap SalesInvoices /\ Claimed(m) = Live(m) \ SalesInvoices
<1>1. SalesInvoices \cap Bills = {} BY InvoicingAssumption
<1>2. \A b \in Bills : b \notin SalesInvoices BY <1>1
<1>3. Filed(m) = Live(m) \cap SalesInvoices
  BY DEF Filed, Live, Documents, InForce, DateOf
<1>4. Claimed(m) = Live(m) \ SalesInvoices
  BY <1>2 DEF Claimed, Live, Documents, InForce, DateOf
<1>5. IsFiniteSet(Documents) BY InvoicingAssumption, FS_Union DEF Documents
<1>6. Live(m) \in SUBSET Documents BY DEF Live
<1>7. IsFiniteSet(Live(m)) BY <1>5, <1>6, FS_Subset
<1>8. IsFiniteSet(Filed(m)) /\ IsFiniteSet(Claimed(m)) BY <1>3, <1>4, <1>7, FS_Subset
<1> QED BY <1>3, <1>4, <1>7, <1>8

LEMMA OutwardIsPosted ==
  ASSUME DocumentsFit, JournalFits, PaymentsFit, NEW m \in Months, NEW c \in Components
  PROVE  Outward(m, c) + OnAdvances(m, c) = 0 - OutputTax(m, c)
<1> DEFINE w == [d \in Documents |-> EntryOf(d).out[c]]
           f == Out(c)
           g == [k \in Kept(m) |-> k.lines.out[c]]
           t == [i \in Filed(m) |-> invoice[i].totals.tax[c]]
<1>1. \A d \in Documents : w[d] \in Int BY EntryFields
<1>2. ASSUME NEW k \in Own PROVE f[k] = IF k.undoes = 1 THEN 0 - w[k.doc] ELSE w[k.doc]
  <2>1. k.doc \in Documents BY DEF JournalFits
  <2> QED BY <2>1, JournalFields DEF Own, Out
<1>3. m \in Nat BY InvoicingAssumption
<1>4. SumFunctionOnSet(f, OfDocuments(m)) = SumFunctionOnSet(w, Live(m))
  <2> HIDE DEF w, f
  <2> QED BY <1>1, <1>2, <1>3, MonthMoves DEF Live
<1>5. OutputTax(m, c) = SumFunctionOnSet(f, Kept(m))
  <2>1. OutputTax(m, c) = SumFunctionOnSet(g, Kept(m)) BY DEF OutputTax, SumFunction
  <2>2. IsFiniteSet(Kept(m)) BY FS_Subset, Kept(m) \subseteq journal DEF Kept, PaymentsFit
  <2>3. \A k \in Kept(m) : g[k] = f[k] BY DEF Kept, Out
  <2> HIDE DEF f, g
  <2>4. SumFunctionOnSet(g, Kept(m)) = SumFunctionOnSet(f, Kept(m)) BY <2>2, <2>3, SumSame
  <2> QED BY <2>1, <2>4
<1>6. PICK F, C, L : F = Filed(m) /\ C = Claimed(m) /\ L = Live(m) OBVIOUS
<1>7. /\ F \cap C = {} /\ IsFiniteSet(F) /\ IsFiniteSet(C) /\ L = F \cup C
      /\ F \in SUBSET SalesInvoices /\ F \in SUBSET Documents
      /\ C \in SUBSET Documents /\ \A d \in C : d \notin SalesInvoices
  <2>1. Live(m) \in SUBSET Documents BY DEF Live
  <2> QED BY <1>6, <2>1, LiveAre
<1>8. \A i \in F : t[i] \in Int /\ w[i] = 0 - t[i] BY <1>6, <1>7, EntryFields
<1>9. \A d \in C : w[d] = 0 BY <1>7, EntryFields
<1>10. \A d \in F \cup C : w[d] \in Int BY <1>1, <1>7
<1>11. Outward(m, c) = SumFunctionOnSet(t, F) BY <1>6 DEF Outward, SumFunction
<1>20. \A k \in OfDocuments(m) \cup Paying(m) : f[k] \in Int
  <2>1. ASSUME NEW k \in OfDocuments(m) PROVE f[k] \in Int
    <3>1. k \in Own /\ k.doc \in Documents BY DEF OfDocuments, JournalFits
    <3>2. PICK x \in Int : x = w[k.doc] BY <1>1, <3>1
    <3>3. f[k] = IF k.undoes = 1 THEN 0 - x ELSE x BY <1>2, <3>1, <3>2
    <3> QED BY <3>3
  <2>2. ASSUME NEW k \in Paying(m) PROVE f[k] \in Int
    BY DEF Paying, PaymentsFit, EntryFits, Tax, Out
  <2> QED BY <2>1, <2>2
<1>21. SumFunctionOnSet(f, Paying(m)) = 0 - OnAdvances(m, c) BY DEF PaymentsFit
<1> HIDE DEF w, f, g, t
<1>22. SumFunctionOnSet(f, Kept(m)) = SumFunctionOnSet(f, OfDocuments(m)) + SumFunctionOnSet(f, Paying(m))
  BY <1>20, KeptIs, SumUnion
<1>23. OnAdvances(m, c) \in Int BY SumHeld DEF PaymentsFit
<1>12. SumFunctionOnSet(w, F \cup C) = SumFunctionOnSet(w, F) + SumFunctionOnSet(w, C)
  BY ONLY <1>7, <1>10, SumUnion
<1>13. SumFunctionOnSet(w, C) = 0 BY <1>7, <1>9, SumZero
<1>14. SumFunctionOnSet(w, F) = 0 - SumFunctionOnSet(t, F) BY <1>7, <1>8, SumNegated
<1>15. SumFunctionOnSet(t, F) \in Int BY <1>7, <1>8, SumType
<1>16. OutputTax(m, c) = SumFunctionOnSet(w, F \cup C) + (0 - OnAdvances(m, c))
  BY <1>4, <1>5, <1>6, <1>7, <1>21, <1>22
<1>17. PICK x \in Int : x = SumFunctionOnSet(t, F) BY <1>15
<1>18. OutputTax(m, c) = (0 - x) + 0 + (0 - OnAdvances(m, c)) BY <1>12, <1>13, <1>14, <1>16, <1>17
<1> QED BY <1>11, <1>17, <1>18, <1>23

LEMMA CreditIsPosted ==
  ASSUME DocumentsFit, JournalFits, PaymentsFit, NEW m \in Months, NEW c \in Components
  PROVE  Credit(m, c) = InputTax(m, c)
<1> DEFINE w == [d \in Documents |-> EntryOf(d).itc[c]]
           f == [k \in journal |-> k.lines.itc[c]]
           g == [k \in Kept(m) |-> k.lines.itc[c]]
           t == [b \in Claimed(m) |-> TaxTotals(Eligible(bill[b].lines), bill[b].inter)[c]]
<1>1. \A d \in Documents : w[d] \in Int BY EntryFields
<1>2. ASSUME NEW k \in Own PROVE f[k] = IF k.undoes = 1 THEN 0 - w[k.doc] ELSE w[k.doc]
  <2>1. k.doc \in Documents BY DEF JournalFits
  <2> QED BY <2>1, JournalFields DEF Own
<1>3. m \in Nat BY InvoicingAssumption
<1>4. SumFunctionOnSet(f, OfDocuments(m)) = SumFunctionOnSet(w, Live(m))
  <2> HIDE DEF w, f
  <2> QED BY <1>1, <1>2, <1>3, MonthMoves DEF Live
<1>5. InputTax(m, c) = SumFunctionOnSet(f, Kept(m))
  <2>1. InputTax(m, c) = SumFunctionOnSet(g, Kept(m)) BY DEF InputTax, SumFunction
  <2>2. IsFiniteSet(Kept(m)) BY FS_Subset, Kept(m) \subseteq journal DEF Kept, PaymentsFit
  <2>3. \A k \in Kept(m) : g[k] = f[k] BY DEF Kept
  <2> HIDE DEF f, g
  <2>4. SumFunctionOnSet(g, Kept(m)) = SumFunctionOnSet(f, Kept(m)) BY <2>2, <2>3, SumSame
  <2> QED BY <2>1, <2>4
<1>6. PICK F, C, L : F = Filed(m) /\ C = Claimed(m) /\ L = Live(m) OBVIOUS
<1>7. /\ F \cap C = {} /\ IsFiniteSet(F) /\ IsFiniteSet(C) /\ L = F \cup C
      /\ F \in SUBSET SalesInvoices /\ F \in SUBSET Documents
      /\ C \in SUBSET Documents /\ \A d \in C : d \notin SalesInvoices
  <2>1. Live(m) \in SUBSET Documents BY DEF Live
  <2> QED BY <1>6, <2>1, LiveAre
<1>8. \A d \in F : w[d] = 0 BY <1>7, EntryFields
<1>9. \A b \in C : t[b] = w[b] BY <1>6, <1>7, EntryFields
<1>10. \A d \in F \cup C : w[d] \in Int BY <1>1, <1>7
<1>11. Credit(m, c) = SumFunctionOnSet(t, C) BY <1>6 DEF Credit, SumFunction
<1>20. \A k \in OfDocuments(m) : f[k] \in Int
  <2> SUFFICES ASSUME NEW k \in OfDocuments(m) PROVE f[k] \in Int OBVIOUS
  <2>1. k \in Own /\ k.doc \in Documents BY DEF OfDocuments, JournalFits
  <2>2. PICK x \in Int : x = w[k.doc] BY <1>1, <2>1
  <2> HIDE DEF f, w
  <2>3. f[k] = IF k.undoes = 1 THEN 0 - x ELSE x BY <1>2, <2>1, <2>2
  <2> QED BY <2>3
<1>21. \A k \in Paying(m) : f[k] = 0 BY DEF Paying, PaymentsFit, EntryFits, NoTax
<1> HIDE DEF w, f, g, t
<1>22. SumFunctionOnSet(f, Paying(m)) = 0 BY <1>21, KeptIs, SumZero
<1>23. SumFunctionOnSet(f, Kept(m)) = SumFunctionOnSet(f, OfDocuments(m)) + SumFunctionOnSet(f, Paying(m))
  <2>1. \A k \in OfDocuments(m) \cup Paying(m) : f[k] \in Int BY <1>20, <1>21
  <2> QED BY <2>1, KeptIs, SumUnion
<1>24. SumFunctionOnSet(f, OfDocuments(m)) \in Int BY <1>20, KeptIs, SumType
<1>12. SumFunctionOnSet(w, F \cup C) = SumFunctionOnSet(w, F) + SumFunctionOnSet(w, C)
  BY ONLY <1>7, <1>10, SumUnion
<1>13. SumFunctionOnSet(w, F) = 0 BY <1>7, <1>8, SumZero
<1>14. SumFunctionOnSet(t, C) = SumFunctionOnSet(w, C) BY <1>7, <1>9, SumSame
<1>15. SumFunctionOnSet(w, C) \in Int BY <1>7, <1>10, SumType
<1>16. InputTax(m, c) = SumFunctionOnSet(w, F \cup C)
  <2>1. PICK y \in Int : y = SumFunctionOnSet(f, OfDocuments(m)) BY <1>24
  <2>2. InputTax(m, c) = y + 0 BY <1>5, <1>22, <1>23, <2>1
  <2>3. y = SumFunctionOnSet(w, F \cup C) BY <1>4, <1>6, <1>7, <2>1
  <2> QED BY <2>2, <2>3
<1>17. PICK x \in Int : x = SumFunctionOnSet(w, C) BY <1>15
<1>18. InputTax(m, c) = 0 + x BY <1>12, <1>13, <1>16, <1>17
<1> QED BY <1>11, <1>14, <1>17, <1>18

\* The tax of an invoice is that of its lines, rate by rate.
LEMMA RatesAddUp ==
  ASSUME DocumentsFit, NEW i \in SalesInvoices, invoice[i].status # "absent", NEW c \in Components
  PROVE  /\ IsFiniteSet(Rates(i)) /\ invoice[i].totals.tax[c] \in Int
         /\ \A r \in Rates(i) : B2bTax(i, r)[c] \in Int
         /\ SumFunctionOnSet([r \in Rates(i) |-> B2bTax(i, r)[c]], Rates(i)) = invoice[i].totals.tax[c]
<1>1. PICK v : v = invoice[i] OBVIOUS
<1>2. PICK L, x : L = v.lines /\ x = v.inter OBVIOUS
<1>3. L \in SUBSET LineType /\ IsFiniteSet(L) /\ x \in BOOLEAN /\ v.totals = Totals(L, x)
  BY <1>1, <1>2 DEF DocumentsFit, InvoiceFits, InvoiceType
<1>4. v.totals.tax = TaxTotals(L, x) BY <1>3 DEF Totals
<1> DEFINE f == [l \in L |-> LineTax(l, x)[c]]
           key == [l \in L |-> l.gst]
           D == Rates(i)
           t == [r \in D |-> B2bTax(i, r)[c]]
           groups == [d \in D |-> SumFunctionOnSet(f, {l \in L : key[l] = d})]
<1>5. \A l \in L : f[l] \in Int BY <1>3, LineTaxes DEF Tax
<1>6. D = {key[l] : l \in L} BY <1>1, <1>2 DEF Rates
<1>7. IsFiniteSet(D)
  <2> HIDE DEF key, D
  <2>1. IsFiniteSet({key[l] : l \in L}) BY ONLY <1>3, ValuesFinite
  <2> QED BY <1>6, <2>1
<1>8. \A l \in L : key[l] \in D BY <1>6
<1>9. SumFunctionOnSet(f, L) = SumFunctionOnSet(groups, D)
  <2>1. \A l \in L : f[l] \in Int /\ key[l] \in D BY <1>5, <1>8
  <2> HIDE DEF key, D, f
  <2> QED BY ONLY <1>3, <1>7, <2>1, SumOfGroups
<1>10. ASSUME NEW d \in D PROVE t[d] = groups[d] /\ t[d] \in Int
  <2>1. PICK G : G = {l \in L : key[l] = d} OBVIOUS
  <2>2. G = RateGroup(i, d) BY <1>1, <1>2, <2>1 DEF RateGroup
  <2>3. PICK g : g = [l \in G |-> LineTax(l, x)[c]] OBVIOUS
  <2>4. t[d] = SumFunctionOnSet(g, G)
    <3>1. t[d] = TaxTotals(G, x)[c] BY <1>1, <1>2, <2>2 DEF B2bTax
    <3>2. TaxTotals(G, x)[c] = SumFunction(g) BY <2>3 DEF TaxTotals
    <3>3. SumFunction(g) = SumFunctionOnSet(g, G) BY <2>3 DEF SumFunction
    <3> QED BY <3>1, <3>2, <3>3
  <2>5. IsFiniteSet(G) BY <1>3, <2>1, FS_Subset
  <2>6. \A l \in G : g[l] = f[l] /\ f[l] \in Int BY <1>5, <2>1, <2>3
  <2> HIDE DEF f
  <2>7. SumFunctionOnSet(g, G) = SumFunctionOnSet(f, G) BY ONLY <2>5, <2>6, SumSame
  <2>8. SumFunctionOnSet(f, G) \in Int BY ONLY <2>5, <2>6, SumType
  <2>9. groups[d] = SumFunctionOnSet(f, G) BY <2>1
  <2> QED BY <2>4, <2>7, <2>8, <2>9
<1>11. v.totals.tax[c] = SumFunctionOnSet(f, L) BY <1>4 DEF TaxTotals, SumFunction
<1>12. SumFunctionOnSet(f, L) \in Int
  <2> HIDE DEF f
  <2> QED BY ONLY <1>3, <1>5, SumType
<1>13. SumFunctionOnSet(t, D) = SumFunctionOnSet(groups, D)
  <2>1. \A d \in D : t[d] = groups[d] BY <1>10
  <2> HIDE DEF t, groups, D
  <2> QED BY ONLY <1>7, <2>1, SumSame
<1>14. \A d \in D : B2bTax(i, d)[c] \in Int
  <2> SUFFICES ASSUME NEW d \in D PROVE t[d] \in Int OBVIOUS
  <2> QED BY <1>10
<1>15. SumFunctionOnSet(t, D) = v.totals.tax[c] BY <1>9, <1>11, <1>13
<1> QED BY <1>1, <1>7, <1>11, <1>12, <1>14, <1>15

\* Rows for the registered customers and rows for the others have the tax of every
\* invoice in them once.
LEMMA RowsAreOutward ==
  ASSUME DocumentsFit, NEW m \in Months, NEW c \in Components
  PROVE  Gstr1(m, c) = Outward(m, c)
<1> DEFINE t == [i \in Filed(m) |-> invoice[i].totals.tax[c]]
           w == [i \in Filed(m) |-> [r \in Rates(i) |-> B2bTax(i, r)[c]]]
           R == [i \in Filed(m) |-> Rates(i)]
<1>1. PICK F, S : F = Filed(m) /\ S = Small(m) OBVIOUS
<1>2. PICK B : B = F \ S OBVIOUS
<1>3. /\ IsFiniteSet(F) /\ F = B \cup S /\ B \cap S = {} /\ B \in SUBSET F /\ S \in SUBSET F
      /\ IsFiniteSet(B) /\ IsFiniteSet(S)
  <2>1. IsFiniteSet(F) BY <1>1, LiveAre
  <2>2. S \in SUBSET F BY <1>1 DEF Small
  <2>3. B \in SUBSET F /\ F = B \cup S /\ B \cap S = {} BY <1>2, <2>2
  <2>4. IsFiniteSet(B) BY ONLY <2>1, <2>3, FS_Subset
  <2>5. IsFiniteSet(S) BY ONLY <2>1, <2>2, FS_Subset
  <2> QED BY <2>1, <2>2, <2>3, <2>4, <2>5
<1>4. \A i \in F : i \in SalesInvoices /\ invoice[i].status # "absent" BY <1>1 DEF Filed, Standing
<1>5. \A i \in F : IsFiniteSet(R[i]) /\ t[i] \in Int BY <1>1, <1>4, RatesAddUp
<1>6. \A i \in F : \A r \in R[i] : w[i][r] = B2bTax(i, r)[c] /\ w[i][r] \in Int
  BY <1>1, <1>4, RatesAddUp
<1>7. \A i \in F : t[i] = SumFunctionOnSet(w[i], R[i]) BY <1>1, <1>4, RatesAddUp
<1>8. \A i \in F : R[i] = Rates(i) BY <1>1
<1>9. Outward(m, c) = SumFunctionOnSet(t, F) BY <1>1 DEF Outward, SumFunction
<1> HIDE DEF t, w, R
<1>10. SumFunctionOnSet([pair \in B2b(m) |-> B2bTax(pair[1], pair[2])[c]], B2b(m)) = SumFunctionOnSet(t, B)
  <2>1. PICK T, f : T = B2b(m) /\ f = [pair \in T |-> B2bTax(pair[1], pair[2])[c]] OBVIOUS
  <2>2. T = RowsOf(B, R)
    <3>1. \A i \in F : i \in B <=> invoice[i].snapshot \in Registered
      BY <1>1, <1>2 DEF Small
    <3>2. ASSUME NEW pair \in T PROVE pair \in RowsOf(B, R)
      <4>1. /\ pair \in F \X UNION {Rates(i) : i \in F}
            /\ invoice[pair[1]].snapshot \in Registered /\ pair[2] \in Rates(pair[1])
        BY <1>1, <2>1 DEF B2b
      <4>2. pair = <<pair[1], pair[2]>> /\ pair[1] \in B /\ pair[2] \in R[pair[1]]
        BY <1>8, <3>1, <4>1
      <4> QED BY <4>2 DEF RowsOf
    <3>3. ASSUME NEW pair \in RowsOf(B, R) PROVE pair \in T
      <4>1. pair = <<pair[1], pair[2]>> /\ pair[1] \in B /\ pair[2] \in R[pair[1]] BY DEF RowsOf
      <4>2. pair[1] \in F /\ pair[2] \in Rates(pair[1]) /\ invoice[pair[1]].snapshot \in Registered
        BY <1>3, <1>8, <3>1, <4>1
      <4>3. pair \in F \X UNION {Rates(i) : i \in F} BY <4>1, <4>2
      <4> QED BY <1>1, <2>1, <4>2, <4>3 DEF B2b
    <3> QED BY <3>2, <3>3
  <2>3. ASSUME NEW pair \in T PROVE f[pair] = w[pair[1]][pair[2]]
    <3>1. pair[1] \in B /\ pair[2] \in R[pair[1]] BY <2>2 DEF RowsOf
    <3> QED BY <1>3, <1>6, <2>1, <3>1
  <2>4. /\ \A i \in B : IsFiniteSet(R[i])
        /\ \A i \in B : \A r \in R[i] : w[i][r] \in Int
        /\ \A i \in B : t[i] = SumFunctionOnSet(w[i], R[i])
    BY <1>3, <1>5, <1>6, <1>7
  <2>5. SumFunctionOnSet(f, T) = SumFunctionOnSet(t, B)
    <3>1. IsFiniteSet(B) BY <1>3
    <3>2. \A pair \in T : f[pair] = w[pair[1]][pair[2]] BY <2>3
    <3> QED BY ONLY <2>2, <2>4, <3>1, <3>2, SumOfRows
  <2> QED BY <2>1, <2>5
<1>11. SumFunctionOnSet([k \in B2cKeys(m) |-> B2cTax(m, k)[c]], B2cKeys(m)) = SumFunctionOnSet(t, S)
  <2>1. PICK K, f : K = B2cKeys(m) /\ f = [k \in K |-> B2cTax(m, k)[c]] OBVIOUS
  <2>2. PICK key : key = [i \in S |-> [r \in R[i] |-> B2cKey(i, r)]] OBVIOUS
  <2>3. PICK U, g : /\ U = [k \in K |-> B2cInvoices(m, k)]
                    /\ g = [k \in K |-> [i \in U[k] |-> TaxTotals(RateGroup(i, k.rate), k.inter)[c]]]
    OBVIOUS
  <2>4. \A i \in S : \A r \in R[i] : key[i][r] = B2cKey(i, r) BY <2>2
  <2>5. \A i \in S : R[i] = Rates(i) BY <1>3, <1>8
  <2>6. K = UNION {{key[i][r] : r \in R[i]} : i \in S}
    <3>1. ASSUME NEW k \in K PROVE k \in UNION {{key[i][r] : r \in R[i]} : i \in S}
      <4>1. PICK i \in S : \E r \in Rates(i) : k = B2cKey(i, r) BY <1>1, <2>1 DEF B2cKeys
      <4> QED BY <2>4, <2>5, <4>1
    <3>2. ASSUME NEW k \in UNION {{key[i][r] : r \in R[i]} : i \in S} PROVE k \in K
      <4>1. PICK i \in S : \E r \in R[i] : k = key[i][r] OBVIOUS
      <4> QED BY <1>1, <2>1, <2>4, <2>5, <4>1 DEF B2cKeys
    <3> QED BY <3>1, <3>2
  <2>7. \A i \in S : \A r, q \in R[i] : key[i][r] = key[i][q] => r = q
    <3> SUFFICES ASSUME NEW i \in S, NEW r \in R[i], NEW q \in R[i], key[i][r] = key[i][q]
                 PROVE  r = q
      OBVIOUS
    <3>1. B2cKey(i, r) = B2cKey(i, q) BY <2>4
    <3>2. B2cKey(i, r).rate = r /\ B2cKey(i, q).rate = q BY DEF B2cKey
    <3> QED BY <3>1, <3>2
  <2>8. ASSUME NEW k \in K PROVE U[k] = {i \in S : \E r \in R[i] : key[i][r] = k}
    <3>1. U[k] = {i \in S : \E r \in Rates(i) : B2cKey(i, r) = k} BY <1>1, <2>3 DEF B2cInvoices
    <3> QED BY <2>4, <2>5, <3>1
  <2>9. ASSUME NEW i \in S, NEW r \in R[i] PROVE g[key[i][r]][i] = w[i][r]
    <3>1. PICK k : k = key[i][r] OBVIOUS
    <3>2. k \in K BY <2>6, <3>1
    <3>3. i \in U[k] BY <2>8, <3>1, <3>2
    <3>4. g[k][i] = TaxTotals(RateGroup(i, k.rate), k.inter)[c] BY <2>3, <3>2, <3>3
    <3>5. k.rate = r /\ k.inter = invoice[i].inter
      <4>1. k = B2cKey(i, r) BY <2>4, <3>1
      <4> QED BY <4>1 DEF B2cKey
    <3>6. g[k][i] = B2bTax(i, r)[c] BY <3>4, <3>5 DEF B2bTax
    <3> QED BY <1>3, <1>6, <3>1, <3>6
  <2>10. ASSUME NEW k \in K PROVE f[k] = SumFunctionOnSet(g[k], U[k])
    <3>1. U[k] = B2cInvoices(m, k)
          /\ g[k] = [i \in U[k] |-> TaxTotals(RateGroup(i, k.rate), k.inter)[c]]
      BY <2>3
    <3>2. PICK V, h : V = U[k] /\ h = g[k] OBVIOUS
    <3>3. V = B2cInvoices(m, k) /\ h = [i \in V |-> TaxTotals(RateGroup(i, k.rate), k.inter)[c]]
      BY <3>1, <3>2
    <3>4. f[k] = SumFunction(h) BY <2>1, <3>3 DEF B2cTax
    <3>5. SumFunction(h) = SumFunctionOnSet(h, V) BY <3>3 DEF SumFunction
    <3> QED BY <3>2, <3>4, <3>5
  <2>11. /\ \A i \in S : IsFiniteSet(R[i])
         /\ \A i \in S : \A r \in R[i] : w[i][r] \in Int
         /\ \A i \in S : t[i] = SumFunctionOnSet(w[i], R[i])
    BY <1>3, <1>5, <1>6, <1>7
  <2>12. SumFunctionOnSet(f, K) = SumFunctionOnSet(t, S)
    <3>1. IsFiniteSet(S) BY <1>3
    <3>2. K = KeysOf(S, R, key) /\ \A k \in K : U[k] = UnderKey(S, R, key, k)
      BY <2>6, <2>8 DEF KeysOf, UnderKey
    <3>3. \A i \in S : \A r \in R[i] : g[key[i][r]][i] = w[i][r] BY <2>9
    <3>4. \A k \in K : f[k] = SumFunctionOnSet(g[k], U[k]) BY <2>10
    <3>5. Keyed(S, R, w, key, K, U, g, f, t)
      BY ONLY <2>7, <2>11, <3>1, <3>2, <3>3, <3>4 DEF Keyed
    <3> QED BY <3>5, SumOfKeys
  <2> QED BY <2>1, <2>12
<1>12. Gstr1(m, c) = SumFunctionOnSet(t, B) + SumFunctionOnSet(t, S)
  <2>1. PICK f, g : /\ f = [pair \in B2b(m) |-> B2bTax(pair[1], pair[2])[c]]
                    /\ g = [k \in B2cKeys(m) |-> B2cTax(m, k)[c]]
    OBVIOUS
  <2>2. Gstr1(m, c) = SumFunction(f) + SumFunction(g) BY <2>1 DEF Gstr1
  <2>3. SumFunction(f) = SumFunctionOnSet(f, B2b(m)) BY <2>1 DEF SumFunction
  <2>4. SumFunction(g) = SumFunctionOnSet(g, B2cKeys(m)) BY <2>1 DEF SumFunction
  <2> QED BY <1>10, <1>11, <2>1, <2>2, <2>3, <2>4
<1>13. SumFunctionOnSet(t, B \cup S) = SumFunctionOnSet(t, B) + SumFunctionOnSet(t, S)
  <2>1. \A i \in B \cup S : t[i] \in Int BY <1>3, <1>5
  <2> QED BY ONLY <1>3, <2>1, SumUnion
<1> QED BY <1>3, <1>9, <1>12, <1>13

\* The returns are what the books hold (the property ReturnsMatchBooks): whatever
\* lines, parties and rates, GSTR-1 and GSTR-3B declare one tax; the credit is what
\* the input tax accounts hold, and the output tax what theirs hold but for GST on
\* advances, by which these move as the payments' records say - documents cancelled
\* in another month than their own and entries reversed by hand left out.
THEOREM ReturnsHold == InvoicingSpec => []ReturnsMatchBooks
<1>1. InvoicingInv => ReturnsMatchBooks
  <2> SUFFICES ASSUME InvoicingInv, NEW m \in Months, NEW c \in Components
               PROVE  /\ Gstr1(m, c) = Outward(m, c)
                      /\ Outward(m, c) + OnAdvances(m, c) = 0 - OutputTax(m, c)
                      /\ Credit(m, c) = InputTax(m, c)
    BY DEF ReturnsMatchBooks
  <2> QED BY RowsAreOutward, OutwardIsPosted, CreditIsPosted DEF InvoicingInv
<1>2. InvoicingInv /\ [InvoicingNext]_invoicingVars => InvoicingInv' BY InvoicingNextStep
<1> QED BY <1>1, <1>2, InvoicingStarts, PTL DEF InvoicingSpec
=============================================================================
