------------------------------ MODULE EInvoice ------------------------------
(***************************************************************************)
(* From issuing an invoice to its IRN: the transactional outbox, its two   *)
(* publishers (change stream and reaper), the BullMQ queue, the workers    *)
(* that call the IRP (the government's invoice portal), the dead letter    *)
(* queue, and the cancellation that races them all.                        *)
(* invoiceService.issue and .cancel, jobs/maintenance.ts, jobs/einvoice.ts *)
(* queues/producers.ts, queues/infra.ts, dlqService.ts, worker.ts.         *)
(*                                                                         *)
(* BullMQ and the IRP are modelled as this code uses them: adding a job    *)
(* whose id exists is a no-op, a job whose worker dies or stalls runs      *)
(* again, the IRN is a function of the document.                           *)
(***************************************************************************)
EXTENDS Naturals, FiniteSets

CONSTANTS
  Invoices,
  Workers,     \* jobs processed at the same time (concurrency 5 in the code)
  MaxAttempts, \* attempts of a job (6, and 3 for a replayed one)
  MaxFaults,   \* bound on crashes, stalls, lost stream events, redis errors
  Cancels,     \* invoices somebody cancels
  Ages,        \* do IRNs get older than 24 hours?
  Stalls,      \* does a busy worker lose its lock on a job?
  MaxCalls     \* bound on the successful calls of generateIrn counted

ASSUME EInvoiceAssumption ==
  /\ MaxAttempts \in Nat \ {0} /\ MaxFaults \in Nat /\ MaxCalls \in Nat \ {0}
  /\ Cancels \subseteq Invoices /\ Ages \in BOOLEAN /\ Stalls \in BOOLEAN

Jobs == Invoices \X {"main", "replay"}
NoJob == [state |-> "none", tries |-> 0, told |-> TRUE]
IdleWorker == [at |-> "idle", job |-> <<>>, owns |-> FALSE]
NoCancel == [at |-> "no", saw |-> "none", stale |-> FALSE]

VARIABLES
  inv,     \* status and eInvoice.status of each invoice
  row,     \* its outbox row
  stream,  \* its event in the change stream's handler
  reaper,  \* rows the reaper has read, and the one it has handled
  job,     \* BullMQ jobs; told is FALSE until the 'failed' event is handled
  worker,  \* what each worker is doing
  dead,    \* jobs with a dead letter
  irn,     \* what the IRP holds for each invoice
  calls,   \* successful calls of generateIrn
  cancel,  \* the cancelling transaction of each invoice, and what the last one saw
  aged,    \* invoices whose IRN is older than 24 hours
  doubled, \* history: invoices with a job run beside a worker that stalled
  faults   \* faults that have happened

pipe == <<row, stream, reaper>>
vars == <<inv, row, stream, reaper, job, worker, dead, irn, calls, cancel, aged, doubled,
          faults>>

Faulty == faults < MaxFaults /\ faults' = faults + 1

-----------------------------------------------------------------------------
(* Issue and the outbox *)

\* The transaction of issue: status, pending e-invoice, outbox row; the change
\* stream sees the insert, unless it is down.
Issue(i) ==
  /\ inv[i].status = "draft"
  /\ inv' = [inv EXCEPT ![i] = [status |-> "issued", ein |-> "pending"]]
  /\ row' = [row EXCEPT ![i] = "pending"]
  /\ \/ stream' = [stream EXCEPT ![i] = "arrived"] /\ UNCHANGED faults
     \/ Faulty /\ UNCHANGED stream
  /\ UNCHANGED <<reaper, job, worker, dead, irn, calls, cancel, aged, doubled>>

\* enqueueEInvoice: jobId einvoice-{invoiceId}; a job with that id, in whatever
\* state it is retained, makes the call a no-op.
Enqueue(j) ==
  job' = IF job[j].state = "none"
         THEN [job EXCEPT ![j] = [NoJob EXCEPT !.state = "waiting"]] ELSE job

StreamHandle(i) ==
  /\ stream[i] = "arrived"
  /\ \/ /\ Enqueue(<<i, "main">>)
        /\ stream' = [stream EXCEPT ![i] = "handled"]
        /\ UNCHANGED faults
     \/ Faulty /\ stream' = [stream EXCEPT ![i] = "no"] /\ UNCHANGED job
  /\ UNCHANGED <<inv, row, reaper, worker, dead, irn, calls, cancel, aged, doubled>>

\* markOutboxPublished
StreamMark(i) ==
  /\ stream[i] = "handled"
  /\ stream' = [stream EXCEPT ![i] = "no"]
  /\ row' = [row EXCEPT ![i] = "published"]
  /\ UNCHANGED <<inv, reaper, job, worker, dead, irn, calls, cancel, aged, doubled, faults>>

NoReaper == [todo |-> {}, handled |-> {}]

ReapRead ==
  /\ reaper = NoReaper
  /\ \E i \in Invoices : row[i] = "pending"
  /\ reaper' = [NoReaper EXCEPT !.todo = {i \in Invoices : row[i] = "pending"}]
  /\ UNCHANGED <<inv, row, stream, job, worker, dead, irn, calls, cancel, aged, doubled, faults>>

\* Mutant: a row is marked published before it is handled.
ReapMarkFirst(i) ==
  /\ i \in reaper.todo /\ reaper.handled = {}
  /\ row' = [row EXCEPT ![i] = "published"]
  /\ \/ /\ Enqueue(<<i, "main">>)
        /\ reaper' = [reaper EXCEPT !.handled = {i}]
        /\ UNCHANGED faults
     \/ /\ Faulty
        /\ reaper' = [reaper EXCEPT !.todo = @ \ {i}]
        /\ UNCHANGED job
  /\ UNCHANGED <<inv, stream, worker, dead, irn, calls, cancel, aged, doubled>>

\* handle(event); when it throws the row stays pending, for the next minute.
ReapHandle(i) ==
  /\ i \in reaper.todo /\ reaper.handled = {}
  /\ \/ /\ Enqueue(<<i, "main">>)
        /\ reaper' = [reaper EXCEPT !.handled = {i}]
        /\ UNCHANGED faults
     \/ /\ Faulty
        /\ reaper' = [reaper EXCEPT !.todo = @ \ {i}]
        /\ UNCHANGED job
  /\ UNCHANGED <<inv, row, stream, worker, dead, irn, calls, cancel, aged, doubled>>

ReapMark(i) ==
  /\ i \in reaper.handled
  /\ row' = [row EXCEPT ![i] = "published"]
  /\ reaper' = [todo |-> reaper.todo \ {i}, handled |-> {}]
  /\ UNCHANGED <<inv, stream, job, worker, dead, irn, calls, cancel, aged, doubled, faults>>

-----------------------------------------------------------------------------
(* The queue and the worker *)

Finish(w) == worker' = [worker EXCEPT ![w] = IdleWorker]

\* The outcome of an attempt, if the worker still owns the job.
Completed(w) ==
  job' = IF worker[w].owns
         THEN [job EXCEPT ![worker[w].job].state = "completed"] ELSE job

Failed(w, unrecoverable) ==
  LET j == worker[w].job
      n == job[j].tries + 1
  IN job' = IF ~worker[w].owns THEN job
            ELSE IF unrecoverable \/ n >= MaxAttempts
            THEN [job EXCEPT ![j] = [state |-> "failed", tries |-> n, told |-> FALSE]]
            ELSE [job EXCEPT ![j] = [state |-> "waiting", tries |-> n, told |-> TRUE]]

\* processEInvoice reads the invoice: 'generated' is skipped, everything else -
\* a cancelled invoice too - goes on to the IRP.
Take(w, j) ==
  /\ worker[w] = IdleWorker
  /\ job[j].state = "waiting"
  /\ IF inv[j[1]].ein = "generated"
     THEN /\ job' = [job EXCEPT ![j].state = "completed"]
          /\ UNCHANGED worker
     ELSE /\ job' = [job EXCEPT ![j].state = "active"]
          /\ worker' = [worker EXCEPT ![w] = [at |-> "calling", job |-> j, owns |-> TRUE]]
  /\ UNCHANGED <<inv, pipe, dead, irn, calls, cancel, aged, doubled, faults>>

\* generateIrn: an IRN, a rejection (4xx, or a payload that is not valid), or an
\* error (5xx, a timeout).  A cancelled IRN is not revived.
Call(w) ==
  LET i == worker[w].job[1] IN
  /\ worker[w].at = "calling"
  /\ \/ /\ irn' = [irn EXCEPT ![i] = IF @ = "none" THEN "active" ELSE @]
        /\ calls' = [calls EXCEPT ![i] = IF @ < MaxCalls THEN @ + 1 ELSE @]
        /\ worker' = [worker EXCEPT ![w].at = "ok"]
     \/ /\ worker' = [worker EXCEPT ![w].at = "rejected"]
        /\ UNCHANGED <<irn, calls>>
     \/ /\ worker' = [worker EXCEPT ![w].at = "error"]
        /\ UNCHANGED <<irn, calls>>
  /\ UNCHANGED <<inv, pipe, job, dead, cancel, aged, doubled, faults>>

\* A write of the invoice by the worker is not in a transaction; it makes a
\* cancelling transaction that has read the invoice fail to commit.
Touch(i) == cancel' = [cancel EXCEPT ![i].stale = @ \/ cancel[i].at # "no"]

\* The invoice is updated, then the job settled: nothing happens between that
\* another process could tell apart, but the crash is covered by Crash.
Write(w) ==
  LET i == worker[w].job[1] IN
  /\ worker[w].at \in {"ok", "rejected", "error"}
  /\ inv' = [inv EXCEPT ![i].ein = CASE worker[w].at = "ok"       -> "generated"
                                     [] worker[w].at = "rejected" -> "failed"
                                     [] OTHER                     -> @]
  /\ Touch(i)
  /\ worker' = [worker EXCEPT ![w].at = CASE worker[w].at = "ok"       -> "complete"
                                          [] worker[w].at = "rejected" -> "giveup"
                                          [] OTHER                     -> "retry"]
  /\ UNCHANGED <<pipe, job, dead, irn, calls, aged, doubled, faults>>

Conclude(w) ==
  /\ worker[w].at \in {"complete", "giveup", "retry"}
  /\ IF worker[w].at = "complete" THEN Completed(w) ELSE Failed(w, worker[w].at = "giveup")
  /\ Finish(w)
  /\ UNCHANGED <<inv, pipe, dead, irn, calls, cancel, aged, doubled, faults>>

\* worker.on('failed'): the dead letter is written in the background.
Bury(j) ==
  /\ job[j].state = "failed" /\ ~job[j].told
  /\ job' = [job EXCEPT ![j].told = TRUE]
  /\ dead' = dead \cup {j}
  /\ UNCHANGED <<inv, pipe, worker, irn, calls, cancel, aged, doubled, faults>>

\* removeOnComplete, after an hour or a thousand jobs; removeOnFail, after a
\* week, long after the reaper is done with the row.
Evict(j) ==
  /\ \/ job[j].state = "completed"
     \/ /\ job[j].state = "failed" /\ job[j].told /\ row[j[1]] = "published"
        /\ j[1] \notin reaper.todo /\ stream[j[1]] = "no"
  /\ job' = [job EXCEPT ![j] = NoJob]
  /\ UNCHANGED <<inv, pipe, worker, dead, irn, calls, cancel, aged, doubled, faults>>

\* dlqService.replay: a new job id each time (one replay at a time here).
Replay(i) ==
  /\ \E kind \in {"main", "replay"} : <<i, kind>> \in dead
  /\ job[<<i, "replay">>].state = "none"
  /\ Faulty
  /\ job' = [job EXCEPT ![<<i, "replay">>] = [NoJob EXCEPT !.state = "waiting"]]
  /\ UNCHANGED <<inv, pipe, worker, dead, irn, calls, cancel, aged, doubled>>

\* A worker that blocks loses its lock: its job runs again beside it.
Stall(w) ==
  /\ Stalls
  /\ worker[w] # IdleWorker /\ worker[w].owns
  /\ Faulty
  /\ worker' = [worker EXCEPT ![w].owns = FALSE]
  /\ job' = [job EXCEPT ![worker[w].job].state = "waiting"]
  /\ doubled' = doubled \cup {worker[w].job[1]}
  /\ UNCHANGED <<inv, pipe, dead, irn, calls, cancel, aged>>

\* The worker process dies: stream position, reaper, 'failed' events in memory
\* and running attempts are gone; the attempts' jobs are found stalled.
Crash ==
  /\ Faulty
  /\ stream' = [i \in Invoices |-> "no"]
  /\ reaper' = NoReaper
  /\ worker' = [w \in Workers |-> IdleWorker]
  /\ job' = [j \in Jobs |-> [job[j] EXCEPT !.state = IF @ = "active" THEN "waiting" ELSE @,
                                           !.told = TRUE]]
  /\ UNCHANGED <<inv, row, dead, irn, calls, cancel, aged, doubled>>

-----------------------------------------------------------------------------
(* Cancelling the invoice *)

\* The callback of cancel takes its snapshot, first or again.
CancelStart(i) ==
  /\ i \in Cancels
  /\ inv[i].status = "issued"
  /\ cancel[i].at = "no" \/ cancel[i].stale
  /\ cancel' = [cancel EXCEPT ![i] = [at |-> "open", saw |-> inv[i].ein, stale |-> FALSE]]
  /\ UNCHANGED <<inv, pipe, job, worker, dead, irn, calls, aged, doubled, faults>>

\* cancelIrn, inside the transaction
CancelCall(i) ==
  /\ cancel[i].at = "open" /\ cancel[i].saw = "generated"
  /\ i \notin aged
  /\ irn' = [irn EXCEPT ![i] = IF @ = "active" THEN "cancelled" ELSE @]
  /\ cancel' = [cancel EXCEPT ![i].at = "called"]
  /\ UNCHANGED <<inv, pipe, job, worker, dead, calls, aged, doubled, faults>>

\* Mutant: the IRP is told after the commit, which may never happen.
CommitUncalled(i) ==
  /\ cancel[i].at # "no"
  /\ ~cancel[i].stale
  /\ inv' = [inv EXCEPT ![i].status = "cancelled",
                        ![i].ein = IF cancel[i].saw = "generated" THEN "cancelled" ELSE @]
  /\ cancel' = [cancel EXCEPT ![i] = [NoCancel EXCEPT !.saw = cancel[i].saw]]
  /\ UNCHANGED <<pipe, job, worker, dead, irn, calls, aged, doubled, faults>>

CancelCommit(i) ==
  /\ cancel[i].at = IF cancel[i].saw = "generated" THEN "called" ELSE "open"
  /\ ~cancel[i].stale
  /\ inv' = [inv EXCEPT ![i].status = "cancelled",
                        ![i].ein = IF cancel[i].saw = "generated" THEN "cancelled" ELSE @]
  /\ cancel' = [cancel EXCEPT ![i] = [NoCancel EXCEPT !.saw = cancel[i].saw]]
  /\ UNCHANGED <<pipe, job, worker, dead, irn, calls, aged, doubled, faults>>

\* IRP_WINDOW_EXPIRED, or the transaction does not come through.
CancelAbort(i) ==
  /\ cancel[i].at # "no"
  /\ \/ i \in aged /\ cancel[i].at = "open" /\ UNCHANGED faults
     \/ Faulty
  /\ cancel' = [cancel EXCEPT ![i] = NoCancel]
  /\ UNCHANGED <<inv, pipe, job, worker, dead, irn, calls, aged, doubled>>

Age(i) ==
  /\ Ages /\ i \notin aged /\ inv[i].ein = "generated"
  /\ aged' = aged \cup {i}
  /\ UNCHANGED <<inv, pipe, job, worker, dead, irn, calls, cancel, doubled, faults>>

-----------------------------------------------------------------------------

Init ==
  /\ inv = [i \in Invoices |-> [status |-> "draft", ein |-> "not_applicable"]]
  /\ row = [i \in Invoices |-> "none"]
  /\ stream = [i \in Invoices |-> "no"]
  /\ reaper = NoReaper
  /\ job = [j \in Jobs |-> NoJob]
  /\ worker = [w \in Workers |-> IdleWorker]
  /\ dead = {}
  /\ irn = [i \in Invoices |-> "none"]
  /\ calls = [i \in Invoices |-> 0]
  /\ cancel = [i \in Invoices |-> NoCancel]
  /\ aged = {} /\ doubled = {}
  /\ faults = 0

Work(w) == (\E j \in Jobs : Take(w, j)) \/ Call(w) \/ Write(w) \/ Conclude(w)

Reap == ReapRead \/ \E i \in Invoices : ReapHandle(i) \/ ReapMark(i)

Cancel(i) == CancelStart(i) \/ CancelCall(i) \/ CancelCommit(i) \/ CancelAbort(i)

Next ==
  \/ \E i \in Invoices : Issue(i) \/ StreamHandle(i) \/ StreamMark(i) \/ Replay(i) \/ Age(i)
  \/ Reap
  \/ \E w \in Workers : Work(w) \/ Stall(w)
  \/ \E j \in Jobs : Bury(j) \/ Evict(j)
  \/ \E i \in Invoices : Cancel(i)
  \/ Crash

\* The reaper runs every minute and workers take the jobs there are.  Nothing
\* is assumed of the change stream: the reaper is the guarantee.
Spec ==
  /\ Init /\ [][Next]_vars
  /\ WF_vars(Reap)
  /\ \A w \in Workers : WF_vars(Work(w))

-----------------------------------------------------------------------------
(* Properties *)

\* An e-invoice recorded as cancelled is cancelled at the IRP, and one recorded
\* as generated, with nobody cancelling it, was generated there.  Without a fault
\* the two publishers, who know nothing of each other, make one call for an invoice
\* that stands: the job's id and, once the job is evicted, the worker's guard see to
\* it.  (Nothing does for a cancelled one.)  And an invoice whose cancellation found it
\* generated has no live IRN, whatever is tried again afterwards: one that was cancelled
\* before, while its job was on the queue, may get one.
\* As long as no worker is doubled, an IRN once recorded is not lost from the
\* invoice: neither a cancellation that started earlier, nor a second attempt, nor
\* a replay, nor a restart writes an older or a worse status over it.
RecordFollowsIrp ==
  /\ [](\A i \in Invoices :
          /\ inv[i].ein = "cancelled" => irn[i] = "cancelled"
          /\ inv[i].ein = "generated" => irn[i] # "none"
          /\ faults = 0 /\ inv[i].status = "issued" => calls[i] <= 1
          /\ inv[i].status = "cancelled" /\ irn[i] = "active" => cancel[i].saw # "generated")
  /\ [][ \A i \in Invoices \ doubled :
           inv[i].ein = "generated" => inv'[i].ein \in {"generated", "cancelled"} ]_inv

\* "No lost e-invoice": while an invoice's event is in the outbox the invoice
\* will be generated or rejected, or its job will use up its attempts, or it is
\* cancelled - although the change stream may miss the event, Redis may fail
\* and the worker may die and stall.
PendingIsSettled ==
  \A i \in Invoices :
    row[i] = "pending" ~>
      inv[i].ein # "pending" \/ inv[i].status = "cancelled"
        \/ job[<<i, "main">>].state = "failed"
=============================================================================
