---------------------------- MODULE Idempotency -----------------------------
(***************************************************************************)
(* The idempotency middleware (middleware/idempotency.ts) around a handler *)
(* that moves money in one transaction.  Attempts are HTTP requests being  *)
(* served; a client that gets no answer, or a failure, tries again with    *)
(* the same key.  Inserting the key is the lock; the answer goes out       *)
(* before the key is updated or deleted, in the background, and a failure  *)
(* of that update is swallowed.                                            *)
(*                                                                         *)
(* A key lives a day.  effects is a history of that life: it starts over   *)
(* when the key expires.                                                   *)
(***************************************************************************)
EXTENDS Naturals, FiniteSets

CONSTANTS
  Attempts,     \* requests served at the same time
  Keys, Bodies, \* idempotency keys; request bodies (method, path and JSON)
  Crashes,      \* may a process die, or the update of the key fail?
  LostCommits,  \* may a transaction commit though its caller sees an error?
  Expiry,       \* do keys reach their time to live?
  MaxEffects    \* bound on executions under one key

ASSUME IdempotencyAssumption ==
  /\ Crashes \in BOOLEAN /\ LostCommits \in BOOLEAN /\ Expiry \in BOOLEAN
  /\ MaxEffects \in Nat \ {0}

VARIABLES
  store,   \* the idempotencykeys collection
  attempt, \* what each attempt is doing
  effects  \* what was executed under each key, and if anybody was told so

vars == <<store, attempt, effects>>

NoKey   == [status |-> "absent", hash |-> "none", response |-> 0]
Resting == [at |-> "rest", key |-> "none", body |-> "none", answer |-> 0]

\* Answers: 0 is a failure, n > 0 the result of the n-th execution.
Failure == 0

Executions(k) == Cardinality(effects[k])

\* The handler's transaction for a commits, as the n-th under its key.
Take(a, n, told) ==
  /\ n <= MaxEffects
  /\ effects' = [effects EXCEPT ![attempt[a].key] =
                    @ \cup {[no |-> n, body |-> attempt[a].body, told |-> told]}]

At(a, place) == attempt[a].at = place
Move(a, place) == attempt' = [attempt EXCEPT ![a].at = place]

\* Mutant: findOne, then insert - the lock is not taken atomically.
ArriveUnlocked(a) ==
  /\ At(a, "rest")
  /\ \E k \in Keys, b \in Bodies :
       /\ attempt' = [attempt EXCEPT
            ![a] = [at |-> IF store[k].status # "completed" THEN "locked" ELSE "duplicate",
                    key |-> k, body |-> b, answer |-> Failure]]
       /\ store' = IF store[k] = NoKey
                   THEN [store EXCEPT ![k] = [status |-> "in_flight", hash |-> b,
                                              response |-> Failure]]
                   ELSE store
  /\ UNCHANGED effects

\* IdempotencyKey.create succeeds, or fails with a duplicate key.
Arrive(a) ==
  /\ At(a, "rest")
  /\ \E k \in Keys, b \in Bodies :
       /\ attempt' = [attempt EXCEPT
            ![a] = [at |-> IF store[k] = NoKey THEN "locked" ELSE "duplicate",
                    key |-> k, body |-> b, answer |-> Failure]]
       /\ store' = IF store[k] = NoKey
                   THEN [store EXCEPT ![k] = [status |-> "in_flight", hash |-> b,
                                              response |-> Failure]]
                   ELSE store
  /\ UNCHANGED effects

Replayable(key, body) == key.hash = body /\ key.status = "completed"

\* The duplicate's answer: 409 when the key is gone or in flight, 422 when the
\* body is another, and else the stored response.
ReadExisting(a) ==
  /\ At(a, "duplicate")
  /\ LET k == attempt[a].key IN
     attempt' = IF Replayable(store[k], attempt[a].body)
                THEN [attempt EXCEPT ![a].at = "answered", ![a].answer = store[k].response]
                ELSE [attempt EXCEPT ![a] = Resting]
  /\ UNCHANGED <<store, effects>>

\* A replayed answer has left; nothing is written.
Leave(a) ==
  /\ At(a, "answered")
  /\ attempt' = [attempt EXCEPT ![a] = Resting]
  /\ UNCHANGED <<store, effects>>

\* The handler's transaction commits.
Execute(a) ==
  /\ At(a, "locked")
  /\ LET n == Executions(attempt[a].key) + 1
     IN /\ Take(a, n, TRUE)
        /\ attempt' = [attempt EXCEPT ![a].at = "done", ![a].answer = n]
  /\ UNCHANGED store

\* The handler throws; nothing was committed.
Refuse(a) ==
  /\ At(a, "locked")
  /\ Move(a, "done")
  /\ UNCHANGED <<store, effects>>

\* The commit succeeds, but the driver cannot learn so and reports an error.
LoseCommit(a) ==
  /\ LostCommits
  /\ At(a, "locked")
  /\ Take(a, Executions(attempt[a].key) + 1, FALSE)
  /\ Move(a, "done")
  /\ UNCHANGED store

\* res.json: the client has its answer before the key is settled.
Respond(a) ==
  /\ At(a, "done")
  /\ Move(a, "settling")
  /\ UNCHANGED <<store, effects>>

\* 2xx and 3xx complete the key with the response; anything else deletes it.
SettledKey(a) ==
  IF attempt[a].answer = Failure THEN NoKey
  ELSE [store[attempt[a].key] EXCEPT !.status = "completed", !.response = attempt[a].answer]

\* updateOne or deleteOne; neither does anything to a key that has expired.
Settle(a) ==
  /\ At(a, "settling")
  /\ store' = IF store[attempt[a].key] = NoKey THEN store
              ELSE [store EXCEPT ![attempt[a].key] = SettledKey(a)]
  /\ attempt' = [attempt EXCEPT ![a] = Resting]
  /\ UNCHANGED effects

\* The process dies, or .catch(() => undefined) swallows the failed update.
Crash(a) ==
  /\ Crashes
  /\ ~At(a, "rest")
  /\ attempt' = [attempt EXCEPT ![a] = Resting]
  /\ UNCHANGED <<store, effects>>

\* Mutant: the TTL index covers the completed keys only.
ExpireCompleted(k) ==
  /\ Expiry
  /\ store[k].status = "completed"
  /\ \A a \in Attempts : attempt[a].key = k => At(a, "duplicate")
  /\ store' = [store EXCEPT ![k] = NoKey]
  /\ effects' = [effects EXCEPT ![k] = {}]
  /\ UNCHANGED attempt

\* The TTL index, or the sweep, a day or two later: no request lasts that long,
\* but a duplicate may come in at any time.
Expire(k) ==
  /\ Expiry
  /\ store[k] # NoKey
  /\ \A a \in Attempts : attempt[a].key = k => At(a, "duplicate")
  /\ store' = [store EXCEPT ![k] = NoKey]
  /\ effects' = [effects EXCEPT ![k] = {}]
  /\ UNCHANGED attempt

Init ==
  /\ store = [k \in Keys |-> NoKey]
  /\ attempt = [a \in Attempts |-> Resting]
  /\ effects = [k \in Keys |-> {}]

Serve(a) ==
  ReadExisting(a) \/ Leave(a) \/ Execute(a) \/ Refuse(a) \/ LoseCommit(a) \/ Respond(a)
    \/ Settle(a)

Next ==
  \/ \E a \in Attempts : Arrive(a) \/ Serve(a) \/ Crash(a)
  \/ \E k \in Keys : Expire(k)

\* A request that is being served is served to its end, unless it crashes; the
\* TTL monitor and the nightly sweep remove what is old.
Spec ==
  /\ Init /\ [][Next]_vars
  /\ \A a \in Attempts : WF_vars(Serve(a))
  /\ \A k \in Keys : WF_vars(Expire(k))

-----------------------------------------------------------------------------
(* Properties *)

\* I7: in the life of a key its request takes effect at most once, however its
\* attempts overlap, fail, crash, are repeated, or are sent with another body;
\* the exception are executions whose commit was reported as a failure.
AtMostOnce == \A k \in Keys : Cardinality({e \in effects[k] : e.told}) <= 1

\* No key answers "in flight" for ever: the attempt that holds it settles it, or
\* dies, and then the key expires.
NoKeyStuck ==
  \A k \in Keys : store[k].status = "in_flight" ~> store[k].status # "in_flight"
=============================================================================
