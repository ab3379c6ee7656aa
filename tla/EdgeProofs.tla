------------------------------ MODULE EdgeProofs ----------------------------
(***************************************************************************)
(* About what stands between a user and the services: that a key admits    *)
(* one execution (I7), that the screen names who requests are made for,    *)
(* and that memberships hold, for any number of attempts, keys, bodies,    *)
(* users, administrators, roles, companies, processes, seats, calls and    *)
(* gestures, with crashes, lost commits and expiry or without; and that    *)
(* limits on requests hold, for any clocks, plans and outages.             *)
(*                                                                         *)
(* Keys.  An attempt that got past the insertion of the key is alone with  *)
(* it until it settles it, for nothing but that attempt, or the end of the *)
(* key's life, takes the key out of flight.                                *)
(*                                                                         *)
(* The tab.  As long as sign-ins do not cross, all that may still set the  *)
(* token is one person's: in the application the user's, in the portal the *)
(* operator's.  A page's calls carry the number of the effect they are of, *)
(* so one that is answered late, for another company or user, is not shown.*)
(*                                                                         *)
(* Memberships.  Who has one was counted, what the cache says against the  *)
(* database has a cause that passes, and a suspended member does not come  *)
(* back by an invitation begun after the suspension.                       *)
(*                                                                         *)
(* Limits.  A log cut by any clock keeps whom it let in within a window    *)
(* less what clocks disagree by; what a bucket gave out and still holds is *)
(* what flowed in, again for each time it was turned back.                 *)
(***************************************************************************)
EXTENDS Idempotency, Browser, Access, Limits, FiniteSetTheorems, TLAPS

Answer == [no : Nat, body : Bodies, told : BOOLEAN]
Stored == [status : {"absent", "in_flight", "completed"},
           hash : Bodies \cup {"none"}, response : Nat]
Doing  == [at : {"rest", "duplicate", "answered", "locked", "done", "settling"},
           key : Keys \cup {"none"}, body : Bodies \cup {"none"}, answer : Nat]

\* Keys, attempts and executions are well typed, and a key's executions can be
\* counted.
IdempotencyTypeOK ==
  /\ store \in [Keys -> Stored]
  /\ attempt \in [Attempts -> Doing]
  /\ \A a \in Attempts : ~At(a, "rest") => attempt[a].key \in Keys /\ attempt[a].body \in Bodies
  /\ effects \in [Keys -> SUBSET Answer]
  /\ \A k \in Keys : IsFiniteSet(effects[k])

\* The attempt inserted its key and has not settled it.
Holds(a) == attempt[a].at \in {"locked", "done", "settling"}

NobodyTold(k) == \A e \in effects[k] : ~e.told
OneTold(k)    == \A e, f \in effects[k] : e.told /\ f.told => e = f

\* A key that is held is in flight, and by one attempt.
OneHolder ==
  /\ \A a \in Attempts : Holds(a) => store[attempt[a].key].status = "in_flight"
  /\ \A a, b \in Attempts :
       Holds(a) /\ Holds(b) /\ attempt[a].key = attempt[b].key => a = b

\* Who has not succeeded, or holds no key, has told nobody of a success; and nobody
\* was told of two.
ToldOnce ==
  /\ \A k \in Keys : OneTold(k) /\ (store[k].status = "absent" => NobodyTold(k))
  /\ \A a \in Attempts : Holds(a) =>
       /\ At(a, "locked") => attempt[a].answer = Failure
       /\ attempt[a].answer = Failure => NobodyTold(attempt[a].key)

IInv == IdempotencyTypeOK /\ OneHolder /\ ToldOnce

-----------------------------------------------------------------------------

USE DEF Stored, Doing, NoKey, Resting, Failure, At, Move

LEMMA InitInv == Init => IInv
<1> SUFFICES ASSUME Init PROVE IInv OBVIOUS
<1>1. IdempotencyTypeOK
  <2>1. \A k \in Keys : IsFiniteSet(effects[k]) BY FS_EmptySet DEF Init
  <2> QED BY <2>1 DEF Init, IdempotencyTypeOK
<1>2. \A k \in Keys : NobodyTold(k) /\ OneTold(k) BY DEF Init, NobodyTold, OneTold
<1>3. \A a \in Attempts : ~Holds(a) BY DEF Init, Holds
<1>4. \A a \in Attempts : ~At(a, "locked") BY DEF Init
<1> QED BY <1>1, <1>2, <1>3, <1>4 DEF IInv, OneHolder, ToldOnce

\* One more execution under the attempt's key is counted, and its number is not that
\* of a failure.
LEMMA TakeType ==
  ASSUME IInv, NEW a \in Attempts, At(a, "locked"), NEW told \in BOOLEAN,
         Take(a, Executions(attempt[a].key) + 1, told)
  PROVE  /\ Executions(attempt[a].key) \in Nat
         /\ effects' \in [Keys -> SUBSET Answer]
         /\ \A k \in Keys : IsFiniteSet(effects'[k])
         /\ \A k \in Keys : k # attempt[a].key => effects'[k] = effects[k]
         /\ effects'[attempt[a].key] =
              effects[attempt[a].key] \cup
                {[no |-> Executions(attempt[a].key) + 1, body |-> attempt[a].body, told |-> told]}
<1> DEFINE k == attempt[a].key
           n == Executions(k) + 1
           e == [no |-> n, body |-> attempt[a].body, told |-> told]
<1>1. k \in Keys /\ attempt[a].body \in Bodies /\ IsFiniteSet(effects[k])
  BY DEF IInv, IdempotencyTypeOK
<1>2. Executions(k) \in Nat BY <1>1, FS_CardinalityType DEF Executions
<1>3. e \in Answer BY <1>1, <1>2 DEF Answer
<1>4. effects' = [effects EXCEPT ![k] = @ \cup {e}] BY DEF Take
<1>5. effects \in [Keys -> SUBSET Answer] BY DEF IInv, IdempotencyTypeOK
<1> HIDE DEF k, e
<1>6. effects'[k] = effects[k] \cup {e} /\ \A j \in Keys : j # k => effects'[j] = effects[j]
  BY <1>1, <1>4, <1>5
<1>7. IsFiniteSet(effects'[k]) BY <1>1, <1>6, FS_AddElement
<1>8. \A j \in Keys : IsFiniteSet(effects'[j])
  BY <1>6, <1>7 DEF IInv, IdempotencyTypeOK
<1>9. effects' \in [Keys -> SUBSET Answer] BY <1>1, <1>3, <1>4, <1>5
<1> QED BY <1>2, <1>6, <1>8, <1>9 DEF k, e

\* Whoever holds a key holds one of the keys.
LEMMA HeldKeys == IInv => \A c \in Attempts : Holds(c) => attempt[c].key \in Keys
BY DEF IInv, IdempotencyTypeOK, Holds

LEMMA NextInv == IInv /\ [Next]_vars => IInv'
<1> SUFFICES ASSUME IInv, [Next]_vars PROVE IInv'
  OBVIOUS
<1>1. ASSUME NEW a \in Attempts, Arrive(a) PROVE IInv'
  <2>1. PICK k \in Keys, b \in Bodies :
          /\ attempt' = [attempt EXCEPT
               ![a] = [at |-> IF store[k] = NoKey THEN "locked" ELSE "duplicate",
                       key |-> k, body |-> b, answer |-> Failure]]
          /\ store' = IF store[k] = NoKey
                      THEN [store EXCEPT ![k] = [status |-> "in_flight", hash |-> b,
                                                 response |-> Failure]]
                      ELSE store
    BY <1>1 DEF Arrive
  <2>2. effects' = effects /\ \A c \in Attempts : c # a => attempt'[c] = attempt[c]
    BY <1>1, <2>1 DEF Arrive, IInv, IdempotencyTypeOK
  <2>3. attempt'[a].key = k /\ attempt'[a].answer = Failure
    BY <2>1 DEF IInv, IdempotencyTypeOK
  <2>4. IdempotencyTypeOK' BY <2>1, <2>2 DEF IInv, IdempotencyTypeOK
  <2>5. CASE store[k] = NoKey
    <3>1. /\ At(a, "locked")' /\ store'[k].status = "in_flight"
          /\ \A j \in Keys : j # k => store'[j] = store[j]
      BY <2>1, <2>5 DEF IInv, IdempotencyTypeOK
    <3>2. store[k].status = "absent" BY <2>5
    <3>6. \A c \in Attempts : Holds(c) => attempt[c].key # k
      BY <3>2 DEF IInv, OneHolder
    <3>3. OneHolder' BY <2>2, <2>3, <3>1, <3>6, HeldKeys DEF IInv, OneHolder, Holds
    <3>4. NobodyTold(k) BY <3>2 DEF IInv, ToldOnce
    <3>5. ToldOnce'
      BY <2>2, <2>3, <3>1, <3>4, <3>6 DEF IInv, ToldOnce, Holds, NobodyTold, OneTold
    <3> QED BY <2>4, <3>3, <3>5 DEF IInv
  <2>6. CASE store[k] # NoKey
    <3>1. At(a, "duplicate")' /\ store' = store BY <2>1, <2>6 DEF IInv, IdempotencyTypeOK
    <3>2. OneHolder' BY <2>2, <3>1 DEF IInv, OneHolder, Holds
    <3>3. ToldOnce'
      BY <2>2, <3>1 DEF IInv, ToldOnce, Holds, NobodyTold, OneTold
    <3> QED BY <2>4, <3>2, <3>3 DEF IInv
  <2> QED BY <2>5, <2>6
<1>2. ASSUME NEW a \in Attempts, ReadExisting(a) PROVE IInv'
  <2>1. /\ \A b \in Attempts : b # a => attempt'[b] = attempt[b]
        /\ attempt'[a].at \in {"rest", "answered"}
        /\ store' = store /\ effects' = effects
    BY <1>2 DEF ReadExisting, Replayable, IInv, IdempotencyTypeOK
  <2>2. IdempotencyTypeOK'
    <3>1. CASE attempt' = [attempt EXCEPT ![a] = Resting]
      BY <2>1, <3>1 DEF IInv, IdempotencyTypeOK
    <3>2. CASE attempt' = [attempt EXCEPT ![a].at = "answered",
                                          ![a].answer = store[attempt[a].key].response]
      <4>1. attempt[a].key \in Keys BY <1>2 DEF ReadExisting, IInv, IdempotencyTypeOK
      <4>2. store[attempt[a].key].response \in Nat BY <4>1 DEF IInv, IdempotencyTypeOK
      <4> HIDE DEF At
      <4>3. attempt' \in [Attempts -> Doing]
        <5>1. attempt \in [Attempts -> Doing] BY DEF IInv, IdempotencyTypeOK
        <5> DEFINE answer == store[attempt[a].key].response
        <5> HIDE DEF answer
        <5> QED BY <3>2, <4>2, <5>1 DEF answer
      <4>4. \A b \in Attempts : attempt'[b].key = attempt[b].key /\ attempt'[b].body = attempt[b].body
        BY <3>2 DEF IInv, IdempotencyTypeOK
      <4>5. At(a, "duplicate") BY <1>2 DEF ReadExisting
      <4> QED BY <2>1, <4>3, <4>4, <4>5 DEF IInv, IdempotencyTypeOK, At
    <3> QED BY <1>2, <3>1, <3>2 DEF ReadExisting
  <2>3. OneHolder' BY <2>1 DEF IInv, OneHolder, Holds
  <2>4. ToldOnce'
    BY <2>1 DEF IInv, ToldOnce, Holds, NobodyTold, OneTold
  <2> QED BY <2>2, <2>3, <2>4 DEF IInv
<1>3. ASSUME NEW a \in Attempts, Leave(a) PROVE IInv'
  <2>1. /\ \A b \in Attempts : b # a => attempt'[b] = attempt[b]
        /\ attempt'[a].at = "rest"
        /\ store' = store /\ effects' = effects
    BY <1>3 DEF Leave, IInv, IdempotencyTypeOK
  <2>2. IdempotencyTypeOK' BY <1>3 DEF Leave, IInv, IdempotencyTypeOK
  <2>3. OneHolder' BY <2>1 DEF IInv, OneHolder, Holds
  <2>4. ToldOnce'
    BY <2>1 DEF IInv, ToldOnce, Holds, NobodyTold, OneTold
  <2> QED BY <2>2, <2>3, <2>4 DEF IInv
<1>4. ASSUME NEW a \in Attempts, Execute(a) PROVE IInv'
  <2> DEFINE k == attempt[a].key
             n == Executions(k) + 1
             e == [no |-> n, body |-> attempt[a].body, told |-> TRUE]
  <2>1. /\ At(a, "locked") /\ Take(a, n, TRUE) /\ store' = store
        /\ attempt' = [attempt EXCEPT ![a].at = "done", ![a].answer = n]
    BY <1>4 DEF Execute
  <2>2. /\ n \in Nat \ {0}
        /\ effects' \in [Keys -> SUBSET Answer]
        /\ \A j \in Keys : IsFiniteSet(effects'[j])
        /\ \A j \in Keys : j # k => effects'[j] = effects[j]
        /\ effects'[k] = effects[k] \cup {e}
    <3>1. /\ effects' \in [Keys -> SUBSET Answer]
          /\ \A j \in Keys : IsFiniteSet(effects'[j])
          /\ \A j \in Keys : j # k => effects'[j] = effects[j]
          /\ effects'[k] = effects[k] \cup {e}
          /\ Executions(k) \in Nat
      BY <2>1, TakeType
    <3> QED BY <3>1
  <2> HIDE DEF n
  <2>3. /\ \A b \in Attempts : b # a => attempt'[b] = attempt[b]
        /\ attempt'[a].at = "done" /\ attempt'[a].key = k
        /\ k \in Keys /\ attempt[a].answer = Failure
        /\ attempt'[a].answer = n
    BY <2>1, <2>2 DEF IInv, IdempotencyTypeOK, ToldOnce, Holds
  <2>4. IdempotencyTypeOK' BY ZenonT(60), <2>1, <2>2 DEF IInv, IdempotencyTypeOK
  <2>11. At(a, "locked") /\ store' = store /\ \A b \in Attempts : b # a => attempt'[b] = attempt[b]
    BY <2>1, <2>3
  <2>12. attempt'[a].key = attempt[a].key BY <2>3
  <2>5. OneHolder' BY <2>11, <2>12, HeldKeys DEF IInv, OneHolder, Holds
  <2>6. \A j \in Keys : j # k => OneTold(j)' = OneTold(j) /\ NobodyTold(j)' = NobodyTold(j)
    BY <2>2 DEF OneTold, NobodyTold
  <2>7. NobodyTold(k) /\ store[k].status = "in_flight"
    BY <2>1, <2>3 DEF IInv, OneHolder, ToldOnce, Holds
  <2>8. OneTold(k)'
    <3>1. \A f \in effects'[k] : f = e \/ ~f.told BY <2>2, <2>7 DEF NobodyTold
    <3> HIDE DEF e
    <3> QED BY <2>12, <3>1 DEF OneTold, NobodyTold
  <2>9. \A b \in Attempts : b # a /\ Holds(b) => attempt[b].key \in Keys /\ attempt[b].key # k
    BY <2>1, <2>3 DEF IInv, IdempotencyTypeOK, OneHolder, Holds
  <2>10. ToldOnce'
    BY <2>1, <2>2, <2>3, <2>6, <2>7, <2>8, <2>9 DEF IInv, ToldOnce, Holds
  <2> QED BY <2>4, <2>5, <2>10 DEF IInv
<1>5. ASSUME NEW a \in Attempts, Refuse(a) PROVE IInv'
  <2>1. /\ \A b \in Attempts : b # a => attempt'[b] = attempt[b]
        /\ attempt'[a].at = "done" /\ attempt'[a].key = attempt[a].key
        /\ attempt'[a].answer = attempt[a].answer
        /\ At(a, "locked")
        /\ store' = store /\ effects' = effects
    BY <1>5 DEF Refuse, IInv, IdempotencyTypeOK
  <2>2. IdempotencyTypeOK' BY <1>5 DEF Refuse, IInv, IdempotencyTypeOK
  <2>3. OneHolder' BY <2>1 DEF IInv, OneHolder, Holds
  <2>4. ToldOnce'
    BY <2>1 DEF IInv, ToldOnce, Holds, NobodyTold, OneTold
  <2> QED BY <2>2, <2>3, <2>4 DEF IInv
<1>6. ASSUME NEW a \in Attempts, LoseCommit(a) PROVE IInv'
  <2> DEFINE k == attempt[a].key
             n == Executions(k) + 1
             e == [no |-> n, body |-> attempt[a].body, told |-> FALSE]
  <2>1. /\ At(a, "locked") /\ Take(a, n, FALSE) /\ store' = store
        /\ attempt' = [attempt EXCEPT ![a].at = "done"]
    BY <1>6 DEF LoseCommit
  <2>2. /\ n \in Nat \ {0}
        /\ effects' \in [Keys -> SUBSET Answer]
        /\ \A j \in Keys : IsFiniteSet(effects'[j])
        /\ \A j \in Keys : j # k => effects'[j] = effects[j]
        /\ effects'[k] = effects[k] \cup {e}
    <3>1. /\ effects' \in [Keys -> SUBSET Answer]
          /\ \A j \in Keys : IsFiniteSet(effects'[j])
          /\ \A j \in Keys : j # k => effects'[j] = effects[j]
          /\ effects'[k] = effects[k] \cup {e}
          /\ Executions(k) \in Nat
      BY <2>1, TakeType
    <3> QED BY <3>1
  <2> HIDE DEF n
  <2>3. /\ \A b \in Attempts : b # a => attempt'[b] = attempt[b]
        /\ attempt'[a].at = "done" /\ attempt'[a].key = k
        /\ k \in Keys /\ attempt[a].answer = Failure
        /\ attempt'[a].answer = Failure
    BY <2>1, <2>2 DEF IInv, IdempotencyTypeOK, ToldOnce, Holds
  <2>4. IdempotencyTypeOK' BY <2>1, <2>2 DEF IInv, IdempotencyTypeOK
  <2>11. At(a, "locked") /\ store' = store /\ \A b \in Attempts : b # a => attempt'[b] = attempt[b]
    BY <2>1, <2>3
  <2>12. attempt'[a].key = attempt[a].key BY <2>3
  <2>5. OneHolder' BY <2>11, <2>12, HeldKeys DEF IInv, OneHolder, Holds
  <2>6. \A j \in Keys : j # k => OneTold(j)' = OneTold(j) /\ NobodyTold(j)' = NobodyTold(j)
    BY <2>2 DEF OneTold, NobodyTold
  <2>7. NobodyTold(k) /\ store[k].status = "in_flight"
    BY <2>1, <2>3 DEF IInv, OneHolder, ToldOnce, Holds
  <2>8. OneTold(k)' /\ NobodyTold(k)'
    <3>1. \A f \in effects'[k] : f = e \/ ~f.told BY <2>2, <2>7 DEF NobodyTold
    <3>2. ~e.told OBVIOUS
    <3> HIDE DEF e
    <3> QED BY <2>12, <3>1, <3>2 DEF OneTold, NobodyTold
  <2>9. \A b \in Attempts : b # a /\ Holds(b) => attempt[b].key \in Keys /\ attempt[b].key # k
    BY <2>1, <2>3 DEF IInv, IdempotencyTypeOK, OneHolder, Holds
  <2>10. ToldOnce'
    BY <2>1, <2>2, <2>3, <2>6, <2>7, <2>8, <2>9 DEF IInv, ToldOnce, Holds
  <2> QED BY <2>4, <2>5, <2>10 DEF IInv
<1>7. ASSUME NEW a \in Attempts, Respond(a) PROVE IInv'
  <2>1. /\ \A b \in Attempts : b # a => attempt'[b] = attempt[b]
        /\ attempt'[a].at = "settling" /\ attempt'[a].key = attempt[a].key
        /\ attempt'[a].answer = attempt[a].answer
        /\ At(a, "done")
        /\ store' = store /\ effects' = effects
    BY <1>7 DEF Respond, IInv, IdempotencyTypeOK
  <2>2. IdempotencyTypeOK' BY <1>7 DEF Respond, IInv, IdempotencyTypeOK
  <2>3. OneHolder' BY <2>1 DEF IInv, OneHolder, Holds
  <2>4. ToldOnce'
    BY <2>1 DEF IInv, ToldOnce, Holds, NobodyTold, OneTold
  <2> QED BY <2>2, <2>3, <2>4 DEF IInv
<1>8. ASSUME NEW a \in Attempts, Settle(a) PROVE IInv'
  <2> DEFINE k == attempt[a].key
  <2>1. /\ \A b \in Attempts : b # a => attempt'[b] = attempt[b]
        /\ attempt'[a].at = "rest" /\ effects' = effects
        /\ At(a, "settling") /\ k \in Keys
    BY <1>8 DEF Settle, IInv, IdempotencyTypeOK
  <2>2. /\ \A j \in Keys : j # k => store'[j] = store[j]
        /\ attempt[a].answer = Failure \/ store'[k].status # "absent" \/ store'[k] = store[k]
    BY <1>8 DEF Settle, SettledKey, IInv, IdempotencyTypeOK
  <2>3. IdempotencyTypeOK' BY ZenonT(60), <1>8 DEF Settle, SettledKey, IInv, IdempotencyTypeOK
  <2>4. \A b \in Attempts : b # a /\ Holds(b) => attempt[b].key \in Keys /\ attempt[b].key # k
    BY <2>1 DEF IInv, IdempotencyTypeOK, OneHolder, Holds
  <2>5. OneHolder' BY <2>1, <2>2, <2>4 DEF IInv, OneHolder, Holds
  <2>6. attempt[a].answer = Failure => NobodyTold(k) BY <2>1 DEF IInv, ToldOnce, Holds
  <2>7. ToldOnce'
    BY <2>1, <2>2, <2>4, <2>6 DEF IInv, ToldOnce, Holds, NobodyTold, OneTold
  <2> QED BY <2>3, <2>5, <2>7 DEF IInv
<1>9. ASSUME NEW a \in Attempts, Crash(a) PROVE IInv'
  <2>1. /\ \A b \in Attempts : b # a => attempt'[b] = attempt[b]
        /\ attempt'[a].at = "rest"
        /\ store' = store /\ effects' = effects
    BY <1>9 DEF Crash, IInv, IdempotencyTypeOK
  <2>2. IdempotencyTypeOK' BY <1>9 DEF Crash, IInv, IdempotencyTypeOK
  <2>3. OneHolder' BY <2>1 DEF IInv, OneHolder, Holds
  <2>4. ToldOnce'
    BY <2>1 DEF IInv, ToldOnce, Holds, NobodyTold, OneTold
  <2> QED BY <2>2, <2>3, <2>4 DEF IInv
<1>10. ASSUME NEW k \in Keys, Expire(k) PROVE IInv'
  <2>1. /\ \A j \in Keys : j # k => store'[j] = store[j] /\ effects'[j] = effects[j]
        /\ store'[k].status = "absent" /\ effects'[k] = {} /\ attempt' = attempt
        /\ \A a \in Attempts : Holds(a) => attempt[a].key # k
    BY <1>10 DEF Expire, IInv, IdempotencyTypeOK, Holds
  <2>2. IdempotencyTypeOK'
    <3>1. \A j \in Keys : IsFiniteSet(effects'[j])
      BY <2>1, FS_EmptySet DEF IInv, IdempotencyTypeOK
    <3> QED BY <1>10, <3>1 DEF Expire, IInv, IdempotencyTypeOK
  <2>3. OneHolder' BY <2>1, HeldKeys DEF IInv, OneHolder, Holds
  <2>5. NobodyTold(k)' /\ OneTold(k)' BY <2>1 DEF NobodyTold, OneTold
  <2>6. \A j \in Keys : j # k => OneTold(j)' = OneTold(j) /\ NobodyTold(j)' = NobodyTold(j)
    BY <2>1 DEF OneTold, NobodyTold
  <2>4. ToldOnce' BY <2>1, <2>5, <2>6, HeldKeys DEF IInv, ToldOnce, Holds
  <2> QED BY <2>2, <2>3, <2>4 DEF IInv
<1>11. CASE UNCHANGED vars
  BY <1>11 DEF vars, IInv, IdempotencyTypeOK, OneHolder, ToldOnce, Holds, NobodyTold, OneTold
<1> QED BY <1>1, <1>2, <1>3, <1>4, <1>5, <1>6, <1>7, <1>8, <1>9, <1>10, <1>11 DEF Next, Serve

\* The lock is one: two attempts never hold the same key, although it is taken by an
\* insert, given back in the background, and may be lost to a crash.
THEOREM LockHasOneHolder == Spec => []OneHolder
<1>1. IInv => OneHolder BY DEF IInv
<1> QED BY <1>1, InitInv, NextInv, PTL DEF Spec

\* What a key's request does takes effect at most once in the life of the key, but for
\* executions whose commit was reported as a failure.
THEOREM TakesEffectOnce == Spec => []AtMostOnce
<1>1. IInv => AtMostOnce
  <2> DEFINE Told(k) == {e \in effects[k] : e.told}
  <2> SUFFICES ASSUME IInv, NEW k \in Keys PROVE Cardinality(Told(k)) <= 1
    BY DEF AtMostOnce
  <2>1. CASE Told(k) = {} BY <2>1, FS_EmptySet
  <2>2. CASE Told(k) # {}
    <3>1. PICK e : e \in Told(k) BY <2>2
    <3>2. Told(k) = {e} BY <3>1 DEF IInv, ToldOnce, OneTold
    <3> HIDE DEF Told
    <3>3. Cardinality(Told(k)) = 1 BY <3>2, FS_Singleton
    <3> QED BY <3>3
  <2> QED BY <2>1, <2>2
<1> QED BY <1>1, InitInv, NextInv, PTL DEF Spec

-----------------------------------------------------------------------------
(* The screen names who acts (module Browser) *)

\* Who may be signed in.
People == Users \cup {Nobody}

\* Calls of the portal, which name the mount that made them.
PortalKinds ==
  {"portalRefresh", "portalLogin", "portalVetted", "portalChecked", "portalLogout", "impersonate"}

\* App is loading while its own first calls are in flight, which are one at a time;
\* so is the portal while its first calls are.
AppLoads    == {c \in calls : c.kind \in {"refresh", "companies"}}
PortalLoads ==
  {c \in calls : c.kind \in {"portalRefresh", "portalChecked"} /\ c.about = portal.mount}

\* What the parts of the tab may be.
TabState    == [view : {"app", "admin"}, loading : BOOLEAN, user : People,
                company : Companies \cup {Nobody}, form : {"open", "busy"}]
PortalState == [mount : Nat, checking : BOOLEAN, me : People]
Data        == [as : People, company : Companies \cup {Nobody}, question : Questions \cup {Nobody}]
PageState   == [effect : Nat, question : Questions \cup {Nobody}, data : Data, busy : BOOLEAN,
                failed : BOOLEAN]

\* The tab, the portal, the page and the calls are well typed; numbers are of effects that were.
TabTypes    == tab \in TabState
PortalTypes == portal \in PortalState /\ portal.mount <= sent /\ (InPortal => portal.mount > 0)
PageTypes   == page \in PageState /\ page.effect <= sent
StateTypes ==
  /\ sent \in Nat /\ crossed \in BOOLEAN
  /\ cookie \in People /\ token \in People
  /\ companyId \in Companies \cup {Nobody} /\ saved \in Companies \cup {Nobody}

CallTypes ==
  \A c \in calls :
       /\ c.as \in People /\ c.company \in Companies \cup {Nobody}
       /\ c.effect \in 1..sent
       /\ c.kind = "companies" => c.as \in Users
       /\ c.kind = "load" => c.about \in Questions
       /\ c.kind \in PortalKinds => c.about \in 1..sent

BrowserTypeOK == TabTypes /\ PortalTypes /\ PageTypes /\ StateTypes /\ CallTypes

\* Neither the application nor the portal begins to load while it is loading.
OneAtATime ==
  /\ AppLoads # {} => tab.loading
  /\ \A c, d \in AppLoads : c = d
  /\ InPortal /\ PortalLoads # {} => portal.checking
  /\ InPortal => \A c, d \in PortalLoads : c = d

\* The company on the screen is the one requests carry.
CompanyFits == tab.company # Nobody => companyId = tab.company

\* The portal asks who it was that signed in.
Vetting == {c \in calls : c.kind \in {"portalVetted", "portalChecked"} /\ c.about = portal.mount}

\* In the application: whose token it is is on the screen, and whatever signs in is one person.
AppPerson ==
  /\ token = tab.user
  /\ \A c, d \in SignIns : c.as = d.as
  /\ tab.user # Nobody => \A c \in SignIns : c.as = tab.user
  /\ \A c \in calls : c.kind \notin {"portalRefresh", "portalLogin", "portalVetted", "portalLogout"}

\* In the portal: whatever signs in or is being asked after is one person, the operator shown.
PortalPerson ==
  /\ \A c, d \in SignIns \cup Vetting : c.as = d.as
  /\ portal.me # Nobody => /\ token \in {portal.me, Nobody}
                           /\ \A c \in SignIns \cup Vetting : c.as = portal.me
  /\ \A c \in Vetting : token \in {c.as, Nobody}

\* As long as no two sign-ins crossed.
OnePerson == ~crossed => IF InPortal THEN PortalPerson ELSE AppPerson

\* The page shows, waits for or failed to read what the user on the screen asks for in the
\* company on it, and shows nothing of another's.
PageFits ==
  ~crossed /\ Shows(tab) =>
    /\ page.data # NoData => page.data.as = tab.user /\ page.data.company = tab.company
    /\ page.busy \/ page.failed \/ page.data = AnswerTo(page.question)
    /\ \A c \in calls : c.kind = "load" /\ c.effect = page.effect =>
         c.as = tab.user /\ c.company = tab.company /\ c.about = page.question

\* The inductive invariant.
BrowserInv == BrowserTypeOK /\ OneAtATime /\ CompanyFits /\ OnePerson /\ PageFits

\* Every action keeps the invariant.  The session came back: its companies are asked for.
LEMMA RefreshedKeeps ==
  ASSUME BrowserInv, NEW c \in calls, Refreshed(c)
  PROVE  BrowserInv'
<1>1. TabTypes'
  BY DEF BrowserInv, TabTypes, TabState, BrowserTypeOK, CallTypes, Refreshed
<1>2. PortalTypes'
  BY DEF BrowserInv, PortalTypes, PortalState, InPortal, BrowserTypeOK, StateTypes, Refreshed,
     Sends
<1>3. PageTypes'
  BY DEF BrowserInv, PageTypes, PageState, Data, NoPage, NoData, BrowserTypeOK, StateTypes,
     Refreshed, Sends
<1>4. StateTypes'
  BY DEF BrowserInv, StateTypes, BrowserTypeOK, CallTypes, Refreshed, Sends
<1>5. CallTypes'
  BY DEF BrowserInv, CallTypes, PortalKinds, People, BrowserTypeOK, StateTypes, InPortal,
     Refreshed, Sends, Call
<1>6. OneAtATime'
  BY DEF BrowserInv, OneAtATime, AppLoads, PortalLoads, InPortal, BrowserTypeOK, Refreshed,
     Sends, Call
<1>7. CompanyFits'
  BY DEF BrowserInv, CompanyFits, BrowserTypeOK, Refreshed
<1>8. OnePerson'
  BY DEF BrowserInv, OnePerson, AppPerson, PortalPerson, Vetting, SignIns, InPortal,
     BrowserTypeOK, Refreshed, Sends, Call
<1>9. PageFits'
  BY DEF BrowserInv, PageFits, AnswerTo, NoData, Shows, BrowserTypeOK, InPortal, OneAtATime, AppLoads, OnePerson,
     AppPerson, SignIns, CompanyFits, Refreshed
<1> QED BY <1>1, <1>2, <1>3, <1>4, <1>5, <1>6, <1>7, <1>8, <1>9 DEF BrowserInv, BrowserTypeOK

\* The companies came, and one is open.
LEMMA CompaniesCameKeeps ==
  ASSUME BrowserInv, NEW c \in calls, CompaniesCame(c)
  PROVE  BrowserInv'
<1>0. PICK n \in Companies \cup {Nobody} :
        /\ tab' \in TabState /\ tab'.company = n /\ ~tab'.loading
        /\ tab'.view = tab.view /\ tab'.user = tab.user /\ tab'.form = tab.form
        /\ companyId' \in Companies \cup {Nobody}
        /\ \/ companyId' = n
           \/ n = tab.company /\ companyId' = companyId
  <2>1. CASE Matching(c) = {}
    BY <2>1 DEF CompaniesCame, BrowserInv, BrowserTypeOK, TabTypes, StateTypes, TabState
  <2>2. CASE Matching(c) # {}
    <3>1. PICK m \in Matching(c) :
            companyId' = m /\ tab' = [tab EXCEPT !.loading = FALSE, !.company = m]
      BY <2>2 DEF CompaniesCame
    <3>2. c.as \in Users BY DEF CompaniesCame, BrowserInv, BrowserTypeOK, CallTypes
    <3>3. m \in Companies \cup {Nobody}
      BY <3>2, BrowserAssumption DEF Matching, BrowserInv, BrowserTypeOK
    <3> QED BY <3>1, <3>3 DEF BrowserInv, BrowserTypeOK, TabTypes, TabState
  <2> QED BY <2>1, <2>2
<1>3. /\ c.kind = "companies"
       /\ UNCHANGED <<cookie, saved, token, portal, crossed, acts>>
  BY DEF CompaniesCame, Reacts
<1>1. CASE Shows(tab') /\ ~Shows(tab)
  <2>1. PICK q \in Questions :
          /\ page' = [effect |-> sent + 1, question |-> q, data |-> NoData, busy |-> TRUE,
                     failed |-> FALSE]
          /\ calls' = (calls \ {c}) \cup {Call("load", token', companyId', q)}
          /\ sent' = sent + 1
    BY <1>1 DEF CompaniesCame, Matching, Renders, NoPage
  <2>2. TabTypes'
    BY <1>0, <1>3, <1>1, <2>1 DEF BrowserInv, TabTypes
  <2>3. PortalTypes'
    BY <1>0, <1>3, <1>1, <2>1 DEF BrowserInv, PortalTypes, PortalState, InPortal,
       BrowserTypeOK, StateTypes
  <2>4. PageTypes'
    BY <1>0, <1>3, <1>1, <2>1 DEF BrowserInv, PageTypes, PageState, Data, People, NoPage,
       NoData, BrowserTypeOK, StateTypes
  <2>5. StateTypes'
    BY <1>0, <1>3, <1>1, <2>1 DEF BrowserInv, StateTypes, BrowserTypeOK
  <2>6. CallTypes'
    BY <1>0, <1>3, <1>1, <2>1 DEF BrowserInv, CallTypes, PortalKinds, BrowserTypeOK,
       StateTypes, Call
  <2>7. OneAtATime'
    BY <1>0, <1>3, <1>1, <2>1 DEF BrowserInv, OneAtATime, AppLoads, PortalLoads, InPortal,
       BrowserTypeOK, Call
  <2>8. CompanyFits'
    BY <1>0, <1>3, <1>1, <2>1 DEF BrowserInv, CompanyFits, BrowserTypeOK
  <2>9. OnePerson'
    BY <1>0, <1>3, <1>1, <2>1 DEF BrowserInv, OnePerson, AppPerson, PortalPerson, Vetting,
       SignIns, InPortal, BrowserTypeOK, Call
  <2>10. PageFits'
    BY <1>0, <1>3, <1>1, <2>1 DEF BrowserInv, PageFits, AnswerTo, NoData, Shows, BrowserTypeOK, StateTypes,
       CallTypes, InPortal, OnePerson, AppPerson, CompanyFits, Call
  <2> QED BY <2>2, <2>3, <2>4, <2>5, <2>6, <2>7, <2>8, <2>9, <2>10 DEF BrowserInv, BrowserTypeOK
<1>2. CASE ~(Shows(tab') /\ ~Shows(tab))
  <2>1. calls' = calls \ {c} /\ sent' = sent /\ page' = IF Shows(tab') THEN page ELSE NoPage
    BY <1>2 DEF CompaniesCame, Matching, Reacts, Renders
  <2>2. TabTypes'
    BY <1>0, <1>3, <1>2, <2>1 DEF BrowserInv, TabTypes
  <2>3. PortalTypes'
    BY <1>0, <1>3, <1>2, <2>1 DEF BrowserInv, PortalTypes, InPortal, BrowserTypeOK
  <2>4. PageTypes'
    BY <1>0, <1>3, <1>2, <2>1 DEF BrowserInv, PageTypes, PageState, Data, People, NoPage,
       NoData, BrowserTypeOK, StateTypes
  <2>5. StateTypes'
    BY <1>0, <1>3, <1>2, <2>1 DEF BrowserInv, StateTypes, BrowserTypeOK
  <2>6. CallTypes'
    BY <1>0, <1>3, <1>2, <2>1 DEF BrowserInv, CallTypes, BrowserTypeOK
  <2>7. OneAtATime'
    BY <1>0, <1>3, <1>2, <2>1 DEF BrowserInv, OneAtATime, AppLoads, PortalLoads, InPortal,
       BrowserTypeOK
  <2>8. CompanyFits'
    BY <1>0, <1>3, <1>2, <2>1 DEF BrowserInv, CompanyFits, BrowserTypeOK
  <2>9. OnePerson'
    BY <1>0, <1>3, <1>2, <2>1 DEF BrowserInv, OnePerson, AppPerson, PortalPerson, Vetting,
       SignIns, InPortal, BrowserTypeOK
  <2>10. PageFits'
    BY <1>0, <1>3, <1>2, <2>1 DEF BrowserInv, PageFits, AnswerTo, NoData, Shows, BrowserTypeOK, InPortal,
       OneAtATime, AppLoads, OnePerson
  <2> QED BY <2>2, <2>3, <2>4, <2>5, <2>6, <2>7, <2>8, <2>9, <2>10 DEF BrowserInv, BrowserTypeOK
<1> QED BY <1>1, <1>2

\* The session or the companies did not come, and the tab loads no more.
LEMMA LoadFailedKeeps ==
  ASSUME BrowserInv, NEW c \in calls, LoadFailed(c)
  PROVE  BrowserInv'
<1>1. CASE Shows(tab') /\ ~Shows(tab)
  <2>1. PICK q \in Questions :
          /\ page' = [effect |-> sent + 1, question |-> q, data |-> NoData, busy |-> TRUE,
                     failed |-> FALSE]
          /\ calls' = (calls \ {c}) \cup {Call("load", token', companyId', q)}
          /\ sent' = sent + 1
    BY <1>1 DEF LoadFailed, Reacts, Renders, NoPage
  <2>2. TabTypes'
    BY <1>1, <2>1 DEF BrowserInv, TabTypes, TabState, BrowserTypeOK, StateTypes, LoadFailed
  <2>3. PortalTypes'
    BY <1>1, <2>1 DEF BrowserInv, PortalTypes, PortalState, InPortal, BrowserTypeOK,
       StateTypes, LoadFailed
  <2>4. PageTypes'
    BY <1>1, <2>1 DEF BrowserInv, PageTypes, PageState, Data, People, NoPage, NoData,
       BrowserTypeOK, StateTypes
  <2>5. StateTypes'
    BY <1>1, <2>1 DEF BrowserInv, StateTypes, BrowserTypeOK, LoadFailed
  <2>6. CallTypes'
    BY <1>1, <2>1 DEF BrowserInv, CallTypes, PortalKinds, BrowserTypeOK, StateTypes, InPortal,
       LoadFailed, Call
  <2>7. OneAtATime'
    BY <1>1, <2>1 DEF BrowserInv, OneAtATime, AppLoads, PortalLoads, InPortal, BrowserTypeOK,
       LoadFailed, Call
  <2>8. CompanyFits'
    BY <1>1, <2>1 DEF BrowserInv, CompanyFits, BrowserTypeOK, LoadFailed
  <2>9. OnePerson'
    BY <1>1, <2>1 DEF BrowserInv, OnePerson, AppPerson, PortalPerson, Vetting, SignIns,
       InPortal, BrowserTypeOK, LoadFailed, Call
  <2>10. PageFits'
    BY <1>1, <2>1 DEF BrowserInv, PageFits, AnswerTo, NoData, Shows, BrowserTypeOK, StateTypes, CallTypes,
       InPortal, OnePerson, AppPerson, SignIns, CompanyFits, LoadFailed, Call
  <2> QED BY <2>2, <2>3, <2>4, <2>5, <2>6, <2>7, <2>8, <2>9, <2>10 DEF BrowserInv, BrowserTypeOK
<1>2. CASE ~(Shows(tab') /\ ~Shows(tab))
  <2>1. calls' = calls \ {c} /\ sent' = sent /\ page' = IF Shows(tab') THEN page ELSE NoPage
    BY <1>2 DEF LoadFailed, Reacts, Renders
  <2>2. TabTypes'
    BY <1>2, <2>1 DEF BrowserInv, TabTypes, TabState, BrowserTypeOK, StateTypes, LoadFailed
  <2>3. PortalTypes'
    BY <1>2, <2>1 DEF BrowserInv, PortalTypes, InPortal, BrowserTypeOK, LoadFailed
  <2>4. PageTypes'
    BY <1>2, <2>1 DEF BrowserInv, PageTypes, PageState, Data, People, NoPage, NoData,
       BrowserTypeOK, StateTypes
  <2>5. StateTypes'
    BY <1>2, <2>1 DEF BrowserInv, StateTypes, BrowserTypeOK, LoadFailed
  <2>6. CallTypes'
    BY <1>2, <2>1 DEF BrowserInv, CallTypes, BrowserTypeOK, InPortal
  <2>7. OneAtATime'
    BY <1>2, <2>1 DEF BrowserInv, OneAtATime, AppLoads, PortalLoads, InPortal, BrowserTypeOK,
       LoadFailed
  <2>8. CompanyFits'
    BY <1>2, <2>1 DEF BrowserInv, CompanyFits, BrowserTypeOK, LoadFailed
  <2>9. OnePerson'
    BY <1>2, <2>1 DEF BrowserInv, OnePerson, AppPerson, PortalPerson, Vetting, SignIns,
       InPortal, BrowserTypeOK, LoadFailed
  <2>10. PageFits'
    BY <1>2, <2>1 DEF BrowserInv, PageFits, AnswerTo, NoData, Shows, BrowserTypeOK, InPortal, OnePerson,
       AppPerson, SignIns, LoadFailed
  <2> QED BY <2>2, <2>3, <2>4, <2>5, <2>6, <2>7, <2>8, <2>9, <2>10 DEF BrowserInv, BrowserTypeOK
<1> QED BY <1>1, <1>2

\* Somebody signed in to the application.
LEMMA LoggedInKeeps ==
  ASSUME BrowserInv, NEW c \in calls, LoggedIn(c)
  PROVE  BrowserInv'
<1>1. CASE Shows(tab') /\ ~Shows(tab)
  <2>1. PICK q \in Questions :
          /\ page' = [effect |-> sent + 1, question |-> q, data |-> NoData, busy |-> TRUE,
                     failed |-> FALSE]
          /\ calls' = (calls \ {c}) \cup {Call("load", token', companyId', q)}
          /\ sent' = sent + 1
    BY <1>1 DEF LoggedIn, Reacts, Renders, NoPage
  <2>2. TabTypes'
    BY <1>1, <2>1 DEF BrowserInv, TabTypes, TabState, BrowserTypeOK, StateTypes, CallTypes,
       LoggedIn
  <2>3. PortalTypes'
    BY <1>1, <2>1 DEF BrowserInv, PortalTypes, PortalState, InPortal, BrowserTypeOK,
       StateTypes, LoggedIn
  <2>4. PageTypes'
    BY <1>1, <2>1 DEF BrowserInv, PageTypes, PageState, Data, People, NoPage, NoData,
       BrowserTypeOK, StateTypes
  <2>5. StateTypes'
    BY <1>1, <2>1 DEF BrowserInv, StateTypes, BrowserTypeOK, CallTypes, LoggedIn
  <2>6. CallTypes'
    BY <1>1, <2>1 DEF BrowserInv, CallTypes, PortalKinds, BrowserTypeOK, StateTypes, InPortal,
       LoggedIn, Call
  <2>7. OneAtATime'
    BY <1>1, <2>1 DEF BrowserInv, OneAtATime, AppLoads, PortalLoads, InPortal, BrowserTypeOK,
       LoggedIn, Call
  <2>8. CompanyFits'
    BY <1>1, <2>1 DEF BrowserInv, CompanyFits, BrowserTypeOK, LoggedIn
  <2>9. OnePerson'
    BY <1>1, <2>1 DEF BrowserInv, OnePerson, AppPerson, PortalPerson, Vetting, SignIns,
       InPortal, BrowserTypeOK, LoggedIn, Call
  <2>10. PageFits'
    BY <1>1, <2>1 DEF BrowserInv, PageFits, AnswerTo, NoData, Shows, BrowserTypeOK, StateTypes, CallTypes,
       InPortal, OnePerson, AppPerson, SignIns, CompanyFits, LoggedIn, Call
  <2> QED BY <2>2, <2>3, <2>4, <2>5, <2>6, <2>7, <2>8, <2>9, <2>10 DEF BrowserInv, BrowserTypeOK
<1>2. CASE ~(Shows(tab') /\ ~Shows(tab))
  <2>1. calls' = calls \ {c} /\ sent' = sent /\ page' = IF Shows(tab') THEN page ELSE NoPage
    BY <1>2 DEF LoggedIn, Reacts, Renders
  <2>2. TabTypes'
    BY <1>2, <2>1 DEF BrowserInv, TabTypes, TabState, BrowserTypeOK, StateTypes, CallTypes,
       LoggedIn
  <2>3. PortalTypes'
    BY <1>2, <2>1 DEF BrowserInv, PortalTypes, InPortal, BrowserTypeOK, LoggedIn
  <2>4. PageTypes'
    BY <1>2, <2>1 DEF BrowserInv, PageTypes, PageState, Data, People, NoPage, NoData,
       BrowserTypeOK, StateTypes
  <2>5. StateTypes'
    BY <1>2, <2>1 DEF BrowserInv, StateTypes, BrowserTypeOK, CallTypes, LoggedIn
  <2>6. CallTypes'
    BY <1>2, <2>1 DEF BrowserInv, CallTypes, BrowserTypeOK, InPortal
  <2>7. OneAtATime'
    BY <1>2, <2>1 DEF BrowserInv, OneAtATime, AppLoads, PortalLoads, InPortal, BrowserTypeOK,
       LoggedIn
  <2>8. CompanyFits'
    BY <1>2, <2>1 DEF BrowserInv, CompanyFits, BrowserTypeOK, LoggedIn
  <2>9. OnePerson'
    BY <1>2, <2>1 DEF BrowserInv, OnePerson, AppPerson, PortalPerson, Vetting, SignIns,
       InPortal, BrowserTypeOK, LoggedIn
  <2>10. PageFits'
    BY <1>2, <2>1 DEF BrowserInv, PageFits, AnswerTo, NoData, Shows, BrowserTypeOK, InPortal, OnePerson,
       AppPerson, SignIns, LoggedIn
  <2> QED BY <2>2, <2>3, <2>4, <2>5, <2>6, <2>7, <2>8, <2>9, <2>10 DEF BrowserInv, BrowserTypeOK
<1> QED BY <1>1, <1>2

\* A sign-in failed.
LEMMA LoginFailedKeeps ==
  ASSUME BrowserInv, NEW c \in calls, LoginFailed(c)
  PROVE  BrowserInv'
<1>1. TabTypes'
  BY DEF BrowserInv, TabTypes, TabState, BrowserTypeOK, LoginFailed
<1>2. PortalTypes'
  BY DEF BrowserInv, PortalTypes, InPortal, BrowserTypeOK, LoginFailed
<1>3. PageTypes'
  BY DEF BrowserInv, PageTypes, NoPage, NoData, BrowserTypeOK, LoginFailed
<1>4. StateTypes'
  BY DEF BrowserInv, StateTypes, BrowserTypeOK, LoginFailed
<1>5. CallTypes'
  BY DEF BrowserInv, CallTypes, BrowserTypeOK, LoginFailed
<1>6. OneAtATime'
  BY DEF BrowserInv, OneAtATime, AppLoads, PortalLoads, InPortal, BrowserTypeOK, LoginFailed
<1>7. CompanyFits'
  BY DEF BrowserInv, CompanyFits, BrowserTypeOK, LoginFailed
<1>8. OnePerson'
  BY DEF BrowserInv, OnePerson, AppPerson, PortalPerson, Vetting, SignIns, InPortal,
     BrowserTypeOK, LoginFailed
<1>9. PageFits'
  BY DEF BrowserInv, PageFits, AnswerTo, NoData, Shows, BrowserTypeOK, InPortal, OnePerson, AppPerson, SignIns,
     LoginFailed
<1> QED BY <1>1, <1>2, <1>3, <1>4, <1>5, <1>6, <1>7, <1>8, <1>9 DEF BrowserInv, BrowserTypeOK

\* The server ended the session; the tab had forgotten it before.
LEMMA LogoutDoneKeeps ==
  ASSUME BrowserInv, NEW c \in calls, LogoutDone(c)
  PROVE  BrowserInv'
<1>1. TabTypes'
  BY DEF BrowserInv, TabTypes, BrowserTypeOK, LogoutDone
<1>2. PortalTypes'
  BY DEF BrowserInv, PortalTypes, InPortal, BrowserTypeOK, LogoutDone
<1>3. PageTypes'
  BY DEF BrowserInv, PageTypes, NoPage, NoData, BrowserTypeOK, LogoutDone
<1>4. StateTypes'
  BY DEF BrowserInv, StateTypes, People, BrowserTypeOK, LogoutDone
<1>5. CallTypes'
  BY DEF BrowserInv, CallTypes, BrowserTypeOK, LogoutDone
<1>6. OneAtATime'
  BY DEF BrowserInv, OneAtATime, AppLoads, PortalLoads, InPortal, BrowserTypeOK, LogoutDone
<1>7. CompanyFits'
  BY DEF BrowserInv, CompanyFits, BrowserTypeOK, LogoutDone
<1>8. OnePerson'
  BY DEF BrowserInv, OnePerson, AppPerson, PortalPerson, Vetting, SignIns, InPortal,
     BrowserTypeOK, LogoutDone
<1>9. PageFits'
  BY DEF BrowserInv, PageFits, AnswerTo, NoData, Shows, BrowserTypeOK, InPortal, OnePerson, AppPerson, SignIns,
     LogoutDone
<1> QED BY <1>1, <1>2, <1>3, <1>4, <1>5, <1>6, <1>7, <1>8, <1>9 DEF BrowserInv, BrowserTypeOK

\* A page's data came, and are shown if they are of its last effect.
LEMMA LoadedKeeps ==
  ASSUME BrowserInv, NEW c \in calls, Loaded(c)
  PROVE  BrowserInv'
<1>1. TabTypes'
  BY DEF BrowserInv, TabTypes, BrowserTypeOK, Loaded
<1>2. PortalTypes'
  BY DEF BrowserInv, PortalTypes, InPortal, BrowserTypeOK, Loaded
<1>3. PageTypes'
  BY DEF BrowserInv, PageTypes, PageState, Data, NoPage, NoData, BrowserTypeOK, CallTypes,
     Loaded
<1>4. StateTypes'
  BY DEF BrowserInv, StateTypes, BrowserTypeOK, Loaded
<1>5. CallTypes'
  BY DEF BrowserInv, CallTypes, BrowserTypeOK, Loaded
<1>6. OneAtATime'
  BY DEF BrowserInv, OneAtATime, AppLoads, PortalLoads, InPortal, BrowserTypeOK, Loaded
<1>7. CompanyFits'
  BY DEF BrowserInv, CompanyFits, BrowserTypeOK, Loaded
<1>8. OnePerson'
  BY DEF BrowserInv, OnePerson, AppPerson, PortalPerson, Vetting, SignIns, InPortal,
     BrowserTypeOK, Loaded
<1>9. PageFits'
  BY DEF BrowserInv, PageFits, AnswerTo, NoData, Shows, BrowserTypeOK, InPortal, OnePerson, AppPerson, SignIns,
     Loaded
<1> QED BY <1>1, <1>2, <1>3, <1>4, <1>5, <1>6, <1>7, <1>8, <1>9 DEF BrowserInv, BrowserTypeOK

\* A page's data did not come.
LEMMA NotLoadedKeeps ==
  ASSUME BrowserInv, NEW c \in calls, NotLoaded(c)
  PROVE  BrowserInv'
<1>1. TabTypes'
  BY DEF BrowserInv, TabTypes, BrowserTypeOK, NotLoaded
<1>2. PortalTypes'
  BY DEF BrowserInv, PortalTypes, InPortal, BrowserTypeOK, NotLoaded
<1>3. PageTypes'
  BY DEF BrowserInv, PageTypes, PageState, Data, NoPage, NoData, BrowserTypeOK, CallTypes,
     NotLoaded
<1>4. StateTypes'
  BY DEF BrowserInv, StateTypes, BrowserTypeOK, NotLoaded
<1>5. CallTypes'
  BY DEF BrowserInv, CallTypes, BrowserTypeOK, NotLoaded
<1>6. OneAtATime'
  BY DEF BrowserInv, OneAtATime, AppLoads, PortalLoads, InPortal, BrowserTypeOK, NotLoaded
<1>7. CompanyFits'
  BY DEF BrowserInv, CompanyFits, BrowserTypeOK, NotLoaded
<1>8. OnePerson'
  BY DEF BrowserInv, OnePerson, AppPerson, PortalPerson, Vetting, SignIns, InPortal,
     BrowserTypeOK, NotLoaded
<1>9. PageFits'
  BY DEF BrowserInv, PageFits, AnswerTo, NoData, Shows, BrowserTypeOK, InPortal, OnePerson, AppPerson, SignIns,
     NotLoaded
<1> QED BY <1>1, <1>2, <1>3, <1>4, <1>5, <1>6, <1>7, <1>8, <1>9 DEF BrowserInv, BrowserTypeOK

\* The portal's own session came back: it asks who that is.
LEMMA PortalTokenKeeps ==
  ASSUME BrowserInv, NEW c \in calls, PortalToken(c)
  PROVE  BrowserInv'
<1>1. TabTypes'
  BY DEF BrowserInv, TabTypes, BrowserTypeOK, PortalToken
<1>2. PortalTypes'
  BY DEF BrowserInv, PortalTypes, PortalState, InPortal, BrowserTypeOK, StateTypes,
     PortalToken, Sends
<1>3. PageTypes'
  BY DEF BrowserInv, PageTypes, PageState, Data, NoPage, NoData, BrowserTypeOK, StateTypes,
     PortalToken, Sends
<1>4. StateTypes'
  BY DEF BrowserInv, StateTypes, BrowserTypeOK, CallTypes, PortalToken, Sends
<1>5. CallTypes'
  BY DEF BrowserInv, CallTypes, PortalKinds, BrowserTypeOK, StateTypes, InPortal, PortalToken,
     Sends, Call
<1>6. OneAtATime'
  BY DEF BrowserInv, OneAtATime, AppLoads, PortalLoads, InPortal, BrowserTypeOK, PortalToken,
     Sends, Call
<1>7. CompanyFits'
  BY DEF BrowserInv, CompanyFits, BrowserTypeOK, PortalToken
<1>8. OnePerson'
  BY DEF BrowserInv, OnePerson, AppPerson, PortalPerson, Vetting, SignIns, InPortal,
     BrowserTypeOK, PortalToken, Sends, Call
<1>9. PageFits'
  BY DEF BrowserInv, PageFits, AnswerTo, NoData, Shows, BrowserTypeOK, InPortal, OnePerson, AppPerson, SignIns,
     CompanyFits, PortalToken
<1> QED BY <1>1, <1>2, <1>3, <1>4, <1>5, <1>6, <1>7, <1>8, <1>9 DEF BrowserInv, BrowserTypeOK

\* The portal learns who signed in, and shows it to an operator alone.
LEMMA PortalAnsweredKeeps ==
  ASSUME BrowserInv, NEW c \in calls, PortalAnswered(c)
  PROVE  BrowserInv'
<1>1. TabTypes'
  BY DEF BrowserInv, TabTypes, BrowserTypeOK, PortalAnswered
<1>2. PortalTypes'
  BY BrowserAssumption DEF BrowserInv, PortalTypes, PortalState, People, InPortal,
     BrowserTypeOK, StateTypes, PortalAnswered
<1>3. PageTypes'
  BY DEF BrowserInv, PageTypes, NoPage, NoData, BrowserTypeOK, PortalAnswered
<1>4. StateTypes'
  BY DEF BrowserInv, StateTypes, People, BrowserTypeOK, PortalAnswered
<1>5. CallTypes'
  BY DEF BrowserInv, CallTypes, BrowserTypeOK, PortalAnswered
<1>6. OneAtATime'
  BY DEF BrowserInv, OneAtATime, AppLoads, PortalLoads, InPortal, BrowserTypeOK, PortalTypes,
     StateTypes, PortalState, PortalAnswered
<1>7. CompanyFits'
  BY DEF BrowserInv, CompanyFits, BrowserTypeOK, PortalAnswered
<1>8. OnePerson'
  BY DEF BrowserInv, OnePerson, AppPerson, PortalPerson, Vetting, SignIns, InPortal,
     BrowserTypeOK, PortalAnswered
<1>9. PageFits'
  BY DEF BrowserInv, PageFits, AnswerTo, NoData, Shows, BrowserTypeOK, InPortal, OnePerson, AppPerson, SignIns,
     PortalAnswered
<1> QED BY <1>1, <1>2, <1>3, <1>4, <1>5, <1>6, <1>7, <1>8, <1>9 DEF BrowserInv, BrowserTypeOK

\* A call of the portal failed.
LEMMA PortalFailedKeeps ==
  ASSUME BrowserInv, NEW c \in calls, PortalFailed(c)
  PROVE  BrowserInv'
<1>1. TabTypes'
  BY DEF BrowserInv, TabTypes, BrowserTypeOK, PortalFailed
<1>2. PortalTypes'
  BY DEF BrowserInv, PortalTypes, PortalState, InPortal, BrowserTypeOK, StateTypes, PortalFailed
<1>3. PageTypes'
  BY DEF BrowserInv, PageTypes, NoPage, NoData, BrowserTypeOK, PortalFailed
<1>4. StateTypes'
  BY DEF BrowserInv, StateTypes, BrowserTypeOK, PortalFailed
<1>5. CallTypes'
  BY DEF BrowserInv, CallTypes, BrowserTypeOK, PortalFailed
<1>6. OneAtATime'
  BY DEF BrowserInv, OneAtATime, AppLoads, PortalLoads, InPortal, BrowserTypeOK, PortalFailed
<1>7. CompanyFits'
  BY DEF BrowserInv, CompanyFits, BrowserTypeOK, PortalFailed
<1>8. OnePerson'
  BY DEF BrowserInv, OnePerson, AppPerson, PortalPerson, Vetting, SignIns, InPortal,
     BrowserTypeOK, PortalFailed
<1>9. PageFits'
  BY DEF BrowserInv, PageFits, AnswerTo, NoData, Shows, BrowserTypeOK, InPortal, OnePerson, AppPerson, SignIns,
     PortalFailed
<1> QED BY <1>1, <1>2, <1>3, <1>4, <1>5, <1>6, <1>7, <1>8, <1>9 DEF BrowserInv, BrowserTypeOK

\* The portal's sign-out was answered, and takes the token whosever it is.
LEMMA PortalSignedOutKeeps ==
  ASSUME BrowserInv, NEW c \in calls, PortalSignedOut(c)
  PROVE  BrowserInv'
<1>1. TabTypes'
  BY DEF BrowserInv, TabTypes, BrowserTypeOK, PortalSignedOut
<1>2. PortalTypes'
  BY DEF BrowserInv, PortalTypes, PortalState, People, InPortal, BrowserTypeOK, StateTypes,
     PortalSignedOut
<1>3. PageTypes'
  BY DEF BrowserInv, PageTypes, NoPage, NoData, BrowserTypeOK, PortalSignedOut
<1>4. StateTypes'
  BY DEF BrowserInv, StateTypes, People, BrowserTypeOK, PortalSignedOut
<1>5. CallTypes'
  BY DEF BrowserInv, CallTypes, BrowserTypeOK, PortalSignedOut
<1>6. OneAtATime'
  BY DEF BrowserInv, OneAtATime, AppLoads, PortalLoads, InPortal, BrowserTypeOK, PortalSignedOut
<1>7. CompanyFits'
  BY DEF BrowserInv, CompanyFits, BrowserTypeOK, PortalSignedOut
<1>8. OnePerson'
  BY DEF BrowserInv, OnePerson, AppPerson, PortalPerson, Vetting, SignIns, InPortal,
     BrowserTypeOK, PortalSignedOut
<1>9. PageFits'
  BY DEF BrowserInv, PageFits, AnswerTo, NoData, Shows, BrowserTypeOK, InPortal, OnePerson, AppPerson, SignIns,
     PortalSignedOut
<1> QED BY <1>1, <1>2, <1>3, <1>4, <1>5, <1>6, <1>7, <1>8, <1>9 DEF BrowserInv, BrowserTypeOK

\* Somebody asks to sign in to the application ...
LEMMA LoginKeeps ==
  ASSUME BrowserInv, NEW u \in Users, Login(u)
  PROVE  BrowserInv'
<1>1. TabTypes'
  BY DEF BrowserInv, TabTypes, TabState, BrowserTypeOK, Login
<1>2. PortalTypes'
  BY DEF BrowserInv, PortalTypes, PortalState, InPortal, BrowserTypeOK, StateTypes, Login, Sends
<1>3. PageTypes'
  BY DEF BrowserInv, PageTypes, PageState, Data, NoPage, NoData, BrowserTypeOK, StateTypes,
     Login, Sends
<1>4. StateTypes'
  BY DEF BrowserInv, StateTypes, BrowserTypeOK, Login, Sends
<1>5. CallTypes'
  BY DEF BrowserInv, CallTypes, PortalKinds, People, BrowserTypeOK, StateTypes, InPortal,
     Login, Sends, Call
<1>6. OneAtATime'
  BY DEF BrowserInv, OneAtATime, AppLoads, PortalLoads, InPortal, BrowserTypeOK, Login, Sends,
     Call
<1>7. CompanyFits'
  BY DEF BrowserInv, CompanyFits, BrowserTypeOK, Login
<1>8. OnePerson'
  <2> SUFFICES ASSUME ~crossed' PROVE OnePerson' BY DEF OnePerson
  <2> DEFINE new == Call("login", u, companyId, Nobody)
  <2>1. ~crossed /\ (\A d \in SignIns : d.as = u) BY DEF Login
  <2>2. /\ tab.view = "app" /\ tab'.view = "app" /\ tab.user = Nobody /\ tab'.user = Nobody
        /\ token' = token /\ calls' = calls \cup {new}
    BY DEF Login, OnAuthPage, Sends, BrowserInv
  <2>3. AppPerson BY <2>1, <2>2 DEF BrowserInv, OnePerson, InPortal
  <2>4. new.as = u /\ new.kind = "login" BY DEF Call
  <2>5. \A d \in SignIns' : d.as = u BY <2>1, <2>2, <2>4 DEF SignIns
  <2>6. AppPerson' BY <2>2, <2>3, <2>4, <2>5 DEF AppPerson
  <2> QED BY <2>2, <2>6 DEF OnePerson, InPortal
<1>9. PageFits'
  BY DEF BrowserInv, PageFits, AnswerTo, NoData, Shows, BrowserTypeOK, InPortal, OnePerson, AppPerson, SignIns,
     CompanyFits, Login, OnAuthPage
<1> QED BY <1>1, <1>2, <1>3, <1>4, <1>5, <1>6, <1>7, <1>8, <1>9 DEF BrowserInv, BrowserTypeOK

\* ... or to the portal.
LEMMA PortalLoginKeeps ==
  ASSUME BrowserInv, NEW u \in Users, PortalLogin(u)
  PROVE  BrowserInv'
<1>1. TabTypes'
  BY DEF BrowserInv, TabTypes, BrowserTypeOK, PortalLogin
<1>2. PortalTypes'
  BY DEF BrowserInv, PortalTypes, PortalState, InPortal, BrowserTypeOK, StateTypes,
     PortalLogin, Sends
<1>3. PageTypes'
  BY DEF BrowserInv, PageTypes, PageState, Data, NoPage, NoData, BrowserTypeOK, StateTypes,
     PortalLogin, Sends
<1>4. StateTypes'
  BY DEF BrowserInv, StateTypes, BrowserTypeOK, PortalLogin, Sends
<1>5. CallTypes'
  BY DEF BrowserInv, CallTypes, PortalKinds, People, BrowserTypeOK, StateTypes, PortalTypes,
     PortalState, InPortal, PortalLogin, PortalActs, Sends, Call
<1>6. OneAtATime'
  BY DEF BrowserInv, OneAtATime, AppLoads, PortalLoads, InPortal, BrowserTypeOK, PortalLogin,
     Sends, Call
<1>7. CompanyFits'
  BY DEF BrowserInv, CompanyFits, BrowserTypeOK, PortalLogin
<1>8. OnePerson'
  <2> SUFFICES ASSUME ~crossed' PROVE OnePerson' BY DEF OnePerson
  <2> DEFINE new == Call("portalLogin", u, companyId, portal.mount)
  <2>1. ~crossed /\ (\A d \in SignIns : d.as = u) BY DEF PortalLogin
  <2>2. /\ InPortal /\ InPortal' /\ portal.me = Nobody /\ portal' = portal
        /\ token' = token /\ calls' = calls \cup {new}
    BY DEF PortalLogin, PortalActs, InPortal, Sends
  <2>3. PortalPerson BY <2>1, <2>2 DEF BrowserInv, OnePerson
  <2>4. new.as = u /\ new.kind = "portalLogin" BY DEF Call
  <2>5. Vetting = {}
    <3>1. \A d \in calls : ~(d.kind \in {"portalLogin", "portalVetted"} /\ d.about = portal.mount)
      BY DEF PortalLogin
    <3>2. PortalLoads = {} BY <2>2 DEF BrowserInv, OneAtATime, PortalLogin
    <3> QED BY <3>1, <3>2 DEF Vetting, PortalLoads
  <2>6. Vetting' = {} BY <2>2, <2>4, <2>5 DEF Vetting
  <2>7. \A d \in SignIns' : d.as = u BY <2>1, <2>2, <2>4 DEF SignIns
  <2>8. PortalPerson' BY <2>2, <2>6, <2>7 DEF PortalPerson
  <2> QED BY <2>2, <2>8 DEF OnePerson
<1>9. PageFits'
  BY DEF BrowserInv, PageFits, AnswerTo, NoData, Shows, BrowserTypeOK, InPortal, OnePerson, AppPerson, SignIns,
     CompanyFits, PortalLogin, PortalActs
<1> QED BY <1>1, <1>2, <1>3, <1>4, <1>5, <1>6, <1>7, <1>8, <1>9 DEF BrowserInv, BrowserTypeOK

\* Another tab changes the cookie or the saved company.
LEMMA OtherTabKeeps ==
  ASSUME BrowserInv, NEW u \in Users \cup {Nobody}, OtherTab(u)
  PROVE  BrowserInv'
<1>1. TabTypes'
  BY DEF BrowserInv, TabTypes, BrowserTypeOK, OtherTab
<1>2. PortalTypes'
  BY DEF BrowserInv, PortalTypes, InPortal, BrowserTypeOK, OtherTab
<1>3. PageTypes'
  BY DEF BrowserInv, PageTypes, NoPage, BrowserTypeOK, OtherTab
<1>4. StateTypes'
  BY BrowserAssumption DEF BrowserInv, StateTypes, People, BrowserTypeOK, OtherTab
<1>5. CallTypes'
  BY DEF BrowserInv, CallTypes, BrowserTypeOK, OtherTab
<1>6. OneAtATime'
  BY DEF BrowserInv, OneAtATime, AppLoads, PortalLoads, InPortal, BrowserTypeOK, OtherTab
<1>7. CompanyFits'
  BY DEF BrowserInv, CompanyFits, BrowserTypeOK, OtherTab
<1>8. OnePerson'
  BY DEF BrowserInv, OnePerson, AppPerson, PortalPerson, Vetting, SignIns, InPortal,
     BrowserTypeOK, OtherTab
<1>9. PageFits'
  BY DEF BrowserInv, PageFits, AnswerTo, NoData, Shows, BrowserTypeOK, InPortal, OnePerson, AppPerson, OtherTab
<1> QED BY <1>1, <1>2, <1>3, <1>4, <1>5, <1>6, <1>7, <1>8, <1>9 DEF BrowserInv, BrowserTypeOK

\* A company is picked.
LEMMA PickKeeps ==
  ASSUME BrowserInv, NEW m \in Companies, Pick(m)
  PROVE  BrowserInv'
<1>1. CASE Shows(tab') /\ ~Shows(tab)
  <2>1. PICK q \in Questions :
          /\ page' = [effect |-> sent + 1, question |-> q, data |-> NoData, busy |-> TRUE,
                     failed |-> FALSE]
          /\ calls' = calls \cup {Call("load", token', companyId', q)}
          /\ sent' = sent + 1
    BY <1>1 DEF Pick, Renders, NoPage
  <2>2. TabTypes'
    BY <1>1, <2>1 DEF BrowserInv, TabTypes, TabState, BrowserTypeOK, Pick
  <2>3. PortalTypes'
    BY <1>1, <2>1 DEF BrowserInv, PortalTypes, PortalState, InPortal, BrowserTypeOK,
       StateTypes, Pick
  <2>4. PageTypes'
    BY <1>1, <2>1 DEF BrowserInv, PageTypes, PageState, Data, People, NoPage, NoData,
       BrowserTypeOK, StateTypes
  <2>5. StateTypes'
    BY <1>1, <2>1 DEF BrowserInv, StateTypes, BrowserTypeOK, Pick
  <2>6. CallTypes'
    BY <1>1, <2>1 DEF BrowserInv, CallTypes, PortalKinds, BrowserTypeOK, StateTypes, InPortal,
       Pick, Call
  <2>7. OneAtATime'
    BY <1>1, <2>1 DEF BrowserInv, OneAtATime, AppLoads, PortalLoads, InPortal, BrowserTypeOK,
       Pick, Call
  <2>8. CompanyFits'
    BY <1>1, <2>1 DEF BrowserInv, CompanyFits, BrowserTypeOK, Pick
  <2>9. OnePerson'
    BY <1>1, <2>1 DEF BrowserInv, OnePerson, AppPerson, PortalPerson, SignIns, InPortal,
       BrowserTypeOK, Pick, Call
  <2>10. PageFits'
    BY <1>1, <2>1 DEF BrowserInv, PageFits, AnswerTo, NoData, Shows, BrowserTypeOK, StateTypes, CallTypes,
       InPortal, OnePerson, AppPerson, Pick, Call
  <2> QED BY <2>2, <2>3, <2>4, <2>5, <2>6, <2>7, <2>8, <2>9, <2>10 DEF BrowserInv, BrowserTypeOK
<1>2. CASE ~(Shows(tab') /\ ~Shows(tab))
  <2>1. calls' = calls /\ sent' = sent /\ page' = IF Shows(tab') THEN page ELSE NoPage
    BY <1>2 DEF Pick, Renders
  <2>2. TabTypes'
    BY <1>2, <2>1 DEF BrowserInv, TabTypes, TabState, BrowserTypeOK, Pick
  <2>3. PortalTypes'
    BY <1>2, <2>1 DEF BrowserInv, PortalTypes, InPortal, BrowserTypeOK, Pick
  <2>4. PageTypes'
    BY <1>2, <2>1 DEF BrowserInv, PageTypes, PageState, Data, People, NoPage, NoData,
       BrowserTypeOK, StateTypes
  <2>5. StateTypes'
    BY <1>2, <2>1 DEF BrowserInv, StateTypes, BrowserTypeOK, Pick
  <2>6. CallTypes'
    BY <1>2, <2>1 DEF BrowserInv, CallTypes, BrowserTypeOK, InPortal
  <2>7. OneAtATime'
    BY <1>2, <2>1 DEF BrowserInv, OneAtATime, AppLoads, PortalLoads, InPortal, BrowserTypeOK,
       Pick
  <2>8. CompanyFits'
    BY <1>2, <2>1 DEF BrowserInv, CompanyFits, BrowserTypeOK, Pick
  <2>9. OnePerson'
    BY <1>2, <2>1 DEF BrowserInv, OnePerson, AppPerson, PortalPerson, SignIns, InPortal,
       BrowserTypeOK, Pick
  <2>10. PageFits'
    BY <1>2, <2>1 DEF BrowserInv, PageFits, AnswerTo, NoData, Shows, BrowserTypeOK, InPortal, OnePerson,
       AppPerson, Pick
  <2> QED BY <2>2, <2>3, <2>4, <2>5, <2>6, <2>7, <2>8, <2>9, <2>10 DEF BrowserInv, BrowserTypeOK
<1> QED BY <1>1, <1>2

\* The page asks for something else: an effect of a new number.
LEMMA AskKeeps ==
  ASSUME BrowserInv, NEW q \in Questions, Ask(q)
  PROVE  BrowserInv'
<1>1. TabTypes'
  BY DEF BrowserInv, TabTypes, BrowserTypeOK, Ask
<1>2. PortalTypes'
  BY DEF BrowserInv, PortalTypes, PortalState, InPortal, BrowserTypeOK, StateTypes, Ask, Sends
<1>3. PageTypes'
  <2>1. page \in PageState /\ page.data \in Data /\ sent \in Nat
    BY DEF BrowserInv, BrowserTypeOK, PageTypes, PageState, StateTypes
  <2>2. PICK kept \in {page.data, NoData} :
               page' = [effect |-> sent + 1, question |-> q, data |-> kept, busy |-> TRUE,
                        failed |-> FALSE]
    BY DEF Ask
  <2>3. sent' = sent + 1 BY DEF Ask, Sends
  <2>4. kept \in Data BY <2>1 DEF Data, NoData, People
  <2>5. page' \in PageState BY <2>1, <2>2, <2>4 DEF PageState
  <2>6. page'.effect = sent + 1 BY <2>2
  <2> QED BY <2>1, <2>3, <2>5, <2>6 DEF PageTypes
<1>4. StateTypes'
  BY DEF BrowserInv, StateTypes, BrowserTypeOK, Ask, Sends
<1>5. CallTypes'
  BY DEF BrowserInv, CallTypes, PortalKinds, BrowserTypeOK, StateTypes, Ask, Sends, Call
<1>6. OneAtATime'
  BY DEF BrowserInv, OneAtATime, AppLoads, PortalLoads, InPortal, BrowserTypeOK, Ask, Sends,
     Call
<1>7. CompanyFits'
  BY DEF BrowserInv, CompanyFits, BrowserTypeOK, Ask
<1>8. OnePerson'
  BY DEF BrowserInv, OnePerson, AppPerson, PortalPerson, Vetting, SignIns, InPortal,
     BrowserTypeOK, Ask, Sends, Call
<1>9. PageFits'
  BY DEF BrowserInv, PageFits, AnswerTo, NoData, Shows, BrowserTypeOK, StateTypes, CallTypes, InPortal,
     OnePerson, AppPerson, SignIns, CompanyFits, Ask, Sends, Call
<1> QED BY <1>1, <1>2, <1>3, <1>4, <1>5, <1>6, <1>7, <1>8, <1>9 DEF BrowserInv, BrowserTypeOK

\* The way back to the landing page, while a sign-in is on its way.
LEMMA BackKeeps ==
  ASSUME BrowserInv, Back
  PROVE  BrowserInv'
<1>1. TabTypes'
  BY DEF BrowserInv, TabTypes, TabState, BrowserTypeOK, Back
<1>2. PortalTypes'
  BY DEF BrowserInv, PortalTypes, InPortal, BrowserTypeOK, Back
<1>3. PageTypes'
  BY DEF BrowserInv, PageTypes, NoPage, NoData, BrowserTypeOK, Back
<1>4. StateTypes'
  BY DEF BrowserInv, StateTypes, BrowserTypeOK, Back
<1>5. CallTypes'
  BY DEF BrowserInv, CallTypes, BrowserTypeOK, Back
<1>6. OneAtATime'
  BY DEF BrowserInv, OneAtATime, AppLoads, PortalLoads, InPortal, BrowserTypeOK, Back
<1>7. CompanyFits'
  BY DEF BrowserInv, CompanyFits, BrowserTypeOK, Back
<1>8. OnePerson'
  BY DEF BrowserInv, OnePerson, AppPerson, PortalPerson, Vetting, SignIns, InPortal,
     BrowserTypeOK, Back
<1>9. PageFits'
  BY DEF BrowserInv, PageFits, AnswerTo, NoData, Shows, BrowserTypeOK, InPortal, OnePerson, AppPerson, SignIns,
     Back
<1> QED BY <1>1, <1>2, <1>3, <1>4, <1>5, <1>6, <1>7, <1>8, <1>9 DEF BrowserInv, BrowserTypeOK

\* The company is given up for another.
LEMMA SwitchKeeps ==
  ASSUME BrowserInv, Switch
  PROVE  BrowserInv'
<1>1. CASE Shows(tab') /\ ~Shows(tab)
  <2>1. PICK q \in Questions :
          /\ page' = [effect |-> sent + 1, question |-> q, data |-> NoData, busy |-> TRUE,
                     failed |-> FALSE]
          /\ calls' = calls \cup {Call("load", token', companyId', q)}
          /\ sent' = sent + 1
    BY <1>1 DEF Switch, Renders, NoPage
  <2>2. TabTypes'
    BY <1>1, <2>1 DEF BrowserInv, TabTypes, BrowserTypeOK, Switch
  <2>3. PortalTypes'
    BY <1>1, <2>1 DEF BrowserInv, PortalTypes, InPortal, BrowserTypeOK, Switch
  <2>4. PageTypes'
    BY <1>1, <2>1 DEF BrowserInv, PageTypes, PageState, Data, People, NoPage, NoData,
       BrowserTypeOK, StateTypes
  <2>5. StateTypes'
    BY <1>1, <2>1 DEF BrowserInv, StateTypes, BrowserTypeOK, Switch
  <2>6. CallTypes'
    BY <1>1, <2>1 DEF BrowserInv, CallTypes, BrowserTypeOK, InPortal, Switch
  <2>7. OneAtATime'
    BY <1>1, <2>1 DEF BrowserInv, OneAtATime, PortalLoads, InPortal, BrowserTypeOK, Switch
  <2>8. CompanyFits'
    BY <1>1, <2>1 DEF BrowserInv, CompanyFits, BrowserTypeOK, Switch
  <2>9. OnePerson'
    BY <1>1, <2>1 DEF BrowserInv, OnePerson, AppPerson, PortalPerson, SignIns, InPortal,
       BrowserTypeOK, Switch
  <2>10. PageFits'
    BY <1>1, <2>1 DEF BrowserInv, PageFits, AnswerTo, NoData, Shows, BrowserTypeOK, InPortal, OnePerson,
       AppPerson, Switch
  <2> QED BY <2>2, <2>3, <2>4, <2>5, <2>6, <2>7, <2>8, <2>9, <2>10 DEF BrowserInv, BrowserTypeOK
<1>2. CASE ~(Shows(tab') /\ ~Shows(tab))
  <2>1. calls' = calls /\ sent' = sent /\ page' = IF Shows(tab') THEN page ELSE NoPage
    BY <1>2 DEF Switch, Renders
  <2>2. TabTypes'
    BY <1>2, <2>1 DEF BrowserInv, TabTypes, TabState, BrowserTypeOK, Switch
  <2>3. PortalTypes'
    BY <1>2, <2>1 DEF BrowserInv, PortalTypes, InPortal, BrowserTypeOK, Switch
  <2>4. PageTypes'
    BY <1>2, <2>1 DEF BrowserInv, PageTypes, PageState, Data, People, NoPage, NoData,
       BrowserTypeOK, StateTypes
  <2>5. StateTypes'
    BY <1>2, <2>1 DEF BrowserInv, StateTypes, BrowserTypeOK, Switch
  <2>6. CallTypes'
    BY <1>2, <2>1 DEF BrowserInv, CallTypes, BrowserTypeOK, InPortal
  <2>7. OneAtATime'
    BY <1>2, <2>1 DEF BrowserInv, OneAtATime, AppLoads, PortalLoads, InPortal, BrowserTypeOK,
       Switch
  <2>8. CompanyFits'
    BY <1>2, <2>1 DEF BrowserInv, CompanyFits, BrowserTypeOK, Switch
  <2>9. OnePerson'
    BY <1>2, <2>1 DEF BrowserInv, OnePerson, AppPerson, PortalPerson, Vetting, SignIns,
       InPortal, BrowserTypeOK, Switch
  <2>10. PageFits'
    BY <1>2, <2>1 DEF BrowserInv, PageFits, AnswerTo, NoData, Shows, BrowserTypeOK, InPortal, OnePerson,
       AppPerson, Switch
  <2> QED BY <2>2, <2>3, <2>4, <2>5, <2>6, <2>7, <2>8, <2>9, <2>10 DEF BrowserInv, BrowserTypeOK
<1> QED BY <1>1, <1>2

\* The user signs out.
LEMMA LogoutKeeps ==
  ASSUME BrowserInv, Logout
  PROVE  BrowserInv'
<1>1. TabTypes'
  BY DEF BrowserInv, TabTypes, TabState, People, BrowserTypeOK, Logout
<1>2. PortalTypes'
  BY DEF BrowserInv, PortalTypes, PortalState, InPortal, BrowserTypeOK, StateTypes, Logout,
     Sends
<1>3. PageTypes'
  BY DEF BrowserInv, PageTypes, PageState, Data, People, NoPage, NoData, BrowserTypeOK,
     StateTypes, Logout, Sends
<1>4. StateTypes'
  BY DEF BrowserInv, StateTypes, People, BrowserTypeOK, Logout, Sends
<1>5. CallTypes'
  BY DEF BrowserInv, CallTypes, PortalKinds, BrowserTypeOK, StateTypes, Logout, Sends, Call
<1>6. OneAtATime'
  BY DEF BrowserInv, OneAtATime, AppLoads, PortalLoads, InPortal, BrowserTypeOK, Logout, Sends,
     Call
<1>7. CompanyFits'
  BY DEF BrowserInv, CompanyFits, BrowserTypeOK, Logout
<1>8. OnePerson'
  BY DEF BrowserInv, OnePerson, AppPerson, PortalPerson, Vetting, SignIns, InPortal,
     BrowserTypeOK, Logout, Sends, Call
<1>9. PageFits'
  BY DEF BrowserInv, PageFits, AnswerTo, NoData, Shows, BrowserTypeOK, InPortal, OnePerson, AppPerson, SignIns,
     Logout
<1> QED BY <1>1, <1>2, <1>3, <1>4, <1>5, <1>6, <1>7, <1>8, <1>9 DEF BrowserInv, BrowserTypeOK

\* The portal is opened ...
LEMMA OpenPortalKeeps ==
  ASSUME BrowserInv, OpenPortal
  PROVE  BrowserInv'
<1>1. TabTypes'
  BY DEF BrowserInv, TabTypes, TabState, BrowserTypeOK, OpenPortal
<1>2. PortalTypes'
  BY DEF BrowserInv, PortalTypes, PortalState, People, InPortal, BrowserTypeOK, StateTypes,
     OpenPortal, Sends
<1>3. PageTypes'
  BY DEF BrowserInv, PageTypes, PageState, Data, People, NoPage, NoData, BrowserTypeOK,
     StateTypes, OpenPortal, Sends
<1>4. StateTypes'
  BY DEF BrowserInv, StateTypes, BrowserTypeOK, OpenPortal, Sends
<1>5. CallTypes'
  BY DEF BrowserInv, CallTypes, BrowserTypeOK, StateTypes, OpenPortal, Sends, Call
<1>6. OneAtATime'
  BY DEF BrowserInv, OneAtATime, AppLoads, PortalLoads, InPortal, BrowserTypeOK, StateTypes,
     CallTypes, PortalKinds, OpenPortal, Sends, Call
<1>7. CompanyFits'
  BY DEF BrowserInv, CompanyFits, BrowserTypeOK, OpenPortal
<1>8. OnePerson'
  <2> SUFFICES ASSUME ~crossed' PROVE OnePerson' BY DEF OnePerson
  <2> DEFINE new == Call("portalRefresh", cookie, companyId, sent + 1)
  <2>1. ~crossed /\ (\A d \in SignIns : d.as = cookie) BY DEF OpenPortal
  <2>2. /\ InPortal' /\ portal'.me = Nobody /\ portal'.mount = sent + 1
        /\ calls' = calls \cup {new}
    BY DEF OpenPortal, InPortal, Sends, BrowserInv
  <2>3. new.as = cookie /\ new.kind = "portalRefresh" BY DEF Call
  <2>4. Vetting' = {}
    <3>1. \A d \in calls : d.kind \in PortalKinds => d.about # sent + 1
      BY DEF BrowserInv, BrowserTypeOK, CallTypes, StateTypes
    <3> QED BY <2>2, <2>3, <3>1 DEF Vetting, PortalKinds
  <2>5. \A d \in SignIns' : d.as = cookie BY <2>1, <2>2, <2>3 DEF SignIns
  <2>6. PortalPerson' BY <2>2, <2>4, <2>5 DEF PortalPerson
  <2> QED BY <2>2, <2>6 DEF OnePerson
<1>9. PageFits'
  BY DEF BrowserInv, PageFits, AnswerTo, NoData, Shows, BrowserTypeOK, InPortal, OnePerson, AppPerson, SignIns,
     OpenPortal
<1> QED BY <1>1, <1>2, <1>3, <1>4, <1>5, <1>6, <1>7, <1>8, <1>9 DEF BrowserInv, BrowserTypeOK

\* ... and left for the application, which shows what it had: unless nobody is, or may still be,
\* signed in or out, this crosses.
LEMMA LeavePortalKeeps ==
  ASSUME BrowserInv, LeavePortal
  PROVE  BrowserInv'
<1>1. CASE Shows(tab') /\ ~Shows(tab)
  <2>1. PICK q \in Questions :
          /\ page' = [effect |-> sent + 1, question |-> q, data |-> NoData, busy |-> TRUE,
                     failed |-> FALSE]
          /\ calls' = calls \cup {Call("load", token', companyId', q)}
          /\ sent' = sent + 1
    BY <1>1 DEF LeavePortal, Renders, NoPortal, NoPage
  <2>2. TabTypes'
    BY <1>1, <2>1 DEF BrowserInv, TabTypes, TabState, BrowserTypeOK, StateTypes, LeavePortal
  <2>3. PortalTypes'
    BY <1>1, <2>1 DEF BrowserInv, PortalTypes, PortalState, People, InPortal, BrowserTypeOK,
       StateTypes, LeavePortal, NoPortal
  <2>4. PageTypes'
    BY <1>1, <2>1 DEF BrowserInv, PageTypes, PageState, Data, People, NoPage, NoData,
       BrowserTypeOK, StateTypes
  <2>5. StateTypes'
    BY <1>1, <2>1 DEF BrowserInv, StateTypes, BrowserTypeOK, LeavePortal
  <2>6. CallTypes'
    BY <1>1, <2>1 DEF BrowserInv, CallTypes, PortalKinds, BrowserTypeOK, StateTypes, InPortal,
       LeavePortal, Call
  <2>7. OneAtATime'
    BY <1>1, <2>1 DEF BrowserInv, OneAtATime, AppLoads, PortalLoads, InPortal, BrowserTypeOK,
       LeavePortal, Call
  <2>8. CompanyFits'
    BY <1>1, <2>1 DEF BrowserInv, CompanyFits, BrowserTypeOK, LeavePortal
  <2>9. OnePerson'
    BY <1>1, <2>1 DEF BrowserInv, OnePerson, AppPerson, PortalPerson, SignIns, InPortal,
       BrowserTypeOK, TabTypes, StateTypes, TabState, LeavePortal, Shows
  <2>10. PageFits'
    BY <1>1, <2>1 DEF BrowserInv, PageFits, AnswerTo, NoData, Shows, BrowserTypeOK, TabTypes, StateTypes,
       TabState, InPortal, OnePerson, AppPerson, SignIns, LeavePortal
  <2> QED BY <2>2, <2>3, <2>4, <2>5, <2>6, <2>7, <2>8, <2>9, <2>10 DEF BrowserInv, BrowserTypeOK
<1>2. CASE ~(Shows(tab') /\ ~Shows(tab))
  <2>1. calls' = calls /\ sent' = sent /\ page' = IF Shows(tab') THEN page ELSE NoPage
    BY <1>2 DEF LeavePortal, Renders, NoPortal
  <2>2. TabTypes'
    BY <1>2, <2>1 DEF BrowserInv, TabTypes, TabState, BrowserTypeOK, StateTypes, LeavePortal
  <2>3. PortalTypes'
    BY <1>2, <2>1 DEF BrowserInv, PortalTypes, PortalState, People, InPortal, BrowserTypeOK,
       StateTypes, LeavePortal, NoPortal
  <2>4. PageTypes'
    BY <1>2, <2>1 DEF BrowserInv, PageTypes, PageState, Data, People, NoPage, NoData,
       BrowserTypeOK, StateTypes
  <2>5. StateTypes'
    BY <1>2, <2>1 DEF BrowserInv, StateTypes, BrowserTypeOK, LeavePortal
  <2>6. CallTypes'
    BY <1>2, <2>1 DEF BrowserInv, CallTypes, BrowserTypeOK, InPortal
  <2>7. OneAtATime'
    BY <1>2, <2>1 DEF BrowserInv, OneAtATime, AppLoads, PortalLoads, InPortal, BrowserTypeOK,
       LeavePortal
  <2>8. CompanyFits'
    BY <1>2, <2>1 DEF BrowserInv, CompanyFits, BrowserTypeOK, LeavePortal
  <2>9. OnePerson'
    BY <1>2, <2>1 DEF BrowserInv, OnePerson, AppPerson, PortalPerson, SignIns, InPortal,
       SignOuts, BrowserTypeOK, TabTypes, StateTypes, TabState, LeavePortal
  <2>10. PageFits'
    BY <1>2, <2>1 DEF BrowserInv, PageFits, AnswerTo, NoData, Shows, BrowserTypeOK, InPortal, OnePerson,
       AppPerson, SignIns, LeavePortal
  <2> QED BY <2>2, <2>3, <2>4, <2>5, <2>6, <2>7, <2>8, <2>9, <2>10 DEF BrowserInv, BrowserTypeOK
<1> QED BY <1>1, <1>2

\* An operator signs out, or acts as a customer.
LEMMA PortalAsksKeeps ==
  ASSUME BrowserInv, NEW kind \in {"portalLogout", "impersonate"}, PortalAsks(kind)
  PROVE  BrowserInv'
<1>1. TabTypes'
  BY DEF BrowserInv, TabTypes, BrowserTypeOK, PortalAsks
<1>2. PortalTypes'
  BY DEF BrowserInv, PortalTypes, PortalState, InPortal, BrowserTypeOK, StateTypes, PortalAsks,
     Sends
<1>3. PageTypes'
  BY DEF BrowserInv, PageTypes, PageState, Data, NoPage, NoData, BrowserTypeOK, StateTypes,
     PortalAsks, Sends
<1>4. StateTypes'
  BY DEF BrowserInv, StateTypes, BrowserTypeOK, PortalAsks, Sends
<1>5. CallTypes'
  BY DEF BrowserInv, CallTypes, PortalKinds, BrowserTypeOK, StateTypes, PortalTypes,
     PortalState, InPortal, PortalAsks, PortalActs, Sends, Call
<1>6. OneAtATime'
  BY DEF BrowserInv, OneAtATime, AppLoads, PortalLoads, InPortal, BrowserTypeOK, PortalAsks,
     Sends, Call
<1>7. CompanyFits'
  BY DEF BrowserInv, CompanyFits, BrowserTypeOK, PortalAsks
<1>8. OnePerson'
  BY DEF BrowserInv, OnePerson, AppPerson, PortalPerson, Vetting, SignIns, InPortal,
     BrowserTypeOK, PortalAsks, PortalActs, Sends, Call
<1>9. PageFits'
  BY DEF BrowserInv, PageFits, AnswerTo, NoData, Shows, BrowserTypeOK, InPortal, OnePerson, AppPerson, SignIns,
     CompanyFits, PortalAsks, PortalActs
<1> QED BY <1>1, <1>2, <1>3, <1>4, <1>5, <1>6, <1>7, <1>8, <1>9 DEF BrowserInv, BrowserTypeOK

\* No page is a page.
LEMMA NoPageType == NoPage \in PageState /\ NoPage.effect = 0
<1>1. NoData \in Data BY DEF NoData, Data, People
<1> QED BY <1>1 DEF NoPage, PageState

\* The tab is loaded anew, by hand or into the application of a customer.
LEMMA FreshKeeps ==
  ASSUME BrowserInv, NEW view \in {"app", "admin"}, Fresh(view)
  PROVE  BrowserInv'
<1> DEFINE refresh == Call("refresh", cookie, Nobody, Nobody)
           check   == [Call("portalRefresh", cookie, Nobody, sent + 2) EXCEPT !.effect = sent + 2]
<1>1. /\ refresh.kind = "refresh" /\ refresh.as = cookie /\ refresh.company = Nobody
      /\ refresh.effect = sent + 1
      /\ check.kind = "portalRefresh" /\ check.as = cookie /\ check.company = Nobody
      /\ check.effect = sent + 2 /\ check.about = sent + 2
  BY DEF Call
<1>2. calls' = IF view = "admin" THEN {refresh, check} ELSE {refresh} BY DEF Fresh
<1> HIDE DEF refresh, check
<1>3. /\ token' = Nobody /\ companyId' = Nobody /\ tab' = FreshTab(view) /\ page' = NoPage
      /\ portal' = IF view = "admin" THEN [mount |-> sent + 2, checking |-> TRUE, me |-> Nobody]
                                     ELSE NoPortal
      /\ sent' = sent + 2 /\ crossed' = FALSE /\ cookie' = cookie /\ saved' = saved
  BY DEF Fresh
<1>4. sent \in Nat /\ cookie \in People /\ saved \in Companies \cup {Nobody}
  BY DEF BrowserInv, BrowserTypeOK, StateTypes
<1>5. tab'.view = view /\ tab'.loading /\ tab'.user = Nobody /\ tab'.company = Nobody
      /\ tab' \in TabState
  BY <1>3 DEF FreshTab, TabState, People
<1>6. PageTypes' /\ StateTypes' /\ CompanyFits'
  <2>1. sent' \in Nat /\ sent' >= 0 BY <1>3, <1>4
  <2>2. PageTypes' BY <1>3, <2>1, NoPageType DEF PageTypes
  <2>3. StateTypes' BY <1>3, <1>4, <2>1 DEF StateTypes, People
  <2>4. CompanyFits' BY <1>5 DEF CompanyFits
  <2> QED BY <2>2, <2>3, <2>4
<1>7. PortalTypes'
  BY <1>3, <1>4, <1>5 DEF PortalTypes, PortalState, NoPortal, InPortal, People
<1>8. CallTypes'
  BY <1>1, <1>2, <1>3, <1>4 DEF CallTypes, PortalKinds
<1>9. OneAtATime'
  <2>1. AppLoads' \subseteq {refresh} /\ PortalLoads' \subseteq {check}
    BY <1>1, <1>2 DEF AppLoads, PortalLoads
  <2> QED BY <1>3, <1>5, <2>1 DEF OneAtATime, InPortal
<1>10. OnePerson'
  <2>1. Vetting' = {} /\ \A d \in SignIns' : d.as = cookie
    BY <1>1, <1>2 DEF Vetting, SignIns
  <2>2. CASE view = "admin"
    <3>1. portal'.me = Nobody BY <1>3, <2>2
    <3>2. PortalPerson' BY <2>1, <3>1 DEF PortalPerson
    <3> QED BY <1>5, <2>2, <3>2 DEF OnePerson, InPortal
  <2>3. CASE view = "app"
    <3>1. AppPerson' BY <1>1, <1>2, <1>3, <1>5, <2>1, <2>3 DEF AppPerson
    <3> QED BY <1>5, <2>3, <3>1 DEF OnePerson, InPortal
  <2> QED BY <2>2, <2>3
<1>11. PageFits' BY <1>5 DEF PageFits, Shows
<1> QED BY <1>5, <1>6, <1>7, <1>8, <1>9, <1>10, <1>11 DEF BrowserInv, BrowserTypeOK, TabTypes

\* A fresh tab begins so.
LEMMA BrowserInitInv == BrowserInit => BrowserInv
<1> SUFFICES ASSUME BrowserInit PROVE BrowserInv OBVIOUS
<1>1. tab.view = "app" /\ tab.loading /\ tab.user = Nobody /\ tab.company = Nobody /\ tab \in TabState
  BY DEF BrowserInit, FreshTab, TabState, People
<1>2. PageTypes /\ StateTypes /\ CompanyFits /\ PortalTypes
  <2>1. sent = 1 /\ page = NoPage /\ portal = NoPortal BY DEF BrowserInit
  <2>2. PageTypes BY <2>1, NoPageType DEF PageTypes
  <2>3. StateTypes
    <3>1. cookie \in People /\ token \in People BY DEF BrowserInit, People
    <3>2. companyId \in Companies \cup {Nobody} /\ saved \in Companies \cup {Nobody}
      BY DEF BrowserInit
    <3>3. crossed \in BOOLEAN BY DEF BrowserInit
    <3> QED BY <2>1, <3>1, <3>2, <3>3 DEF StateTypes
  <2>4. CompanyFits BY <1>1 DEF CompanyFits
  <2>5. PortalTypes BY <1>1, <2>1 DEF PortalTypes, PortalState, NoPortal, InPortal, People
  <2> QED BY <2>2, <2>3, <2>4, <2>5
<1> DEFINE refresh == [kind |-> "refresh", as |-> cookie, company |-> Nobody, about |-> Nobody, effect |-> 1]
<1>3. /\ calls = {refresh} /\ refresh.kind = "refresh" /\ refresh.as = cookie
                     /\ refresh.company = Nobody /\ refresh.effect = 1
  BY DEF BrowserInit
<1> HIDE DEF refresh
<1>4. CallTypes BY <1>3 DEF CallTypes, PortalKinds, BrowserInit, People
<1>5. OneAtATime
  <2>1. AppLoads \subseteq {refresh} /\ PortalLoads = {} BY <1>3 DEF AppLoads, PortalLoads
  <2> QED BY <1>1, <2>1 DEF OneAtATime
<1>6. OnePerson
  <2>1. \A d \in SignIns : d = refresh BY <1>3 DEF SignIns
  <2>2. AppPerson BY <1>1, <1>3, <2>1 DEF AppPerson, BrowserInit
  <2> QED BY <1>1, <2>2 DEF OnePerson, InPortal
<1>7. PageFits BY <1>1 DEF PageFits, Shows
<1> QED BY <1>1, <1>2, <1>4, <1>5, <1>6, <1>7 DEF BrowserInv, BrowserTypeOK, TabTypes

\* So every step keeps it.
LEMMA BrowserNextInv == BrowserInv /\ [BrowserNext]_browserVars => BrowserInv'
<1> SUFFICES ASSUME BrowserInv, [BrowserNext]_browserVars PROVE BrowserInv' OBVIOUS
<1>1. ASSUME NEW c \in calls,
             \/ Refreshed(c) \/ CompaniesCame(c) \/ LoadFailed(c)
             \/ LoggedIn(c) \/ LoginFailed(c) \/ LogoutDone(c)
             \/ Loaded(c) \/ NotLoaded(c)
      PROVE  BrowserInv'
  BY <1>1, RefreshedKeeps, CompaniesCameKeeps, LoadFailedKeeps, LoggedInKeeps, LoginFailedKeeps,
     LogoutDoneKeeps, LoadedKeeps, NotLoadedKeeps
<1>2. ASSUME NEW c \in calls,
             \/ PortalToken(c) \/ PortalAnswered(c) \/ PortalFailed(c)
             \/ PortalSignedOut(c) \/ Impersonated(c)
      PROVE  BrowserInv'
  BY <1>2, PortalTokenKeeps, PortalAnsweredKeeps, PortalFailedKeeps, PortalSignedOutKeeps,
     FreshKeeps DEF Impersonated
<1>3. ASSUME NEW u \in Users, Login(u) \/ PortalLogin(u) PROVE BrowserInv'
  BY <1>3, LoginKeeps, PortalLoginKeeps
<1>4. ASSUME NEW u \in Users \cup {Nobody}, OtherTab(u) PROVE BrowserInv'
  BY <1>4, OtherTabKeeps
<1>5. ASSUME NEW m \in Companies, Pick(m) PROVE BrowserInv'
  BY <1>5, PickKeeps
<1>6. ASSUME NEW q \in Questions, Ask(q) PROVE BrowserInv'
  BY <1>6, AskKeeps
<1>7. CASE Reload
  <2>1. tab.view \in {"app", "admin"} /\ Fresh(tab.view)
    BY <1>7 DEF Reload, BrowserInv, BrowserTypeOK, TabTypes, TabState
  <2>2. PICK view \in {"app", "admin"} : view = tab.view BY <2>1
  <2>3. Fresh(view) BY <2>1, <2>2
  <2> QED BY <2>3, FreshKeeps
<1>8. CASE Back \/ Switch \/ Logout BY <1>8, BackKeeps, SwitchKeeps, LogoutKeeps
<1>9. CASE OpenPortal \/ LeavePortal BY <1>9, OpenPortalKeeps, LeavePortalKeeps
<1>10. ASSUME NEW kind \in {"portalLogout", "impersonate"}, PortalAsks(kind) PROVE BrowserInv'
  BY <1>10, PortalAsksKeeps
<1>11. CASE UNCHANGED browserVars
  BY <1>11 DEF browserVars, BrowserInv, BrowserTypeOK, TabTypes, PortalTypes, PageTypes,
     StateTypes, CallTypes, InPortal, OneAtATime, AppLoads, PortalLoads, CompanyFits,
     OnePerson, AppPerson, PortalPerson, SignIns, Vetting, PageFits, AnswerTo
<1> QED
  BY <1>1, <1>2, <1>3, <1>4, <1>5, <1>6, <1>7, <1>8, <1>9, <1>10, <1>11 DEF BrowserNext

\* ActsAsShown: who is on the screen is who acts, however calls, tabs and the portal
\* overlap, unless sign-ins crossed.
THEOREM ScreenNamesWhoActs == BrowserSpec => []ActsAsShown
<1>1. BrowserInv => ActsAsShown
  BY DEF BrowserInv, ActsAsShown, OnePerson, PageFits, AppPerson, PortalPerson, CompanyFits,
     Shows, InPortal
<1> QED BY <1>1, BrowserInitInv, BrowserNextInv, PTL DEF BrowserSpec

-----------------------------------------------------------------------------
(* Memberships and permissions *)

Status     == {"none", "invited", "active", "suspended"}
Permission == Roles \cup {None, Nothing}
Membership == [status : Status, role : Roles \cup {None}]
Invitation == [user : Staff, role : Roles \cup {None}, late : BOOLEAN]
Work       == [at : {"rest", "find", "create", "sign", "join", "activate", "update", "flush"},
               user : Staff \cup {None}, role : Roles \cup {None},
               status : {None, "active", "suspended"}, overtaken : BOOLEAN, late : BOOLEAN]
Passage    == [at : {"rest", "section", "remember", "authorize", "fill", "served"},
               pod : Pods \cup {None}, perms : Permission, open : BOOLEAN]
History    == [changes : Nat, lost : Nat, stale : SUBSET Staff, unmetered : SUBSET Staff]

\* The collections, the caches and the requests are well typed.
AccessTypeOK ==
  /\ account \subseteq Staff
  /\ member \in [Staff -> Membership]
  /\ invites \subseteq Invitation
  /\ section \in BOOLEAN
  /\ cache \in [Staff -> Permission]
  /\ podCache \in [Pods -> {None, "on", "off"}]
  /\ work \in [Admins \cup Staff -> Work]
  /\ request \in [Staff -> Passage]
  /\ toggle \in Pods \cup {None}
  /\ history \in History

Actors == Admins \cup Staff

\* Administrators invite and update, users accept, each for themselves; a membership
\* that is to be changed is there, and a user who is to be made a member has an account.
\* Who counted the seats, and was not overtaken, has one to give; and an invitation begun
\* when its user was suspended goes no further than to find the membership.
ActorFits(c) ==
  LET w == work[c] IN
  /\ c \in Admins => w.at \notin {"join", "activate"}
  /\ c \in Staff => /\ w.at \in {"rest", "join", "activate", "flush"}
                    /\ w.at # "rest" => w.user = c
  /\ w.at # "rest" => w.user \in Staff
  /\ w.at \in {"update", "activate"} => member[w.user].status # "none"
  /\ w.at \in {"create", "join"} => w.user \in account
  /\ w.at \in {"find", "create"} /\ ~w.overtaken => Cardinality(Seated) < Seats
  /\ w.at = "find" /\ w.late => member[w.user].status \in {"active", "suspended"}
  /\ w.at \in {"create", "sign", "join", "activate"} => ~w.late

\* No membership without an account, and no invitation of the suspended.
InvitesFit ==
  /\ \A u \in Staff : member[u].status # "none" => u \in account
  /\ \A i \in invites : ~i.late

AccessInv ==
  /\ AccessTypeOK /\ InvitesFit /\ StaleHasCause /\ SeatsAreCounted
  /\ \A c \in Actors : ActorFits(c)

-----------------------------------------------------------------------------
(* Types *)

USE DEF None, Nothing, Does, Actors

LEMMA SeatedCount ==
  ASSUME IsFiniteSet(Staff), NEW S \in SUBSET Staff
  PROVE  /\ IsFiniteSet(S) /\ Cardinality(S) \in Nat
         /\ \A T \in SUBSET S : Cardinality(T) <= Cardinality(S)
BY FS_Subset, FS_CardinalityType

LEMMA PermsType == ASSUME AccessTypeOK, NEW u \in Staff PROVE Perms(u) \in Permission
BY DEF AccessTypeOK, Perms, Membership, Permission

LEMMA IdleType == Idle \in Work
BY DEF Idle, Work

LEMMA AwayType == Away \in Passage
BY DEF Away, Passage, Permission

\* What is said of one actor's work, of one request, of the history.
LEMMA WorkType ==
  ASSUME AccessTypeOK, NEW c \in Actors, NEW w \in Work, work' = [work EXCEPT ![c] = w]
  PROVE  /\ work' \in [Actors -> Work] /\ work'[c] = w
         /\ \A x \in Actors : x # c => work'[x] = work[x]
BY DEF AccessTypeOK

LEMMA PassageType ==
  ASSUME AccessTypeOK, NEW u \in Staff, NEW p \in Passage, request' = [request EXCEPT ![u] = p]
  PROVE  request' \in [Staff -> Passage]
BY DEF AccessTypeOK

LEMMA BegunType ==
  ASSUME AccessTypeOK, Begun
  PROVE  /\ history' \in History /\ history'.stale = history.stale
         /\ history'.unmetered = history.unmetered
BY DEF AccessTypeOK, Begun, History

LEMMA OvertakenType ==
  ASSUME AccessTypeOK, NEW c \in Actors, NEW at \in {"sign", "flush"},
         work' = [Overtaken(c) EXCEPT ![c].at = at]
  PROVE  /\ work' \in [Actors -> Work]
         /\ work'[c] = [work[c] EXCEPT !.at = at]
         /\ \A x \in Actors : x # c =>
              IF work[x].at \in {"find", "create"}
              THEN work'[x] = [work[x] EXCEPT !.overtaken = TRUE]
              ELSE work'[x] = work[x]
<1>1. work \in [Actors -> Work] BY DEF AccessTypeOK
<1>2. Overtaken(c) \in [Actors -> Work] /\ Overtaken(c)[c] = work[c]
  BY <1>1 DEF Overtaken, Work
<1>3. work' = [Overtaken(c) EXCEPT ![c] = [work[c] EXCEPT !.at = at]]
  BY <1>2 DEF Work
<1>4. [work[c] EXCEPT !.at = at] \in Work BY <1>1 DEF Work
<1> QED BY <1>1, <1>2, <1>3, <1>4 DEF Overtaken

-----------------------------------------------------------------------------
(* Steps, by what they change *)

\* Accounts come, invitations go: memberships, caches and work stay.
LEMMA QuietStep ==
  ASSUME AccessInv, AccessTypeOK', member' = member, work' = work, cache' = cache,
         invites' \subseteq invites, account \subseteq account',
         history'.stale = history.stale, history'.unmetered = history.unmetered
  PROVE  AccessInv'
<1>1. Seated' = Seated /\ \A u \in Staff : Perms(u)' = Perms(u) BY DEF Seated, Perms
<1>2. InvitesFit' BY DEF AccessInv, InvitesFit
<1>3. StaleHasCause' BY <1>1 DEF AccessInv, StaleHasCause
<1>4. SeatsAreCounted' BY <1>1 DEF AccessInv, SeatsAreCounted
<1>5. \A c \in Actors : ActorFits(c)' BY <1>1 DEF AccessInv, ActorFits
<1> QED BY <1>2, <1>3, <1>4, <1>5 DEF AccessInv

\* Only the work of c goes on.
LEMMA WorkStep ==
  ASSUME AccessInv, AccessTypeOK', NEW c \in Actors, work[c].at # "flush",
         \A x \in Actors : x # c => work'[x] = work[x],
         member' = member, cache' = cache, account' = account,
         \A i \in invites' : ~i.late, ActorFits(c)',
         history'.stale = history.stale, history'.unmetered = history.unmetered
  PROVE  AccessInv'
<1>1. Seated' = Seated /\ \A u \in Staff : Perms(u)' = Perms(u) BY DEF Seated, Perms
<1>2. InvitesFit' BY DEF AccessInv, InvitesFit
<1>3. StaleHasCause' BY <1>1 DEF AccessInv, StaleHasCause
<1>4. SeatsAreCounted' BY <1>1 DEF AccessInv, SeatsAreCounted
<1>5. ASSUME NEW x \in Actors, x # c PROVE ActorFits(x)'
  BY <1>1, <1>5 DEF AccessInv, ActorFits
<1> QED BY <1>2, <1>3, <1>4, <1>5 DEF AccessInv

LEMMA InviteCountInv == ASSUME AccessInv, NEW a \in Admins, InviteCount(a) PROVE AccessInv'
<1>1. PICK u \in Staff, r \in Roles :
        work' = [work EXCEPT ![a] = [Idle EXCEPT !.at = "find", !.user = u, !.role = r,
                                                 !.late = member[u].status = "suspended"]]
  BY DEF InviteCount
<1>2. /\ account' = account /\ member' = member /\ invites' = invites /\ section' = section
      /\ cache' = cache /\ podCache' = podCache /\ request' = request /\ toggle' = toggle
      /\ work[a].at = "rest" /\ Cardinality(Seated) < Seats /\ Begun /\ AccessTypeOK
  BY DEF InviteCount, AccessInv
<1> DEFINE late == member[u].status = "suspended"
           w == [Idle EXCEPT !.at = "find", !.user = u, !.role = r, !.late = late]
<1>3. late \in BOOLEAN OBVIOUS
<1> HIDE DEF late
<1>4. work' = [work EXCEPT ![a] = w] BY <1>1 DEF late
<1>5. w \in Work BY <1>3 DEF Work, Idle
<1>6. /\ work' \in [Actors -> Work] /\ work'[a] = w
      /\ \A x \in Actors : x # a => work'[x] = work[x]
  <2> HIDE DEF w
  <2> QED BY <1>2, <1>4, <1>5, WorkType
<1>7. /\ history' \in History /\ history'.stale = history.stale
      /\ history'.unmetered = history.unmetered
  BY <1>2, BegunType
<1>8. AccessTypeOK' BY <1>2, <1>6, <1>7 DEF AccessTypeOK
<1>9. a \notin Staff BY AccessAssumption
<1>10. Seated' = Seated BY <1>2 DEF Seated
<1>11. ActorFits(a)'
  <2>1. late => member'[u].status = "suspended" BY <1>2 DEF late
  <2>2. /\ work'[a].at = "find" /\ work'[a].user = u /\ work'[a].late = late
    BY <1>6 DEF Idle
  <2> QED BY <1>2, <1>9, <1>10, <2>1, <2>2 DEF ActorFits
<1> QED BY <1>2, <1>6, <1>7, <1>8, <1>11, WorkStep DEF AccessInv, InvitesFit

LEMMA InviteFindInv == ASSUME AccessInv, NEW a \in Admins, InviteFind(a) PROVE AccessInv'
<1> DEFINE u == work[a].user
<1>1. /\ account' = account /\ member' = member /\ invites' = invites /\ section' = section
      /\ cache' = cache /\ podCache' = podCache /\ request' = request /\ toggle' = toggle
      /\ history' = history /\ work[a].at = "find" /\ AccessTypeOK
  BY DEF InviteFind, AccessInv
<1>2. work[a] \in Work /\ ActorFits(a) /\ u \in Staff /\ member[u] \in Membership
  <2>1. work[a] \in Work /\ ActorFits(a) BY DEF AccessInv, AccessTypeOK
  <2>2. u \in Staff BY <2>1, <1>1 DEF ActorFits
  <2> QED BY <2>1, <2>2 DEF AccessInv, AccessTypeOK
<1>3. \/ work' = [work EXCEPT ![a] = Idle]
      \/ work' = [work EXCEPT ![a].at = "sign"] /\ member[u].status \in {"none", "invited"}
      \/ /\ work' = [work EXCEPT ![a].at = "create"]
         /\ member[u].status = "none" /\ u \in account
  <2>1. u \notin account => member[u].status = "none" BY <1>2 DEF AccessInv, InvitesFit
  <2> QED BY <2>1 DEF InviteFind, Done
<1>4. \E w \in Work :
        /\ work' = [work EXCEPT ![a] = w]
        /\ \/ w = Idle
           \/ w.at = "sign" /\ w.user = u /\ w.late = work[a].late
              /\ member[u].status \in {"none", "invited"}
           \/ w.at = "create" /\ w.user = u /\ w.late = work[a].late
              /\ w.overtaken = work[a].overtaken /\ member[u].status = "none" /\ u \in account
  <2>1. CASE work' = [work EXCEPT ![a] = Idle] BY <2>1, IdleType
  <2>2. CASE work' = [work EXCEPT ![a].at = "sign"] /\ member[u].status \in {"none", "invited"}
    <3>1. [work[a] EXCEPT !.at = "sign"] \in Work BY <1>2 DEF Work
    <3>2. work' = [work EXCEPT ![a] = [work[a] EXCEPT !.at = "sign"]]
      BY <2>2, <1>1 DEF AccessTypeOK
    <3> QED BY <3>1, <3>2, <2>2, <1>2 DEF Work
  <2>3. CASE work' = [work EXCEPT ![a].at = "create"] /\ member[u].status = "none" /\ u \in account
    <3>1. [work[a] EXCEPT !.at = "create"] \in Work BY <1>2 DEF Work
    <3>2. work' = [work EXCEPT ![a] = [work[a] EXCEPT !.at = "create"]]
      BY <2>3, <1>1 DEF AccessTypeOK
    <3> QED BY <3>1, <3>2, <2>3, <1>2 DEF Work
  <2> QED BY <1>3, <2>1, <2>2, <2>3
<1>5. PICK w \in Work :
        /\ work' = [work EXCEPT ![a] = w]
        /\ \/ w = Idle
           \/ w.at = "sign" /\ w.user = u /\ w.late = work[a].late
              /\ member[u].status \in {"none", "invited"}
           \/ w.at = "create" /\ w.user = u /\ w.late = work[a].late
              /\ w.overtaken = work[a].overtaken /\ member[u].status = "none" /\ u \in account
  BY <1>4
<1>6. /\ work' \in [Actors -> Work] /\ work'[a] = w
      /\ \A x \in Actors : x # a => work'[x] = work[x]
  BY <1>1, <1>5, WorkType
<1>7. AccessTypeOK' BY <1>1, <1>6 DEF AccessTypeOK
<1>8. a \notin Staff BY AccessAssumption
<1>9. Seated' = Seated BY <1>1 DEF Seated
<1>10. ActorFits(a)'
  <2>1. w = Idle => w.at = "rest" BY DEF Idle
  <2>2. w.late = TRUE => w = Idle \/ member[u].status \in {"active", "suspended"}
    BY <1>1, <1>2, <1>5 DEF ActorFits, Work
  <2>3. w.at \in {"rest", "sign", "create"} BY <2>1, <1>5
  <2>4. w.at # "rest" => w.user = u /\ ~w.late BY <2>1, <2>2, <1>5, <1>2 DEF Work
  <2>5. w.at = "create" => u \in account /\ w.overtaken = work[a].overtaken
    BY <1>5, <2>1
  <2> HIDE DEF u
  <2> QED BY <1>1, <1>2, <1>6, <1>8, <1>9, <2>3, <2>4, <2>5 DEF ActorFits
<1> QED BY <1>1, <1>6, <1>7, <1>10, WorkStep DEF AccessInv, InvitesFit

LEMMA InviteSignInv == ASSUME AccessInv, NEW a \in Admins, InviteSign(a) PROVE AccessInv'
<1> DEFINE i == [user |-> work[a].user, role |-> work[a].role, late |-> work[a].late]
<1>1. /\ account' = account /\ member' = member /\ section' = section
      /\ cache' = cache /\ podCache' = podCache /\ request' = request /\ toggle' = toggle
      /\ history' = history /\ work[a].at = "sign" /\ AccessTypeOK
      /\ invites' \in {invites, invites \cup {i}} /\ work' = [work EXCEPT ![a] = Idle]
  BY DEF InviteSign, Done, AccessInv
<1>2. work[a] \in Work /\ ActorFits(a) BY DEF AccessInv, AccessTypeOK
<1>3. i.late = FALSE /\ work[a].user \in Staff BY <1>1, <1>2 DEF ActorFits, Work
<1>4. /\ work' \in [Actors -> Work] /\ work'[a] = Idle
      /\ \A x \in Actors : x # a => work'[x] = work[x]
  BY <1>1, IdleType, WorkType
<1>5. \A j \in invites' : ~j.late
  <2> HIDE DEF i
  <2> QED BY <1>1, <1>3 DEF AccessInv, InvitesFit
<1>7. AccessTypeOK'
  <2>1. i \in Invitation BY <1>2, <1>3 DEF Invitation, Work
  <2> HIDE DEF i
  <2> QED BY <2>1, <1>1, <1>4 DEF AccessTypeOK
<1>8. ActorFits(a)' BY <1>4 DEF ActorFits, Idle
<1> QED BY <1>1, <1>4, <1>5, <1>7, <1>8, WorkStep

LEMMA AcceptReadInv == ASSUME AccessInv, NEW u \in Staff, AcceptRead(u) PROVE AccessInv'
<1>1. PICK i \in invites :
        work' = [work EXCEPT ![u] = [Idle EXCEPT
          !.at = IF member[u].status = "none" THEN "join" ELSE "activate",
          !.user = u, !.role = i.role, !.late = i.late]]
  BY DEF AcceptRead
<1>2. /\ account' = account /\ member' = member /\ invites' = invites /\ section' = section
      /\ cache' = cache /\ podCache' = podCache /\ request' = request /\ toggle' = toggle
      /\ history' = history /\ work[u].at = "rest" /\ u \in account /\ AccessTypeOK
  BY DEF AcceptRead, AccessInv
<1> DEFINE at == IF member[u].status = "none" THEN "join" ELSE "activate"
           w == [Idle EXCEPT !.at = at, !.user = u, !.role = i.role, !.late = i.late]
<1>3. /\ at \in {"join", "activate"} /\ (at = "activate" => member[u].status # "none")
      /\ i \in Invitation /\ i.late = FALSE
  BY <1>2 DEF AccessInv, InvitesFit, AccessTypeOK, Invitation
<1>4. work' = [work EXCEPT ![u] = w] BY <1>1
<1> HIDE DEF at
<1>5. w \in Work BY <1>3 DEF Work, Idle, Invitation
<1>6. /\ work' \in [Actors -> Work] /\ work'[u] = w
      /\ \A x \in Actors : x # u => work'[x] = work[x]
  <2> HIDE DEF w
  <2> QED BY <1>2, <1>4, <1>5, WorkType
<1>7. AccessTypeOK' BY <1>2, <1>6 DEF AccessTypeOK
<1>8. u \notin Admins BY AccessAssumption
<1>9. ActorFits(u)'
  <2>1. work'[u].at = at /\ work'[u].user = u /\ work'[u].late = FALSE BY <1>3, <1>6 DEF Idle
  <2> QED BY <1>2, <1>3, <1>8, <2>1 DEF ActorFits
<1> QED BY <1>2, <1>6, <1>7, <1>9, WorkStep DEF AccessInv, InvitesFit

LEMMA UpdateReadInv == ASSUME AccessInv, NEW a \in Admins, UpdateRead(a) PROVE AccessInv'
<1>1. PICK u \in Seated, r \in Roles \cup {None}, s \in {None, "active", "suspended"} :
        work' = [work EXCEPT ![a] = [Idle EXCEPT !.at = "update", !.user = u, !.role = r,
                                                 !.status = s]]
  BY DEF UpdateRead
<1>2. /\ account' = account /\ member' = member /\ invites' = invites /\ section' = section
      /\ cache' = cache /\ podCache' = podCache /\ request' = request /\ toggle' = toggle
      /\ work[a].at = "rest" /\ Begun /\ AccessTypeOK
  BY DEF UpdateRead, AccessInv
<1>3. u \in Staff /\ member[u].status # "none" BY DEF Seated
<1> DEFINE w == [Idle EXCEPT !.at = "update", !.user = u, !.role = r, !.status = s]
<1>5. w \in Work BY <1>3 DEF Work, Idle
<1>6. /\ work' \in [Actors -> Work] /\ work'[a] = w
      /\ \A x \in Actors : x # a => work'[x] = work[x]
  <2>1. work' = [work EXCEPT ![a] = w] BY <1>1
  <2> HIDE DEF w
  <2> QED BY <1>2, <1>5, <2>1, WorkType
<1>7. /\ history' \in History /\ history'.stale = history.stale
      /\ history'.unmetered = history.unmetered
  BY <1>2, BegunType
<1>8. AccessTypeOK' BY <1>2, <1>6, <1>7 DEF AccessTypeOK
<1>9. a \notin Staff BY AccessAssumption
<1>10. ActorFits(a)'
  <2>1. work'[a].at = "update" /\ work'[a].user = u BY <1>6 DEF Idle
  <2> QED BY <1>2, <1>3, <1>9, <2>1 DEF ActorFits
<1> QED BY <1>2, <1>6, <1>7, <1>8, <1>10, WorkStep DEF AccessInv, InvitesFit

\* The membership of v is written by c, who is to delete the cached permissions then,
\* unless they stay what they were; if it is a new one it takes a seat, and overtakes
\* everybody who counts.
LEMMA MemberStep ==
  ASSUME AccessInv, AccessTypeOK', NEW c \in Actors, NEW v \in Staff, work[c].at # "flush",
         v \in account, \A u \in Staff : u # v => member'[u] = member[u],
         member'[v].status # "none",
         member[v].status \in {"active", "suspended"} =>
           member'[v].status \in {"active", "suspended"},
         \/ member[v].status # "active" /\ member'[v].status # "active"
         \/ work'[c].at = "flush" /\ work'[c].user = v,
         cache' = cache, account' = account, invites' = invites,
         history'.stale = history.stale, ActorFits(c)',
         \/ /\ member[v].status # "none" /\ history'.unmetered = history.unmetered
            /\ \A x \in Actors : x # c => work'[x] = work[x]
         \/ /\ \A x \in Actors : x # c =>
                 IF work[x].at \in {"find", "create"}
                 THEN work'[x] = [work[x] EXCEPT !.overtaken = TRUE] ELSE work'[x] = work[x]
            /\ \/ history'.unmetered = history.unmetered \cup {v}
               \/ history'.unmetered = history.unmetered /\ Cardinality(Seated) < Seats
  PROVE  AccessInv'
<1>1. Seated' = Seated \cup {v} BY DEF Seated
<1>2. InvitesFit' BY DEF AccessInv, InvitesFit
<1>3. \A u \in Staff : u # v => Perms(u)' = Perms(u) BY DEF Perms
<1>4. \A x \in Actors : work[x].at = "flush" => x # c /\ work'[x] = work[x] OBVIOUS
<1>5. StaleHasCause'
  <2> SUFFICES ASSUME NEW u \in Staff, cache'[u] \notin {None, Perms(u)'},
                      u \notin history'.stale
               PROVE  \E x \in Actors : work'[x].at = "flush" /\ work'[x].user = u
    BY DEF StaleHasCause
  <2>1. CASE Perms(u)' = Perms(u)
    <3>1. PICK x \in Actors : work[x].at = "flush" /\ work[x].user = u
      BY <2>1 DEF AccessInv, StaleHasCause
    <3> QED BY <3>1, <1>4
  <2>2. CASE Perms(u)' # Perms(u)
    <3>1. u = v /\ ~(member[v].status # "active" /\ member'[v].status # "active")
      BY <2>2, <1>3 DEF Perms
    <3> QED BY <3>1
  <2> QED BY <2>1, <2>2
<1>6. SeatsAreCounted'
  <2>1. IsFiniteSet(Staff) /\ Seats \in Nat BY AccessAssumption
  <2>2. Seated \subseteq Staff /\ IsFiniteSet(Seated) /\ Cardinality(Seated) \in Nat
    BY <2>1, SeatedCount DEF Seated
  <2>3. CASE member[v].status # "none" /\ history'.unmetered = history.unmetered
    <3>1. Seated' = Seated BY <2>3, <1>1 DEF Seated
    <3> QED BY <2>3, <3>1 DEF AccessInv, SeatsAreCounted
  <2>4. CASE history'.unmetered = history.unmetered \cup {v}
    <3>1. Seated' \ history'.unmetered \in SUBSET (Seated \ history.unmetered) BY <2>4, <1>1
    <3>2. Seated \ history.unmetered \in SUBSET Staff BY <2>2
    <3>3. /\ Cardinality(Seated' \ history'.unmetered) <= Cardinality(Seated \ history.unmetered)
          /\ Cardinality(Seated \ history.unmetered) \in Nat
          /\ Cardinality(Seated' \ history'.unmetered) \in Nat
      BY <2>1, <3>1, <3>2, SeatedCount
    <3> QED BY <3>3, <2>1 DEF AccessInv, SeatsAreCounted
  <2>5. CASE history'.unmetered = history.unmetered /\ Cardinality(Seated) < Seats
    <3>1. Seated' \ history'.unmetered \in SUBSET (Seated \cup {v}) BY <1>1
    <3>2. /\ IsFiniteSet(Seated \cup {v})
          /\ Cardinality(Seated \cup {v}) <= Cardinality(Seated) + 1
          /\ Cardinality(Seated \cup {v}) \in Nat
      <4>1. /\ IsFiniteSet(Seated \cup {v})
            /\ Cardinality(Seated \cup {v}) = IF v \in Seated THEN Cardinality(Seated)
                                              ELSE Cardinality(Seated) + 1
        BY <2>2, FS_AddElement
      <4> QED BY <2>2, <4>1
    <3>3. /\ Cardinality(Seated' \ history'.unmetered) <= Cardinality(Seated \cup {v})
          /\ Cardinality(Seated' \ history'.unmetered) \in Nat
      BY <3>1, <3>2, FS_Subset, FS_CardinalityType
    <3> QED BY <2>1, <2>2, <2>5, <3>2, <3>3 DEF SeatsAreCounted
  <2> QED BY <2>3, <2>4, <2>5
<1>7. ASSUME NEW x \in Actors, x # c PROVE ActorFits(x)'
  <2>1. work[x] \in Work /\ ActorFits(x) BY DEF AccessInv, AccessTypeOK
  <2>2. \A u \in Staff :
          /\ member[u].status # "none" => member'[u].status # "none"
          /\ member[u].status \in {"active", "suspended"} =>
               member'[u].status \in {"active", "suspended"}
    OBVIOUS
  <2>3. CASE work'[x] = work[x] /\ work[x].at \notin {"find", "create"}
    BY <2>1, <2>2, <2>3 DEF ActorFits
  <2>4. CASE work'[x] = [work[x] EXCEPT !.overtaken = TRUE]
    <3>1. /\ work'[x].at = work[x].at /\ work'[x].user = work[x].user
          /\ work'[x].late = work[x].late /\ work'[x].overtaken = TRUE
      BY <2>1, <2>4 DEF Work
    <3> QED BY <2>1, <2>2, <3>1 DEF ActorFits
  <2>5. CASE work'[x] = work[x] /\ member[v].status # "none"
    <3>1. Seated' = Seated BY <2>5, <1>1 DEF Seated
    <3> QED BY <2>1, <2>2, <2>5, <3>1 DEF ActorFits
  <2> QED BY <1>7, <2>3, <2>4, <2>5
<1> QED BY <1>2, <1>5, <1>6, <1>7 DEF AccessInv

\* Giving up: nothing but the work of c ends.
LEMMA DoneStep ==
  ASSUME AccessInv, NEW c \in Actors, work[c].at # "flush", Done(c),
         member' = member, UNCHANGED <<account, invites, section, cache, podCache, request,
                                       toggle, history>>
  PROVE  AccessInv'
<1>1. /\ work' \in [Actors -> Work] /\ work'[c] = Idle
      /\ \A x \in Actors : x # c => work'[x] = work[x]
  BY IdleType, WorkType DEF AccessInv, Done
<1>2. AccessTypeOK' BY <1>1 DEF AccessInv, AccessTypeOK
<1>3. ActorFits(c)' BY <1>1 DEF ActorFits, Idle
<1> QED BY <1>1, <1>2, <1>3, WorkStep DEF AccessInv, InvitesFit

\* A step of one membership is well typed.
LEMMA MemberType ==
  ASSUME AccessTypeOK, NEW v \in Staff, NEW m \in Membership, member' = [member EXCEPT ![v] = m]
  PROVE  /\ member' \in [Staff -> Membership] /\ member'[v] = m
         /\ \A u \in Staff : u # v => member'[u] = member[u]
BY DEF AccessTypeOK

LEMMA InviteCreateInv == ASSUME AccessInv, NEW a \in Admins, InviteCreate(a) PROVE AccessInv'
<1> DEFINE m == [status |-> "invited", role |-> work[a].role]
<1>1. work[a].at = "create" /\ AccessTypeOK BY DEF InviteCreate, AccessInv
<1>2. work[a] \in Work /\ ActorFits(a) BY DEF AccessInv, AccessTypeOK
<1>3. PICK u \in Staff : u = work[a].user /\ u \in account /\ work[a].late = FALSE
  BY <1>1, <1>2 DEF ActorFits, Work
<1>4. CASE member[u].status # "none"
  BY <1>1, <1>3, <1>4, DoneStep DEF InviteCreate
<1>5. CASE member[u].status = "none"
  <2>1. /\ account' = account /\ invites' = invites /\ section' = section /\ cache' = cache
        /\ podCache' = podCache /\ request' = request /\ toggle' = toggle
        /\ member' = [member EXCEPT ![u] = m]
        /\ work' = [Overtaken(a) EXCEPT ![a].at = "sign"]
        /\ history' = [history EXCEPT
             !.unmetered = IF work[a].overtaken THEN @ \cup {u} ELSE @]
    BY <1>3, <1>5 DEF InviteCreate
  <2>2. m \in Membership /\ m.status = "invited" BY <1>2 DEF Membership, Work, Status
  <2>3. /\ member' \in [Staff -> Membership] /\ member'[u] = m
        /\ \A x \in Staff : x # u => member'[x] = member[x]
    <3> HIDE DEF m
    <3> QED BY <1>1, <1>3, <2>1, <2>2, MemberType
  <2>4. /\ work' \in [Actors -> Work]
        /\ work'[a] = [work[a] EXCEPT !.at = "sign"]
        /\ \A x \in Actors : x # a =>
             IF work[x].at \in {"find", "create"}
             THEN work'[x] = [work[x] EXCEPT !.overtaken = TRUE]
             ELSE work'[x] = work[x]
    BY <1>1, <2>1, OvertakenType
  <2>5. /\ history' \in History /\ history'.stale = history.stale
        /\ history'.unmetered = IF work[a].overtaken THEN history.unmetered \cup {u}
                                ELSE history.unmetered
    <3>1. history \in History BY <1>1 DEF AccessTypeOK
    <3> QED BY <2>1, <1>3, <3>1 DEF History
  <2> HIDE DEF m
  <2>6. AccessTypeOK' BY <1>1, <2>1, <2>3, <2>4, <2>5 DEF AccessTypeOK
  <2>7. member[u].status # "active" /\ member'[u].status # "active" BY <1>5, <2>2, <2>3
  <2>8. /\ work'[a].at = "sign" /\ work'[a].user = u /\ work'[a].late = FALSE
    BY <1>2, <1>3, <2>4 DEF Work
  <2>9. a \notin Staff BY AccessAssumption
  <2>10. ActorFits(a)' BY <1>3, <2>8, <2>9 DEF ActorFits
  <2>11. work[a].overtaken \/ Cardinality(Seated) < Seats BY <1>1, <1>2 DEF ActorFits
  <2>12. member'[u].status # "none" BY <2>2, <2>3
  <2>13. \/ history'.unmetered = history.unmetered \cup {u}
         \/ history'.unmetered = history.unmetered /\ Cardinality(Seated) < Seats
    BY <2>5, <2>11
  <2>14. account' = account /\ invites' = invites /\ cache' = cache /\ history'.stale = history.stale
    BY <2>1, <2>5
  <2>15. work[a].at # "flush" /\ member[u].status \notin {"active", "suspended"} BY <1>1, <1>5
  <2>16. \A x \in Staff : x # u => member'[x] = member[x] BY <2>3
  <2>17. \A x \in Actors : x # a =>
           IF work[x].at \in {"find", "create"}
           THEN work'[x] = [work[x] EXCEPT !.overtaken = TRUE] ELSE work'[x] = work[x]
    BY <2>4
  <2>18. \/ /\ member[u].status # "none" /\ history'.unmetered = history.unmetered
            /\ \A x \in Actors : x # a => work'[x] = work[x]
         \/ /\ \A x \in Actors : x # a =>
                 IF work[x].at \in {"find", "create"}
                 THEN work'[x] = [work[x] EXCEPT !.overtaken = TRUE] ELSE work'[x] = work[x]
            /\ \/ history'.unmetered = history.unmetered \cup {u}
               \/ history'.unmetered = history.unmetered /\ Cardinality(Seated) < Seats
    BY <2>13, <2>17
  <2>19. u \in account BY <1>3
  <2> QED BY <2>6, <2>7, <2>10, <2>12, <2>14, <2>15, <2>16, <2>18, <2>19, MemberStep
<1> QED BY <1>4, <1>5

LEMMA AcceptJoinInv == ASSUME AccessInv, NEW u \in Staff, AcceptJoin(u) PROVE AccessInv'
<1> DEFINE m == [status |-> "active", role |-> work[u].role]
<1>1. work[u].at = "join" /\ AccessTypeOK BY DEF AcceptJoin, AccessInv
<1>2. work[u] \in Work /\ ActorFits(u) BY DEF AccessInv, AccessTypeOK
<1>3. CASE member[u].status # "none"
  BY <1>1, <1>3, DoneStep DEF AcceptJoin
<1>4. CASE member[u].status = "none"
  <2>1. /\ account' = account /\ invites' = invites /\ section' = section /\ cache' = cache
        /\ podCache' = podCache /\ request' = request /\ toggle' = toggle
        /\ member' = [member EXCEPT ![u] = m]
        /\ work' = [Overtaken(u) EXCEPT ![u].at = "flush"]
        /\ history' = [history EXCEPT !.unmetered = @ \cup {u}]
    BY <1>4 DEF AcceptJoin
  <2>2. m \in Membership /\ m.status = "active" BY <1>2 DEF Membership, Work, Status
  <2> HIDE DEF m
  <2>3. /\ member' \in [Staff -> Membership] /\ member'[u] = m
        /\ \A x \in Staff : x # u => member'[x] = member[x]
    BY <1>1, <2>1, <2>2, MemberType
  <2>4. /\ work' \in [Actors -> Work]
        /\ work'[u] = [work[u] EXCEPT !.at = "flush"]
        /\ \A x \in Actors : x # u =>
             IF work[x].at \in {"find", "create"}
             THEN work'[x] = [work[x] EXCEPT !.overtaken = TRUE]
             ELSE work'[x] = work[x]
    BY <1>1, <2>1, OvertakenType
  <2>5. /\ history' \in History /\ history'.stale = history.stale
        /\ history'.unmetered = history.unmetered \cup {u}
    <3>1. history \in History BY <1>1 DEF AccessTypeOK
    <3> QED BY <2>1, <3>1 DEF History
  <2>6. AccessTypeOK' BY <1>1, <2>1, <2>3, <2>4, <2>5 DEF AccessTypeOK
  <2>8. work'[u].at = "flush" /\ work'[u].user = u
    BY <1>1, <1>2, <2>4 DEF ActorFits, Work
  <2>9. u \notin Admins BY AccessAssumption
  <2>10. ActorFits(u)' BY <2>8, <2>9 DEF ActorFits
  <2>12. member'[u].status # "none" BY <2>2, <2>3
  <2>13. u \in account BY <1>1, <1>2 DEF ActorFits
  <2> QED BY <1>1, <1>4, <2>1, <2>3, <2>4, <2>5, <2>6, <2>8, <2>10, <2>12, <2>13, MemberStep
<1> QED BY <1>3, <1>4

LEMMA AcceptActivateInv == ASSUME AccessInv, NEW u \in Staff, AcceptActivate(u) PROVE AccessInv'
<1> DEFINE m == [status |-> "active", role |-> work[u].role]
<1>1. /\ work[u].at = "activate" /\ AccessTypeOK
      /\ account' = account /\ invites' = invites /\ section' = section /\ cache' = cache
      /\ podCache' = podCache /\ request' = request /\ toggle' = toggle /\ history' = history
      /\ member' = [member EXCEPT ![u] = m]
      /\ work' = [work EXCEPT ![u].at = "flush"]
  BY DEF AcceptActivate, AccessInv
<1>2. work[u] \in Work /\ ActorFits(u) BY DEF AccessInv, AccessTypeOK
<1>3. work[u].user = u /\ member[u].status # "none" BY <1>1, <1>2 DEF ActorFits
<1>4. m \in Membership /\ m.status = "active" BY <1>2 DEF Membership, Work, Status
<1> HIDE DEF m
<1>5. /\ member' \in [Staff -> Membership] /\ member'[u] = m
      /\ \A x \in Staff : x # u => member'[x] = member[x]
  BY <1>1, <1>4, MemberType
<1>6. /\ work' \in [Actors -> Work] /\ work'[u].at = "flush" /\ work'[u].user = u
      /\ \A x \in Actors : x # u => work'[x] = work[x]
  <2> DEFINE w == [work[u] EXCEPT !.at = "flush"]
  <2>1. w \in Work /\ w.at = "flush" /\ w.user = u BY <1>2, <1>3 DEF Work
  <2>2. work' = [work EXCEPT ![u] = w] BY <1>1 DEF AccessTypeOK
  <2> HIDE DEF w
  <2> QED BY ZenonT(60), <1>1, <2>1, <2>2, WorkType
<1>7. AccessTypeOK' BY <1>1, <1>5, <1>6 DEF AccessTypeOK
<1>8. u \notin Admins BY AccessAssumption
<1>9. ActorFits(u)' BY <1>6, <1>8 DEF ActorFits
<1>10. member'[u].status = "active" /\ u \in account BY <1>3, <1>4, <1>5 DEF AccessInv, InvitesFit
<1> QED BY <1>1, <1>3, <1>5, <1>6, <1>7, <1>9, <1>10, MemberStep

LEMMA UpdateWriteInv == ASSUME AccessInv, NEW a \in Admins, UpdateWrite(a) PROVE AccessInv'
<1> DEFINE v == work[a].user
           m == Patched(member[v], work[a])
<1>1. /\ work[a].at = "update" /\ AccessTypeOK
      /\ account' = account /\ invites' = invites /\ section' = section /\ cache' = cache
      /\ podCache' = podCache /\ request' = request /\ toggle' = toggle /\ history' = history
      /\ work' = [work EXCEPT ![a].at = "flush"]
  BY DEF UpdateWrite, AccessInv
<1>2. work[a] \in Work /\ ActorFits(a) BY DEF AccessInv, AccessTypeOK
<1>3. v \in Staff /\ member[v].status # "none" BY <1>1, <1>2 DEF ActorFits
<1>4. member[v] \in Membership BY <1>1, <1>3 DEF AccessTypeOK
<1>5. /\ m \in Membership /\ m.status # "none"
      /\ member[v].status \in {"active", "suspended"} => m.status \in {"active", "suspended"}
  <2> HIDE DEF v
  <2> QED BY <1>2, <1>3, <1>4 DEF Patched, Membership, Work, Status
<1>6. member' = [member EXCEPT ![v] = m]
  BY <1>1, <1>3 DEF UpdateWrite, AccessTypeOK
<1> HIDE DEF m
<1>7. /\ member' \in [Staff -> Membership] /\ member'[v] = m
      /\ \A x \in Staff : x # v => member'[x] = member[x]
  <2> HIDE DEF v
  <2> QED BY <1>1, <1>3, <1>5, <1>6, MemberType
<1>8. /\ work' \in [Actors -> Work] /\ work'[a].at = "flush" /\ work'[a].user = v
      /\ \A x \in Actors : x # a => work'[x] = work[x]
  <2> DEFINE w == [work[a] EXCEPT !.at = "flush"]
  <2>1. w \in Work /\ w.at = "flush" /\ w.user = v BY <1>2 DEF Work
  <2>2. work' = [work EXCEPT ![a] = w] BY <1>1 DEF AccessTypeOK
  <2> HIDE DEF w
  <2> QED BY <1>1, <2>1, <2>2, WorkType
<1>9. AccessTypeOK' BY <1>1, <1>7, <1>8 DEF AccessTypeOK
<1>10. a \notin Staff BY AccessAssumption
<1>11. ActorFits(a)' BY <1>3, <1>8, <1>10 DEF ActorFits
<1>12. v \in account BY <1>3 DEF AccessInv, InvitesFit
<1> HIDE DEF v
<1> QED BY <1>1, <1>3, <1>5, <1>7, <1>8, <1>9, <1>11, <1>12, MemberStep

\* The cache takes an answer for v, and for nobody else: none, the member's own, or one
\* whose staleness is on record.
LEMMA CacheStep ==
  ASSUME AccessInv, AccessTypeOK', NEW v \in Staff, member' = member, account' = account,
         invites' = invites, history'.unmetered = history.unmetered,
         \A u \in Staff : u # v => cache'[u] = cache[u] /\ (u \in history'.stale <=> u \in history.stale),
         \/ cache'[v] \in {None, Perms(v)} \/ v \in history'.stale
         \/ /\ cache'[v] = cache[v] /\ (v \in history.stale => v \in history'.stale)
            /\ work' = work,
         \/ work' = work
         \/ \E c \in Actors : /\ work[c].at = "flush" /\ work[c].user = v /\ work'[c] = Idle
                              /\ \A x \in Actors : x # c => work'[x] = work[x]
  PROVE  AccessInv'
<1>1. Seated' = Seated /\ \A u \in Staff : Perms(u)' = Perms(u) BY DEF Seated, Perms
<1>2. InvitesFit' BY DEF AccessInv, InvitesFit
<1>3. SeatsAreCounted' BY <1>1 DEF AccessInv, SeatsAreCounted
<1>4. \A c \in Actors : ActorFits(c)'
  <2> TAKE x \in Actors
  <2>1. CASE work'[x] = work[x] BY <2>1, <1>1 DEF AccessInv, ActorFits
  <2>2. CASE work'[x] = Idle BY <2>2 DEF ActorFits, Idle
  <2> QED BY <2>1, <2>2
<1>5. StaleHasCause'
  <2> SUFFICES ASSUME NEW u \in Staff, cache'[u] \notin {None, Perms(u)},
                      u \notin history'.stale
               PROVE  \E x \in Actors : work'[x].at = "flush" /\ work'[x].user = u
    BY <1>1 DEF StaleHasCause
  <2>1. CASE u # v
    <3>1. PICK x \in Actors : work[x].at = "flush" /\ work[x].user = u
      BY <2>1 DEF AccessInv, StaleHasCause
    <3>2. work'[x] = work[x] BY <3>1, <2>1
    <3> QED BY <3>1, <3>2
  <2>2. CASE u = v
    <3>1. cache'[v] = cache[v] /\ v \notin history.stale /\ work' = work BY <2>2
    <3> QED BY <3>1, <2>2 DEF AccessInv, StaleHasCause
  <2> QED BY <2>1, <2>2
<1> QED BY <1>2, <1>3, <1>4, <1>5 DEF AccessInv

LEMMA CacheType ==
  ASSUME AccessTypeOK, NEW v \in Staff, NEW p \in Permission, cache' = [cache EXCEPT ![v] = p]
  PROVE  /\ cache' \in [Staff -> Permission] /\ cache'[v] = p
         /\ \A u \in Staff : u # v => cache'[u] = cache[u]
BY DEF AccessTypeOK

\* What deleting the cached permissions, or failing to, does.
LEMMA InvalidatedType ==
  ASSUME AccessTypeOK, NEW v \in Staff, Invalidated(v)
  PROVE  /\ cache' \in [Staff -> Permission] /\ history' \in History
         /\ history'.unmetered = history.unmetered
         /\ \A u \in Staff : u # v =>
              cache'[u] = cache[u] /\ (u \in history'.stale <=> u \in history.stale)
         /\ cache'[v] = None \/ v \in history'.stale
<1>1. history \in History /\ cache \in [Staff -> Permission] BY DEF AccessTypeOK
<1>2. CASE /\ cache' = [cache EXCEPT ![v] = None]
           /\ history' = [history EXCEPT !.stale = @ \ {v}]
  <2>1. /\ cache' \in [Staff -> Permission] /\ cache'[v] = None
        /\ \A u \in Staff : u # v => cache'[u] = cache[u]
    BY <1>2, CacheType DEF Permission
  <2>2. /\ history' \in History /\ history'.stale = history.stale \ {v}
        /\ history'.unmetered = history.unmetered
    BY <1>1, <1>2 DEF History
  <2> QED BY <2>1, <2>2
<1>3. CASE /\ history' = [history EXCEPT !.lost = @ + 1, !.stale = @ \cup {v}]
           /\ cache' = cache
  <2>1. /\ history' \in History /\ history'.stale = history.stale \cup {v}
        /\ history'.unmetered = history.unmetered
    <3>1. history.lost + 1 \in Nat /\ history.stale \cup {v} \in SUBSET Staff
      BY <1>1 DEF History
    <3> DEFINE lost == history.lost + 1
               stale == history.stale \cup {v}
    <3>2. history' = [history EXCEPT !.lost = lost, !.stale = stale] BY <1>1, <1>3
    <3>3. lost \in Nat /\ stale \in SUBSET Staff BY <3>1
    <3> HIDE DEF lost, stale
    <3>4. history' \in History /\ history'.stale = stale /\ history'.unmetered = history.unmetered
      BY <1>1, <3>2, <3>3 DEF History
    <3> QED BY <3>4 DEF stale
  <2> QED BY <1>1, <1>3, <2>1
<1> QED BY <1>2, <1>3 DEF Invalidated

LEMMA FlushInv == ASSUME AccessInv, NEW c \in Actors, Flush(c) PROVE AccessInv'
<1>1. /\ account' = account /\ member' = member /\ invites' = invites /\ section' = section
      /\ podCache' = podCache /\ request' = request /\ toggle' = toggle
      /\ work[c].at = "flush" /\ AccessTypeOK /\ Invalidated(work[c].user)
      /\ work' = [work EXCEPT ![c] = Idle]
  BY DEF Flush, Done, AccessInv
<1>2. PICK v \in Staff : v = work[c].user BY <1>1 DEF AccessInv, ActorFits
<1>3. /\ cache' \in [Staff -> Permission] /\ history' \in History
      /\ history'.unmetered = history.unmetered
      /\ \A u \in Staff : u # v =>
           cache'[u] = cache[u] /\ (u \in history'.stale <=> u \in history.stale)
      /\ cache'[v] = None \/ v \in history'.stale
  BY <1>1, <1>2, InvalidatedType
<1>4. /\ work' \in [Actors -> Work] /\ work'[c] = Idle
      /\ \A x \in Actors : x # c => work'[x] = work[x]
  BY <1>1, IdleType, WorkType
<1>5. AccessTypeOK' BY <1>1, <1>3, <1>4 DEF AccessTypeOK
<1>6. \E d \in Actors : /\ work[d].at = "flush" /\ work[d].user = v /\ work'[d] = Idle
                        /\ \A x \in Actors : x # d => work'[x] = work[x]
  BY <1>1, <1>2, <1>4
<1> QED BY <1>1, <1>3, <1>5, <1>6, CacheStep

LEMMA PermsFillInv == ASSUME AccessInv, NEW u \in Staff, PermsFill(u) PROVE AccessInv'
<1>1. /\ account' = account /\ member' = member /\ invites' = invites /\ section' = section
      /\ podCache' = podCache /\ work' = work /\ toggle' = toggle /\ AccessTypeOK
      /\ request' = [request EXCEPT ![u].at = "served"]
  BY DEF PermsFill, Go, AccessInv
<1>2. /\ request[u] \in Passage /\ history \in History /\ cache \in [Staff -> Permission]
      /\ request \in [Staff -> Passage]
  BY <1>1 DEF AccessTypeOK
<1>3. request' \in [Staff -> Passage]
  <2>1. [request[u] EXCEPT !.at = "served"] \in Passage BY <1>2 DEF Passage
  <2>2. request' = [request EXCEPT ![u] = [request[u] EXCEPT !.at = "served"]] BY <1>1, <1>2
  <2> QED BY <1>1, <2>1, <2>2, PassageType
<1>4. CASE /\ cache' = [cache EXCEPT ![u] = request[u].perms]
           /\ history' = [history EXCEPT !.stale = IF request[u].perms # Perms(u)
                                                   THEN @ \cup {u} ELSE @ \ {u}]
  <2>1. request[u].perms \in Permission BY <1>2 DEF Passage
  <2>2. /\ cache' \in [Staff -> Permission] /\ cache'[u] = request[u].perms
        /\ \A x \in Staff : x # u => cache'[x] = cache[x]
    BY <1>1, <1>4, <2>1, CacheType
  <2>3. /\ history' \in History /\ history'.unmetered = history.unmetered
        /\ history'.stale = IF request[u].perms # Perms(u)
                            THEN history.stale \cup {u} ELSE history.stale \ {u}
    BY <1>2, <1>4 DEF History
  <2>4. AccessTypeOK' BY <1>1, <1>3, <2>2, <2>3 DEF AccessTypeOK
  <2>5. /\ cache'[u] \in {None, Perms(u)} \/ u \in history'.stale
        /\ \A x \in Staff : x # u => (x \in history'.stale <=> x \in history.stale)
    BY <2>2, <2>3
  <2> QED BY <1>1, <2>2, <2>3, <2>4, <2>5, CacheStep
<1>5. CASE history' = [history EXCEPT !.lost = @ + 1] /\ cache' = cache
  <2>1. /\ history' \in History /\ history'.unmetered = history.unmetered
        /\ history'.stale = history.stale
    BY <1>2, <1>5 DEF History
  <2>2. AccessTypeOK' BY <1>1, <1>2, <1>3, <1>5, <2>1 DEF AccessTypeOK
  <2> QED BY <1>1, <1>5, <2>1, <2>2, QuietStep
<1> QED BY <1>4, <1>5 DEF PermsFill

LEMMA PermsExpireInv == ASSUME AccessInv, NEW u \in Staff, PermsExpire(u) PROVE AccessInv'
<1>1. /\ account' = account /\ member' = member /\ invites' = invites /\ section' = section
      /\ podCache' = podCache /\ work' = work /\ toggle' = toggle /\ AccessTypeOK
      /\ request' = request /\ cache' = [cache EXCEPT ![u] = None]
      /\ history' = [history EXCEPT !.stale = @ \ {u}]
  BY DEF PermsExpire, AccessInv
<1>2. /\ cache' \in [Staff -> Permission] /\ cache'[u] = None
      /\ \A x \in Staff : x # u => cache'[x] = cache[x]
  BY <1>1, CacheType DEF Permission
<1>3. history \in History BY <1>1 DEF AccessTypeOK
<1>4. /\ history' \in History /\ history'.stale = history.stale \ {u}
      /\ history'.unmetered = history.unmetered
  BY <1>1, <1>3 DEF History
<1>5. AccessTypeOK' BY <1>1, <1>2, <1>4 DEF AccessTypeOK
<1>6. \A x \in Staff : x # u => (x \in history'.stale <=> x \in history.stale) BY <1>4
<1> QED BY <1>1, <1>2, <1>4, <1>5, <1>6, CacheStep

\* The section, what processes believe of it, accounts and invitations.
LEMMA SectionsInv ==
  ASSUME AccessInv,
         \/ \E u \in Staff : Register(u)
         \/ \E p \in Pods : ToggleWrite(p) \/ SectionExpire(p)
         \/ ToggleFlush \/ InviteExpire
  PROVE  AccessInv'
<1>1. AccessTypeOK BY DEF AccessInv
<1>2. ASSUME NEW u \in Staff, Register(u) PROVE AccessInv'
  <2>1. AccessTypeOK' BY <1>1, <1>2 DEF Register, AccessTypeOK
  <2> QED BY <1>2, <2>1, QuietStep DEF Register
<1>3. ASSUME NEW p \in Pods, ToggleWrite(p) PROVE AccessInv'
  <2>1. /\ history' \in History /\ history'.stale = history.stale
        /\ history'.unmetered = history.unmetered
    BY <1>1, <1>3, BegunType DEF ToggleWrite
  <2>2. AccessTypeOK' BY <1>1, <1>3, <2>1 DEF ToggleWrite, AccessTypeOK
  <2> QED BY <1>3, <2>1, <2>2, QuietStep DEF ToggleWrite
<1>4. ASSUME NEW p \in Pods, SectionExpire(p) PROVE AccessInv'
  <2>1. AccessTypeOK' BY <1>1, <1>4 DEF SectionExpire, AccessTypeOK
  <2> QED BY <1>4, <2>1, QuietStep DEF SectionExpire
<1>5. CASE ToggleFlush
  <2>1. AccessTypeOK' BY <1>1, <1>5 DEF ToggleFlush, AccessTypeOK
  <2> QED BY <1>5, <2>1, QuietStep DEF ToggleFlush
<1>6. CASE InviteExpire
  <2>1. AccessTypeOK' BY <1>1, <1>6 DEF InviteExpire, AccessTypeOK
  <2> QED BY <1>6, <2>1, QuietStep DEF InviteExpire
<1> QED BY <1>2, <1>3, <1>4, <1>5, <1>6

\* A request passes from one place to the next.
LEMMA PassageStep ==
  ASSUME AccessInv, NEW u \in Staff, NEW p \in Passage, request' = [request EXCEPT ![u] = p],
         podCache' \in [Pods -> {None, "on", "off"}],
         UNCHANGED <<account, member, invites, section, cache, work, toggle, history>>
  PROVE  AccessInv'
<1>1. request' \in [Staff -> Passage] BY PassageType DEF AccessInv
<1>2. AccessTypeOK' BY <1>1 DEF AccessInv, AccessTypeOK
<1> QED BY <1>2, QuietStep

LEMMA RequestInv ==
  ASSUME AccessInv, NEW u \in Staff,
         \/ SectionHit(u) \/ SectionRead(u) \/ SectionFill(u) \/ PermsHit(u)
         \/ PermsRead(u) \/ HandleRequest(u)
  PROVE  AccessInv'
<1>1. /\ AccessTypeOK /\ request \in [Staff -> Passage] /\ request[u] \in Passage
      /\ podCache \in [Pods -> {None, "on", "off"}] /\ cache[u] \in Permission
      /\ section \in BOOLEAN
  BY DEF AccessInv, AccessTypeOK
<1>2. ASSUME NEW at \in {"authorize", "remember"}, NEW open \in BOOLEAN
      PROVE  /\ [request[u] EXCEPT !.at = at] \in Passage
             /\ [request[u] EXCEPT !.at = at, !.open = open] \in Passage
  BY <1>1 DEF Passage
<1>3. ASSUME NEW at \in {"served", "fill"}, NEW perms \in Permission
      PROVE  [request[u] EXCEPT !.at = at, !.perms = perms] \in Passage
  BY <1>1 DEF Passage
<1>4. ASSUME Go(u, "authorize") \/ Refused(u)
      PROVE  \E p \in Passage : request' = [request EXCEPT ![u] = p]
  <2>1. CASE Go(u, "authorize")
    <3>1. request' = [request EXCEPT ![u] = [request[u] EXCEPT !.at = "authorize"]]
      BY <1>1, <2>1 DEF Go
    <3> QED BY <3>1, <1>2
  <2>2. CASE Refused(u) BY <2>2, AwayType DEF Refused
  <2> QED BY <1>4, <2>1, <2>2
<1>5. CASE SectionHit(u) BY <1>1, <1>4, <1>5, PassageStep DEF SectionHit
<1>6. CASE SectionRead(u)
  <2>1. request' = [request EXCEPT ![u] = [request[u] EXCEPT !.at = "remember", !.open = section]]
    BY <1>1, <1>6 DEF SectionRead
  <2> QED BY <1>1, <1>2, <1>6, <2>1, PassageStep DEF SectionRead
<1>7. CASE SectionFill(u)
  <2>1. podCache' \in [Pods -> {None, "on", "off"}] BY <1>1, <1>7 DEF SectionFill
  <2>2. Go(u, "authorize") \/ Refused(u) BY <1>7 DEF SectionFill
  <2> QED BY <1>4, <1>7, <2>1, <2>2, PassageStep DEF SectionFill
<1>8. CASE PermsHit(u)
  <2>1. request' = [request EXCEPT ![u] = [request[u] EXCEPT !.at = "served", !.perms = cache[u]]]
    BY <1>1, <1>8 DEF PermsHit
  <2> QED BY <1>1, <1>3, <1>8, <2>1, PassageStep DEF PermsHit
<1>9. CASE PermsRead(u)
  <2>1. request' = [request EXCEPT ![u] = [request[u] EXCEPT !.at = "fill", !.perms = Perms(u)]]
    BY <1>1, <1>9 DEF PermsRead
  <2>2. Perms(u) \in Permission BY <1>1, PermsType
  <2> QED BY <1>1, <1>3, <1>9, <2>1, <2>2, PassageStep DEF PermsRead
<1>10. CASE HandleRequest(u) BY <1>1, <1>4, <1>10, PassageStep DEF HandleRequest
<1> QED BY <1>5, <1>6, <1>7, <1>8, <1>9, <1>10

LEMMA ResolveInv == ASSUME AccessInv, NEW u \in Staff, NEW p \in Pods, Resolve(u, p) PROVE AccessInv'
<1> DEFINE w == [Away EXCEPT !.at = "section", !.pod = p]
<1>1. w \in Passage BY DEF Away, Passage, Permission
<1>2. request' = [request EXCEPT ![u] = w] BY DEF Resolve
<1> HIDE DEF w
<1>3. podCache' \in [Pods -> {None, "on", "off"}] BY DEF Resolve, AccessInv, AccessTypeOK
<1> QED BY <1>1, <1>2, <1>3, PassageStep DEF Resolve

-----------------------------------------------------------------------------
(* What follows *)

LEMMA AccessInitInv == AccessInit => AccessInv
<1> SUFFICES ASSUME AccessInit PROVE AccessInv OBVIOUS
<1>1. PICK r \in Roles :
        /\ member = [u \in Staff |-> IF u \in Joined THEN [status |-> "active", role |-> r]
                                    ELSE [status |-> "none", role |-> None]]
        /\ invites = [user : Joined, role : {r}, late : {FALSE}]
  BY DEF AccessInit
<1>2. Joined \subseteq Staff BY AccessAssumption
<1>3. member \in [Staff -> Membership] BY <1>1 DEF Membership, Status
<1>4. invites \subseteq Invitation BY <1>1, <1>2 DEF Invitation
<1>5. history \in History BY DEF AccessInit, History
<1>6. \A c \in Actors : work[c] = Idle BY DEF AccessInit
<1>7. work \in [Actors -> Work] BY IdleType DEF AccessInit
<1>8. request \in [Staff -> Passage] BY AwayType DEF AccessInit
<1>9. AccessTypeOK
  BY <1>2, <1>3, <1>4, <1>5, <1>7, <1>8 DEF AccessInit, AccessTypeOK, Permission
<1>10. \A u \in Staff : member[u].status # "none" => u \in Joined BY <1>1
<1>11. InvitesFit BY <1>1, <1>10 DEF AccessInit, InvitesFit
<1>12. StaleHasCause BY DEF AccessInit, StaleHasCause
<1>13. SeatsAreCounted
  <2>1. Seated \ history.unmetered \in SUBSET Joined BY <1>10 DEF Seated
  <2>2. /\ Cardinality(Seated \ history.unmetered) <= Cardinality(Joined)
        /\ Cardinality(Joined) \in Nat /\ Cardinality(Seated \ history.unmetered) \in Nat
    <3>1. Seated \ history.unmetered \in SUBSET Staff BY DEF Seated
    <3> QED BY <2>1, <3>1, <1>2, SeatedCount, AccessAssumption
  <2> QED BY <2>2, AccessAssumption DEF SeatsAreCounted
<1>14. \A c \in Actors : ActorFits(c) BY <1>6 DEF ActorFits, Idle
<1> QED BY <1>9, <1>11, <1>12, <1>13, <1>14 DEF AccessInv

LEMMA AccessNextInv == AccessInv /\ [AccessNext]_accessVars => AccessInv'
<1> SUFFICES ASSUME AccessInv, [AccessNext]_accessVars PROVE AccessInv' OBVIOUS
<1>1. ASSUME NEW a \in Admins, Invite(a) \/ UpdateRead(a) \/ UpdateWrite(a) PROVE AccessInv'
  BY <1>1, InviteCountInv, InviteFindInv, InviteCreateInv, InviteSignInv, UpdateReadInv,
     UpdateWriteInv DEF Invite
<1>2. ASSUME NEW u \in Staff, Accept(u) PROVE AccessInv'
  BY <1>2, AcceptReadInv, AcceptActivateInv, AcceptJoinInv DEF Accept
<1>3. ASSUME NEW u \in Askers,
             Request(u) \/ PermsExpire(u) \/ \E p \in Pods : Resolve(u, p)
      PROVE  AccessInv'
  <2>1. u \in Staff BY AccessAssumption
  <2> QED BY <1>3, <2>1, RequestInv, PermsFillInv, PermsExpireInv, ResolveInv DEF Request
<1>4. CASE UNCHANGED accessVars
  <2>1. AccessTypeOK' BY <1>4 DEF accessVars, AccessInv, AccessTypeOK
  <2> QED BY <1>4, <2>1, QuietStep DEF accessVars
<1>5. ASSUME NEW c \in Admins \cup Staff, Flush(c) PROVE AccessInv' BY <1>5, FlushInv
<1> QED BY <1>1, <1>2, <1>3, <1>4, <1>5, SectionsInv DEF AccessNext

\* Who is a member, and what members may do, is what administrators decided: no more
\* members than seats were counted, and what the cache says wrongly has a cause - whoever
\* invites, accepts, updates and asks at the same time.
THEOREM MembershipsHold == AccessSpec => []MembershipHolds
<1>1. AccessInv => MembershipHolds BY DEF AccessInv, MembershipHolds
<1> QED BY <1>1, AccessInitInv, AccessNextInv, PTL DEF AccessSpec

\* A suspended member comes back by an administrator's decision, or by an invitation that
\* was begun before the suspension.
THEOREM SuspensionsHold == AccessSpec => SuspensionHolds
<1> DEFINE Comes(u) == member[u].status = "suspended" /\ member'[u].status = "active"
           ByRight(u) ==
             \/ \E a \in Admins : Does(a, "update") /\ work[a].user = u /\ work'[a].at # "update"
             \/ Does(u, "activate") /\ ~work[u].late
<1>1. ASSUME AccessInv, AccessNext, NEW u \in Staff, Comes(u) PROVE ByRight(u)
  <2>1. member \in [Staff -> Membership] /\ work \in [Actors -> Work]
    BY <1>1 DEF AccessInv, AccessTypeOK
  <2>2. member' # member BY <1>1
  <2>3. ASSUME NEW a \in Admins, InviteCreate(a) PROVE FALSE
    BY <1>1, <2>1, <2>2, <2>3 DEF InviteCreate
  <2>4. ASSUME NEW a \in Admins, UpdateWrite(a) PROVE ByRight(u)
    <3>1. work[a].at = "update" /\ work[a].user = u BY <1>1, <2>1, <2>4 DEF UpdateWrite
    <3>2. work'[a].at = "flush" BY <2>1, <2>4 DEF UpdateWrite, Work
    <3> QED BY <3>1, <3>2
  <2>5. ASSUME NEW x \in Staff, AcceptActivate(x) PROVE ByRight(u)
    <3>1. x = u BY <1>1, <2>1, <2>5 DEF AcceptActivate
    <3>2. work[u].at = "activate" /\ ActorFits(u) BY <1>1, <2>5, <3>1 DEF AcceptActivate, AccessInv
    <3> QED BY <3>2 DEF ActorFits
  <2>6. ASSUME NEW x \in Staff, AcceptJoin(x) PROVE FALSE
    BY <1>1, <2>1, <2>2, <2>6 DEF AcceptJoin
  <2>7. \/ \E a \in Admins : InviteCreate(a) \/ UpdateWrite(a)
        \/ \E x \in Staff : AcceptActivate(x) \/ AcceptJoin(x)
    BY <1>1, <2>2
    DEF AccessNext, Invite, Accept, Request, InviteCount, InviteFind, InviteSign, UpdateRead, Flush,
        Register, AcceptRead, SectionHit, SectionRead, SectionFill, PermsHit, PermsRead,
        PermsFill, HandleRequest, PermsExpire, Resolve, ToggleWrite, SectionExpire, ToggleFlush,
        InviteExpire
  <2> QED BY <2>3, <2>4, <2>5, <2>6, <2>7
<1>2. AccessInv /\ [AccessNext]_accessVars => [\A u \in Staff : Comes(u) => ByRight(u)]_accessVars
  BY <1>1
<1> QED BY <1>2, AccessInitInv, AccessNextInv, PTL DEF AccessSpec, SuspensionHolds

-----------------------------------------------------------------------------
(* How many requests are let in *)

Member == [at : Nat, score : Nat, nth : Nat]
Bucket == [tokens : Nat, ts : Nat]

\* Clocks, logs, buckets and remembered plans are well typed, and a process goes by
\* a plan there was.
LimitsTypeOK ==
  /\ now \in Nat /\ ahead \in [Processes -> 0..Skew]
  /\ hits \in [Scopes -> SUBSET Member] /\ lapses \in [Scopes -> Nat]
  /\ spareHits \in [Processes -> SUBSET Member]
  /\ bucket \in Bucket \cup {NoBucket} /\ spare \in [Processes -> Bucket \cup {NoBucket}]
  /\ letIn \in [windows : [Scopes -> [Counters -> SUBSET Member]], spent : [Counters -> Nat],
                back : Nat, plans : SUBSET DOMAIN Tiers]
  /\ tierOf \in [Processes -> [plan : letIn.plans, until : Nat]]
  /\ plan \in letIn.plans

\* Logs stay at their limits, and logins are counted by Redis only.
LogsFit ==
  /\ \A s \in Scopes : IsFiniteSet(hits[s]) /\ Cardinality(hits[s]) <= WindowLimit[s]
  /\ \A p \in Processes :
       /\ IsFiniteSet(spareHits[p]) /\ Cardinality(spareHits[p]) <= WindowLimit["ip"]
       /\ letIn.windows["auth"][p] = {}

\* Those let in until t are numbered by instants.
NumberedUntil(past, t) ==
  /\ IsFiniteSet(past)
  /\ \A h \in past : h.at <= t /\ h.nth < Cardinality({g \in past : g.at = h.at})

\* A counter's admissions of one instant are numbered, and what a log holds of this
\* instant is among them: so a member that is added is a new one.
Numbered ==
  /\ \A s \in Scopes, c \in Counters : NumberedUntil(letIn.windows[s][c], now)
  /\ \A s \in Scopes : \A h \in hits[s] :
       h.at <= now /\ (h.at = now => h \in letIn.windows[s]["redis"])
  /\ \A p \in Processes : \A h \in spareHits[p] :
       h.at <= now /\ (h.at = now => h \in letIn.windows["ip"][p])

\* Whom Redis let in has the score of some process, and is in the log for a window
\* less what clocks disagree by.
RedisKeeps ==
  \A s \in Scopes : \A h \in letIn.windows[s]["redis"] :
    /\ h.at + Window <= lapses[s]
    /\ \E q \in Processes : h.score = h.at + ahead[q]
    /\ \A d \in 0..Skew : Agree(d) /\ h.at > now - (Window - d) => h \in hits[s]

\* Whom a process let in has its score, and is in its log for a window.
ProcessKeeps ==
  \A p \in Processes : \A h \in letIn.windows["ip"][p] :
    /\ h.score = h.at + ahead[p]
    /\ h.at > now - Window => h \in spareHits[p]

\* No plan there was is larger or faster.
Bounded(large, fast) ==
  \A x \in letIn.plans : Tiers[x].capacity <= large /\ Tiers[x].refill <= fast

\* What a bucket gave out and still holds flowed in from a beginning on.
Flowed(b, spent, large, fast, from, back) ==
  IF b = NoBucket THEN spent = 0
  ELSE spent + b.tokens <= large + fast * (b.ts - from + back)

BucketFits ==
  /\ bucket # NoBucket => \E q \in Processes : bucket.ts <= now + ahead[q]
  /\ \A large, fast \in Nat : Bounded(large, fast) =>
       \A from \in Int : (\A p \in Processes : from <= ahead[p]) =>
         Flowed(bucket, letIn.spent["redis"], large, fast, from, letIn.back)

SparesFit ==
  \A p \in Processes :
    /\ spare[p] # NoBucket => spare[p].ts <= now + ahead[p]
    /\ \A large, fast \in Nat : Bounded(large, fast) =>
         Flowed(spare[p], letIn.spent[p], large, fast, ahead[p], 0)

LimitsInv ==
  LimitsTypeOK /\ LogsFit /\ Numbered /\ RedisKeeps /\ ProcessKeeps /\ BucketFits /\ SparesFit

-----------------------------------------------------------------------------

LEMMA TimesMonotone ==
  ASSUME NEW r \in Nat, NEW x \in Int, NEW y \in Int, x <= y
  PROVE  r * x <= r * y
OBVIOUS

LEMMA TimesRate ==
  ASSUME NEW r \in Nat, NEW q \in Nat, q <= r, NEW x \in Nat
  PROVE  x * q <= r * x
OBVIOUS

LEMMA TimesSum ==
  ASSUME NEW r \in Nat, NEW x \in Int, NEW y \in Int
  PROVE  r * (x + y) = r * x + r * y /\ r * x \in Int /\ r * y \in Int
OBVIOUS

\* What a bucket holds when it is asked is well typed.
LEMMA PouredType ==
  ASSUME NEW b \in Bucket \cup {NoBucket}, NEW tier, tier.capacity \in Nat, tier.refill \in Nat,
         NEW t \in Nat, NEW cost \in Nat
  PROVE  /\ Refilled(b, tier, t) \in Nat
         /\ Poured(b, tier, t, cost) \in Bucket
         /\ Given(b, tier, t, cost) \in Nat /\ TurnedBack(b, t) \in Nat
<1>1. b # NoBucket => b.tokens \in Nat /\ b.ts \in Nat BY DEF Bucket
<1>2. \A x \in Nat : x * tier.refill \in Nat OBVIOUS
<1>3. Refilled(b, tier, t) \in Nat BY <1>1, <1>2 DEF Refilled
<1>4. Poured(b, tier, t, cost) \in Bucket BY <1>3 DEF Poured, Bucket
<1>5. Given(b, tier, t, cost) \in Nat BY DEF Given
<1>6. TurnedBack(b, t) \in Nat BY <1>1 DEF TurnedBack
<1> QED BY <1>3, <1>4, <1>5, <1>6

\* What it gave out and holds is still what flowed in.
LEMMA PouredFlowed ==
  ASSUME NEW b \in Bucket \cup {NoBucket}, NEW tier, tier.capacity \in Nat, tier.refill \in Nat,
         NEW t \in Nat, NEW cost \in Nat, NEW large \in Nat, NEW fast \in Nat,
         tier.capacity <= large, tier.refill <= fast,
         NEW spent \in Nat, NEW from \in Int, NEW back \in Nat, from <= t,
         Flowed(b, spent, large, fast, from, back)
  PROVE  Flowed(Poured(b, tier, t, cost), spent + Given(b, tier, t, cost), large, fast,
                from, back + TurnedBack(b, t))
<1> DEFINE full == Refilled(b, tier, t)
           new == Poured(b, tier, t, cost)
           gift == Given(b, tier, t, cost)
<1>1. full \in Nat /\ new \in Bucket /\ gift \in Nat /\ TurnedBack(b, t) \in Nat BY PouredType
<1>2. new # NoBucket BY <1>1 DEF Bucket, NoBucket
<1>3. gift + new.tokens = full BY <1>1 DEF Poured, Given, Bucket
<1>4. new.ts = t BY DEF Poured
<1>5. spent + full <= large + fast * (t - from + (back + TurnedBack(b, t)))
  <2>1. CASE b = NoBucket
    <3>1. spent = 0 /\ full <= large /\ TurnedBack(b, t) = 0
      BY <2>1 DEF Flowed, Refilled, TurnedBack
    <3>2. fast * 0 <= fast * (t - from + back) BY TimesMonotone
    <3> QED BY <1>1, <3>1, <3>2
  <2>2. CASE b # NoBucket /\ t < b.ts
    <3>1. b.tokens \in Nat /\ b.ts \in Nat BY <2>2 DEF Bucket
    <3>2. TurnedBack(b, t) = b.ts - t BY <2>2 DEF TurnedBack
    <3>3. full <= b.tokens BY <2>2, <3>1 DEF Refilled
    <3>4. t - from + (back + (b.ts - t)) = b.ts - from + back BY <3>1
    <3>5. spent + b.tokens <= large + fast * (b.ts - from + back) BY <2>2 DEF Flowed
    <3>6. fast * (b.ts - from + back) \in Int BY <3>1
    <3> QED BY <1>1, <3>1, <3>2, <3>3, <3>4, <3>5, <3>6
  <2>3. CASE b # NoBucket /\ ~(t < b.ts)
    <3>1. b.tokens \in Nat /\ b.ts \in Nat /\ t - b.ts \in Nat BY <2>3 DEF Bucket
    <3>2. TurnedBack(b, t) = 0 BY <2>3 DEF TurnedBack
    <3>3. full <= b.tokens + (t - b.ts) * tier.refill
      <4>1. CASE t > b.ts BY <2>3, <3>1, <4>1 DEF Refilled
      <4>2. CASE t = b.ts
        <5>1. 0 * tier.refill = 0 /\ t - b.ts = 0 BY <3>1, <4>2
        <5>2. full <= b.tokens + 0 * tier.refill BY <2>3, <3>1, <4>2, <5>1 DEF Refilled
        <5> QED BY <5>1, <5>2
      <4> QED BY <2>3, <3>1, <4>1, <4>2
    <3>4. (t - b.ts) * tier.refill <= fast * (t - b.ts) BY <3>1, TimesRate
    <3>5. spent + b.tokens <= large + fast * (b.ts - from + back) BY <2>3 DEF Flowed
    <3>6. fast * ((b.ts - from + back) + (t - b.ts))
            = fast * (b.ts - from + back) + fast * (t - b.ts)
          /\ fast * (b.ts - from + back) \in Int /\ fast * (t - b.ts) \in Int
      BY <3>1, TimesSum
    <3>7. (b.ts - from + back) + (t - b.ts) = t - from + (back + 0) BY <3>1
    <3>8. (t - b.ts) * tier.refill \in Int BY <3>1
    <3> QED BY <1>1, <3>1, <3>2, <3>3, <3>4, <3>5, <3>6, <3>7, <3>8
  <2> QED BY <2>1, <2>2, <2>3
<1>6. new.tokens \in Nat BY <1>1 DEF Bucket
<1> QED BY <1>1, <1>2, <1>3, <1>4, <1>5, <1>6 DEF Flowed

-----------------------------------------------------------------------------

LEMMA LimitsInitHolds == LimitsInit => LimitsInv
<1> SUFFICES ASSUME LimitsInit PROVE LimitsInv
  OBVIOUS
<1> USE LimitsAssumption
<1>1. LimitsTypeOK
  <2>1. hits \in [Scopes -> SUBSET Member] /\ lapses \in [Scopes -> Nat]
        /\ spareHits \in [Processes -> SUBSET Member]
    BY DEF LimitsInit
  <2>2. bucket \in Bucket \cup {NoBucket} /\ spare \in [Processes -> Bucket \cup {NoBucket}]
    BY DEF LimitsInit
  <2>3. letIn.windows \in [Scopes -> [Counters -> SUBSET Member]] BY DEF LimitsInit
  <2>4. letIn \in [windows : [Scopes -> [Counters -> SUBSET Member]], spent : [Counters -> Nat],
                   back : Nat, plans : SUBSET DOMAIN Tiers]
    BY <2>3 DEF LimitsInit
  <2>5. plan \in letIn.plans /\ letIn.plans = {plan} BY DEF LimitsInit
  <2>6. tierOf \in [Processes -> [plan : letIn.plans, until : Nat]] BY <2>5 DEF LimitsInit
  <2> QED BY <2>1, <2>2, <2>4, <2>5, <2>6 DEF LimitsInit, LimitsTypeOK
<1>2. LogsFit
  <2>1. \A s \in Scopes : hits[s] = {} /\ \A c \in Counters : letIn.windows[s][c] = {}
    BY DEF LimitsInit
  <2>2. \A p \in Processes : spareHits[p] = {} /\ p \in Counters BY DEF LimitsInit, Counters
  <2>3. IsFiniteSet({}) /\ Cardinality({}) = 0 BY FS_EmptySet
  <2>4. \A s \in Scopes : WindowLimit[s] \in Nat OBVIOUS
  <2>5. \A s \in Scopes : IsFiniteSet(hits[s]) /\ Cardinality(hits[s]) = 0 BY <2>1, <2>3
  <2>6. \A p \in Processes : IsFiniteSet(spareHits[p]) /\ Cardinality(spareHits[p]) = 0
    BY <2>2, <2>3
  <2>7. \A p \in Processes : letIn.windows["auth"][p] = {} BY <2>1, <2>2
  <2> QED BY <2>4, <2>5, <2>6, <2>7 DEF LogsFit
<1>3. \A s \in Scopes, c \in Counters : letIn.windows[s][c] = {} BY DEF LimitsInit
<1>8. Numbered
  <2>1. \A s \in Scopes : hits[s] = {} BY DEF LimitsInit
  <2>2. \A p \in Processes : spareHits[p] = {} BY DEF LimitsInit
  <2>3. IsFiniteSet({}) BY FS_EmptySet
  <2>4. NumberedUntil({}, now) BY <2>3 DEF NumberedUntil
  <2> QED BY <1>3, <2>1, <2>2, <2>4 DEF Numbered
<1>4. RedisKeeps BY <1>3 DEF RedisKeeps, Counters
<1>5. ProcessKeeps BY <1>3 DEF ProcessKeeps, Counters
<1>6. BucketFits BY DEF LimitsInit, BucketFits, Flowed, Counters
<1>7. SparesFit BY DEF LimitsInit, SparesFit, Flowed, Counters
<1> QED BY <1>1, <1>2, <1>4, <1>5, <1>6, <1>7, <1>8 DEF LimitsInv

\* A member that is added leaves a log at its limit.
LEMMA OneMore ==
  ASSUME NEW log, IsFiniteSet(log), NEW old, IsFiniteSet(old), log \subseteq old,
         NEW n \in Nat, Cardinality(old) <= n, NEW hit
  PROVE  /\ IsFiniteSet(log) /\ Cardinality(log) <= n
         /\ IsFiniteSet(log \cup {hit})
         /\ Cardinality(log) < n => Cardinality(log \cup {hit}) <= n
<1>1. Cardinality(log) \in Nat /\ Cardinality(old) \in Nat BY FS_CardinalityType
<1>2. Cardinality(log) <= Cardinality(old) BY FS_Subset
<1>3. IsFiniteSet(log \cup {hit})
      /\ Cardinality(log \cup {hit}) <= Cardinality(log) + 1
  <2>1. CASE hit \in log
    <3>1. log \cup {hit} = log BY <2>1
    <3>2. Cardinality(log \cup {hit}) = Cardinality(log) BY <3>1
    <3>3. IsFiniteSet(log \cup {hit}) BY <3>1
    <3> QED BY <1>1, <3>2, <3>3
  <2>2. CASE hit \notin log
    <3>1. Cardinality(log \cup {hit}) = Cardinality(log) + 1 /\ IsFiniteSet(log \cup {hit})
      BY <2>2, FS_AddElement
    <3> QED BY <1>1, <3>1
  <2> QED BY <2>1, <2>2
<1>4. Cardinality(log \cup {hit}) \in Nat BY <1>3, FS_CardinalityType
<1> QED BY <1>1, <1>2, <1>3, <1>4

LEMMA ClockType ==
  ASSUME LimitsTypeOK, NEW p \in Processes
  PROVE  ahead[p] \in Nat /\ Clock(p) \in Nat /\ Clock(p) = now + ahead[p]
BY LimitsAssumption DEF LimitsTypeOK, Clock

\* What is added is a member, and one the counter's history does not have; the
\* history stays numbered.
LEMMA HitIsNew ==
  ASSUME LimitsTypeOK, Numbered, NEW s \in Scopes, NEW who \in Counters, NEW p \in Processes
  PROVE  /\ Hit(s, who, p) \in Member
         /\ Hit(s, who, p) \notin letIn.windows[s][who]
<1> DEFINE past == letIn.windows[s][who]
           alike == {h \in past : h.at = now}
           hit == Hit(s, who, p)
<1>1. now \in Nat /\ past \subseteq Member BY DEF LimitsTypeOK
<1>2. IsFiniteSet(past) BY DEF Numbered, NumberedUntil
<1>3. alike \subseteq past OBVIOUS
<1>4. IsFiniteSet(alike) /\ Cardinality(alike) \in Nat BY <1>2, <1>3, FS_Subset, FS_CardinalityType
<1>5. hit = [at |-> now, score |-> Clock(p), nth |-> Cardinality(alike)] BY DEF Hit
<1>6. hit \in Member BY <1>1, <1>4, <1>5, ClockType DEF Member
<1>7. hit \notin past
  <2> SUFFICES ASSUME hit \in past PROVE FALSE
    OBVIOUS
  <2>1. hit.nth < Cardinality({g \in past : g.at = hit.at}) BY DEF Numbered, NumberedUntil
  <2>2. hit.at = now /\ hit.nth = Cardinality(alike) BY <1>5
  <2>3. {g \in past : g.at = hit.at} = alike BY <2>2
  <2>4. Cardinality({g \in past : g.at = hit.at}) = Cardinality(alike) BY <2>3
  <2> QED BY <1>4, <2>1, <2>2, <2>4
<1> QED BY <1>6, <1>7

\* What the history is once a member was let in.
Later(past, hit) == {h \in past : h.at > now - Window} \cup {hit}

LEMMA StaysNumbered ==
  ASSUME LimitsTypeOK, Numbered, NEW s \in Scopes, NEW who \in Counters, NEW p \in Processes
  PROVE  NumberedUntil(Later(letIn.windows[s][who], Hit(s, who, p)), now)
<1> DEFINE past == letIn.windows[s][who]
           alike == {h \in past : h.at = now}
           hit == Hit(s, who, p)
           kept == {h \in past : h.at > now - Window}
           later == Later(past, hit)
<1> USE LimitsAssumption
<1>1. now \in Nat /\ past \subseteq Member BY DEF LimitsTypeOK
<1>2. IsFiniteSet(past) BY DEF Numbered, NumberedUntil
<1>3. hit \in Member /\ hit \notin past BY HitIsNew
<1>4. hit.at = now /\ hit.nth = Cardinality(alike) BY DEF Hit
<1>5. later = kept \cup {hit} BY DEF Later
<1>6. IsFiniteSet(kept) BY <1>2, FS_Subset
<1>7. IsFiniteSet(later)
  <2>1. IsFiniteSet(kept \cup {hit}) BY <1>6, FS_AddElement
  <2> QED BY <1>5, <2>1
<1>8. alike \subseteq kept BY <1>1 DEF Member
<1>9. {g \in later : g.at = now} = alike \cup {hit} BY <1>4, <1>5, <1>8
<1>10. IsFiniteSet(alike) /\ Cardinality(alike) \in Nat BY <1>2, FS_Subset, FS_CardinalityType
<1>11. Cardinality({g \in later : g.at = now}) = Cardinality(alike) + 1
  <2>1. hit \notin alike BY <1>3
  <2>2. Cardinality(alike \cup {hit}) = Cardinality(alike) + 1 BY <1>10, <2>1, FS_AddElement
  <2> QED BY <1>9, <2>2
<1>12. ASSUME NEW h \in later
       PROVE  h.at <= now /\ h.nth < Cardinality({g \in later : g.at = h.at})
  <2>1. CASE h = hit
    <3>1. {g \in later : g.at = h.at} = {g \in later : g.at = now} BY <1>4, <2>1
    <3>2. Cardinality({g \in later : g.at = h.at}) = Cardinality(alike) + 1 BY <1>11, <3>1
    <3> QED BY <1>1, <1>4, <1>10, <2>1, <3>2
  <2>2. CASE h # hit
    <3>1. h \in kept /\ h \in past BY <1>5, <2>2
    <3>2. h.at <= now /\ h.nth < Cardinality({g \in past : g.at = h.at})
      BY <3>1 DEF Numbered, NumberedUntil
    <3>3. h.at \in Nat /\ h.nth \in Nat BY <1>1, <3>1 DEF Member
    <3>4. CASE h.at = now
      <4>1. {g \in later : g.at = h.at} = {g \in later : g.at = now}
            /\ {g \in past : g.at = h.at} = alike
        BY <3>4
      <4>2. Cardinality({g \in later : g.at = h.at}) = Cardinality(alike) + 1 BY <1>11, <4>1
      <4>3. Cardinality({g \in past : g.at = h.at}) = Cardinality(alike) BY <4>1
      <4> QED BY <1>10, <3>2, <3>3, <4>2, <4>3
    <3>5. CASE h.at # now
      <4>1. {g \in later : g.at = h.at} = {g \in past : g.at = h.at}
        BY <1>4, <1>5, <3>1, <3>5
      <4>2. Cardinality({g \in later : g.at = h.at}) = Cardinality({g \in past : g.at = h.at})
        BY <4>1
      <4> QED BY <3>2, <4>2
    <3> QED BY <3>4, <3>5
  <2> QED BY <2>1, <2>2
<1> QED BY <1>7, <1>12 DEF NumberedUntil

LEMMA AdmittedIs ==
  ASSUME LimitsTypeOK, Numbered, NEW s \in Scopes, NEW who \in Counters, NEW p \in Processes,
         letIn' = Admitted(s, who, Hit(s, who, p))
  PROVE  /\ letIn' \in [windows : [Scopes -> [Counters -> SUBSET Member]], spent : [Counters -> Nat],
                        back : Nat, plans : SUBSET DOMAIN Tiers]
         /\ letIn'.spent = letIn.spent /\ letIn'.back = letIn.back /\ letIn'.plans = letIn.plans
         /\ letIn'.windows[s][who] = Later(letIn.windows[s][who], Hit(s, who, p))
         /\ \A z \in Scopes, c \in Counters :
              ~(z = s /\ c = who) => letIn'.windows[z][c] = letIn.windows[z][c]
<1> DEFINE past == letIn.windows[s][who]
           later == Later(past, Hit(s, who, p))
<1>1. past \subseteq Member BY DEF LimitsTypeOK
<1>2. later \subseteq Member BY <1>1, HitIsNew DEF Later
<1>4. letIn.windows \in [Scopes -> [Counters -> SUBSET Member]] BY DEF LimitsTypeOK
<1>3. letIn' = [letIn EXCEPT !.windows[s][who] = later] BY DEF Admitted, Later
<1> HIDE DEF later
<1>10. PICK row : row = [letIn.windows[s] EXCEPT ![who] = later] OBVIOUS
<1>11. PICK table : table = [letIn.windows EXCEPT ![s] = row] OBVIOUS
<1>12. row \in [Counters -> SUBSET Member] BY <1>2, <1>4, <1>10
<1>5. table \in [Scopes -> [Counters -> SUBSET Member]] BY <1>4, <1>11, <1>12
<1>13. letIn' = [letIn EXCEPT !.windows = table] BY <1>3, <1>10, <1>11
<1>14. letIn \in [windows : [Scopes -> [Counters -> SUBSET Member]], spent : [Counters -> Nat],
                   back : Nat, plans : SUBSET DOMAIN Tiers]
  BY DEF LimitsTypeOK
<1>6. letIn'.windows = table
      /\ letIn'.spent = letIn.spent /\ letIn'.back = letIn.back /\ letIn'.plans = letIn.plans
  BY <1>13, <1>14
<1>7. letIn' \in [windows : [Scopes -> [Counters -> SUBSET Member]], spent : [Counters -> Nat],
                  back : Nat, plans : SUBSET DOMAIN Tiers]
  BY <1>5, <1>13, <1>14
<1>8. letIn'.windows[s][who] = later BY <1>4, <1>6, <1>10, <1>11
<1>9. \A z \in Scopes, c \in Counters :
        ~(z = s /\ c = who) => letIn'.windows[z][c] = letIn.windows[z][c]
  BY <1>4, <1>6, <1>10, <1>11
<1> QED BY <1>6, <1>7, <1>8, <1>9 DEF later

\* A log that is cut by any clock keeps whom it let in within a window less what
\* clocks disagree by.
RedisLog(s, p) == IF now >= lapses[s] THEN {} ELSE Within(hits[s], Clock(p))

LEMMA RedisLogKeeps ==
  ASSUME LimitsTypeOK, RedisKeeps, NEW s \in Scopes, NEW p \in Processes,
         NEW d \in 0..Skew, Agree(d),
         NEW h \in letIn.windows[s]["redis"], h.at > now - (Window - d)
  PROVE  h \in RedisLog(s, p)
<1> USE LimitsAssumption
<1>1. h \in Member /\ now \in Nat /\ lapses[s] \in Nat BY DEF LimitsTypeOK, Counters
<1>2. h.at \in Nat /\ h.score \in Nat BY <1>1 DEF Member
<1>3. PICK q \in Processes : h.score = h.at + ahead[q] BY DEF RedisKeeps
<1>4. h \in hits[s] /\ h.at + Window <= lapses[s] BY DEF RedisKeeps
<1>5. ahead[p] \in Nat /\ ahead[q] \in Nat /\ Clock(p) = now + ahead[p] BY ClockType
<1>6. ahead[p] - ahead[q] <= d BY DEF Agree
<1>7. Window \in Nat /\ d \in Nat /\ Skew \in Nat OBVIOUS
<1>8. now < lapses[s] BY <1>1, <1>2, <1>4, <1>7
<1>9. h.score > Clock(p) - Window BY <1>1, <1>2, <1>3, <1>5, <1>6, <1>7
<1> QED BY <1>1, <1>4, <1>8, <1>9 DEF RedisLog, Within

LEMMA AskWindowHolds ==
  ASSUME LimitsInv, NEW s \in Scopes, NEW p \in Processes, AskWindow(s, p)
  PROVE  LimitsInv'
<1> USE LimitsAssumption
<1> DEFINE log == RedisLog(s, p)
           hit == Hit(s, "redis", p)
<1>1. LimitsTypeOK /\ LogsFit /\ Numbered /\ RedisKeeps /\ ProcessKeeps /\ BucketFits /\ SparesFit
  BY DEF LimitsInv
<1>2. /\ now' = now /\ ahead' = ahead /\ spareHits' = spareHits
      /\ bucket' = bucket /\ spare' = spare /\ plan' = plan /\ tierOf' = tierOf
  BY DEF AskWindow, Buckets
<1>3. "redis" \in Counters BY DEF Counters
<1>4. log \subseteq hits[s] BY DEF RedisLog, Within
<1>5. hits \in [Scopes -> SUBSET Member] /\ lapses \in [Scopes -> Nat] /\ now \in Nat
      /\ hits[s] \subseteq Member
  BY <1>1 DEF LimitsTypeOK
<1>6. hit \in Member /\ hit \notin letIn.windows[s]["redis"] /\ hit.at = now /\ hit.score = Clock(p)
  BY <1>1, <1>3, HitIsNew DEF Hit
<1>7. IsFiniteSet(hits[s]) /\ Cardinality(hits[s]) <= WindowLimit[s] /\ WindowLimit[s] \in Nat
  BY <1>1 DEF LogsFit
<1>8. IsFiniteSet(log) BY <1>4, <1>7, FS_Subset
<1>9. /\ Cardinality(log) <= WindowLimit[s] /\ IsFiniteSet(log \cup {hit})
      /\ Cardinality(log) < WindowLimit[s] => Cardinality(log \cup {hit}) <= WindowLimit[s]
  <2> HIDE DEF log, hit
  <2> QED BY <1>4, <1>7, <1>8, OneMore
<1>10. Cardinality(log) \in Nat BY <1>8, FS_CardinalityType
<1>11. \/ /\ hits' = [hits EXCEPT ![s] = log] /\ lapses' = lapses /\ letIn' = letIn
       \/ /\ Cardinality(log) < WindowLimit[s]
          /\ hits' = [hits EXCEPT ![s] = log \cup {hit}]
          /\ lapses' = [lapses EXCEPT ![s] = now + Window]
          /\ letIn' = Admitted(s, "redis", hit)
  BY <1>7, <1>10 DEF AskWindow, Slide, RedisLog
<1> HIDE DEF log, hit
<1>12. CASE hits' = [hits EXCEPT ![s] = log] /\ lapses' = lapses /\ letIn' = letIn
  <2>1. hits' \in [Scopes -> SUBSET Member] /\ hits'[s] = log
        /\ \A z \in Scopes : z # s => hits'[z] = hits[z]
    BY <1>4, <1>5, <1>12
  <2>2. LimitsTypeOK' BY <1>1, <1>2, <1>12, <2>1 DEF LimitsTypeOK
  <2>3. LogsFit'
    <3>1. \A z \in Scopes : IsFiniteSet(hits'[z]) /\ Cardinality(hits'[z]) <= WindowLimit[z]
      BY <1>1, <1>8, <1>9, <2>1 DEF LogsFit
    <3> QED BY <1>1, <1>2, <1>12, <3>1 DEF LogsFit
  <2>4. Numbered'
    <3>1. \A z \in Scopes : \A h \in hits'[z] : h \in hits[z] BY <1>4, <2>1
    <3> QED BY <1>1, <1>2, <1>12, <3>1 DEF Numbered
  <2>5. RedisKeeps'
    <3> SUFFICES ASSUME NEW z \in Scopes, NEW h \in letIn.windows[z]["redis"]
                 PROVE  /\ h.at + Window <= lapses[z]
                        /\ \E q \in Processes : h.score = h.at + ahead[q]
                        /\ \A d \in 0..Skew : Agree(d) /\ h.at > now - (Window - d) => h \in hits'[z]
      BY <1>2, <1>12 DEF RedisKeeps, Agree
    <3>1. \A d \in 0..Skew : Agree(d) /\ h.at > now - (Window - d) => h \in hits'[z]
      <4>1. CASE z = s BY <1>1, <2>1, <4>1, RedisLogKeeps DEF log
      <4>2. CASE z # s BY <1>1, <2>1, <4>2 DEF RedisKeeps
      <4> QED BY <4>1, <4>2
    <3> QED BY <1>1, <3>1 DEF RedisKeeps
  <2>6. ProcessKeeps' BY <1>1, <1>2, <1>12 DEF ProcessKeeps
  <2>7. BucketFits' BY <1>1, <1>2, <1>12 DEF BucketFits, Bounded
  <2>8. SparesFit' BY <1>1, <1>2, <1>12 DEF SparesFit, Bounded
  <2> QED BY <2>2, <2>3, <2>4, <2>5, <2>6, <2>7, <2>8 DEF LimitsInv
<1>13. CASE /\ Cardinality(log) < WindowLimit[s]
            /\ hits' = [hits EXCEPT ![s] = log \cup {hit}]
            /\ lapses' = [lapses EXCEPT ![s] = now + Window]
            /\ letIn' = Admitted(s, "redis", hit)
  <2> DEFINE later == Later(letIn.windows[s]["redis"], hit)
  <2>1. /\ hits' \in [Scopes -> SUBSET Member] /\ hits'[s] = log \cup {hit}
        /\ \A z \in Scopes : z # s => hits'[z] = hits[z]
    BY <1>4, <1>5, <1>6, <1>13
  <2>2. /\ lapses' \in [Scopes -> Nat] /\ lapses'[s] = now + Window
        /\ \A z \in Scopes : z # s => lapses'[z] = lapses[z]
    BY <1>5, <1>13
  <2>3. /\ letIn' \in [windows : [Scopes -> [Counters -> SUBSET Member]], spent : [Counters -> Nat],
                       back : Nat, plans : SUBSET DOMAIN Tiers]
        /\ letIn'.spent = letIn.spent /\ letIn'.back = letIn.back /\ letIn'.plans = letIn.plans
        /\ letIn'.windows[s]["redis"] = later
        /\ \A z \in Scopes, c \in Counters :
             ~(z = s /\ c = "redis") => letIn'.windows[z][c] = letIn.windows[z][c]
    BY <1>1, <1>3, <1>13, AdmittedIs DEF hit
  <2>4. NumberedUntil(later, now)
    BY <1>1, <1>3, StaysNumbered DEF hit
  <2>5. hit \in later /\ \A h \in later : h = hit \/ h \in letIn.windows[s]["redis"] BY DEF Later
  <2>6. \A p2 \in Processes : p2 \in Counters /\ p2 # "redis" BY DEF Counters
  <2>7. \A h \in letIn.windows[s]["redis"] : h.at = now => h \in later
    <3>1. Window \in Nat /\ Window > 0 OBVIOUS
    <3> QED BY <1>5, <3>1 DEF Later
  <2> HIDE DEF later
  <2>8. LimitsTypeOK' BY <1>1, <1>2, <2>1, <2>2, <2>3 DEF LimitsTypeOK
  <2>9. LogsFit'
    <3>1. \A z \in Scopes : IsFiniteSet(hits'[z]) /\ Cardinality(hits'[z]) <= WindowLimit[z]
      BY <1>1, <1>9, <1>13, <2>1 DEF LogsFit
    <3>2. \A q \in Processes : letIn'.windows["auth"][q] = {} BY <1>1, <2>3, <2>6 DEF LogsFit
    <3> QED BY <1>1, <1>2, <3>1, <3>2 DEF LogsFit
  <2>10. Numbered'
    <3>1. ASSUME NEW z \in Scopes, NEW c \in Counters
          PROVE  NumberedUntil(letIn'.windows[z][c], now)
      <4>1. CASE z = s /\ c = "redis" BY <2>3, <2>4, <4>1
      <4>2. CASE ~(z = s /\ c = "redis")
        <5>1. letIn'.windows[z][c] = letIn.windows[z][c] BY <2>3, <4>2
        <5> QED BY <1>1, <5>1 DEF Numbered
      <4> QED BY <4>1, <4>2
    <3>2. ASSUME NEW z \in Scopes, NEW h \in hits'[z]
          PROVE  h.at <= now /\ (h.at = now => h \in letIn'.windows[z]["redis"])
      <4>1. CASE z = s
        <5>1. CASE h = hit BY <1>5, <1>6, <2>3, <2>5, <4>1, <5>1
        <5>2. CASE h # hit
          <6>1. h \in hits[s] BY <1>4, <2>1, <4>1, <5>2
          <6> QED BY <1>1, <2>3, <2>7, <4>1, <6>1 DEF Numbered
        <5> QED BY <5>1, <5>2
      <4>2. CASE z # s BY <1>1, <1>3, <2>1, <2>3, <4>2 DEF Numbered
      <4> QED BY <4>1, <4>2
    <3>3. \A q \in Processes : \A h \in spareHits[q] :
            h.at <= now /\ (h.at = now => h \in letIn'.windows["ip"][q])
      BY <1>1, <2>3, <2>6 DEF Numbered
    <3> QED BY <1>2, <3>1, <3>2, <3>3 DEF Numbered
  <2>11. RedisKeeps'
    <3> SUFFICES ASSUME NEW z \in Scopes, NEW h \in letIn'.windows[z]["redis"]
                 PROVE  /\ h.at + Window <= lapses'[z]
                        /\ \E q \in Processes : h.score = h.at + ahead[q]
                        /\ \A d \in 0..Skew : Agree(d) /\ h.at > now - (Window - d) => h \in hits'[z]
      BY <1>2 DEF RedisKeeps, Agree
    <3>1. CASE z = s /\ h = hit
      <4>1. h \in hits'[z] BY <2>1, <3>1
      <4>2. h.at + Window <= lapses'[z] BY <1>5, <1>6, <2>2, <3>1
      <4>3. Clock(p) = now + ahead[p] BY DEF Clock
      <4> QED BY <1>6, <3>1, <4>1, <4>2, <4>3
    <3>2. CASE z = s /\ h # hit
      <4>1. h \in letIn.windows[s]["redis"] BY <2>3, <2>5, <3>2
      <4>5. h \in Member BY <1>1, <1>3, <4>1 DEF LimitsTypeOK
      <4>6. h.at <= now BY <1>1, <1>3, <4>1 DEF Numbered, NumberedUntil
      <4>2. h.at <= now /\ h.at \in Nat BY <4>5, <4>6 DEF Member
      <4>3. h.at + Window <= lapses'[z] BY <1>5, <2>2, <3>2, <4>2
      <4>4. \A d \in 0..Skew : Agree(d) /\ h.at > now - (Window - d) => h \in log
        BY <1>1, <4>1, RedisLogKeeps DEF log
      <4> QED BY <1>1, <2>1, <3>2, <4>1, <4>3, <4>4 DEF RedisKeeps
    <3>3. CASE z # s
      <4>1. h \in letIn.windows[z]["redis"] BY <1>3, <2>3, <3>3
      <4> QED BY <1>1, <2>1, <2>2, <3>3, <4>1 DEF RedisKeeps
    <3> QED BY <3>1, <3>2, <3>3
  <2>12. ProcessKeeps' BY <1>1, <1>2, <2>3, <2>6 DEF ProcessKeeps
  <2>13. BucketFits' BY <1>1, <1>2, <2>3 DEF BucketFits, Bounded
  <2>14. SparesFit' BY <1>1, <1>2, <2>3 DEF SparesFit, Bounded
  <2> QED BY <2>8, <2>9, <2>10, <2>11, <2>12, <2>13, <2>14 DEF LimitsInv
<1> QED BY <1>11, <1>12, <1>13

LEMMA AskSpareWindowHolds ==
  ASSUME LimitsInv, NEW s \in Scopes, NEW p \in Processes, AskSpareWindow(s, p)
  PROVE  LimitsInv'
<1> USE LimitsAssumption
<1> DEFINE log == Within(spareHits[p], Clock(p))
           hit == Hit("ip", p, p)
<1>1. LimitsTypeOK /\ LogsFit /\ Numbered /\ RedisKeeps /\ ProcessKeeps /\ BucketFits /\ SparesFit
  BY DEF LimitsInv
<1>2. /\ now' = now /\ ahead' = ahead /\ hits' = hits /\ lapses' = lapses
      /\ bucket' = bucket /\ spare' = spare /\ plan' = plan /\ tierOf' = tierOf
  BY DEF AskSpareWindow, Buckets
<1>3. s = "ip" /\ "ip" \in Scopes /\ "auth" \in Scopes /\ "ip" # "auth" BY DEF AskSpareWindow
<1>4. \A q \in Processes : q \in Counters /\ q # "redis" BY DEF Counters
<1>5. log \subseteq spareHits[p] BY DEF Within
<1>6. spareHits \in [Processes -> SUBSET Member] /\ now \in Nat /\ spareHits[p] \subseteq Member
  BY <1>1 DEF LimitsTypeOK
<1>7. hit \in Member /\ hit \notin letIn.windows["ip"][p] /\ hit.at = now /\ hit.score = Clock(p)
  BY <1>1, <1>3, <1>4, HitIsNew DEF Hit
<1>8. IsFiniteSet(spareHits[p]) /\ Cardinality(spareHits[p]) <= WindowLimit["ip"]
      /\ WindowLimit["ip"] \in Nat
  BY <1>1, <1>3 DEF LogsFit
<1>9. IsFiniteSet(log) BY <1>5, <1>8, FS_Subset
<1>10. /\ Cardinality(log) <= WindowLimit["ip"] /\ IsFiniteSet(log \cup {hit})
       /\ Cardinality(log) < WindowLimit["ip"] => Cardinality(log \cup {hit}) <= WindowLimit["ip"]
  <2> HIDE DEF log, hit
  <2> QED BY <1>5, <1>8, <1>9, OneMore
<1>11. Cardinality(log) \in Nat BY <1>9, FS_CardinalityType
<1>12. \/ spareHits' = [spareHits EXCEPT ![p] = log] /\ letIn' = letIn
       \/ /\ Cardinality(log) < WindowLimit["ip"]
          /\ spareHits' = [spareHits EXCEPT ![p] = log \cup {hit}]
          /\ letIn' = Admitted("ip", p, hit)
  BY <1>3, <1>8, <1>11 DEF AskSpareWindow, SlideSpare
\* What is let in within a window was logged by this clock, and is kept by it.
<1>13. \A h \in letIn.windows["ip"][p] : h.at > now - Window => h \in log
  <2> SUFFICES ASSUME NEW h \in letIn.windows["ip"][p], h.at > now - Window PROVE h \in log
    OBVIOUS
  <2>1. h \in spareHits[p] /\ h.score = h.at + ahead[p] BY <1>1 DEF ProcessKeeps
  <2>2. h \in Member BY <1>6, <2>1
  <2>3. h.at \in Nat /\ ahead[p] \in Nat /\ Clock(p) = now + ahead[p] BY <1>1, <2>2, ClockType DEF Member
  <2>4. h.score > Clock(p) - Window BY <1>6, <2>1, <2>3
  <2> QED BY <2>1, <2>4 DEF Within
<1> HIDE DEF log, hit
<1>14. CASE spareHits' = [spareHits EXCEPT ![p] = log] /\ letIn' = letIn
  <2>1. spareHits' \in [Processes -> SUBSET Member] /\ spareHits'[p] = log
        /\ \A q \in Processes : q # p => spareHits'[q] = spareHits[q]
    BY <1>5, <1>6, <1>14
  <2>2. LimitsTypeOK' BY <1>1, <1>2, <1>14, <2>1 DEF LimitsTypeOK
  <2>3. LogsFit'
    <3>1. \A q \in Processes : IsFiniteSet(spareHits'[q]) /\ Cardinality(spareHits'[q]) <= WindowLimit["ip"]
      BY <1>1, <1>9, <1>10, <2>1 DEF LogsFit
    <3> QED BY <1>1, <1>2, <1>14, <3>1 DEF LogsFit
  <2>4. Numbered'
    <3>1. \A q \in Processes : \A h \in spareHits'[q] : h \in spareHits[q] BY <1>5, <2>1
    <3>2. \A q \in Processes : \A h \in spareHits'[q] :
            h.at <= now /\ (h.at = now => h \in letIn.windows["ip"][q])
      BY <1>1, <3>1 DEF Numbered
    <3> QED BY <1>1, <1>2, <1>14, <3>2 DEF Numbered
  <2>5. RedisKeeps' BY <1>1, <1>2, <1>14 DEF RedisKeeps, Agree
  <2>6. ProcessKeeps' BY <1>1, <1>2, <1>13, <1>14, <2>1 DEF ProcessKeeps
  <2>7. BucketFits' BY <1>1, <1>2, <1>14 DEF BucketFits, Bounded
  <2>8. SparesFit' BY <1>1, <1>2, <1>14 DEF SparesFit, Bounded
  <2> QED BY <2>2, <2>3, <2>4, <2>5, <2>6, <2>7, <2>8 DEF LimitsInv
<1>15. CASE /\ Cardinality(log) < WindowLimit["ip"]
            /\ spareHits' = [spareHits EXCEPT ![p] = log \cup {hit}]
            /\ letIn' = Admitted("ip", p, hit)
  <2> DEFINE later == Later(letIn.windows["ip"][p], hit)
  <2>1. /\ spareHits' \in [Processes -> SUBSET Member] /\ spareHits'[p] = log \cup {hit}
        /\ \A q \in Processes : q # p => spareHits'[q] = spareHits[q]
    BY <1>5, <1>6, <1>7, <1>15
  <2>2. /\ letIn' \in [windows : [Scopes -> [Counters -> SUBSET Member]], spent : [Counters -> Nat],
                       back : Nat, plans : SUBSET DOMAIN Tiers]
        /\ letIn'.spent = letIn.spent /\ letIn'.back = letIn.back /\ letIn'.plans = letIn.plans
        /\ letIn'.windows["ip"][p] = later
        /\ \A z \in Scopes, c \in Counters :
             ~(z = "ip" /\ c = p) => letIn'.windows[z][c] = letIn.windows[z][c]
    BY <1>1, <1>3, <1>4, <1>15, AdmittedIs DEF hit
  <2>3. NumberedUntil(later, now)
    BY <1>1, <1>3, <1>4, StaysNumbered DEF hit
  <2>4. hit \in later /\ \A h \in later : h = hit \/ h \in letIn.windows["ip"][p] BY DEF Later
  <2>5. \A h \in letIn.windows["ip"][p] : h.at = now => h \in later
    <3>1. Window \in Nat /\ Window > 0 OBVIOUS
    <3> QED BY <1>6, <3>1 DEF Later
  <2>6. \A h \in later : h # hit => h \in letIn.windows["ip"][p] /\ h.at > now - Window BY DEF Later
  <2> HIDE DEF later
  <2>7. \A z \in Scopes : letIn'.windows[z]["redis"] = letIn.windows[z]["redis"]
    <3>1. "redis" \in Counters BY DEF Counters
    <3> QED BY <1>4, <2>2, <3>1
  <2>8. \A q \in Processes : q # p => letIn'.windows["ip"][q] = letIn.windows["ip"][q]
    BY <1>3, <1>4, <2>2
  <2>9. LimitsTypeOK' BY <1>1, <1>2, <2>1, <2>2 DEF LimitsTypeOK
  <2>10. LogsFit'
    <3>1. \A q \in Processes : IsFiniteSet(spareHits'[q]) /\ Cardinality(spareHits'[q]) <= WindowLimit["ip"]
      BY <1>1, <1>10, <1>15, <2>1 DEF LogsFit
    <3>2. \A q \in Processes : letIn'.windows["auth"][q] = {} BY <1>1, <1>3, <1>4, <2>2 DEF LogsFit
    <3> QED BY <1>1, <1>2, <3>1, <3>2 DEF LogsFit
  <2>11. Numbered'
    <3>1. ASSUME NEW z \in Scopes, NEW c \in Counters
          PROVE  NumberedUntil(letIn'.windows[z][c], now)
      <4>1. CASE z = "ip" /\ c = p BY <2>2, <2>3, <4>1
      <4>2. CASE ~(z = "ip" /\ c = p)
        <5>1. letIn'.windows[z][c] = letIn.windows[z][c] BY <2>2, <4>2
        <5> QED BY <1>1, <5>1 DEF Numbered
      <4> QED BY <4>1, <4>2
    <3>2. ASSUME NEW q \in Processes, NEW h \in spareHits'[q]
          PROVE  h.at <= now /\ (h.at = now => h \in letIn'.windows["ip"][q])
      <4>1. CASE q = p
        <5>1. CASE h = hit BY <1>6, <1>7, <2>2, <2>4, <4>1, <5>1
        <5>2. CASE h # hit
          <6>1. h \in spareHits[p] BY <1>5, <2>1, <4>1, <5>2
          <6> QED BY <1>1, <2>2, <2>5, <4>1, <6>1 DEF Numbered
        <5> QED BY <5>1, <5>2
      <4>2. CASE q # p BY <1>1, <2>1, <2>8, <4>2 DEF Numbered
      <4> QED BY <4>1, <4>2
    <3>3. \A z \in Scopes : \A h \in hits[z] :
            h.at <= now /\ (h.at = now => h \in letIn'.windows[z]["redis"])
      BY <1>1, <2>7 DEF Numbered
    <3> QED BY <1>2, <3>1, <3>2, <3>3 DEF Numbered
  <2>12. RedisKeeps' BY <1>1, <1>2, <2>7 DEF RedisKeeps, Agree
  <2>13. ProcessKeeps'
    <3> SUFFICES ASSUME NEW q \in Processes, NEW h \in letIn'.windows["ip"][q]
                 PROVE  /\ h.score = h.at + ahead[q]
                        /\ h.at > now - Window => h \in spareHits'[q]
      BY <1>2 DEF ProcessKeeps
    <3>1. CASE q = p /\ h = hit BY <1>7, <2>1, <3>1 DEF Clock
    <3>2. CASE q = p /\ h # hit
      <4>1. h \in letIn.windows["ip"][p] /\ h.at > now - Window BY <2>2, <2>6, <3>2
      <4> QED BY <1>1, <1>13, <2>1, <3>2, <4>1 DEF ProcessKeeps
    <3>3. CASE q # p BY <1>1, <2>1, <2>8, <3>3 DEF ProcessKeeps
    <3> QED BY <3>1, <3>2, <3>3
  <2>14. BucketFits' BY <1>1, <1>2, <2>2 DEF BucketFits, Bounded
  <2>15. SparesFit' BY <1>1, <1>2, <2>2 DEF SparesFit, Bounded
  <2> QED BY <2>9, <2>10, <2>11, <2>12, <2>13, <2>14, <2>15 DEF LimitsInv
<1> QED BY <1>12, <1>14, <1>15

-----------------------------------------------------------------------------

\* The plan a process goes by is one there was.
LEMMA PlanIsOne ==
  ASSUME LimitsTypeOK, NEW p \in Processes
  PROVE  /\ Plan(p) \in letIn.plans /\ Plan(p) \in DOMAIN Tiers
         /\ Tiers[Plan(p)].capacity \in Nat /\ Tiers[Plan(p)].refill \in Nat
<1>1. Plan(p) \in letIn.plans BY DEF LimitsTypeOK, Plan
<1>2. letIn.plans \subseteq DOMAIN Tiers BY DEF LimitsTypeOK
<1> QED BY <1>1, <1>2, LimitsAssumption

\* What asking a bucket leaves of the plans that are remembered and of the history.
LEMMA AskedIs ==
  ASSUME LimitsTypeOK, NEW b \in Bucket \cup {NoBucket}, NEW who \in Counters,
         NEW p \in Processes, NEW cost \in Costs, Asked(b, who, p, cost)
  PROVE  LET tier == Tiers[Plan(p)] IN
         /\ letIn' \in [windows : [Scopes -> [Counters -> SUBSET Member]], spent : [Counters -> Nat],
                        back : Nat, plans : SUBSET DOMAIN Tiers]
         /\ tierOf' \in [Processes -> [plan : letIn.plans, until : Nat]]
         /\ letIn'.windows = letIn.windows /\ letIn'.plans = letIn.plans
         /\ letIn'.back = letIn.back + TurnedBack(b, Clock(p))
         /\ letIn'.spent[who] = letIn.spent[who] + Given(b, tier, Clock(p), cost)
         /\ \A c \in Counters : c # who => letIn'.spent[c] = letIn.spent[c]
<1> USE LimitsAssumption
<1> DEFINE tier == Tiers[Plan(p)]
           gift == Given(b, tier, Clock(p), cost)
           turned == TurnedBack(b, Clock(p))
<1>1. tier.capacity \in Nat /\ tier.refill \in Nat BY PlanIsOne
<1>2. Clock(p) \in Nat /\ cost \in Nat BY ClockType
<1>3. gift \in Nat /\ turned \in Nat
  <2> HIDE DEF tier
  <2> QED BY <1>1, <1>2, PouredType
<1>4. letIn \in [windows : [Scopes -> [Counters -> SUBSET Member]], spent : [Counters -> Nat],
                 back : Nat, plans : SUBSET DOMAIN Tiers]
  BY DEF LimitsTypeOK
<1>5. letIn' = [letIn EXCEPT !.spent[who] = @ + gift, !.back = @ + turned] BY DEF Asked
<1>6. tierOf' \in [Processes -> [plan : letIn.plans, until : Nat]]
  <2>1. plan \in letIn.plans /\ Clock(p) + TierLife \in Nat BY <1>2 DEF LimitsTypeOK
  <2>2. [plan |-> plan, until |-> Clock(p) + TierLife] \in [plan : letIn.plans, until : Nat] BY <2>1
  <2> QED BY <2>2 DEF Asked, LimitsTypeOK
<1> HIDE DEF gift, turned
<1>7. PICK purse : purse = [letIn.spent EXCEPT ![who] = @ + gift] OBVIOUS
<1>8. purse \in [Counters -> Nat] /\ purse[who] = letIn.spent[who] + gift
      /\ \A c \in Counters : c # who => purse[c] = letIn.spent[c]
  BY <1>3, <1>4, <1>7
<1>9. PICK g : g = [letIn EXCEPT !.spent = purse] OBVIOUS
<1>10. letIn' = [g EXCEPT !.back = @ + turned] BY <1>5, <1>7, <1>9
<1>11. g \in [windows : [Scopes -> [Counters -> SUBSET Member]], spent : [Counters -> Nat],
              back : Nat, plans : SUBSET DOMAIN Tiers]
       /\ g.windows = letIn.windows /\ g.plans = letIn.plans /\ g.back = letIn.back /\ g.spent = purse
  BY <1>4, <1>8, <1>9
<1>12. letIn' \in [windows : [Scopes -> [Counters -> SUBSET Member]], spent : [Counters -> Nat],
                   back : Nat, plans : SUBSET DOMAIN Tiers]
       /\ letIn'.windows = letIn.windows /\ letIn'.plans = letIn.plans
       /\ letIn'.back = letIn.back + turned /\ letIn'.spent = purse
  BY <1>3, <1>10, <1>11
<1> QED BY <1>6, <1>8, <1>12 DEF gift, turned

LEMMA NumberedRests ==
  ASSUME Numbered, now' = now, hits' = hits, spareHits' = spareHits, letIn'.windows = letIn.windows
  PROVE  Numbered'
<1>1. ASSUME NEW s \in Scopes, NEW c \in Counters
      PROVE  NumberedUntil(letIn'.windows[s][c], now)
  <2>1. letIn'.windows[s][c] = letIn.windows[s][c] OBVIOUS
  <2> QED BY <2>1 DEF Numbered
<1>2. \A s \in Scopes : \A h \in hits[s] :
        h.at <= now /\ (h.at = now => h \in letIn'.windows[s]["redis"])
  BY DEF Numbered
<1>3. \A p \in Processes : \A h \in spareHits[p] :
        h.at <= now /\ (h.at = now => h \in letIn'.windows["ip"][p])
  BY DEF Numbered
<1> QED BY <1>1, <1>2, <1>3 DEF Numbered

\* Once a bucket is asked, it is well typed and holds still what flowed in.
LEMMA AskedFlowed ==
  ASSUME LimitsTypeOK, NEW b \in Bucket \cup {NoBucket}, NEW p \in Processes, NEW cost \in Costs,
         NEW large \in Nat, NEW fast \in Nat, Bounded(large, fast), NEW spent \in Nat,
         NEW from \in Int, from <= ahead[p], NEW back \in Nat,
         Flowed(b, spent, large, fast, from, back)
  PROVE  Flowed(Poured(b, Tiers[Plan(p)], Clock(p), cost),
                spent + Given(b, Tiers[Plan(p)], Clock(p), cost), large, fast, from,
                back + TurnedBack(b, Clock(p)))
<1> USE LimitsAssumption
<1> DEFINE tier == Tiers[Plan(p)]
<1>1. tier.capacity \in Nat /\ tier.refill \in Nat BY PlanIsOne
<1>2. tier.capacity <= large /\ tier.refill <= fast BY PlanIsOne DEF Bounded
<1>3. Clock(p) \in Nat /\ cost \in Nat /\ Clock(p) = now + ahead[p] /\ ahead[p] \in Nat /\ now \in Nat
  BY ClockType DEF LimitsTypeOK
<1>4. from <= Clock(p) BY <1>3
<1> HIDE DEF tier
<1>5. Flowed(Poured(b, tier, Clock(p), cost), spent + Given(b, tier, Clock(p), cost), large, fast,
             from, back + TurnedBack(b, Clock(p)))
  BY <1>1, <1>2, <1>3, <1>4, PouredFlowed
<1> QED BY <1>5 DEF tier

LEMMA AskBucketHolds ==
  ASSUME LimitsInv, NEW p \in Processes, NEW cost \in Costs, AskBucket(p, cost)
  PROVE  LimitsInv'
<1> USE LimitsAssumption
<1> DEFINE tier == Tiers[Plan(p)]
           new == Poured(bucket, tier, Clock(p), cost)
           gift == Given(bucket, tier, Clock(p), cost)
           turned == TurnedBack(bucket, Clock(p))
<1>1. LimitsTypeOK /\ LogsFit /\ Numbered /\ RedisKeeps /\ ProcessKeeps /\ BucketFits /\ SparesFit
  BY DEF LimitsInv
<1>2. /\ now' = now /\ ahead' = ahead /\ hits' = hits /\ lapses' = lapses /\ spareHits' = spareHits
      /\ spare' = spare /\ plan' = plan /\ bucket' = new /\ Asked(bucket, "redis", p, cost)
  BY DEF AskBucket, Windows
<1>3. bucket \in Bucket \cup {NoBucket} /\ "redis" \in Counters BY <1>1 DEF LimitsTypeOK, Counters
<1>4. /\ letIn' \in [windows : [Scopes -> [Counters -> SUBSET Member]], spent : [Counters -> Nat],
                     back : Nat, plans : SUBSET DOMAIN Tiers]
      /\ tierOf' \in [Processes -> [plan : letIn.plans, until : Nat]]
      /\ letIn'.windows = letIn.windows /\ letIn'.plans = letIn.plans
      /\ letIn'.back = letIn.back + turned
      /\ letIn'.spent["redis"] = letIn.spent["redis"] + gift
      /\ \A c \in Counters : c # "redis" => letIn'.spent[c] = letIn.spent[c]
  BY <1>1, <1>2, <1>3, AskedIs
<1>5. new \in Bucket
  <2>1. tier.capacity \in Nat /\ tier.refill \in Nat BY <1>1, PlanIsOne
  <2>2. Clock(p) \in Nat /\ cost \in Nat BY <1>1, ClockType
  <2> HIDE DEF tier
  <2> QED BY <1>3, <2>1, <2>2, PouredType
<1>6. new.ts = now + ahead[p] BY DEF Poured, Clock
<1>7. letIn.spent["redis"] \in Nat /\ letIn.back \in Nat BY <1>1, <1>3 DEF LimitsTypeOK
<1>8. ASSUME NEW large \in Nat, NEW fast \in Nat, Bounded(large, fast), NEW from \in Int,
             \A q \in Processes : from <= ahead[q]
      PROVE  Flowed(new, letIn.spent["redis"] + gift, large, fast, from, letIn.back + turned)
  <2>1. Flowed(bucket, letIn.spent["redis"], large, fast, from, letIn.back)
    BY <1>1, <1>8 DEF BucketFits
  <2> QED BY <1>1, <1>3, <1>7, <1>8, <2>1, AskedFlowed
<1> HIDE DEF new, gift, turned
<1>9. LimitsTypeOK' BY <1>1, <1>2, <1>4, <1>5 DEF LimitsTypeOK
<1>10. LogsFit' BY <1>1, <1>2, <1>4 DEF LogsFit
<1>11. Numbered' BY <1>1, <1>2, <1>4, NumberedRests
<1>12. RedisKeeps' BY <1>1, <1>2, <1>4 DEF RedisKeeps, Agree
<1>13. ProcessKeeps' BY <1>1, <1>2, <1>4 DEF ProcessKeeps
<1>14. BucketFits'
  <2>1. new.ts <= now + ahead[p]
    <3>1. now + ahead[p] \in Nat BY <1>1, ClockType
    <3> QED BY <1>6, <3>1
  <2>2. ASSUME NEW large \in Nat, NEW fast \in Nat, Bounded(large, fast)', NEW from \in Int,
               \A q \in Processes : from <= ahead[q]
        PROVE  Flowed(new, letIn'.spent["redis"], large, fast, from, letIn'.back)
    <3>1. Bounded(large, fast) BY <1>4, <2>2 DEF Bounded
    <3> QED BY <1>4, <1>8, <2>2, <3>1
  <2> QED BY <1>2, <2>1, <2>2 DEF BucketFits, Flowed
<1>15. SparesFit'
  <2>1. \A q \in Processes : letIn'.spent[q] = letIn.spent[q] BY <1>4 DEF Counters
  <2> QED BY <1>1, <1>2, <1>4, <2>1 DEF SparesFit, Bounded, Flowed
<1> QED BY <1>9, <1>10, <1>11, <1>12, <1>13, <1>14, <1>15 DEF LimitsInv

LEMMA AskSpareBucketHolds ==
  ASSUME LimitsInv, NEW p \in Processes, NEW cost \in Costs, AskSpareBucket(p, cost)
  PROVE  LimitsInv'
<1> USE LimitsAssumption
<1> DEFINE tier == Tiers[Plan(p)]
           new == Poured(spare[p], tier, Clock(p), cost)
           gift == Given(spare[p], tier, Clock(p), cost)
           turned == TurnedBack(spare[p], Clock(p))
<1>1. LimitsTypeOK /\ LogsFit /\ Numbered /\ RedisKeeps /\ ProcessKeeps /\ BucketFits /\ SparesFit
  BY DEF LimitsInv
<1>2. /\ now' = now /\ ahead' = ahead /\ hits' = hits /\ lapses' = lapses /\ spareHits' = spareHits
      /\ bucket' = bucket /\ plan' = plan /\ spare' = [spare EXCEPT ![p] = new]
      /\ Asked(spare[p], p, p, cost)
  BY DEF AskSpareBucket, Windows
<1>3. /\ spare \in [Processes -> Bucket \cup {NoBucket}] /\ spare[p] \in Bucket \cup {NoBucket}
      /\ \A q \in Processes : q \in Counters /\ q # "redis"
      /\ "redis" \in Counters
  BY <1>1 DEF LimitsTypeOK, Counters
<1>4. /\ letIn' \in [windows : [Scopes -> [Counters -> SUBSET Member]], spent : [Counters -> Nat],
                     back : Nat, plans : SUBSET DOMAIN Tiers]
      /\ tierOf' \in [Processes -> [plan : letIn.plans, until : Nat]]
      /\ letIn'.windows = letIn.windows /\ letIn'.plans = letIn.plans
      /\ letIn'.back = letIn.back + turned
      /\ letIn'.spent[p] = letIn.spent[p] + gift
      /\ \A c \in Counters : c # p => letIn'.spent[c] = letIn.spent[c]
  BY <1>1, <1>2, <1>3, AskedIs
<1>5. new \in Bucket
  <2>1. tier.capacity \in Nat /\ tier.refill \in Nat BY <1>1, PlanIsOne
  <2>2. Clock(p) \in Nat /\ cost \in Nat BY <1>1, ClockType
  <2> HIDE DEF tier
  <2> QED BY <1>3, <2>1, <2>2, PouredType
<1>6. new.ts = now + ahead[p] BY DEF Poured, Clock
<1>7. letIn.spent[p] \in Nat /\ letIn.back \in Nat BY <1>1, <1>3 DEF LimitsTypeOK
\* A process's clock does not go back, so neither does its bucket.
<1>8. turned = 0
  <2>1. spare[p] # NoBucket => spare[p].ts <= now + ahead[p] BY <1>1 DEF SparesFit
  <2>2. spare[p] # NoBucket => spare[p].ts \in Nat BY <1>3 DEF Bucket
  <2>3. Clock(p) = now + ahead[p] /\ Clock(p) \in Nat BY <1>1, ClockType
  <2> QED BY <2>1, <2>2, <2>3 DEF TurnedBack
<1>9. ASSUME NEW large \in Nat, NEW fast \in Nat, Bounded(large, fast)
      PROVE  Flowed(new, letIn.spent[p] + gift, large, fast, ahead[p], 0)
  <2>1. Flowed(spare[p], letIn.spent[p], large, fast, ahead[p], 0) BY <1>1, <1>9 DEF SparesFit
  <2>2. ahead[p] \in Int /\ ahead[p] <= ahead[p] BY <1>1, ClockType
  <2>3. Flowed(new, letIn.spent[p] + gift, large, fast, ahead[p], 0 + turned)
    BY <1>1, <1>3, <1>7, <1>9, <2>1, <2>2, AskedFlowed
  <2> QED BY <1>8, <2>3
<1> HIDE DEF new, gift, turned
<1>10. /\ spare' \in [Processes -> Bucket \cup {NoBucket}] /\ spare'[p] = new
       /\ \A q \in Processes : q # p => spare'[q] = spare[q]
  BY <1>2, <1>3, <1>5
<1>11. letIn'.back = letIn.back BY <1>4, <1>7, <1>8
<1>12. LimitsTypeOK' BY <1>1, <1>2, <1>4, <1>10 DEF LimitsTypeOK
<1>13. LogsFit' BY <1>1, <1>2, <1>4 DEF LogsFit
<1>14. Numbered' BY <1>1, <1>2, <1>4, NumberedRests
<1>15. RedisKeeps' BY <1>1, <1>2, <1>4 DEF RedisKeeps, Agree
<1>16. ProcessKeeps' BY <1>1, <1>2, <1>4 DEF ProcessKeeps
<1>17. BucketFits'
  <2>1. letIn'.spent["redis"] = letIn.spent["redis"] BY <1>3, <1>4
  <2> QED BY <1>1, <1>2, <1>4, <1>11, <2>1 DEF BucketFits, Bounded, Flowed
<1>18. SparesFit'
  <2> SUFFICES ASSUME NEW q \in Processes
               PROVE  /\ spare'[q] # NoBucket => spare'[q].ts <= now + ahead[q]
                      /\ \A large, fast \in Nat : Bounded(large, fast) =>
                           Flowed(spare'[q], letIn'.spent[q], large, fast, ahead[q], 0)
    BY <1>2, <1>4 DEF SparesFit, Bounded, Flowed
  <2>1. CASE q = p
    <3>1. new.ts <= now + ahead[p]
      <4>1. now + ahead[p] \in Nat BY <1>1, ClockType
      <4> QED BY <1>6, <4>1
    <3> QED BY <1>4, <1>9, <1>10, <2>1, <3>1
  <2>2. CASE q # p BY <1>1, <1>3, <1>4, <1>10, <2>2 DEF SparesFit
  <2> QED BY <2>1, <2>2
<1> QED BY <1>12, <1>13, <1>14, <1>15, <1>16, <1>17, <1>18 DEF LimitsInv

LEMMA ChangePlanHolds ==
  ASSUME LimitsInv, NEW to \in DOMAIN Tiers, ChangePlan(to)
  PROVE  LimitsInv'
<1>1. LimitsTypeOK /\ LogsFit /\ Numbered /\ RedisKeeps /\ ProcessKeeps /\ BucketFits /\ SparesFit
  BY DEF LimitsInv
<1>2. /\ now' = now /\ ahead' = ahead /\ hits' = hits /\ lapses' = lapses /\ spareHits' = spareHits
      /\ spare' = spare /\ bucket' = bucket /\ tierOf' = tierOf /\ plan' = to
      /\ letIn' = [letIn EXCEPT !.plans = @ \cup {to}]
  BY DEF ChangePlan, Windows
<1>3. /\ letIn' \in [windows : [Scopes -> [Counters -> SUBSET Member]], spent : [Counters -> Nat],
                     back : Nat, plans : SUBSET DOMAIN Tiers]
      /\ letIn'.windows = letIn.windows /\ letIn'.spent = letIn.spent /\ letIn'.back = letIn.back
      /\ letIn'.plans = letIn.plans \cup {to}
  BY <1>1, <1>2 DEF LimitsTypeOK
<1>4. LimitsTypeOK' BY <1>1, <1>2, <1>3 DEF LimitsTypeOK
<1>5. LogsFit' BY <1>1, <1>2, <1>3 DEF LogsFit
<1>6. Numbered' BY <1>1, <1>2, <1>3, NumberedRests
<1>7. RedisKeeps' BY <1>1, <1>2, <1>3 DEF RedisKeeps, Agree
<1>8. ProcessKeeps' BY <1>1, <1>2, <1>3 DEF ProcessKeeps
\* What bounds the plans there are now did so before.
<1>9. \A large, fast \in Nat : Bounded(large, fast)' => Bounded(large, fast) BY <1>3 DEF Bounded
<1>10. BucketFits' BY <1>1, <1>2, <1>3, <1>9 DEF BucketFits, Flowed
<1>11. SparesFit' BY <1>1, <1>2, <1>3, <1>9 DEF SparesFit, Flowed
<1> QED BY <1>4, <1>5, <1>6, <1>7, <1>8, <1>10, <1>11 DEF LimitsInv

LEMMA PassesHolds ==
  ASSUME LimitsInv, Passes
  PROVE  LimitsInv'
<1> USE LimitsAssumption
<1>1. LimitsTypeOK /\ LogsFit /\ Numbered /\ RedisKeeps /\ ProcessKeeps /\ BucketFits /\ SparesFit
  BY DEF LimitsInv
<1>2. /\ now' = now + 1 /\ ahead' = ahead /\ hits' = hits /\ lapses' = lapses /\ spareHits' = spareHits
      /\ spare' = spare /\ bucket' = bucket /\ tierOf' = tierOf /\ plan' = plan /\ letIn' = letIn
  BY DEF Passes, Windows, Buckets
<1>3. now \in Nat BY <1>1 DEF LimitsTypeOK
<1>4. LimitsTypeOK' BY <1>1, <1>2 DEF LimitsTypeOK
<1>5. LogsFit' BY <1>1, <1>2 DEF LogsFit
<1>6. Numbered'
  <2>1. \A s \in Scopes, c \in Counters : \A h \in letIn.windows[s][c] : h.at \in Nat
    BY <1>1 DEF LimitsTypeOK, Member
  <2>2. \A s \in Scopes : \A h \in hits[s] : h.at \in Nat BY <1>1 DEF LimitsTypeOK, Member
  <2>3. \A p \in Processes : \A h \in spareHits[p] : h.at \in Nat BY <1>1 DEF LimitsTypeOK, Member
  <2>4. ASSUME NEW s \in Scopes, NEW c \in Counters PROVE NumberedUntil(letIn.windows[s][c], now + 1)
    <3> DEFINE past == letIn.windows[s][c]
    <3>1. NumberedUntil(past, now) /\ \A h \in past : h.at \in Nat BY <1>1, <2>1 DEF Numbered
    <3>2. ASSUME NEW h \in past PROVE h.at <= now + 1
      <4>1. h.at <= now /\ h.at \in Nat BY <3>1 DEF NumberedUntil
      <4> QED BY <1>3, <4>1
    <3> QED BY <3>1, <3>2 DEF NumberedUntil
  <2>5. \A s \in Scopes : \A h \in hits[s] : h.at <= now + 1 /\ h.at # now + 1
    BY <1>1, <1>3, <2>2 DEF Numbered
  <2>6. \A p \in Processes : \A h \in spareHits[p] : h.at <= now + 1 /\ h.at # now + 1
    BY <1>1, <1>3, <2>3 DEF Numbered
  <2> QED BY <1>2, <2>4, <2>5, <2>6 DEF Numbered
<1>7. RedisKeeps'
  <2> SUFFICES ASSUME NEW s \in Scopes, NEW h \in letIn.windows[s]["redis"]
               PROVE  /\ h.at + Window <= lapses[s]
                      /\ \E q \in Processes : h.score = h.at + ahead[q]
                      /\ \A d \in 0..Skew : Agree(d) /\ h.at > now' - (Window - d) => h \in hits[s]
    BY <1>2 DEF RedisKeeps, Agree
  <2>1. h \in Member BY <1>1 DEF LimitsTypeOK, Counters
  <2>2. h.at \in Nat BY <2>1 DEF Member
  <2>3. \A d \in 0..Skew : h.at > now' - (Window - d) => h.at > now - (Window - d)
    BY <1>2, <1>3, <2>2
  <2> QED BY <1>1, <2>3 DEF RedisKeeps
<1>8. ProcessKeeps'
  <2> SUFFICES ASSUME NEW p \in Processes, NEW h \in letIn.windows["ip"][p]
               PROVE  /\ h.score = h.at + ahead[p]
                      /\ h.at > now' - Window => h \in spareHits[p]
    BY <1>2 DEF ProcessKeeps
  <2>1. h \in Member BY <1>1 DEF LimitsTypeOK, Counters
  <2>2. h.at > now' - Window => h.at > now - Window BY <1>2, <1>3, <2>1 DEF Member
  <2> QED BY <1>1, <2>2 DEF ProcessKeeps
<1>9. \A q \in Processes : now + ahead[q] <= now + 1 + ahead[q] /\ ahead[q] \in Nat
  BY <1>1, <1>3, ClockType
<1>10. bucket # NoBucket => \E q \in Processes : bucket.ts <= now + 1 + ahead[q]
  <2> SUFFICES ASSUME bucket # NoBucket PROVE \E q \in Processes : bucket.ts <= now + 1 + ahead[q]
    OBVIOUS
  <2>1. PICK q \in Processes : bucket.ts <= now + ahead[q] BY <1>1 DEF BucketFits
  <2>2. bucket.ts \in Nat BY <1>1 DEF LimitsTypeOK, Bucket
  <2> QED BY <1>3, <1>9, <2>1, <2>2
<1>11. BucketFits' BY <1>1, <1>2, <1>10 DEF BucketFits, Bounded
<1>12. \A p \in Processes : spare[p] # NoBucket => spare[p].ts <= now + 1 + ahead[p]
  <2> SUFFICES ASSUME NEW p \in Processes, spare[p] # NoBucket PROVE spare[p].ts <= now + 1 + ahead[p]
    OBVIOUS
  <2>1. spare[p].ts <= now + ahead[p] BY <1>1 DEF SparesFit
  <2>2. spare[p].ts \in Nat BY <1>1 DEF LimitsTypeOK, Bucket
  <2> QED BY <1>3, <1>9, <2>1, <2>2
<1>13. SparesFit' BY <1>1, <1>2, <1>12 DEF SparesFit, Bounded
<1> QED BY <1>4, <1>5, <1>6, <1>7, <1>8, <1>11, <1>13 DEF LimitsInv

LEMMA LimitsRest ==
  ASSUME LimitsInv, UNCHANGED <<now, ahead, hits, lapses, spareHits, bucket, spare, plan, tierOf, letIn>>
  PROVE  LimitsInv'
<1>1. LimitsTypeOK' BY DEF LimitsInv, LimitsTypeOK
<1>2. LogsFit' BY DEF LimitsInv, LogsFit
<1>3. Numbered' BY DEF LimitsInv, Numbered
<1>4. RedisKeeps' BY DEF LimitsInv, RedisKeeps, Agree
<1>5. ProcessKeeps' BY DEF LimitsInv, ProcessKeeps
<1>6. BucketFits' BY DEF LimitsInv, BucketFits, Bounded
<1>7. SparesFit' BY DEF LimitsInv, SparesFit, Bounded
<1> QED BY <1>1, <1>2, <1>3, <1>4, <1>5, <1>6, <1>7 DEF LimitsInv

LEMMA LimitsInvHolds == LimitsSpec => []LimitsInv
<1>1. ASSUME LimitsInv, [LimitsNext]_limitVars PROVE LimitsInv'
  <2>1. CASE \E s \in Scopes, p \in Processes : AskWindow(s, p) BY <1>1, <2>1, AskWindowHolds
  <2>2. CASE \E s \in Scopes, p \in Processes : AskSpareWindow(s, p)
    BY <1>1, <2>2, AskSpareWindowHolds
  <2>3. CASE \E p \in Processes, cost \in Costs : AskBucket(p, cost) BY <1>1, <2>3, AskBucketHolds
  <2>4. CASE \E p \in Processes, cost \in Costs : AskSpareBucket(p, cost)
    BY <1>1, <2>4, AskSpareBucketHolds
  <2>5. CASE \E to \in DOMAIN Tiers : ChangePlan(to) BY <1>1, <2>5, ChangePlanHolds
  <2>6. CASE Passes BY <1>1, <2>6, PassesHolds
  <2>7. CASE Outage \/ UNCHANGED limitVars
    BY <1>1, <2>7, LimitsRest DEF Outage, limitVars, Windows, Buckets
  <2> QED BY <1>1, <2>1, <2>2, <2>3, <2>4, <2>5, <2>6, <2>7 DEF LimitsNext, AskWindows, AskBuckets
<1> QED BY LimitsInitHolds, <1>1, PTL DEF LimitsSpec

-----------------------------------------------------------------------------

LEMMA WindowsFollow ==
  ASSUME LimitsInv
  PROVE  WindowsHold
<1> USE LimitsAssumption
<1>1. LimitsTypeOK /\ LogsFit /\ RedisKeeps /\ ProcessKeeps BY DEF LimitsInv
<1>2. ASSUME NEW s \in Scopes, NEW d \in 0..Skew, Agree(d)
      PROVE  Recent(s, "redis", Window - d) <= WindowLimit[s]
  <2> DEFINE recent == {h \in letIn.windows[s]["redis"] : h.at > now - (Window - d)}
  <2>1. recent \subseteq hits[s] BY <1>1, <1>2 DEF RedisKeeps
  <2>2. IsFiniteSet(hits[s]) /\ Cardinality(hits[s]) <= WindowLimit[s] BY <1>1 DEF LogsFit
  <2>3. Cardinality(recent) <= Cardinality(hits[s]) /\ Cardinality(recent) \in Nat
        /\ Cardinality(hits[s]) \in Nat
    BY <2>1, <2>2, FS_Subset, FS_CardinalityType
  <2>4. Cardinality(recent) <= WindowLimit[s] BY <2>2, <2>3
  <2> QED BY <2>4 DEF Recent
<1>3. ASSUME NEW p \in Processes PROVE Recent("ip", p, Window) <= WindowLimit["ip"]
  <2> DEFINE recent == {h \in letIn.windows["ip"][p] : h.at > now - Window}
  <2>1. recent \subseteq spareHits[p] BY <1>1 DEF ProcessKeeps
  <2>2. IsFiniteSet(spareHits[p]) /\ Cardinality(spareHits[p]) <= WindowLimit["ip"]
    BY <1>1 DEF LogsFit
  <2>3. Cardinality(recent) <= Cardinality(spareHits[p]) /\ Cardinality(recent) \in Nat
        /\ Cardinality(spareHits[p]) \in Nat
    BY <2>1, <2>2, FS_Subset, FS_CardinalityType
  <2>4. Cardinality(recent) <= WindowLimit["ip"] BY <2>2, <2>3
  <2> QED BY <2>4 DEF Recent
<1>4. ASSUME NEW p \in Processes PROVE Recent("auth", p, Window) <= 0
  <2> DEFINE recent == {h \in letIn.windows["auth"][p] : h.at > now - Window}
  <2>1. recent = {} BY <1>1 DEF LogsFit
  <2>2. Cardinality(recent) = 0 BY <2>1, FS_EmptySet
  <2> QED BY <2>2 DEF Recent
<1> QED BY <1>2, <1>3, <1>4 DEF WindowsHold

LEMMA BucketsFollow ==
  ASSUME LimitsInv
  PROVE  BucketsHold
<1> USE LimitsAssumption
<1>1. LimitsTypeOK /\ BucketFits /\ SparesFit BY DEF LimitsInv
<1> SUFFICES ASSUME NEW l \in letIn.plans, NEW f \in letIn.plans, Largest(l, f)
             PROVE  /\ \A p \in Processes :
                         letIn.spent[p] <= Tiers[l].capacity + Tiers[f].refill * now
                    /\ \A d \in 0..Skew : Agree(d) =>
                         letIn.spent["redis"]
                           <= Tiers[l].capacity + Tiers[f].refill * (now + d + letIn.back)
  BY DEF BucketsHold
<1>2. l \in DOMAIN Tiers /\ f \in DOMAIN Tiers BY <1>1 DEF LimitsTypeOK
<1>3. PICK large \in Nat : large = Tiers[l].capacity BY <1>2
<1>4. PICK fast \in Nat : fast = Tiers[f].refill BY <1>2
<1>5. Bounded(large, fast) BY <1>3, <1>4 DEF Largest, Bounded
<1>6. now \in Nat /\ letIn.back \in Nat /\ \A c \in Counters : letIn.spent[c] \in Nat
  BY <1>1 DEF LimitsTypeOK
<1>7. ASSUME NEW p \in Processes PROVE letIn.spent[p] <= large + fast * now
  <2>1. letIn.spent[p] \in Nat BY <1>6 DEF Counters
  <2>2. Flowed(spare[p], letIn.spent[p], large, fast, ahead[p], 0) BY <1>1, <1>5 DEF SparesFit
  <2>3. CASE spare[p] = NoBucket
    <3>1. fast * 0 <= fast * now BY <1>6, TimesMonotone
    <3>2. fast * 0 = 0 /\ fast * now \in Int BY <1>6
    <3>3. letIn.spent[p] = 0 BY <2>2, <2>3 DEF Flowed
    <3> QED BY <3>1, <3>2, <3>3
  <2>4. CASE spare[p] # NoBucket
    <3>1. spare[p].tokens \in Nat /\ spare[p].ts \in Nat BY <1>1, <2>4 DEF LimitsTypeOK, Bucket
    <3>2. spare[p].ts <= now + ahead[p] /\ ahead[p] \in Nat BY <1>1, <2>4, ClockType DEF SparesFit
    <3>3. PICK flow \in Int : flow = spare[p].ts - ahead[p] + 0 BY <3>1, <3>2
    <3>4. letIn.spent[p] + spare[p].tokens <= large + fast * flow BY <2>2, <2>4, <3>3 DEF Flowed
    <3>5. flow <= now BY <1>6, <3>1, <3>2, <3>3
    <3>6. fast * flow <= fast * now BY <1>6, <3>5, TimesMonotone
    <3>7. fast * flow \in Int /\ fast * now \in Int BY <1>6
    <3> QED BY <2>1, <3>1, <3>4, <3>6, <3>7
  <2> QED BY <2>3, <2>4
<1>8. ASSUME NEW d \in 0..Skew, Agree(d)
      PROVE  letIn.spent["redis"] <= large + fast * (now + d + letIn.back)
  <2>1. letIn.spent["redis"] \in Nat /\ d \in Nat BY <1>6 DEF Counters
  <2>2. PICK all \in Nat : all = now + d + letIn.back BY <1>6, <2>1
  <2>3. CASE bucket = NoBucket
    <3>1. letIn.spent["redis"] = 0
      <4>1. 0 \in Int /\ \A p \in Processes : 0 <= ahead[p] BY <1>1, ClockType
      <4>2. Flowed(bucket, letIn.spent["redis"], large, fast, 0, letIn.back)
        BY <1>1, <1>5, <4>1 DEF BucketFits
      <4> QED BY <2>3, <4>2 DEF Flowed
    <3>2. fast * 0 <= fast * all BY TimesMonotone
    <3> QED BY <2>2, <3>1, <3>2
  <2>4. CASE bucket # NoBucket
    <3>1. bucket.tokens \in Nat /\ bucket.ts \in Nat BY <1>1, <2>4 DEF LimitsTypeOK, Bucket
    <3>2. PICK q \in Processes : bucket.ts <= now + ahead[q] BY <1>1, <2>4 DEF BucketFits
    <3>3. ahead[q] \in Nat BY <1>1, ClockType
    <3>4. PICK from \in Int : from = ahead[q] - d BY <2>1, <3>3
    <3>5. \A p \in Processes : from <= ahead[p]
      <4> TAKE p \in Processes
      <4>1. ahead[q] - ahead[p] <= d BY <1>8 DEF Agree
      <4>2. ahead[p] \in Nat BY <1>1, ClockType
      <4> QED BY <2>1, <3>3, <3>4, <4>1, <4>2
    <3>6. Flowed(bucket, letIn.spent["redis"], large, fast, from, letIn.back)
      BY <1>1, <1>5, <3>5 DEF BucketFits
    <3>7. PICK flow \in Int : flow = bucket.ts - from + letIn.back BY <1>6, <3>1
    <3>8. letIn.spent["redis"] + bucket.tokens <= large + fast * flow BY <2>4, <3>6, <3>7 DEF Flowed
    <3>9. flow <= all BY <1>6, <2>1, <2>2, <3>1, <3>2, <3>3, <3>4, <3>7
    <3>10. fast * flow <= fast * all BY <3>9, TimesMonotone
    <3>11. fast * flow \in Int /\ fast * all \in Int OBVIOUS
    <3> QED BY <2>1, <2>2, <3>1, <3>8, <3>10, <3>11
  <2> QED BY <2>3, <2>4
<1> QED BY <1>3, <1>4, <1>7, <1>8

\* Windows and buckets hold up to what clocks disagree by (LimitsHold): whatever the
\* processes, their clocks, the limits, the plans and what routes cost, and however
\* often Redis fails.  A log that is cut by any clock keeps whom it let in within a
\* window less the disagreement; and what a bucket gave out and still holds never
\* exceeds what flowed in, each stretch of time counted again that it was turned back.
THEOREM LimitsHoldAlways == LimitsSpec => []LimitsHold
<1>1. LimitsInv => LimitsHold BY WindowsFollow, BucketsFollow DEF LimitsHold
<1> QED BY <1>1, LimitsInvHolds, PTL
=============================================================================
