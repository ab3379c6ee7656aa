------------------------------- MODULE Limits -------------------------------
(***************************************************************************)
(* How many requests are let in (middleware/rateLimit.ts over              *)
(* ratelimit/store.ts): a sliding window per address for every route, a    *)
(* narrower one for logins and resets, and a token bucket per user, whose  *)
(* size follows the organisation's plan.  They are kept in Redis by two    *)
(* scripts, each of which is one step; but the time they are given is the  *)
(* clock of the process that asks.  While Redis fails each process counts  *)
(* by itself, except that nobody may log in.                               *)
(*                                                                         *)
(* One address and one user.  Time is in whole units, and a process's      *)
(* clock is ahead of Redis's by a constant.                                *)
(***************************************************************************)
EXTENDS Integers, FiniteSets

CONSTANTS
  Processes,
  WindowLimit, \* requests let in within a window, by scope
  Window,      \* and its length
  Skew,        \* bound: how far a clock is ahead
  Tiers,       \* plan to size and refill of the bucket
  Costs,       \* what routes cost
  TierLife,    \* for how long a process remembers a plan
  MaxTime,     \* bound on time
  MaxBack,     \* bound on how far, in all, buckets were turned back
  MaxOutages   \* bound on failures of Redis

Scopes == DOMAIN WindowLimit

ASSUME LimitsAssumption ==
  /\ Scopes = {"ip", "auth"} /\ \A s \in Scopes : WindowLimit[s] \in Nat \ {0}
  /\ "redis" \notin Processes
  /\ Window \in Nat \ {0} /\ Skew \in Nat /\ TierLife \in Nat
  /\ \A plan \in DOMAIN Tiers : Tiers[plan].capacity \in Nat /\ Tiers[plan].refill \in Nat
  /\ Costs \subseteq Nat \ {0} /\ MaxTime \in Nat /\ MaxBack \in Nat /\ MaxOutages \in Nat

VARIABLES
  now,      \* the time
  ahead,    \* how far each process's clock is ahead
  redisUp, outages, \* whether Redis answers, and how often it stopped
  hits,     \* Redis: a scope's sorted set, of members with their scores
  lapses,   \* Redis: when a scope's key expires
  spareHits,\* the fallback window of each process
  bucket,   \* Redis: the user's bucket
  spare,    \* the fallback bucket of each process
  plan,     \* the organisation's
  tierOf,   \* the plan each process remembers, and until when
  letIn     \* (history) admissions by scope and by who counted them; what the bucket
            \* gave out, how far it was turned back, and the plans there were

limitVars == <<now, ahead, redisUp, outages, hits, lapses, spareHits, bucket, spare, plan, tierOf, letIn>>

Counters == Processes \cup {"redis"}

Clock(p) == now + ahead[p]

\* What is left of a log when what is a window old is removed.
Within(log, t) == {h \in log : h.score > t - Window}

\* What it adds: scored by the asker's clock, and unlike every other member, for it
\* is told apart from those of the same instant.
Hit(s, who, p) ==
  [at |-> now, score |-> Clock(p), nth |-> Cardinality({h \in letIn.windows[s][who] : h.at = now})]

\* The history goes back one window.
Admitted(s, who, hit) ==
  [letIn EXCEPT !.windows[s][who] = {h \in @ : h.at > now - Window} \cup {hit}]

\* SLIDING_LUA.  The key itself expires a window after it was last added to.
Slide(s, p) ==
  LET log == IF now >= lapses[s] THEN {} ELSE Within(hits[s], Clock(p))
      hit == Hit(s, "redis", p)
  IN IF Cardinality(log) >= WindowLimit[s]
     THEN hits' = [hits EXCEPT ![s] = log] /\ UNCHANGED <<lapses, letIn>>
     ELSE /\ hits' = [hits EXCEPT ![s] = log \cup {hit}]
          /\ lapses' = [lapses EXCEPT ![s] = now + Window]
          /\ letIn' = Admitted(s, "redis", hit)

\* MemoryStore.slidingWindow, by which a process counts for itself.
SlideSpare(s, p) ==
  LET log == Within(spareHits[p], Clock(p))
      hit == Hit(s, p, p)
  IN IF Cardinality(log) >= WindowLimit[s]
     THEN spareHits' = [spareHits EXCEPT ![p] = log] /\ UNCHANGED letIn
     ELSE /\ spareHits' = [spareHits EXCEPT ![p] = log \cup {hit}]
          /\ letIn' = Admitted(s, p, hit)

Windows == <<hits, lapses, spareHits>>
Buckets == <<bucket, spare, plan, tierOf>>

AskWindow(s, p) ==
  /\ redisUp
  /\ Slide(s, p)
  /\ UNCHANGED <<now, ahead, redisUp, outages, spareHits, Buckets>>

\* Mutant: a login, too, is counted by the process while Redis fails.
AskAnySpare(s, p) ==
  /\ ~redisUp
  /\ SlideSpare(s, p)
  /\ UNCHANGED <<now, ahead, redisUp, outages, hits, lapses, Buckets>>

\* globalRateLimit fails open and authRateLimit closed.
AskSpareWindow(s, p) ==
  /\ ~redisUp /\ s # "auth"
  /\ SlideSpare(s, p)
  /\ UNCHANGED <<now, ahead, redisUp, outages, hits, lapses, Buckets>>

-----------------------------------------------------------------------------
(* The bucket *)

\* tierFor: the plan a process goes by.
Plan(p) == IF tierOf[p].until > Clock(p) THEN tierOf[p].plan ELSE plan

\* tokens, and by whose clock; a bucket that is not there is a full one.
NoBucket == [tokens |-> -1, ts |-> 0]

Refilled(b, tier, t) ==
  IF b = NoBucket THEN tier.capacity
  ELSE LET grown == b.tokens + (IF t > b.ts THEN t - b.ts ELSE 0) * tier.refill
       IN IF grown > tier.capacity THEN tier.capacity ELSE grown

\* BUCKET_LUA and MemoryStore.tokenBucket: the bucket is stamped with the asker's
\* time, be it an earlier one, and whether it had enough or not.
Poured(b, tier, t, cost) ==
  LET tokens == Refilled(b, tier, t)
  IN [tokens |-> IF tokens < cost THEN tokens ELSE tokens - cost, ts |-> t]

Given(b, tier, t, cost) == IF Refilled(b, tier, t) < cost THEN 0 ELSE cost

TurnedBack(b, t) == IF b # NoBucket /\ t < b.ts THEN b.ts - t ELSE 0

\* The answer of b, kept by who, to process p.
Asked(b, who, p, cost) ==
  LET tier == Tiers[Plan(p)] IN
  /\ tierOf' = IF tierOf[p].until > Clock(p) THEN tierOf
               ELSE [tierOf EXCEPT ![p] = [plan |-> plan, until |-> Clock(p) + TierLife]]
  /\ letIn' = [letIn EXCEPT !.spent[who] = @ + Given(b, tier, Clock(p), cost),
                            !.back = @ + TurnedBack(b, Clock(p))]

\* userRateLimit(cost)
AskBucket(p, cost) ==
  /\ redisUp
  /\ letIn.back + TurnedBack(bucket, Clock(p)) <= MaxBack
  /\ Asked(bucket, "redis", p, cost)
  /\ bucket' = Poured(bucket, Tiers[Plan(p)], Clock(p), cost)
  /\ UNCHANGED <<now, ahead, redisUp, outages, Windows, spare, plan>>

AskSpareBucket(p, cost) ==
  /\ ~redisUp
  /\ Asked(spare[p], p, p, cost)
  /\ spare' = [spare EXCEPT ![p] = Poured(@, Tiers[Plan(p)], Clock(p), cost)]
  /\ UNCHANGED <<now, ahead, redisUp, outages, Windows, bucket, plan>>

\* Bound: no plan comes back.
ChangePlan(to) ==
  /\ to \notin letIn.plans
  /\ plan' = to /\ letIn' = [letIn EXCEPT !.plans = @ \cup {to}]
  /\ UNCHANGED <<now, ahead, redisUp, outages, Windows, bucket, spare, tierOf>>

-----------------------------------------------------------------------------

Passes ==
  /\ now < MaxTime
  /\ now' = now + 1
  /\ UNCHANGED <<ahead, redisUp, outages, Windows, Buckets, letIn>>

\* Redis keeps what it has when it comes back.
Outage ==
  /\ redisUp => outages < MaxOutages
  /\ redisUp' = ~redisUp
  /\ outages' = IF redisUp THEN outages + 1 ELSE outages
  /\ UNCHANGED <<now, ahead, Windows, Buckets, letIn>>

LimitsInit ==
  /\ now = 0 /\ redisUp = TRUE /\ outages = 0
  /\ ahead \in [Processes -> 0..Skew]
  /\ hits = [s \in Scopes |-> {}] /\ lapses = [s \in Scopes |-> 0]
  /\ spareHits = [p \in Processes |-> {}]
  /\ bucket = NoBucket /\ spare = [p \in Processes |-> NoBucket]
  /\ plan \in DOMAIN Tiers
  /\ tierOf = [p \in Processes |-> [plan |-> plan, until |-> 0]]
  /\ letIn = [windows |-> [s \in Scopes |-> [c \in Counters |-> {}]],
              spent |-> [c \in Counters |-> 0], back |-> 0, plans |-> {plan}]

AskWindows == \E s \in Scopes, p \in Processes : AskWindow(s, p) \/ AskSpareWindow(s, p)
AskBuckets == \E p \in Processes, cost \in Costs : AskBucket(p, cost) \/ AskSpareBucket(p, cost)

LimitsNext ==
  \/ AskWindows \/ AskBuckets
  \/ \E to \in DOMAIN Tiers : ChangePlan(to)
  \/ Passes \/ Outage

LimitsSpec == LimitsInit /\ [][LimitsNext]_limitVars

-----------------------------------------------------------------------------
(* Properties *)

\* No clock is ahead of another by more than d.
Agree(d) == \A p, q \in Processes : ahead[p] - ahead[q] <= d

\* How often a counter let requests in during the last d units.
Recent(s, who, d) == Cardinality({h \in letIn.windows[s][who] : h.at > now - d})

\* Whatever processes ask, with clocks that disagree, no stretch of time shorter
\* than a window by that disagreement lets in more than the limit; a process that
\* counts by itself while Redis fails adds at most a limit of its own, and for logins
\* nobody adds anything.
WindowsHold ==
  \A s \in Scopes :
    /\ \A d \in 0..Skew : Agree(d) => Recent(s, "redis", Window - d) <= WindowLimit[s]
    /\ \A p \in Processes : Recent(s, p, Window) <= IF s = "auth" THEN 0 ELSE WindowLimit[s]

\* No plan there was holds more than large does, or refills faster than fast.
Largest(large, fast) ==
  \A x \in letIn.plans : Tiers[x].capacity <= Tiers[large].capacity
                        /\ Tiers[x].refill <= Tiers[fast].refill

\* A user is given what the bucket holds and what flows in with time, by the largest
\* plan there was - and again by how far the bucket was turned back, which is each
\* time a process whose clock is behind asks after one whose clock is ahead.
BucketsHold ==
  \A large, fast \in letIn.plans : Largest(large, fast) =>
    /\ \A p \in Processes :
         letIn.spent[p] <= Tiers[large].capacity + Tiers[fast].refill * now
    /\ \A d \in 0..Skew : Agree(d) =>
         letIn.spent["redis"] <= Tiers[large].capacity + Tiers[fast].refill * (now + d + letIn.back)

\* The two limits: an address is let in a window at a time, a user a bucket at a time.
LimitsHold == WindowsHold /\ BucketsHold
=============================================================================
