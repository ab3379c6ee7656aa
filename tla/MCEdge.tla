------------------------------- MODULE MCEdge -------------------------------
(* Instances of Idempotency, Limits and Browser for TLC: what stands between *)
(* a person and a handler.  They share nothing, so one behaviour runs one of *)
(* them, and of Limits either the windows or the buckets.                    *)
EXTENDS Idempotency, Limits, Browser

CONSTANTS a1, a2, a3, k1, pay, payMore, p1, p2, ann, op, c1, c2

VARIABLE which

MCWindowLimit == [s \in {"ip", "auth"} |-> IF s = "ip" THEN 2 ELSE 1]

MCTiers == [free |-> [capacity |-> 2, refill |-> 1], pro |-> [capacity |-> 3, refill |-> 2]]

MCOf == [u \in {ann, op} |-> IF u = ann THEN {c1, c2} ELSE {}]

\* The parts that rest have one initial state, and of two clocks only the
\* difference matters.
EdgeInit ==
  /\ Init /\ LimitsInit /\ BrowserInit
  /\ which \in {"keys", "windows", "buckets", "tab"}
  /\ ahead[p1] = 0
  /\ which # "buckets" => plan = "free"
  /\ which \notin {"windows", "buckets"} => ahead[p2] = 0
  /\ which # "tab" => cookie = Nobody /\ saved = Nobody

EdgeNext ==
  /\ UNCHANGED which
  /\ \/ which = "keys" /\ Next /\ UNCHANGED <<limitVars, browserVars>>
     \/ which = "tab" /\ BrowserNext /\ UNCHANGED <<vars, limitVars>>
     \/ /\ UNCHANGED <<vars, browserVars>>
        /\ \/ which = "windows" /\ AskWindows
           \/ which = "buckets" /\ AskBuckets
           \/ which = "buckets" /\ \E to \in DOMAIN Tiers : ChangePlan(to)
           \/ which = "windows" /\ Passes
           \/ which = "buckets" /\ now < MaxTime - 1 /\ Passes
           \/ which \in {"windows", "buckets"} /\ Outage

edgeVars == <<vars, limitVars, browserVars, which>>

\* The fairness of Idempotency's Spec.
EdgeSpec ==
  /\ EdgeInit /\ [][EdgeNext]_edgeVars
  /\ \A a \in Attempts : WF_edgeVars(which = "keys" /\ Serve(a) /\ UNCHANGED <<limitVars, browserVars, which>>)
  /\ \A k \in Keys : WF_edgeVars(which = "keys" /\ Expire(k) /\ UNCHANGED <<limitVars, browserVars, which>>)
=============================================================================
