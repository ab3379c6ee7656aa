------------------------------ MODULE Platform ------------------------------
(***************************************************************************)
(* Organisations and those who run the platform: the creation of companies *)
(* (services/companyService.ts), subscriptions and their webhooks          *)
(* (admin/subscriptionService.ts), operators and impersonation             *)
(* (admin/adminService.ts).  None of these handlers uses a transaction:    *)
(* every await is a step, and a process may die between two.               *)
(***************************************************************************)
EXTENDS Naturals, Sequences, FiniteSets

CONSTANTS
  Users, Customers,      \* people; those who make or join companies
  FirstOperators,        \* the operators the grant script made
  Requests,              \* requests that may run at once
  Plans, Free, Limit,    \* plans, the one to begin with, companies each allows
  MaxStarts,             \* bound: requests begun
  MaxCrashes,            \* bound: processes that die
  MaxActs                \* bound: requests made as somebody else

ASSUME PlatformAssumption ==
  /\ IsFiniteSet(Users) /\ FirstOperators \subseteq Users /\ Customers \subseteq Users
  /\ FirstOperators # {} /\ "nobody" \notin Requests
  /\ Free \in Plans /\ Limit \in [Plans -> Nat \ {0}]
  /\ MaxStarts \in Nat /\ MaxCrashes \in Nat /\ MaxActs \in Nat

VARIABLES
  operators, disabled, \* users with the flag superAdmin; with a disabledAt
  members,             \* users with a membership of some company
  orgs, companies,     \* organisations and companies, in the order of creation
  sub,                 \* the subscription document of each organisation
  razorpay,            \* the subscriptions Razorpay knows
  session, trail,      \* an impersonation session; what the audit says of it
  request,             \* what each request is doing
  history              \* for bounds and properties alone

vars == <<operators, disabled, members, orgs, companies, sub, razorpay, session, trail,
          request, history>>
people  == <<operators, disabled, members>>
tenants == <<orgs, companies>>
billing == <<sub, razorpay>>
tracing == <<session, trail>>

Nobody == "nobody"
Idle   == [at |-> "rest", by |-> Nobody, whom |-> Nobody, org |-> 0, plan |-> Free, ref |-> 0,
           overtaken |-> FALSE]
NoSub  == [plan |-> Free, status |-> "active", ref |-> 0]

At(r, place) == request[r].at = place
Go(r, place) == request' = [request EXCEPT ![r].at = place]
Done(r)      == request' = [request EXCEPT ![r] = Idle]

\* Requests that wait in one of these places no longer hold what they read.
Overtaking(r, places, next) ==
  [x \in Requests |->
     IF x = r THEN next
     ELSE IF request[x].at \in places THEN [request[x] EXCEPT !.overtaken = TRUE]
     ELSE request[x]]

Begin(r, req) ==
  /\ At(r, "rest") /\ history.starts < MaxStarts
  /\ request' = [request EXCEPT ![r] = req]
  /\ history' = [history EXCEPT !.starts = @ + 1]

OrgsOf(u)      == {o \in 1..Len(orgs) : orgs[o].owner = u}
CompaniesOf(o) == {c \in 1..Len(companies) : companies[c].org = o}

-----------------------------------------------------------------------------
(* A company *)

\* companyService.create: the user's organisation, the first if there are two.
CompanyBegin(r) ==
  /\ \E u \in Customers :
       \/ /\ OrgsOf(u) = {}
          /\ Begin(r, [Idle EXCEPT !.at = "found", !.by = u])
       \/ \E o \in OrgsOf(u) :
            /\ \A p \in OrgsOf(u) : o <= p
            /\ Begin(r, [Idle EXCEPT !.at = "count", !.by = u, !.org = o, !.plan = orgs[o].plan])
  /\ UNCHANGED <<people, tenants, billing, tracing>>

\* None was found: one is made, on the free plan.
OrgFound(r) ==
  /\ At(r, "found")
  /\ orgs' = Append(orgs, [owner |-> request[r].by, plan |-> Free])
  /\ sub' = Append(sub, NoSub)
  /\ request' = [request EXCEPT ![r].at = "count", ![r].org = Len(orgs) + 1]
  /\ UNCHANGED <<people, companies, razorpay, tracing, history>>

\* The organisation's companies are counted against the limits it was read with.
CompanyCount(r) ==
  /\ At(r, "count")
  /\ IF Cardinality(CompaniesOf(request[r].org)) < Limit[request[r].plan]
     THEN Go(r, "company") ELSE Done(r)
  /\ UNCHANGED <<people, tenants, billing, tracing, history>>

CompanyNew(r) ==
  /\ At(r, "company")
  /\ companies' = Append(companies, [org |-> request[r].org, owned |-> FALSE, chart |-> FALSE])
  /\ request' = [request EXCEPT ![r].at = "member", ![r].ref = Len(companies) + 1]
  /\ UNCHANGED <<people, orgs, billing, tracing, history>>

\* Mutant: the company is made a member's only when its chart is there.
CompanyMemberLast(r) ==
  /\ At(r, "member")
  /\ Go(r, "chart")
  /\ UNCHANGED <<people, tenants, billing, tracing, history>>

\* The owner's membership.
CompanyMember(r) ==
  /\ At(r, "member")
  /\ companies' = [companies EXCEPT ![request[r].ref].owned = TRUE]
  /\ members' = members \cup {request[r].by}
  /\ request' = Overtaking(r, {"promote"}, [request[r] EXCEPT !.at = "chart"])
  /\ UNCHANGED <<operators, disabled, orgs, billing, tracing, history>>

\* The chart of accounts.
CompanyChart(r) ==
  /\ At(r, "chart")
  /\ companies' = [companies EXCEPT ![request[r].ref].chart = TRUE]
  /\ Done(r)
  /\ UNCHANGED <<people, orgs, billing, tracing, history>>

\* A user accepts an invitation to somebody else's company.
Join(u) ==
  /\ u \notin members
  /\ members' = members \cup {u}
  /\ request' = Overtaking(Nobody, {"promote"}, Idle)
  /\ UNCHANGED <<operators, disabled, tenants, billing, tracing, history>>

-----------------------------------------------------------------------------
(* Subscriptions *)

\* subscribe, by the owner: Razorpay makes the subscription ...
Subscribe(r) ==
  /\ \E o \in 1..Len(orgs), p \in Plans \ {Free} :
       /\ Begin(r, [Idle EXCEPT !.at = "link", !.org = o, !.plan = p, !.ref = Len(razorpay) + 1])
       /\ razorpay' = Append(razorpay, [org |-> o, plan |-> p, paid |-> FALSE])
  /\ UNCHANGED <<people, tenants, sub, tracing>>

\* Mutant: the status stays what it was.
SubscribeLinkKept(r) ==
  /\ At(r, "link")
  /\ LET q == request[r]
     IN sub' = [sub EXCEPT ![q.org].plan = q.plan, ![q.org].ref = q.ref]
  /\ request' = Overtaking(r, {"active", "copy"}, Idle)
  /\ history' = [history EXCEPT !.begun = @ \cup {request[r].ref}]
  /\ UNCHANGED <<people, tenants, razorpay, tracing>>

\* ... and the organisation's only document is made to refer to it.
SubscribeLink(r) ==
  /\ At(r, "link")
  /\ LET q == request[r]
     IN sub' = [sub EXCEPT ![q.org] = [plan |-> q.plan, status |-> "created", ref |-> q.ref]]
  /\ request' = Overtaking(r, {"active", "copy"}, Idle)
  /\ history' = [history EXCEPT !.begun = @ \cup {request[r].ref}]
  /\ UNCHANGED <<people, tenants, razorpay, tracing>>

\* The customer completes the checkout.
Pay(s) ==
  /\ ~razorpay[s].paid
  /\ razorpay' = [razorpay EXCEPT ![s].paid = TRUE]
  /\ UNCHANGED <<people, tenants, sub, tracing, request, history>>

\* Mutant: a subscription found active has been dealt with.
WebhookFindOnce(r) ==
  /\ At(r, "rest")
  /\ \E s \in 1..Len(razorpay), o \in 1..Len(orgs) :
       /\ razorpay[s].paid /\ sub[o].ref = s /\ sub[o].status # "active"
       /\ request' = [request EXCEPT ![r] = [Idle EXCEPT !.at = "active", !.org = o,
                                                         !.plan = sub[o].plan, !.ref = s]]
  /\ UNCHANGED <<people, tenants, billing, tracing, history>>

\* activateFromWebhook, once per delivery: until one is answered, and then again.
\* The document that refers to the subscription; if none does any more, 404.
WebhookFind(r) ==
  /\ At(r, "rest")
  /\ \E s \in 1..Len(razorpay), o \in 1..Len(orgs) :
       /\ razorpay[s].paid /\ sub[o].ref = s
       /\ \/ s \notin history.granted /\ UNCHANGED history
          \/ /\ s \in history.granted /\ history.starts < MaxStarts
             /\ history' = [history EXCEPT !.starts = @ + 1]
       /\ request' = [request EXCEPT ![r] = [Idle EXCEPT !.at = "active", !.org = o,
                                                         !.plan = sub[o].plan, !.ref = s]]
  /\ UNCHANGED <<people, tenants, billing, tracing>>

\* Its status, by _id, whatever it has come to refer to since ...
WebhookActive(r) ==
  /\ At(r, "active")
  /\ sub' = [sub EXCEPT ![request[r].org].status = "active"]
  /\ Go(r, "copy")
  /\ history' = [history EXCEPT
       !.excused = IF request[r].overtaken THEN @ \cup {request[r].org} ELSE @]
  /\ UNCHANGED <<people, tenants, razorpay, tracing>>

\* ... and the organisation gets the plan, as it was found, and its limits.
WebhookCopy(r) ==
  /\ At(r, "copy")
  /\ orgs' = [orgs EXCEPT ![request[r].org].plan = request[r].plan]
  /\ Done(r)
  /\ history' = [history EXCEPT !.granted = @ \cup {request[r].ref}]
  /\ UNCHANGED <<people, companies, billing, tracing>>

\* setPlan, by an operator: the organisation ...
SetPlan(r) ==
  /\ \E u \in operators, o \in 1..Len(orgs), p \in Plans :
       /\ Begin(r, [Idle EXCEPT !.at = "plan", !.by = u, !.org = o, !.plan = p])
       /\ orgs' = [orgs EXCEPT ![o].plan = p]
  /\ UNCHANGED <<people, companies, billing, tracing>>

\* ... and its subscription, which keeps its reference to Razorpay's.
SetPlanSub(r) ==
  /\ At(r, "plan")
  /\ sub' = [sub EXCEPT ![request[r].org].plan = request[r].plan,
                        ![request[r].org].status = "active"]
  /\ request' = Overtaking(r, {"active", "copy"}, Idle)
  /\ history' = [history EXCEPT !.set = @ \cup {<<request[r].org, request[r].plan>>}]
  /\ UNCHANGED <<people, tenants, razorpay, tracing>>

-----------------------------------------------------------------------------
(* Operators *)

\* createOperator, for an account that exists: no operator and no customer ...
PromoteRead(r) ==
  /\ \E u \in operators : \E v \in Users \ (operators \cup members) :
       Begin(r, [Idle EXCEPT !.at = "promote", !.by = u, !.whom = v])
  /\ UNCHANGED <<people, tenants, billing, tracing>>

\* ... gets the flag, and is enabled.
PromoteWrite(r) ==
  /\ At(r, "promote")
  /\ operators' = operators \cup {request[r].whom}
  /\ disabled' = disabled \ {request[r].whom}
  /\ request' = Overtaking(r, {"disable"}, Idle)
  /\ history' = [history EXCEPT
       !.customers = IF request[r].whom \in members /\ ~request[r].overtaken
                     THEN @ \cup {request[r].whom} ELSE @]
  /\ UNCHANGED <<members, tenants, billing, tracing>>

\* revokeOperator: not oneself, and not the last that is not disabled ...
RevokeRead(r) ==
  /\ \E u \in operators : \E v \in operators \ {u} :
       /\ Cardinality(operators \ disabled) > 1
       /\ Begin(r, [Idle EXCEPT !.at = "revoke", !.by = u, !.whom = v])
  /\ UNCHANGED <<people, tenants, billing, tracing>>

\* ... loses the flag, with every session.
RevokeWrite(r) ==
  /\ At(r, "revoke")
  /\ operators' = operators \ {request[r].whom}
  /\ request' = Overtaking(r, {"revoke"}, Idle)
  /\ history' = [history EXCEPT !.overlap = @ \/ request[r].overtaken]
  /\ UNCHANGED <<disabled, members, tenants, billing, tracing>>


\* setUserStatus: an operator cannot be disabled, nor oneself ...
DisableRead(r) ==
  /\ \E u \in operators : \E v \in Users \ operators :
       Begin(r, [Idle EXCEPT !.at = "disable", !.by = u, !.whom = v])
  /\ UNCHANGED <<people, tenants, billing, tracing>>

DisableWrite(r) ==
  /\ At(r, "disable")
  /\ disabled' = disabled \cup {request[r].whom}
  /\ request' = Overtaking(r, {"revoke"}, Idle)
  /\ history' = [history EXCEPT !.overlap = @ \/ request[r].overtaken]
  /\ UNCHANGED <<operators, members, tenants, billing, tracing>>

\* ... and anybody enabled.
Enable(r) ==
  /\ \E u \in operators : \E v \in disabled \ {u} :
       /\ Begin(r, Idle)
       /\ disabled' = disabled \ {v}
  /\ UNCHANGED <<operators, members, tenants, billing, tracing>>

-----------------------------------------------------------------------------
(* Impersonation *)

\* startImpersonation: the session ...
ImpersonateBegin(r) ==
  /\ session.state = "none"
  /\ \E u \in operators : Begin(r, [Idle EXCEPT !.at = "audit", !.by = u])
  /\ session' = [session EXCEPT !.state = "open"]
  /\ UNCHANGED <<people, tenants, billing, trail>>

\* ... the audit row, and only then the token.
ImpersonateAudit(r) ==
  /\ At(r, "audit")
  /\ trail' = [trail EXCEPT !.started = TRUE]
  /\ session' = [session EXCEPT !.token = TRUE]
  /\ Done(r)
  /\ UNCHANGED <<people, tenants, billing, history>>

\* authenticate: one update finds the open session and logs the request.
Act ==
  /\ session.token /\ session.state = "open" /\ session.log < MaxActs
  /\ session' = [session EXCEPT !.log = @ + 1]
  /\ UNCHANGED <<people, tenants, billing, trail, request, history>>

\* endImpersonation: one update ends it and returns its log ...
ImpersonateEnd(r) ==
  /\ session.token /\ session.state = "open"
  /\ Begin(r, [Idle EXCEPT !.at = "countActs", !.ref = session.log])
  /\ session' = [session EXCEPT !.state = "ended"]
  /\ UNCHANGED <<people, tenants, billing, trail>>

\* ... which the audit counts.
ImpersonateCount(r) ==
  /\ At(r, "countActs")
  /\ trail' = [trail EXCEPT !.ended = TRUE, !.counted = request[r].ref]
  /\ Done(r)
  /\ UNCHANGED <<people, tenants, billing, session, history>>

-----------------------------------------------------------------------------

\* A process dies, or a write fails: what was to follow is not done.
Crash(r) ==
  /\ ~At(r, "rest") /\ history.crashes < MaxCrashes
  /\ Done(r)
  /\ history' = [history EXCEPT !.crashes = @ + 1,
       !.cut = IF At(r, "member") THEN @ \cup {request[r].org} ELSE @]
  /\ UNCHANGED <<people, tenants, billing, tracing>>

Init ==
  /\ operators = FirstOperators /\ disabled = {} /\ members = {}
  /\ orgs = <<>> /\ companies = <<>> /\ sub = <<>> /\ razorpay = <<>>
  /\ session = [state |-> "none", token |-> FALSE, log |-> 0]
  /\ trail = [started |-> FALSE, ended |-> FALSE, counted |-> 0]
  /\ request = [r \in Requests |-> Idle]
  /\ history = [starts |-> 0, crashes |-> 0, overlap |-> FALSE, customers |-> {},
                excused |-> {}, granted |-> {}, begun |-> {}, set |-> {}, cut |-> {}]

Start(r) ==
  \/ CompanyBegin(r) \/ Subscribe(r) \/ SetPlan(r) \/ PromoteRead(r) \/ RevokeRead(r)
  \/ DisableRead(r) \/ Enable(r) \/ ImpersonateBegin(r) \/ ImpersonateEnd(r)
Proceed(r) ==
  \/ OrgFound(r) \/ CompanyCount(r) \/ CompanyNew(r) \/ CompanyMember(r) \/ CompanyChart(r)
  \/ SubscribeLink(r) \/ WebhookActive(r) \/ WebhookCopy(r) \/ SetPlanSub(r)
  \/ PromoteWrite(r) \/ RevokeWrite(r) \/ DisableWrite(r)
  \/ ImpersonateAudit(r) \/ ImpersonateCount(r)

Next ==
  \/ \E r \in Requests : Start(r) \/ Proceed(r) \/ WebhookFind(r) \/ Crash(r)
  \/ \E u \in Customers : Join(u)
  \/ \E s \in 1..Len(razorpay) : Pay(s)
  \/ Act

Spec == Init /\ [][Next]_vars

\* Razorpay delivers a webhook until it is answered, and a request goes on.
FairSpec == Spec /\ \A r \in Requests : WF_vars(Proceed(r)) /\ WF_vars(WebhookFind(r))

-----------------------------------------------------------------------------
(* Properties *)

\* There is always an operator who can sign in, unless one was revoked or disabled
\* while the operators were being counted; none was a customer when made an
\* operator, unless he became one while it was being checked; and nothing is done
\* as somebody else that the audit does not know of, or does not count.
OperatorsAreFit ==
  /\ operators \subseteq disabled => history.overlap
  /\ history.customers = {}
  /\ session.log > 0 => trail.started
  /\ trail.ended => trail.counted = session.log

\* An owner who has used up the plan's companies has at least one to work in,
\* unless it is still being made or its creation was cut off.
OwnerHasACompany ==
  \A o \in 1..Len(orgs) :
    CompaniesOf(o) # {} /\ (\A c \in CompaniesOf(o) : ~companies[c].owned) =>
      o \in history.cut \/ \E r \in Requests : At(r, "member") /\ request[r].org = o

\* However requests overlap or die, somebody can run the platform, and every owner his
\* company.
NobodyIsLockedOut == OperatorsAreFit /\ OwnerHasACompany

\* A subscription that refers to a checkout is active only if it was paid, or an
\* operator set its plan, or it was begun while the webhook of another was handled.
ActiveIsPaid ==
  \A o \in 1..Len(orgs) :
    sub[o].status = "active" /\ sub[o].ref # 0 =>
      \/ razorpay[sub[o].ref].paid
      \/ <<o, sub[o].plan>> \in history.set
      \/ o \in history.excused

\* A subscription that was paid comes to give its organisation the plan its document
\* names, even if the process dies half way, unless another has been begun since.
PaidTakesEffect ==
  \A s \in 1..MaxStarts :
    (s \in history.begun /\ razorpay[s].paid)
      ~> (s \in history.granted \/ \A o \in 1..Len(orgs) : sub[o].ref # s)
=============================================================================
