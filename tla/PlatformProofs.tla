--------------------------- MODULE PlatformProofs ---------------------------
(***************************************************************************)
(* That nobody is locked out, and that what is active was paid, for any    *)
(* number of people, requests and organisations, however they overlap or   *)
(* die.                                                                    *)
(*                                                                         *)
(* A request goes on with what it read before the last await.  The         *)
(* invariant says of every place a request may wait in what of that is     *)
(* still so, unless another request has overtaken it.                      *)
(***************************************************************************)
EXTENDS Platform, FiniteSetTheorems, TLAPS

Person  == Users \cup {Nobody}
Places  == {"rest", "found", "count", "company", "member", "chart", "link", "active", "copy",
            "plan", "promote", "revoke", "disable", "audit", "countActs"}
Request == [at : Places, by : Person, whom : Person, org : Nat, plan : Plans, ref : Nat,
            overtaken : BOOLEAN]
Org     == [owner : Users, plan : Plans]
Company == [org : Nat, owned : BOOLEAN, chart : BOOLEAN]
Sub     == [plan : Plans, status : {"active", "created"}, ref : Nat]
Order   == [org : Nat, plan : Plans, paid : BOOLEAN]
History == [starts : Nat, crashes : Nat, overlap : BOOLEAN, customers : SUBSET Users,
            excused : SUBSET Nat, granted : SUBSET Nat, begun : SUBSET Nat,
            set : SUBSET (Nat \X Plans), cut : SUBSET Nat]
Session == [state : {"none", "open", "ended"}, token : BOOLEAN, log : Nat]
Trail   == [started : BOOLEAN, ended : BOOLEAN, counted : Nat]

\* Everything is well typed, and an organisation has one subscription document.
PlatformTypeOK ==
  /\ operators \subseteq Users /\ disabled \subseteq Users /\ members \subseteq Users
  /\ orgs \in Seq(Org) /\ companies \in Seq(Company)
  /\ sub \in Seq(Sub) /\ razorpay \in Seq(Order) /\ Len(sub) = Len(orgs)
  /\ session \in Session /\ trail \in Trail
  /\ request \in [Requests -> Request]
  /\ history \in History

-----------------------------------------------------------------------------
(* The invariant *)

\* What a request relies on, where it waits.
RequestFits(r) ==
  LET q == request[r]
  IN /\ q.at \in {"count", "company", "member", "chart", "link", "active", "copy", "plan"} =>
          q.org \in 1..Len(orgs)
     /\ q.at \in {"found", "count", "company", "member"} => q.by \in Users
     /\ q.at \in {"member", "chart"} =>
          q.ref \in 1..Len(companies) /\ companies[q.ref].org = q.org
     /\ q.at \in {"link", "active"} => q.ref \in 1..Len(razorpay)
     /\ q.at = "active" /\ ~q.overtaken =>
          sub[q.org].ref = q.ref /\ razorpay[q.ref].paid
     /\ q.at \in {"promote", "revoke", "disable"} => q.whom \in Users
     /\ q.at = "promote" /\ ~q.overtaken => q.whom \notin members
     /\ q.at = "revoke" /\ ~q.overtaken =>
          \E u, v \in operators \ disabled : u # v
     /\ q.at = "disable" /\ ~q.overtaken => q.whom \notin operators
     /\ q.at = "countActs" => session.state = "ended" /\ q.ref = session.log

\* Somebody can run the platform, and is no customer.
SomebodyCan ==
  /\ ~history.overlap => \E u \in operators : u \notin disabled
  /\ history.customers = {}

\* The audit knows of what was done as somebody else.
ActsAreKnown ==
  /\ session.log > 0 => session.token
  /\ session.token => trail.started
  /\ trail.ended => session.state = "ended" /\ trail.counted = session.log

\* Every company is its owner's, or is to be, or was cut off.
CompaniesAreOwned ==
  \A c \in 1..Len(companies) :
    \/ companies[c].owned
    \/ companies[c].org \in history.cut
    \/ \E r \in Requests : request[r].at = "member" /\ request[r].ref = c

SubsRefer ==
  \A o \in 1..Len(sub) : sub[o].ref # 0 => sub[o].ref \in 1..Len(razorpay)

IInv ==
  /\ PlatformTypeOK
  /\ \A r \in Requests : RequestFits(r)
  /\ SomebodyCan /\ ActsAreKnown /\ CompaniesAreOwned /\ SubsRefer /\ ActiveIsPaid
-----------------------------------------------------------------------------
(* Sequences, requests and the history *)

LEMMA AppendAt ==
  ASSUME NEW S, NEW s \in Seq(S), NEW e \in S
  PROVE  /\ Append(s, e) \in Seq(S) /\ Len(Append(s, e)) = Len(s) + 1 /\ Len(s) \in Nat
         /\ \A i \in 1..Len(s) : Append(s, e)[i] = s[i]
         /\ Append(s, e)[Len(s) + 1] = e
OBVIOUS

LEMMA ExceptAt ==
  ASSUME NEW S, NEW s \in Seq(S), NEW i \in 1..Len(s), NEW e \in S
  PROVE  /\ [s EXCEPT ![i] = e] \in Seq(S) /\ Len([s EXCEPT ![i] = e]) = Len(s)
         /\ \A k \in 1..Len(s) : [s EXCEPT ![i] = e][k] = IF k = i THEN e ELSE s[k]
OBVIOUS

\* The requests but r wait where they did; those in the places are overtaken.
Others(r, places) ==
  /\ request' \in [Requests -> Request]
  /\ \A x \in Requests : x # r =>
       /\ request'[x].at = request[x].at /\ request'[x].by = request[x].by
       /\ request'[x].whom = request[x].whom /\ request'[x].org = request[x].org
       /\ request'[x].plan = request[x].plan /\ request'[x].ref = request[x].ref
       /\ request[x].overtaken => request'[x].overtaken
       /\ request[x].at \in places => request'[x].overtaken

LEMMA Moves ==
  ASSUME PlatformTypeOK, NEW r \in Requests, NEW q \in Request,
         request' = [request EXCEPT ![r] = q]
  PROVE  Others(r, {}) /\ request'[r] = q
BY DEF PlatformTypeOK, Others

LEMMA Overtakes ==
  ASSUME PlatformTypeOK, NEW r, NEW q, r \in Requests => q \in Request, NEW places,
         request' = Overtaking(r, places, q)
  PROVE  Others(r, places) /\ (r \in Requests => request'[r] = q)
<1> DEFINE late(x) == [request[x] EXCEPT !.overtaken = TRUE]
<1>1. ASSUME NEW x \in Requests
      PROVE  /\ late(x) \in Request /\ late(x).overtaken
             /\ late(x).at = request[x].at /\ late(x).by = request[x].by
             /\ late(x).whom = request[x].whom /\ late(x).org = request[x].org
             /\ late(x).plan = request[x].plan /\ late(x).ref = request[x].ref
  BY DEF PlatformTypeOK, Request
<1>2. request' = [x \in Requests |-> IF x = r THEN q
                                     ELSE IF request[x].at \in places THEN late(x)
                                     ELSE request[x]]
  BY DEF Overtaking
<1> HIDE DEF late
<1>3. \A x \in Requests : request[x] \in Request BY DEF PlatformTypeOK
<1>4. \A x \in Requests : (IF x = r THEN q
                           ELSE IF request[x].at \in places THEN late(x)
                           ELSE request[x]) \in Request
  BY <1>1, <1>3
<1>5. request' \in [Requests -> Request] BY <1>2, <1>4
<1>6. \A x \in Requests : x # r =>
        request'[x] = IF request[x].at \in places THEN late(x) ELSE request[x]
  BY <1>2
<1>7. r \in Requests => request'[r] = q BY <1>2
<1> QED BY <1>1, <1>5, <1>6, <1>7 DEF Others

LEMMA IdleFits == Idle \in Request /\ Idle.at = "rest"
BY PlatformAssumption DEF Idle, Request, Places, Person

\* What the requests rely on may grow; it changes where they are overtaken.
Grows(places) ==
  /\ Len(orgs) \in Nat /\ Len(orgs') \in Nat /\ Len(orgs) <= Len(orgs')
  /\ Len(companies) \in Nat /\ Len(companies') \in Nat /\ Len(companies) <= Len(companies')
  /\ \A c \in 1..Len(companies) : companies'[c].org = companies[c].org
  /\ Len(razorpay) \in Nat /\ Len(razorpay') \in Nat /\ Len(razorpay) <= Len(razorpay')
  /\ \A s \in 1..Len(razorpay) : razorpay[s].paid => razorpay'[s].paid
  /\ "active" \in places \/ \A o \in 1..Len(orgs) : sub'[o].ref = sub[o].ref
  /\ "promote" \in places \/ members' = members
  /\ "revoke" \in places \/ \A u \in operators \ disabled : u \in operators' \ disabled'
  /\ "disable" \in places \/ operators' \subseteq operators
  /\ (session'.state = session.state /\ session'.log = session.log) \/ session.state # "ended"

LEMMA OthersFit ==
  ASSUME NEW r, NEW places, Others(r, places), Grows(places),
         NEW x \in Requests, x # r, RequestFits(x)
  PROVE  RequestFits(x)'
<1>1. /\ request'[x].at = request[x].at /\ request'[x].by = request[x].by
      /\ request'[x].whom = request[x].whom /\ request'[x].org = request[x].org
      /\ request'[x].plan = request[x].plan /\ request'[x].ref = request[x].ref
      /\ request[x].overtaken => request'[x].overtaken
      /\ request[x].at \in places => request'[x].overtaken
  BY DEF Others
<1>2. request[x].at = "revoke" /\ ~request'[x].overtaken =>
        \E u, v \in operators' \ disabled' : u # v
  <2> SUFFICES ASSUME request[x].at = "revoke", ~request'[x].overtaken
               PROVE  \E u, v \in operators' \ disabled' : u # v
    OBVIOUS
  <2>1. PICK u, v \in operators \ disabled : u # v BY <1>1 DEF RequestFits
  <2>2. u \in operators' \ disabled' /\ v \in operators' \ disabled'
    BY <1>1, <2>1 DEF Grows
  <2> QED BY <2>1, <2>2
<1>3. request[x].at = "active" /\ ~request'[x].overtaken =>
        sub'[request[x].org].ref = request[x].ref /\ razorpay'[request[x].ref].paid
  BY <1>1 DEF RequestFits, Grows
<1> QED BY SMTT(30), <1>1, <1>2, <1>3 DEF RequestFits, Grows

\* The history, but for what becomes of the operators.
HistoryGrows ==
  /\ history' \in History
  /\ history'.overlap = history.overlap /\ history'.customers = history.customers
  /\ history.excused \subseteq history'.excused /\ history.set \subseteq history'.set
  /\ history.cut \subseteq history'.cut

LEMMA HistoryStays == ASSUME PlatformTypeOK, history' = history PROVE HistoryGrows
BY DEF PlatformTypeOK, HistoryGrows

LEMMA StartCounts ==
  ASSUME PlatformTypeOK, history' = [history EXCEPT !.starts = @ + 1]
  PROVE  HistoryGrows
<1>1. history.starts + 1 \in Nat BY DEF PlatformTypeOK, History
<1> QED BY <1>1 DEF PlatformTypeOK, HistoryGrows, History

LEMMA NothingGrows ==
  ASSUME PlatformTypeOK, UNCHANGED <<people, tenants, billing, tracing>>, NEW places
  PROVE  Grows(places)
<1>1. Len(orgs) \in Nat /\ Len(companies) \in Nat /\ Len(razorpay) \in Nat
  BY DEF PlatformTypeOK
<1> QED BY <1>1 DEF Grows, people, tenants, billing, tracing

\* The parts that a step leaves alone.
LEMMA SomebodyStays ==
  ASSUME SomebodyCan, HistoryGrows, operators' = operators, disabled' = disabled
  PROVE  SomebodyCan'
BY DEF SomebodyCan, HistoryGrows

LEMMA ActsStay == ASSUME ActsAreKnown, UNCHANGED tracing PROVE ActsAreKnown'
BY DEF ActsAreKnown, tracing

LEMMA OwnedStay ==
  ASSUME CompaniesAreOwned, HistoryGrows, NEW r, NEW places, Others(r, places),
         companies' = companies,
         r \in Requests /\ request[r].at = "member" =>
           companies[request[r].ref].org \in history'.cut
  PROVE  CompaniesAreOwned'
BY DEF CompaniesAreOwned, HistoryGrows, Others

LEMMA PaidStays ==
  ASSUME ActiveIsPaid, SubsRefer, PlatformTypeOK, HistoryGrows, sub' = sub,
         Len(orgs') = Len(orgs),
         Len(razorpay') \in Nat, Len(razorpay) \in Nat, Len(razorpay) <= Len(razorpay'),
         \A s \in 1..Len(razorpay) : razorpay[s].paid => razorpay'[s].paid
  PROVE  ActiveIsPaid' /\ SubsRefer'
<1>1. SubsRefer' BY DEF SubsRefer
<1>2. ActiveIsPaid'
  <2> SUFFICES ASSUME NEW o \in 1..Len(orgs'), sub'[o].status = "active", sub'[o].ref # 0
               PROVE  \/ razorpay'[sub'[o].ref].paid
                      \/ <<o, sub'[o].plan>> \in history'.set
                      \/ o \in history'.excused
    BY DEF ActiveIsPaid
  <2>1. o \in 1..Len(orgs) /\ o \in 1..Len(sub) BY DEF PlatformTypeOK
  <2>2. sub[o].ref \in 1..Len(razorpay) BY <2>1 DEF SubsRefer
  <2> QED BY <2>1, <2>2 DEF ActiveIsPaid, HistoryGrows
<1> QED BY <1>1, <1>2

\* A request goes on, and nothing else changes.
LEMMA QuietStep ==
  ASSUME IInv, NEW r \in Requests, NEW places, Others(r, places), HistoryGrows,
         UNCHANGED <<people, tenants, billing, tracing>>,
         request[r].at = "member" => request[r].org \in history'.cut,
         RequestFits(r)'
  PROVE  IInv'
<1>1. PlatformTypeOK BY DEF IInv
<1>2. PlatformTypeOK'
  BY <1>1 DEF PlatformTypeOK, Others, HistoryGrows, people, tenants, billing, tracing
<1>3. \A x \in Requests : RequestFits(x)' BY <1>1, NothingGrows, OthersFit DEF IInv
<1>4. SomebodyCan' BY SomebodyStays DEF IInv, people
<1>5. ActsAreKnown' BY ActsStay DEF IInv
<1>6. CompaniesAreOwned'
  <2>1. request[r].at = "member" => companies[request[r].ref].org \in history'.cut
    BY DEF IInv, RequestFits
  <2> QED BY <2>1, OwnedStay DEF IInv, tenants
<1>7. ActiveIsPaid' /\ SubsRefer'
  <2>1. /\ sub' = sub /\ Len(orgs') = Len(orgs) /\ razorpay' = razorpay
        /\ Len(razorpay') \in Nat /\ Len(razorpay) \in Nat
    BY <1>1 DEF PlatformTypeOK, tenants, billing
  <2>2. Len(razorpay) <= Len(razorpay') BY <2>1
  <2>3. \A s \in 1..Len(razorpay) : razorpay[s].paid => razorpay'[s].paid BY <2>1
  <2> QED BY <1>1, <2>1, <2>2, <2>3, PaidStays DEF IInv
<1> QED BY <1>2, <1>3, <1>4, <1>5, <1>6, <1>7 DEF IInv
-----------------------------------------------------------------------------
(* The steps that read, and the crash *)

LEMMA RequestType ==
  ASSUME PlatformTypeOK, NEW r \in Requests
  PROVE  /\ request[r] \in Request /\ request[r].at \in Places /\ request[r].org \in Nat
         /\ request[r].plan \in Plans /\ request[r].ref \in Nat
         /\ request[r].overtaken \in BOOLEAN
BY DEF PlatformTypeOK, Request

\* A request goes on, from where it made no company; the history counts at most.
LEMMA QuietMove ==
  ASSUME IInv, NEW r \in Requests, NEW q \in Request,
         request' = [request EXCEPT ![r] = q], HistoryGrows,
         UNCHANGED <<people, tenants, billing, tracing>>, request[r].at # "member",
         request'[r] = q => RequestFits(r)'
  PROVE  IInv'
<1>1. Others(r, {}) /\ request'[r] = q BY Moves DEF IInv
<1> QED BY <1>1, QuietStep

LEMMA DoneFits ==
  ASSUME NEW r \in Requests, request'[r].at = "rest"
  PROVE  RequestFits(r)'
BY DEF RequestFits

LEMMA BeginStep ==
  ASSUME IInv, NEW r \in Requests, NEW q \in Request, Begin(r, q),
         UNCHANGED <<people, tenants, billing, tracing>>,
         request'[r] = q => RequestFits(r)'
  PROVE  IInv'
<1>1. HistoryGrows BY StartCounts DEF Begin, IInv
<1>2. request[r].at # "member" BY DEF Begin, At
<1>3. request' = [request EXCEPT ![r] = q] BY DEF Begin
<1> QED BY <1>1, <1>2, <1>3, QuietMove

LEMMA OrgsAre ==
  ASSUME PlatformTypeOK, NEW o \in 1..Len(orgs)
  PROVE  o \in Nat /\ orgs[o] \in Org /\ orgs[o].plan \in Plans /\ orgs[o].owner \in Users
<1>1. orgs[o] \in Org BY DEF PlatformTypeOK
<1> QED BY <1>1 DEF Org

LEMMA CompanyBeginInv == ASSUME IInv, NEW r \in Requests, CompanyBegin(r) PROVE IInv'
<1>1. UNCHANGED <<people, tenants, billing, tracing>> /\ PlatformTypeOK
  BY DEF CompanyBegin, IInv
<1>2. PICK u \in Customers :
        \/ Begin(r, [Idle EXCEPT !.at = "found", !.by = u])
        \/ \E o \in OrgsOf(u) :
             Begin(r, [Idle EXCEPT !.at = "count", !.by = u, !.org = o, !.plan = orgs[o].plan])
  BY DEF CompanyBegin
<1>3. u \in Users BY PlatformAssumption
<1>4. CASE Begin(r, [Idle EXCEPT !.at = "found", !.by = u])
  <2> DEFINE q == [Idle EXCEPT !.at = "found", !.by = u]
  <2>1. q \in Request /\ q.at = "found" /\ q.by = u
    BY <1>3, IdleFits DEF Request, Places, Person
  <2>2. Begin(r, q) BY <1>4
  <2> HIDE DEF q
  <2>3. request'[r] = q => RequestFits(r)' BY <1>3, <2>1 DEF RequestFits
  <2> QED BY <1>1, <2>1, <2>2, <2>3, BeginStep
<1>5. ASSUME NEW o \in OrgsOf(u),
             Begin(r, [Idle EXCEPT !.at = "count", !.by = u, !.org = o, !.plan = orgs[o].plan])
      PROVE  IInv'
  <2> DEFINE q == [Idle EXCEPT !.at = "count", !.by = u, !.org = o, !.plan = orgs[o].plan]
  <2>1. o \in 1..Len(orgs) BY DEF OrgsOf
  <2>2. o \in Nat /\ orgs[o].plan \in Plans BY <1>1, <2>1, OrgsAre
  <2>3. q \in Request /\ q.at = "count" /\ q.org = o /\ q.by = u
    BY <1>3, <2>2, IdleFits DEF Request, Places, Person
  <2>4. Begin(r, q) BY <1>5
  <2> HIDE DEF q
  <2>5. request'[r] = q => RequestFits(r)'
    BY <1>1, <1>3, <2>1, <2>3 DEF RequestFits, tenants
  <2> QED BY <1>1, <2>3, <2>4, <2>5, BeginStep
<1> QED BY <1>2, <1>4, <1>5

LEMMA CompanyCountInv == ASSUME IInv, NEW r \in Requests, CompanyCount(r) PROVE IInv'
<1>1. /\ UNCHANGED <<people, tenants, billing, tracing>> /\ PlatformTypeOK
      /\ request[r].at = "count" /\ HistoryGrows
      /\ request' = [request EXCEPT ![r].at = "company"] \/ request' = [request EXCEPT ![r] = Idle]
  BY HistoryStays DEF CompanyCount, IInv, At, Go, Done
<1>2. CASE request' = [request EXCEPT ![r] = Idle]
  BY <1>1, <1>2, IdleFits, DoneFits, QuietMove
<1>3. CASE request' = [request EXCEPT ![r].at = "company"]
  <2> DEFINE q == [request[r] EXCEPT !.at = "company"]
  <2>1. q \in Request /\ q.at = "company" /\ q.org = request[r].org /\ q.by = request[r].by
    BY <1>1, RequestType DEF Request, Places
  <2>2. request' = [request EXCEPT ![r] = q] BY <1>3
  <2> HIDE DEF q
  <2>3. request[r].org \in 1..Len(orgs) /\ request[r].by \in Users
    BY <1>1 DEF IInv, RequestFits
  <2>4. request'[r] = q => RequestFits(r)' BY <1>1, <2>1, <2>3 DEF RequestFits, tenants
  <2> QED BY <1>1, <2>1, <2>2, <2>4, QuietMove
<1> QED BY <1>1, <1>2, <1>3

\* What a request of an operator on somebody has read.
LEMMA WhomStep ==
  ASSUME IInv, NEW r \in Requests, NEW u \in Users, NEW v \in Users,
         NEW place \in {"promote", "revoke", "disable"},
         Begin(r, [Idle EXCEPT !.at = place, !.by = u, !.whom = v]),
         UNCHANGED <<people, tenants, billing, tracing>>,
         place = "promote" => v \notin members,
         place = "revoke" => \E a, b \in operators \ disabled : a # b,
         place = "disable" => v \notin operators
  PROVE  IInv'
<1> DEFINE q == [Idle EXCEPT !.at = place, !.by = u, !.whom = v]
<1>1. q \in Request /\ q.at = place /\ q.whom = v
  BY IdleFits DEF Request, Places, Person
<1>2. Begin(r, q) OBVIOUS
<1> HIDE DEF q
<1>3. request'[r] = q => RequestFits(r)'
  BY <1>1 DEF RequestFits, people
<1> QED BY <1>1, <1>2, <1>3, BeginStep

LEMMA PromoteReadInv == ASSUME IInv, NEW r \in Requests, PromoteRead(r) PROVE IInv'
<1>1. PICK u \in operators, v \in Users \ (operators \cup members) :
        Begin(r, [Idle EXCEPT !.at = "promote", !.by = u, !.whom = v])
  BY DEF PromoteRead
<1>2. u \in Users /\ v \in Users /\ v \notin members BY DEF IInv, PlatformTypeOK
<1>3. UNCHANGED <<people, tenants, billing, tracing>> BY DEF PromoteRead
<1> QED BY <1>1, <1>2, <1>3, WhomStep

LEMMA RevokeReadInv == ASSUME IInv, NEW r \in Requests, RevokeRead(r) PROVE IInv'
<1>1. PICK u \in operators, v \in operators :
        /\ Cardinality(operators \ disabled) > 1
        /\ Begin(r, [Idle EXCEPT !.at = "revoke", !.by = u, !.whom = v])
  BY DEF RevokeRead
<1>2. u \in Users /\ v \in Users BY DEF IInv, PlatformTypeOK
<1>3. UNCHANGED <<people, tenants, billing, tracing>> BY DEF RevokeRead
<1>4. \E a, b \in operators \ disabled : a # b
  <2> DEFINE S == operators \ disabled
  <2>1. S \subseteq Users BY DEF IInv, PlatformTypeOK
  <2>2. IsFiniteSet(S) BY <2>1, PlatformAssumption, FS_Subset
  <2>3. Cardinality(S) > 1 BY <1>1
  <2> HIDE DEF S
  <2>4. Cardinality(S) \in Nat BY <2>2, FS_CardinalityType
  <2>5. S # {} BY <2>2, <2>3, <2>4, FS_EmptySet
  <2>6. PICK a \in S : TRUE BY <2>5
  <2>7. IsFiniteSet(S \ {a}) /\ Cardinality(S \ {a}) = Cardinality(S) - 1
    BY <2>2, <2>6, FS_RemoveElement
  <2>8. S \ {a} # {} BY <2>3, <2>4, <2>7, FS_EmptySet
  <2> QED BY <2>6, <2>8 DEF S
<1> QED BY <1>1, <1>2, <1>3, <1>4, WhomStep

LEMMA DisableReadInv == ASSUME IInv, NEW r \in Requests, DisableRead(r) PROVE IInv'
<1>1. PICK u \in operators, v \in Users \ operators :
        Begin(r, [Idle EXCEPT !.at = "disable", !.by = u, !.whom = v])
  BY DEF DisableRead
<1>2. u \in Users /\ v \in Users /\ v \notin operators BY DEF IInv, PlatformTypeOK
<1>3. UNCHANGED <<people, tenants, billing, tracing>> BY DEF DisableRead
<1> QED BY <1>1, <1>2, <1>3, WhomStep

LEMMA WebhookFindInv == ASSUME IInv, NEW r \in Requests, WebhookFind(r) PROVE IInv'
<1>1. /\ UNCHANGED <<people, tenants, billing, tracing>> /\ PlatformTypeOK
      /\ request[r].at = "rest"
  BY DEF WebhookFind, IInv, At
<1>2. PICK s \in 1..Len(razorpay), o \in 1..Len(orgs) :
        /\ razorpay[s].paid /\ sub[o].ref = s
        /\ history' = history \/ history' = [history EXCEPT !.starts = @ + 1]
        /\ request' = [request EXCEPT ![r] = [Idle EXCEPT !.at = "active", !.org = o,
                                                          !.plan = sub[o].plan, !.ref = s]]
  BY DEF WebhookFind
<1>3. HistoryGrows BY <1>1, <1>2, HistoryStays, StartCounts
<1> DEFINE q == [Idle EXCEPT !.at = "active", !.org = o, !.plan = sub[o].plan, !.ref = s]
<1>4. sub[o].plan \in Plans /\ s \in Nat /\ o \in Nat
  <2>1. sub[o] \in Sub BY <1>1 DEF PlatformTypeOK
  <2> QED BY <2>1 DEF Sub
<1>5. q \in Request /\ q.at = "active" /\ q.org = o /\ q.ref = s
  BY <1>4, IdleFits DEF Request, Places, Person
<1>6. request' = [request EXCEPT ![r] = q] BY <1>2
<1> HIDE DEF q
<1>7. request'[r] = q => RequestFits(r)'
  BY <1>1, <1>2, <1>5 DEF RequestFits, tenants, billing
<1> QED BY <1>1, <1>3, <1>5, <1>6, <1>7, QuietMove

LEMMA CrashInv == ASSUME IInv, NEW r \in Requests, Crash(r) PROVE IInv'
<1>1. /\ UNCHANGED <<people, tenants, billing, tracing>> /\ PlatformTypeOK
      /\ request' = [request EXCEPT ![r] = Idle]
      /\ history' = [history EXCEPT !.crashes = @ + 1,
           !.cut = IF At(r, "member") THEN @ \cup {request[r].org} ELSE @]
  BY DEF Crash, IInv, Done
<1>2. HistoryGrows /\ (request[r].at = "member" => request[r].org \in history'.cut)
  <2>1. PICK c \in SUBSET Nat :
          /\ c = IF At(r, "member") THEN history.cut \cup {request[r].org} ELSE history.cut
          /\ history' = [history EXCEPT !.crashes = @ + 1, !.cut = c]
    <3> DEFINE c == IF At(r, "member") THEN history.cut \cup {request[r].org} ELSE history.cut
    <3>1. c \in SUBSET Nat BY <1>1, RequestType DEF PlatformTypeOK, History
    <3> QED BY <1>1, <3>1
  <2>2. history.crashes + 1 \in Nat BY <1>1 DEF PlatformTypeOK, History
  <2>3. /\ history' \in History /\ history'.cut = c
        /\ history'.overlap = history.overlap /\ history'.customers = history.customers
        /\ history'.excused = history.excused /\ history'.set = history.set
    BY <1>1, <2>1, <2>2 DEF PlatformTypeOK, History
  <2> QED BY <2>1, <2>3 DEF HistoryGrows, At
<1>3. Others(r, {}) /\ request'[r] = Idle BY <1>1, IdleFits, Moves
<1>4. RequestFits(r)' BY <1>3, IdleFits, DoneFits
<1> QED BY <1>1, <1>2, <1>3, <1>4, QuietStep
-----------------------------------------------------------------------------
(* Companies *)

LEMMA OrgFoundInv == ASSUME IInv, NEW r \in Requests, OrgFound(r) PROVE IInv'
<1> DEFINE e == [owner |-> request[r].by, plan |-> Free]
           n == Len(orgs) + 1
           q == [request[r] EXCEPT !.at = "count", !.org = n]
<1>1. /\ PlatformTypeOK /\ request[r].at = "found"
      /\ orgs' = Append(orgs, e) /\ sub' = Append(sub, NoSub)
      /\ request' = [request EXCEPT ![r] = q]
      /\ UNCHANGED <<people, companies, razorpay, tracing, history>>
  BY DEF OrgFound, IInv, At
<1>2. e \in Org BY <1>1, PlatformAssumption DEF IInv, RequestFits, Org
<1>3. NoSub \in Sub /\ NoSub.ref = 0 BY PlatformAssumption DEF NoSub, Sub
<1>4. n \in Nat BY <1>1 DEF PlatformTypeOK
<1>5. /\ q \in Request /\ q.at = "count" /\ q.org = n
      /\ q.by = request[r].by /\ request[r].by \in Users
  BY <1>1, <1>4, RequestType DEF IInv, RequestFits, Request, Places
<1> HIDE DEF e, q
<1>6. /\ orgs' \in Seq(Org) /\ Len(orgs') = n /\ Len(orgs) \in Nat
      /\ \A i \in 1..Len(orgs) : orgs'[i] = orgs[i]
  BY <1>1, <1>2, AppendAt DEF PlatformTypeOK
<1>7. /\ sub' \in Seq(Sub) /\ Len(sub') = n /\ Len(sub) = Len(orgs)
      /\ \A i \in 1..Len(sub) : sub'[i] = sub[i]
      /\ sub'[n] = NoSub
  BY <1>1, <1>3, AppendAt DEF PlatformTypeOK
<1>8. Others(r, {}) /\ request'[r] = q BY <1>1, <1>5, Moves
<1>9. HistoryGrows BY <1>1, HistoryStays
<1>10. PlatformTypeOK'
  BY <1>1, <1>6, <1>7, <1>8 DEF PlatformTypeOK, Others, people, tracing
<1>11. Grows({})
  <2>1. Len(companies) \in Nat /\ Len(razorpay) \in Nat BY <1>1 DEF PlatformTypeOK
  <2> QED BY <1>1, <1>4, <1>6, <1>7, <2>1 DEF Grows, people, tracing
<1>12. RequestFits(r)' BY <1>4, <1>5, <1>6, <1>8 DEF RequestFits
<1>13. \A x \in Requests : RequestFits(x)' BY <1>8, <1>11, <1>12, OthersFit DEF IInv
<1>14. SomebodyCan' BY <1>1, <1>9, SomebodyStays DEF IInv, people
<1>15. ActsAreKnown' BY <1>1, ActsStay DEF IInv
<1>16. CompaniesAreOwned' BY <1>1, <1>8, <1>9, OwnedStay DEF IInv
<1>17. \A o \in 1..n : o \in 1..Len(orgs) \/ o = n BY <1>6
<1>18. SubsRefer' BY <1>1, <1>3, <1>7, <1>17 DEF IInv, SubsRefer
<1>19. ActiveIsPaid' BY <1>1, <1>3, <1>6, <1>7, <1>17 DEF IInv, ActiveIsPaid
<1> QED BY <1>10, <1>13, <1>14, <1>15, <1>16, <1>18, <1>19 DEF IInv

LEMMA CompanyNewInv == ASSUME IInv, NEW r \in Requests, CompanyNew(r) PROVE IInv'
<1> DEFINE e == [org |-> request[r].org, owned |-> FALSE, chart |-> FALSE]
           n == Len(companies) + 1
           q == [request[r] EXCEPT !.at = "member", !.ref = n]
<1>1. /\ PlatformTypeOK /\ request[r].at = "company"
      /\ companies' = Append(companies, e)
      /\ request' = [request EXCEPT ![r] = q]
      /\ UNCHANGED <<people, orgs, billing, tracing, history>>
  BY DEF CompanyNew, IInv, At
<1>2. e \in Company /\ e.org = request[r].org BY <1>1, RequestType DEF Company
<1>3. n \in Nat BY <1>1 DEF PlatformTypeOK
<1>4. /\ q \in Request /\ q.at = "member" /\ q.ref = n /\ q.org = request[r].org
      /\ q.by = request[r].by
  BY <1>1, <1>3, RequestType DEF Request, Places
<1>5. request[r].org \in 1..Len(orgs) BY <1>1 DEF IInv, RequestFits
<1>6. request[r].by \in Users
  BY <1>1 DEF IInv, RequestFits
<1> HIDE DEF e, q
<1>7. /\ companies' \in Seq(Company) /\ Len(companies') = n /\ Len(companies) \in Nat
      /\ \A i \in 1..Len(companies) : companies'[i] = companies[i]
      /\ companies'[n] = e
  BY <1>1, <1>2, AppendAt DEF PlatformTypeOK
<1>8. Others(r, {}) /\ request'[r] = q BY <1>1, <1>4, Moves
<1>9. HistoryGrows BY <1>1, HistoryStays
<1>10. PlatformTypeOK'
  BY <1>1, <1>7, <1>8 DEF PlatformTypeOK, Others, people, billing, tracing
<1>11. Grows({})
  <2>1. Len(orgs) \in Nat /\ Len(razorpay) \in Nat BY <1>1 DEF PlatformTypeOK
  <2> QED BY <1>1, <1>3, <1>7, <2>1 DEF Grows, people, billing, tracing
<1>12. RequestFits(r)'
  <2>1. n \in 1..Len(companies') BY <1>3, <1>7
  <2> QED BY <1>1, <1>2, <1>4, <1>5, <1>6, <1>7, <1>8, <2>1 DEF RequestFits
<1>13. \A x \in Requests : RequestFits(x)' BY <1>8, <1>11, <1>12, OthersFit DEF IInv
<1>14. SomebodyCan' BY <1>1, <1>9, SomebodyStays DEF IInv, people
<1>15. ActsAreKnown' BY <1>1, ActsStay DEF IInv
<1>16. CompaniesAreOwned'
  <2> SUFFICES ASSUME NEW c \in 1..Len(companies')
               PROVE  \/ companies'[c].owned
                      \/ companies'[c].org \in history'.cut
                      \/ \E x \in Requests : request'[x].at = "member" /\ request'[x].ref = c
    BY DEF CompaniesAreOwned
  <2>1. CASE c = n BY <1>4, <1>8, <2>1
  <2>2. CASE c \in 1..Len(companies)
    BY <1>1, <1>7, <1>8, <2>2 DEF IInv, CompaniesAreOwned, Others
  <2> QED BY <1>7, <2>1, <2>2
<1>17. ActiveIsPaid' /\ SubsRefer'
  <2>1. /\ sub' = sub /\ Len(orgs') = Len(orgs) /\ Len(razorpay') \in Nat /\ Len(razorpay) \in Nat
        /\ Len(razorpay) <= Len(razorpay')
        /\ \A s \in 1..Len(razorpay) : razorpay[s].paid => razorpay'[s].paid
    BY <1>1 DEF PlatformTypeOK, billing
  <2> QED BY <1>1, <1>9, <2>1, PaidStays DEF IInv
<1> QED BY <1>10, <1>13, <1>14, <1>15, <1>16, <1>17 DEF IInv

\* A company is its owner's, or has its chart: nothing else changes but the members.
LEMMA CompanyStep ==
  ASSUME IInv, NEW r \in Requests, NEW places, Others(r, places), HistoryGrows,
         UNCHANGED <<operators, disabled, orgs, billing, tracing>>,
         companies' \in Seq(Company), Len(companies') = Len(companies),
         \A c \in 1..Len(companies) : /\ companies'[c].org = companies[c].org
                                      /\ companies[c].owned => companies'[c].owned,
         request[r].at = "member" => companies'[request[r].ref].owned,
         members' \subseteq Users, members' = members \/ "promote" \in places,
         request'[r].at \in {"rest", "chart"}, RequestFits(r)'
  PROVE  IInv'
<1>1. PlatformTypeOK BY DEF IInv
<1>2. PlatformTypeOK' BY <1>1 DEF PlatformTypeOK, Others, HistoryGrows, billing, tracing
<1>3. Len(orgs) \in Nat /\ Len(companies) \in Nat /\ Len(razorpay) \in Nat
  BY <1>1 DEF PlatformTypeOK
<1>4. Grows(places) BY <1>3 DEF Grows, billing, tracing
<1>5. \A x \in Requests : RequestFits(x)' BY <1>4, OthersFit DEF IInv
<1>6. SomebodyCan' BY SomebodyStays DEF IInv
<1>7. ActsAreKnown' BY ActsStay DEF IInv
<1>8. CompaniesAreOwned'
  <2> SUFFICES ASSUME NEW c \in 1..Len(companies')
               PROVE  \/ companies'[c].owned
                      \/ companies'[c].org \in history'.cut
                      \/ \E x \in Requests : request'[x].at = "member" /\ request'[x].ref = c
    BY DEF CompaniesAreOwned
  <2>1. c \in 1..Len(companies) OBVIOUS
  <2>2. CASE request[r].at = "member" /\ request[r].ref = c BY <2>1, <2>2
  <2>3. CASE ~(request[r].at = "member" /\ request[r].ref = c)
    BY <2>1, <2>3 DEF IInv, CompaniesAreOwned, HistoryGrows, Others
  <2> QED BY <2>2, <2>3
<1>9. ActiveIsPaid' /\ SubsRefer'
  <2>1. /\ sub' = sub /\ Len(orgs') = Len(orgs) /\ Len(razorpay') \in Nat /\ Len(razorpay) \in Nat
        /\ Len(razorpay) <= Len(razorpay')
        /\ \A s \in 1..Len(razorpay) : razorpay[s].paid => razorpay'[s].paid
    BY <1>3 DEF billing
  <2> QED BY <1>1, <2>1, PaidStays DEF IInv
<1> QED BY <1>2, <1>5, <1>6, <1>7, <1>8, <1>9 DEF IInv

LEMMA CompaniesAre ==
  ASSUME PlatformTypeOK, NEW c \in 1..Len(companies)
  PROVE  companies[c] \in Company
BY DEF PlatformTypeOK

LEMMA CompanyMemberInv == ASSUME IInv, NEW r \in Requests, CompanyMember(r) PROVE IInv'
<1> DEFINE c == request[r].ref
           e == [companies[c] EXCEPT !.owned = TRUE]
           q == [request[r] EXCEPT !.at = "chart"]
<1>1. /\ PlatformTypeOK /\ request[r].at = "member"
      /\ companies' = [companies EXCEPT ![c] = e]
      /\ members' = members \cup {request[r].by}
      /\ request' = Overtaking(r, {"promote"}, q)
      /\ UNCHANGED <<operators, disabled, orgs, billing, tracing, history>>
  BY DEF CompanyMember, IInv, At
<1>2. /\ c \in 1..Len(companies) /\ companies[c].org = request[r].org
      /\ request[r].by \in Users /\ request[r].org \in 1..Len(orgs)
  BY <1>1 DEF IInv, RequestFits
<1>3. e \in Company /\ e.owned /\ e.org = companies[c].org
  BY <1>1, <1>2, CompaniesAre DEF Company
<1>4. q \in Request /\ q.at = "chart" /\ q.ref = c /\ q.org = request[r].org
  BY <1>1, RequestType DEF Request, Places
<1> HIDE DEF e, q
<1>5. Others(r, {"promote"}) /\ request'[r] = q BY <1>1, <1>4, Overtakes
<1>6. /\ companies' \in Seq(Company) /\ Len(companies') = Len(companies)
      /\ \A k \in 1..Len(companies) : companies'[k] = IF k = c THEN e ELSE companies[k]
  BY <1>1, <1>2, <1>3, ExceptAt DEF PlatformTypeOK
<1>7. HistoryGrows BY <1>1, HistoryStays
<1>8. RequestFits(r)' BY <1>1, <1>2, <1>3, <1>4, <1>5, <1>6 DEF RequestFits
<1>9. /\ \A k \in 1..Len(companies) : /\ companies'[k].org = companies[k].org
                                      /\ companies[k].owned => companies'[k].owned
      /\ companies'[c].owned
  BY <1>2, <1>3, <1>6
<1>10. members' \subseteq Users BY <1>1, <1>2 DEF PlatformTypeOK
<1> QED BY <1>1, <1>4, <1>5, <1>6, <1>7, <1>8, <1>9, <1>10, CompanyStep

LEMMA CompanyChartInv == ASSUME IInv, NEW r \in Requests, CompanyChart(r) PROVE IInv'
<1> DEFINE c == request[r].ref
           e == [companies[c] EXCEPT !.chart = TRUE]
<1>1. /\ PlatformTypeOK /\ request[r].at = "chart"
      /\ companies' = [companies EXCEPT ![c] = e]
      /\ request' = [request EXCEPT ![r] = Idle]
      /\ UNCHANGED <<people, orgs, billing, tracing, history>>
  BY DEF CompanyChart, IInv, At, Done
<1>2. c \in 1..Len(companies) BY <1>1 DEF IInv, RequestFits
<1>3. e \in Company /\ e.owned = companies[c].owned /\ e.org = companies[c].org
  BY <1>1, <1>2, CompaniesAre DEF Company
<1> HIDE DEF e
<1>4. Others(r, {}) /\ request'[r] = Idle BY <1>1, IdleFits, Moves
<1>5. /\ companies' \in Seq(Company) /\ Len(companies') = Len(companies)
      /\ \A k \in 1..Len(companies) : companies'[k] = IF k = c THEN e ELSE companies[k]
  BY <1>1, <1>2, <1>3, ExceptAt DEF PlatformTypeOK
<1>6. HistoryGrows BY <1>1, HistoryStays
<1>7. RequestFits(r)' /\ request'[r].at = "rest" BY <1>4, IdleFits, DoneFits
<1>8. \A k \in 1..Len(companies) : /\ companies'[k].org = companies[k].org
                                   /\ companies[k].owned => companies'[k].owned
  BY <1>3, <1>5
<1>9. members' \subseteq Users /\ members' = members /\ operators' = operators
      /\ disabled' = disabled
  BY <1>1 DEF PlatformTypeOK, people
<1> QED BY <1>1, <1>4, <1>5, <1>6, <1>7, <1>8, <1>9, CompanyStep

LEMMA JoinInv == ASSUME IInv, NEW u \in Customers, Join(u) PROVE IInv'
<1>1. /\ PlatformTypeOK /\ members' = members \cup {u}
      /\ request' = Overtaking(Nobody, {"promote"}, Idle)
      /\ UNCHANGED <<operators, disabled, tenants, billing, tracing, history>>
  BY DEF Join, IInv
<1>2. Nobody \notin Requests /\ u \in Users BY PlatformAssumption DEF Nobody
<1>3. Others(Nobody, {"promote"}) BY <1>1, <1>2, Overtakes
<1>4. HistoryGrows BY <1>1, HistoryStays
<1>5. PlatformTypeOK' BY <1>1, <1>2, <1>3 DEF PlatformTypeOK, Others, tenants, billing, tracing
<1>6. Len(orgs) \in Nat /\ Len(companies) \in Nat /\ Len(razorpay) \in Nat
  BY <1>1 DEF PlatformTypeOK
<1>7. Grows({"promote"}) BY <1>1, <1>6 DEF Grows, tenants, billing, tracing
<1>8. \A x \in Requests : RequestFits(x)' BY <1>2, <1>3, <1>7, OthersFit DEF IInv
<1>9. SomebodyCan' BY <1>1, <1>4, SomebodyStays DEF IInv
<1>10. ActsAreKnown' BY <1>1, ActsStay DEF IInv
<1>11. CompaniesAreOwned' BY <1>1, <1>2, <1>3, <1>4, OwnedStay DEF IInv, tenants
<1>12. ActiveIsPaid' /\ SubsRefer'
  <2>1. /\ sub' = sub /\ Len(orgs') = Len(orgs) /\ Len(razorpay') \in Nat /\ Len(razorpay) \in Nat
        /\ Len(razorpay) <= Len(razorpay')
        /\ \A s \in 1..Len(razorpay) : razorpay[s].paid => razorpay'[s].paid
    BY <1>1, <1>6 DEF billing, tenants
  <2> QED BY <1>1, <1>4, <2>1, PaidStays DEF IInv
<1> QED BY <1>5, <1>8, <1>9, <1>10, <1>11, <1>12 DEF IInv
-----------------------------------------------------------------------------
(* Subscriptions *)

\* Organisations' plans, their documents and Razorpay's subscriptions change.
LEMMA BillingStep ==
  ASSUME IInv, NEW r, NEW places, Others(r, places), HistoryGrows,
         UNCHANGED <<people, companies, tracing>>,
         orgs' \in Seq(Org), Len(orgs') = Len(orgs),
         sub' \in Seq(Sub), Len(sub') = Len(sub),
         razorpay' \in Seq(Order), Len(razorpay) <= Len(razorpay'),
         \A s \in 1..Len(razorpay) : razorpay[s].paid => razorpay'[s].paid,
         "active" \in places \/ \A o \in 1..Len(sub) : sub'[o].ref = sub[o].ref,
         r \in Requests => request[r].at # "member" /\ RequestFits(r)',
         ActiveIsPaid', SubsRefer'
  PROVE  IInv'
<1>1. PlatformTypeOK BY DEF IInv
<1>2. PlatformTypeOK' BY <1>1 DEF PlatformTypeOK, Others, HistoryGrows, people, tracing
<1>3. /\ Len(orgs) \in Nat /\ Len(companies) \in Nat /\ Len(razorpay) \in Nat
      /\ Len(razorpay') \in Nat /\ Len(sub) = Len(orgs)
  BY <1>1 DEF PlatformTypeOK
<1>4. Grows(places) BY <1>3 DEF Grows, people, tracing
<1>5. \A x \in Requests : RequestFits(x)' BY <1>4, OthersFit DEF IInv
<1>6. SomebodyCan' BY SomebodyStays DEF IInv, people
<1>7. ActsAreKnown' BY ActsStay DEF IInv
<1>8. CompaniesAreOwned' BY OwnedStay DEF IInv
<1> QED BY <1>2, <1>5, <1>6, <1>7, <1>8 DEF IInv

LEMMA SubsAre ==
  ASSUME PlatformTypeOK, NEW o \in 1..Len(orgs)
  PROVE  /\ o \in 1..Len(sub) /\ sub[o] \in Sub /\ o \in Nat
         /\ sub[o].plan \in Plans /\ sub[o].ref \in Nat
<1>1. o \in 1..Len(sub) /\ sub[o] \in Sub BY DEF PlatformTypeOK
<1> QED BY <1>1 DEF Sub

LEMMA SubscribeInv == ASSUME IInv, NEW r \in Requests, Subscribe(r) PROVE IInv'
<1> DEFINE n == Len(razorpay) + 1
<1>1. PlatformTypeOK /\ UNCHANGED <<people, tenants, sub, tracing>> BY DEF IInv, Subscribe
<1>2. PICK o \in 1..Len(orgs), p \in Plans \ {Free} :
        /\ Begin(r, [Idle EXCEPT !.at = "link", !.org = o, !.plan = p, !.ref = n])
        /\ razorpay' = Append(razorpay, [org |-> o, plan |-> p, paid |-> FALSE])
  BY DEF Subscribe
<1> DEFINE e == [org |-> o, plan |-> p, paid |-> FALSE]
           q == [Idle EXCEPT !.at = "link", !.org = o, !.plan = p, !.ref = n]
<1>3. o \in Nat /\ n \in Nat BY <1>1 DEF PlatformTypeOK
<1>4. e \in Order /\ q \in Request /\ q.at = "link" /\ q.org = o /\ q.ref = n
  BY <1>3, IdleFits DEF Order, Request, Places
<1>5. /\ razorpay' = Append(razorpay, e) /\ request' = [request EXCEPT ![r] = q]
      /\ request[r].at = "rest" /\ history' = [history EXCEPT !.starts = @ + 1]
  BY <1>2 DEF Begin, At
<1> HIDE DEF e, q
<1>6. /\ razorpay' \in Seq(Order) /\ Len(razorpay') = n /\ Len(razorpay) \in Nat
      /\ \A s \in 1..Len(razorpay) : razorpay'[s] = razorpay[s]
  BY <1>1, <1>4, <1>5, AppendAt DEF PlatformTypeOK
<1>7. /\ Others(r, {}) /\ request'[r] = q /\ HistoryGrows
  BY <1>1, <1>4, <1>5, Moves, StartCounts
<1>8. /\ Len(razorpay) <= Len(razorpay')
      /\ \A s \in 1..Len(razorpay) : razorpay[s].paid => razorpay'[s].paid
      /\ n \in 1..Len(razorpay') /\ Len(razorpay') \in Nat
  BY <1>3, <1>6
<1>9. /\ orgs' = orgs /\ companies' = companies /\ sub' = sub
      /\ orgs' \in Seq(Org) /\ sub' \in Seq(Sub)
  BY <1>1 DEF tenants, PlatformTypeOK
<1>10. RequestFits(r)' BY <1>2, <1>4, <1>7, <1>8, <1>9 DEF RequestFits
<1>11. ActiveIsPaid' /\ SubsRefer'
  BY <1>1, <1>6, <1>7, <1>8, <1>9, PaidStays DEF IInv
<1> QED BY <1>1, <1>5, <1>6, <1>7, <1>8, <1>9, <1>10, <1>11, BillingStep

LEMMA PayInv == ASSUME IInv, NEW s \in 1..Len(razorpay), Pay(s) PROVE IInv'
<1> DEFINE e == [razorpay[s] EXCEPT !.paid = TRUE]
<1>1. /\ PlatformTypeOK /\ razorpay' = [razorpay EXCEPT ![s] = e]
      /\ UNCHANGED <<people, tenants, sub, tracing, request, history>>
  BY DEF IInv, Pay
<1>2. e \in Order /\ e.paid
  <2>1. razorpay[s] \in Order BY <1>1 DEF PlatformTypeOK
  <2> QED BY <2>1 DEF Order
<1> HIDE DEF e
<1>3. /\ razorpay' \in Seq(Order) /\ Len(razorpay') = Len(razorpay) /\ Len(razorpay) \in Nat
      /\ \A k \in 1..Len(razorpay) : razorpay'[k] = IF k = s THEN e ELSE razorpay[k]
  BY <1>1, <1>2, ExceptAt DEF PlatformTypeOK
<1>4. /\ Len(razorpay) <= Len(razorpay') /\ Len(razorpay') \in Nat
      /\ \A k \in 1..Len(razorpay) : razorpay[k].paid => razorpay'[k].paid
  BY <1>2, <1>3
<1>5. Others(Nobody, {}) /\ HistoryGrows
  BY <1>1, HistoryStays DEF Others, PlatformTypeOK
<1>6. /\ orgs' = orgs /\ companies' = companies /\ sub' = sub /\ Nobody \notin Requests
      /\ orgs' \in Seq(Org) /\ sub' \in Seq(Sub)
  BY <1>1, PlatformAssumption DEF tenants, PlatformTypeOK, Nobody
<1>7. ActiveIsPaid' /\ SubsRefer'
  BY <1>1, <1>3, <1>4, <1>5, <1>6, PaidStays DEF IInv
<1> QED BY <1>1, <1>3, <1>4, <1>5, <1>6, <1>7, BillingStep

\* A request changes one document; what it makes active is paid, or was set.
LEMMA DocumentStep ==
  ASSUME IInv, NEW r \in Requests, NEW places, Others(r, places), HistoryGrows,
         UNCHANGED <<people, tenants, razorpay, tracing>>,
         NEW o \in 1..Len(orgs), NEW e \in Sub, sub' = [sub EXCEPT ![o] = e],
         "active" \in places \/ e.ref = sub[o].ref,
         e.ref # 0 => e.ref \in 1..Len(razorpay),
         e.status = "active" /\ e.ref # 0 =>
           \/ razorpay[e.ref].paid
           \/ <<o, e.plan>> \in history'.set
           \/ o \in history'.excused,
         request[r].at # "member", RequestFits(r)'
  PROVE  IInv'
<1>1. PlatformTypeOK BY DEF IInv
<1>2. /\ sub' \in Seq(Sub) /\ Len(sub') = Len(sub) /\ Len(sub) = Len(orgs)
      /\ \A k \in 1..Len(sub) : sub'[k] = IF k = o THEN e ELSE sub[k]
  BY <1>1, ExceptAt DEF PlatformTypeOK
<1>3. /\ orgs' = orgs /\ companies' = companies
      /\ orgs' \in Seq(Org) /\ razorpay' \in Seq(Order) /\ Len(razorpay) <= Len(razorpay')
      /\ \A s \in 1..Len(razorpay) : razorpay[s].paid => razorpay'[s].paid
  BY <1>1 DEF tenants, PlatformTypeOK
<1>4. "active" \in places \/ \A k \in 1..Len(sub) : sub'[k].ref = sub[k].ref
  BY <1>2
<1>5. SubsRefer' BY <1>2 DEF SubsRefer, IInv
<1>6. ActiveIsPaid'
  <2> SUFFICES ASSUME NEW k \in 1..Len(orgs'), sub'[k].status = "active", sub'[k].ref # 0
               PROVE  \/ razorpay'[sub'[k].ref].paid
                      \/ <<k, sub'[k].plan>> \in history'.set
                      \/ k \in history'.excused
    BY DEF ActiveIsPaid
  <2>1. CASE k = o BY <1>2, <1>3, <2>1
  <2>2. CASE k # o
    <3>1. sub'[k] = sub[k] BY <1>2, <1>3, <2>2
    <3> QED BY <1>3, <3>1 DEF IInv, ActiveIsPaid, HistoryGrows
  <2> QED BY <2>1, <2>2
<1> QED BY <1>2, <1>3, <1>4, <1>5, <1>6, BillingStep

LEMMA SubscribeLinkInv == ASSUME IInv, NEW r \in Requests, SubscribeLink(r) PROVE IInv'
<1> DEFINE q == request[r]
           e == [plan |-> q.plan, status |-> "created", ref |-> q.ref]
<1>1. /\ PlatformTypeOK /\ q.at = "link"
      /\ sub' = [sub EXCEPT ![q.org] = e]
      /\ request' = Overtaking(r, {"active", "copy"}, Idle)
      /\ history' = [history EXCEPT !.begun = @ \cup {request[r].ref}]
      /\ UNCHANGED <<people, tenants, razorpay, tracing>>
  BY DEF IInv, SubscribeLink, At
<1>2. q.org \in 1..Len(orgs) /\ q.ref \in 1..Len(razorpay)
  BY <1>1 DEF IInv, RequestFits
<1>3. e \in Sub /\ e.status = "created" /\ e.ref = q.ref BY <1>1, RequestType DEF Sub
<1>4. HistoryGrows
  <2>1. history.begun \cup {q.ref} \in SUBSET Nat
    BY <1>1, RequestType DEF PlatformTypeOK, History
  <2> QED BY <1>1, <2>1 DEF PlatformTypeOK, History, HistoryGrows
<1>5. Others(r, {"active", "copy"}) /\ RequestFits(r)'
  BY <1>1, IdleFits, Overtakes, DoneFits
<1> HIDE DEF e, q
<1>6. request[r].at # "member" BY <1>1 DEF q
<1> QED BY <1>1, <1>2, <1>3, <1>4, <1>5, <1>6, DocumentStep

LEMMA WebhookActiveInv == ASSUME IInv, NEW r \in Requests, WebhookActive(r) PROVE IInv'
<1> DEFINE o == request[r].org
           e == [sub[o] EXCEPT !.status = "active"]
           q == [request[r] EXCEPT !.at = "copy"]
<1>1. /\ PlatformTypeOK /\ request[r].at = "active"
      /\ sub' = [sub EXCEPT ![o] = e]
      /\ request' = [request EXCEPT ![r] = q]
      /\ history' = [history EXCEPT !.excused = IF request[r].overtaken THEN @ \cup {o} ELSE @]
      /\ UNCHANGED <<people, tenants, razorpay, tracing>>
  BY DEF IInv, WebhookActive, At, Go
<1>2. /\ o \in 1..Len(orgs)
      /\ ~request[r].overtaken => sub[o].ref = request[r].ref /\ razorpay[request[r].ref].paid
  BY <1>1 DEF IInv, RequestFits
<1>3. /\ e \in Sub /\ e.ref = sub[o].ref
      /\ q \in Request /\ q.at = "copy" /\ q.org = o
  BY SMTT(30), <1>1, <1>2, SubsAre, RequestType DEF Sub, Request, Places
<1>4. HistoryGrows /\ (request[r].overtaken => o \in history'.excused)
  <2>1. PICK x \in SUBSET Nat :
          /\ x = IF request[r].overtaken THEN history.excused \cup {o} ELSE history.excused
          /\ history' = [history EXCEPT !.excused = x]
    <3> DEFINE x == IF request[r].overtaken THEN history.excused \cup {o} ELSE history.excused
    <3>1. x \in SUBSET Nat BY <1>1, RequestType DEF PlatformTypeOK, History
    <3> QED BY <1>1, <3>1
  <2> QED BY <1>1, <2>1 DEF PlatformTypeOK, History, HistoryGrows
<1> HIDE DEF e, q, o
<1>5. Others(r, {}) /\ request'[r] = q BY <1>1, <1>3, Moves
<1>6. RequestFits(r)' BY <1>1, <1>2, <1>3, <1>5 DEF RequestFits, tenants
<1>7. e.ref # 0 => e.ref \in 1..Len(razorpay)
  BY <1>1, <1>2, <1>3, SubsAre DEF IInv, SubsRefer
<1>8. request[r].overtaken \in BOOLEAN BY <1>1, RequestType
<1> QED BY <1>1, <1>2, <1>3, <1>4, <1>5, <1>6, <1>7, <1>8, DocumentStep

LEMMA SetPlanSubInv == ASSUME IInv, NEW r \in Requests, SetPlanSub(r) PROVE IInv'
<1> DEFINE o == request[r].org
           e == [sub[o] EXCEPT !.plan = request[r].plan, !.status = "active"]
<1>1. /\ PlatformTypeOK /\ request[r].at = "plan"
      /\ sub' = [sub EXCEPT ![o] = e]
      /\ request' = Overtaking(r, {"active", "copy"}, Idle)
      /\ history' = [history EXCEPT !.set = @ \cup {<<o, request[r].plan>>}]
      /\ UNCHANGED <<people, tenants, razorpay, tracing>>
  BY DEF IInv, SetPlanSub, At
<1>2. o \in 1..Len(orgs) BY <1>1 DEF IInv, RequestFits
<1>3. e \in Sub /\ e.ref = sub[o].ref /\ e.plan = request[r].plan
  BY <1>1, <1>2, SubsAre, RequestType DEF Sub
<1>4. HistoryGrows /\ <<o, e.plan>> \in history'.set
  <2> DEFINE x == history.set \cup {<<o, request[r].plan>>}
  <2>1. x \in SUBSET (Nat \X Plans)
    BY <1>1, RequestType DEF PlatformTypeOK, History
  <2>2. /\ history.set \subseteq x /\ <<o, e.plan>> \in x
        /\ history' = [history EXCEPT !.set = x]
    BY <1>1, <1>3
  <2> HIDE DEF x, o, e
  <2> QED BY <1>1, <2>1, <2>2 DEF PlatformTypeOK, History, HistoryGrows
<1>5. Others(r, {"active", "copy"}) /\ RequestFits(r)'
  BY <1>1, IdleFits, Overtakes, DoneFits
<1>6. e.ref # 0 => e.ref \in 1..Len(razorpay)
  BY <1>1, <1>2, <1>3, SubsAre DEF IInv, SubsRefer
<1> HIDE DEF e, o
<1> QED BY <1>1, <1>2, <1>3, <1>4, <1>5, <1>6, DocumentStep

\* The plan of an organisation: nothing but its companies' limit hangs on it.
LEMMA PlanStep ==
  ASSUME IInv, NEW r \in Requests, NEW places, Others(r, places), HistoryGrows,
         UNCHANGED <<people, companies, billing, tracing>>,
         NEW o \in 1..Len(orgs), NEW p \in Plans, orgs' = [orgs EXCEPT ![o].plan = p],
         request[r].at # "member",
         Len(orgs') = Len(orgs) => RequestFits(r)'
  PROVE  IInv'
<1> DEFINE e == [orgs[o] EXCEPT !.plan = p]
<1>1. PlatformTypeOK BY DEF IInv
<1>2. e \in Org BY <1>1, OrgsAre DEF Org
<1>3. orgs' = [orgs EXCEPT ![o] = e] OBVIOUS
<1> HIDE DEF e
<1>4. orgs' \in Seq(Org) /\ Len(orgs') = Len(orgs)
  <2>1. orgs \in Seq(Org) BY <1>1 DEF PlatformTypeOK
  <2>2. /\ [orgs EXCEPT ![o] = e] \in Seq(Org)
        /\ Len([orgs EXCEPT ![o] = e]) = Len(orgs)
    BY <1>2, <2>1, ExceptAt
  <2> QED BY <1>3, <2>2
<1>5. /\ sub' = sub /\ razorpay' = razorpay
      /\ sub' \in Seq(Sub) /\ razorpay' \in Seq(Order) /\ Len(razorpay) <= Len(razorpay')
      /\ \A s \in 1..Len(razorpay) : razorpay[s].paid => razorpay'[s].paid
      /\ Len(razorpay) \in Nat /\ Len(razorpay') \in Nat
  BY <1>1 DEF billing, PlatformTypeOK
<1>6. ActiveIsPaid' /\ SubsRefer'
  BY <1>1, <1>4, <1>5, PaidStays DEF IInv
<1> QED BY <1>4, <1>5, <1>6, BillingStep

LEMMA SetPlanInv == ASSUME IInv, NEW r \in Requests, SetPlan(r) PROVE IInv'
<1>1. PlatformTypeOK /\ UNCHANGED <<people, companies, billing, tracing>> BY DEF IInv, SetPlan
<1>2. PICK u \in operators, o \in 1..Len(orgs), p \in Plans :
        /\ Begin(r, [Idle EXCEPT !.at = "plan", !.by = u, !.org = o, !.plan = p])
        /\ orgs' = [orgs EXCEPT ![o].plan = p]
  BY DEF SetPlan
<1> DEFINE q == [Idle EXCEPT !.at = "plan", !.by = u, !.org = o, !.plan = p]
<1>3. q \in Request /\ q.at = "plan" /\ q.org = o
  <2>1. u \in Users /\ o \in Nat BY <1>1 DEF PlatformTypeOK
  <2> QED BY <2>1, IdleFits DEF Request, Places, Person
<1>4. /\ request' = [request EXCEPT ![r] = q] /\ request[r].at = "rest"
      /\ history' = [history EXCEPT !.starts = @ + 1]
  BY <1>2 DEF Begin, At
<1> HIDE DEF q
<1>5. Others(r, {}) /\ request'[r] = q /\ HistoryGrows
  BY <1>1, <1>3, <1>4, Moves, StartCounts
<1>6. Len(orgs') = Len(orgs) => RequestFits(r)' BY <1>3, <1>5 DEF RequestFits
<1> QED BY <1>1, <1>2, <1>4, <1>5, <1>6, PlanStep

LEMMA WebhookCopyInv == ASSUME IInv, NEW r \in Requests, WebhookCopy(r) PROVE IInv'
<1>1. /\ PlatformTypeOK /\ request[r].at = "copy"
      /\ orgs' = [orgs EXCEPT ![request[r].org].plan = request[r].plan]
      /\ request' = [request EXCEPT ![r] = Idle]
      /\ history' = [history EXCEPT !.granted = @ \cup {request[r].ref}]
      /\ UNCHANGED <<people, companies, billing, tracing>>
  BY DEF IInv, WebhookCopy, At, Done
<1>2. request[r].org \in 1..Len(orgs) /\ request[r].plan \in Plans
  BY <1>1, RequestType DEF IInv, RequestFits
<1>3. HistoryGrows
  <2>1. history.granted \cup {request[r].ref} \in SUBSET Nat
    BY <1>1, RequestType DEF PlatformTypeOK, History
  <2> QED BY <1>1, <2>1 DEF PlatformTypeOK, History, HistoryGrows
<1>4. Others(r, {}) /\ RequestFits(r)' BY <1>1, IdleFits, Moves, DoneFits
<1> QED BY <1>1, <1>2, <1>3, <1>4, PlanStep
-----------------------------------------------------------------------------
(* Operators *)

\* Operators come and go; of the rest nothing changes.
LEMMA OperatorStep ==
  ASSUME IInv, NEW r \in Requests, NEW places, Others(r, places),
         history' \in History, history.excused \subseteq history'.excused,
         history.set \subseteq history'.set, history.cut \subseteq history'.cut,
         UNCHANGED <<members, tenants, billing, tracing>>,
         operators' \subseteq Users, disabled' \subseteq Users,
         "revoke" \in places \/ \A u \in operators \ disabled : u \in operators' \ disabled',
         "disable" \in places \/ operators' \subseteq operators,
         request[r].at # "member", request'[r].at = "rest", SomebodyCan'
  PROVE  IInv'
<1>1. PlatformTypeOK BY DEF IInv
<1>2. PlatformTypeOK' BY <1>1 DEF PlatformTypeOK, Others, tenants, billing, tracing
<1>3. Len(orgs) \in Nat /\ Len(companies) \in Nat /\ Len(razorpay) \in Nat
  BY <1>1 DEF PlatformTypeOK
<1>4. Grows(places) BY <1>3 DEF Grows, tenants, billing, tracing
<1>5. \A x \in Requests : RequestFits(x)' BY <1>4, OthersFit, DoneFits DEF IInv
<1>6. ActsAreKnown' BY ActsStay DEF IInv
<1>7. CompaniesAreOwned' BY DEF IInv, CompaniesAreOwned, Others, tenants
<1>8. SubsRefer' /\ ActiveIsPaid'
  BY DEF IInv, SubsRefer, ActiveIsPaid, tenants, billing
<1> QED BY <1>2, <1>5, <1>6, <1>7, <1>8 DEF IInv

LEMMA PromoteWriteInv == ASSUME IInv, NEW r \in Requests, PromoteWrite(r) PROVE IInv'
<1> DEFINE w == request[r].whom
<1>1. /\ PlatformTypeOK /\ request[r].at = "promote"
      /\ operators' = operators \cup {w} /\ disabled' = disabled \ {w}
      /\ request' = Overtaking(r, {"disable"}, Idle)
      /\ history' = [history EXCEPT
           !.customers = IF w \in members /\ ~request[r].overtaken THEN @ \cup {w} ELSE @]
      /\ UNCHANGED <<members, tenants, billing, tracing>>
  BY DEF IInv, PromoteWrite, At
<1>2. w \in Users /\ ~(w \in members /\ ~request[r].overtaken)
  BY <1>1 DEF IInv, RequestFits
<1>3. history' = [history EXCEPT !.customers = history.customers] BY <1>1, <1>2
<1>4. HistoryGrows BY <1>1, <1>3 DEF PlatformTypeOK, History, HistoryGrows
<1>5. Others(r, {"disable"}) /\ request'[r].at = "rest" BY <1>1, IdleFits, Overtakes
<1>6. \A u \in operators \ disabled : u \in operators' \ disabled' BY <1>1
<1>7. SomebodyCan' BY <1>4, <1>6 DEF IInv, SomebodyCan, HistoryGrows
<1>8. operators' \subseteq Users /\ disabled' \subseteq Users BY <1>1, <1>2 DEF PlatformTypeOK
<1> HIDE DEF w
<1> QED BY <1>1, <1>4, <1>5, <1>6, <1>7, <1>8, OperatorStep DEF HistoryGrows

\* One less who can: the request counted two, or was overtaken.
LEMMA OverlapIsKept ==
  ASSUME PlatformTypeOK, NEW r \in Requests,
         history' = [history EXCEPT !.overlap = @ \/ request[r].overtaken]
  PROVE  /\ history' \in History /\ history'.customers = history.customers
         /\ history'.excused = history.excused /\ history'.set = history.set
         /\ history'.cut = history.cut
         /\ ~history'.overlap => ~history.overlap /\ ~request[r].overtaken
<1>1. PICK b \in BOOLEAN : /\ b = (history.overlap \/ request[r].overtaken)
                           /\ history' = [history EXCEPT !.overlap = b]
  OBVIOUS
<1> QED BY <1>1 DEF PlatformTypeOK, History

LEMMA RevokeWriteInv == ASSUME IInv, NEW r \in Requests, RevokeWrite(r) PROVE IInv'
<1> DEFINE w == request[r].whom
<1>1. /\ PlatformTypeOK /\ request[r].at = "revoke"
      /\ operators' = operators \ {w}
      /\ request' = Overtaking(r, {"revoke"}, Idle)
      /\ history' = [history EXCEPT !.overlap = @ \/ request[r].overtaken]
      /\ UNCHANGED <<disabled, members, tenants, billing, tracing>>
  BY DEF IInv, RevokeWrite, At
<1>2. ~request[r].overtaken => \E u, v \in operators \ disabled : u # v
  BY <1>1 DEF IInv, RequestFits
<1>3. /\ history' \in History /\ history'.customers = history.customers
      /\ history'.excused = history.excused /\ history'.set = history.set
      /\ history'.cut = history.cut
      /\ ~history'.overlap => ~history.overlap /\ ~request[r].overtaken
  BY <1>1, OverlapIsKept
<1>4. Others(r, {"revoke"}) /\ request'[r].at = "rest" BY <1>1, IdleFits, Overtakes
<1>5. SomebodyCan'
  <2>1. ~request[r].overtaken => \E u \in operators' : u \notin disabled'
    BY <1>1, <1>2
  <2> QED BY <1>3, <2>1 DEF IInv, SomebodyCan
<1>6. operators' \subseteq Users /\ disabled' \subseteq Users /\ operators' \subseteq operators
  BY <1>1 DEF PlatformTypeOK
<1> HIDE DEF w
<1> QED BY <1>1, <1>3, <1>4, <1>5, <1>6, OperatorStep

LEMMA DisableWriteInv == ASSUME IInv, NEW r \in Requests, DisableWrite(r) PROVE IInv'
<1> DEFINE w == request[r].whom
<1>1. /\ PlatformTypeOK /\ request[r].at = "disable"
      /\ disabled' = disabled \cup {w}
      /\ request' = Overtaking(r, {"revoke"}, Idle)
      /\ history' = [history EXCEPT !.overlap = @ \/ request[r].overtaken]
      /\ UNCHANGED <<operators, members, tenants, billing, tracing>>
  BY DEF IInv, DisableWrite, At
<1>2. w \in Users /\ (~request[r].overtaken => w \notin operators)
  BY <1>1 DEF IInv, RequestFits
<1>3. /\ history' \in History /\ history'.customers = history.customers
      /\ history'.excused = history.excused /\ history'.set = history.set
      /\ history'.cut = history.cut
      /\ ~history'.overlap => ~history.overlap /\ ~request[r].overtaken
  BY <1>1, OverlapIsKept
<1>4. Others(r, {"revoke"}) /\ request'[r].at = "rest" BY <1>1, IdleFits, Overtakes
<1>5. SomebodyCan' BY <1>1, <1>2, <1>3 DEF IInv, SomebodyCan
<1>6. operators' \subseteq Users /\ disabled' \subseteq Users /\ operators' \subseteq operators
  BY <1>1, <1>2 DEF PlatformTypeOK
<1> HIDE DEF w
<1> QED BY <1>1, <1>3, <1>4, <1>5, <1>6, OperatorStep

LEMMA EnableInv == ASSUME IInv, NEW r \in Requests, Enable(r) PROVE IInv'
<1>1. PICK v \in disabled : Begin(r, Idle) /\ disabled' = disabled \ {v}
  BY DEF Enable
<1>2. /\ PlatformTypeOK /\ request[r].at = "rest" /\ request' = [request EXCEPT ![r] = Idle]
      /\ history' = [history EXCEPT !.starts = @ + 1]
      /\ UNCHANGED <<operators, members, tenants, billing, tracing>>
  BY <1>1 DEF IInv, Enable, Begin, At
<1>3. HistoryGrows BY <1>2, StartCounts
<1>4. Others(r, {}) /\ request'[r].at = "rest" BY <1>2, IdleFits, Moves
<1>5. SomebodyCan' BY <1>1, <1>2, <1>3 DEF IInv, SomebodyCan, HistoryGrows
<1>6. /\ operators' \subseteq Users /\ disabled' \subseteq Users /\ operators' \subseteq operators
      /\ \A x \in operators \ disabled : x \in operators' \ disabled'
  BY <1>1, <1>2 DEF PlatformTypeOK
<1> QED BY <1>2, <1>3, <1>4, <1>5, <1>6, OperatorStep DEF HistoryGrows

-----------------------------------------------------------------------------
(* Impersonation *)

\* The session or its trail changes; what was ended stays so.
LEMMA ActStep ==
  ASSUME IInv, NEW r, NEW places, Others(r, places), HistoryGrows,
         UNCHANGED <<people, tenants, billing>>, session' \in Session, trail' \in Trail,
         (session'.state = session.state /\ session'.log = session.log)
           \/ session.state # "ended",
         r \in Requests => request[r].at # "member" /\ RequestFits(r)',
         ActsAreKnown'
  PROVE  IInv'
<1>1. PlatformTypeOK BY DEF IInv
<1>2. PlatformTypeOK' BY <1>1 DEF PlatformTypeOK, Others, HistoryGrows, people, tenants, billing
<1>3. Len(orgs) \in Nat /\ Len(companies) \in Nat /\ Len(razorpay) \in Nat
  BY <1>1 DEF PlatformTypeOK
<1>4. Grows(places) BY <1>3 DEF Grows, people, tenants, billing
<1>5. \A x \in Requests : RequestFits(x)' BY <1>4, OthersFit DEF IInv
<1>6. SomebodyCan' BY SomebodyStays DEF IInv, people
<1>7. CompaniesAreOwned' BY OwnedStay DEF IInv, tenants
<1>8. ActiveIsPaid' /\ SubsRefer'
  <2>1. /\ sub' = sub /\ Len(orgs') = Len(orgs) /\ Len(razorpay') \in Nat /\ Len(razorpay) \in Nat
        /\ Len(razorpay) <= Len(razorpay')
        /\ \A s \in 1..Len(razorpay) : razorpay[s].paid => razorpay'[s].paid
    BY <1>3 DEF billing, tenants
  <2> QED BY <1>1, <2>1, PaidStays DEF IInv
<1> QED BY <1>2, <1>5, <1>6, <1>7, <1>8 DEF IInv

LEMMA ImpersonateBeginInv == ASSUME IInv, NEW r \in Requests, ImpersonateBegin(r) PROVE IInv'
<1>1. /\ PlatformTypeOK /\ session.state = "none" /\ session' = [session EXCEPT !.state = "open"]
      /\ trail' = trail /\ UNCHANGED <<people, tenants, billing>>
  BY DEF IInv, ImpersonateBegin
<1>2. PICK u \in operators : Begin(r, [Idle EXCEPT !.at = "audit", !.by = u])
  BY DEF ImpersonateBegin
<1> DEFINE q == [Idle EXCEPT !.at = "audit", !.by = u]
<1>3. q \in Request /\ q.at = "audit"
  <2>1. u \in Users BY <1>1 DEF PlatformTypeOK
  <2> QED BY <2>1, IdleFits DEF Request, Places, Person
<1>4. /\ request' = [request EXCEPT ![r] = q] /\ request[r].at = "rest"
      /\ history' = [history EXCEPT !.starts = @ + 1]
  BY <1>2 DEF Begin, At
<1> HIDE DEF q
<1>5. Others(r, {}) /\ request'[r] = q /\ HistoryGrows
  BY <1>1, <1>3, <1>4, Moves, StartCounts
<1>6. RequestFits(r)' BY <1>3, <1>5 DEF RequestFits
<1>7. /\ session' \in Session /\ trail' \in Trail
      /\ session'.token = session.token /\ session'.log = session.log
  BY <1>1 DEF PlatformTypeOK, Session
<1>8. ActsAreKnown' BY <1>1, <1>7 DEF IInv, ActsAreKnown
<1> QED BY <1>1, <1>4, <1>5, <1>6, <1>7, <1>8, ActStep

LEMMA ImpersonateAuditInv == ASSUME IInv, NEW r \in Requests, ImpersonateAudit(r) PROVE IInv'
<1>1. /\ PlatformTypeOK /\ request[r].at = "audit"
      /\ trail' = [trail EXCEPT !.started = TRUE] /\ session' = [session EXCEPT !.token = TRUE]
      /\ request' = [request EXCEPT ![r] = Idle]
      /\ UNCHANGED <<people, tenants, billing, history>>
  BY DEF IInv, ImpersonateAudit, At, Done
<1>2. HistoryGrows BY <1>1, HistoryStays
<1>3. Others(r, {}) /\ RequestFits(r)' BY <1>1, IdleFits, Moves, DoneFits
<1>4. /\ session' \in Session /\ trail' \in Trail
      /\ session'.state = session.state /\ session'.log = session.log /\ session'.token
      /\ trail'.started /\ trail'.ended = trail.ended /\ trail'.counted = trail.counted
  BY <1>1 DEF PlatformTypeOK, Session, Trail
<1>5. ActsAreKnown' BY <1>4 DEF IInv, ActsAreKnown
<1> QED BY <1>1, <1>2, <1>3, <1>4, <1>5, ActStep

LEMMA ActInv == ASSUME IInv, Act PROVE IInv'
<1>1. /\ PlatformTypeOK /\ session.token /\ session.state = "open"
      /\ session' = [session EXCEPT !.log = @ + 1]
      /\ UNCHANGED <<people, tenants, billing, trail, request, history>>
  BY DEF IInv, Act
<1>2. HistoryGrows /\ Others(Nobody, {})
  BY <1>1, HistoryStays DEF Others, PlatformTypeOK
<1>3. Nobody \notin Requests BY PlatformAssumption DEF Nobody
<1>4. /\ session' \in Session /\ session'.state = "open" /\ session'.token
      /\ trail' \in Trail /\ trail' = trail
  <2>1. session.log + 1 \in Nat BY <1>1 DEF PlatformTypeOK, Session
  <2> QED BY <1>1, <2>1 DEF PlatformTypeOK, Session
<1>5. ActsAreKnown' BY <1>1, <1>4 DEF IInv, ActsAreKnown
<1> QED BY <1>1, <1>2, <1>3, <1>4, <1>5, ActStep

LEMMA ImpersonateEndInv == ASSUME IInv, NEW r \in Requests, ImpersonateEnd(r) PROVE IInv'
<1> DEFINE q == [Idle EXCEPT !.at = "countActs", !.ref = session.log]
<1>1. /\ PlatformTypeOK /\ session.state = "open" /\ session' = [session EXCEPT !.state = "ended"]
      /\ trail' = trail /\ UNCHANGED <<people, tenants, billing>>
      /\ request' = [request EXCEPT ![r] = q] /\ request[r].at = "rest"
      /\ history' = [history EXCEPT !.starts = @ + 1]
  BY DEF IInv, ImpersonateEnd, Begin, At
<1>2. q \in Request /\ q.at = "countActs" /\ q.ref = session.log
  <2>1. session.log \in Nat BY <1>1 DEF PlatformTypeOK, Session
  <2> QED BY <2>1, IdleFits DEF Request, Places
<1> HIDE DEF q
<1>3. Others(r, {}) /\ request'[r] = q /\ HistoryGrows
  BY <1>1, <1>2, Moves, StartCounts
<1>4. /\ session' \in Session /\ trail' \in Trail /\ session'.state = "ended"
      /\ session'.token = session.token /\ session'.log = session.log
  BY <1>1 DEF PlatformTypeOK, Session
<1>5. RequestFits(r)' BY <1>2, <1>3, <1>4 DEF RequestFits
<1>6. ActsAreKnown' BY <1>1, <1>4 DEF IInv, ActsAreKnown
<1> QED BY <1>1, <1>3, <1>4, <1>5, <1>6, ActStep

LEMMA ImpersonateCountInv == ASSUME IInv, NEW r \in Requests, ImpersonateCount(r) PROVE IInv'
<1>1. /\ PlatformTypeOK /\ request[r].at = "countActs"
      /\ trail' = [trail EXCEPT !.ended = TRUE, !.counted = request[r].ref]
      /\ request' = [request EXCEPT ![r] = Idle]
      /\ UNCHANGED <<people, tenants, billing, session, history>>
  BY DEF IInv, ImpersonateCount, At, Done
<1>2. HistoryGrows BY <1>1, HistoryStays
<1>3. Others(r, {}) /\ RequestFits(r)' BY <1>1, IdleFits, Moves, DoneFits
<1>4. session.state = "ended" /\ request[r].ref = session.log
  BY <1>1 DEF IInv, RequestFits
<1>5. /\ session' \in Session /\ trail' \in Trail
      /\ trail'.started = trail.started /\ trail'.ended /\ trail'.counted = session.log
  BY <1>1, <1>4, RequestType DEF PlatformTypeOK, Trail
<1>6. ActsAreKnown' BY <1>1, <1>4, <1>5 DEF IInv, ActsAreKnown
<1> QED BY <1>1, <1>2, <1>3, <1>5, <1>6, ActStep

-----------------------------------------------------------------------------
(* The behaviours *)

LEMMA InitInv == ASSUME Init PROVE IInv
<1>1. /\ session \in Session /\ session.log = 0 /\ ~session.token
      /\ trail \in Trail /\ ~trail.ended
  BY DEF Init, Session, Trail
<1>2. history \in History /\ history.customers = {} BY DEF Init, History
<1>3. /\ orgs \in Seq(Org) /\ companies \in Seq(Company)
      /\ sub \in Seq(Sub) /\ razorpay \in Seq(Order)
      /\ Len(orgs) = 0 /\ Len(sub) = 0 /\ Len(companies) = 0
  BY DEF Init
<1>4. request \in [Requests -> Request] /\ \A r \in Requests : request[r].at = "rest"
  BY IdleFits DEF Init
<1>5. PlatformTypeOK BY <1>1, <1>2, <1>3, <1>4, PlatformAssumption DEF Init, PlatformTypeOK
<1>6. \A r \in Requests : RequestFits(r) BY <1>4 DEF RequestFits
<1>7. SomebodyCan BY <1>2, PlatformAssumption DEF Init, SomebodyCan
<1>8. ActsAreKnown BY <1>1 DEF ActsAreKnown
<1>9. CompaniesAreOwned /\ SubsRefer /\ ActiveIsPaid
  BY <1>3 DEF CompaniesAreOwned, SubsRefer, ActiveIsPaid
<1> QED BY <1>5, <1>6, <1>7, <1>8, <1>9 DEF IInv

LEMMA StutterInv == ASSUME IInv, UNCHANGED vars PROVE IInv'
BY DEF IInv, vars, PlatformTypeOK, RequestFits, SomebodyCan, ActsAreKnown, CompaniesAreOwned,
       SubsRefer, ActiveIsPaid

LEMMA NextInv == ASSUME IInv, [Next]_vars PROVE IInv'
<1>1. ASSUME NEW r \in Requests, Start(r) PROVE IInv'
  BY <1>1, CompanyBeginInv, SubscribeInv, SetPlanInv, PromoteReadInv, RevokeReadInv,
     DisableReadInv, EnableInv, ImpersonateBeginInv, ImpersonateEndInv DEF Start
<1>2. ASSUME NEW r \in Requests, Proceed(r) PROVE IInv'
  BY <1>2, OrgFoundInv, CompanyCountInv, CompanyNewInv, CompanyMemberInv, CompanyChartInv,
     SubscribeLinkInv, WebhookActiveInv, WebhookCopyInv, SetPlanSubInv, PromoteWriteInv,
     RevokeWriteInv, DisableWriteInv, ImpersonateAuditInv, ImpersonateCountInv DEF Proceed
<1>3. ASSUME NEW r \in Requests, WebhookFind(r) \/ Crash(r) PROVE IInv'
  BY <1>3, WebhookFindInv, CrashInv
<1>4. CASE \E u \in Customers : Join(u) BY <1>4, JoinInv
<1>5. CASE \E s \in 1..Len(razorpay) : Pay(s) BY <1>5, PayInv
<1>6. CASE Act BY <1>6, ActInv
<1>7. CASE UNCHANGED vars BY <1>7, StutterInv
<1> QED BY <1>1, <1>2, <1>3, <1>4, <1>5, <1>6, <1>7 DEF Next

LEMMA Invariance == Spec => []IInv
BY InitInv, NextInv, PTL DEF Spec

\* However many requests overlap or die, somebody can run the platform, nothing is
\* done as somebody else behind the audit's back, and every owner has a company to
\* work in.  (admin/adminService.ts, services/companyService.ts)
THEOREM NobodyIsShutOut == Spec => []NobodyIsLockedOut
<1>1. ASSUME IInv PROVE OperatorsAreFit
  <2>1. operators \subseteq disabled => history.overlap BY <1>1 DEF IInv, SomebodyCan
  <2>2. session.log > 0 => trail.started BY <1>1 DEF IInv, ActsAreKnown
  <2> QED BY <1>1, <2>1, <2>2 DEF IInv, SomebodyCan, ActsAreKnown, OperatorsAreFit
<1>2. ASSUME IInv PROVE OwnerHasACompany
  <2> SUFFICES ASSUME NEW o \in 1..Len(orgs), CompaniesOf(o) # {},
                      \A c \in CompaniesOf(o) : ~companies[c].owned
               PROVE  \/ o \in history.cut
                      \/ \E r \in Requests : At(r, "member") /\ request[r].org = o
    BY DEF OwnerHasACompany
  <2>1. PICK c \in CompaniesOf(o) : ~companies[c].owned OBVIOUS
  <2>2. c \in 1..Len(companies) /\ companies[c].org = o BY DEF CompaniesOf
  <2>3. \A r \in Requests : request[r].at = "member" =>
          companies[request[r].ref].org = request[r].org
    BY <1>2 DEF IInv, RequestFits
  <2> QED BY <1>2, <2>1, <2>2, <2>3 DEF IInv, CompaniesAreOwned, At
<1>3. IInv => NobodyIsLockedOut BY <1>1, <1>2 DEF NobodyIsLockedOut
<1> QED BY <1>3, Invariance, PTL

\* A subscription is active only if it was paid, unless an operator set its plan or
\* its checkout was begun while a webhook of another was handled.
\* (admin/subscriptionService.ts)
THEOREM ActiveSubscriptionIsPaid == Spec => []ActiveIsPaid
<1>1. IInv => ActiveIsPaid BY DEF IInv
<1> QED BY <1>1, Invariance, PTL
=============================================================================
