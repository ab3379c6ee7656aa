-------------------------- MODULE ApprovalsProofs --------------------------
(***************************************************************************)
(* About the copilot, what people decide and the pages they decide on:     *)
(* that what somebody approves takes effect once, that the portal follows  *)
(* the record, that the budget is bounded, that what is shown is what was  *)
(* chosen, that answers fit their questions, and that a page shows what it *)
(* was told it did and offers what the server accepts; for any number of   *)
(* requests, proposals, vendors, actions, tools, conversations, turns,     *)
(* presses and events.                                                     *)
(*                                                                         *)
(* Decisions.  A proposal nobody crossed has at most one request deciding  *)
(* upon it, and the place of that request says whether it has taken        *)
(* effect.  A claim is open while its version is 0, and every decision     *)
(* upon it was read then.  The budget is a set of pairs <<request, call>>: *)
(* those the turns in flight may still record.                             *)
(*                                                                         *)
(* What is shown.  Who waits for the answers has nothing in flight but     *)
(* reads of what was chosen last, or one message of the conversation.      *)
(*                                                                         *)
(* Answers.  A turn no language model had a part in calls the tool of its  *)
(* question, if granted, and then says what that returned.                 *)
(*                                                                         *)
(* Pages.  The tables of routes and pages are read once, a lemma for each  *)
(* router and each page: what a route may change (Changes), who may and    *)
(* through which gate (Guarded, Asks), what it accepts (Takes), and of a   *)
(* page what it loads again (Covers), what it offers (Placed, Answered)    *)
(* and to whom (Readable, Steered).  ScreensInv then follows a change from *)
(* the handler to the screen: the version an act was told of, the reads    *)
(* begun since, and the copy they leave.                                   *)
(***************************************************************************)
EXTENDS Approvals, Chosen, Answers, Screens, FiniteSetTheorems, SequenceTheorems, TLAPS

Places == {"rest", "chat", "record", "tool", "match", "approve", "reject", "extract",
           "bill", "link"} \cup Deciding

Asked == [at : Places, id : Nat,
          kind : Kinds \cup Actions \cup Users \cup Vendors
                   \cup {"none", "read", "answer", "invented"},
          calls : 0..(MaxTools + 2), tools : BOOLEAN, seen : Nat,
          was : Actions \cup {None}, crossed : BOOLEAN]

Proposal == [kind : Kinds, status : {"proposed", "confirmed", "rejected", "expired"},
             late : BOOLEAN, runs : Nat, crossed : BOOLEAN]

History == [starts : Nat, failures : Nat, spent : Nat, lost : Nat, crossed : BOOLEAN,
            excused : BOOLEAN]

Record == [action : Actions \cup {None}, pendings : Nat, pushed : BOOLEAN, matched : BOOLEAN]

Expense  == [status : {"submitted", "approved", "rejected"}, by : Users, version : Nat,
             posted : Nat]
Document == [state : {"absent", "uploaded", "extracted"}, bill : Vendors \cup {None}]

\* Requests, proposals and records are well typed.  A model that may be called may be
\* called once more, and what was asked of it waits to be recorded.
ApprovalsTypeOK ==
  /\ usage \in Nat /\ proposals \in Seq(Proposal)
  /\ request \in [Requests -> Asked]
  /\ \A r \in Requests :
       /\ request[r].at = "act" => request[r].kind \in Actions
       /\ request[r].at \in {"chat", "tool"} => request[r].calls <= MaxTools + 1
       /\ request[r].at = "tool" => /\ request[r].calls <= MaxTools
                                    /\ request[r].kind \in Kinds \cup {"read"}
       /\ request[r].at = "record" => request[r].calls >= 1
  /\ history \in History
  /\ ims \in Record

-----------------------------------------------------------------------------
(* Proposals *)

Decides(r, p) == request[r].at \in Deciding /\ request[r].id = p
HasRun(r)     == request[r].at \in {"save", "push", "pushed"}

\* Who decides upon a proposal alone finds it open, and has run it or not, as his
\* place says; with nobody at it, it has run if it was confirmed.
Decided(p) ==
  /\ \A r, x \in Requests : Decides(r, p) /\ Decides(x, p) => r = x
  /\ \A r \in Requests : Decides(r, p) =>
       /\ proposals[p].status = "proposed"
       /\ proposals[p].runs = (IF HasRun(r) THEN 1 ELSE 0)
  /\ proposals[p].runs <= 1
  /\ proposals[p].status \in {"rejected", "expired"} => proposals[p].runs = 0
  /\ proposals[p].status = "proposed" /\ (\A r \in Requests : ~Decides(r, p))
       => proposals[p].runs = 0

\* A request that decides has a proposal, but for what a person does to a record.
AimsAt(r) ==
  request[r].at \in Deciding =>
    /\ request[r].id \in 0..Len(proposals)
    /\ request[r].id = 0 => request[r].at \in {"act", "push", "pushed"}

DecidedOnce ==
  /\ \A r \in Requests : AimsAt(r)
  /\ \A p \in 1..Len(proposals) : ~proposals[p].crossed => Decided(p)

-----------------------------------------------------------------------------
(* Claims and bills *)

\* A claim is open while nobody has written it, and who decides upon it read it then.
ClaimDecidedOnce ==
  /\ expense \in Expense
  /\ expense.version = 0 <=> expense.status = "submitted"
  /\ expense.posted = (IF expense.status = "approved" THEN 1 ELSE 0)
  /\ expense.status = "approved" => expense.by # Author
  /\ \A r \in Requests : request[r].at \in {"approve", "reject"} =>
       request[r].seen = 0 /\ request[r].kind \in Users \ {Author}

Billing(r) == request[r].at \in {"bill", "link"}

\* One request at most makes a bill uncrossed, and finds none.
BilledOnce ==
  /\ bills = {} \/ \E v \in Vendors : bills = {v}
  /\ bills = {} \/ document.bill # None \/ \E x \in Requests : At(x, "link")
  /\ \A r, x \in Requests : Billing(r) /\ Billing(x) /\ ~request[r].crossed
                              /\ ~request[x].crossed => r = x
  /\ \A r \in Requests : /\ At(r, "bill") /\ ~request[r].crossed => bills = {}
                         /\ At(r, "link") => ~request[r].crossed

VendorsAreNamed ==
  /\ document \in Document
  /\ \A r \in Requests : Billing(r) => request[r].kind \in Vendors

-----------------------------------------------------------------------------
(* The portal *)

\* One push at a time is under way, and it is of what is saved here.
PushFollows ==
  /\ \A r, x \in Requests : At(r, "push") /\ At(x, "push") => r = x
  /\ \A r \in Requests : At(r, "push") => ims.action = request[r].kind
  /\ (\A r \in Requests : ~At(r, "push")) => gsp = ims.action

-----------------------------------------------------------------------------
(* The budget *)

Calls == Requests \X (1..(MaxTools + 2))
Bound == Quota + Cardinality(Requests) * (MaxTools + 2)

\* The calls made that wait to be recorded, and all those the turns in flight may
\* record.
Pending == {c \in Calls : At(c[1], "record") /\ request[c[1]].calls = c[2]}
Left    == {c \in Calls : \/ At(c[1], "record") /\ request[c[1]].calls <= c[2]
                          \/ request[c[1]].at \in {"chat", "tool"} /\ request[c[1]].calls < c[2]}

BudgetKept ==
  /\ history.spent = history.lost + usage + Cardinality(Pending)
  /\ usage + Cardinality(Left) < Bound

IInv ==
  /\ ApprovalsTypeOK
  /\ DecidedOnce
  /\ ClaimDecidedOnce
  /\ ~history.excused => BilledOnce
  /\ VendorsAreNamed
  /\ ~history.crossed => PushFollows
  /\ BudgetKept
-----------------------------------------------------------------------------
(* What one request does *)

USE DEF None, At

\* Every request but r stays where it is.
OnlyThis(r) == \A x \in Requests : x # r => request'[x] = request[x]

\* What r does starts and ends within these places.
Within(r, places) ==
  request[r].at \in places \cup {"rest"} /\ request'[r].at \in places \cup {"rest"}

AskedFits(r) ==
  /\ request[r].at = "act" => request[r].kind \in Actions
  /\ request[r].at \in {"chat", "tool"} => request[r].calls <= MaxTools + 1
  /\ request[r].at = "tool" => /\ request[r].calls <= MaxTools
                               /\ request[r].kind \in Kinds \cup {"read"}
  /\ request[r].at = "record" => request[r].calls >= 1

LEMMA IdleType == Idle \in Asked
BY ApprovalsAssumption DEF Idle, Asked, Places

LEMMA MoveType ==
  ASSUME ApprovalsTypeOK, NEW r \in Requests, NEW q \in Asked,
         request' = [request EXCEPT ![r] = q]
  PROVE  /\ request' \in [Requests -> Asked] /\ request'[r] = q
         /\ OnlyThis(r)
BY DEF ApprovalsTypeOK, OnlyThis

\* Where r goes to another place with all it knows.
LEMMA GoType ==
  ASSUME ApprovalsTypeOK, NEW r \in Requests, NEW place \in Places, Go(r, place)
  PROVE  /\ request' \in [Requests -> Asked] /\ OnlyThis(r)
         /\ request'[r] = [request[r] EXCEPT !.at = place]
         /\ request'[r].at = place /\ request'[r].id = request[r].id
         /\ request'[r].kind = request[r].kind /\ request'[r].seen = request[r].seen
         /\ request'[r].calls = request[r].calls /\ request'[r].crossed = request[r].crossed
<1>1. request[r] \in Asked BY DEF ApprovalsTypeOK
<1> DEFINE q == [request[r] EXCEPT !.at = place]
<1>2. /\ q \in Asked /\ q.at = place /\ q.id = request[r].id /\ q.kind = request[r].kind
      /\ q.seen = request[r].seen /\ q.calls = request[r].calls
      /\ q.crossed = request[r].crossed
  BY <1>1 DEF Asked
<1>3. request' = [request EXCEPT ![r] = q] BY DEF Go
<1> HIDE DEF q
<1>4. request' \in [Requests -> Asked] /\ request'[r] = q /\ OnlyThis(r)
  BY <1>2, <1>3, MoveType
<1> QED BY <1>2, <1>4 DEF q

LEMMA DoneType ==
  ASSUME ApprovalsTypeOK, NEW r \in Requests, Done(r)
  PROVE  /\ request' \in [Requests -> Asked] /\ OnlyThis(r) /\ AskedFits(r)'
         /\ request'[r].at = "rest" /\ request'[r].id = 0
<1>1. request' = [request EXCEPT ![r] = Idle] BY DEF Done
<1>2. request' \in [Requests -> Asked] /\ request'[r] = Idle /\ OnlyThis(r)
  BY <1>1, IdleType, MoveType
<1> QED BY <1>2 DEF Idle, AskedFits

\* A request begins, and is counted.
LEMMA BeginType ==
  ASSUME ApprovalsTypeOK, NEW r \in Requests, NEW q \in Asked, Begin(r, q)
  PROVE  /\ request' \in [Requests -> Asked] /\ OnlyThis(r) /\ request'[r] = q
         /\ request[r].at = "rest" /\ history' \in History
         /\ history'.spent = history.spent /\ history'.lost = history.lost
         /\ history'.crossed = history.crossed /\ history'.excused = history.excused
<1>1. request' = [request EXCEPT ![r] = q] BY DEF Begin
<1>2. request' \in [Requests -> Asked] /\ request'[r] = q /\ OnlyThis(r)
  BY <1>1, MoveType
<1> QED BY <1>2 DEF Begin, ApprovalsTypeOK, History

\* The type of the rest follows from that of what one request does.
LEMMA TypeStep ==
  ASSUME ApprovalsTypeOK, NEW r \in Requests, request' \in [Requests -> Asked],
         OnlyThis(r), AskedFits(r)', usage' \in Nat, proposals' \in Seq(Proposal),
         history' \in History, ims' \in Record
  PROVE  ApprovalsTypeOK'
BY DEF ApprovalsTypeOK, OnlyThis, AskedFits

-----------------------------------------------------------------------------
(* What a request leaves alone *)

\* Nobody decides upon a proposal, or ceases to.
LEMMA NothingDecided ==
  ASSUME DecidedOnce, NEW r \in Requests, OnlyThis(r), proposals' = proposals,
         request[r].at \notin Deciding, request'[r].at \notin Deciding
  PROVE  DecidedOnce'
<1>a. \A x \in Requests : AimsAt(x)' BY DEF DecidedOnce, AimsAt, OnlyThis
<1> SUFFICES ASSUME NEW p \in 1..Len(proposals), ~proposals[p].crossed PROVE Decided(p)'
  BY <1>a DEF DecidedOnce
<1>1. Decided(p) BY DEF DecidedOnce
<1>2. \A x \in Requests : Decides(x, p)' <=> Decides(x, p) BY DEF Decides, OnlyThis
<1>3. \A x \in Requests : Decides(x, p) => x # r BY DEF Decides
<1>4. \A x \in Requests : Decides(x, p) => (HasRun(x)' <=> HasRun(x))
  BY <1>3 DEF HasRun, OnlyThis
<1> QED BY <1>1, <1>2, <1>4 DEF Decided

\* Nobody decides upon the claim.
LEMMA NothingClaimed ==
  ASSUME ClaimDecidedOnce, NEW r \in Requests, OnlyThis(r), expense' = expense,
         request'[r].at \notin {"approve", "reject"}
  PROVE  ClaimDecidedOnce'
<1>1. \A x \in Requests : request'[x].at \in {"approve", "reject"} =>
        request'[x].seen = 0 /\ request'[x].kind \in Users \ {Author}
  BY DEF ClaimDecidedOnce, OnlyThis
<1> QED BY <1>1 DEF ClaimDecidedOnce

\* Nobody bills the document, or somebody ceases to before he has.
LEMMA NothingBilled ==
  ASSUME ~history.excused => BilledOnce, VendorsAreNamed, NEW r \in Requests, OnlyThis(r),
         bills' = bills, document' \in Document, document'.bill = document.bill,
         history'.excused = history.excused,
         request[r].at # "link", request'[r].at \notin {"bill", "link"}
  PROVE  (~history.excused => BilledOnce)' /\ VendorsAreNamed'
<1>1. \A x \in Requests : Billing(x)' => Billing(x) /\ request'[x] = request[x]
  BY DEF Billing, OnlyThis
<1>2. \A x \in Requests : At(x, "link")' <=> At(x, "link") BY DEF OnlyThis
<1>3. VendorsAreNamed' BY <1>1 DEF VendorsAreNamed
<1>4. ASSUME BilledOnce PROVE BilledOnce'
  <2>1. bills' = {} \/ document'.bill # None \/ \E x \in Requests : At(x, "link")'
    BY <1>2, <1>4 DEF BilledOnce
  <2>2. \A x \in Requests : /\ At(x, "bill")' /\ ~request'[x].crossed => bills' = {}
                            /\ At(x, "link")' => ~request'[x].crossed
    BY <1>1, <1>4 DEF BilledOnce, Billing
  <2>3. \A x, y \in Requests : Billing(x)' /\ Billing(y)' /\ ~request'[x].crossed
                                 /\ ~request'[y].crossed => x = y
    BY <1>1, <1>4 DEF BilledOnce
  <2> QED BY <1>4, <2>1, <2>2, <2>3 DEF BilledOnce
<1> QED BY <1>3, <1>4

\* Nobody pushes to the portal.
LEMMA NothingPushed ==
  ASSUME ~history.crossed => PushFollows, NEW r \in Requests, OnlyThis(r),
         ims'.action = ims.action, gsp' = gsp, history'.crossed = history.crossed,
         request[r].at # "push", request'[r].at # "push"
  PROVE  (~history.crossed => PushFollows)'
<1>1. \A x \in Requests : At(x, "push")' <=> At(x, "push") BY DEF OnlyThis
<1>2. \A x \in Requests : At(x, "push") => request'[x] = request[x] BY DEF OnlyThis
<1>3. ASSUME PushFollows PROVE PushFollows'
  BY <1>1, <1>2, <1>3 DEF PushFollows
<1> QED BY <1>3

-----------------------------------------------------------------------------
(* The budget *)

LEMMA CallsAreFinite ==
  ASSUME NEW S \in SUBSET Calls
  PROVE  /\ IsFiniteSet(S) /\ Cardinality(S) \in Nat
         /\ Quota + Cardinality(S) <= Bound
         /\ Bound \in Nat
         /\ \A T \in SUBSET S : Cardinality(T) <= Cardinality(S)
         /\ \A c : IsFiniteSet(S \cup {c}) /\ (c \notin S => Cardinality(S \cup {c}) = Cardinality(S) + 1)
         /\ \A c \in S : IsFiniteSet(S \ {c}) /\ Cardinality(S \ {c}) = Cardinality(S) - 1
<1>1. IsFiniteSet(1..(MaxTools + 2)) /\ Cardinality(1..(MaxTools + 2)) = MaxTools + 2
  BY ApprovalsAssumption, FS_Interval
<1>2. IsFiniteSet(Calls) /\ Cardinality(Calls) = Cardinality(Requests) * (MaxTools + 2)
  BY <1>1, ApprovalsAssumption, FS_Product DEF Calls
<1>3. Cardinality(Calls) \in Nat BY <1>2, FS_CardinalityType
<1>4. IsFiniteSet(S) /\ Cardinality(S) <= Cardinality(Calls) BY <1>2, FS_Subset
<1>5. Cardinality(S) \in Nat BY <1>4, FS_CardinalityType
<1>6. \A T \in SUBSET S : Cardinality(T) <= Cardinality(S) BY <1>4, FS_Subset
<1>7. \A c : IsFiniteSet(S \cup {c}) /\ (c \notin S => Cardinality(S \cup {c}) = Cardinality(S) + 1)
  BY <1>4, FS_AddElement
<1>8. \A c \in S : IsFiniteSet(S \ {c}) /\ Cardinality(S \ {c}) = Cardinality(S) - 1
  BY <1>4, FS_RemoveElement
<1>9. Bound = Quota + Cardinality(Calls) BY <1>2 DEF Bound
<1>10. Quota + Cardinality(S) <= Bound /\ Bound \in Nat
  BY <1>3, <1>4, <1>5, <1>9, ApprovalsAssumption
<1> QED BY <1>4, <1>5, <1>6, <1>7, <1>8, <1>10

\* No turn calls the model or records a call.
LEMMA NothingSpent ==
  ASSUME BudgetKept, NEW r \in Requests, OnlyThis(r), usage' = usage,
         history'.spent = history.spent, history'.lost = history.lost,
         request[r].at \notin {"chat", "record", "tool"},
         request'[r].at \notin {"chat", "record", "tool"}
  PROVE  BudgetKept'
<1>1. \A c \in Calls : c[1] \in Requests BY DEF Calls
<1>2. Calls' = Calls /\ Bound' = Bound BY DEF Calls, Bound
<1>3. Pending' = Pending BY <1>1, <1>2 DEF Pending, OnlyThis
<1>4. Left' = Left BY <1>1, <1>2 DEF Left, OnlyThis
<1> QED BY <1>2, <1>3, <1>4 DEF BudgetKept

-----------------------------------------------------------------------------
(* Steps that decide upon a proposal *)

\* What is neither begun nor decided stays as it is.
LEMMA OthersDecided ==
  ASSUME NEW r \in Requests, OnlyThis(r), NEW p \in 1..Len(proposals), Decided(p),
         proposals'[p] = proposals[p], ~Decides(r, p),
         ~(request'[r].at \in Deciding /\ request'[r].id = p)
  PROVE  Decided(p)'
<1>1. \A x \in Requests : Decides(x, p)' <=> Decides(x, p) BY DEF Decides, OnlyThis
<1>2. \A x \in Requests : Decides(x, p) => x # r OBVIOUS
<1>3. \A x \in Requests : Decides(x, p) => (HasRun(x)' <=> HasRun(x))
  BY <1>2 DEF HasRun, OnlyThis
<1> QED BY <1>1, <1>3 DEF Decided

\* Who is alone with a proposal goes on with it, or leaves it.
Alone(r, p) == \A x \in Requests : x # r => ~Decides(x, p)

LEMMA OwnDecided ==
  ASSUME NEW r \in Requests, OnlyThis(r), NEW p \in 1..Len(proposals), Alone(r, p),
         \/ /\ request'[r].at \in Deciding /\ request'[r].id = p
            /\ proposals'[p].status = "proposed"
            /\ proposals'[p].runs = (IF request'[r].at \in {"save", "push", "pushed"}
                                     THEN 1 ELSE 0)
         \/ /\ request'[r].at \notin Deciding
            /\ proposals'[p].runs <= 1
            /\ proposals'[p].status # "confirmed" => proposals'[p].runs = 0
  PROVE  Decided(p)'
<1>1. \A x \in Requests : Decides(x, p)' => x = r BY DEF Decides, OnlyThis, Alone
<1>2. CASE /\ request'[r].at \in Deciding /\ request'[r].id = p
           /\ proposals'[p].status = "proposed"
           /\ proposals'[p].runs = (IF request'[r].at \in {"save", "push", "pushed"}
                                    THEN 1 ELSE 0)
  <2>1. Decides(r, p)' BY <1>2 DEF Decides
  <2>2. proposals'[p].runs = (IF HasRun(r)' THEN 1 ELSE 0) BY <1>2 DEF HasRun
  <2>3. proposals'[p].runs <= 1 BY <2>2
  <2> QED BY <1>1, <1>2, <2>1, <2>2, <2>3 DEF Decided
<1>3. CASE /\ request'[r].at \notin Deciding
           /\ proposals'[p].runs <= 1
           /\ proposals'[p].status # "confirmed" => proposals'[p].runs = 0
  <2>1. \A x \in Requests : ~Decides(x, p)' BY <1>1, <1>3 DEF Decides
  <2> QED BY <1>3, <2>1 DEF Decided
<1> QED BY <1>2, <1>3

\* What r did to proposal p is what somebody may do who is alone with it.
Sound(r, p) ==
  ~proposals'[p].crossed =>
    /\ Alone(r, p)
    /\ \/ /\ request'[r].at \in Deciding /\ request'[r].id = p
          /\ proposals'[p].status = "proposed"
          /\ proposals'[p].runs = (IF request'[r].at \in {"save", "push", "pushed"}
                                   THEN 1 ELSE 0)
       \/ /\ request'[r].at \notin Deciding
          /\ proposals'[p].runs <= 1
          /\ proposals'[p].status # "confirmed" => proposals'[p].runs = 0

LEMMA DecideStep ==
  ASSUME DecidedOnce, NEW r \in Requests, OnlyThis(r), Len(proposals') = Len(proposals),
         AimsAt(r)', NEW i,
         request[r].at \in Deciding => request[r].id = i,
         request'[r].at \in Deciding => request'[r].id = i,
         \A p \in 1..Len(proposals) : p # i => proposals'[p] = proposals[p],
         i \in 1..Len(proposals) => Sound(r, i)
  PROVE  DecidedOnce'
<1>1. \A x \in Requests : AimsAt(x)' BY DEF DecidedOnce, AimsAt, OnlyThis
<1>2. ASSUME NEW p \in 1..Len(proposals), ~proposals'[p].crossed PROVE Decided(p)'
  <2>1. CASE p = i BY <1>2, <2>1, OwnDecided DEF Sound
  <2>2. CASE p # i
    <3>1. Decided(p) /\ proposals'[p] = proposals[p] BY <1>2, <2>2 DEF DecidedOnce
    <3>2. ~Decides(r, p) /\ ~(request'[r].at \in Deciding /\ request'[r].id = p)
      BY <2>2 DEF Decides
    <3> QED BY <3>1, <3>2, OthersDecided
  <2> QED BY <2>1, <2>2
<1> QED BY <1>1, <1>2 DEF DecidedOnce

\* One field of one proposal is written.
LEMMA ProposalWritten ==
  ASSUME ApprovalsTypeOK, NEW i \in 1..Len(proposals), NEW w \in Proposal,
         proposals' = [proposals EXCEPT ![i] = w]
  PROVE  /\ proposals' \in Seq(Proposal) /\ Len(proposals') = Len(proposals)
         /\ proposals'[i] = w
         /\ \A p \in 1..Len(proposals) : p # i => proposals'[p] = proposals[p]
BY ExceptSeq DEF ApprovalsTypeOK

\* One proposal may be rewritten.
LEMMA ProposalMapped ==
  ASSUME ApprovalsTypeOK, NEW i, NEW w, i \in 1..Len(proposals) => w \in Proposal,
         proposals' = [p \in 1..Len(proposals) |-> IF p = i THEN w ELSE proposals[p]]
  PROVE  /\ proposals' \in Seq(Proposal) /\ Len(proposals') = Len(proposals)
         /\ \A p \in 1..Len(proposals) : p # i => proposals'[p] = proposals[p]
         /\ i \in 1..Len(proposals) => proposals'[i] = w
<1>1. Len(proposals) \in Nat /\ \A p \in 1..Len(proposals) : proposals[p] \in Proposal
  BY ElementOfSeq, LenProperties DEF ApprovalsTypeOK
<1>2. proposals' \in [1..Len(proposals) -> Proposal] BY <1>1
<1>3. proposals' \in Seq(Proposal) BY <1>1, <1>2, SeqDef
<1>4. Len(proposals') = Len(proposals)
  <2>1. DOMAIN proposals' = 1..Len(proposals) BY <1>2
  <2>2. Len(proposals') \in Nat /\ DOMAIN proposals' = 1..Len(proposals') BY <1>3, LenProperties
  <2> QED BY <1>1, <2>1, <2>2
<1> QED BY <1>3, <1>4

\* Who is alone finds what it left.
LEMMA DecidesAlone ==
  ASSUME ApprovalsTypeOK, DecidedOnce, NEW r \in Requests, NEW i \in 1..Len(proposals),
         Decides(r, i), ~proposals[i].crossed
  PROVE  /\ Alone(r, i) /\ proposals[i].status = "proposed"
         /\ proposals[i].runs = (IF request[r].at \in {"save", "push", "pushed"} THEN 1 ELSE 0)
BY DEF DecidedOnce, Decided, Alone, HasRun
-----------------------------------------------------------------------------
(* What is left to show of a step, by the part of the system it is in *)

LEMMA DecidingStep ==
  ASSUME IInv, ApprovalsTypeOK', DecidedOnce', (~history.crossed => PushFollows)',
         NEW r \in Requests, OnlyThis(r),
         request[r].at \in Deciding \cup {"rest", "match"},
         request'[r].at \in Deciding \cup {"rest", "match"},
         usage' = usage, expense' = expense, paper' = paper,
         history'.spent = history.spent, history'.lost = history.lost,
         history'.excused = history.excused
  PROVE  IInv'
<1>1. ClaimDecidedOnce' BY NothingClaimed DEF IInv, Deciding
<1>2. (~history.excused => BilledOnce)' /\ VendorsAreNamed'
  <2>1. bills' = bills /\ document'.bill = document.bill /\ document' \in Document
    BY DEF paper, IInv, VendorsAreNamed
  <2>2. /\ request[r].at \notin {"bill", "link"}
        /\ request'[r].at \notin {"bill", "link"} BY DEF Deciding
  <2> QED BY <2>1, <2>2, NothingBilled DEF IInv
<1>3. BudgetKept'
  <2>1. /\ request[r].at \notin {"chat", "record", "tool"}
        /\ request'[r].at \notin {"chat", "record", "tool"} BY DEF Deciding
  <2> QED BY <2>1, NothingSpent DEF IInv
<1> QED BY <1>1, <1>2, <1>3 DEF IInv

LEMMA TurnStep ==
  ASSUME IInv, ApprovalsTypeOK', DecidedOnce', BudgetKept', NEW r \in Requests, OnlyThis(r),
         request[r].at \in {"rest", "chat", "record", "tool"},
         request'[r].at \in {"rest", "chat", "record", "tool"},
         expense' = expense, paper' = paper, portal' = portal,
         history'.crossed = history.crossed, history'.excused = history.excused
  PROVE  IInv'
<1>1. ClaimDecidedOnce' BY NothingClaimed DEF IInv
<1>2. (~history.excused => BilledOnce)' /\ VendorsAreNamed'
  BY NothingBilled DEF IInv, VendorsAreNamed, paper
<1>3. (~history.crossed => PushFollows)' BY NothingPushed DEF IInv, portal
<1> QED BY <1>1, <1>2, <1>3 DEF IInv

LEMMA PaperStep ==
  ASSUME IInv, ApprovalsTypeOK', ClaimDecidedOnce', (~history.excused => BilledOnce)',
         VendorsAreNamed', NEW r \in Requests, OnlyThis(r),
         request[r].at \in {"rest", "approve", "reject", "extract", "bill", "link"},
         request'[r].at \in {"rest", "approve", "reject", "extract", "bill", "link"},
         copilot' = copilot, portal' = portal,
         history'.spent = history.spent, history'.lost = history.lost,
         history'.crossed = history.crossed
  PROVE  IInv'
<1>1. DecidedOnce' BY NothingDecided DEF IInv, copilot, Deciding
<1>2. (~history.crossed => PushFollows)' BY NothingPushed DEF IInv, portal
<1>3. BudgetKept' BY NothingSpent DEF IInv, copilot
<1> QED BY <1>1, <1>2, <1>3 DEF IInv

-----------------------------------------------------------------------------
(* A turn *)

LEMMA TurnBeginInv == ASSUME IInv, NEW r \in Requests, TurnBegin(r) PROVE IInv'
<1> DEFINE q == [Idle EXCEPT !.at = "chat"]
<1>1. q \in Asked /\ q.at = "chat" /\ q.calls = 0
  BY IdleType, ApprovalsAssumption DEF Asked, Places, Idle
<1>2. Begin(r, q) /\ UNCHANGED <<copilot, expense, paper, portal>> /\ usage < Quota
  BY DEF TurnBegin
<1> HIDE DEF q
<1>3. ApprovalsTypeOK BY DEF IInv
<1>4. /\ request' \in [Requests -> Asked] /\ OnlyThis(r) /\ request'[r] = q
      /\ request[r].at = "rest" /\ history' \in History
      /\ history'.spent = history.spent /\ history'.lost = history.lost
      /\ history'.crossed = history.crossed /\ history'.excused = history.excused
  BY <1>1, <1>2, <1>3, BeginType
<1>5. AskedFits(r)' BY <1>1, <1>4, ApprovalsAssumption DEF AskedFits
<1>6. ApprovalsTypeOK' BY <1>2, <1>3, <1>4, <1>5, TypeStep DEF copilot, portal, ApprovalsTypeOK
<1>7. DecidedOnce' BY <1>1, <1>2, <1>4, NothingDecided DEF IInv, copilot, Deciding
<1>8. BudgetKept'
  <2>1. \A c \in Calls : c[1] \in Requests BY DEF Calls
  <2>2. Calls' = Calls /\ Bound' = Bound BY DEF Calls, Bound
  <2>3. Pending' = Pending BY <1>1, <1>4, <2>1, <2>2 DEF Pending, OnlyThis
  <2>4. Left' \in SUBSET Calls BY <2>2 DEF Left
  <2>5. Cardinality(Left') \in Nat /\ Quota + Cardinality(Left') <= Bound /\ Bound \in Nat
    BY <2>4, CallsAreFinite
  <2>6. usage' = usage /\ usage \in Nat BY <1>2, <1>3 DEF copilot, ApprovalsTypeOK
  <2>7. usage' + Cardinality(Left') < Bound BY <1>2, <2>5, <2>6, ApprovalsAssumption
  <2> QED BY <1>4, <2>2, <2>3, <2>6, <2>7 DEF IInv, BudgetKept
<1> QED BY <1>1, <1>2, <1>4, <1>6, <1>7, <1>8, TurnStep

LEMMA TurnChatInv == ASSUME IInv, NEW r \in Requests, TurnChat(r) PROVE IInv'
<1>1. ApprovalsTypeOK /\ request[r] \in Asked /\ request[r].at = "chat"
  BY DEF IInv, ApprovalsTypeOK, TurnChat
<1>2. PICK k \in Kinds \cup {"read", "answer", "invented"} :
        request' = [request EXCEPT ![r].at = "record", ![r].kind = k, ![r].calls = @ + 1]
  BY DEF TurnChat
<1> DEFINE n == request[r].calls + 1
           q == [request[r] EXCEPT !.at = "record", !.kind = k, !.calls = n]
<1>3. n \in 1..(MaxTools + 2) /\ n = request[r].calls + 1
  BY <1>1, ApprovalsAssumption DEF ApprovalsTypeOK, Asked
<1>4. request' = [request EXCEPT ![r] = q] BY <1>2
<1> HIDE DEF n
<1>5. q \in Asked /\ q.at = "record" /\ q.calls = n
  <2>1. n \in 0..(MaxTools + 2) BY <1>3, ApprovalsAssumption
  <2>2. k \in Kinds \cup Actions \cup Users \cup Vendors
                \cup {"none", "read", "answer", "invented"}
    OBVIOUS
  <2>3. q \in Asked BY <1>1, <2>1, <2>2 DEF Asked, Places
  <2>4. q.at = "record" /\ q.calls = n BY <1>1 DEF Asked
  <2> QED BY <2>3, <2>4
<1> HIDE DEF q
<1>6. request' \in [Requests -> Asked] /\ request'[r] = q /\ OnlyThis(r)
  BY <1>1, <1>4, <1>5, MoveType
<1>7. /\ UNCHANGED <<copilot, expense, paper, portal>>
      /\ history' = [history EXCEPT !.spent = @ + 1]
  BY DEF TurnChat
<1>8. /\ history' \in History /\ history'.spent = history.spent + 1
      /\ history'.lost = history.lost /\ history'.crossed = history.crossed
      /\ history'.excused = history.excused
  BY <1>1, <1>7 DEF ApprovalsTypeOK, History
<1>9. AskedFits(r)' BY <1>3, <1>5, <1>6 DEF AskedFits
<1>10. ApprovalsTypeOK'
  BY <1>1, <1>6, <1>7, <1>8, <1>9, TypeStep DEF copilot, portal, ApprovalsTypeOK
<1>11. DecidedOnce' BY <1>1, <1>5, <1>6, <1>7, NothingDecided DEF IInv, copilot, Deciding
<1>12. BudgetKept'
  <2>1. \A c \in Calls : c[1] \in Requests /\ c[2] \in 1..(MaxTools + 2) BY DEF Calls
  <2>2. Calls' = Calls /\ Bound' = Bound BY DEF Calls, Bound
  <2>3. <<r, n>> \in Calls BY <1>3 DEF Calls
  <2>4. <<r, n>> \notin Pending BY <1>1 DEF Pending
  <2>5. Pending' = Pending \cup {<<r, n>>}
    <3>1. \A c \in Calls : c \in Pending' <=> c \in Pending \/ c = <<r, n>>
      <4> TAKE c \in Calls
      <4>1. CASE c[1] = r
        <5>1. c = <<r, c[2]>> BY <4>1 DEF Calls
        <5>2. c \in Pending' <=> n = c[2]
          BY <1>5, <1>6, <2>2, <4>1 DEF Pending
        <5>3. c \notin Pending BY <1>1, <4>1 DEF Pending
        <5> QED BY <5>1, <5>2, <5>3
      <4>2. CASE c[1] # r
        <5>1. c # <<r, n>> BY <4>2
        <5>2. request'[c[1]] = request[c[1]] BY <1>6, <2>1, <4>2 DEF OnlyThis
        <5> QED BY <2>2, <5>1, <5>2 DEF Pending
      <4> QED BY <4>1, <4>2
    <3>2. Pending' \subseteq Calls /\ Pending \subseteq Calls BY <2>2 DEF Pending
    <3> QED BY <2>3, <3>1, <3>2
  <2>6. Left' = Left
    <3>1. \A c \in Calls : c \in Left' <=> c \in Left
      <4> TAKE c \in Calls
      <4>1. CASE c[1] = r
        <5>1. c \in Left' <=> n <= c[2] BY <1>5, <1>6, <2>2, <4>1 DEF Left
        <5>2. c \in Left <=> request[r].calls < c[2] BY <1>1, <4>1 DEF Left
        <5>3. request[r].calls \in Nat /\ c[2] \in Nat
          BY <1>1, <2>1, ApprovalsAssumption DEF Asked
        <5> QED BY <1>3, <5>1, <5>2, <5>3
      <4>2. CASE c[1] # r
        <5>1. request'[c[1]] = request[c[1]] BY <1>6, <2>1, <4>2 DEF OnlyThis
        <5> QED BY <2>2, <5>1 DEF Left
      <4> QED BY <4>1, <4>2
    <3> QED BY <2>2, <3>1 DEF Left
  <2>7. Pending \in SUBSET Calls BY DEF Pending
  <2>8. Cardinality(Pending) \in Nat /\ Cardinality(Pending') = Cardinality(Pending) + 1
    BY <2>4, <2>5, <2>7, CallsAreFinite
  <2>9. usage' = usage /\ usage \in Nat /\ history.lost \in Nat
    BY <1>1, <1>7 DEF copilot, ApprovalsTypeOK, History
  <2>10. history'.spent = history'.lost + usage' + Cardinality(Pending')
    BY <1>8, <2>8, <2>9 DEF IInv, BudgetKept
  <2> QED BY <2>2, <2>6, <2>9, <2>10 DEF IInv, BudgetKept
<1> QED BY <1>1, <1>5, <1>6, <1>7, <1>8, <1>10, <1>11, <1>12, TurnStep
\* A call that waited is recorded, or lost: it waits no more.
LEMMA NoLongerPending ==
  ASSUME ApprovalsTypeOK, NEW r \in Requests, request[r].at = "record", OnlyThis(r),
         \/ request'[r].at \in {"chat", "tool"} /\ request'[r].calls >= request[r].calls
         \/ request'[r].at \notin {"chat", "record", "tool"},
         request' \in [Requests -> Asked]
  PROVE  /\ Cardinality(Pending) \in Nat /\ Cardinality(Left) \in Nat
         /\ Cardinality(Pending') = Cardinality(Pending) - 1
         /\ Cardinality(Left') \in Nat /\ Cardinality(Left') <= Cardinality(Left) - 1
<1> DEFINE n == request[r].calls
<1>1. n \in 1..(MaxTools + 2)
  BY ApprovalsAssumption DEF ApprovalsTypeOK, Asked
<1>2. request'[r].calls \in Nat BY ApprovalsAssumption DEF Asked
<1>3. \A c \in Calls : c[1] \in Requests /\ c[2] \in Nat /\ c = <<c[1], c[2]>>
  BY ApprovalsAssumption DEF Calls
<1>4. Calls' = Calls /\ <<r, n>> \in Calls BY <1>1 DEF Calls
<1>5. \A c \in Calls : c[1] # r => (c \in Pending' <=> c \in Pending) /\ (c \in Left' <=> c \in Left)
  <2> SUFFICES ASSUME NEW c \in Calls, c[1] # r
               PROVE (c \in Pending' <=> c \in Pending) /\ (c \in Left' <=> c \in Left)
    OBVIOUS
  <2>1. request'[c[1]] = request[c[1]] BY <1>3 DEF OnlyThis
  <2> QED BY <1>4, <2>1 DEF Pending, Left
<1>6. <<r, n>> \in Pending /\ <<r, n>> \in Left BY <1>1, <1>4 DEF Pending, Left
<1>7. \A c \in Calls : c[1] = r => c \notin Pending' /\ (c \in Pending <=> c[2] = n)
  BY <1>4 DEF Pending
<1>8. \A c \in Calls : c[1] = r => (c \in Left' => c[2] > n) /\ (c[2] >= n => c \in Left)
  <2> SUFFICES ASSUME NEW c \in Calls, c[1] = r
               PROVE (c \in Left' => c[2] > n) /\ (c[2] >= n => c \in Left)
    OBVIOUS
  <2>1. c[2] \in Nat /\ n \in Nat BY <1>1, <1>3, ApprovalsAssumption
  <2>2. c[2] >= n => c \in Left BY <2>1 DEF Left
  <2>3. c \in Left' => /\ request'[r].at \in {"chat", "record", "tool"}
                       /\ request'[r].at \in {"chat", "tool"} => request'[r].calls < c[2]
    BY <1>4 DEF Left
  <2>4. c \in Left' => c[2] > n BY <1>2, <2>1, <2>3
  <2> QED BY <2>2, <2>4
<1> HIDE DEF n
<1>9. Pending \in SUBSET Calls /\ Left \in SUBSET Calls
      /\ Pending' \in SUBSET Calls /\ Left' \in SUBSET Calls
  BY <1>4 DEF Pending, Left
<1>10. Pending' = Pending \ {<<r, n>>}
  <2>1. \A c \in Calls : c \in Pending' <=> c \in Pending /\ c # <<r, n>>
    BY <1>3, <1>5, <1>7
  <2> QED BY <1>9, <2>1
<1>11. Left' \in SUBSET (Left \ {<<r, n>>})
  <2>1. \A c \in Calls : c \in Left' => c \in Left /\ c # <<r, n>>
    <3> SUFFICES ASSUME NEW c \in Calls, c \in Left' PROVE c \in Left /\ c # <<r, n>>
      OBVIOUS
    <3>1. CASE c[1] # r BY <1>5, <3>1
    <3>2. CASE c[1] = r
      <4>1. c[2] > n /\ c[2] \in Nat /\ n \in Nat BY <1>1, <1>3, <1>8, <3>2, ApprovalsAssumption
      <4>2. c[2] >= n /\ c[2] # n BY <4>1
      <4>3. c # <<r, n>> BY <4>2
      <4> QED BY <1>8, <3>2, <4>2, <4>3
    <3> QED BY <3>1, <3>2
  <2> QED BY <1>9, <2>1
<1>12. /\ Cardinality(Pending) \in Nat /\ Cardinality(Pending') = Cardinality(Pending) - 1
  BY <1>6, <1>9, <1>10, CallsAreFinite
<1>13. /\ Cardinality(Left) \in Nat /\ Cardinality(Left') \in Nat
       /\ Cardinality(Left \ {<<r, n>>}) = Cardinality(Left) - 1
  BY <1>6, <1>9, CallsAreFinite
<1>14. Left \ {<<r, n>>} \in SUBSET Calls BY <1>9
<1>15. Cardinality(Left') <= Cardinality(Left \ {<<r, n>>})
  BY <1>11, <1>14, CallsAreFinite
<1> QED BY <1>12, <1>13, <1>15

LEMMA TurnRecordInv == ASSUME IInv, NEW r \in Requests, TurnRecord(r) PROVE IInv'
<1>a. ApprovalsTypeOK BY DEF IInv
<1>b. request[r] \in Asked /\ request[r].at = "record" /\ request[r].calls >= 1 /\ usage \in Nat
  BY <1>a DEF ApprovalsTypeOK, TurnRecord
<1>c. request[r].calls \in 0..(MaxTools + 2) BY <1>b DEF Asked
<1>1. /\ ApprovalsTypeOK /\ request[r] \in Asked /\ request[r].at = "record"
      /\ request[r].calls \in 1..(MaxTools + 2) /\ usage \in Nat
  BY <1>a, <1>b, <1>c, ApprovalsAssumption
<1>2. /\ usage' = usage + 1
      /\ UNCHANGED <<proposals, expense, paper, portal, history>>
  BY DEF TurnRecord
<1>3. \/ /\ Go(r, "tool") /\ request[r].calls <= MaxTools
         /\ request[r].kind \in Kinds \cup {"read"}
      \/ /\ request' = [request EXCEPT ![r].at = "chat", ![r].calls = MaxTools + 1]
         /\ request[r].calls <= MaxTools + 1
      \/ Done(r)
  BY DEF TurnRecord
<1>4. /\ request' \in [Requests -> Asked] /\ OnlyThis(r) /\ AskedFits(r)'
      /\ request'[r].at \in {"rest", "chat", "tool"}
      /\ request'[r].at \in {"chat", "tool"} => request'[r].calls >= request[r].calls
  <2>1. CASE /\ Go(r, "tool") /\ request[r].calls <= MaxTools
             /\ request[r].kind \in Kinds \cup {"read"}
    <3>1. /\ request' \in [Requests -> Asked] /\ OnlyThis(r) /\ request'[r].at = "tool"
          /\ request'[r].calls = request[r].calls /\ request'[r].kind = request[r].kind
      BY <1>1, <2>1, GoType DEF Places
    <3>2. AskedFits(r)' BY <1>1, <2>1, <3>1, ApprovalsAssumption DEF AskedFits
    <3> QED BY <1>1, <3>1, <3>2, ApprovalsAssumption
  <2>2. CASE /\ request' = [request EXCEPT ![r].at = "chat", ![r].calls = MaxTools + 1]
             /\ request[r].calls <= MaxTools + 1
    <3> DEFINE q == [request[r] EXCEPT !.at = "chat", !.calls = MaxTools + 1]
    <3>1. request' = [request EXCEPT ![r] = q] BY <2>2
    <3>2. MaxTools + 1 \in 0..(MaxTools + 2) BY ApprovalsAssumption
    <3>3. q \in Asked /\ q.at = "chat" /\ q.calls = MaxTools + 1
      BY <1>1, <3>2 DEF Asked, Places
    <3> HIDE DEF q
    <3>4. request' \in [Requests -> Asked] /\ request'[r] = q /\ OnlyThis(r)
      BY <1>1, <3>1, <3>3, MoveType
    <3>5. AskedFits(r)' BY <3>3, <3>4, ApprovalsAssumption DEF AskedFits
    <3> QED BY <1>1, <2>2, <3>3, <3>4, <3>5, ApprovalsAssumption
  <2>3. CASE Done(r) BY <1>1, <2>3, DoneType
  <2> QED BY <1>3, <2>1, <2>2, <2>3
<1>5. ApprovalsTypeOK' BY <1>1, <1>2, <1>4, TypeStep DEF portal, ApprovalsTypeOK
<1>6. DecidedOnce' BY <1>1, <1>2, <1>4, NothingDecided DEF IInv, Deciding
<1>7. BudgetKept'
  <2>1. /\ Cardinality(Pending) \in Nat /\ Cardinality(Left) \in Nat
        /\ Cardinality(Pending') = Cardinality(Pending) - 1
        /\ Cardinality(Left') \in Nat /\ Cardinality(Left') <= Cardinality(Left) - 1
    BY <1>1, <1>4, NoLongerPending
  <2>2. Bound' = Bound /\ Bound \in Nat
    <3>1. Bound' = Bound BY DEF Bound
    <3>2. {} \in SUBSET Calls OBVIOUS
    <3> QED BY <3>1, <3>2, CallsAreFinite
  <2>3. history' = history /\ history.lost \in Nat BY <1>1, <1>2 DEF ApprovalsTypeOK, History
  <2>4. history.spent = history.lost + usage + Cardinality(Pending)
        /\ usage + Cardinality(Left) < Bound
    BY DEF IInv, BudgetKept
  <2>5. history'.spent = history'.lost + usage' + Cardinality(Pending')
    BY <1>1, <1>2, <2>1, <2>3, <2>4
  <2>6. usage' + Cardinality(Left') < Bound' BY <1>1, <1>2, <2>1, <2>2, <2>4
  <2> QED BY <2>5, <2>6 DEF BudgetKept
<1> QED BY <1>1, <1>2, <1>4, <1>5, <1>6, <1>7, TurnStep

LEMMA TurnToolInv == ASSUME IInv, NEW r \in Requests, TurnTool(r) PROVE IInv'
<1>1. ApprovalsTypeOK /\ request[r] \in Asked /\ request[r].at = "tool"
      /\ request[r].calls <= MaxTools /\ request[r].calls \in Nat
  BY ApprovalsAssumption DEF IInv, ApprovalsTypeOK, TurnTool, Asked
<1>2. /\ UNCHANGED <<usage, expense, paper, portal, history>>
      /\ request' = [request EXCEPT ![r].at = "chat", ![r].tools = TRUE]
  BY DEF TurnTool
<1> DEFINE q == [request[r] EXCEPT !.at = "chat", !.tools = TRUE]
<1>3. request' = [request EXCEPT ![r] = q] BY <1>2
<1>4. q \in Asked /\ q.at = "chat" /\ q.calls = request[r].calls
  BY <1>1 DEF Asked, Places
<1> HIDE DEF q
<1>5. request' \in [Requests -> Asked] /\ request'[r] = q /\ OnlyThis(r)
  BY <1>1, <1>3, <1>4, MoveType
<1>6. AskedFits(r)' BY <1>1, <1>4, <1>5, ApprovalsAssumption DEF AskedFits
<1> DEFINE w == [kind |-> request[r].kind, status |-> "proposed",
                 late |-> FALSE, runs |-> 0, crossed |-> FALSE]
<1>7. proposals' = proposals \/ proposals' = Append(proposals, w)
  BY DEF TurnTool
<1>8. w \in Proposal \/ proposals' = proposals
  <2>1. request[r].kind \in Kinds \cup {"read"} BY <1>1 DEF ApprovalsTypeOK
  <2>2. CASE request[r].kind \in Kinds BY <2>2 DEF Proposal
  <2>3. CASE request[r].kind = "read" BY <2>3 DEF TurnTool
  <2> QED BY <2>1, <2>2, <2>3
<1> DEFINE n == Len(proposals)
<1>9. proposals \in Seq(Proposal) /\ n \in Nat BY <1>1, LenProperties DEF ApprovalsTypeOK
<1> HIDE DEF w
<1>10. /\ proposals' \in Seq(Proposal)
       /\ \/ proposals' = proposals
          \/ /\ Len(proposals') = n + 1 /\ proposals'[n + 1] = w
             /\ \A p \in 1..n : proposals'[p] = proposals[p]
  BY <1>7, <1>8, <1>9
<1>11. ApprovalsTypeOK' BY <1>1, <1>2, <1>5, <1>6, <1>10, TypeStep DEF portal, ApprovalsTypeOK
<1>12. DecidedOnce'
  <2>1. CASE proposals' = proposals
    BY <1>1, <1>4, <1>5, <2>1, NothingDecided DEF IInv, Deciding
  <2>2. CASE /\ Len(proposals') = n + 1 /\ proposals'[n + 1] = w
             /\ \A p \in 1..n : proposals'[p] = proposals[p]
    <3>1. \A x \in Requests : AimsAt(x)'
      <4> SUFFICES ASSUME NEW x \in Requests, request'[x].at \in Deciding
                   PROVE  /\ request'[x].id \in 0..Len(proposals')
                          /\ request'[x].id = 0 => request'[x].at \in {"act", "push", "pushed"}
        BY DEF AimsAt
      <4>1. x # r BY <1>4, <1>5 DEF Deciding
      <4>2. request'[x] = request[x] BY <1>5, <4>1 DEF OnlyThis
      <4>3. AimsAt(x) BY DEF IInv, DecidedOnce
      <4> QED BY <1>9, <2>2, <4>2, <4>3 DEF AimsAt
    <3>2. ASSUME NEW p \in 1..Len(proposals'), ~proposals'[p].crossed PROVE Decided(p)'
      <4>1. CASE p \in 1..n
        <5>1. Decided(p) /\ proposals'[p] = proposals[p]
          BY <2>2, <3>2, <4>1 DEF IInv, DecidedOnce
        <5>2. ~Decides(r, p) /\ ~(request'[r].at \in Deciding /\ request'[r].id = p)
          BY <1>1, <1>4, <1>5 DEF Decides, Deciding
        <5> QED BY <1>5, <4>1, <5>1, <5>2, OthersDecided
      <4>2. CASE p = n + 1
        <5>1. \A x \in Requests : ~Decides(x, p)'
          <6> SUFFICES ASSUME NEW x \in Requests, request'[x].at \in Deciding,
                              request'[x].id = p
                       PROVE FALSE
            BY DEF Decides
          <6>1. x # r BY <1>4, <1>5 DEF Deciding
          <6>2. request'[x] = request[x] BY <1>5, <6>1 DEF OnlyThis
          <6>3. AimsAt(x) BY DEF IInv, DecidedOnce
          <6> QED BY <1>9, <4>2, <6>2, <6>3 DEF AimsAt
        <5>2. proposals'[p].status = "proposed" /\ proposals'[p].runs = 0
          BY <2>2, <4>2 DEF w
        <5> QED BY <5>1, <5>2 DEF Decided
      <4>3. p \in 1..n \/ p = n + 1 BY <1>9, <2>2
      <4> QED BY <4>1, <4>2, <4>3
    <3> QED BY <3>1, <3>2 DEF DecidedOnce
  <2> QED BY <1>10, <2>1, <2>2
<1>13. BudgetKept'
  <2>1. \A c \in Calls : c[1] \in Requests BY DEF Calls
  <2>2. Calls' = Calls /\ Bound' = Bound BY DEF Calls, Bound
  <2>3. \A c \in Calls : (c \in Pending' <=> c \in Pending) /\ (c \in Left' <=> c \in Left)
    <3> TAKE c \in Calls
    <3>1. CASE c[1] = r BY <1>1, <1>4, <1>5, <2>2, <3>1 DEF Pending, Left
    <3>2. CASE c[1] # r
      <4>1. request'[c[1]] = request[c[1]] BY <1>5, <2>1, <3>2 DEF OnlyThis
      <4> QED BY <2>2, <4>1 DEF Pending, Left
    <3> QED BY <3>1, <3>2
  <2>4. Pending' = Pending /\ Left' = Left BY <2>2, <2>3 DEF Pending, Left
  <2> QED BY <1>2, <2>2, <2>4 DEF IInv, BudgetKept
<1> QED BY <1>1, <1>2, <1>4, <1>5, <1>11, <1>12, <1>13, TurnStep
-----------------------------------------------------------------------------
(* A proposal is decided upon *)

LEMMA ProposalLapseInv == ASSUME IInv, ProposalLapse PROVE IInv'
<1>1. ApprovalsTypeOK /\ proposals \in Seq(Proposal) BY DEF IInv, ApprovalsTypeOK
<1>2. PICK i \in 1..Len(proposals) :
        /\ proposals' = [proposals EXCEPT ![i].late = TRUE]
        /\ UNCHANGED <<usage, expense, paper, portal, request, history>>
  BY DEF ProposalLapse
<1> DEFINE w == [proposals[i] EXCEPT !.late = TRUE]
<1>3. proposals[i] \in Proposal BY <1>1, ElementOfSeq
<1>4. /\ w \in Proposal /\ w.status = proposals[i].status /\ w.runs = proposals[i].runs
      /\ w.crossed = proposals[i].crossed
  BY <1>3 DEF Proposal
<1>5. proposals' = [proposals EXCEPT ![i] = w] BY <1>2
<1> HIDE DEF w
<1>6. /\ proposals' \in Seq(Proposal) /\ Len(proposals') = Len(proposals)
      /\ proposals'[i] = w
      /\ \A p \in 1..Len(proposals) : p # i => proposals'[p] = proposals[p]
  BY <1>1, <1>4, <1>5, ProposalWritten
<1>7. ApprovalsTypeOK' BY <1>1, <1>2, <1>6 DEF ApprovalsTypeOK, portal
<1>8. DecidedOnce'
  <2>1. \A x \in Requests : AimsAt(x)' BY <1>2, <1>6 DEF IInv, DecidedOnce, AimsAt
  <2>2. ASSUME NEW p \in 1..Len(proposals), ~proposals'[p].crossed PROVE Decided(p)'
    <3>1. /\ proposals'[p].status = proposals[p].status
          /\ proposals'[p].runs = proposals[p].runs
          /\ proposals'[p].crossed = proposals[p].crossed
      BY <1>4, <1>6
    <3>2. Decided(p) BY <2>2, <3>1 DEF IInv, DecidedOnce
    <3>3. \A x \in Requests : (Decides(x, p)' <=> Decides(x, p)) /\ (HasRun(x)' <=> HasRun(x))
      BY <1>2 DEF Decides, HasRun
    <3> QED BY <3>1, <3>2, <3>3 DEF Decided
  <2> QED BY <1>6, <2>1, <2>2 DEF DecidedOnce
<1>9. ClaimDecidedOnce' BY <1>2 DEF IInv, ClaimDecidedOnce
<1>10. (~history.excused => BilledOnce)' /\ VendorsAreNamed'
  BY <1>2 DEF IInv, BilledOnce, VendorsAreNamed, Billing, paper
<1>11. (~history.crossed => PushFollows)' BY <1>2 DEF IInv, PushFollows, portal
<1>12. BudgetKept'
  <2>1. Calls' = Calls /\ Bound' = Bound BY DEF Calls, Bound
  <2>2. Pending' = Pending /\ Left' = Left BY <1>2, <2>1 DEF Pending, Left
  <2> QED BY <1>2, <2>1, <2>2 DEF IInv, BudgetKept
<1> QED BY <1>7, <1>8, <1>9, <1>10, <1>11, <1>12 DEF IInv

\* Who finds a proposal open begins to decide upon it.
LEMMA DecidingBegins ==
  ASSUME IInv, NEW r \in Requests, NEW i \in 1..Len(proposals), NEW q \in Asked,
         proposals[i].status = "proposed", q.id = i, q.at \in {"run", "expire", "refuse"},
         Begin(r, q), proposals' = Crossed(r, i),
         UNCHANGED <<usage, expense, paper, portal>>
  PROVE  IInv'
<1>1. ApprovalsTypeOK /\ proposals \in Seq(Proposal) BY DEF IInv, ApprovalsTypeOK
<1>2. /\ request' \in [Requests -> Asked] /\ OnlyThis(r) /\ request'[r] = q
      /\ request[r].at = "rest" /\ history' \in History
      /\ history'.spent = history.spent /\ history'.lost = history.lost
      /\ history'.crossed = history.crossed /\ history'.excused = history.excused
  BY <1>1, BeginType
<1>3. PICK b \in BOOLEAN : b = (proposals[i].crossed \/ \E x \in Requests \ {r} :
                                  request[x].at \in Deciding /\ request[x].id = i)
  OBVIOUS
<1>4. proposals' = [proposals EXCEPT ![i].crossed = b] BY <1>3 DEF Crossed
<1> DEFINE w == [proposals[i] EXCEPT !.crossed = b]
<1>5. proposals[i] \in Proposal BY <1>1, ElementOfSeq
<1>6. /\ w \in Proposal /\ w.status = proposals[i].status /\ w.runs = proposals[i].runs
      /\ w.crossed = b
  BY <1>5 DEF Proposal
<1>7. proposals' = [proposals EXCEPT ![i] = w] BY <1>4
<1> HIDE DEF w
<1>8. /\ proposals' \in Seq(Proposal) /\ Len(proposals') = Len(proposals)
      /\ proposals'[i] = w
      /\ \A p \in 1..Len(proposals) : p # i => proposals'[p] = proposals[p]
  BY <1>1, <1>6, <1>7, ProposalWritten
<1>9. AskedFits(r)' BY <1>2 DEF AskedFits
<1>10. ApprovalsTypeOK' BY <1>1, <1>2, <1>8, <1>9, TypeStep DEF portal, ApprovalsTypeOK
<1>11. DecidedOnce'
  <2>1. AimsAt(r)' BY <1>1, <1>2, <1>8, LenProperties DEF AimsAt
  <2>2. Sound(r, i)
    <3> SUFFICES ASSUME ~proposals'[i].crossed
                 PROVE  /\ Alone(r, i) /\ proposals'[i].status = "proposed"
                        /\ proposals'[i].runs = 0
      BY <1>2 DEF Sound, Deciding
    <3>1. ~b BY <1>6, <1>8
    <3>2. Alone(r, i) /\ ~proposals[i].crossed BY <1>3, <3>1 DEF Alone, Decides
    <3>3. \A x \in Requests : ~Decides(x, i) BY <1>2, <3>2 DEF Alone, Decides, Deciding
    <3>4. proposals[i].runs = 0 BY <3>2, <3>3 DEF IInv, DecidedOnce, Decided
    <3> QED BY <1>6, <1>8, <3>2, <3>4
  <2>3. request[r].at \notin Deciding BY <1>2 DEF Deciding
  <2> QED BY <1>2, <1>8, <2>1, <2>2, <2>3, DecideStep DEF IInv
<1>12. (~history.crossed => PushFollows)' BY <1>2, NothingPushed DEF IInv, portal
<1> QED BY <1>2, <1>10, <1>11, <1>12, DecidingStep DEF Deciding

LEMMA ConfirmBeginInv == ASSUME IInv, NEW r \in Requests, ConfirmBegin(r) PROVE IInv'
<1>1. PICK i \in 1..Len(proposals) :
        /\ proposals[i].status = "proposed"
        /\ Begin(r, [Idle EXCEPT !.id = i, !.kind = proposals[i].kind,
                                 !.at = IF proposals[i].late THEN "expire" ELSE "run"])
        /\ proposals' = Crossed(r, i)
        /\ UNCHANGED <<usage, expense, paper, portal>>
  BY DEF ConfirmBegin
<1>2. proposals \in Seq(Proposal) /\ Len(proposals) \in Nat
  BY LenProperties DEF IInv, ApprovalsTypeOK
<1>3. proposals[i].kind \in Kinds /\ i \in Nat
  <2>1. proposals[i] \in Proposal BY <1>2, ElementOfSeq
  <2> QED BY <1>2, <2>1 DEF Proposal
<1>4. PICK place \in {"expire", "run"} : place = IF proposals[i].late THEN "expire" ELSE "run"
  OBVIOUS
<1> DEFINE q == [Idle EXCEPT !.id = i, !.kind = proposals[i].kind, !.at = place]
<1>5. Begin(r, q) BY <1>1, <1>4
<1>6. q \in Asked /\ q.id = i /\ q.at = place
  BY <1>3, IdleType DEF Asked, Places, Deciding, Idle
<1> HIDE DEF q
<1> QED BY <1>1, <1>4, <1>5, <1>6, DecidingBegins

LEMMA RefuseBeginInv == ASSUME IInv, NEW r \in Requests, RefuseBegin(r) PROVE IInv'
<1>1. PICK i \in 1..Len(proposals) :
        /\ proposals[i].status = "proposed"
        /\ Begin(r, [Idle EXCEPT !.id = i, !.at = "refuse"])
        /\ proposals' = Crossed(r, i)
        /\ UNCHANGED <<usage, expense, paper, portal>>
  BY DEF RefuseBegin
<1>2. i \in Nat BY LenProperties DEF IInv, ApprovalsTypeOK
<1> DEFINE q == [Idle EXCEPT !.id = i, !.at = "refuse"]
<1>3. q \in Asked /\ q.id = i /\ q.at = "refuse"
  BY <1>2, IdleType DEF Asked, Places, Deciding, Idle
<1>4. Begin(r, q) BY <1>1
<1> HIDE DEF q
<1> QED BY <1>1, <1>3, <1>4, DecidingBegins

\* A proposal is rejected or expires before it has run, or is confirmed after.
LEMMA SettledInv ==
  ASSUME IInv, NEW r \in Requests, NEW status \in {"confirmed", "rejected", "expired"},
         request[r].at \in {"save", "expire", "refuse"},
         status # "confirmed" => request[r].at # "save", Done(r),
         proposals' = [proposals EXCEPT ![request[r].id].status = status],
         UNCHANGED <<usage, expense, paper, portal, history>>
  PROVE  IInv'
<1>1. ApprovalsTypeOK /\ proposals \in Seq(Proposal) BY DEF IInv, ApprovalsTypeOK
<1>2. AimsAt(r) BY DEF IInv, DecidedOnce
<1>3. Len(proposals) \in Nat BY <1>1, LenProperties
<1>4. PICK i \in 1..Len(proposals) : i = request[r].id BY <1>2, <1>3 DEF AimsAt, Deciding
<1> DEFINE w == [proposals[i] EXCEPT !.status = status]
<1>5. proposals[i] \in Proposal BY <1>1, ElementOfSeq
<1>6. /\ w \in Proposal /\ w.status = status /\ w.runs = proposals[i].runs
      /\ w.crossed = proposals[i].crossed
  BY <1>5 DEF Proposal
<1>7. proposals' = [proposals EXCEPT ![i] = w] BY <1>4
<1> HIDE DEF w
<1>8. /\ proposals' \in Seq(Proposal) /\ Len(proposals') = Len(proposals)
      /\ proposals'[i] = w
      /\ \A p \in 1..Len(proposals) : p # i => proposals'[p] = proposals[p]
  BY <1>1, <1>6, <1>7, ProposalWritten
<1>9. /\ request' \in [Requests -> Asked] /\ OnlyThis(r) /\ AskedFits(r)'
      /\ request'[r].at = "rest"
  BY <1>1, DoneType
<1>10. ApprovalsTypeOK' BY <1>1, <1>8, <1>9, TypeStep DEF portal, ApprovalsTypeOK
<1>11. DecidedOnce'
  <2>1. AimsAt(r)' BY <1>9 DEF AimsAt, Deciding
  <2>2. Sound(r, i)
    <3> SUFFICES ASSUME ~proposals'[i].crossed
                 PROVE  /\ Alone(r, i) /\ request'[r].at \notin Deciding
                        /\ proposals'[i].runs <= 1
                        /\ proposals'[i].status # "confirmed" => proposals'[i].runs = 0
      BY DEF Sound
    <3>1. Decides(r, i) BY <1>4 DEF Decides, Deciding
    <3>2. /\ Alone(r, i)
          /\ proposals[i].runs = (IF request[r].at \in {"save", "push", "pushed"} THEN 1 ELSE 0)
      BY <1>1, <1>6, <1>8, <3>1, DecidesAlone DEF IInv
    <3>3. proposals[i].runs <= 1 /\ (request[r].at # "save" => proposals[i].runs = 0)
      BY <3>2
    <3> QED BY <1>6, <1>8, <1>9, <3>2, <3>3 DEF Deciding
  <2> QED BY <1>4, <1>8, <1>9, <2>1, <2>2, DecideStep DEF IInv, Deciding
<1>12. (~history.crossed => PushFollows)' BY <1>9, NothingPushed DEF IInv, portal
<1> QED BY <1>9, <1>10, <1>11, <1>12, DecidingStep DEF Deciding

LEMMA ConfirmExpireInv == ASSUME IInv, NEW r \in Requests, ConfirmExpire(r) PROVE IInv'
<1>1. /\ request[r].at = "expire" /\ Done(r)
      /\ proposals' = [proposals EXCEPT ![request[r].id].status = "expired"]
      /\ UNCHANGED <<usage, expense, paper, portal, history>>
  BY DEF ConfirmExpire
<1> QED BY <1>1, SettledInv

LEMMA ConfirmSaveInv == ASSUME IInv, NEW r \in Requests, ConfirmSave(r) PROVE IInv'
<1>1. /\ request[r].at = "save" /\ Done(r)
      /\ proposals' = [proposals EXCEPT ![request[r].id].status = "confirmed"]
      /\ UNCHANGED <<usage, expense, paper, portal, history>>
  BY DEF ConfirmSave
<1> QED BY <1>1, SettledInv

LEMMA RefuseSaveInv == ASSUME IInv, NEW r \in Requests, RefuseSave(r) PROVE IInv'
<1>1. /\ request[r].at = "refuse" /\ Done(r)
      /\ proposals' = [proposals EXCEPT ![request[r].id].status = "rejected"]
      /\ UNCHANGED <<usage, expense, paper, portal, history>>
  BY DEF RefuseSave
<1> QED BY <1>1, SettledInv

LEMMA ConfirmRunInv == ASSUME IInv, NEW r \in Requests, ConfirmRun(r) PROVE IInv'
<1>1. /\ ApprovalsTypeOK /\ proposals \in Seq(Proposal) /\ request[r].at = "run"
      /\ proposals' = [proposals EXCEPT ![request[r].id].runs = @ + 1] /\ Go(r, "save")
      /\ UNCHANGED <<usage, expense, paper, portal, history>>
  BY DEF IInv, ApprovalsTypeOK, ConfirmRun
<1>2. AimsAt(r) BY DEF IInv, DecidedOnce
<1>3. Len(proposals) \in Nat BY <1>1, LenProperties
<1>4. PICK i \in 1..Len(proposals) : i = request[r].id BY <1>1, <1>2, <1>3 DEF AimsAt, Deciding
<1> DEFINE w == [proposals[i] EXCEPT !.runs = @ + 1]
<1>5. proposals[i] \in Proposal BY <1>1, ElementOfSeq
<1>6. /\ w \in Proposal /\ w.status = proposals[i].status /\ w.runs = proposals[i].runs + 1
      /\ w.crossed = proposals[i].crossed
  BY <1>5 DEF Proposal
<1>7. proposals' = [proposals EXCEPT ![i] = w] BY <1>1, <1>4
<1> HIDE DEF w
<1>8. /\ proposals' \in Seq(Proposal) /\ Len(proposals') = Len(proposals)
      /\ proposals'[i] = w
      /\ \A p \in 1..Len(proposals) : p # i => proposals'[p] = proposals[p]
  BY <1>1, <1>6, <1>7, ProposalWritten
<1>9. /\ request' \in [Requests -> Asked] /\ OnlyThis(r) /\ request'[r].at = "save"
      /\ request'[r].id = i
  BY <1>1, <1>4, GoType DEF Places, Deciding
<1>10. AskedFits(r)' BY <1>9 DEF AskedFits
<1>11. ApprovalsTypeOK' BY <1>1, <1>8, <1>9, <1>10, TypeStep DEF portal, ApprovalsTypeOK
<1>12. DecidedOnce'
  <2>1. AimsAt(r)' BY <1>3, <1>8, <1>9 DEF AimsAt
  <2>2. Sound(r, i)
    <3> SUFFICES ASSUME ~proposals'[i].crossed
                 PROVE  /\ Alone(r, i) /\ proposals'[i].status = "proposed"
                        /\ proposals'[i].runs = 1
      BY <1>9 DEF Sound, Deciding
    <3>1. Decides(r, i) BY <1>1, <1>4 DEF Decides, Deciding
    <3>2. Alone(r, i) /\ proposals[i].status = "proposed" /\ proposals[i].runs = 0
      BY <1>1, <1>6, <1>8, <3>1, DecidesAlone DEF IInv
    <3> QED BY <1>6, <1>8, <3>2
  <2> QED BY <1>4, <1>8, <1>9, <2>1, <2>2, DecideStep DEF IInv
<1>13. (~history.crossed => PushFollows)' BY <1>1, <1>9, NothingPushed DEF IInv, portal
<1> QED BY <1>1, <1>9, <1>11, <1>12, <1>13, DecidingStep DEF Deciding
-----------------------------------------------------------------------------
(* An action on the portal's record *)

\* A request goes on with its proposal and leaves it as it is.
LEMMA DecidingGoesOn ==
  ASSUME IInv, NEW r \in Requests, OnlyThis(r), proposals' = proposals,
         request[r].at \in Deciding, request'[r].at \in Deciding,
         request'[r].id = request[r].id,
         request'[r].at \in {"save", "push", "pushed"}
           <=> request[r].at \in {"save", "push", "pushed"},
         request[r].id = 0 => request'[r].at \in {"act", "push", "pushed"}
  PROVE  DecidedOnce'
<1>1. ApprovalsTypeOK /\ AimsAt(r) BY DEF IInv, DecidedOnce
<1>2. PICK i \in 0..Len(proposals) : i = request[r].id BY <1>1 DEF AimsAt
<1>3. AimsAt(r)' BY <1>1 DEF AimsAt
<1>4. ASSUME i \in 1..Len(proposals) PROVE Sound(r, i)
  <2> SUFFICES ASSUME ~proposals'[i].crossed
               PROVE  /\ Alone(r, i) /\ proposals'[i].status = "proposed"
                      /\ proposals'[i].runs = (IF request'[r].at \in {"save", "push", "pushed"}
                                               THEN 1 ELSE 0)
    BY <1>2 DEF Sound
  <2>1. Decides(r, i) BY <1>2 DEF Decides
  <2> QED BY <1>1, <1>4, <2>1, DecidesAlone DEF IInv
<1> QED BY <1>2, <1>3, <1>4, DecideStep DEF IInv

LEMMA ActBeginInv == ASSUME IInv, NEW r \in Requests, ActBegin(r) PROVE IInv'
<1>1. ApprovalsTypeOK /\ ims.action \in Actions \cup {None} /\ ims.pendings \in Nat
  BY DEF IInv, ApprovalsTypeOK, Record
<1>2. UNCHANGED <<copilot, expense, paper, portal>> BY DEF ActBegin
<1>3. PICK a \in Actions :
        \/ Begin(r, [Idle EXCEPT !.at = "act", !.kind = a, !.seen = ims.pendings,
                                 !.was = ims.action])
        \/ /\ At(r, "run") /\ request[r].kind = "ims"
           /\ request' = [request EXCEPT ![r].at = "act", ![r].kind = a,
                                         ![r].seen = ims.pendings, ![r].was = ims.action]
           /\ UNCHANGED history
  BY DEF ActBegin
<1>4. CASE Begin(r, [Idle EXCEPT !.at = "act", !.kind = a, !.seen = ims.pendings,
                                 !.was = ims.action])
  <2> DEFINE q == [Idle EXCEPT !.at = "act", !.kind = a, !.seen = ims.pendings,
                               !.was = ims.action]
  <2>1. q \in Asked /\ q.at = "act" /\ q.kind = a /\ q.id = 0
    BY <1>1, IdleType DEF Asked, Places, Deciding, Idle
  <2>2. Begin(r, q) BY <1>4
  <2> HIDE DEF q
  <2>3. /\ request' \in [Requests -> Asked] /\ OnlyThis(r) /\ request'[r] = q
        /\ request[r].at = "rest" /\ history' \in History
        /\ history'.spent = history.spent /\ history'.lost = history.lost
        /\ history'.crossed = history.crossed /\ history'.excused = history.excused
    BY <1>1, <2>1, <2>2, BeginType
  <2>4. AskedFits(r)' BY <2>1, <2>3 DEF AskedFits
  <2>5. ApprovalsTypeOK'
    BY <1>1, <1>2, <2>3, <2>4, TypeStep DEF copilot, portal, ApprovalsTypeOK
  <2>6. DecidedOnce'
    <3>1. Len(proposals) \in Nat BY <1>1, LenProperties DEF ApprovalsTypeOK
    <3>2. AimsAt(r)' BY <1>2, <2>1, <2>3, <3>1 DEF AimsAt, copilot
    <3>3. proposals' = proposals /\ 0 \notin 1..Len(proposals) BY <1>2 DEF copilot
    <3> QED BY <2>1, <2>3, <3>2, <3>3, DecideStep DEF IInv, Deciding
  <2>7. (~history.crossed => PushFollows)'
    BY <1>2, <2>1, <2>3, NothingPushed DEF IInv, portal
  <2> QED BY <1>2, <2>1, <2>3, <2>5, <2>6, <2>7, DecidingStep DEF Deciding, copilot
<1>5. CASE /\ At(r, "run") /\ request[r].kind = "ims"
           /\ request' = [request EXCEPT ![r].at = "act", ![r].kind = a,
                                         ![r].seen = ims.pendings, ![r].was = ims.action]
           /\ UNCHANGED history
  <2> DEFINE q == [request[r] EXCEPT !.at = "act", !.kind = a, !.seen = ims.pendings,
                                     !.was = ims.action]
  <2>1. request[r] \in Asked BY <1>1 DEF ApprovalsTypeOK
  <2>2. q \in Asked /\ q.at = "act" /\ q.kind = a /\ q.id = request[r].id
    BY <1>1, <2>1 DEF Asked, Places, Deciding
  <2>3. request' = [request EXCEPT ![r] = q] BY <1>5
  <2> HIDE DEF q
  <2>4. request' \in [Requests -> Asked] /\ request'[r] = q /\ OnlyThis(r)
    BY <1>1, <2>2, <2>3, MoveType
  <2>5. AskedFits(r)' BY <2>2, <2>4 DEF AskedFits
  <2>6. ApprovalsTypeOK'
    BY <1>1, <1>2, <1>5, <2>4, <2>5, TypeStep DEF copilot, portal, ApprovalsTypeOK
  <2>7. DecidedOnce'
    BY <1>2, <1>5, <2>2, <2>4, DecidingGoesOn DEF Deciding, copilot
  <2>8. (~history.crossed => PushFollows)'
    BY <1>2, <1>5, <2>2, <2>4, NothingPushed DEF IInv, portal
  <2> QED BY <1>2, <1>5, <2>2, <2>4, <2>6, <2>7, <2>8, DecidingStep DEF Deciding, copilot
<1> QED BY <1>3, <1>4, <1>5

LEMMA ActSaveInv == ASSUME IInv, NEW r \in Requests, ActSave(r) PROVE IInv'
<1>1. /\ ApprovalsTypeOK /\ proposals \in Seq(Proposal) /\ request[r] \in Asked
      /\ request[r].at = "act" /\ request[r].kind \in Actions /\ ims \in Record
      /\ history \in History
  BY DEF IInv, ApprovalsTypeOK, ActSave
<1>2. Go(r, "push") /\ UNCHANGED <<usage, expense, paper, gsp>> BY DEF ActSave
<1>3. PICK c \in BOOLEAN :
        c = (history.crossed \/ ims.action # request[r].was
                             \/ \E x \in Requests \ {r} : At(x, "push"))
  OBVIOUS
<1>4. history' = [history EXCEPT !.crossed = c] BY <1>3 DEF ActSave
<1>5. /\ history' \in History /\ history'.crossed = c /\ history'.spent = history.spent
      /\ history'.lost = history.lost /\ history'.excused = history.excused
  BY <1>1, <1>4 DEF History
<1>6. PICK act \in Actions \cup {None} :
        act = IF request[r].kind = request[r].was THEN ims.action ELSE request[r].kind
  BY <1>1 DEF Record
<1>7. PICK n \in Nat : n = IF request[r].kind = "pending" THEN request[r].seen + 1
                           ELSE ims.pendings
  BY <1>1 DEF Record, Asked
<1>8. ims' = [ims EXCEPT !.action = act, !.pendings = n] BY <1>6, <1>7 DEF ActSave
<1>9. ims' \in Record /\ ims'.action = act BY <1>1, <1>8 DEF Record
<1>10. /\ request' \in [Requests -> Asked] /\ OnlyThis(r) /\ request'[r].at = "push"
       /\ request'[r].id = request[r].id /\ request'[r].kind = request[r].kind
  BY <1>1, <1>2, GoType DEF Places, Deciding
<1>11. AimsAt(r) BY DEF IInv, DecidedOnce
<1>12. Len(proposals) \in Nat BY <1>1, LenProperties
<1>13. PICK i \in 0..Len(proposals) : i = request[r].id
  BY <1>1, <1>11 DEF AimsAt, Deciding
<1> DEFINE w == [proposals[i] EXCEPT !.runs = @ + 1]
<1>14. ASSUME i \in 1..Len(proposals)
       PROVE  /\ w \in Proposal /\ w.status = proposals[i].status
              /\ w.runs = proposals[i].runs + 1 /\ w.crossed = proposals[i].crossed
  <2>1. proposals[i] \in Proposal BY <1>1, <1>14, ElementOfSeq
  <2> QED BY <2>1 DEF Proposal
<1>15. proposals' = [p \in 1..Len(proposals) |-> IF p = i THEN w ELSE proposals[p]]
  BY <1>13 DEF ActSave
<1> HIDE DEF w
<1>16. /\ proposals' \in Seq(Proposal) /\ Len(proposals') = Len(proposals)
       /\ \A p \in 1..Len(proposals) : p # i => proposals'[p] = proposals[p]
       /\ i \in 1..Len(proposals) => proposals'[i] = w
  BY <1>1, <1>14, <1>15, ProposalMapped
<1>17. AskedFits(r)' BY <1>10 DEF AskedFits
<1>18. ApprovalsTypeOK'
  BY <1>1, <1>2, <1>5, <1>9, <1>10, <1>16, <1>17, TypeStep DEF ApprovalsTypeOK
<1>19. DecidedOnce'
  <2>1. AimsAt(r)' BY <1>10, <1>12, <1>13, <1>16 DEF AimsAt
  <2>2. ASSUME i \in 1..Len(proposals) PROVE Sound(r, i)
    <3> SUFFICES ASSUME ~proposals'[i].crossed
                 PROVE  /\ Alone(r, i) /\ proposals'[i].status = "proposed"
                        /\ proposals'[i].runs = 1
      BY <1>10, <1>13 DEF Sound, Deciding
    <3>1. Decides(r, i) BY <1>1, <1>13 DEF Decides, Deciding
    <3>2. Alone(r, i) /\ proposals[i].status = "proposed" /\ proposals[i].runs = 0
      BY <1>1, <1>14, <1>16, <2>2, <3>1, DecidesAlone DEF IInv
    <3> QED BY <1>14, <1>16, <2>2, <3>2
  <2> QED BY <1>10, <1>13, <1>16, <2>1, <2>2, DecideStep DEF IInv
<1>20. (~history.crossed => PushFollows)'
  <2> SUFFICES ASSUME ~c PROVE PushFollows' BY <1>5
  <2>1. /\ ~history.crossed /\ ims.action = request[r].was
        /\ \A x \in Requests : x # r => ~At(x, "push")
    BY <1>3
  <2>2. act = request[r].kind BY <1>6, <2>1
  <2>3. \A x \in Requests : At(x, "push")' => x = r BY <1>10, <2>1 DEF OnlyThis
  <2>4. \A x \in Requests : At(x, "push")' => ims'.action = request'[x].kind
    BY <1>9, <1>10, <2>2, <2>3
  <2>5. ~(\A x \in Requests : ~At(x, "push")') BY <1>10
  <2> QED BY <2>3, <2>4, <2>5 DEF PushFollows
<1> QED BY <1>1, <1>2, <1>5, <1>10, <1>18, <1>19, <1>20, DecidingStep DEF Deciding

LEMMA ActPushInv == ASSUME IInv, NEW r \in Requests, ActPush(r) PROVE IInv'
<1>1. /\ ApprovalsTypeOK /\ request[r].at = "push" /\ gsp' = request[r].kind
      /\ Go(r, "pushed") /\ UNCHANGED <<copilot, expense, paper, ims, history>>
  BY DEF IInv, ApprovalsTypeOK, ActPush
<1>2. /\ request' \in [Requests -> Asked] /\ OnlyThis(r) /\ request'[r].at = "pushed"
      /\ request'[r].id = request[r].id
  BY <1>1, GoType DEF Places, Deciding
<1>3. AskedFits(r)' BY <1>2 DEF AskedFits
<1>4. ApprovalsTypeOK' BY <1>1, <1>2, <1>3, TypeStep DEF ApprovalsTypeOK, copilot
<1>5. DecidedOnce' BY <1>1, <1>2, DecidingGoesOn DEF Deciding, copilot
<1>6. (~history.crossed => PushFollows)'
  <2> SUFFICES ASSUME ~history.crossed PROVE PushFollows' BY <1>1
  <2>1. PushFollows BY DEF IInv
  <2>2. gsp' = ims'.action BY <1>1, <2>1 DEF PushFollows
  <2>3. \A x \in Requests : ~At(x, "push")' BY <1>1, <1>2, <2>1 DEF PushFollows, OnlyThis
  <2> QED BY <2>2, <2>3 DEF PushFollows
<1> QED BY <1>1, <1>2, <1>4, <1>5, <1>6, DecidingStep DEF Deciding, copilot

LEMMA ActPushedInv == ASSUME IInv, NEW r \in Requests, ActPushed(r) PROVE IInv'
<1>1. /\ ApprovalsTypeOK /\ request[r].at = "pushed" /\ ims \in Record
      /\ ims' = [ims EXCEPT !.pushed = TRUE]
      /\ IF request[r].id = 0 THEN Done(r) ELSE Go(r, "save")
      /\ UNCHANGED <<copilot, expense, paper, gsp, history>>
  BY DEF IInv, ApprovalsTypeOK, ActPushed
<1>2. ims' \in Record /\ ims'.action = ims.action BY <1>1 DEF Record
<1>3. CASE request[r].id = 0
  <2>1. /\ request' \in [Requests -> Asked] /\ OnlyThis(r) /\ AskedFits(r)'
        /\ request'[r].at = "rest"
    BY <1>1, <1>3, DoneType
  <2>2. ApprovalsTypeOK' BY <1>1, <1>2, <2>1, TypeStep DEF ApprovalsTypeOK, copilot
  <2>3. DecidedOnce'
    <3>1. AimsAt(r)' BY <2>1 DEF AimsAt, Deciding
    <3>2. 0 \notin 1..Len(proposals) OBVIOUS
    <3> QED BY <1>1, <1>3, <2>1, <3>1, <3>2, DecideStep DEF IInv, Deciding, copilot
  <2>4. (~history.crossed => PushFollows)' BY <1>1, <1>2, <2>1, NothingPushed DEF IInv
  <2> QED BY <1>1, <2>1, <2>2, <2>3, <2>4, DecidingStep DEF Deciding, copilot
<1>4. CASE request[r].id # 0
  <2>1. /\ request' \in [Requests -> Asked] /\ OnlyThis(r) /\ request'[r].at = "save"
        /\ request'[r].id = request[r].id
    BY <1>1, <1>4, GoType DEF Places, Deciding
  <2>2. AskedFits(r)' BY <2>1 DEF AskedFits
  <2>3. ApprovalsTypeOK' BY <1>1, <1>2, <2>1, <2>2, TypeStep DEF ApprovalsTypeOK, copilot
  <2>4. DecidedOnce' BY <1>1, <1>4, <2>1, DecidingGoesOn DEF Deciding, copilot
  <2>5. (~history.crossed => PushFollows)' BY <1>1, <1>2, <2>1, NothingPushed DEF IInv
  <2> QED BY <1>1, <2>1, <2>3, <2>4, <2>5, DecidingStep DEF Deciding, copilot
<1> QED BY <1>3, <1>4

LEMMA SyncMatchInv == ASSUME IInv, NEW r \in Requests, SyncMatch(r) PROVE IInv'
<1>1. PICK n \in {0, 1} : Begin(r, [Idle EXCEPT !.at = "match", !.seen = n])
  BY DEF SyncMatch
<1>2. ApprovalsTypeOK /\ UNCHANGED <<copilot, expense, paper, portal>>
  BY DEF IInv, SyncMatch
<1> DEFINE q == [Idle EXCEPT !.at = "match", !.seen = n]
<1>3. q \in Asked /\ q.at = "match"
  <2>1. n \in Nat OBVIOUS
  <2> QED BY <2>1, IdleType DEF Asked, Places, Idle
<1>4. Begin(r, q) BY <1>1
<1> HIDE DEF q
<1>5. /\ request' \in [Requests -> Asked] /\ OnlyThis(r) /\ request'[r] = q
      /\ request[r].at = "rest" /\ history' \in History
      /\ history'.spent = history.spent /\ history'.lost = history.lost
      /\ history'.crossed = history.crossed /\ history'.excused = history.excused
  BY <1>2, <1>3, <1>4, BeginType
<1>6. AskedFits(r)' BY <1>3, <1>5 DEF AskedFits
<1>7. ApprovalsTypeOK'
  BY <1>2, <1>5, <1>6, TypeStep DEF ApprovalsTypeOK, copilot, portal
<1>8. DecidedOnce' BY <1>2, <1>3, <1>5, NothingDecided DEF IInv, Deciding, copilot
<1>9. (~history.crossed => PushFollows)' BY <1>2, <1>3, <1>5, NothingPushed DEF IInv, portal
<1> QED BY <1>2, <1>3, <1>5, <1>7, <1>8, <1>9, DecidingStep DEF copilot

LEMMA SyncUpsertInv == ASSUME IInv, NEW r \in Requests, SyncUpsert(r) PROVE IInv'
<1>1. /\ ApprovalsTypeOK /\ request[r].at = "match" /\ ims \in Record /\ Done(r)
      /\ UNCHANGED <<copilot, expense, paper, gsp, history>>
  BY DEF IInv, ApprovalsTypeOK, SyncUpsert
<1>2. PICK b \in BOOLEAN : ims' = [ims EXCEPT !.matched = b]
  <2>1. ims' = [ims EXCEPT !.matched = (request[r].seen = 1)] BY DEF SyncUpsert
  <2>2. (request[r].seen = 1) \in BOOLEAN OBVIOUS
  <2> QED BY <2>1, <2>2
<1>3. ims' \in Record /\ ims'.action = ims.action BY <1>1, <1>2 DEF Record
<1>4. /\ request' \in [Requests -> Asked] /\ OnlyThis(r) /\ AskedFits(r)'
      /\ request'[r].at = "rest"
  BY <1>1, DoneType
<1>5. ApprovalsTypeOK' BY <1>1, <1>3, <1>4, TypeStep DEF ApprovalsTypeOK, copilot
<1>6. DecidedOnce' BY <1>1, <1>4, NothingDecided DEF IInv, Deciding, copilot
<1>7. (~history.crossed => PushFollows)' BY <1>1, <1>3, <1>4, NothingPushed DEF IInv
<1> QED BY <1>1, <1>4, <1>5, <1>6, <1>7, DecidingStep DEF copilot
-----------------------------------------------------------------------------
(* An expense claim *)

\* What a decision upon the claim leaves alone.
LEMMA ClaimStep ==
  ASSUME IInv, NEW r \in Requests, request' \in [Requests -> Asked], OnlyThis(r),
         request[r].at \in {"rest", "approve", "reject"},
         request'[r].at \in {"rest", "approve", "reject"}, ClaimDecidedOnce',
         copilot' = copilot, paper' = paper, portal' = portal, history' \in History,
         history'.spent = history.spent, history'.lost = history.lost,
         history'.crossed = history.crossed, history'.excused = history.excused
  PROVE  IInv'
<1>1. ApprovalsTypeOK BY DEF IInv
<1>2. AskedFits(r)' BY DEF AskedFits
<1>3. ApprovalsTypeOK' BY <1>1, <1>2, TypeStep DEF ApprovalsTypeOK, copilot, portal
<1>4. (~history.excused => BilledOnce)' /\ VendorsAreNamed'
  BY NothingBilled DEF IInv, VendorsAreNamed, paper
<1> QED BY <1>3, <1>4, PaperStep

LEMMA ClaimBegins ==
  ASSUME IInv, NEW r \in Requests, NEW u \in Users \ {Author},
         NEW place \in {"approve", "reject"}, expense.status = "submitted",
         Begin(r, [Idle EXCEPT !.at = place, !.kind = u, !.seen = expense.version]),
         UNCHANGED <<copilot, expense, paper, portal>>
  PROVE  IInv'
<1>1. ApprovalsTypeOK /\ ClaimDecidedOnce /\ expense.version = 0
  BY DEF IInv, ClaimDecidedOnce
<1> DEFINE q == [Idle EXCEPT !.at = place, !.kind = u, !.seen = expense.version]
<1>2. q \in Asked /\ q.at = place /\ q.kind = u /\ q.seen = 0
  BY <1>1, IdleType DEF Asked, Places, Idle
<1>3. Begin(r, q) OBVIOUS
<1> HIDE DEF q
<1>4. /\ request' \in [Requests -> Asked] /\ OnlyThis(r) /\ request'[r] = q
      /\ request[r].at = "rest" /\ history' \in History
      /\ history'.spent = history.spent /\ history'.lost = history.lost
      /\ history'.crossed = history.crossed /\ history'.excused = history.excused
  BY <1>1, <1>2, <1>3, BeginType
<1>5. \A x \in Requests : request'[x].at \in {"approve", "reject"} =>
        request'[x].seen = 0 /\ request'[x].kind \in Users \ {Author}
  BY <1>1, <1>2, <1>4 DEF ClaimDecidedOnce, OnlyThis
<1>6. ClaimDecidedOnce' BY <1>1, <1>5 DEF ClaimDecidedOnce
<1> QED BY <1>2, <1>4, <1>6, ClaimStep

LEMMA ApproveBeginInv == ASSUME IInv, NEW r \in Requests, ApproveBegin(r) PROVE IInv'
BY ClaimBegins DEF ApproveBegin

LEMMA RejectBeginInv == ASSUME IInv, NEW r \in Requests, RejectBegin(r) PROVE IInv'
BY ClaimBegins DEF RejectBegin

\* A decision that is written found the claim open, at version 0.
LEMMA ClaimEnds ==
  ASSUME IInv, NEW r \in Requests, request[r].at \in {"approve", "reject"}, Done(r),
         \/ expense' = expense
         \/ /\ expense.version = request[r].seen /\ expense' \in Expense
            /\ expense'.version = expense.version + 1
            /\ \/ /\ expense'.status = "approved" /\ expense'.by = request[r].kind
                  /\ expense'.posted = expense.posted + 1
               \/ expense'.status = "rejected" /\ expense'.posted = expense.posted,
         UNCHANGED <<copilot, paper, portal, history>>
  PROVE  IInv'
<1>1. ApprovalsTypeOK /\ ClaimDecidedOnce BY DEF IInv
<1>2. /\ request' \in [Requests -> Asked] /\ OnlyThis(r) /\ request'[r].at = "rest"
  BY <1>1, DoneType
<1>3. \A x \in Requests : request'[x].at \in {"approve", "reject"} =>
        request'[x].seen = 0 /\ request'[x].kind \in Users \ {Author}
  BY <1>1, <1>2 DEF ClaimDecidedOnce, OnlyThis
<1>4. ClaimDecidedOnce'
  <2>1. CASE expense' = expense BY <1>1, <1>3, <2>1 DEF ClaimDecidedOnce
  <2>2. CASE /\ expense.version = request[r].seen /\ expense' \in Expense
             /\ expense'.version = expense.version + 1
             /\ \/ /\ expense'.status = "approved" /\ expense'.by = request[r].kind
                   /\ expense'.posted = expense.posted + 1
                \/ expense'.status = "rejected" /\ expense'.posted = expense.posted
    <3>1. /\ expense.version = 0 /\ expense.status = "submitted" /\ expense.posted = 0
          /\ request[r].kind \in Users \ {Author}
      BY <1>1, <2>2 DEF ClaimDecidedOnce
    <3> QED BY <1>3, <2>2, <3>1 DEF ClaimDecidedOnce
  <2> QED BY <2>1, <2>2
<1>5. history' = history /\ history \in History BY <1>1 DEF ApprovalsTypeOK
<1> QED BY <1>2, <1>4, <1>5, ClaimStep

LEMMA ApproveCommitInv == ASSUME IInv, NEW r \in Requests, ApproveCommit(r) PROVE IInv'
<1>1. /\ ApprovalsTypeOK /\ ClaimDecidedOnce /\ request[r].at = "approve"
      /\ expense \in Expense /\ request[r].seen = 0 /\ request[r].kind \in Users
      /\ UNCHANGED <<copilot, paper, portal, history>>
  BY DEF IInv, ClaimDecidedOnce, ApproveCommit
<1>2. CASE expense.version = request[r].seen
  <2>1. /\ expense' = [status |-> "approved", by |-> request[r].kind,
                       version |-> expense.version + 1, posted |-> expense.posted + 1]
        /\ Done(r)
    BY <1>2 DEF ApproveCommit
  <2>2. /\ expense' \in Expense /\ expense'.status = "approved"
        /\ expense'.by = request[r].kind /\ expense'.version = expense.version + 1
        /\ expense'.posted = expense.posted + 1
    BY <1>1, <2>1 DEF Expense
  <2> QED BY <1>1, <1>2, <2>1, <2>2, ClaimEnds
<1>3. CASE expense.version # request[r].seen
  <2>1. expense.status # "submitted" BY <1>1, <1>3 DEF ClaimDecidedOnce
  <2>2. expense' = expense /\ Done(r) BY <1>3, <2>1 DEF ApproveCommit
  <2> QED BY <1>1, <2>2, ClaimEnds
<1> QED BY <1>2, <1>3

LEMMA RejectSaveInv == ASSUME IInv, NEW r \in Requests, RejectSave(r) PROVE IInv'
<1>1. /\ request[r].at = "reject" /\ expense \in Expense /\ Done(r)
      /\ expense' = IF expense.version = request[r].seen
                    THEN [expense EXCEPT !.status = "rejected", !.version = @ + 1] ELSE expense
      /\ UNCHANGED <<copilot, paper, portal, history>>
  BY DEF IInv, ClaimDecidedOnce, RejectSave
<1>2. CASE expense.version = request[r].seen
  <2> DEFINE n == expense.version + 1
  <2>1. n \in Nat /\ expense' = [expense EXCEPT !.status = "rejected", !.version = n]
    BY <1>1, <1>2 DEF Expense
  <2> HIDE DEF n
  <2>2. /\ expense' \in Expense /\ expense'.status = "rejected"
        /\ expense'.version = n /\ expense'.posted = expense.posted
    BY <1>1, <2>1 DEF Expense
  <2> QED BY <1>1, <1>2, <2>2, ClaimEnds DEF n
<1>3. CASE expense.version # request[r].seen BY <1>1, <1>3, ClaimEnds
<1> QED BY <1>2, <1>3
-----------------------------------------------------------------------------
(* A scanned document *)

\* What a step upon the document leaves alone.
LEMMA ScanStep ==
  ASSUME IInv, NEW r \in Requests, request' \in [Requests -> Asked], OnlyThis(r),
         request[r].at \in {"rest", "extract", "bill", "link"},
         request'[r].at \in {"rest", "extract", "bill", "link"},
         (~history.excused => BilledOnce)', VendorsAreNamed',
         copilot' = copilot, expense' = expense, portal' = portal, history' \in History,
         history'.spent = history.spent, history'.lost = history.lost,
         history'.crossed = history.crossed
  PROVE  IInv'
<1>1. ApprovalsTypeOK BY DEF IInv
<1>2. AskedFits(r)' BY DEF AskedFits
<1>3. ApprovalsTypeOK' BY <1>1, <1>2, TypeStep DEF ApprovalsTypeOK, copilot, portal
<1>4. ClaimDecidedOnce' BY NothingClaimed DEF IInv
<1> QED BY <1>3, <1>4, PaperStep

LEMMA UploadInv == ASSUME IInv, NEW r \in Requests, Upload(r) PROVE IInv'
<1>1. /\ ApprovalsTypeOK /\ document \in Document /\ Begin(r, [Idle EXCEPT !.at = "extract"])
      /\ document' = [document EXCEPT !.state = "uploaded"]
      /\ UNCHANGED <<copilot, expense, bills, portal>>
  BY DEF IInv, Upload, VendorsAreNamed
<1> DEFINE q == [Idle EXCEPT !.at = "extract"]
<1>2. q \in Asked /\ q.at = "extract" BY IdleType DEF Asked, Places, Idle
<1>3. Begin(r, q) BY <1>1
<1> HIDE DEF q
<1>4. /\ request' \in [Requests -> Asked] /\ OnlyThis(r) /\ request'[r] = q
      /\ request[r].at = "rest" /\ history' \in History
      /\ history'.spent = history.spent /\ history'.lost = history.lost
      /\ history'.crossed = history.crossed /\ history'.excused = history.excused
  BY <1>1, <1>2, <1>3, BeginType
<1>5. document' \in Document /\ document'.bill = document.bill BY <1>1 DEF Document
<1>6. (~history.excused => BilledOnce)' /\ VendorsAreNamed'
  BY <1>1, <1>2, <1>4, <1>5, NothingBilled DEF IInv
<1> QED BY <1>1, <1>2, <1>4, <1>6, ScanStep

LEMMA ExtractInv == ASSUME IInv, NEW r \in Requests, Extract(r) PROVE IInv'
<1>1. /\ ApprovalsTypeOK /\ document \in Document /\ request[r].at = "extract" /\ Done(r)
      /\ document' = [document EXCEPT !.state = "extracted"]
      /\ UNCHANGED <<copilot, expense, bills, portal, history>>
  BY DEF IInv, Extract, VendorsAreNamed
<1>2. /\ request' \in [Requests -> Asked] /\ OnlyThis(r) /\ request'[r].at = "rest"
  BY <1>1, DoneType
<1>3. document' \in Document /\ document'.bill = document.bill BY <1>1 DEF Document
<1>4. (~history.excused => BilledOnce)' /\ VendorsAreNamed'
  BY <1>1, <1>2, <1>3, NothingBilled DEF IInv
<1>5. history' = history /\ history \in History BY <1>1 DEF ApprovalsTypeOK
<1> QED BY <1>1, <1>2, <1>4, <1>5, ScanStep

LEMMA BillBeginInv == ASSUME IInv, NEW r \in Requests, BillBegin(r) PROVE IInv'
<1>1. /\ ApprovalsTypeOK /\ document.bill = None
      /\ UNCHANGED <<copilot, expense, paper, portal>>
  BY DEF IInv, BillBegin
<1>2. PICK v \in Vendors :
        Begin(r, [Idle EXCEPT !.at = "bill", !.kind = v,
                              !.crossed = \E x \in Requests : request[x].at \in {"bill", "link"}])
  BY DEF BillBegin
<1>3. PICK b \in BOOLEAN : b = (\E x \in Requests : request[x].at \in {"bill", "link"})
  OBVIOUS
<1> DEFINE q == [Idle EXCEPT !.at = "bill", !.kind = v, !.crossed = b]
<1>4. q \in Asked /\ q.at = "bill" /\ q.kind = v /\ q.crossed = b
  BY IdleType DEF Asked, Places, Idle
<1>5. Begin(r, q) BY <1>2, <1>3
<1> HIDE DEF q
<1>6. /\ request' \in [Requests -> Asked] /\ OnlyThis(r) /\ request'[r] = q
      /\ request[r].at = "rest" /\ history' \in History
      /\ history'.spent = history.spent /\ history'.lost = history.lost
      /\ history'.crossed = history.crossed /\ history'.excused = history.excused
  BY <1>1, <1>4, <1>5, BeginType
<1>7. VendorsAreNamed' BY <1>1, <1>4, <1>6 DEF IInv, VendorsAreNamed, OnlyThis, Billing, paper
<1>8. ASSUME BilledOnce PROVE BilledOnce'
  <2>1. bills' = bills /\ document' = document BY <1>1 DEF paper
  <2>2. \A x \in Requests : x # r => request'[x] = request[x] BY <1>6 DEF OnlyThis
  <2>3. ~b => \A x \in Requests : ~Billing(x) /\ ~At(x, "link") BY <1>3 DEF Billing
  <2>4. ~b => bills = {} BY <1>1, <1>8, <2>3 DEF BilledOnce
  <2>5. bills' = {} \/ document'.bill # None \/ \E x \in Requests : At(x, "link")'
    <3>1. \A x \in Requests : At(x, "link") => At(x, "link")' BY <1>6, <2>2
    <3> QED BY <1>8, <2>1, <3>1 DEF BilledOnce
  <2>6. \A x \in Requests : /\ At(x, "bill")' /\ ~request'[x].crossed => bills' = {}
                            /\ At(x, "link")' => ~request'[x].crossed
    BY <1>4, <1>6, <1>8, <2>1, <2>2, <2>4 DEF BilledOnce
  <2>7. \A x, y \in Requests : Billing(x)' /\ Billing(y)' /\ ~request'[x].crossed
                                 /\ ~request'[y].crossed => x = y
    BY <1>4, <1>6, <1>8, <2>2, <2>3 DEF BilledOnce, Billing
  <2> QED BY <1>8, <2>1, <2>5, <2>6, <2>7 DEF BilledOnce
<1>9. (~history.excused => BilledOnce)' BY <1>6, <1>8 DEF IInv
<1> QED BY <1>1, <1>4, <1>6, <1>7, <1>9, ScanStep DEF paper

LEMMA BillCreateInv == ASSUME IInv, NEW r \in Requests, BillCreate(r) PROVE IInv'
<1>1. /\ ApprovalsTypeOK /\ request[r].at = "bill" /\ request[r].kind \in Vendors
      /\ history \in History /\ UNCHANGED <<copilot, expense, document, portal>>
      /\ document \in Document
  BY DEF IInv, ApprovalsTypeOK, BillCreate, VendorsAreNamed, Billing
<1>2. CASE request[r].kind \in bills
  <2>1. Done(r) /\ UNCHANGED <<bills, history>> BY <1>2 DEF BillCreate
  <2>2. /\ request' \in [Requests -> Asked] /\ OnlyThis(r) /\ request'[r].at = "rest"
    BY <1>1, <2>1, DoneType
  <2>3. (~history.excused => BilledOnce)' /\ VendorsAreNamed'
    BY <1>1, <2>1, <2>2, NothingBilled DEF IInv
  <2> QED BY <1>1, <2>1, <2>2, <2>3, ScanStep
<1>3. CASE request[r].kind \notin bills
  <2>1. /\ bills' = bills \cup {request[r].kind} /\ Go(r, "link")
        /\ history' = [history EXCEPT !.excused = @ \/ request[r].crossed]
    BY <1>3 DEF BillCreate
  <2>2. PICK b \in BOOLEAN : b = (history.excused \/ request[r].crossed) OBVIOUS
  <2>3. history' = [history EXCEPT !.excused = b] BY <2>1, <2>2
  <2>4. /\ history' \in History /\ history'.excused = b
        /\ history'.spent = history.spent /\ history'.lost = history.lost
        /\ history'.crossed = history.crossed
    BY <1>1, <2>3 DEF History
  <2>5. /\ request' \in [Requests -> Asked] /\ OnlyThis(r) /\ request'[r].at = "link"
        /\ request'[r].kind = request[r].kind /\ request'[r].crossed = request[r].crossed
    BY <1>1, <2>1, GoType DEF Places
  <2>6. VendorsAreNamed' BY <1>1, <2>5 DEF IInv, VendorsAreNamed, OnlyThis, Billing
  <2>7. ASSUME ~b PROVE BilledOnce'
    <3>1. BilledOnce /\ ~request[r].crossed BY <2>2, <2>7 DEF IInv
    <3>2. bills = {} BY <1>1, <3>1 DEF BilledOnce
    <3>3. bills' = {request[r].kind} BY <2>1, <3>2
    <3>4. \A x \in Requests : x # r => request'[x] = request[x] BY <2>5 DEF OnlyThis
    <3>5. At(r, "link")' BY <2>5
    <3>6. \A x \in Requests : Billing(x) /\ ~request[x].crossed => x = r
      BY <1>1, <3>1 DEF BilledOnce, Billing
    <3>7. \A x \in Requests : Billing(x)' /\ ~request'[x].crossed => x = r
      BY <3>4, <3>6 DEF Billing
    <3>8. \A x \in Requests : /\ At(x, "bill")' => request'[x].crossed
                              /\ At(x, "link")' => ~request'[x].crossed
      BY <2>5, <3>1, <3>4, <3>7 DEF Billing, BilledOnce
    <3>9. \E v \in Vendors : bills' = {v} BY <1>1, <3>3
    <3> QED BY <3>5, <3>7, <3>8, <3>9 DEF BilledOnce
  <2>8. (~history.excused => BilledOnce)' BY <2>4, <2>7
  <2> QED BY <1>1, <2>4, <2>5, <2>6, <2>8, ScanStep
<1> QED BY <1>2, <1>3

LEMMA BillLinkInv == ASSUME IInv, NEW r \in Requests, BillLink(r) PROVE IInv'
<1>1. /\ ApprovalsTypeOK /\ request[r].at = "link" /\ request[r].kind \in Vendors /\ Done(r)
      /\ document \in Document /\ document' = [document EXCEPT !.bill = request[r].kind]
      /\ UNCHANGED <<copilot, expense, bills, portal, history>>
  BY DEF IInv, ApprovalsTypeOK, BillLink, VendorsAreNamed, Billing
<1>2. /\ request' \in [Requests -> Asked] /\ OnlyThis(r) /\ request'[r].at = "rest"
  BY <1>1, DoneType
<1>3. document' \in Document /\ document'.bill # None
  BY <1>1, ApprovalsAssumption DEF Document
<1>4. \A x \in Requests : Billing(x)' => Billing(x) /\ request'[x] = request[x]
  BY <1>2 DEF Billing, OnlyThis
<1>5. VendorsAreNamed' BY <1>3, <1>4 DEF IInv, VendorsAreNamed
<1>6. ASSUME BilledOnce PROVE BilledOnce'
  <2>1. \A x \in Requests : /\ At(x, "bill")' /\ ~request'[x].crossed => bills' = {}
                            /\ At(x, "link")' => ~request'[x].crossed
    BY <1>1, <1>4, <1>6 DEF BilledOnce, Billing
  <2>2. \A x, y \in Requests : Billing(x)' /\ Billing(y)' /\ ~request'[x].crossed
                                 /\ ~request'[y].crossed => x = y
    BY <1>4, <1>6 DEF BilledOnce
  <2> QED BY <1>1, <1>3, <1>6, <2>1, <2>2 DEF BilledOnce
<1>7. (~history.excused => BilledOnce)' BY <1>1, <1>6 DEF IInv
<1>8. history' = history /\ history \in History BY <1>1 DEF ApprovalsTypeOK
<1> QED BY <1>1, <1>2, <1>5, <1>7, <1>8, ScanStep
-----------------------------------------------------------------------------
(* A request is cut off *)

LEMMA FailInv == ASSUME IInv, NEW r \in Requests, Fail(r) PROVE IInv'
<1>1. /\ ApprovalsTypeOK /\ proposals \in Seq(Proposal) /\ history \in History
      /\ request[r] \in Asked /\ Done(r) /\ UNCHANGED <<usage, expense, paper, portal>>
  BY DEF IInv, ApprovalsTypeOK, Fail
<1>2. /\ request' \in [Requests -> Asked] /\ OnlyThis(r) /\ AskedFits(r)'
      /\ request'[r].at = "rest"
  BY <1>1, DoneType
<1>3. PICK lost \in Nat : lost = IF At(r, "record") THEN history.lost + 1 ELSE history.lost
  BY <1>1 DEF History
<1>4. PICK e \in BOOLEAN : e = (history.excused \/ At(r, "link")) OBVIOUS
<1>5. PICK c \in BOOLEAN : c = (history.crossed \/ At(r, "push")) OBVIOUS
<1> DEFINE n == history.failures + 1
<1>6. /\ history' = [history EXCEPT !.failures = n, !.lost = lost, !.excused = e, !.crossed = c]
      /\ n \in Nat
  BY <1>1, <1>3, <1>4, <1>5 DEF Fail, History
<1> HIDE DEF n
<1>7. /\ history' \in History /\ history'.spent = history.spent /\ history'.lost = lost
      /\ history'.excused = e /\ history'.crossed = c
  BY <1>1, <1>6 DEF History
<1> DEFINE cut == request[r].at \in {"save", "push", "pushed"}
           i   == request[r].id
           j   == IF cut THEN i ELSE 0
           w   == [proposals[j] EXCEPT !.crossed = TRUE]
<1>8. ASSUME j \in 1..Len(proposals) PROVE w \in Proposal /\ w.crossed
  <2>1. proposals[j] \in Proposal BY <1>1, <1>8, ElementOfSeq
  <2> HIDE DEF j
  <2> QED BY <2>1 DEF Proposal
<1>9. proposals' = [p \in 1..Len(proposals) |-> IF p = j THEN w ELSE proposals[p]]
  <2>1. proposals' = [p \in 1..Len(proposals) |->
                        IF p = i /\ cut THEN [proposals[p] EXCEPT !.crossed = TRUE]
                        ELSE proposals[p]]
    BY DEF Fail
  <2>2. \A p \in 1..Len(proposals) : (p = i /\ cut) <=> p = j OBVIOUS
  <2> HIDE DEF j, i, cut
  <2> QED BY <2>1, <2>2
<1> HIDE DEF w
<1>10. /\ proposals' \in Seq(Proposal) /\ Len(proposals') = Len(proposals)
       /\ \A p \in 1..Len(proposals) : p # j => proposals'[p] = proposals[p]
       /\ j \in 1..Len(proposals) => proposals'[j] = w
  <2> HIDE DEF j
  <2> QED BY <1>1, <1>8, <1>9, ProposalMapped
<1>11. ApprovalsTypeOK' BY <1>1, <1>2, <1>7, <1>10, TypeStep DEF ApprovalsTypeOK, portal
<1>12. DecidedOnce'
  <2>1. AimsAt(r)' BY <1>2 DEF AimsAt, Deciding
  <2>2. PICK k : k = i OBVIOUS
  <2>3. \A p \in 1..Len(proposals) : p # k => proposals'[p] = proposals[p] BY <1>10, <2>2
  <2>4. ASSUME k \in 1..Len(proposals), request[r].at \in Deciding PROVE Sound(r, k)
    <3> SUFFICES ASSUME ~proposals'[k].crossed
                 PROVE  /\ Alone(r, k) /\ request'[r].at \notin Deciding
                        /\ proposals'[k].runs <= 1
                        /\ proposals'[k].status # "confirmed" => proposals'[k].runs = 0
      BY DEF Sound
    <3>1. ~cut BY <1>8, <1>10, <2>2, <2>4
    <3>2. proposals'[k] = proposals[k] BY <1>10, <2>4, <3>1
    <3>3. Decides(r, k) BY <2>2, <2>4 DEF Decides
    <3>4. Alone(r, k) /\ proposals[k].runs = 0
      BY <1>1, <2>4, <3>1, <3>2, <3>3, DecidesAlone DEF IInv
    <3> QED BY <1>2, <3>2, <3>4 DEF Deciding
  <2>5. CASE request[r].at \in Deciding
    <3>1. request'[r].at \notin Deciding BY <1>2 DEF Deciding
    <3>2. request[r].id = k BY <2>2
    <3>3. Len(proposals') = Len(proposals) BY <1>10
    <3>4. k \in 1..Len(proposals) => Sound(r, k) BY <2>4, <2>5
    <3> HIDE DEF i
    <3> QED BY <1>2, <2>1, <2>3, <3>1, <3>2, <3>3, <3>4, DecideStep DEF IInv
  <2>6. CASE request[r].at \notin Deciding
    <3>1. ~cut BY <2>6 DEF Deciding
    <3>2. \A p \in 1..Len(proposals) : proposals'[p] = proposals[p] BY <1>10, <3>1
    <3>3. proposals' = proposals BY <1>1, <1>10, <3>2, SeqEqual
    <3> QED BY <1>2, <2>6, <3>3, NothingDecided DEF IInv, Deciding
  <2> QED BY <2>5, <2>6
<1>13. ClaimDecidedOnce' BY <1>1, <1>2, NothingClaimed DEF IInv
<1>14. (~history.excused => BilledOnce)' /\ VendorsAreNamed'
  <2>1. bills' = bills /\ document' = document /\ document' \in Document
    BY <1>1 DEF paper, IInv, VendorsAreNamed
  <2>2. CASE request[r].at = "link"
    <3>1. history'.excused BY <1>4, <1>7, <2>2
    <3>2. \A x \in Requests : Billing(x)' => Billing(x) /\ request'[x] = request[x]
      BY <1>2 DEF Billing, OnlyThis
    <3>3. VendorsAreNamed' BY <2>1, <3>2 DEF IInv, VendorsAreNamed
    <3> QED BY <3>1, <3>3
  <2>3. CASE request[r].at # "link"
    <3>1. history'.excused = history.excused BY <1>1, <1>4, <1>7, <2>3 DEF History
    <3> QED BY <1>2, <2>1, <2>3, <3>1, NothingBilled DEF IInv
  <2> QED BY <2>2, <2>3
<1>15. (~history.crossed => PushFollows)'
  <2>1. CASE request[r].at = "push" BY <1>5, <1>7, <2>1
  <2>2. CASE request[r].at # "push"
    <3>1. history'.crossed = history.crossed BY <1>1, <1>5, <1>7, <2>2 DEF History
    <3> QED BY <1>1, <1>2, <2>2, <3>1, NothingPushed DEF IInv, portal
  <2> QED BY <2>1, <2>2
<1>16. BudgetKept'
  <2>1. usage' = usage /\ usage \in Nat /\ history.lost \in Nat
    BY <1>1 DEF ApprovalsTypeOK, History
  <2>2. Bound' = Bound /\ Bound \in Nat
    <3>1. Bound' = Bound BY DEF Bound
    <3>2. {} \in SUBSET Calls OBVIOUS
    <3> QED BY <3>1, <3>2, CallsAreFinite
  <2>3. history.spent = history.lost + usage + Cardinality(Pending)
        /\ usage + Cardinality(Left) < Bound
    BY DEF IInv, BudgetKept
  <2>4. CASE request[r].at = "record"
    <3>1. /\ Cardinality(Pending) \in Nat /\ Cardinality(Left) \in Nat
          /\ Cardinality(Pending') = Cardinality(Pending) - 1
          /\ Cardinality(Left') \in Nat /\ Cardinality(Left') <= Cardinality(Left) - 1
      BY <1>1, <1>2, <2>4, NoLongerPending
    <3>2. history'.lost = history.lost + 1 BY <1>3, <1>7, <2>4
    <3>3. history'.spent = history'.lost + usage' + Cardinality(Pending')
      BY <1>7, <2>1, <2>3, <3>1, <3>2
    <3>4. usage' + Cardinality(Left') < Bound' BY <2>1, <2>2, <2>3, <3>1
    <3> QED BY <3>3, <3>4 DEF BudgetKept
  <2>5. CASE request[r].at # "record"
    <3>1. Calls' = Calls /\ \A x \in Calls : x[1] \in Requests BY DEF Calls
    <3>2. \A x \in Calls : x[1] # r => request'[x[1]] = request[x[1]]
      BY <1>2, <3>1 DEF OnlyThis
    <3>3. \A x \in Calls : x \in Pending' <=> x \in Pending
      BY <1>2, <2>5, <3>1, <3>2 DEF Pending
    <3>4. \A x \in Calls : x \in Left' => x \in Left
      BY <1>2, <3>1, <3>2 DEF Left
    <3>5. Pending' = Pending BY <3>1, <3>3 DEF Pending
    <3>6. Left' \in SUBSET Left /\ Left \in SUBSET Calls
      <4>1. Left' \subseteq Calls /\ Left \subseteq Calls BY <3>1 DEF Left
      <4> QED BY <3>4, <4>1
    <3>7. Left' \in SUBSET Calls BY <3>6
    <3>8. Cardinality(Left) \in Nat /\ Cardinality(Left') <= Cardinality(Left)
      BY <3>6, CallsAreFinite
    <3>9. Cardinality(Left') \in Nat BY <3>7, CallsAreFinite
    <3>10. history'.lost = history.lost BY <1>3, <1>7, <2>5
    <3>11. usage' + Cardinality(Left') < Bound' BY <2>1, <2>2, <2>3, <3>8, <3>9
    <3> QED BY <1>7, <2>1, <2>3, <3>5, <3>10, <3>11 DEF BudgetKept
  <2> QED BY <2>4, <2>5
<1> QED BY <1>11, <1>12, <1>13, <1>14, <1>15, <1>16 DEF IInv

-----------------------------------------------------------------------------

LEMMA InitInv == Init => IInv
<1> SUFFICES ASSUME Init PROVE IInv OBVIOUS
<1>1. \A r \in Requests : request[r] = Idle /\ request[r].at = "rest"
  BY DEF Init, Idle
<1>2. ApprovalsTypeOK
  <2>1. request \in [Requests -> Asked] BY IdleType DEF Init
  <2>2. proposals \in Seq(Proposal) BY DEF Init
  <2>3. history \in History BY DEF Init, History
  <2>4. ims \in Record BY DEF Init, Record
  <2> QED BY <1>1, <2>1, <2>2, <2>3, <2>4 DEF Init, ApprovalsTypeOK
<1>3. DecidedOnce
  <2>1. 1..Len(proposals) = {} BY DEF Init
  <2> QED BY <1>1, <2>1 DEF DecidedOnce, AimsAt, Deciding
<1>4. ClaimDecidedOnce BY <1>1, ApprovalsAssumption DEF Init, ClaimDecidedOnce, Expense
<1>5. BilledOnce /\ VendorsAreNamed
  BY <1>1 DEF Init, BilledOnce, VendorsAreNamed, Billing, Document
<1>6. PushFollows BY <1>1 DEF Init, PushFollows
<1>7. BudgetKept
  <2>1. \A c \in Calls : c[1] \in Requests BY DEF Calls
  <2>2. Pending = {} /\ Left = {} BY <1>1, <2>1 DEF Pending, Left
  <2>3. Cardinality({}) = 0 BY FS_EmptySet
  <2>4. Bound > 0
    <3>1. PICK r \in Requests : TRUE BY ApprovalsAssumption
    <3>2. <<r, 1>> \in Calls BY ApprovalsAssumption DEF Calls
    <3>3. {<<r, 1>>} \in SUBSET Calls BY <3>2
    <3>4. Cardinality({<<r, 1>>}) = 1 BY FS_Singleton
    <3>5. Quota + 1 <= Bound /\ Bound \in Nat BY <3>3, <3>4, CallsAreFinite
    <3> QED BY <3>5, ApprovalsAssumption
  <2> QED BY <2>2, <2>3, <2>4 DEF Init, BudgetKept
<1> QED BY <1>2, <1>3, <1>4, <1>5, <1>6, <1>7 DEF IInv

LEMMA NextInv == IInv /\ [Next]_vars => IInv'
<1> SUFFICES ASSUME IInv, [Next]_vars PROVE IInv' OBVIOUS
<1>1. ASSUME NEW r \in Requests, Turn(r) PROVE IInv'
  BY <1>1, TurnBeginInv, TurnChatInv, TurnRecordInv, TurnToolInv DEF Turn
<1>2. ASSUME NEW r \in Requests, Decide(r) PROVE IInv'
  BY <1>2, ConfirmBeginInv, ConfirmExpireInv, ConfirmRunInv, ConfirmSaveInv,
     RefuseBeginInv, RefuseSaveInv DEF Decide
<1>3. ASSUME NEW r \in Requests, ActUpon(r) PROVE IInv'
  BY <1>3, ActBeginInv, ActSaveInv, ActPushInv, ActPushedInv, SyncMatchInv, SyncUpsertInv
     DEF ActUpon
<1>4. ASSUME NEW r \in Requests, Claim(r) PROVE IInv'
  BY <1>4, ApproveBeginInv, ApproveCommitInv, RejectBeginInv, RejectSaveInv DEF Claim
<1>5. ASSUME NEW r \in Requests, Scan(r) PROVE IInv'
  BY <1>5, UploadInv, ExtractInv, BillBeginInv, BillCreateInv, BillLinkInv DEF Scan
<1>6. ASSUME NEW r \in Requests, Fail(r) PROVE IInv' BY <1>6, FailInv
<1>7. CASE UNCHANGED vars
  <2>1. /\ usage' = usage /\ proposals' = proposals /\ expense' = expense
        /\ document' = document /\ bills' = bills /\ ims' = ims /\ gsp' = gsp
        /\ request' = request /\ history' = history
    BY <1>7 DEF vars
  <2>2. ApprovalsTypeOK' BY <2>1 DEF IInv, ApprovalsTypeOK
  <2>3. DecidedOnce' BY <2>1 DEF IInv, DecidedOnce, AimsAt, Decided, Decides, HasRun
  <2>4. ClaimDecidedOnce' BY <2>1 DEF IInv, ClaimDecidedOnce
  <2>5. (~history.excused => BilledOnce)' /\ VendorsAreNamed'
    BY <2>1 DEF IInv, BilledOnce, VendorsAreNamed, Billing
  <2>6. (~history.crossed => PushFollows)' BY <2>1 DEF IInv, PushFollows
  <2>7. Pending' = Pending /\ Left' = Left /\ Bound' = Bound
    BY <2>1 DEF Pending, Left, Bound, Calls
  <2>8. BudgetKept' BY <2>1, <2>7 DEF IInv, BudgetKept
  <2> QED BY <2>2, <2>3, <2>4, <2>5, <2>6, <2>8 DEF IInv
<1> QED
  BY <1>1, <1>2, <1>3, <1>4, <1>5, <1>6, <1>7, ProposalLapseInv
  DEF Next, PapersNext, DecisionsNext

LEMMA Invariance == Spec => []IInv
BY InitInv, NextInv, PTL DEF Spec

-----------------------------------------------------------------------------

\* A confirmed proposal, an approved claim and a scanned document take effect once, and
\* what was rejected, or came too late, not at all (ai/registry.ts, expenseService.ts,
\* documentService.ts): whatever proposals there are, and however many decide at once.
THEOREM DecisionsHold == Spec => []ApprovedOnce
<1>1. IInv => ApprovedOnce
  <2> SUFFICES ASSUME IInv PROVE ApprovedOnce OBVIOUS
  <2>1. ProposalsRunOnce BY DEF IInv, DecidedOnce, Decided, ProposalsRunOnce
  <2>2. ASSUME ~history.excused PROVE Cardinality(bills) <= 1
    <3>1. bills = {} \/ \E v \in Vendors : bills = {v} BY <2>2 DEF IInv, BilledOnce
    <3>2. Cardinality({}) = 0 /\ \A v : Cardinality({v}) = 1 BY FS_EmptySet, FS_Singleton
    <3> QED BY <3>1, <3>2
  <2>3. PapersArePostedOnce
    BY <2>2 DEF IInv, ClaimDecidedOnce, PapersArePostedOnce
  <2> QED BY <2>1, <2>3 DEF ApprovedOnce
<1> QED BY <1>1, Invariance, PTL

\* The portal has the action that is saved here when nobody is at it, unless two acted
\* upon the record at once or a push failed (imsService.ts).
THEOREM PortalIsTold == Spec => []PortalFollowsRecord
<1>1. IInv => PortalFollowsRecord BY DEF IInv, PushFollows, PortalFollowsRecord
<1> QED BY <1>1, Invariance, PTL

\* What the turns that were let in together spend beyond the quota is bounded, for any
\* number of them and of tools (ai/gateway.ts).
THEOREM BudgetHolds == Spec => []BudgetIsBounded
<1>1. IInv => BudgetIsBounded
  <2> SUFFICES ASSUME IInv PROVE BudgetIsBounded OBVIOUS
  <2>1. /\ usage \in Nat /\ history.lost \in Nat
        /\ history.spent = history.lost + usage + Cardinality(Pending)
        /\ usage + Cardinality(Left) < Bound
    BY DEF IInv, ApprovalsTypeOK, History, BudgetKept
  <2>2. Pending \in SUBSET Left
    <3> SUFFICES ASSUME NEW c \in Calls, At(c[1], "record"), request[c[1]].calls = c[2]
                 PROVE  request[c[1]].calls <= c[2]
      BY DEF Pending, Left
    <3>1. c[2] \in Nat BY ApprovalsAssumption DEF Calls
    <3> QED BY <3>1
  <2>3. Left \in SUBSET Calls /\ Pending \in SUBSET Calls BY <2>2 DEF Left
  <2>4. /\ Cardinality(Left) \in Nat /\ Cardinality(Pending) \in Nat
        /\ Cardinality(Pending) <= Cardinality(Left) /\ Bound \in Nat
    BY <2>2, <2>3, CallsAreFinite
  <2>5. history.spent - history.lost < Bound BY <2>1, <2>4
  <2> QED BY <2>5 DEF BudgetIsBounded, Bound
<1> QED BY <1>1, Invariance, PTL

-----------------------------------------------------------------------------
(* What is shown is what was chosen (module Chosen) *)

\* What was loaded for a choice is of the choice.
KeptFits ==
  view = "kept" =>
    /\ \A r \in reads : r.of = chosen
    /\ ~erred /\ reads = {} => shown = chosen

\* The dialog shows what was opened, and everything in flight is of it.
DialogFits ==
  view = "dialog" /\ ~hasty /\ ~erred => shown = chosen /\ \A r \in reads : r.of = chosen

\* The next message goes to the conversation that is shown, which is the chosen one
\* unless it is being read.
CopilotFits ==
  view = "copilot" /\ ~hasty /\ ~replaced =>
    /\ conv = shown
    /\ ~erred => /\ \A r \in reads : r.of = chosen
                 /\ reads = {} => shown = chosen
    /\ \A r \in reads : ~r.fatal

\* While a message is answered nothing else comes by itself; it goes to the conversation
\* of the page, or begins one.
SendingFits ==
  sending # NotSending /\ ~hasty /\ ~replaced =>
    /\ reads = {} /\ ~(listing /\ ~restored)
    /\ IF sending.at = "begins" THEN conv = Nothing ELSE conv # Nothing /\ sending.to = conv

\* While the list may yet restore a conversation, either nothing was done, or there is one.
ListingFits ==
  listing /\ ~restored /\ ~hasty /\ ~replaced =>
    reads = {} /\ (conv = Nothing => gestures = 0 /\ chosen = Nothing)

\* Conversations are the copilot's, and one that was mixed up with another is excused.
ViewFits ==
  /\ gestures \in Nat /\ view \in {"kept", "dialog", "copilot"}
  /\ view # "copilot" => listing = FALSE /\ sending = NotSending /\ mixed = FALSE /\ listed = <<>>
  /\ mixed => hasty \/ replaced

\* The inductive invariant.
ChosenInv == ViewFits /\ KeptFits /\ DialogFits /\ CopilotFits /\ SendingFits /\ ListingFits

\* Every action keeps the invariant.  What is chosen anew is alone in being read.
LEMMA PickInv ==
  ASSUME ChosenInv, NEW x \in Things, Pick(x)
  PROVE  ChosenInv'
<1>1. ViewFits' BY DEF ChosenInv, ViewFits, Pick, Gesture, NotSending, copilotVars
<1>2. KeptFits'
  <2>1. chosen' = x /\ reads' = {ReadOf(x, FALSE)} BY DEF Pick, Alive
  <2>2. \A r \in reads' : r.of = x BY <2>1 DEF ReadOf
  <2>3. reads' # {} BY <2>1
  <2> QED BY <2>1, <2>2, <2>3 DEF KeptFits
<1>3. DialogFits' BY DEF DialogFits, Pick
<1>4. CopilotFits' BY DEF CopilotFits, Pick
<1>5. SendingFits' BY DEF ChosenInv, ViewFits, SendingFits, Pick, copilotVars
<1>6. ListingFits' BY DEF ChosenInv, ViewFits, ListingFits, Pick, copilotVars
<1> QED BY <1>1, <1>2, <1>3, <1>4, <1>5, <1>6 DEF ChosenInv

\* An invoice is opened and shown from the list; what was in flight is another's.
LEMMA OpenInv ==
  ASSUME ChosenInv, NEW x \in Things, Open(x)
  PROVE  ChosenInv'
<1>1. ViewFits' BY DEF ChosenInv, ViewFits, Open, Gesture, NotSending, copilotVars
<1>2. KeptFits' BY DEF KeptFits, Open
<1>3. DialogFits'
  <2>1. chosen' = x /\ shown' = x BY DEF Open
  <2>2. \A r \in reads' : r \in reads \/ r.of = x BY DEF Open, ReadOf
  <2>3. ~hasty' => reads = {} BY DEF Open
  <2> QED BY <2>1, <2>2, <2>3 DEF DialogFits
<1>4. CopilotFits' BY DEF CopilotFits, Open
<1>5. SendingFits' BY DEF ChosenInv, ViewFits, SendingFits, Open, copilotVars
<1>6. ListingFits' BY DEF ChosenInv, ViewFits, ListingFits, Open, copilotVars
<1> QED BY <1>1, <1>2, <1>3, <1>4, <1>5, <1>6 DEF ChosenInv

\* Nothing that was chosen changes when the page is left for another ...
LEMMA LeaveInv ==
  ASSUME ChosenInv, Leave
  PROVE  ChosenInv'
<1>1. ViewFits' BY DEF ChosenInv, ViewFits, Leave, Gesture, NotSending, copilotVars
<1>2. KeptFits' BY DEF KeptFits, Leave
<1>3. DialogFits' BY DEF DialogFits, Leave
<1>4. CopilotFits' BY DEF CopilotFits, Leave
<1>5. SendingFits' BY DEF ChosenInv, SendingFits, Leave, copilotVars
<1>6. ListingFits' BY DEF ChosenInv, ListingFits, Leave, copilotVars
<1> QED BY <1>1, <1>2, <1>3, <1>4, <1>5, <1>6 DEF ChosenInv

\* ... or the dialog closed.
LEMMA CloseInv ==
  ASSUME ChosenInv, Close
  PROVE  ChosenInv'
<1>1. ViewFits' BY DEF ChosenInv, ViewFits, Close, Gesture, NotSending, copilotVars
<1>2. KeptFits' BY DEF KeptFits, Close
<1>3. DialogFits' BY DEF DialogFits, Close
<1>4. CopilotFits' BY DEF CopilotFits, Close
<1>5. SendingFits' BY DEF ChosenInv, SendingFits, Close, copilotVars
<1>6. ListingFits' BY DEF ChosenInv, ViewFits, ListingFits, Close, copilotVars
<1> QED BY <1>1, <1>2, <1>3, <1>4, <1>5, <1>6 DEF ChosenInv

\* An act in the dialog reads its own invoice again.
LEMMA ActInDialogInv ==
  ASSUME ChosenInv, ActInDialog
  PROVE  ChosenInv'
<1>1. ViewFits' BY DEF ChosenInv, ViewFits, ActInDialog, Gesture, NotSending, copilotVars
<1>2. KeptFits' BY DEF KeptFits, ActInDialog
<1>3. DialogFits' BY DEF ChosenInv, DialogFits, ActInDialog, ReadOf
<1>4. CopilotFits' BY DEF CopilotFits, ActInDialog
<1>5. SendingFits' BY DEF ChosenInv, ViewFits, SendingFits, ActInDialog, copilotVars
<1>6. ListingFits' BY DEF ChosenInv, ViewFits, ListingFits, ActInDialog, copilotVars
<1> QED BY <1>1, <1>2, <1>3, <1>4, <1>5, <1>6 DEF ChosenInv

\* A conversation is chosen; the one shown stays until it was read.
LEMMA OpenConversationInv ==
  ASSUME ChosenInv, NEW c, OpenConversation(c)
  PROVE  ChosenInv'
<1>1. ViewFits'
  <2>1. (mixed => hasty \/ replaced)' BY DEF ChosenInv, ViewFits, OpenConversation, copilotVars
  <2> QED BY <2>1 DEF ChosenInv, ViewFits, OpenConversation, Gesture, NotSending, copilotVars
<1>2. KeptFits' BY DEF KeptFits, OpenConversation
<1>3. DialogFits' BY DEF DialogFits, OpenConversation
<1>4. CopilotFits'
  <2>1. chosen' = c /\ conv' = conv /\ shown' = shown BY DEF OpenConversation, copilotVars
  <2>2. \A r \in reads' : r \in reads \/ (r.of = c /\ ~r.fatal) BY DEF OpenConversation, ReadOf
  <2>3. reads' # {} BY DEF OpenConversation
  <2>4. /\ UNCHANGED <<view, erred, replaced>> /\ (hasty => hasty')
        /\ ~hasty' => reads = {}
    BY DEF OpenConversation, Unsettled, copilotVars
  <2> QED BY <2>1, <2>2, <2>3, <2>4 DEF ChosenInv, CopilotFits
<1>5. SendingFits' BY DEF SendingFits, OpenConversation, copilotVars
<1>6. ListingFits' BY DEF ListingFits, OpenConversation, Unsettled, copilotVars
<1> QED BY <1>1, <1>2, <1>3, <1>4, <1>5, <1>6 DEF ChosenInv

\* The list restores a conversation only if nothing was done meanwhile.
LEMMA ListAnswerInv ==
  ASSUME ChosenInv, ListAnswer
  PROVE  ChosenInv'
<1>1. ViewFits' BY DEF ChosenInv, ViewFits, ListAnswer, NotSending
<1>2. KeptFits' BY DEF ChosenInv, ViewFits, KeptFits, ListAnswer
<1>3. DialogFits' BY DEF ChosenInv, ViewFits, DialogFits, ListAnswer
<1>4. CopilotFits'
  <2>1. UNCHANGED <<view, shown, erred, hasty, conv, replaced>> BY DEF ListAnswer
  <2>2. CASE Restores(saved, conv)
    <3>1. reads' = reads \cup {ReadOf(saved[1], FALSE)} BY <2>2 DEF ListAnswer
    <3>2. \A r \in reads' : r \in reads \/ (r.of = saved[1] /\ ~r.fatal) BY <3>1 DEF ReadOf
    <3>3. reads' # {} BY <3>1
    <3>4. ~hasty /\ ~replaced => reads = {} /\ chosen' = saved[1]
      BY <2>2 DEF ListAnswer, Restores, ChosenInv, ListingFits
    <3> QED BY <2>1, <3>2, <3>3, <3>4 DEF ChosenInv, CopilotFits
  <2>3. CASE ~Restores(saved, conv)
    BY <2>1, <2>3 DEF ListAnswer, ChosenInv, CopilotFits
  <2> QED BY <2>2, <2>3
<1>5. SendingFits' BY DEF ChosenInv, SendingFits, ListAnswer, Restores
<1>6. ListingFits' BY DEF ListingFits, ListAnswer
<1> QED BY <1>1, <1>2, <1>3, <1>4, <1>5, <1>6 DEF ChosenInv

\* A new chat is begun: nothing is read, unless the last one comes back.
LEMMA NewChatInv ==
  ASSUME ChosenInv, NewChat
  PROVE  ChosenInv'
<1>1. ViewFits'
  <2>1. (mixed => hasty \/ replaced)' BY DEF ChosenInv, ViewFits, NewChat
  <2> QED BY <2>1 DEF ChosenInv, ViewFits, NewChat, Gesture, NotSending
<1>2. KeptFits' BY DEF KeptFits, NewChat
<1>3. DialogFits' BY DEF DialogFits, NewChat
<1>4. CopilotFits' BY DEF CopilotFits, NewChat, Unsettled
<1>5. SendingFits' BY DEF SendingFits, NewChat
<1>6. ListingFits' BY DEF ListingFits, NewChat, Unsettled
<1> QED BY <1>1, <1>2, <1>3, <1>4, <1>5, <1>6 DEF ChosenInv

\* A message is on its way to the conversation of the page.
LEMMA SendInv ==
  ASSUME ChosenInv, Send
  PROVE  ChosenInv'
<1>1. ViewFits'
  <2>1. (mixed => hasty \/ replaced)' BY DEF ChosenInv, ViewFits, Send
  <2> QED BY <2>1 DEF ChosenInv, ViewFits, Send, Gesture, NotSending
<1>2. KeptFits' BY DEF KeptFits, Send
<1>3. DialogFits' BY DEF DialogFits, Send
<1>4. CopilotFits' BY DEF ChosenInv, CopilotFits, Send
<1>5. SendingFits' BY DEF SendingFits, Send, Unsettled
<1>6. ListingFits' BY DEF ListingFits, Send, Unsettled
<1> QED BY <1>1, <1>2, <1>3, <1>4, <1>5, <1>6 DEF ChosenInv

\* The conversation it began has a name no other has, and becomes the page's.
LEMMA BegunInv ==
  ASSUME ChosenInv, Begun
  PROVE  ChosenInv'
<1>1. ViewFits' BY DEF ChosenInv, ViewFits, Begun, NotSending
<1>2. KeptFits' BY DEF ChosenInv, ViewFits, KeptFits, NotSending, Begun
<1>3. DialogFits' BY DEF ChosenInv, ViewFits, DialogFits, NotSending, Begun
<1>4. CopilotFits' BY DEF ChosenInv, CopilotFits, SendingFits, NotSending, Begun
<1>5. SendingFits' BY ChosenAssumption DEF ChosenInv, ViewFits, SendingFits, NotSending, Begun
<1>6. ListingFits' BY ChosenAssumption DEF ChosenInv, ViewFits, ListingFits, Begun
<1> QED BY <1>1, <1>2, <1>3, <1>4, <1>5, <1>6 DEF ChosenInv

\* Its answer is written where it belongs.
LEMMA StreamsInv ==
  ASSUME ChosenInv, Streams
  PROVE  ChosenInv'
<1>1. ViewFits'
  <2>1. sending # NotSending /\ sending.at # "begins" BY DEF Streams, NotSending
  <2>2. view = "copilot" BY <2>1 DEF ChosenInv, ViewFits
  <2>3. ~hasty /\ ~replaced => shown = sending.to
    BY <2>1, <2>2 DEF ChosenInv, CopilotFits, SendingFits
  <2> QED BY <2>2, <2>3 DEF ChosenInv, ViewFits, Streams
<1>2. KeptFits' BY DEF ChosenInv, KeptFits, Streams
<1>3. DialogFits' BY DEF ChosenInv, DialogFits, Streams
<1>4. CopilotFits' BY DEF ChosenInv, CopilotFits, Streams
<1>5. SendingFits' BY DEF ChosenInv, SendingFits, Streams
<1>6. ListingFits' BY DEF ChosenInv, ListingFits, Streams
<1> QED BY <1>1, <1>2, <1>3, <1>4, <1>5, <1>6 DEF ChosenInv

\* The answer is complete ...
LEMMA EndsInv ==
  ASSUME ChosenInv, Ends
  PROVE  ChosenInv'
<1>1. ViewFits' BY DEF ChosenInv, ViewFits, Ends, NotSending
<1>2. KeptFits' BY DEF ChosenInv, KeptFits, Ends
<1>3. DialogFits' BY DEF ChosenInv, DialogFits, Ends
<1>4. CopilotFits' BY DEF ChosenInv, CopilotFits, Ends
<1>5. SendingFits' BY DEF SendingFits, Ends
<1>6. ListingFits' BY DEF ChosenInv, SendingFits, ListingFits, NotSending, Ends
<1> QED BY <1>1, <1>2, <1>3, <1>4, <1>5, <1>6 DEF ChosenInv

\* ... or did not come.
LEMMA SendFailsInv ==
  ASSUME ChosenInv, SendFails
  PROVE  ChosenInv'
<1>1. ViewFits' BY DEF ChosenInv, ViewFits, SendFails, NotSending
<1>2. KeptFits' BY DEF ChosenInv, KeptFits, SendFails
<1>3. DialogFits' BY DEF DialogFits, SendFails
<1>4. CopilotFits' BY DEF ChosenInv, CopilotFits, SendFails
<1>5. SendingFits' BY DEF SendingFits, SendFails
<1>6. ListingFits' BY DEF ChosenInv, ListingFits, SendFails
<1> QED BY <1>1, <1>2, <1>3, <1>4, <1>5, <1>6 DEF ChosenInv

\* What was read is shown.
LEMMA AnswerInv ==
  ASSUME ChosenInv, NEW r \in reads, Answer(r)
  PROVE  ChosenInv'
<1>1. ViewFits' BY DEF ChosenInv, ViewFits, Answer, NotSending
<1>2. KeptFits' BY DEF ChosenInv, KeptFits, Answer
<1>3. DialogFits' BY DEF ChosenInv, DialogFits, Answer
<1>4. CopilotFits' BY DEF ChosenInv, CopilotFits, Answer
<1>5. SendingFits' BY DEF ChosenInv, SendingFits, Answer
<1>6. ListingFits' BY DEF ChosenInv, ListingFits, Answer
<1> QED BY <1>1, <1>2, <1>3, <1>4, <1>5, <1>6 DEF ChosenInv

\* A read fails, which is remembered.
LEMMA FailsInv ==
  ASSUME ChosenInv, NEW r \in reads, Fails(r)
  PROVE  ChosenInv'
<1>1. ViewFits' BY DEF ChosenInv, ViewFits, Fails, NotSending, copilotVars
<1>2. KeptFits' BY DEF ChosenInv, KeptFits, Fails
<1>3. DialogFits' BY DEF DialogFits, Fails
<1>4. CopilotFits' BY DEF ChosenInv, CopilotFits, Fails, copilotVars
<1>5. SendingFits' BY DEF ChosenInv, SendingFits, Fails, copilotVars
<1>6. ListingFits' BY DEF ChosenInv, ListingFits, Fails, copilotVars
<1> QED BY <1>1, <1>2, <1>3, <1>4, <1>5, <1>6 DEF ChosenInv

\* At the beginning nothing was chosen.
LEMMA ChosenStart == ASSUME ChosenInit PROVE ChosenInv
BY DEF ChosenInit, ChosenInv, ViewFits, KeptFits, DialogFits, CopilotFits, SendingFits,
   ListingFits

\* A step of something else changes nothing of it.
LEMMA ChosenStay == ASSUME ChosenInv, UNCHANGED choiceVars PROVE ChosenInv'
BY DEF choiceVars, copilotVars, ChosenInv, ViewFits, KeptFits, DialogFits, CopilotFits,
   SendingFits, ListingFits

\* So every step keeps it.
LEMMA ChosenStep == ASSUME ChosenInv, [ChosenNext]_choiceVars PROVE ChosenInv'
BY PickInv, OpenInv, LeaveInv, CloseInv, ActInDialogInv, OpenConversationInv, ListAnswerInv,
   NewChatInv, SendInv,
   BegunInv, StreamsInv, EndsInv, SendFailsInv, AnswerInv, FailsInv, ChosenStay DEF ChosenNext

\* Once everything is answered, what is on the screen is of what was chosen, and no answer is
\* written into another conversation, but after a failure or a step taken before the answers
\* came: for any number of things, conversations, gestures and errors.
THEOREM ScreenShowsChoice == ChosenSpec => []ShownIsChosen
<1>1. ChosenInv => ShownIsChosen
  BY DEF ChosenInv, ViewFits, ShownIsChosen, KeptFits, DialogFits, CopilotFits
<1> QED BY <1>1, ChosenStart, ChosenStep, PTL DEF ChosenSpec

-----------------------------------------------------------------------------
(* Answers fit their questions (module Answers) *)

\* Whatever is called, said, or done in a turn.
Tools == DOMAIN Fields

Says == {"proposal", "revenue", "expenses", "profit", "cash", "health", "receivables", "data",
         "greeting", "guide", "noCustomer", "nothing", "prose", "canned"}

Word == [call : Tools \cup {"noSuchTool", "nothing"}, says : Says,
         figures : SUBSET {"found", Small, Unfounded}]

Turning ==
  [at : {"rest", "chat", "asked", "done", "failed"}, asks : Questions \cup {{}}, next : Nat,
   last : {"user", "tool", "system"}, tool : Tools \cup {"nothing"}, found : BOOLEAN,
   retried : BOOLEAN, answer : Word, raw : BOOLEAN, waits : Nat, thawed : BOOLEAN, alone : BOOLEAN]

\* Turns are well typed.
AnswersTypeOK == turn \in [Turns -> Turning] /\ cooling \in BOOLEAN

\* A tool answers a topic of the question, and who asks may use it; the first such topic.
Granted(q) == Answerable(q) # {}
TopicOf(q) == Intents[First(Answerable(q))]

\* Figures are founded, if anything was found.
FoundedAnswer(t) ==
  turn[t].at = "done" /\ turn[t].found => turn[t].raw \/ turn[t].answer.figures \subseteq {"found", Small}

\* A turn that waited for Gemini waits again only when the pause ended meanwhile.
PausesFit(t) ==
  /\ turn[t].waits > 0 => cooling \/ turn[t].thawed
  /\ turn[t].waits > 1 => turn[t].thawed
  /\ turn[t].at = "asked" /\ provider = "gemini" /\ turn[t].waits > 0 => turn[t].thawed

\* Alone, the engine calls the tool of the question's first topic that is granted, and then
\* says what it found; an amount below a rupee it is asked again, and then says nothing.
AloneFits(t) ==
  turn[t].alone =>
    /\ turn[t].at # "failed"
    /\ turn[t].at = "rest" => ~turn[t].retried
    /\ turn[t].at \in {"chat", "asked"} =>
         \/ turn[t].last = "user" /\ turn[t].next = 0 /\ ~turn[t].found /\ ~turn[t].retried
         \/ /\ Granted(turn[t].asks) /\ turn[t].tool = ToolOf[TopicOf(turn[t].asks)]
            /\ turn[t].last = "tool" /\ ~turn[t].retried
         \/ /\ Granted(turn[t].asks) /\ booked = "pennies"
            /\ turn[t].last = "system" /\ turn[t].retried
    /\ turn[t].at = "done" =>
         /\ turn[t].retried => booked = "pennies"
         /\ \/ FitsQuestion(turn[t].asks, turn[t].answer.says)
            \/ turn[t].retried /\ turn[t].answer.says = "nothing"

\* The inductive invariant.
AnswersInv ==
  AnswersTypeOK /\ \A t \in Turns : FoundedAnswer(t) /\ PausesFit(t) /\ AloneFits(t)

\* What the loop makes of a turn: it goes on with the tool's result, fails, is done, or is
\* asked again.
LEMMA LoopIs ==
  ASSUME NEW w \in Turning, NEW u \in Word, w.at \in {"chat", "asked"}
  PROVE  /\ Loop(w, u) \in Turning
         /\ Loop(w, u).asks = w.asks /\ Loop(w, u).waits = w.waits
         /\ Loop(w, u).thawed = w.thawed /\ Loop(w, u).alone = w.alone
         /\ \/ /\ Loop(w, u).at = "chat" /\ Loop(w, u).last = "tool" /\ Loop(w, u).tool = u.call
               /\ ~w.retried /\ ~Loop(w, u).retried /\ u.call # "nothing"
            \/ Loop(w, u).at = "failed" /\ u.call # "nothing" /\ u.call \notin toolsFor(allowed)
            \/ /\ Loop(w, u).at = "done" /\ Loop(w, u).answer = u /\ Loop(w, u).retried = w.retried
               /\ Loop(w, u).found => Loop(w, u).raw \/ u.figures \subseteq {"found", Small}
               /\ w.retried \/ u.call = "nothing" \/ w.next >= ToolLimit
            \/ /\ Loop(w, u).at = "chat" /\ Loop(w, u).last = "system" /\ Loop(w, u).retried
               /\ w.found /\ ~w.retried /\ Unfounded \in u.figures
               /\ u.call = "nothing" \/ w.next >= ToolLimit
<1>1. CASE ~w.retried /\ u.call # "nothing" /\ w.next < ToolLimit
  <2>1. CASE u.call \in toolsFor(allowed)
    <3>1. PICK f \in BOOLEAN : f = (w.found \/ booked # "nothing" \/ u.call \in Writes) OBVIOUS
    <3>2. Loop(w, u) = [w EXCEPT !.at = "chat", !.last = "tool", !.next = @ + 1, !.tool = u.call,
                                 !.found = f]
      BY <1>1, <2>1, <3>1 DEF Loop
    <3>3. u.call \in Tools BY <2>1 DEF toolsFor, Tools, Fields, Writes
    <3>4. Loop(w, u) = [at |-> "chat", asks |-> w.asks, next |-> w.next + 1, last |-> "tool",
                        tool |-> u.call, found |-> f, retried |-> w.retried, answer |-> w.answer, raw |-> w.raw,
                        waits |-> w.waits, thawed |-> w.thawed, alone |-> w.alone]
      BY <3>2 DEF Turning
    <3> QED BY <1>1, <3>3, <3>4 DEF Turning
  <2>2. CASE u.call \notin toolsFor(allowed)
    <3>1. Loop(w, u) = [w EXCEPT !.at = "failed"] BY <1>1, <2>2 DEF Loop
    <3> QED BY <1>1, <2>2, <3>1 DEF Turning
  <2> QED BY <2>1, <2>2
<1>2. CASE ~(~w.retried /\ u.call # "nothing" /\ w.next < ToolLimit)
  <2>0. w.retried \/ u.call = "nothing" \/ w.next >= ToolLimit
    BY <1>2, AnswersAssumption DEF Turning
  <2>1. CASE Grounded(w.retried, w.found, u.figures)
    <3>1. Loop(w, u) = [w EXCEPT !.at = "done", !.answer = u] BY <1>2, <2>1 DEF Loop
    <3>2. w.found => u.figures \subseteq {"found", Small}
      BY <2>1 DEF Grounded, validateGrounding, numberTokens
    <3> QED BY <2>0, <3>1, <3>2 DEF Turning
  <2>2. CASE ~Grounded(w.retried, w.found, u.figures) /\ w.retried
    <3>1. Loop(w, u) = [[w EXCEPT !.at = "done", !.answer = u] EXCEPT !.raw = TRUE]
      BY <1>2, <2>2 DEF Loop
    <3> QED BY <2>2, <3>1 DEF Turning
  <2>3. CASE ~Grounded(w.retried, w.found, u.figures) /\ ~w.retried
    <3>1. Loop(w, u) = [w EXCEPT !.at = "chat", !.last = "system", !.retried = TRUE]
      BY <1>2, <2>3 DEF Loop
    <3>2. w.found /\ Unfounded \in u.figures
      BY <2>3 DEF Grounded, validateGrounding, numberTokens, Word
    <3> QED BY ZenonT(60), <2>0, <2>3, <3>1, <3>2 DEF Turning
  <2> QED BY <2>1, <2>2, <2>3
<1> QED BY <1>1, <1>2

\* The topics that a tool answers.
LEMMA TopicTools == DOMAIN ToolOf = {"revenue", "expenses", "profit", "cash", "health", "forecast",
                                    "receivables", "invoice"}
BY DEF ToolOf

\* The tools of the questions are tools, and what is said of their results fits, or is known
\* not to.
LEMMA ToolTurnFits ==
  ASSUME NEW q \in DOMAIN ToolOf
  PROVE  /\ ToolOf[q] \in Tools
         /\ ToolTurn(ToolOf[q]) \in Says
         /\ ToolTurn(ToolOf[q]) \in Fits(q) \/ <<q, ToolTurn(ToolOf[q])>> \in KnownMisfits
<1>1. CASE q = "revenue"
  <2>1. ToolOf[q] = "getRevenue" BY <1>1 DEF ToolOf
  <2>2. ToolTurn("getRevenue") = "revenue" BY DEF ToolTurn, Order, Fields, First
  <2> QED BY <1>1, <2>1, <2>2, TopicTools DEF Tools, Fields, Fits, Says
<1>2. CASE q = "expenses"
  <2>1. ToolOf[q] = "getExpenses" BY <1>2 DEF ToolOf
  <2>2. ToolTurn("getExpenses") = "expenses" BY DEF ToolTurn, Order, Fields, First
  <2> QED BY <1>2, <2>1, <2>2, TopicTools DEF Tools, Fields, Fits, Says
<1>3. CASE q = "profit"
  <2>1. ToolOf[q] = "getProfitAndLoss" BY <1>3 DEF ToolOf
  <2>2. ToolTurn("getProfitAndLoss") = "revenue" BY DEF ToolTurn, Order, Fields, First
  <2> QED BY <1>3, <2>1, <2>2, TopicTools DEF Tools, Fields, KnownMisfits, Says
<1>4. CASE q = "cash"
  <2>1. ToolOf[q] = "getCashPosition" BY <1>4 DEF ToolOf
  <2>2. ToolTurn("getCashPosition") = "profit" BY DEF ToolTurn, Order, Fields, First
  <2> QED BY <1>4, <2>1, <2>2, TopicTools DEF Tools, Fields, KnownMisfits, Says
<1>5. CASE q \in {"health", "forecast", "receivables"}
  <2>1. ToolOf[q] \in {"getHealthScore", "getCashFlowForecast", "getOutstandingReceivables"}
    BY <1>5 DEF ToolOf
  <2>2. Fields[ToolOf[q]] = {} BY <2>1 DEF Fields
  <2>3. ToolTurn(ToolOf[q]) = "data" BY <2>2 DEF ToolTurn
  <2> QED BY <1>5, <2>1, <2>3, TopicTools DEF Tools, Fields, Fits, Says
<1>6. CASE q = "invoice"
  <2>1. ToolOf[q] = "proposeInvoice" BY <1>6 DEF ToolOf
  <2>2. ToolTurn("proposeInvoice") = "proposal" BY DEF ToolTurn, Order, Fields, First
  <2> QED BY <1>6, <2>1, <2>2, TopicTools DEF Tools, Fields, Fits, Says
<1> QED BY <1>1, <1>2, <1>3, <1>4, <1>5, <1>6, TopicTools

\* The first of some places is one of them, and before the others.
LEMMA FirstIs ==
  ASSUME NEW places \in SUBSET (1..8), places # {}
  PROVE  First(places) \in places /\ \A j \in places : First(places) <= j
<1>1. \E i \in places : \A j \in places : i <= j
  <2>1. CASE 1 \in places BY <2>1
  <2>2. CASE places \subseteq 2..8 /\ 2 \in places BY <2>2
  <2>3. CASE places \subseteq 3..8 /\ 3 \in places BY <2>3
  <2>4. CASE places \subseteq 4..8 /\ 4 \in places BY <2>4
  <2>5. CASE places \subseteq 5..8 /\ 5 \in places BY <2>5
  <2>6. CASE places \subseteq 6..8 /\ 6 \in places BY <2>6
  <2>7. CASE places \subseteq 7..8 /\ 7 \in places BY <2>7
  <2>8. CASE places \subseteq {8}
    <3>1. 8 \in places BY <2>8
    <3> QED BY <2>8, <3>1
  <2> QED BY <2>1, <2>2, <2>3, <2>4, <2>5, <2>6, <2>7, <2>8
<1> QED BY <1>1 DEF First

\* The topics are those that tools answer, and a greeting is not one.
LEMMA TopicsAre ==
  /\ DOMAIN Intents = 1..8 /\ Topics = DOMAIN ToolOf
  /\ \A i \in 1..8 : Intents[i] \in DOMAIN ToolOf /\ Intents[i] # "greeting"
<1>1. /\ DOMAIN Intents = 1..8
      /\ Intents[1] = "invoice" /\ Intents[2] = "revenue" /\ Intents[3] = "expenses"
      /\ Intents[4] = "profit" /\ Intents[5] = "cash" /\ Intents[6] = "health"
      /\ Intents[7] = "forecast" /\ Intents[8] = "receivables"
  BY DEF Intents
<1>2. \A i \in 1..8 : Intents[i] \in DOMAIN ToolOf /\ Intents[i] # "greeting"
  <2> SUFFICES ASSUME NEW i \in 1..8 PROVE Intents[i] \in DOMAIN ToolOf /\ Intents[i] # "greeting"
    OBVIOUS
  <2>1. i = 1 \/ i = 2 \/ i = 3 \/ i = 4 \/ i = 5 \/ i = 6 \/ i = 7 \/ i = 8 OBVIOUS
  <2> QED BY <1>1, <2>1, TopicTools
<1>3. DOMAIN ToolOf \subseteq Topics
  <2>1. ASSUME NEW topic \in DOMAIN ToolOf PROVE \E i \in 1..8 : Intents[i] = topic
    <3>1. 1 \in 1..8 /\ 2 \in 1..8 /\ 3 \in 1..8 /\ 4 \in 1..8 /\ 5 \in 1..8 /\ 6 \in 1..8
          /\ 7 \in 1..8 /\ 8 \in 1..8
      OBVIOUS
    <3> QED BY <1>1, <2>1, <3>1, TopicTools
  <2> QED BY <1>1, <2>1 DEF Topics
<1> QED BY <1>1, <1>2, <1>3 DEF Topics

\* The topic of a question is in it, its tool is granted, and it is the first such; an answer
\* that fits it fits the question.
LEMMA TopicIs ==
  ASSUME NEW q, Granted(q)
  PROVE  /\ q # Greeting
         /\ TopicOf(q) \in DOMAIN ToolOf /\ TopicOf(q) \in q /\ ToolOf[TopicOf(q)] \in toolsFor(allowed)
         /\ \A says : says \in Fits(TopicOf(q)) \/ <<TopicOf(q), says>> \in KnownMisfits
                       => FitsQuestion(q, says)
<1>1. Answerable(q) \subseteq 1..8 /\ Answerable(q) # {} BY TopicsAre DEF Answerable, Granted
<1>2. PICK i \in Answerable(q) : i = First(Answerable(q)) /\ \A j \in Answerable(q) : i <= j
  BY <1>1, FirstIs
<1>3. TopicOf(q) = Intents[i] BY <1>2 DEF TopicOf
<1>4. Intents[i] \in q /\ ToolOf[Intents[i]] \in toolsFor(allowed) BY DEF Answerable
<1>5. q # Greeting BY <1>1, <1>2, <1>4, TopicsAre DEF Greeting
<1>6. ASSUME NEW says, says \in Fits(TopicOf(q)) \/ <<TopicOf(q), says>> \in KnownMisfits
      PROVE  FitsQuestion(q, says)
  BY <1>2, <1>3, <1>6 DEF FitsQuestion
<1> QED BY <1>1, <1>2, <1>3, <1>4, <1>5, <1>6, TopicsAre

\* What is granted does not change while permissions do not.
LEMMA GrantedStays ==
  ASSUME UNCHANGED allowed
  PROVE  /\ \A q : (Granted(q)' <=> Granted(q)) /\ TopicOf(q)' = TopicOf(q)
         /\ \A q, says : FitsQuestion(q, says)' <=> FitsQuestion(q, says)
<1>1. \A q : Answerable(q)' = Answerable(q) BY DEF Answerable, toolsFor
<1> QED BY <1>1 DEF Granted, TopicOf, FitsQuestion

\* Whatever the tool is, one of these is said of its result.
LEMMA ToolTurnIsSaid == ASSUME NEW tool PROVE ToolTurn(tool) \in Says
<1> DEFINE found == {i \in DOMAIN Order : Order[i][1] \in Fields[tool]}
<1>1. DOMAIN Order = 1..7 /\ \A i \in 1..7 : Order[i][2] \in Says BY DEF Order, Says
<1>2. CASE found = {} BY <1>2 DEF ToolTurn, Says
<1>3. CASE found # {}
  <2>1. found \subseteq 1..8 BY <1>1
  <2> HIDE DEF found
  <2>2. PICK i \in found : i = First(found) BY <1>3, <2>1, FirstIs
  <2>3. ToolTurn(tool) = Order[i][2] BY <1>3, <2>2 DEF ToolTurn, found
  <2>4. i \in 1..7 BY <1>1, <2>2 DEF found
  <2> QED BY <1>1, <2>3, <2>4
<1> QED BY <1>2, <1>3

\* What the engine says: what it found, or a call of the tool of the question.
LEMMA EngineSays ==
  ASSUME AnswersTypeOK, NEW t \in Turns, NEW u \in fallbackSmartTurn(t)
  PROVE  /\ u \in Word
         /\ turn[t].last = "tool" =>
              /\ u.call = "nothing" /\ u.says = ToolTurn(turn[t].tool)
              /\ Unfounded \in u.figures => booked = "pennies"
         /\ turn[t].last # "tool" =>
              \/ /\ u.call = "nothing" /\ u.says = "greeting" /\ turn[t].asks = Greeting
                 /\ u.figures = {}
              \/ /\ ~Granted(turn[t].asks) /\ turn[t].asks # Greeting
                 /\ u.call = "nothing" /\ u.says = "guide"
              \/ /\ Granted(turn[t].asks) /\ u.call = ToolOf[TopicOf(turn[t].asks)]
                 /\ u.call # "nothing" /\ u.says = "nothing" /\ u.figures = {}
              \/ /\ Granted(turn[t].asks) /\ TopicOf(turn[t].asks) = "invoice"
                 /\ u.call = "nothing" /\ u.says = "noCustomer" /\ u.figures = {}
<1>1. CASE turn[t].last = "tool"
  <2>1. u \in {Words(ToolTurn(turn[t].tool), f) : f \in {Spoken(ToolTurn(turn[t].tool))}}
    BY <1>1 DEF fallbackSmartTurn
  <2>2. Spoken(ToolTurn(turn[t].tool)) \in SUBSET {"found", Small, Unfounded}
        /\ (Unfounded \in Spoken(ToolTurn(turn[t].tool)) => booked = "pennies")
    BY DEF Spoken, Unfounded
  <2> QED BY <1>1, <2>1, <2>2, ToolTurnIsSaid DEF Words, Word
<1>2. CASE turn[t].last # "tool"
  <2> DEFINE question == turn[t].asks
  <2>1. u \in UserTurn(question, toolsFor(allowed)) BY <1>2 DEF fallbackSmartTurn
  <2>2. Answerable(question)
          = {i \in DOMAIN Intents : Intents[i] \in question /\ ToolOf[Intents[i]] \in toolsFor(allowed)}
    BY DEF Answerable
  <2>3. CASE question = Greeting
    <3>1. u = Words("greeting", {}) BY <2>1, <2>3 DEF UserTurn
    <3> QED BY <1>2, <2>3, <3>1 DEF Words, Word, Says
  <2>4. CASE question # Greeting /\ ~Granted(question)
    <3>1. u = Words("guide", {Unfounded, Small}) BY <2>1, <2>2, <2>4 DEF UserTurn, Granted
    <3> QED BY <1>2, <2>4, <3>1 DEF Words, Word, Says
  <2>5. CASE Granted(question)
    <3>1. TopicOf(question) \in DOMAIN ToolOf /\ question # Greeting BY <2>5, TopicIs
    <3>2. ToolOf[TopicOf(question)] \in Tools /\ ToolOf[TopicOf(question)] # "nothing"
      BY <3>1, ToolTurnFits DEF Tools, Fields
    <3>3. \/ u = CallOf(ToolOf[TopicOf(question)])
          \/ TopicOf(question) = "invoice" /\ u = Words("noCustomer", {})
      BY <2>1, <2>2, <2>5, <3>1 DEF UserTurn, Granted, TopicOf
    <3>4. CASE u = CallOf(ToolOf[TopicOf(question)])
      BY <1>2, <2>5, <3>2, <3>4 DEF CallOf, Word, Says
    <3>5. CASE TopicOf(question) = "invoice" /\ u = Words("noCustomer", {})
      BY <1>2, <2>5, <3>5 DEF Words, Word, Says
    <3> QED BY <3>3, <3>4, <3>5
  <2> QED BY <2>3, <2>4, <2>5
<1> QED BY <1>1, <1>2

\* What a model may say is well formed.
LEMMA SaidIsWord == Said \subseteq Word /\ Words("canned", {}) \in Word
<1>1. Called \subseteq Tools \cup {"noSuchTool"} BY ToolTurnFits, TopicsAre DEF Called
<1>2. \A c \in Called : CallOf(c) \in Word BY <1>1 DEF CallOf, Word, Says
<1>3. \A f \in SUBSET {"found", Small, Unfounded} : Words("prose", f) \in Word BY DEF Words, Word, Says
<1>4. Words("nothing", {}) \in Word /\ Words("canned", {}) \in Word BY DEF Words, Word, Says
<1> QED BY <1>2, <1>3, <1>4 DEF Said

\* A turn the loop works on keeps what holds of its answer; so it does when the engine
\* alone has a part in it.
LEMMA LoopKeeps ==
  ASSUME AnswersInv, NEW t \in Turns, turn[t].at \in {"chat", "asked"},
         NEW w \in Turning, NEW u \in Word,
         w.asks = turn[t].asks, w.last = turn[t].last, w.tool = turn[t].tool, w.at = turn[t].at,
         w.found = turn[t].found, w.retried = turn[t].retried, w.next = turn[t].next,
         w.alone => turn[t].alone /\ u \in fallbackSmartTurn(t),
         turn'[t] = Loop(w, u), UNCHANGED <<allowed, booked>>
  PROVE  FoundedAnswer(t)' /\ AloneFits(t)'
<1>1. /\ Loop(w, u) \in Turning /\ Loop(w, u).asks = w.asks /\ Loop(w, u).alone = w.alone
      /\ \/ /\ Loop(w, u).at = "chat" /\ Loop(w, u).last = "tool" /\ Loop(w, u).tool = u.call
            /\ ~w.retried /\ ~Loop(w, u).retried /\ u.call # "nothing"
         \/ Loop(w, u).at = "failed" /\ u.call # "nothing" /\ u.call \notin toolsFor(allowed)
         \/ /\ Loop(w, u).at = "done" /\ Loop(w, u).answer = u /\ Loop(w, u).retried = w.retried
            /\ Loop(w, u).found => Loop(w, u).raw \/ u.figures \subseteq {"found", Small}
            /\ w.retried \/ u.call = "nothing" \/ w.next >= ToolLimit
         \/ /\ Loop(w, u).at = "chat" /\ Loop(w, u).last = "system" /\ Loop(w, u).retried
            /\ w.found /\ ~w.retried /\ Unfounded \in u.figures
            /\ u.call = "nothing" \/ w.next >= ToolLimit
  BY LoopIs
<1>2. PICK q : q = Loop(w, u) OBVIOUS
<1>3. turn'[t] = q BY <1>2
<1>4. /\ q \in Turning /\ q.asks = w.asks /\ q.alone = w.alone
      /\ \/ /\ q.at = "chat" /\ q.last = "tool" /\ q.tool = u.call
            /\ ~w.retried /\ ~q.retried /\ u.call # "nothing"
         \/ q.at = "failed" /\ u.call # "nothing" /\ u.call \notin toolsFor(allowed)
         \/ /\ q.at = "done" /\ q.answer = u /\ q.retried = w.retried
            /\ q.found => q.raw \/ u.figures \subseteq {"found", Small}
            /\ w.retried \/ u.call = "nothing" \/ w.next >= ToolLimit
         \/ /\ q.at = "chat" /\ q.last = "system" /\ q.retried
            /\ w.found /\ ~w.retried /\ Unfounded \in u.figures
            /\ u.call = "nothing" \/ w.next >= ToolLimit
  BY <1>1, <1>2
<1>5. FoundedAnswer(t)' BY <1>3, <1>4 DEF FoundedAnswer
<1>6. AloneFits(t)'
  <2> SUFFICES ASSUME q.alone PROVE AloneFits(t)' BY <1>3 DEF AloneFits
  <2>1. w.alone /\ turn[t].alone /\ u \in fallbackSmartTurn(t) BY <1>4
  <2>2. /\ \A x : (Granted(x)' <=> Granted(x)) /\ TopicOf(x)' = TopicOf(x)
        /\ \A x, says : FitsQuestion(x, says)' <=> FitsQuestion(x, says)
    BY GrantedStays
  <2>3. CASE turn[t].last = "user" /\ turn[t].next = 0 /\ ~turn[t].found /\ ~turn[t].retried
    <3>1. ~(w.next >= ToolLimit) BY <2>3, AnswersAssumption
    <3>2. \/ /\ u.call = "nothing" /\ u.says = "greeting" /\ w.asks = Greeting
          \/ ~Granted(w.asks) /\ w.asks # Greeting /\ u.call = "nothing" /\ u.says = "guide"
          \/ Granted(w.asks) /\ u.call = ToolOf[TopicOf(w.asks)] /\ u.call # "nothing"
          \/ /\ Granted(w.asks) /\ TopicOf(w.asks) = "invoice"
             /\ u.call = "nothing" /\ u.says = "noCustomer"
      BY <2>1, <2>3, EngineSays DEF AnswersInv
    <3>3. CASE Granted(w.asks) /\ u.call = ToolOf[TopicOf(w.asks)] /\ u.call # "nothing"
      <4>1. u.call \in toolsFor(allowed) BY <3>3, TopicIs
      <4>2. /\ q.at = "chat" /\ q.last = "tool" /\ q.tool = ToolOf[TopicOf(q.asks)]
            /\ ~q.retried /\ Granted(q.asks)
        BY <1>4, <2>3, <3>1, <3>3, <4>1
      <4> QED BY <1>3, <2>2, <4>2 DEF AloneFits
    <3>4. CASE u.call = "nothing"
      <4>1. q.at = "done" /\ q.answer = u /\ ~q.retried BY <1>4, <2>3, <3>4
      <4>2. FitsQuestion(q.asks, u.says)
        <5>1. CASE u.says = "greeting" /\ w.asks = Greeting
          BY <1>4, <5>1 DEF FitsQuestion
        <5>2. CASE ~Granted(w.asks) /\ w.asks # Greeting /\ u.says = "guide"
          BY <1>4, <5>2 DEF FitsQuestion, Granted
        <5>3. CASE Granted(w.asks) /\ TopicOf(w.asks) = "invoice" /\ u.says = "noCustomer"
          <6>1. u.says \in Fits(TopicOf(w.asks)) BY <5>3 DEF Fits
          <6> QED BY <1>4, <5>3, <6>1, TopicIs
        <5> QED BY <3>2, <3>4, <5>1, <5>2, <5>3
      <4> QED BY <1>3, <2>2, <4>1, <4>2 DEF AloneFits
    <3> QED BY <3>2, <3>3, <3>4
  <2>4. CASE /\ Granted(turn[t].asks) /\ turn[t].tool = ToolOf[TopicOf(turn[t].asks)]
             /\ turn[t].last = "tool" /\ ~turn[t].retried
    <3>1. /\ u.call = "nothing" /\ u.says = ToolTurn(ToolOf[TopicOf(w.asks)])
          /\ Unfounded \in u.figures => booked = "pennies"
      BY <2>1, <2>4, EngineSays DEF AnswersInv
    <3>2. FitsQuestion(q.asks, u.says)
      <4>1. TopicOf(w.asks) \in DOMAIN ToolOf BY <2>4, TopicIs
      <4>2. u.says \in Fits(TopicOf(w.asks)) \/ <<TopicOf(w.asks), u.says>> \in KnownMisfits
        BY <3>1, <4>1, ToolTurnFits
      <4> QED BY <1>4, <2>4, <4>2, TopicIs
    <3>3. \/ q.at = "done" /\ q.answer = u /\ ~q.retried
          \/ q.at = "chat" /\ q.last = "system" /\ q.retried /\ booked = "pennies"
      BY <1>4, <2>4, <3>1
    <3> QED BY <1>3, <1>4, <2>2, <2>4, <3>2, <3>3 DEF AloneFits
  <2>5. CASE /\ Granted(turn[t].asks) /\ booked = "pennies"
             /\ turn[t].last = "system" /\ turn[t].retried
    <3>1. \/ u.says = "nothing"
          \/ TopicOf(w.asks) = "invoice" /\ u.says = "noCustomer"
      <4>1. turn[t].asks # Greeting BY <2>5, TopicIs
      <4> QED BY <2>1, <2>5, <4>1, EngineSays DEF AnswersInv
    <3>2. \/ q.at = "done" /\ q.answer = u /\ q.retried
          \/ q.at = "failed" /\ u.call # "nothing" /\ u.call \notin toolsFor(allowed)
      BY <1>4, <2>5
    <3>3. u.call = "nothing" \/ u.call \in toolsFor(allowed)
      <4>1. \/ u.call = "nothing" \/ u.call = ToolOf[TopicOf(turn[t].asks)]
        BY <2>1, <2>5, EngineSays DEF AnswersInv
      <4> QED BY <2>5, <4>1, TopicIs
    <3>4. u.says = "nothing" \/ FitsQuestion(q.asks, u.says)
      <4>1. CASE TopicOf(w.asks) = "invoice" /\ u.says = "noCustomer"
        <5>1. u.says \in Fits(TopicOf(w.asks)) BY <4>1 DEF Fits
        <5> QED BY <1>4, <2>5, <5>1, TopicIs
      <4> QED BY <3>1, <4>1
    <3> QED BY <1>3, <2>2, <2>5, <3>2, <3>3, <3>4 DEF AloneFits
  <2> QED BY <2>1, <2>3, <2>4, <2>5 DEF AnswersInv, AloneFits
<1> QED BY <1>5, <1>6

\* What one action does to one turn disturbs no other, as long as the pause goes on or is
\* remembered.
LEMMA OthersStay ==
  ASSUME AnswersInv, NEW o \in Turns, turn'[o] = turn[o], cooling => cooling',
         UNCHANGED <<provider, allowed, booked>>
  PROVE  FoundedAnswer(o)' /\ PausesFit(o)' /\ AloneFits(o)'
<1>1. /\ \A x : (Granted(x)' <=> Granted(x)) /\ TopicOf(x)' = TopicOf(x)
      /\ \A x, says : FitsQuestion(x, says)' <=> FitsQuestion(x, says)
  BY GrantedStays
<1>2. FoundedAnswer(o)' BY DEF AnswersInv, FoundedAnswer
<1>3. PausesFit(o)' BY DEF AnswersInv, PausesFit
<1>4. AloneFits(o)' BY <1>1 DEF AnswersInv, AloneFits
<1> QED BY <1>2, <1>3, <1>4

\* Thawing remembers it.
LEMMA OthersThaw ==
  ASSUME AnswersInv, NEW o \in Turns, turn'[o] = Thaw[o], UNCHANGED <<provider, allowed, booked>>
  PROVE  FoundedAnswer(o)' /\ PausesFit(o)' /\ AloneFits(o)' /\ turn'[o] \in Turning
<1>1. /\ \A x : (Granted(x)' <=> Granted(x)) /\ TopicOf(x)' = TopicOf(x)
      /\ \A x, says : FitsQuestion(x, says)' <=> FitsQuestion(x, says)
  BY GrantedStays
<1>2. PICK w \in Turning, b \in BOOLEAN : w = turn[o] /\ b = (w.thawed \/ cooling)
  BY DEF AnswersInv, AnswersTypeOK
<1>3. turn'[o] = [w EXCEPT !.thawed = b] BY <1>2 DEF Thaw
<1>4. PICK q \in Turning :
        /\ turn'[o] = q /\ q.thawed = b
        /\ q.at = w.at /\ q.asks = w.asks /\ q.next = w.next /\ q.last = w.last /\ q.tool = w.tool
        /\ q.found = w.found /\ q.retried = w.retried /\ q.answer = w.answer /\ q.raw = w.raw
        /\ q.waits = w.waits /\ q.alone = w.alone
  <2> DEFINE e == [w EXCEPT !.thawed = b]
  <2>1. e \in Turning BY DEF Turning
  <2>2. /\ e.thawed = b /\ e.at = w.at /\ e.asks = w.asks /\ e.next = w.next /\ e.last = w.last
        /\ e.tool = w.tool /\ e.found = w.found /\ e.retried = w.retried
        /\ e.answer = w.answer /\ e.raw = w.raw /\ e.waits = w.waits /\ e.alone = w.alone
    BY DEF Turning
  <2>3. turn'[o] = e BY <1>3
  <2> HIDE DEF e
  <2> QED BY <2>1, <2>2, <2>3
<1>5. FoundedAnswer(o)' BY <1>2, <1>4 DEF AnswersInv, FoundedAnswer
<1>6. PausesFit(o)' BY <1>2, <1>4 DEF AnswersInv, PausesFit
<1>7. AloneFits(o)' BY <1>1, <1>2, <1>4 DEF AnswersInv, AloneFits
<1> QED BY <1>4, <1>5, <1>6, <1>7

\* A question begins a turn that the engine is alone with.
LEMMA AskInv ==
  ASSUME AnswersInv, NEW t \in Turns, NEW question \in Questions, Ask(t, question)
  PROVE  AnswersInv'
<1>1. turn' = [turn EXCEPT ![t] = [NoTurn EXCEPT !.at = "chat", !.asks = question]] BY DEF Ask
<1>2. PICK w \in Turning : w = NoTurn BY DEF NoTurn, Turning, Words, Word, Says
<1>3. w.waits = 0 /\ w.last = "user" /\ w.next = 0 /\ ~w.found /\ ~w.retried BY <1>2 DEF NoTurn
<1> DEFINE q == [w EXCEPT !.at = "chat", !.asks = question]
<1>4. turn' = [turn EXCEPT ![t] = q] BY <1>1, <1>2
<1>5. /\ q \in Turning
      /\ q.at = "chat" /\ q.waits = 0 /\ q.last = "user" /\ q.next = 0 /\ ~q.found /\ ~q.retried
  BY <1>3 DEF Turning
<1> HIDE DEF q
<1>6. turn'[t] = q /\ AnswersTypeOK' /\ \A o \in Turns : o # t => turn'[o] = turn[o]
  BY <1>4, <1>5 DEF AnswersInv, AnswersTypeOK, Ask
<1>7. UNCHANGED <<provider, allowed, booked, cooling>> BY DEF Ask
<1>8. FoundedAnswer(t)' /\ PausesFit(t)' /\ AloneFits(t)'
  BY <1>5, <1>6 DEF FoundedAnswer, PausesFit, AloneFits
<1> QED BY <1>6, <1>7, <1>8, OthersStay DEF AnswersInv

\* The engine answers, or calls the tool.
LEMMA EngineChatInv == ASSUME AnswersInv, NEW t \in Turns, EngineChat(t) PROVE AnswersInv'
<1>1. PICK u \in fallbackSmartTurn(t) : turn' = [turn EXCEPT ![t] = Loop(turn[t], u)]
  BY DEF EngineChat
<1>2. UNCHANGED <<provider, allowed, booked, cooling>> /\ turn[t].at = "chat" BY DEF EngineChat
<1>3. turn[t] \in Turning /\ u \in Word BY EngineSays DEF AnswersInv, AnswersTypeOK
<1>4. PICK w \in Turning : w = turn[t] BY <1>3
<1>5. PICK q : q = Loop(w, u) OBVIOUS
<1>6. q \in Turning /\ q.waits = w.waits /\ q.thawed = w.thawed /\ q.at # "asked"
  BY <1>2, <1>3, <1>4, <1>5, LoopIs
<1>7. turn' = [turn EXCEPT ![t] = q] BY <1>1, <1>4, <1>5
<1>8. turn'[t] = q /\ AnswersTypeOK' /\ \A o \in Turns : o # t => turn'[o] = turn[o]
  BY <1>2, <1>6, <1>7 DEF AnswersInv, AnswersTypeOK
<1>9. FoundedAnswer(t)' /\ AloneFits(t)' BY <1>2, <1>3, <1>4, <1>5, <1>8, LoopKeeps
<1>10. PausesFit(t)' BY <1>2, <1>4, <1>6, <1>8 DEF AnswersInv, PausesFit
<1> QED BY <1>2, <1>8, <1>9, <1>10, OthersStay DEF AnswersInv

\* A language model is asked; Gemini only outside its pause.
LEMMA ModelChatInv == ASSUME AnswersInv, NEW t \in Turns, ModelChat(t) PROVE AnswersInv'
<1>1. turn' = [turn EXCEPT ![t].at = "asked"] BY DEF ModelChat
<1>2. UNCHANGED <<provider, allowed, booked, cooling>> /\ turn[t].at = "chat" BY DEF ModelChat
<1>3. provider = "gemini" => ~cooling BY DEF ModelChat
<1>4. PICK w \in Turning : w = turn[t] BY DEF AnswersInv, AnswersTypeOK
<1> DEFINE q == [w EXCEPT !.at = "asked"]
<1>5. /\ q \in Turning
      /\ q.at = "asked" /\ q.asks = w.asks /\ q.next = w.next /\ q.last = w.last /\ q.tool = w.tool
        /\ q.found = w.found /\ q.retried = w.retried
        /\ q.waits = w.waits /\ q.thawed = w.thawed /\ q.alone = w.alone
  BY <1>4 DEF Turning
<1>6. turn' = [turn EXCEPT ![t] = q] BY <1>1, <1>4
<1> HIDE DEF q
<1>7. turn'[t] = q /\ AnswersTypeOK' /\ \A o \in Turns : o # t => turn'[o] = turn[o]
  BY <1>2, <1>5, <1>6 DEF AnswersInv, AnswersTypeOK
<1>8. FoundedAnswer(t)' BY <1>5, <1>7 DEF FoundedAnswer
<1>9. PausesFit(t)' BY <1>2, <1>3, <1>4, <1>5, <1>7 DEF AnswersInv, PausesFit
<1>10. AloneFits(t)'
  <2>1. \A x : (Granted(x)' <=> Granted(x)) /\ TopicOf(x)' = TopicOf(x)
    BY <1>2, GrantedStays
  <2>2. AloneFits(t) /\ w.at = "chat" BY <1>2, <1>4 DEF AnswersInv
  <2>3. q.alone =>
          \/ q.last = "user" /\ q.next = 0 /\ ~q.found /\ ~q.retried
          \/ /\ Granted(q.asks) /\ q.tool = ToolOf[TopicOf(q.asks)] /\ q.last = "tool" /\ ~q.retried
          \/ /\ Granted(q.asks) /\ booked = "pennies" /\ q.last = "system" /\ q.retried
    BY <1>4, <1>5, <2>2 DEF AloneFits
  <2> QED BY <1>2, <1>5, <1>7, <2>1, <2>3 DEF AloneFits
<1> QED BY <1>2, <1>7, <1>8, <1>9, <1>10, OthersStay DEF AnswersInv

\* A language model had a part in the turn.
LEMMA HeardIs ==
  ASSUME NEW w \in Turning
  PROVE  /\ Heard(w) \in Turning /\ ~Heard(w).alone
         /\ Heard(w).at = w.at /\ Heard(w).asks = w.asks /\ Heard(w).next = w.next
         /\ Heard(w).last = w.last /\ Heard(w).tool = w.tool /\ Heard(w).found = w.found
         /\ Heard(w).retried = w.retried /\ Heard(w).waits = w.waits /\ Heard(w).thawed = w.thawed
BY DEF Heard, Turning

\* Gemini failed it.
LEMMA WaitedIs ==
  ASSUME NEW w \in Turning
  PROVE  /\ Waited(w) \in Turning /\ Waited(w).waits = w.waits + 1
         /\ Waited(w).at = w.at /\ Waited(w).asks = w.asks /\ Waited(w).next = w.next
         /\ Waited(w).last = w.last /\ Waited(w).tool = w.tool /\ Waited(w).found = w.found
         /\ Waited(w).retried = w.retried /\ Waited(w).alone = w.alone
         /\ Waited(w).thawed = w.thawed
BY DEF Waited, Turning

\* Gemini has a part in the turn, and the pause ends for every turn.
LEMMA GeminiAnswersInv == ASSUME AnswersInv, NEW t \in Turns, GeminiAnswers(t) PROVE AnswersInv'
<1>1. PICK u \in Said : turn' = [Thaw EXCEPT ![t] = Loop(Heard(Thaw[t]), u)]
  BY DEF GeminiAnswers
<1>2. /\ UNCHANGED <<provider, allowed, booked>> /\ cooling' = FALSE /\ turn[t].at = "asked"
      /\ provider = "gemini"
  BY DEF GeminiAnswers
<1>3. u \in Word BY SaidIsWord
<1>4. PICK o \in Turning, b \in BOOLEAN : o = turn[t] /\ b = (o.thawed \/ cooling)
  BY DEF AnswersInv, AnswersTypeOK
<1> DEFINE w == [o EXCEPT !.thawed = b]
<1>5. /\ w \in Turning /\ w.thawed = b
      /\ w.at = o.at /\ w.asks = o.asks /\ w.next = o.next /\ w.last = o.last /\ w.tool = o.tool
      /\ w.found = o.found /\ w.retried = o.retried /\ w.waits = o.waits
  BY DEF Turning
<1>15. Thaw[t] = w BY <1>4 DEF Thaw
<1> HIDE DEF w
<1>6. PICK v \in Turning :
        /\ v = Heard(w) /\ ~v.alone
        /\ v.at = w.at /\ v.asks = w.asks /\ v.next = w.next /\ v.last = w.last /\ v.tool = w.tool
        /\ v.found = w.found /\ v.retried = w.retried /\ v.waits = w.waits /\ v.thawed = w.thawed
  BY <1>5, HeardIs
<1>7. PICK q : q = Loop(v, u) OBVIOUS
<1>8. q \in Turning /\ q.waits = o.waits /\ q.thawed = b
  <2>1. v.at = "asked" BY <1>2, <1>4, <1>5, <1>6
  <2>2. Loop(v, u) \in Turning /\ Loop(v, u).waits = v.waits /\ Loop(v, u).thawed = v.thawed
    BY <1>3, <2>1, LoopIs
  <2> QED BY <1>5, <1>6, <1>7, <2>2
<1>9. turn' = [Thaw EXCEPT ![t] = q] BY <1>1, <1>6, <1>7, <1>15
<1>10. turn'[t] = q /\ \A p \in Turns : p # t => turn'[p] = Thaw[p] BY <1>9 DEF Thaw
<1>11. \A p \in Turns : p # t =>
         FoundedAnswer(p)' /\ PausesFit(p)' /\ AloneFits(p)' /\ turn'[p] \in Turning
  BY <1>2, <1>10, OthersThaw
<1>12. AnswersTypeOK'
  <2>1. DOMAIN turn' = Turns BY <1>9 DEF Thaw
  <2>2. \A p \in Turns : turn'[p] \in Turning BY <1>8, <1>10, <1>11
  <2>3. turn' = [p \in Turns |-> turn'[p]] BY <1>9 DEF Thaw
  <2> QED BY <1>2, <2>2, <2>3 DEF AnswersTypeOK
<1>13. FoundedAnswer(t)' /\ AloneFits(t)'
  BY <1>2, <1>3, <1>4, <1>5, <1>6, <1>7, <1>10, LoopKeeps
<1>14. PausesFit(t)'
  <2>1. o.waits > 0 => b BY <1>2, <1>4, <1>5 DEF AnswersInv, PausesFit
  <2> QED BY <1>4, <1>8, <1>10, <2>1 DEF PausesFit, Turning
<1> QED BY <1>11, <1>12, <1>13, <1>14 DEF AnswersInv

\* Gemini fails the turn: the engine answers, and a pause begins for every turn.
LEMMA GeminiFailsInv == ASSUME AnswersInv, NEW t \in Turns, GeminiFails(t) PROVE AnswersInv'
<1>1. PICK u \in fallbackSmartTurn(t) :
        turn' = [turn EXCEPT ![t] = Loop(Waited(turn[t]), u)]
  BY DEF GeminiFails
<1>2. /\ UNCHANGED <<provider, allowed, booked>> /\ cooling' = TRUE /\ turn[t].at = "asked"
      /\ provider = "gemini"
  BY DEF GeminiFails
<1>3. u \in Word BY EngineSays DEF AnswersInv
<1>4. PICK w \in Turning : w = turn[t] BY DEF AnswersInv, AnswersTypeOK
<1>5. PICK v \in Turning :
        /\ v = Waited(w) /\ v.waits = w.waits + 1
        /\ v.at = w.at /\ v.asks = w.asks /\ v.next = w.next /\ v.last = w.last /\ v.tool = w.tool
        /\ v.found = w.found /\ v.retried = w.retried /\ v.alone = w.alone /\ v.thawed = w.thawed
  BY WaitedIs
<1>6. PICK q : q = Loop(v, u) OBVIOUS
<1>7. q \in Turning /\ q.waits = w.waits + 1 /\ q.thawed = w.thawed /\ q.at # "asked"
  <2>1. v.at = "asked" BY <1>2, <1>4, <1>5
  <2> QED BY <1>3, <1>5, <1>6, <2>1, LoopIs
<1>8. turn' = [turn EXCEPT ![t] = q] BY <1>1, <1>4, <1>5, <1>6
<1>9. turn'[t] = q /\ AnswersTypeOK' /\ \A o \in Turns : o # t => turn'[o] = turn[o]
  BY <1>2, <1>7, <1>8 DEF AnswersInv, AnswersTypeOK
<1>10. FoundedAnswer(t)' /\ AloneFits(t)'
  BY <1>2, <1>3, <1>4, <1>5, <1>6, <1>9, LoopKeeps
<1>11. PausesFit(t)'
  <2>1. w.waits > 0 => w.thawed BY <1>2, <1>4 DEF AnswersInv, PausesFit
  <2>2. w.waits \in Nat BY DEF Turning
  <2> QED BY <1>2, <1>7, <1>9, <2>1, <2>2 DEF PausesFit
<1> QED BY <1>2, <1>9, <1>10, <1>11, OthersStay DEF AnswersInv

\* Another model answers, or fails the turn.
LEMMA CompatibleAnswersInv ==
  ASSUME AnswersInv, NEW t \in Turns, CompatibleAnswers(t)
  PROVE  AnswersInv'
<1>1. /\ UNCHANGED <<provider, allowed, booked, cooling>> /\ turn[t].at = "asked"
      /\ provider = "compatible"
  BY DEF CompatibleAnswers
<1>2. PICK w \in Turning : w = turn[t] BY DEF AnswersInv, AnswersTypeOK
<1>3. PICK v \in Turning :
        /\ v = Heard(w) /\ ~v.alone
        /\ v.at = w.at /\ v.asks = w.asks /\ v.next = w.next /\ v.last = w.last /\ v.tool = w.tool
        /\ v.found = w.found /\ v.retried = w.retried /\ v.waits = w.waits /\ v.thawed = w.thawed
  BY HeardIs
<1>4. CASE \E u \in Word : turn' = [turn EXCEPT ![t] = Loop(Heard(turn[t]), u)]
  <2>1. PICK u \in Word : turn' = [turn EXCEPT ![t] = Loop(v, u)] BY <1>2, <1>3, <1>4
  <2>2. PICK q : q = Loop(v, u) OBVIOUS
  <2>3. q \in Turning /\ q.waits = w.waits /\ q.thawed = w.thawed
    <3>1. v.at = "asked" BY <1>1, <1>2, <1>3
    <3> QED BY <1>3, <2>2, <3>1, LoopIs
  <2>4. turn' = [turn EXCEPT ![t] = q] BY <2>1, <2>2
  <2>5. turn'[t] = q /\ AnswersTypeOK' /\ \A o \in Turns : o # t => turn'[o] = turn[o]
    BY <1>1, <2>3, <2>4 DEF AnswersInv, AnswersTypeOK
  <2>6. FoundedAnswer(t)' /\ AloneFits(t)'
    BY <1>1, <1>2, <1>3, <2>2, <2>5, LoopKeeps
  <2>7. PausesFit(t)' BY <1>1, <1>2, <2>3, <2>5 DEF AnswersInv, PausesFit
  <2> QED BY <1>1, <2>5, <2>6, <2>7, OthersStay DEF AnswersInv
<1>5. CASE turn' = [turn EXCEPT ![t] = [Heard(turn[t]) EXCEPT !.at = "failed"]]
  <2> DEFINE q == [v EXCEPT !.at = "failed"]
  <2>1. /\ q \in Turning /\ q.at = "failed" /\ ~q.alone
        /\ q.waits = w.waits /\ q.thawed = w.thawed
    BY <1>3 DEF Turning
  <2>2. turn' = [turn EXCEPT ![t] = q] BY <1>2, <1>3, <1>5
  <2> HIDE DEF q
  <2>3. turn'[t] = q /\ AnswersTypeOK' /\ \A o \in Turns : o # t => turn'[o] = turn[o]
    BY <1>1, <2>1, <2>2 DEF AnswersInv, AnswersTypeOK
  <2>4. FoundedAnswer(t)' BY <2>1, <2>3 DEF FoundedAnswer
  <2>5. PausesFit(t)' BY <1>1, <1>2, <2>1, <2>3 DEF AnswersInv, PausesFit
  <2>6. AloneFits(t)' BY <2>1, <2>3 DEF AloneFits
  <2> QED BY <1>1, <2>3, <2>4, <2>5, <2>6, OthersStay DEF AnswersInv
<1> QED BY <1>4, <1>5, SaidIsWord DEF CompatibleAnswers

\* A minute without Gemini passes.
LEMMA LapseInv == ASSUME AnswersInv, Lapse PROVE AnswersInv'
<1>1. turn' = Thaw /\ cooling' = FALSE /\ UNCHANGED <<provider, allowed, booked>> BY DEF Lapse
<1>2. \A o \in Turns : FoundedAnswer(o)' /\ PausesFit(o)' /\ AloneFits(o)' /\ turn'[o] \in Turning
  BY <1>1, OthersThaw
<1>3. turn' = [p \in Turns |-> turn'[p]] BY <1>1 DEF Thaw
<1> QED BY <1>1, <1>2, <1>3 DEF AnswersInv, AnswersTypeOK

\* At the beginning no turn has begun.
LEMMA AnswersStart == ASSUME AnswersInit PROVE AnswersInv
<1>1. NoTurn \in Turning BY DEF NoTurn, Turning, Words, Word, Says
<1>2. NoTurn.at = "rest" /\ NoTurn.waits = 0 /\ ~NoTurn.retried BY DEF NoTurn
<1>3. turn = [t \in Turns |-> NoTurn] /\ cooling = FALSE BY DEF AnswersInit
<1>4. AnswersTypeOK BY <1>1, <1>3 DEF AnswersTypeOK
<1>5. ASSUME NEW t \in Turns PROVE FoundedAnswer(t) /\ PausesFit(t) /\ AloneFits(t)
  <2>1. turn[t].at = "rest" /\ turn[t].waits = 0 /\ ~turn[t].retried BY <1>2, <1>3
  <2> QED BY <2>1 DEF FoundedAnswer, PausesFit, AloneFits
<1> QED BY <1>4, <1>5 DEF AnswersInv

\* So every step keeps the invariant.
LEMMA AnswersStep == ASSUME AnswersInv, [AnswersNext]_answerVars PROVE AnswersInv'
<1>1. CASE UNCHANGED answerVars
  BY <1>1, OthersStay DEF answerVars, AnswersInv, AnswersTypeOK
<1> QED BY <1>1, AskInv, EngineChatInv, ModelChatInv, GeminiAnswersInv, GeminiFailsInv,
           CompatibleAnswersInv, LapseInv DEF AnswersNext

\* Figures come from the tools, but for those of two digits; the engine, left alone, answers
\* the first topic of the question that it may; and no turn
\* waits twice for a Gemini that fails but past a pause: for any number of turns and of tool
\* calls, whatever a language model says.
THEOREM AnswersHold == AnswersSpec => []AnswersFit
<1>1. ASSUME AnswersInv PROVE AnswersFit
  <2>1. ASSUME NEW t \in Turns
        PROVE  /\ turn[t].at = "done" /\ turn[t].found =>
                    turn[t].raw \/ turn[t].answer.figures \subseteq {"found", Small}
               /\ turn[t].alone => turn[t].at # "failed" /\ (turn[t].retried => booked = "pennies")
               /\ turn[t].at = "done" /\ turn[t].alone =>
                    \/ FitsQuestion(turn[t].asks, turn[t].answer.says)
                    \/ turn[t].retried /\ turn[t].answer.says = "nothing"
               /\ turn[t].waits > 1 => turn[t].thawed
    <3>1. FoundedAnswer(t) /\ PausesFit(t) /\ AloneFits(t) BY <1>1 DEF AnswersInv
    <3>2. turn[t].at \in {"rest", "chat", "asked", "done", "failed"}
      BY <1>1 DEF AnswersInv, AnswersTypeOK, Turning
    <3>3. turn[t].alone => turn[t].at # "failed" /\ (turn[t].retried => booked = "pennies")
      BY <3>1, <3>2 DEF AloneFits
    <3> QED BY <3>1, <3>3 DEF FoundedAnswer, PausesFit, AloneFits
  <2> QED BY <2>1 DEF AnswersFit
<1> QED BY <1>1, AnswersStart, AnswersStep, PTL DEF AnswersSpec

-----------------------------------------------------------------------------
(* What routes change *)

\* The kinds that a route changes are among these.
Changes(r, kinds) == \A did \in r.to : DOMAIN did \subseteq kinds

LEMMA InvoiceChanges ==
  \A r \in InvoiceRoutes : /\ r.name \in {"invoice.create", "invoice.issue", "invoice.cancel", "invoice.send"}
                           /\ Changes(r, {"invoice", "entry"})
BY DEF InvoiceRoutes, Route, Same, Changes

LEMMA BillChanges ==
  \A r \in BillRoutes : /\ r.name \in {"bill.create", "bill.approve", "bill.cancel"}
                        /\ Changes(r, {"bill", "entry"})
BY DEF BillRoutes, Route, Changes

LEMMA ExpenseChanges ==
  \A r \in ExpenseRoutes : /\ r.name \in {"expense.create", "expense.approve", "expense.reject"}
                           /\ Changes(r, {"expense", "entry"})
BY DEF ExpenseRoutes, Route, Changes

LEMMA PaymentChanges ==
  \A r \in PaymentRoutes : /\ r.name \in {"payment.create", "payment.allocated"}
                           /\ Changes(r, {"payment", "entry", "invoice"})
BY DEF PaymentRoutes, Route, Changes

LEMMA BankingChanges ==
  \A r \in BankingRoutes : \/ r.name = "bank.create" /\ Changes(r, {"bank"})
                           \/ r.name = "bank.scan"   /\ Changes(r, {})
                           \/ r.name = "bank.import" /\ Changes(r, {"txn"})
BY DEF BankingRoutes, Route, Same, Changes

LEMMA ReconciliationChanges ==
  \A r \in ReconciliationRoutes : /\ r.name \in {"reconciliation.confirm", "reconciliation.fromLine"}
                                  /\ Changes(r, {"txn", "entry"})
BY DEF ReconciliationRoutes, Route, Changes

LEMMA JournalChanges ==
  \A r \in JournalRoutes : r.name \in {"entry.post", "entry.reverse"} /\ Changes(r, {"entry"})
BY DEF JournalRoutes, Route, Changes

LEMMA AccountChanges ==
  \A r \in AccountRoutes : r.name = "account.seed" /\ Changes(r, {"account"})
BY DEF AccountRoutes, Route, Changes

LEMMA PartyChanges ==
  \A r \in PartyRoutes : \/ r.name = "party.create" /\ Changes(r, {"party"})
                         \/ r.name = "item.create"  /\ Changes(r, {"item"})
BY DEF PartyRoutes, Route, Changes

LEMMA GstChanges ==
  \A r \in GstRoutes : /\ r.name \in {"ims.sync", "ims.accept", "ims.reject", "ims.pending"}
                       /\ Changes(r, {"ims"})
BY DEF GstRoutes, Route, Same, Changes

LEMMA DocumentChanges ==
  \A r \in DocumentRoutes : r.name \in {"doc.upload", "doc.bill"} /\ Changes(r, {"doc", "bill"})
BY DEF DocumentRoutes, Route, Changes

LEMMA AiChanges ==
  \A r \in AiRoutes : /\ r.name \in {"proposal.confirm", "proposal.reject"}
                      /\ Changes(r, {"proposal", "invoice", "entry", "ims"})
BY DEF AiRoutes, Route, Changes

LEMMA CompanyChanges ==
  \A r \in CompanyRoutes : \/ r.name = "company.update" /\ Changes(r, {"company"})
                           \/ r.name = "member.invite"  /\ Changes(r, {"member"})
BY DEF CompanyRoutes, Route, Changes

LEMMA NotificationChanges ==
  \A r \in NotificationRoutes : \/ r.name = "notice.read"  /\ Changes(r, {"notice"})
                                \/ r.name = "prefs.update" /\ Changes(r, {"prefs"})
BY DEF NotificationRoutes, Route, Changes

LEMMA BillingChanges ==
  \A r \in BillingRoutes : r.name = "plan.subscribe" /\ Changes(r, {})
BY DEF BillingRoutes, Route, Same, Changes

LEMMA RoutersAre ==
  \A r \in Routes : \/ r \in InvoiceRoutes \/ r \in BillRoutes \/ r \in ExpenseRoutes \/ r \in PaymentRoutes
                    \/ r \in BankingRoutes \/ r \in ReconciliationRoutes \/ r \in JournalRoutes
                    \/ r \in AccountRoutes \/ r \in PartyRoutes \/ r \in GstRoutes \/ r \in DocumentRoutes
                    \/ r \in AiRoutes \/ r \in CompanyRoutes \/ r \in NotificationRoutes \/ r \in BillingRoutes
BY DEF Routes

\* The kinds that routes of a name change, all told.
KindsOf(name) ==
  IF name \in {"invoice.create", "invoice.issue", "invoice.cancel", "invoice.send"} THEN {"invoice", "entry"}
  ELSE IF name \in {"bill.create", "bill.approve", "bill.cancel"} THEN {"bill", "entry"}
  ELSE IF name \in {"expense.create", "expense.approve", "expense.reject"} THEN {"expense", "entry"}
  ELSE IF name \in {"payment.create", "payment.allocated"} THEN {"payment", "entry", "invoice"}
  ELSE IF name \in {"reconciliation.confirm", "reconciliation.fromLine"} THEN {"txn", "entry"}
  ELSE IF name \in {"entry.post", "entry.reverse"} THEN {"entry"}
  ELSE IF name \in {"ims.sync", "ims.accept", "ims.reject", "ims.pending"} THEN {"ims"}
  ELSE IF name \in {"doc.upload", "doc.bill"} THEN {"doc", "bill"}
  ELSE IF name \in {"proposal.confirm", "proposal.reject"} THEN {"proposal", "invoice", "entry", "ims"}
  ELSE IF name = "bank.create" THEN {"bank"}
  ELSE IF name = "bank.import" THEN {"txn"}
  ELSE IF name = "account.seed" THEN {"account"}
  ELSE IF name = "party.create" THEN {"party"}
  ELSE IF name = "item.create" THEN {"item"}
  ELSE IF name = "company.update" THEN {"company"}
  ELSE IF name = "member.invite" THEN {"member"}
  ELSE IF name = "notice.read" THEN {"notice"}
  ELSE IF name = "prefs.update" THEN {"prefs"}
  ELSE {}

LEMMA RoutesChange == \A r \in Routes : Changes(r, KindsOf(r.name))
<1> SUFFICES ASSUME NEW r \in Routes PROVE Changes(r, KindsOf(r.name)) OBVIOUS
<1>1. CASE r \in InvoiceRoutes BY <1>1, InvoiceChanges DEF KindsOf
<1>2. CASE r \in BillRoutes BY <1>2, BillChanges DEF KindsOf
<1>3. CASE r \in ExpenseRoutes BY <1>3, ExpenseChanges DEF KindsOf
<1>4. CASE r \in PaymentRoutes BY <1>4, PaymentChanges DEF KindsOf
<1>5. CASE r \in BankingRoutes BY <1>5, BankingChanges DEF KindsOf
<1>6. CASE r \in ReconciliationRoutes BY <1>6, ReconciliationChanges DEF KindsOf
<1>7. CASE r \in JournalRoutes BY <1>7, JournalChanges DEF KindsOf
<1>8. CASE r \in AccountRoutes BY <1>8, AccountChanges DEF KindsOf
<1>9. CASE r \in PartyRoutes BY <1>9, PartyChanges DEF KindsOf
<1>10. CASE r \in GstRoutes BY <1>10, GstChanges DEF KindsOf
<1>11. CASE r \in DocumentRoutes BY <1>11, DocumentChanges DEF KindsOf
<1>12. CASE r \in AiRoutes BY <1>12, AiChanges DEF KindsOf
<1>13. CASE r \in CompanyRoutes BY <1>13, CompanyChanges DEF KindsOf
<1>14. CASE r \in NotificationRoutes BY <1>14, NotificationChanges DEF KindsOf
<1>15. CASE r \in BillingRoutes BY <1>15, BillingChanges DEF KindsOf
<1> QED
  BY <1>1, <1>2, <1>3, <1>4, <1>5, <1>6, <1>7, <1>8, <1>9, <1>10, <1>11, <1>12, <1>13, <1>14,
     <1>15, RoutersAre
-----------------------------------------------------------------------------
(* What pages load again *)

LEMMA ListsShow ==
  /\ Lists["invoices"].of = "invoice" /\ Lists["bills"].of = "bill" /\ Lists["expenses"].of = "expense"
  /\ Lists["payments"].of = "payment" /\ Lists["bankAccounts"].of = "bank" /\ Lists["txns"].of = "txn"
  /\ Lists["suggestions"].of = "txn" /\ Lists["entries"].of = "entry" /\ Lists["parties"].of = "party"
  /\ Lists["items"].of = "item" /\ Lists["imsRecords"].of = "ims" /\ Lists["gstr"].of = "filed"
  /\ Lists["companies"].of = "company" /\ Lists["documents"].of = "doc"
  /\ Lists["proposals"].of = "proposal" /\ Lists["members"].of = "member"
  /\ Lists["notices"].of = "notice" /\ Lists["preferences"].of = "prefs" /\ Lists["plans"].of = "plan"
BY DEF Lists, Read

\* The chart is held twice.
Charts == {"setup", "accounts"}

\* After an act a page loads every list again that the act may have changed.
Covers(p) ==
  \A o \in p.offers : \A l \in p.lists \ Charts :
    Lists[l].of \in KindsOf(o.route) => l \in o.reloads

LEMMA DashboardCover == Covers(DashboardPage)
BY ListsShow DEF Covers, Charts, KindsOf, Page, Offer, DashboardPage

LEMMA InvoicesCover == Covers(InvoicesPage)
BY ListsShow DEF Covers, Charts, KindsOf, Page, Offer, InvoicesPage, NewInvoice

LEMMA BillsCover == Covers(BillsPage)
BY ListsShow DEF Covers, Charts, KindsOf, Page, Offer, BillsPage, NewBill, NewExpense, BillActs, ExpenseActs

LEMMA PaymentsCover == Covers(PaymentsPage)
BY ListsShow DEF Covers, Charts, KindsOf, Page, Offer, PaymentsPage, PaymentReloads

LEMMA BankingCover == Covers(BankingPage)
BY ListsShow DEF Covers, Charts, KindsOf, Page, Offer, BankingPage

LEMMA JournalCover == Covers(JournalPage)
BY ListsShow DEF Covers, Charts, KindsOf, Page, Offer, JournalPage

LEMMA AccountsCover == Covers(AccountsPage)
BY ListsShow DEF Covers, Charts, KindsOf, Page, Offer, AccountsPage

LEMMA PartiesCover == Covers(PartiesPage)
BY ListsShow DEF Covers, Charts, KindsOf, Page, Offer, PartiesPage

LEMMA GstCover == Covers(GstPage)
BY ListsShow DEF Covers, Charts, KindsOf, Page, Offer, GstPage, GstinSetup

LEMMA DocumentsCover == Covers(DocumentsPage)
BY ListsShow DEF Covers, Charts, KindsOf, Page, Offer, DocumentsPage

LEMMA CopilotCover == Covers(CopilotPage)
BY ListsShow DEF Covers, Charts, KindsOf, Page, Offer, CopilotPage

LEMMA MembersCover == Covers(MembersPage)
BY ListsShow DEF Covers, Charts, KindsOf, Page, Offer, MembersPage

LEMMA NotificationsCover == Covers(NotificationsPage)
BY ListsShow DEF Covers, Charts, KindsOf, Page, Offer, NotificationsPage

LEMMA BillingCover == Covers(BillingPage)
BY ListsShow DEF Covers, Charts, KindsOf, Page, Offer, BillingPage

LEMMA PagesCover == \A p \in DOMAIN PAGES : Covers(PAGES[p])
BY DashboardCover, InvoicesCover, BillsCover, PaymentsCover, BankingCover, JournalCover, AccountsCover,
   PartiesCover, GstCover, DocumentsCover, CopilotCover, MembersCover, NotificationsCover, BillingCover DEF
   PAGES

-----------------------------------------------------------------------------
(* The invariant *)

Kind(l) == Lists[l].of

\* Versions only grow, and the page was told of none that there is not.
VersionsFit ==
  /\ page \in DOMAIN PAGES /\ DOMAIN copy = Mine
  /\ DOMAIN db = Touched(page) /\ DOMAIN mine = Touched(page)
  /\ \A k \in DOMAIN db : db[k].ver \in Nat /\ mine[k] \in Nat /\ mine[k] <= db[k].ver

\* An act that was done has changed kinds that its route may change.
ActFits(a) ==
  /\ a = [offer |-> a.offer, no |-> a.no, at |-> a.at, made |-> a.made] /\ a.offer \in Offers
  /\ \A k \in DOMAIN a.made :
       /\ k \in KindsOf(a.offer.route) /\ k \in DOMAIN db
       /\ a.made[k] \in Nat /\ a.made[k] <= db[k].ver
  /\ a.at # "done" => DOMAIN a.made = {}

Knows(got, l) == got # NoCopy => got.ver \in Nat /\ got.ver >= mine[Kind(l)]

\* What was read for a list, and what it shows when no more is read, has what the
\* page was told it did.
Current(l) ==
  /\ \A q \in loads : q.of = l /\ q.got # <<>> => Knows(q.got[1], l)
  /\ ~Loading(l) /\ l \notin failed => Knows(copy[l], l)

ScreensInv ==
  /\ VersionsFit
  /\ \A a \in sent : ActFits(a)
  /\ \A q \in loads : q = [of |-> q.of, no |-> q.no, got |-> q.got]
  /\ \A l \in Mine \ (Charts \cup crossed) : Current(l)

LEMMA KindIsTouched == \A p : \A l \in PAGES[p].lists : Kind(l) \in Touched(p)
BY DEF Kind, Touched

LEMMA ScreensStart == ScreensInit => ScreensInv
<1> SUFFICES ASSUME ScreensInit PROVE ScreensInv OBVIOUS
<1>1. \E late : \E k \in Touched(page) : \E s \in Statuses[k] :
        /\ db = [j \in Touched(page) |-> [status |-> IF j = k THEN s ELSE Usual[j], ver |-> 0]]
        /\ loads = {NewLoad(l, 0) : l \in late}
        /\ copy = [l \in Mine |-> IF l \in late \cup failed THEN NoCopy ELSE db[Lists[l].of]]
  BY DEF ScreensInit
<1>a. PICK late : \E k \in Touched(page) : \E s \in Statuses[k] :
        /\ db = [j \in Touched(page) |-> [status |-> IF j = k THEN s ELSE Usual[j], ver |-> 0]]
        /\ loads = {NewLoad(l, 0) : l \in late}
        /\ copy = [l \in Mine |-> IF l \in late \cup failed THEN NoCopy ELSE db[Lists[l].of]]
  BY <1>1
<1>c. PICK k \in Touched(page) : \E s \in Statuses[k] :
        /\ db = [j \in Touched(page) |-> [status |-> IF j = k THEN s ELSE Usual[j], ver |-> 0]]
        /\ loads = {NewLoad(l, 0) : l \in late}
        /\ copy = [l \in Mine |-> IF l \in late \cup failed THEN NoCopy ELSE db[Lists[l].of]]
  BY <1>a
<1>b. PICK s \in Statuses[k] :
        /\ db = [j \in Touched(page) |-> [status |-> IF j = k THEN s ELSE Usual[j], ver |-> 0]]
        /\ loads = {NewLoad(l, 0) : l \in late}
        /\ copy = [l \in Mine |-> IF l \in late \cup failed THEN NoCopy ELSE db[Lists[l].of]]
  BY <1>c
<1>2. /\ page \in Shown /\ sent = {} /\ mine = [j \in Touched(page) |-> 0]
  BY DEF ScreensInit
<1>3. \A j \in Touched(page) : db[j].ver = 0 /\ mine[j] = 0 BY <1>b, <1>2
<1>4. VersionsFit BY <1>b, <1>2, <1>3, ScreensAssumption DEF VersionsFit
<1>5. \A q \in loads : q = [of |-> q.of, no |-> q.no, got |-> q.got] /\ q.got = <<>>
  BY <1>b DEF NewLoad
<1>6. ASSUME NEW l \in Mine PROVE Current(l)
  <2>1. Kind(l) \in Touched(page) BY KindIsTouched DEF Mine
  <2>2. copy[l] = NoCopy \/ copy[l] = db[Kind(l)] BY <1>b DEF Kind
  <2>3. Knows(copy[l], l) BY <1>3, <2>1, <2>2 DEF Knows
  <2> QED BY <1>5, <2>3 DEF Current
<1> QED BY <1>2, <1>4, <1>5, <1>6 DEF ScreensInv

-----------------------------------------------------------------------------
(* Steps *)

\* Nothing becomes older.
Grows ==
  /\ DOMAIN db' = DOMAIN db
  /\ \A k \in DOMAIN db : db'[k].ver \in Nat /\ db[k].ver <= db'[k].ver

LEMMA BecomesGrows ==
  ASSUME VersionsFit, NEW did, db' = Becomes(db, did)
  PROVE  Grows /\ \A k \in DOMAIN db : db'[k] # db[k] => k \in DOMAIN did
BY DEF VersionsFit, Grows, Becomes

LEMMA SameGrows == ASSUME VersionsFit, db' = db PROVE Grows
BY DEF VersionsFit, Grows

LEMMA VersionsKept ==
  ASSUME VersionsFit, Grows, page' = page, mine' = mine, DOMAIN copy' = DOMAIN copy
  PROVE  VersionsFit'
<1>1. Mine' = Mine /\ Touched(page)' = Touched(page) BY DEF Mine, Touched
<1>2. ASSUME NEW k \in DOMAIN db PROVE mine[k] <= db'[k].ver
  <2>1. mine[k] \in Nat /\ db[k].ver \in Nat /\ db'[k].ver \in Nat /\ mine[k] <= db[k].ver
        /\ db[k].ver <= db'[k].ver
    BY DEF VersionsFit, Grows
  <2> QED BY <2>1
<1> QED BY <1>1, <1>2 DEF VersionsFit, Grows

LEMMA ActKept ==
  ASSUME VersionsFit, Grows, page' = page, NEW a, ActFits(a) PROVE ActFits(a)'
<1>1. Offers' = Offers BY DEF Offers
<1>2. ASSUME NEW k \in DOMAIN a.made PROVE k \in DOMAIN db' /\ a.made[k] <= db'[k].ver
  <2>1. /\ k \in DOMAIN db /\ a.made[k] \in Nat /\ a.made[k] <= db[k].ver
        /\ db[k].ver \in Nat /\ db'[k].ver \in Nat /\ db[k].ver <= db'[k].ver
    BY DEF ActFits, VersionsFit, Grows
  <2> QED BY <2>1 DEF Grows
<1> QED BY <1>1, <1>2 DEF ActFits

\* A step that reads nothing, shows nothing and tells the page nothing.
LEMMA ReadsKept ==
  ASSUME ScreensInv, Grows, UNCHANGED <<page, copy, loads, failed, mine, crossed>>,
         \A a \in sent' : ActFits(a)'
  PROVE  ScreensInv'
<1>1. VersionsFit' BY VersionsKept DEF ScreensInv
<1>2. Mine' = Mine /\ \A l : Current(l)' = Current(l) BY DEF Mine, Current, Knows, Loading
<1> QED BY <1>1, <1>2 DEF ScreensInv

LEMMA Read1Step ==
  ASSUME ScreensInv, NEW q \in loads, Read1(q) PROVE ScreensInv'
<1> DEFINE k == Lists[q.of].of
<1>1. PICK next, may :
        /\ next = db \/ \E did : next = Becomes(db, did)
        /\ db' = next
        /\ loads' = (loads \ {q}) \cup {[q EXCEPT !.got = <<IF may THEN next[k] ELSE NoCopy>>]}
  BY DEF Read1
<1>2. UNCHANGED <<page, copy, failed, sent, mine, crossed>> BY DEF Read1
<1>3. VersionsFit BY DEF ScreensInv
<1>4. Grows BY <1>1, <1>3, BecomesGrows, SameGrows
<1>5. VersionsFit' BY <1>2, <1>3, <1>4, VersionsKept
<1>6. \A a \in sent' : ActFits(a)' BY <1>2, <1>3, <1>4, ActKept DEF ScreensInv
<1>7. q = [of |-> q.of, no |-> q.no, got |-> q.got] BY DEF ScreensInv
<1>8. PICK p : p = [q EXCEPT !.got = <<IF may THEN next[k] ELSE NoCopy>>] OBVIOUS
<1>9. p = [of |-> q.of, no |-> q.no, got |-> <<IF may THEN next[k] ELSE NoCopy>>] BY <1>7, <1>8
<1>10. loads' = (loads \ {q}) \cup {p} BY <1>1, <1>8
<1>11. p.of = q.of /\ p.got[1] = IF may THEN db'[k] ELSE NoCopy BY <1>1, <1>9
<1>12. ASSUME NEW l \in Mine \ (Charts \cup crossed) PROVE Current(l)'
  <2>1. Current(l) BY DEF ScreensInv
  <2>2. Loading(l)' <=> Loading(l) BY <1>10, <1>11 DEF Loading
  <2>3. \A got : Knows(got, l)' = Knows(got, l) BY <1>2 DEF Knows
  <2>4. q.of = l => Knows(p.got[1], l)
    <3> SUFFICES ASSUME q.of = l PROVE Knows(p.got[1], l) OBVIOUS
    <3>1. k = Kind(l) /\ k \in DOMAIN db BY <1>3, KindIsTouched DEF Kind, Mine, VersionsFit
    <3>2. mine[k] \in Nat /\ db[k].ver \in Nat /\ mine[k] <= db[k].ver BY <1>3, <3>1 DEF VersionsFit
    <3>3. db'[k].ver \in Nat /\ db[k].ver <= db'[k].ver BY <1>4, <3>1 DEF Grows
    <3>4. db'[k].ver >= mine[k] BY <3>2, <3>3
    <3> QED BY <1>11, <3>1, <3>3, <3>4 DEF Knows
  <2>5. copy' = copy /\ failed' = failed BY <1>2
  <2> QED BY <1>10, <1>11, <2>1, <2>2, <2>3, <2>4, <2>5 DEF Current
<1>13. Mine' = Mine /\ crossed' = crossed BY <1>2 DEF Mine
<1>14. \A r \in loads' : r = [of |-> r.of, no |-> r.no, got |-> r.got]
  BY <1>9, <1>10 DEF ScreensInv
<1> QED BY <1>5, <1>6, <1>12, <1>13, <1>14 DEF ScreensInv

LEMMA ShowStep ==
  ASSUME ScreensInv, NEW q \in loads, Show(q) PROVE ScreensInv'
<1>1. /\ q.got # <<>>
      /\ loads' \subseteq loads \ {q} /\ \A r \in loads : r.of # q.of => r \in loads'
      /\ \/ q.got[1] = NoCopy /\ failed' = failed \cup {q.of} /\ copy' = copy
         \/ copy' = [copy EXCEPT ![q.of] = q.got[1]] /\ failed' = failed \ {q.of}
  BY DEF Show
<1>2. UNCHANGED <<page, db, sent, mine, crossed>> BY DEF Show
<1>3. VersionsFit BY DEF ScreensInv
<1>4. Grows BY <1>2, <1>3, SameGrows
<1>5. VersionsFit' BY <1>1, <1>2, <1>3, <1>4, VersionsKept
<1>6. \A a \in sent' : ActFits(a)' BY <1>2, <1>3, <1>4, ActKept DEF ScreensInv
<1>7. ASSUME NEW l \in Mine \ (Charts \cup crossed) PROVE Current(l)'
  <2>1. Current(l) BY DEF ScreensInv
  <2>2. \A got : Knows(got, l)' = Knows(got, l) BY <1>2 DEF Knows
  <2>3. l \in DOMAIN copy BY <1>3 DEF VersionsFit
  <2>4. \A r \in loads' : r.of = l /\ r.got # <<>> => Knows(r.got[1], l) BY <1>1, <2>1 DEF Current
  <2>5. CASE l = q.of
    <3>1. Knows(q.got[1], l) BY <1>1, <2>1, <2>5 DEF Current
    <3>2. l \in failed' \/ copy'[l] = q.got[1] BY <1>1, <2>3, <2>5
    <3> QED BY <2>2, <2>4, <3>1, <3>2 DEF Current
  <2>6. CASE l # q.of
    <3>1. Loading(l) => Loading(l)' BY <1>1, <2>6 DEF Loading
    <3>2. copy'[l] = copy[l]
      <4>1. CASE copy' = copy BY <4>1
      <4>2. CASE copy' = [copy EXCEPT ![q.of] = q.got[1]] BY <2>3, <2>6, <4>2
      <4> QED BY <1>1, <4>1, <4>2
    <3>3. l \in failed => l \in failed'
      <4>1. CASE failed' = failed \cup {q.of} BY <4>1
      <4>2. CASE failed' = failed \ {q.of} BY <2>6, <4>2
      <4> QED BY <1>1, <4>1, <4>2
    <3> QED BY <3>3, <2>1, <2>2, <2>4, <3>1, <3>2 DEF Current
  <2> QED BY <2>5, <2>6
<1>8. Mine' = Mine /\ crossed' = crossed BY <1>2 DEF Mine
<1>9. \A r \in loads' : r = [of |-> r.of, no |-> r.no, got |-> r.got] BY <1>1 DEF ScreensInv
<1> QED BY <1>5, <1>6, <1>7, <1>8, <1>9 DEF ScreensInv

LEMMA LoseLoadStep ==
  ASSUME ScreensInv, NEW q \in loads, LoseLoad(q) PROVE ScreensInv'
<1>1. loads' = loads \ {q} /\ failed' = failed \cup {q.of} BY DEF LoseLoad
<1>2. UNCHANGED <<page, db, copy, sent, mine, crossed>> BY DEF LoseLoad
<1>3. VersionsFit BY DEF ScreensInv
<1>4. Grows BY <1>2, <1>3, SameGrows
<1>5. VersionsFit' BY <1>2, <1>3, <1>4, VersionsKept
<1>6. \A a \in sent' : ActFits(a)' BY <1>2, <1>3, <1>4, ActKept DEF ScreensInv
<1>7. ASSUME NEW l \in Mine \ (Charts \cup crossed) PROVE Current(l)'
  <2>1. Current(l) BY DEF ScreensInv
  <2>2. \A got : Knows(got, l)' = Knows(got, l) BY <1>2 DEF Knows
  <2>3. \A r \in loads' : r.of = l /\ r.got # <<>> => Knows(r.got[1], l) BY <1>1, <2>1 DEF Current
  <2>4. Loading(l) => Loading(l)' \/ l \in failed' BY <1>1 DEF Loading
  <2>5. copy' = copy /\ failed \subseteq failed' BY <1>1, <1>2
  <2> QED BY <2>1, <2>2, <2>3, <2>4, <2>5 DEF Current
<1>8. Mine' = Mine /\ crossed' = crossed BY <1>2 DEF Mine
<1>9. \A r \in loads' : r = [of |-> r.of, no |-> r.no, got |-> r.got] BY <1>1 DEF ScreensInv
<1> QED BY <1>5, <1>6, <1>7, <1>8, <1>9 DEF ScreensInv

LEMMA LoseActStep ==
  ASSUME ScreensInv, NEW a \in sent, LoseAct(a) PROVE ScreensInv'
<1>1. UNCHANGED <<page, db, copy, loads, failed, mine, crossed>> /\ sent' \subseteq sent BY DEF LoseAct
<1>2. VersionsFit BY DEF ScreensInv
<1>3. Grows BY <1>1, <1>2, SameGrows
<1>4. \A b \in sent' : ActFits(b)' BY <1>1, <1>2, <1>3, ActKept DEF ScreensInv
<1> QED BY <1>1, <1>3, <1>4, ReadsKept

LEMMA PressStep ==
  ASSUME ScreensInv, NEW o \in Offers, Press(o) PROVE ScreensInv'
<1>1. UNCHANGED <<page, db, copy, loads, failed, mine, crossed>> BY DEF Press
<1>2. VersionsFit BY DEF ScreensInv
<1>3. Grows BY <1>1, <1>2, SameGrows
<1>4. PICK b : b = [offer |-> o, no |-> presses, at |-> "sent", made |-> <<>>] OBVIOUS
<1>5. sent' = sent \cup {b} BY <1>4 DEF Press
<1>6. DOMAIN b.made = {} /\ b.offer = o /\ b = [offer |-> b.offer, no |-> b.no, at |-> b.at, made |-> b.made]
  BY <1>4
<1>7. Offers' = Offers BY <1>1 DEF Offers
<1>8. ActFits(b)' BY <1>6, <1>7 DEF ActFits
<1>9. \A c \in sent' : ActFits(c)' BY <1>1, <1>2, <1>3, <1>5, <1>8, ActKept DEF ScreensInv
<1> QED BY <1>1, <1>3, <1>9, ReadsKept

LEMMA MeanwhileStep ==
  ASSUME ScreensInv, Meanwhile PROVE ScreensInv'
<1>1. UNCHANGED <<page, copy, loads, failed, sent, mine, crossed>> BY DEF Meanwhile
<1>2. VersionsFit BY DEF ScreensInv
<1>3. Grows
  <2>1. CASE Others
    <3>1. \E did : db' = Becomes(db, did) BY <2>1 DEF Others, Effects
    <3> QED BY <1>2, <3>1, BecomesGrows
  <2>2. CASE Elapse
    <3>1. \E did : db' = Becomes(db, did) BY <2>2 DEF Elapse
    <3> QED BY <1>2, <3>1, BecomesGrows
  <2>3. CASE Switch BY <1>2, <2>3, SameGrows DEF Switch
  <2> QED BY <2>1, <2>2, <2>3 DEF Meanwhile
<1>4. \A b \in sent' : ActFits(b)' BY <1>1, <1>2, <1>3, ActKept DEF ScreensInv
<1> QED BY <1>1, <1>3, <1>4, ReadsKept

\* What is changed is among what the route changes.
LEMMA HandleStep ==
  ASSUME ScreensInv, NEW a \in sent, Handle(a) PROVE ScreensInv'
<1>1. UNCHANGED <<page, copy, loads, failed, mine, crossed>> BY DEF Handle
<1>2. VersionsFit BY DEF ScreensInv
<1>3. PICK r \in {q \in Routes : q.name = a.offer.route} :
        \/ db' \in Effects(r, db) /\ sent' = (sent \ {a}) \cup
                 {[a EXCEPT !.at = "done", !.made = [k \in Changed |-> db'[k].ver]]}
        \/ sent' = (sent \ {a}) \cup {[a EXCEPT !.at = "refused"]} /\ db' = db
  BY DEF Handle
<1>4. ActFits(a) BY DEF ScreensInv
<1>5. a = [offer |-> a.offer, no |-> a.no, at |-> a.at, made |-> a.made] /\ a.offer \in Offers /\ a.at = "sent"
  BY <1>4 DEF ActFits, Handle
<1>6. Offers' = Offers BY <1>1 DEF Offers
<1>7. CASE db' \in Effects(r, db) /\ sent' = (sent \ {a}) \cup
                 {[a EXCEPT !.at = "done", !.made = [k \in Changed |-> db'[k].ver]]}
  <2>1. PICK did \in r.to : db' = Becomes(db, did) BY <1>7 DEF Effects
  <2>2. Grows /\ Changed \subseteq DOMAIN did BY <1>2, <2>1, BecomesGrows DEF Changed
  <2>3. DOMAIN did \subseteq KindsOf(r.name) BY RoutesChange, <2>1 DEF Changes
  <2>4. PICK made : made = [k \in Changed |-> db'[k].ver] OBVIOUS
  <2>5. PICK b : b = [a EXCEPT !.at = "done", !.made = made] OBVIOUS
  <2>6. b = [offer |-> a.offer, no |-> a.no, at |-> "done", made |-> made]
    <3>1. PICK c : c = [a EXCEPT !.at = "done"] OBVIOUS
    <3>2. c = [offer |-> a.offer, no |-> a.no, at |-> "done", made |-> a.made] BY <1>5, <3>1
    <3>3. b = [c EXCEPT !.made = made] BY <2>5, <3>1
    <3> QED BY <3>2, <3>3
  <2>7. sent' = (sent \ {a}) \cup {b} BY <1>7, <2>4, <2>5
  <2>8. DOMAIN made = Changed /\ \A k \in Changed : made[k] = db'[k].ver BY <2>4
  <2>9. Changed \subseteq DOMAIN db' BY <2>2 DEF Changed, Grows
  <2>10. \A k \in Changed : db'[k].ver \in Nat /\ db'[k].ver <= db'[k].ver BY <2>2 DEF Changed, Grows
  <2>11. KindsOf(r.name) = KindsOf(a.offer.route) BY <1>3
  <2>12. ActFits(b)'
    BY <1>5, <1>6, <2>2, <2>3, <2>6, <2>8, <2>9, <2>10, <2>11 DEF ActFits
  <2>13. \A c \in sent' : ActFits(c)' BY <1>1, <1>2, <2>2, <2>7, <2>12, ActKept DEF ScreensInv
  <2> QED BY <1>1, <2>2, <2>13, ReadsKept
<1>8. CASE sent' = (sent \ {a}) \cup {[a EXCEPT !.at = "refused"]} /\ db' = db
  <2>1. Grows BY <1>2, <1>8, SameGrows
  <2>2. PICK b : b = [a EXCEPT !.at = "refused"] OBVIOUS
  <2>3. b = [offer |-> a.offer, no |-> a.no, at |-> "refused", made |-> a.made] BY <1>5, <2>2
  <2>4. DOMAIN a.made = {} BY <1>4, <1>5 DEF ActFits
  <2>5. ActFits(b)' BY <1>5, <1>6, <2>3, <2>4 DEF ActFits
  <2>6. \A c \in sent' : ActFits(c)' BY <1>1, <1>2, <1>8, <2>1, <2>2, <2>5, ActKept DEF ScreensInv
  <2> QED BY <1>1, <2>1, <2>6, ReadsKept
<1> QED BY <1>3, <1>7, <1>8

LEMMA ReturnStep ==
  ASSUME ScreensInv, NEW a \in sent, Return(a) PROVE ScreensInv'
<1>1. PICK ls : ls = IF a.at = "done" THEN a.offer.reloads ELSE {} OBVIOUS
<1>2. /\ sent' = sent \ {a} /\ UNCHANGED <<page, db, copy>>
      /\ mine' = [k \in DOMAIN mine |-> IF k \in DOMAIN a.made /\ a.made[k] > mine[k] THEN a.made[k] ELSE mine[k]]
      /\ loads' = Again(ls) /\ failed' = failed \ ls
      /\ crossed' = crossed \cup {l \in ls \cap Unordered : Loading(l)}
  BY <1>1 DEF Return
<1>3. VersionsFit /\ ActFits(a) BY DEF ScreensInv
<1>4. Mine' = Mine /\ Touched(page)' = Touched(page) BY <1>2 DEF Mine, Touched
<1>5. Grows BY <1>2, <1>3, SameGrows
<1>6. VersionsFit'
  <2>1. ASSUME NEW k \in DOMAIN db PROVE mine'[k] \in Nat /\ mine'[k] <= db[k].ver
    <3>1. k \in DOMAIN mine /\ mine[k] \in Nat /\ mine[k] <= db[k].ver /\ db[k].ver \in Nat BY <1>3 DEF VersionsFit
    <3>2. k \in DOMAIN a.made => a.made[k] \in Nat /\ a.made[k] <= db[k].ver BY <1>3 DEF ActFits
    <3>3. (mine'[k] = a.made[k] /\ k \in DOMAIN a.made) \/ mine'[k] = mine[k] BY <1>2, <3>1
    <3> QED BY <3>1, <3>2, <3>3
  <2>2. DOMAIN mine' = DOMAIN mine BY <1>2
  <2> QED BY <1>2, <1>3, <1>4, <2>1, <2>2 DEF VersionsFit
<1>7. \A b \in sent' : ActFits(b)' BY <1>2, <1>3, <1>5, ActKept DEF ScreensInv
<1>a. PICK n : loads' = {q \in loads : q.of \notin ls \ Unordered} \cup {NewLoad(l, n[l]) : l \in ls}
  <2> DEFINE kept == {q \in loads : q.of \notin ls \ Unordered}
             n == [l \in ls |-> 1 + Cardinality({q \in kept : q.of = l})]
  <2>1. Again(ls) = kept \cup {NewLoad(l, n[l]) : l \in ls} BY DEF Again
  <2> QED BY <1>2, <2>1
<1>8. \A q \in loads' : \/ q \in loads /\ q.of \notin ls \ Unordered
                        \/ q.of \in ls /\ q.got = <<>> /\ q = [of |-> q.of, no |-> q.no, got |-> q.got]
  BY <1>a DEF NewLoad
<1>9. ASSUME NEW l \in ls PROVE Loading(l)'
  <2>1. NewLoad(l, n[l]) \in loads' BY <1>a
  <2>2. NewLoad(l, n[l]).of = l BY DEF NewLoad
  <2> QED BY <2>1, <2>2 DEF Loading
<1>10. \A q \in loads : q.of \notin ls => q \in loads' BY <1>a
<1>11. ASSUME NEW l \in Mine \ (Charts \cup crossed') PROVE Current(l)'
  <2>1. l \notin crossed /\ Current(l) BY <1>2 DEF ScreensInv
  <2>2. CASE l \in ls
    <3>1. ASSUME NEW q \in loads', q.of = l PROVE q.got = <<>>
      <4>1. ~(q \in loads /\ l \in Unordered) BY <1>2, <2>2, <3>1 DEF Loading
      <4> QED BY <1>8, <2>2, <3>1, <4>1
    <3> QED BY <1>9, <2>2, <3>1 DEF Current
  <2>3. CASE l \notin ls
    <3>1. Kind(l) \in DOMAIN mine BY <1>3, KindIsTouched DEF Mine, VersionsFit
    <3>2. Kind(l) \notin DOMAIN a.made
      <4>1. CASE a.at = "done"
        <5>1. l \notin a.offer.reloads BY <1>1, <2>3, <4>1
        <5>2. a.offer \in PAGES[page].offers /\ page \in DOMAIN PAGES BY <1>3 DEF ActFits, Offers, VersionsFit
        <5>3. l \in PAGES[page].lists \ Charts BY DEF Mine
        <5>4. Lists[l].of \notin KindsOf(a.offer.route) BY <5>1, <5>2, <5>3, PagesCover DEF Covers
        <5> QED BY <1>3, <5>4 DEF ActFits, Kind
      <4>2. CASE a.at # "done" BY <1>3, <4>2 DEF ActFits
      <4> QED BY <4>1, <4>2
    <3>3. mine'[Kind(l)] = mine[Kind(l)] BY <1>2, <3>1, <3>2
    <3>4. \A got : Knows(got, l)' = Knows(got, l)
      <4>1. Kind(l)' = Kind(l) BY DEF Kind
      <4> QED BY <3>3 DEF Knows, Kind
    <3>5. \A q \in loads' : q.of = l => q \in loads BY <1>8, <2>3
    <3>6. Loading(l) => Loading(l)' BY <1>10, <2>3 DEF Loading
    <3>7. copy' = copy /\ (l \in failed => l \in failed') BY <1>2, <2>3
    <3> QED BY <2>1, <3>4, <3>5, <3>6, <3>7 DEF Current
  <2> QED BY <2>2, <2>3
<1>12. \A q \in loads' : q = [of |-> q.of, no |-> q.no, got |-> q.got] BY <1>8 DEF ScreensInv
<1> QED BY <1>4, <1>6, <1>7, <1>11, <1>12 DEF ScreensInv

LEMMA ScreensStep == ASSUME ScreensInv, [ScreensNext]_screenVars PROVE ScreensInv'
<1>1. CASE \E q \in loads : Read1(q) \/ Show(q) \/ LoseLoad(q) BY <1>1, Read1Step, ShowStep, LoseLoadStep
<1>2. CASE \E o \in Offers : Press(o) BY <1>2, PressStep
<1>3. CASE \E a \in sent : Handle(a) \/ Return(a) \/ LoseAct(a) BY <1>3, HandleStep, ReturnStep, LoseActStep
<1>4. CASE Meanwhile BY <1>4, MeanwhileStep
<1>5. CASE UNCHANGED screenVars
  <2>1. UNCHANGED <<page, db, copy, loads, failed, sent, mine, crossed>> BY <1>5 DEF screenVars
  <2>2. VersionsFit BY DEF ScreensInv
  <2>3. Grows BY <2>1, <2>2, SameGrows
  <2>4. \A b \in sent' : ActFits(b)' BY <2>1, <2>2, <2>3, ActKept DEF ScreensInv
  <2> QED BY <2>1, <2>3, <2>4, ReadsKept
<1> QED BY <1>1, <1>2, <1>3, <1>4, <1>5 DEF ScreensNext

LEMMA ScreensSound == ScreensInv => ScreenIsTrue
<1> SUFFICES ASSUME ScreensInv, NEW l \in Mine \ ({"setup", "accounts"} \cup failed \cup crossed),
                    ~Loading(l), copy[l] # NoCopy
             PROVE  copy[l].ver >= mine[Lists[l].of]
  BY DEF ScreenIsTrue
<1>1. Current(l) BY DEF ScreensInv, Charts
<1> QED BY <1>1 DEF Current, Knows, Kind

\* On every page, for every member and whatever the others, the operator, the network
\* and the time do meanwhile: once nothing is in flight, what the page was told it did is
\* on the screen, in every list whose latest load succeeded and whose answers did not
\* cross.  It rests on what each page loads again (PagesCover) and on what each route
\* may change (RoutesChange).
THEOREM ScreensHold == ScreensSpec => []ScreenIsTrue
<1>1. ScreensInv /\ [ScreensNext]_screenVars => ScreensInv' BY ScreensStep
<1> QED BY ScreensStart, <1>1, ScreensSound, PTL DEF ScreensSpec

-----------------------------------------------------------------------------
(* Who changes what *)

\* What stands before each router.
LEMMA GatesAre ==
  /\ moduleForPath("invoices") = {"sales"} /\ moduleForPath("bills") = {"purchases"}
  /\ moduleForPath("expenses") = {"purchases"} /\ moduleForPath("payments") = {"money"}
  /\ moduleForPath("bank-accounts") = {"money"} /\ moduleForPath("reconciliation") = {"money"}
  /\ moduleForPath("gst") = {"compliance"} /\ moduleForPath("documents") = {"documents"}
  /\ moduleForPath("ai") = {"ai"} /\ moduleForPath("parties") = {"parties"} /\ moduleForPath("items") = {"parties"}
BY DEF moduleForPath, Sections, Modules

\* The change of a kind is one that the permission, the gate and the name of its route
\* let through.
Guarded(r) ==
  \A did \in r.to : \A k \in DOMAIN did :
    /\ r.may \in {"membership", "report:read", "audit:export", "ai:read"} => k \in {"notice", "prefs"}
    /\ r.may = "expense:submit" => k \in {"expense", "doc"}
    /\ k = "expense" => \/ r.may = "expense:submit" /\ did["expense"] = "submitted"
                        \/ r.may = "expense:approve" /\ r.name \in OthersOnly
    /\ k \in DOMAIN Owner =>
         \/ Owner[k] \in r.in
         \/ r.name = "payment.allocated" /\ k = "invoice"
         \/ r.name = "proposal.confirm" /\ k \in {"invoice", "ims"}

LEMMA OwnersAre ==
  /\ Owner["invoice"] = "sales" /\ Owner["bill"] = "purchases" /\ Owner["expense"] = "purchases"
  /\ Owner["payment"] = "money" /\ Owner["bank"] = "money" /\ Owner["txn"] = "money"
  /\ Owner["ims"] = "compliance" /\ Owner["doc"] = "documents" /\ Owner["proposal"] = "ai"
  /\ Owner["party"] = "parties" /\ Owner["item"] = "parties" /\ Owner["filed"] = "compliance"
  /\ DOMAIN Owner = {"invoice", "bill", "expense", "payment", "bank", "txn", "ims", "doc", "proposal",
                     "party", "item", "filed"}
BY DEF Owner

LEMMA InvoiceGuarded == \A r \in InvoiceRoutes : Guarded(r)
BY GatesAre, OwnersAre DEF InvoiceRoutes, Route, Same, Guarded

LEMMA BillGuarded == \A r \in BillRoutes : Guarded(r)
BY GatesAre, OwnersAre DEF BillRoutes, Route, Guarded

LEMMA ExpenseGuarded == \A r \in ExpenseRoutes : Guarded(r)
BY GatesAre, OwnersAre DEF ExpenseRoutes, Route, Guarded, OthersOnly

LEMMA PaymentGuarded == \A r \in PaymentRoutes : Guarded(r)
BY GatesAre, OwnersAre DEF PaymentRoutes, Route, Guarded

LEMMA BankingGuarded == \A r \in BankingRoutes : Guarded(r)
BY GatesAre, OwnersAre DEF BankingRoutes, Route, Same, Guarded

LEMMA ReconciliationGuarded == \A r \in ReconciliationRoutes : Guarded(r)
BY GatesAre, OwnersAre DEF ReconciliationRoutes, Route, Guarded

LEMMA JournalGuarded == \A r \in JournalRoutes : Guarded(r)
BY GatesAre, OwnersAre DEF JournalRoutes, Route, Guarded

LEMMA AccountGuarded == \A r \in AccountRoutes : Guarded(r)
BY GatesAre, OwnersAre DEF AccountRoutes, Route, Guarded

LEMMA PartyGuarded == \A r \in PartyRoutes : Guarded(r)
BY GatesAre, OwnersAre DEF PartyRoutes, Route, Guarded

LEMMA GstGuarded == \A r \in GstRoutes : Guarded(r)
BY GatesAre, OwnersAre DEF GstRoutes, Route, Same, Guarded

LEMMA DocumentGuarded == \A r \in DocumentRoutes : Guarded(r)
BY GatesAre, OwnersAre DEF DocumentRoutes, Route, Guarded, GatesOfDocumentBills

LEMMA AiGuarded == \A r \in AiRoutes : Guarded(r)
BY GatesAre, OwnersAre DEF AiRoutes, Route, Guarded

LEMMA CompanyGuarded == \A r \in CompanyRoutes : Guarded(r)
BY GatesAre, OwnersAre DEF CompanyRoutes, Route, Guarded

LEMMA NotificationGuarded == \A r \in NotificationRoutes : Guarded(r)
BY GatesAre, OwnersAre DEF NotificationRoutes, Route, Guarded

LEMMA BillingGuarded == \A r \in BillingRoutes : Guarded(r)
BY GatesAre, OwnersAre DEF BillingRoutes, Route, Same, Guarded

LEMMA RoutesGuarded == \A r \in Routes : Guarded(r)
BY RoutersAre, InvoiceGuarded, BillGuarded, ExpenseGuarded, PaymentGuarded, BankingGuarded,
   ReconciliationGuarded, JournalGuarded, AccountGuarded, PartyGuarded, GstGuarded, DocumentGuarded,
   AiGuarded, CompanyGuarded, NotificationGuarded, BillingGuarded

\* What is only offered on one page, and that a page loads its own lists again.
Placed(p, page_) ==
  \A o \in p.offers :
    /\ o.reloads \subseteq p.lists
    /\ o.route = "payment.allocated" => page_ = "payments"
    /\ o.route = "proposal.confirm" => page_ = "copilot"
    /\ o.route = "reconciliation.confirm" => page_ = "banking"

LEMMA DashboardPlaced == Placed(DashboardPage, "dashboard")
BY DEF Placed, Page, Offer, DashboardPage

LEMMA InvoicesPlaced == Placed(InvoicesPage, "invoices")
BY DEF Placed, Page, Offer, InvoicesPage, NewInvoice

LEMMA BillsPlaced == Placed(BillsPage, "bills")
BY DEF Placed, Page, Offer, BillsPage, NewBill, NewExpense, BillActs, ExpenseActs

LEMMA PaymentsPlaced == Placed(PaymentsPage, "payments")
BY DEF Placed, Page, Offer, PaymentsPage, PaymentReloads

LEMMA BankingPlaced == Placed(BankingPage, "banking")
BY DEF Placed, Page, Offer, BankingPage

LEMMA JournalPlaced == Placed(JournalPage, "journal")
BY DEF Placed, Page, Offer, JournalPage

LEMMA AccountsPlaced == Placed(AccountsPage, "accounts")
BY DEF Placed, Page, Offer, AccountsPage

LEMMA PartiesPlaced == Placed(PartiesPage, "parties")
BY DEF Placed, Page, Offer, PartiesPage

LEMMA GstPlaced == Placed(GstPage, "gst")
BY DEF Placed, Page, Offer, GstPage, GstinSetup

LEMMA DocumentsPlaced == Placed(DocumentsPage, "documents")
BY DEF Placed, Page, Offer, DocumentsPage

LEMMA CopilotPlaced == Placed(CopilotPage, "copilot")
BY DEF Placed, Page, Offer, CopilotPage

LEMMA TeamPlaced == Placed(MembersPage, "team")
BY DEF Placed, Page, Offer, MembersPage

LEMMA NotificationsPlaced == Placed(NotificationsPage, "notifications")
BY DEF Placed, Page, Offer, NotificationsPage

LEMMA BillingPlaced == Placed(BillingPage, "billing")
BY DEF Placed, Page, Offer, BillingPage

LEMMA PagesPlaced == \A p \in DOMAIN PAGES : Placed(PAGES[p], p)
BY DashboardPlaced, InvoicesPlaced, BillsPlaced, PaymentsPlaced, BankingPlaced, JournalPlaced, AccountsPlaced,
   PartiesPlaced, GstPlaced, DocumentsPlaced, CopilotPlaced, TeamPlaced, NotificationsPlaced, BillingPlaced
   DEF PAGES

\* The events are counted, and a page only loads its own lists.
LoadsFit ==
  /\ events \in Nat /\ page \in DOMAIN PAGES
  /\ \A q \in loads : q = [of |-> q.of, no |-> q.no, got |-> q.got] /\ q.of \in Mine
  /\ \A a \in sent : a = [offer |-> a.offer, no |-> a.no, at |-> a.at, made |-> a.made] /\ a.offer \in Offers

LEMMA LoadsFitStart == ScreensInit => LoadsFit
<1> SUFFICES ASSUME ScreensInit PROVE LoadsFit OBVIOUS
<1>1. PICK late \in {{}} \cup {{l} : l \in Mine} : loads = {NewLoad(l, 0) : l \in late} BY DEF ScreensInit
<1>2. events = 0 /\ sent = {} /\ page \in DOMAIN PAGES BY ScreensAssumption DEF ScreensInit
<1> QED BY <1>1, <1>2 DEF LoadsFit, NewLoad

LEMMA LoadsFitStep == ASSUME LoadsFit, [ScreensNext]_screenVars PROVE LoadsFit'
<1>1. page' = page /\ Mine' = Mine /\ Offers' = Offers
  BY DEF ScreensNext, screenVars, Read1, Show, LoseLoad, Press, Handle, Return, LoseAct, Meanwhile, Mine, Offers
<1>2. events' \in Nat
  <2>1. events' = events \/ events' = events + 1
    BY DEF ScreensNext, screenVars, Read1, Show, LoseLoad, Press, Handle, Return, LoseAct, Meanwhile
  <2> QED BY <2>1 DEF LoadsFit
<1>3. ASSUME NEW q \in loads' PROVE q = [of |-> q.of, no |-> q.no, got |-> q.got] /\ q.of \in Mine
  <2> DEFINE OfMine == q = [of |-> q.of, no |-> q.no, got |-> q.got] /\ q.of \in Mine
  <2>1. CASE q \in loads BY <2>1 DEF LoadsFit
  <2>2. ASSUME NEW p \in loads, Read1(p), q \notin loads PROVE OfMine
    <3>1. \E got : q = [p EXCEPT !.got = got] BY <2>2 DEF Read1
    <3> QED BY <3>1 DEF LoadsFit
  <2>3. ASSUME NEW a \in sent, Return(a), q \notin loads PROVE OfMine
    <3>1. PICK ls : ls = IF a.at = "done" THEN a.offer.reloads ELSE {} OBVIOUS
    <3>2. loads' = Again(ls) BY <2>3, <3>1 DEF Return
    <3>3. \E l \in ls : \E n : q = NewLoad(l, n) BY <2>3, <3>2 DEF Again
    <3>4. a.offer.reloads \subseteq Mine BY PagesPlaced DEF LoadsFit, Placed, Offers, Mine
    <3> QED BY <3>1, <3>3, <3>4 DEF NewLoad
  <2>4. ASSUME q \notin loads PROVE \/ \E p \in loads : Read1(p)
                                    \/ \E a \in sent : Return(a)
    <3>1. loads' \subseteq loads \/ (\E p \in loads : Read1(p)) \/ (\E a \in sent : Return(a))
      BY DEF ScreensNext, screenVars, Show, LoseLoad, Press, Handle, LoseAct, Meanwhile
    <3> QED BY <2>4, <3>1
  <2> QED BY <2>1, <2>2, <2>3, <2>4
<1>4. ASSUME NEW b \in sent'
      PROVE  b = [offer |-> b.offer, no |-> b.no, at |-> b.at, made |-> b.made] /\ b.offer \in Offers
  <2> DEFINE Is == b = [offer |-> b.offer, no |-> b.no, at |-> b.at, made |-> b.made] /\ b.offer \in Offers
  <2>1. CASE b \in sent BY <2>1 DEF LoadsFit
  <2>2. ASSUME NEW o \in Offers, Press(o), b \notin sent PROVE Is
    <3>1. b = [offer |-> o, no |-> presses, at |-> "sent", made |-> <<>>] BY <2>2 DEF Press
    <3> QED BY <3>1
  <2>3. ASSUME NEW a \in sent, Handle(a), b \notin sent PROVE Is
    <3> DEFINE vers == [k \in Changed |-> db'[k].ver]
               done == [a EXCEPT !.at = "done", !.made = vers]
               refused == [a EXCEPT !.at = "refused"]
    <3>8. sent' = (sent \ {a}) \cup {done} \/ sent' = (sent \ {a}) \cup {refused} BY <2>3 DEF Handle
    <3>9. b = done \/ b = refused
      <4> HIDE DEF done, refused
      <4> QED BY <2>3, <3>8
    <3>1. \E at, made : b = [a EXCEPT !.at = at, !.made = made] \/ b = [a EXCEPT !.at = at]
      <4> HIDE DEF vers
      <4> QED BY <3>9
    <3>2. PICK at, made : b = [a EXCEPT !.at = at, !.made = made] \/ b = [a EXCEPT !.at = at] BY <3>1
    <3>3. PICK c : c = [a EXCEPT !.at = at] OBVIOUS
    <3>4. c = [offer |-> a.offer, no |-> a.no, at |-> at, made |-> a.made] BY <3>3 DEF LoadsFit
    <3>5. b = [c EXCEPT !.made = made] \/ b = c BY <3>2, <3>3
    <3>6. b = [offer |-> a.offer, no |-> a.no, at |-> at, made |-> made] \/ b = c BY <3>4, <3>5
    <3> QED BY <3>4, <3>6 DEF LoadsFit
  <2>4. sent' \subseteq sent \/ (\E o \in Offers : Press(o)) \/ (\E a \in sent : Handle(a))
    BY DEF ScreensNext, screenVars, Read1, Show, LoseLoad, Return, LoseAct, Meanwhile
  <2> QED BY <2>1, <2>2, <2>3, <2>4
<1> QED BY <1>1, <1>2, <1>3, <1>4 DEF LoadsFit

\* What the property says of a step.
Allowed ==
  /\ role \in {"auditor", "employee"} => Changed \subseteq ReadersChange(role)
  /\ "expense" \in Changed =>
       \/ db'.expense.status = "submitted" /\ role # "auditor"
       \/ claimant # Me /\ role # "employee"
  /\ \A k \in Changed \cap DOMAIN Owner : Owner[k] \in off => <<page, k>> \in Crossing

LEMMA ReadersMay ==
  /\ Grants["auditor"] = {"membership", "report:read", "audit:export", "ai:read"}
  /\ Grants["employee"] = {"membership", "expense:submit", "ai:read"}
BY DEF Grants

LEMMA ReturnsAreFiled ==
  \A l \in DOMAIN Lists : Lists[l].of = "filed" => Lists[l].in = {"compliance"} /\ Lists[l].may = "report:read"
BY GatesAre DEF Lists, Read

LEMMA PagesList == \A p \in DOMAIN PAGES : PAGES[p].lists \subseteq DOMAIN Lists
BY DEF PAGES, Lists, Page, DashboardPage, InvoicesPage, BillsPage, PaymentsPage, BankingPage, JournalPage,
   AccountsPage, PartiesPage, GstPage, DocumentsPage, CopilotPage, MembersPage, NotificationsPage, BillingPage

LEMMA ReadIsAllowed == ASSUME LoadsFit, NEW q \in loads, Read1(q) PROVE Allowed
<1>1. q.of \in DOMAIN Lists BY PagesList DEF LoadsFit, Mine
<1>2. CASE Allows(Lists[q.of], role, off) /\ Lists[q.of].of = "filed"
  <2>1. db' = Becomes(db, [filed |-> "prepared"]) BY <1>2 DEF Read1
  <2>2. Changed \subseteq {"filed"} BY <2>1 DEF Changed, Becomes
  <2>3. Lists[q.of].in = {"compliance"} /\ Lists[q.of].may = "report:read" BY <1>1, <1>2, ReturnsAreFiled
  <2>4. "compliance" \notin off /\ role # "employee" BY <1>2, <2>3, ReadersMay DEF Allows
  <2> QED BY <2>2, <2>4, OwnersAre DEF Allowed, ReadersChange
<1>3. CASE ~(Allows(Lists[q.of], role, off) /\ Lists[q.of].of = "filed")
  <2>1. db' = db BY <1>3 DEF Read1
  <2> QED BY <2>1 DEF Changed, Allowed
<1> QED BY <1>2, <1>3

LEMMA HandleIsAllowed == ASSUME LoadsFit, NEW a \in sent, Handle(a) PROVE Allowed
<1>1. CASE db' = db BY <1>1 DEF Changed, Allowed
<1>2. CASE db' # db
  <2>1. PICK r \in Routes : /\ r.name = a.offer.route /\ db' \in Effects(r, db)
                            /\ Allows(r, role, off) /\ (r.name \in OthersOnly => claimant # Me)
    BY <1>2 DEF Handle, Accepts
  <2>2. PICK did \in r.to : db' = Becomes(db, did) BY <2>1 DEF Effects
  <2>3. \A k \in Changed : k \in DOMAIN did /\ db'[k].status = did[k] BY <2>2 DEF Changed, Becomes
  <2>4. Guarded(r) /\ r.may \in Grants[role] /\ r.in \cap off = {} BY <2>1, RoutesGuarded DEF Allows
  <2>5. ASSUME role \in {"auditor", "employee"}, NEW k \in Changed PROVE k \in ReadersChange(role)
    <3>1. r.may \in {"membership", "report:read", "audit:export", "ai:read", "expense:submit"}
          /\ (role = "auditor" => r.may # "expense:submit")
      BY <2>4, <2>5, ReadersMay
    <3>2. (r.may # "expense:submit" => k \in {"notice", "prefs"})
          /\ (r.may = "expense:submit" => k \in {"expense", "doc"})
      BY <2>3, <2>4, <3>1 DEF Guarded
    <3> QED BY <2>5, <3>1, <3>2 DEF ReadersChange
  <2>6. ASSUME "expense" \in Changed
        PROVE  \/ db'.expense.status = "submitted" /\ role # "auditor"
               \/ claimant # Me /\ role # "employee"
    <3>1. \/ r.may = "expense:submit" /\ did["expense"] = "submitted"
          \/ r.may = "expense:approve" /\ r.name \in OthersOnly
      BY <2>3, <2>4, <2>6 DEF Guarded
    <3>2. r.may = "expense:submit" => role # "auditor" BY <2>4, ReadersMay
    <3>3. r.may = "expense:approve" => role # "employee" BY <2>4, ReadersMay
    <3> QED BY <2>1, <2>3, <2>6, <3>1, <3>2, <3>3
  <2>7. ASSUME NEW k \in Changed \cap DOMAIN Owner, Owner[k] \in off PROVE <<page, k>> \in Crossing
    <3>1. \/ r.name = "payment.allocated" /\ k = "invoice"
          \/ r.name = "proposal.confirm" /\ k \in {"invoice", "ims"}
      BY <2>3, <2>4, <2>7 DEF Guarded
    <3>2. (r.name = "payment.allocated" => page = "payments") /\ (r.name = "proposal.confirm" => page = "copilot")
      BY <2>1, PagesPlaced DEF LoadsFit, Offers, Placed
    <3> QED BY <3>1, <3>2 DEF Crossing
  <2> QED BY <2>5, <2>6, <2>7 DEF Allowed
<1> QED BY <1>1, <1>2

LEMMA StepIsAllowed == ASSUME LoadsFit, ScreensNext, events' = events PROVE Allowed
<1>1. db' = db \/ (\E q \in loads : Read1(q)) \/ (\E a \in sent : Handle(a))
  BY DEF ScreensNext, Show, LoseLoad, Press, Return, LoseAct, Meanwhile, LoadsFit
<1>2. CASE db' = db BY <1>2 DEF Changed, Allowed
<1> QED BY <1>1, <1>2, ReadIsAllowed, HandleIsAllowed

\* By what a member does on any page, an auditor changes nothing but notices and the
\* returns that are prepared by being read; an employee only submits claims and papers;
\* nobody decides a claim of their own; and nothing changes in a section that is off,
\* save the invoice a payment settles and what a proposal carries out: through any number
\* of presses and of changes of role and sections while they are on their way.
THEOREM ChangesHold == ScreensSpec => ChangesAreAllowed
<1>1. LoadsFit /\ [ScreensNext]_screenVars => LoadsFit' BY LoadsFitStep
<1>2. LoadsFit /\ ScreensNext => (events' = events => Allowed) BY StepIsAllowed
<1>3. LoadsFit /\ [ScreensNext]_screenVars => [events' = events => Allowed]_screenVars BY <1>2
<1>4. ScreensSpec => [][events' = events => Allowed]_screenVars
  BY LoadsFitStart, <1>1, <1>3, PTL DEF ScreensSpec
<1> QED BY <1>4 DEF ChangesAreAllowed, Allowed

-----------------------------------------------------------------------------
(* What the server takes *)

\* A route of the name takes effect, whoever it lets through.
Takes(name, d, by, body) ==
  \E r \in Routes : r.name = name /\ Accepts(r, d, by, Me, body)

LEMMA RoutersHold ==
  /\ InvoiceRoutes \subseteq Routes /\ BillRoutes \subseteq Routes /\ ExpenseRoutes \subseteq Routes
  /\ PaymentRoutes \subseteq Routes /\ BankingRoutes \subseteq Routes /\ ReconciliationRoutes \subseteq Routes
  /\ JournalRoutes \subseteq Routes /\ AccountRoutes \subseteq Routes /\ PartyRoutes \subseteq Routes
  /\ GstRoutes \subseteq Routes /\ DocumentRoutes \subseteq Routes /\ AiRoutes \subseteq Routes
  /\ CompanyRoutes \subseteq Routes /\ NotificationRoutes \subseteq Routes /\ BillingRoutes \subseteq Routes
BY DEF Routes

LEMMA RouterOf ==
  \A r \in Routes :
    /\ r.name \in {"invoice.create", "invoice.issue", "invoice.cancel", "invoice.send"} => r \in InvoiceRoutes
    /\ r.name \in {"bill.create", "bill.approve", "bill.cancel"} => r \in BillRoutes
    /\ r.name \in {"expense.create", "expense.approve", "expense.reject"} => r \in ExpenseRoutes
    /\ r.name \in {"payment.create", "payment.allocated"} => r \in PaymentRoutes
    /\ r.name \in {"bank.create", "bank.scan", "bank.import"} => r \in BankingRoutes
    /\ r.name \in {"reconciliation.confirm", "reconciliation.fromLine"} => r \in ReconciliationRoutes
    /\ r.name \in {"entry.post", "entry.reverse"} => r \in JournalRoutes
    /\ r.name = "account.seed" => r \in AccountRoutes
    /\ r.name \in {"party.create", "item.create"} => r \in PartyRoutes
    /\ r.name \in {"ims.sync", "ims.accept", "ims.reject", "ims.pending"} => r \in GstRoutes
    /\ r.name \in {"doc.upload", "doc.bill"} => r \in DocumentRoutes
    /\ r.name \in {"proposal.confirm", "proposal.reject"} => r \in AiRoutes
    /\ r.name \in {"company.update", "member.invite"} => r \in CompanyRoutes
    /\ r.name \in {"notice.read", "prefs.update"} => r \in NotificationRoutes
    /\ r.name = "plan.subscribe" => r \in BillingRoutes
BY RoutersAre, InvoiceChanges, BillChanges, ExpenseChanges, PaymentChanges, BankingChanges,
   ReconciliationChanges, JournalChanges, AccountChanges, PartyChanges, GstChanges, DocumentChanges,
     AiChanges, CompanyChanges, NotificationChanges, BillingChanges

LEMMA InvoiceTakes ==
  \A d, by, body :
    /\ Takes("invoice.create", d, by, body) <=>
         {"partyId", "issueDate", "lines"} \subseteq body /\ d["party"].status = "active"
    /\ Takes("invoice.issue", d, by, body) <=> d["invoice"].status = "draft" /\ d["account"].status = "seeded"
    /\ Takes("invoice.cancel", d, by, body) <=> "reason" \in body /\ d["invoice"].status \in {"issued", "late"}
    /\ Takes("invoice.send", d, by, body) <=>
         d["invoice"].status \in {"issued", "late", "aged", "overdue", "partially_paid", "paid", "cancelled"}
BY RoutersHold, RouterOf DEF InvoiceRoutes, Route, NoFields, Accepts, Takes, OthersOnly

LEMMA BillTakes ==
  \A d, by, body :
    /\ Takes("bill.create", d, by, body) <=>
         {"partyId", "vendorBillNumber", "billDate", "lines"} \subseteq body /\ d["party"].status = "active"
    /\ Takes("bill.approve", d, by, body) <=> d["bill"].status = "draft" /\ d["account"].status = "seeded"
    /\ Takes("bill.cancel", d, by, body) <=> "reason" \in body /\ d["bill"].status = "approved"
BY RoutersHold, RouterOf DEF BillRoutes, Route, NoFields, Accepts, Takes, OthersOnly

LEMMA ExpenseTakes ==
  \A d, by, body :
    /\ Takes("expense.create", d, by, body) <=>
         {"date", "amountPaise", "expenseAccountId", "description"} \subseteq body /\ d["account"].status = "seeded"
    /\ Takes("expense.approve", d, by, body) <=>
         d["expense"].status = "submitted" /\ d["account"].status = "seeded" /\ by # Me
    /\ Takes("expense.reject", d, by, body) <=>
         "reason" \in body /\ d["expense"].status = "submitted" /\ by # Me
BY RoutersHold, RouterOf DEF ExpenseRoutes, Route, NoFields, Accepts, Takes, OthersOnly

LEMMA PaymentTakes ==
  \A d, by, body :
    /\ Takes("payment.create", d, by, body) <=>
         /\ {"direction", "partyId", "date", "amountPaise", "depositAccountId"} \subseteq body
         /\ d["party"].status = "active" /\ d["account"].status = "seeded"
    /\ Takes("payment.allocated", d, by, body) <=>
         /\ {"direction", "partyId", "date", "amountPaise", "depositAccountId", "allocations"} \subseteq body
         /\ d["party"].status = "active" /\ d["account"].status = "seeded"
         /\ d["invoice"].status \in {"issued", "late", "aged", "partially_paid", "overdue"}
BY RoutersHold, RouterOf DEF PaymentRoutes, Route, NoFields, Accepts, Takes, OthersOnly

LEMMA BankingTakes ==
  \A d, by, body :
    /\ Takes("bank.create", d, by, body) <=> "name" \in body /\ d["account"].status = "seeded"
    /\ Takes("bank.scan", d, by, body) <=>
         {"filename", "mimeType", "contentBase64"} \subseteq body /\ d["bank"].status = "active"
    /\ Takes("bank.import", d, by, body) <=> {"csv", "mapping"} \subseteq body /\ d["bank"].status = "active"
BY RoutersHold, RouterOf DEF BankingRoutes, Route, Same, Accepts, Takes, OthersOnly

LEMMA ReconciliationTakes ==
  \A d, by, body :
    Takes("reconciliation.confirm", d, by, body) <=>
      {"bankTransactionId", "journalEntryId"} \subseteq body /\ d["txn"].status \in {"likely", "unlikely"}
BY RoutersHold, RouterOf DEF ReconciliationRoutes, Route, Accepts, Takes, OthersOnly

LEMMA JournalTakes ==
  \A d, by, body :
    /\ Takes("entry.post", d, by, body) <=>
         {"date", "narration", "lines"} \subseteq body /\ d["account"].status = "seeded"
    /\ Takes("entry.reverse", d, by, body) <=> "reason" \in body /\ d["entry"].status = "posted"
BY RoutersHold, RouterOf DEF JournalRoutes, Route, Accepts, Takes, OthersOnly

LEMMA AccountTakes == \A d, by, body : Takes("account.seed", d, by, body)
BY RoutersHold, RouterOf DEF AccountRoutes, Route, NoFields, NoStatuses, Accepts, Takes, OthersOnly

LEMMA PartyTakes ==
  \A d, by, body :
    /\ Takes("party.create", d, by, body) <=> {"type", "name"} \subseteq body
    /\ Takes("item.create", d, by, body) <=> {"kind", "name", "gstRate", "hsnOrSac"} \subseteq body
BY RoutersHold, RouterOf DEF PartyRoutes, Route, NoStatuses, Accepts, Takes, OthersOnly

LEMMA GstTakes ==
  \A d, by, body :
    /\ Takes("ims.sync", d, by, body) <=>
         "period" \in body /\ d["company"].status = "with_gstin" /\ d["ims"].status \in Statuses["ims"]
    /\ Takes("ims.accept", d, by, body) <=> "action" \in body /\ d["ims"].status \in Statuses["ims"] \ {"none"}
    /\ Takes("ims.reject", d, by, body) <=> "action" \in body /\ d["ims"].status \in Statuses["ims"] \ {"none"}
    /\ Takes("ims.pending", d, by, body) <=> "action" \in body /\ d["ims"].status \in {"no_action", "accept", "reject"}
BY RoutersHold, RouterOf DEF GstRoutes, Route, Same, Accepts, Takes, OthersOnly, Statuses

LEMMA DocumentTakes ==
  \A d, by, body :
    /\ Takes("doc.upload", d, by, body) <=> {"filename", "mimeType", "contentBase64"} \subseteq body
    /\ Takes("doc.bill", d, by, body) <=>
         {"partyId", "gstRate"} \subseteq body /\ d["doc"].status = "extracted" /\ d["party"].status = "active"
BY RoutersHold, RouterOf DEF DocumentRoutes, Route, NoStatuses, Accepts, Takes, OthersOnly

LEMMA AiTakes ==
  \A d, by, body :
    /\ Takes("proposal.confirm", d, by, body) <=> d["proposal"].status = "proposed"
    /\ Takes("proposal.reject", d, by, body) <=> d["proposal"].status \in {"proposed", "lapsed"}
BY RoutersHold, RouterOf DEF AiRoutes, Route, NoFields, Accepts, Takes, OthersOnly

LEMMA CompanyTakes ==
  \A d, by, body :
    /\ Takes("company.update", d, by, body)
    /\ Takes("member.invite", d, by, body) <=> {"email", "roleKey"} \subseteq body
BY RoutersHold, RouterOf DEF CompanyRoutes, Route, NoFields, NoStatuses, Accepts, Takes, OthersOnly

LEMMA NotificationTakes ==
  \A d, by, body :
    /\ Takes("notice.read", d, by, body) <=> "ids" \in body /\ d["notice"].status \in {"unread", "read"}
    /\ Takes("prefs.update", d, by, body)
BY RoutersHold, RouterOf DEF NotificationRoutes, Route, NoFields, NoStatuses, Accepts, Takes, OthersOnly

LEMMA BillingTakes ==
  \A d, by, body : Takes("plan.subscribe", d, by, body) <=> "plan" \in body
BY RoutersHold, RouterOf DEF BillingRoutes, Route, NoStatuses, Same, Accepts, Takes, OthersOnly

-----------------------------------------------------------------------------
(* What pages offer *)

LEMMA LivesAre ==
  /\ Statuses["invoice"] = {"none", "draft", "issued", "late", "aged", "partially_paid", "paid", "overdue", "cancelled"}
  /\ Statuses["bill"] = {"none", "draft", "approved", "partly_paid", "cancelled"}
  /\ Statuses["expense"] = {"none", "submitted", "approved", "rejected"}
  /\ Statuses["payment"] = {"none", "recorded"}
  /\ Statuses["bank"] = {"none", "active"}
  /\ Statuses["txn"] = {"none", "unlikely", "likely", "reconciled"}
  /\ Statuses["entry"] = {"none", "posted", "reversed"}
  /\ Statuses["account"] = {"none", "seeded"}
  /\ Statuses["party"] = {"none", "active"}
  /\ Statuses["item"] = {"none", "active"}
  /\ Statuses["ims"] = {"none", "no_action", "accept", "reject", "held", "accept_held", "reject_held"}
  /\ Statuses["company"] = {"without_gstin", "with_gstin"}
  /\ Statuses["doc"] = {"none", "uploaded", "extracted", "unread", "failed", "billed"}
  /\ Statuses["proposal"] = {"none", "proposed", "lapsed", "confirmed", "rejected", "expired"}
  /\ Statuses["member"] = {"none", "invited", "active"}
  /\ Statuses["notice"] = {"none", "unread", "read"}
  /\ Statuses["prefs"] = {"mail", "no_mail"}
  /\ Statuses["plan"] = {"free", "active"}
  /\ Statuses["filed"] = {"none", "prepared"}
  /\ DOMAIN Statuses = {"invoice", "bill", "expense", "payment", "bank", "txn", "entry", "account", "party",
                        "item", "ims", "company", "doc", "proposal", "member", "notice", "prefs", "plan", "filed"}
BY DEF Statuses

\* A refusal that the pages do not foresee.
Unforeseen(o, d, by) ==
  \E c \in KnownRefusals :
    /\ c[1] = o.route /\ d[c[2]].status \in c[3]
    /\ o.route \in OthersOnly => by = Me

LEMMA Refusals ==
  \A o, d, by :
    /\ o.route = "invoice.cancel" /\ d["invoice"].status \in {"draft", "aged"} => Unforeseen(o, d, by)
    /\ o.route \in {"expense.approve", "expense.reject"} /\ d["expense"].status = "submitted" /\ by = Me
         => Unforeseen(o, d, by)
    /\ o.route = "ims.pending" /\ d["ims"].status \in {"held", "accept_held", "reject_held"} => Unforeseen(o, d, by)
    /\ o.route = "doc.bill" /\ d["doc"].status = "unread" => Unforeseen(o, d, by)
    /\ o.route = "proposal.confirm" /\ d["proposal"].status = "lapsed" => Unforeseen(o, d, by)
    /\ o.route = "ims.sync" /\ d["company"].status = "without_gstin" => Unforeseen(o, d, by)
<1>1. /\ <<"invoice.cancel", "invoice", {"draft", "aged"}>> \in KnownRefusals
      /\ <<"expense.approve", "expense", {"submitted"}>> \in KnownRefusals
      /\ <<"expense.reject", "expense", {"submitted"}>> \in KnownRefusals
      /\ <<"ims.pending", "ims", {"held", "accept_held", "reject_held"}>> \in KnownRefusals
      /\ <<"doc.bill", "doc", {"unread"}>> \in KnownRefusals
      /\ <<"proposal.confirm", "proposal", {"lapsed"}>> \in KnownRefusals
      /\ <<"ims.sync", "company", {"without_gstin"}>> \in KnownRefusals
  BY DEF KnownRefusals
<1> QED BY <1>1 DEF Unforeseen, OthersOnly

\* What is on the screen of an offer, when it shows what there is.
Showing(o, d) == \A l \in DOMAIN o.on : d[Lists[l].of].status \in o.on[l]

\* The documents that a page shows are in their lives.
Living(p, d) == \A l \in p.lists : d[Lists[l].of].status \in Statuses[Lists[l].of]

Answered(p) ==
  \A o \in p.offers :
    /\ DOMAIN o.on \subseteq p.lists
    /\ \A d, by : Living(p, d) =>
         /\ Showing(o, d) /\ d["account"].status = "seeded" /\ ~Unforeseen(o, d, by)
           /\ o.route # "reconciliation.confirm" => Takes(o.route, d, by, o.sends)
         /\ Takes(o.route, d, by, o.sends) /\ o.route \notin Narrower => Showing(o, d)

LEMMA ShowsChart == Lists["setup"].of = "account" /\ Lists["accounts"].of = "account"
BY DEF Lists, Read

LEMMA DashboardFits == Answered(DashboardPage)
BY ListsShow, ShowsChart, AccountTakes DEF Answered, Showing, Page, Offer, Narrower, DashboardPage

LEMMA InvoicesFit == Answered(InvoicesPage)
BY ListsShow, ShowsChart, LivesAre, AccountTakes, InvoiceTakes, Refusals
DEF Answered, Showing, Page, Offer, Narrower, InvoicesPage, NewInvoice, Living, SomeParty, Reason

LEMMA BillsFit == Answered(BillsPage)
BY ListsShow, ShowsChart, LivesAre, AccountTakes, BillTakes, ExpenseTakes, Refusals
DEF Answered, Showing, Page, Offer, Narrower, BillsPage, NewBill, NewExpense, BillActs, ExpenseActs,
   SomeParty, SomeAccount, Reason

LEMMA PaymentsFit == Answered(PaymentsPage)
BY ListsShow, ShowsChart, LivesAre, AccountTakes, PaymentTakes
DEF Answered, Showing, Page, Offer, Narrower, PaymentsPage, PaymentReloads

LEMMA BankingFits == Answered(BankingPage)
BY ListsShow, ShowsChart, LivesAre, AccountTakes, BankingTakes, ReconciliationTakes
DEF Answered, Showing, Page, Offer, Narrower, BankingPage

LEMMA JournalFits == Answered(JournalPage)
BY ListsShow, ShowsChart, LivesAre, AccountTakes, JournalTakes
DEF Answered, Showing, Page, Offer, Narrower, JournalPage, SomeAccount, Reason, Living

LEMMA AccountsFit == Answered(AccountsPage)
BY ListsShow, ShowsChart, LivesAre, AccountTakes
DEF Answered, Showing, Page, Offer, Narrower, AccountsPage

LEMMA PartiesFit == Answered(PartiesPage)
BY ListsShow, ShowsChart, LivesAre, AccountTakes, PartyTakes
DEF Answered, Showing, Page, Offer, Narrower, PartiesPage

LEMMA GstFits == Answered(GstPage)
BY ListsShow, ShowsChart, LivesAre, AccountTakes, GstTakes, CompanyTakes, Refusals
DEF Answered, Showing, Page, Offer, Narrower, GstPage, GstinSetup, Living

LEMMA DocumentsFit == Answered(DocumentsPage)
BY ListsShow, ShowsChart, LivesAre, AccountTakes, DocumentTakes, Refusals
DEF Answered, Showing, Page, Offer, Narrower, DocumentsPage

LEMMA CopilotPageFits == Answered(CopilotPage)
BY ListsShow, ShowsChart, LivesAre, AccountTakes, AiTakes, Refusals
DEF Answered, Showing, Page, Offer, Narrower, CopilotPage

LEMMA MembersFit == Answered(MembersPage)
BY ListsShow, ShowsChart, LivesAre, AccountTakes, CompanyTakes
DEF Answered, Showing, Page, Offer, Narrower, MembersPage

LEMMA NotificationsFit == Answered(NotificationsPage)
BY ListsShow, ShowsChart, LivesAre, AccountTakes, NotificationTakes
DEF Answered, Showing, Page, Offer, Narrower, NotificationsPage, Living

LEMMA BillingFits == Answered(BillingPage)
BY ListsShow, ShowsChart, LivesAre, AccountTakes, BillingTakes
DEF Answered, Showing, Page, Offer, Narrower, BillingPage, Living

LEMMA PagesFit == \A p \in DOMAIN PAGES : Answered(PAGES[p])
BY DashboardFits, InvoicesFit, BillsFit, PaymentsFit, BankingFits, JournalFits, AccountsFit, PartiesFit,
   GstFits, DocumentsFit, CopilotPageFits, MembersFit, NotificationsFit, BillingFits DEF PAGES

\* What a route of a name asks for.
MayOf(name) ==
  IF name \in {"invoice.create", "invoice.issue", "invoice.cancel", "invoice.send", "bill.create",
               "party.create", "item.create", "doc.bill"} THEN "invoice:create"
  ELSE IF name \in {"bill.approve", "bill.cancel", "expense.approve", "expense.reject"} THEN "expense:approve"
  ELSE IF name \in {"expense.create", "doc.upload"} THEN "expense:submit"
  ELSE IF name \in {"entry.post", "account.seed"} THEN "journal:post"
  ELSE IF name = "entry.reverse" THEN "journal:reverse"
  ELSE IF name \in {"ims.sync", "ims.accept", "ims.reject", "ims.pending"} THEN "ims:action"
  ELSE IF name \in {"proposal.confirm", "proposal.reject"} THEN "ai:write"
  ELSE IF name = "company.update" THEN "company:update"
  ELSE IF name = "member.invite" THEN "user:invite"
  ELSE IF name \in {"notice.read", "prefs.update"} THEN "membership"
  ELSE IF name = "plan.subscribe" THEN "company:create"
  ELSE "bank:reconcile"

\* And what stands before it.
InOf(name) ==
  IF name \in {"invoice.create", "invoice.issue", "invoice.cancel", "invoice.send"} THEN moduleForPath("invoices")
  ELSE IF name \in {"bill.create", "bill.approve", "bill.cancel"} THEN moduleForPath("bills")
  ELSE IF name \in {"expense.create", "expense.approve", "expense.reject"} THEN moduleForPath("expenses")
  ELSE IF name \in {"payment.create", "payment.allocated"} THEN moduleForPath("payments")
  ELSE IF name \in {"bank.create", "bank.scan", "bank.import"} THEN moduleForPath("bank-accounts")
  ELSE IF name \in {"reconciliation.confirm", "reconciliation.fromLine"} THEN moduleForPath("reconciliation")
  ELSE IF name = "party.create" THEN moduleForPath("parties")
  ELSE IF name = "item.create" THEN moduleForPath("items")
  ELSE IF name \in {"ims.sync", "ims.accept", "ims.reject", "ims.pending"} THEN moduleForPath("gst")
  ELSE IF name = "doc.upload" THEN moduleForPath("documents")
  ELSE IF name = "doc.bill" THEN GatesOfDocumentBills
  ELSE IF name \in {"proposal.confirm", "proposal.reject"} THEN moduleForPath("ai")
  ELSE {}

\* What a route leaves is a life of its kind.
Asks(r) ==
  /\ r.may = MayOf(r.name) /\ r.in = InOf(r.name)
  /\ \A did \in r.to : \A k \in DOMAIN did : k \in DOMAIN Statuses /\ did[k] \in Statuses[k]
  /\ DOMAIN r.from \subseteq DOMAIN Statuses

LEMMA InvoiceAsks == \A r \in InvoiceRoutes : Asks(r)
BY LivesAre DEF InvoiceRoutes, Route, Same, Asks, MayOf, InOf

LEMMA BillAsks == \A r \in BillRoutes : Asks(r)
BY LivesAre DEF BillRoutes, Route, Asks, MayOf, InOf

LEMMA ExpenseAsks == \A r \in ExpenseRoutes : Asks(r)
BY LivesAre DEF ExpenseRoutes, Route, Asks, MayOf, InOf

LEMMA PaymentAsks == \A r \in PaymentRoutes : Asks(r)
BY LivesAre DEF PaymentRoutes, Route, Asks, MayOf, InOf

LEMMA BankingAsks == \A r \in BankingRoutes : Asks(r)
BY LivesAre DEF BankingRoutes, Route, Same, Asks, MayOf, InOf

LEMMA ReconciliationAsks == \A r \in ReconciliationRoutes : Asks(r)
BY LivesAre DEF ReconciliationRoutes, Route, Asks, MayOf, InOf

LEMMA JournalAsks == \A r \in JournalRoutes : Asks(r)
<1>1. \A r \in JournalRoutes : r.in = {} /\ InOf(r.name) = {} BY DEF JournalRoutes, Route, InOf
<1>2. \A r \in JournalRoutes : r.may = MayOf(r.name) BY DEF JournalRoutes, Route, MayOf
<1>3. \A r \in JournalRoutes :
        /\ \A did \in r.to : \A k \in DOMAIN did : k \in DOMAIN Statuses /\ did[k] \in Statuses[k]
        /\ DOMAIN r.from \subseteq DOMAIN Statuses
  BY LivesAre DEF JournalRoutes, Route
<1> QED BY <1>1, <1>2, <1>3 DEF Asks

LEMMA AccountAsks == \A r \in AccountRoutes : Asks(r)
BY LivesAre DEF AccountRoutes, Route, Asks, MayOf, InOf, NoStatuses

LEMMA PartyAsks == \A r \in PartyRoutes : Asks(r)
BY LivesAre DEF PartyRoutes, Route, Asks, MayOf, InOf, NoStatuses

LEMMA GstAsks == \A r \in GstRoutes : Asks(r)
BY LivesAre DEF GstRoutes, Route, Same, Asks, MayOf, InOf

LEMMA DocumentAsks == \A r \in DocumentRoutes : Asks(r)
BY LivesAre DEF DocumentRoutes, Route, Asks, MayOf, InOf, NoStatuses

LEMMA AiAsks == \A r \in AiRoutes : Asks(r)
BY LivesAre DEF AiRoutes, Route, Asks, MayOf, InOf

LEMMA CompanyAsks == \A r \in CompanyRoutes : Asks(r)
<1>1. \A r \in CompanyRoutes : r.in = {} /\ InOf(r.name) = {} BY DEF CompanyRoutes, Route, InOf
<1>2. \A r \in CompanyRoutes : r.may = MayOf(r.name) BY DEF CompanyRoutes, Route, MayOf
<1>3. \A r \in CompanyRoutes :
        /\ \A did \in r.to : \A k \in DOMAIN did : k \in DOMAIN Statuses /\ did[k] \in Statuses[k]
        /\ DOMAIN r.from \subseteq DOMAIN Statuses
  BY LivesAre DEF CompanyRoutes, Route, NoStatuses
<1> QED BY <1>1, <1>2, <1>3 DEF Asks

LEMMA NotificationAsks == \A r \in NotificationRoutes : Asks(r)
<1>1. \A r \in NotificationRoutes : r.in = {} /\ InOf(r.name) = {} BY DEF NotificationRoutes, Route, InOf
<1>2. \A r \in NotificationRoutes : r.may = MayOf(r.name) BY DEF NotificationRoutes, Route, MayOf
<1>3. \A r \in NotificationRoutes :
        /\ \A did \in r.to : \A k \in DOMAIN did : k \in DOMAIN Statuses /\ did[k] \in Statuses[k]
        /\ DOMAIN r.from \subseteq DOMAIN Statuses
  BY LivesAre DEF NotificationRoutes, Route, NoStatuses
<1> QED BY <1>1, <1>2, <1>3 DEF Asks

LEMMA BillingAsks == \A r \in BillingRoutes : Asks(r)
BY LivesAre DEF BillingRoutes, Route, Same, Asks, MayOf, InOf, NoStatuses

LEMMA RoutesAsk == \A r \in Routes : Asks(r)
BY RoutersAre, InvoiceAsks, BillAsks, ExpenseAsks, PaymentAsks, BankingAsks, ReconciliationAsks, JournalAsks,
   AccountAsks, PartyAsks, GstAsks, DocumentAsks, AiAsks, CompanyAsks, NotificationAsks, BillingAsks

\* Whoever may do the one may do the other.
Entails(m, n) == \A who \in DOMAIN Grants : m \in Grants[who] => n \in Grants[who]

LEMMA RolesEntail ==
  /\ \A m \in {"invoice:create", "expense:approve", "bank:reconcile", "journal:post", "journal:reverse", "ims:action"} :
       Entails(m, "report:read") /\ Entails(m, "expense:submit")
  /\ Entails("ai:write", "ai:read")
  /\ \A m : Entails(m, "membership") /\ Entails(m, m)
BY DEF Entails, Grants, Admin, Clerk

LEMMA SubmittersRead ==
  \A who \in DOMAIN Grants \ {"employee"} : "expense:submit" \in Grants[who] => "report:read" \in Grants[who]
BY DEF Grants, Admin, Clerk

LEMMA ListsAsk ==
  /\ Lists["invoices"] = [of |-> "invoice", in |-> {"sales"}, may |-> "report:read"]
  /\ Lists["bills"] = [of |-> "bill", in |-> {"purchases"}, may |-> "report:read"]
  /\ Lists["expenses"] = [of |-> "expense", in |-> {"purchases"}, may |-> "expense:submit"]
  /\ Lists["payments"] = [of |-> "payment", in |-> {"money"}, may |-> "report:read"]
  /\ Lists["bankAccounts"] = [of |-> "bank", in |-> {"money"}, may |-> "bank:reconcile"]
  /\ Lists["txns"] = [of |-> "txn", in |-> {"money"}, may |-> "bank:reconcile"]
  /\ Lists["suggestions"] = [of |-> "txn", in |-> {"money"}, may |-> "bank:reconcile"]
  /\ Lists["entries"] = [of |-> "entry", in |-> {}, may |-> "report:read"]
  /\ Lists["accounts"] = [of |-> "account", in |-> {}, may |-> "report:read"]
  /\ Lists["setup"] = [of |-> "account", in |-> {}, may |-> "report:read"]
  /\ Lists["parties"] = [of |-> "party", in |-> {"parties"}, may |-> "report:read"]
  /\ Lists["items"] = [of |-> "item", in |-> {"parties"}, may |-> "report:read"]
  /\ Lists["imsRecords"] = [of |-> "ims", in |-> {"compliance"}, may |-> "ims:action"]
  /\ Lists["gstr"] = [of |-> "filed", in |-> {"compliance"}, may |-> "report:read"]
  /\ Lists["companies"] = [of |-> "company", in |-> {}, may |-> "membership"]
  /\ Lists["documents"] = [of |-> "doc", in |-> {"documents"}, may |-> "expense:submit"]
  /\ Lists["proposals"] = [of |-> "proposal", in |-> {"ai"}, may |-> "ai:read"]
  /\ Lists["members"] = [of |-> "member", in |-> {}, may |-> "user:invite"]
  /\ Lists["notices"] = [of |-> "notice", in |-> {}, may |-> "membership"]
  /\ Lists["preferences"] = [of |-> "prefs", in |-> {}, may |-> "membership"]
  /\ Lists["plans"] = [of |-> "plan", in |-> {}, may |-> "membership"]
BY GatesAre DEF Lists, Read

\* Whoever may send a form may read what it is filled from, and a page that is left out
\* of the navigation misses a list.
Readable(p) ==
  \A o \in p.offers : \A l \in DOMAIN o.on :
    \/ o.route = "expense.create" /\ Lists[l].may = "report:read"
    \/ Entails(MayOf(o.route), Lists[l].may)

Steered(p, page_) ==
  /\ \A s \in Sections :
       IF page_ \in Nav[s] THEN \E l \in p.lists : s \in Lists[l].in
                           ELSE \E l \in p.lists \ {"setup"} : s \notin Lists[l].in
  /\ \E l \in p.lists : l # "setup"

LEMMA DashboardSteered == Readable(DashboardPage) /\ Steered(DashboardPage, "dashboard")
BY SMTT(60), ListsAsk, RolesEntail DEF Readable, Steered, MayOf, Sections, Modules, Nav, Page, Offer, DashboardPage

LEMMA InvoicesSteered == Readable(InvoicesPage) /\ Steered(InvoicesPage, "invoices")
BY SMTT(60), ListsAsk, RolesEntail DEF Readable, Steered, MayOf, Sections, Modules, Nav, Page, Offer, InvoicesPage,
   NewInvoice, SomeParty

LEMMA BillsSteered == Readable(BillsPage) /\ Steered(BillsPage, "bills")
BY SMTT(60), ListsAsk, RolesEntail DEF Readable, Steered, MayOf, Sections, Modules, Nav, Page, Offer, BillsPage,
   NewBill, NewExpense, BillActs, ExpenseActs, SomeParty, SomeAccount

LEMMA PaymentsSteered == Readable(PaymentsPage) /\ Steered(PaymentsPage, "payments")
BY SMTT(60), ListsAsk, RolesEntail DEF Readable, Steered, MayOf, Sections, Modules, Nav, Page, Offer, PaymentsPage

LEMMA BankingSteered == Readable(BankingPage) /\ Steered(BankingPage, "banking")
BY SMTT(60), ListsAsk, RolesEntail DEF Readable, Steered, MayOf, Sections, Modules, Nav, Page, Offer, BankingPage

LEMMA JournalSteered == Readable(JournalPage) /\ Steered(JournalPage, "journal")
BY SMTT(60), ListsAsk, RolesEntail DEF Readable, Steered, MayOf, Sections, Modules, Nav, Page, Offer, JournalPage, SomeAccount

LEMMA AccountsSteered == Readable(AccountsPage) /\ Steered(AccountsPage, "accounts")
BY SMTT(60), ListsAsk, RolesEntail DEF Readable, Steered, MayOf, Sections, Modules, Nav, Page, Offer, AccountsPage

LEMMA PartiesSteered == Readable(PartiesPage) /\ Steered(PartiesPage, "parties")
BY SMTT(60), ListsAsk, RolesEntail DEF Readable, Steered, MayOf, Sections, Modules, Nav, Page, Offer, PartiesPage

LEMMA GstSteered == Readable(GstPage) /\ Steered(GstPage, "gst")
BY SMTT(60), ListsAsk, RolesEntail DEF Readable, Steered, MayOf, Sections, Modules, Nav, Page, Offer, GstPage, GstinSetup

LEMMA DocumentsSteered == Readable(DocumentsPage) /\ Steered(DocumentsPage, "documents")
BY SMTT(60), ListsAsk, RolesEntail DEF Readable, Steered, MayOf, Sections, Modules, Nav, Page, Offer, DocumentsPage

LEMMA CopilotSteered == Readable(CopilotPage) /\ Steered(CopilotPage, "copilot")
BY SMTT(60), ListsAsk, RolesEntail DEF Readable, Steered, MayOf, Sections, Modules, Nav, Page, Offer, CopilotPage

LEMMA TeamSteered == Readable(MembersPage) /\ Steered(MembersPage, "team")
BY SMTT(60), ListsAsk, RolesEntail DEF Readable, Steered, MayOf, Sections, Modules, Nav, Page, Offer, MembersPage

LEMMA NotificationsSteered == Readable(NotificationsPage) /\ Steered(NotificationsPage, "notifications")
BY SMTT(60), ListsAsk, RolesEntail DEF Readable, Steered, MayOf, Sections, Modules, Nav, Page, Offer, NotificationsPage

LEMMA BillingSteered == Readable(BillingPage) /\ Steered(BillingPage, "billing")
BY SMTT(60), ListsAsk, RolesEntail DEF Readable, Steered, MayOf, Sections, Modules, Nav, Page, Offer, BillingPage

LEMMA PagesSteered == \A p \in DOMAIN PAGES : Readable(PAGES[p]) /\ Steered(PAGES[p], p)
BY DashboardSteered, InvoicesSteered, BillsSteered, PaymentsSteered, BankingSteered, JournalSteered,
   AccountsSteered, PartiesSteered, GstSteered, DocumentsSteered, CopilotSteered, TeamSteered,
   NotificationsSteered, BillingSteered DEF PAGES

\* Every document is in its life, one section at most is off, and a suggestion that
\* cannot be drawn has taken the page with it.
LivesFit ==
  /\ role \in DOMAIN Grants
  /\ \A s \in off : off = {s} /\ s \in Sections
  /\ \A k \in DOMAIN db : /\ k \in DOMAIN Statuses
                          /\ db[k] = [status |-> db[k].status, ver |-> db[k].ver]
                          /\ db[k].status \in Statuses[k]
  /\ page = "banking" /\ copy["suggestions"] # NoCopy /\ copy["suggestions"].status = "likely" => crashed

LEMMA TouchedLive == \A p \in DOMAIN PAGES : Touched(p) \subseteq DOMAIN Statuses
<1> SUFFICES ASSUME NEW p \in DOMAIN PAGES, NEW k \in Touched(p) PROVE k \in DOMAIN Statuses OBVIOUS
<1>1. \A l \in DOMAIN Lists : Lists[l].of \in DOMAIN Statuses BY LivesAre DEF Lists, Read
<1>2. CASE \E l \in PAGES[p].lists : k = Lists[l].of BY <1>1, <1>2, PagesList
<1>3. CASE \E r \in Routes : k \in DOMAIN r.from \/ \E did \in r.to : k \in DOMAIN did
  BY <1>3, RoutesAsk DEF Asks
<1> QED BY <1>2, <1>3 DEF Touched

LEMMA UsualLive == \A k \in DOMAIN Statuses : Usual[k] \in Statuses[k]
BY LivesAre DEF Usual

LEMMA LivesStart == ScreensInit => LivesFit
<1> SUFFICES ASSUME ScreensInit PROVE LivesFit OBVIOUS
<1>1. \E k \in Touched(page) : \E s \in Statuses[k] :
        db = [j \in Touched(page) |-> [status |-> IF j = k THEN s ELSE Usual[j], ver |-> 0]]
  BY DEF ScreensInit
<1>2. /\ role \in DOMAIN Grants /\ off = {} /\ page \in DOMAIN PAGES
      /\ crashed = (page = "banking" /\ copy.suggestions # NoCopy /\ copy.suggestions.status = "likely")
  BY ScreensAssumption DEF ScreensInit
<1>3. Touched(page) \subseteq DOMAIN Statuses BY <1>2, TouchedLive
<1>4. ASSUME NEW k \in Touched(page), NEW s \in Statuses[k],
             db = [j \in Touched(page) |-> [status |-> IF j = k THEN s ELSE Usual[j], ver |-> 0]],
             NEW j \in DOMAIN db
      PROVE  /\ j \in DOMAIN Statuses /\ db[j] = [status |-> db[j].status, ver |-> db[j].ver]
             /\ db[j].status \in Statuses[j]
  <2>1. j \in DOMAIN Statuses /\ db[j] = [status |-> IF j = k THEN s ELSE Usual[j], ver |-> 0] BY <1>3, <1>4
  <2>2. Usual[j] \in Statuses[j] BY <2>1, UsualLive
  <2>3. db[j].status \in Statuses[j] BY <1>4, <2>1, <2>2
  <2> QED BY <2>1, <2>3
<1> QED BY <1>1, <1>2, <1>4 DEF LivesFit

LEMMA BecomesLives ==
  ASSUME LivesFit, NEW did, \A k \in DOMAIN did : k \in DOMAIN Statuses /\ did[k] \in Statuses[k],
         db' = Becomes(db, did), NEW k \in DOMAIN db'
  PROVE  /\ k \in DOMAIN Statuses /\ db'[k] = [status |-> db'[k].status, ver |-> db'[k].ver]
         /\ db'[k].status \in Statuses[k]
<1>1. k \in DOMAIN db BY DEF Becomes
<1>2. CASE k \in DOMAIN did
  <2>1. db'[k] = [status |-> did[k], ver |-> db[k].ver + 1] BY <1>1, <1>2 DEF Becomes
  <2> QED BY <1>2, <2>1
<1>3. CASE k \notin DOMAIN did
  <2>1. db'[k] = db[k] BY <1>1, <1>3 DEF Becomes
  <2> QED BY <1>1, <2>1 DEF LivesFit
<1> QED BY <1>2, <1>3

LEMMA GatesAreSections ==
  /\ \A l \in DOMAIN Lists : Lists[l].in \subseteq Sections
  /\ \A r \in Routes : r.in \subseteq Sections
  /\ \A k \in DOMAIN Owner : Owner[k] \in Sections
<1>1. \A x : moduleForPath(x) \subseteq Sections BY DEF moduleForPath
<1>2. \A l \in DOMAIN Lists : Lists[l].in = {} \/ \E x : Lists[l].in = moduleForPath(x) BY DEF Lists, Read
<1>3. \A r \in Routes : r.in \subseteq Sections
  <2>1. \A n : InOf(n) \subseteq Sections BY <1>1 DEF InOf, GatesOfDocumentBills
  <2> QED BY <2>1, RoutesAsk DEF Asks
<1>4. \A k \in DOMAIN Owner : Owner[k] \in Sections BY OwnersAre DEF Sections, Modules
<1> QED BY <1>1, <1>2, <1>3, <1>4

LEMMA LivesStep == ASSUME ScreensInv, LivesFit, [ScreensNext]_screenVars PROVE LivesFit'
<1> DEFINE Fit(d, k) == k \in DOMAIN Statuses /\ d[k] = [status |-> d[k].status, ver |-> d[k].ver]
                          /\ d[k].status \in Statuses[k]
<1>1. page' = page
  BY DEF ScreensNext, screenVars, Read1, Show, LoseLoad, Press, Handle, Return, LoseAct, Meanwhile
<1>2. \/ db' = db
      \/ db' = Becomes(db, [filed |-> "prepared"])
      \/ \E r \in Routes : \E did \in r.to : db' = Becomes(db, did)
      \/ Elapse
  BY DEF ScreensNext, screenVars, Read1, Show, LoseLoad, Press, Handle, Return, LoseAct, Meanwhile, Others,
     Switch, Effects
<1>3. ASSUME NEW k \in DOMAIN db' PROVE Fit(db', k)
  <2>1. CASE db' = db BY <2>1 DEF LivesFit
  <2>2. CASE db' = Becomes(db, [filed |-> "prepared"])
    <3>1. PICK did : did = [filed |-> "prepared"] OBVIOUS
    <3>2. \A j \in DOMAIN did : j \in DOMAIN Statuses /\ did[j] \in Statuses[j] BY <3>1, LivesAre
    <3> QED BY <2>2, <3>1, <3>2, BecomesLives
  <2>3. CASE \E r \in Routes : \E did \in r.to : db' = Becomes(db, did)
    BY <2>3, RoutesAsk, BecomesLives DEF Asks
  <2>4. CASE Elapse
    <3>1. PICK c \in {<<"invoice", "issued", "late">>, <<"invoice", "issued", "aged">>,
                      <<"invoice", "late", "overdue">>, <<"invoice", "aged", "overdue">>,
                      <<"proposal", "proposed", "lapsed">>, <<"doc", "uploaded", "extracted">>,
                      <<"doc", "uploaded", "failed">>} :
            db' = Becomes(db, [j \in {c[1]} |-> c[3]])
      BY <2>4 DEF Elapse
    <3>2. c[1] \in DOMAIN Statuses /\ c[3] \in Statuses[c[1]] BY <3>1, LivesAre
    <3>3. PICK did : did = [j \in {c[1]} |-> c[3]] OBVIOUS
    <3>4. \A j \in DOMAIN did : j \in DOMAIN Statuses /\ did[j] \in Statuses[j] BY <3>2, <3>3
    <3> QED BY <3>1, <3>3, <3>4, BecomesLives
  <2> QED BY <1>2, <2>1, <2>2, <2>3, <2>4
<1>4. role' \in DOMAIN Grants /\ \A s \in off' : off' = {s} /\ s \in Sections
  <2>1. CASE role' = role /\ off' = off BY <2>1 DEF LivesFit
  <2>2. CASE Switch
    <3>1. Mine \subseteq DOMAIN Lists BY PagesList DEF ScreensInv, VersionsFit, Mine
    <3>2. Gates \cup {Owner[k] : k \in DOMAIN Owner \cap DOMAIN db} \subseteq Sections
      <4>1. UNION {Lists[l].in : l \in Mine} \subseteq Sections BY <3>1, GatesAreSections
      <4>2. UNION {r.in : r \in {q \in Routes : \E o \in Offers : o.route = q.name}} \subseteq Sections
        BY GatesAreSections
      <4>3. \A k \in DOMAIN Owner \cap DOMAIN db : Owner[k] \in Sections BY GatesAreSections
      <4>4. PICK A, B : /\ A = UNION {Lists[l].in : l \in Mine}
                       /\ B = UNION {r.in : r \in {q \in Routes : \E o \in Offers : o.route = q.name}}
        OBVIOUS
      <4>5. Gates = A \cup B BY <4>4 DEF Gates
      <4>6. Gates \subseteq Sections BY <4>1, <4>2, <4>4, <4>5
      <4> QED BY <4>3, <4>6
    <3> QED BY <2>2, <3>2 DEF Switch, LivesFit
  <2>3. (role' = role /\ off' = off) \/ Switch
    BY DEF ScreensNext, screenVars, Read1, Show, LoseLoad, Press, Handle, Return, LoseAct, Meanwhile, Others, Elapse
  <2> QED BY <2>1, <2>2, <2>3
<1>5. page' = "banking" /\ copy'["suggestions"] # NoCopy /\ copy'["suggestions"].status = "likely" => crashed'
  <2>1. CASE copy' = copy /\ crashed' = crashed BY <1>1, <2>1 DEF LivesFit
  <2>2. ASSUME NEW q \in loads, Show(q), page = "banking"
        PROVE  copy'["suggestions"] # NoCopy /\ copy'["suggestions"].status = "likely" => crashed'
    <3>1. "suggestions" \in DOMAIN copy
      BY <2>2 DEF ScreensInv, VersionsFit, Mine, PAGES, BankingPage, Page
    <3>2. CASE copy' = copy /\ crashed' = crashed BY <2>2, <3>2 DEF LivesFit
    <3>3. CASE /\ copy' = [copy EXCEPT ![q.of] = q.got[1]]
               /\ crashed' = (crashed \/ (q.of = "suggestions" /\ q.got[1].status = "likely"))
      <4>1. CASE q.of = "suggestions"
        <5>1. copy'["suggestions"] = q.got[1] BY <3>1, <3>3, <4>1
        <5> QED BY <3>3, <4>1, <5>1
      <4>2. CASE q.of # "suggestions"
        <5>1. copy'["suggestions"] = copy["suggestions"] BY <3>1, <3>3, <4>2
        <5>2. crashed => crashed' BY <3>3
        <5> QED BY <2>2, <5>1, <5>2 DEF LivesFit
      <4> QED BY <4>1, <4>2
    <3> QED BY <2>2, <3>2, <3>3 DEF Show, Unreadable
  <2>3. (copy' = copy /\ crashed' = crashed) \/ \E q \in loads : Show(q)
    BY DEF ScreensNext, screenVars, Read1, LoseLoad, Press, Handle, Return, LoseAct, Meanwhile
  <2> QED BY <1>1, <2>1, <2>2, <2>3
<1> QED BY <1>3, <1>4, <1>5 DEF LivesFit

LEMMA CopiesFit ==
  ASSUME ScreensInv, LivesFit, Fresh, NEW l \in Mine
  PROVE  /\ Lists[l].of \in DOMAIN db /\ copy[l] = db[Lists[l].of]
         /\ copy[l] # NoCopy /\ copy[l].status \in Statuses[Lists[l].of]
<1>1. Lists[l].of \in DOMAIN db BY KindIsTouched DEF ScreensInv, VersionsFit, Kind, Mine
<1>2. copy[l] = db[Lists[l].of] BY DEF Fresh
<1>3. PICK k \in DOMAIN db : k = Lists[l].of BY <1>1
<1>4. /\ db[k] = [status |-> db[k].status, ver |-> db[k].ver]
      /\ db[k].status \in Statuses[k] /\ k \in DOMAIN Statuses
  BY DEF LivesFit
<1>5. db[k].ver \in Nat BY DEF ScreensInv, VersionsFit
<1>6. db[k] \in [status : UNION {Statuses[j] : j \in DOMAIN Statuses}, ver : Nat]
  <2>1. db[k].status \in UNION {Statuses[j] : j \in DOMAIN Statuses} BY <1>4
  <2> QED BY <1>4, <1>5, <2>1
<1>7. db[k] # NoCopy BY <1>6, ScreensAssumption
<1> QED BY <1>1, <1>2, <1>3, <1>4, <1>7

LEMMA BankingConfirms ==
  \A o \in BankingPage.offers :
    o.route = "reconciliation.confirm" => "suggestions" \in DOMAIN o.on /\ o.on["suggestions"] = {"likely"}
BY DEF Page, Offer, BankingPage

LEMMA OnlyBankingConfirms ==
  \A p \in DOMAIN PAGES : \A o \in PAGES[p].offers :
    o.route = "reconciliation.confirm" =>
      p = "banking" /\ "suggestions" \in DOMAIN o.on /\ o.on["suggestions"] = {"likely"}
<1>1. PAGES["banking"] = BankingPage BY DEF PAGES
<1> QED BY <1>1, PagesPlaced, BankingConfirms DEF Placed

LEMMA OffersShow ==
  ASSUME ScreensInv, LivesFit, Fresh, NEW o \in Offers PROVE Offered(o) <=> Showing(o, db)
<1>1. DOMAIN o.on \subseteq Mine BY PagesFit DEF Answered, Offers, Mine, ScreensInv, VersionsFit
<1>2. \A l \in DOMAIN o.on : copy[l] = db[Lists[l].of] /\ copy[l] # NoCopy BY <1>1, CopiesFit
<1>3. ~crashed /\ failed = {} /\ \A l : ~Loading(l) BY DEF Fresh, Loading
<1> QED BY <1>2, <1>3 DEF Offered, Showing

LEMMA ButtonsFit ==
  ASSUME ScreensInv, LivesFit, Fresh, NEW o \in Offers, CouldCall(o, off)
  PROVE  /\ Offered(o) /\ Foreseen(o) => WouldAccept(o)
         /\ WouldAccept(o) /\ o.route \notin Narrower => Offered(o)
<1>1. WouldAccept(o) <=> Takes(o.route, db, claimant, o.sends)
  <2>1. ASSUME NEW r \in Routes, r.name = o.route PROVE Allows(r, role, off)
    <3>1. PICK q \in Routes : q.name = o.route /\ Allows(q, role, off) BY DEF CouldCall
    <3>2. r.may = q.may /\ r.in = q.in BY <2>1, <3>1, RoutesAsk DEF Asks
    <3> QED BY <3>1, <3>2 DEF Allows
  <2> QED BY <2>1 DEF WouldAccept, Takes
<1>2. Offered(o) <=> Showing(o, db) BY OffersShow
<1>3. Living(PAGES[page], db) BY CopiesFit DEF Living, Mine
<1>4. page \in DOMAIN PAGES /\ o \in PAGES[page].offers BY DEF ScreensInv, VersionsFit, Offers
<1>5. Answered(PAGES[page]) BY <1>4, PagesFit
<1>6. WouldAccept(o) /\ o.route \notin Narrower => Offered(o) BY <1>1, <1>2, <1>3, <1>4, <1>5 DEF Answered
<1>7. ASSUME Offered(o), Foreseen(o) PROVE WouldAccept(o)
  <2>1. db["account"].status = "seeded" /\ ~Unforeseen(o, db, claimant) BY <1>7 DEF Foreseen, Unforeseen
  <2>2. o.route # "reconciliation.confirm"
    <3> SUFFICES ASSUME o.route = "reconciliation.confirm" PROVE FALSE OBVIOUS
    <3>1. page = "banking" /\ "suggestions" \in DOMAIN o.on /\ o.on["suggestions"] = {"likely"}
      BY <1>4, OnlyBankingConfirms
    <3>2. copy["suggestions"] # NoCopy /\ copy["suggestions"].status \in {"likely"} /\ ~crashed
      BY <1>7, <3>1 DEF Offered
    <3> QED BY <3>1, <3>2 DEF LivesFit
  <2> QED BY <1>1, <1>2, <1>3, <1>4, <1>5, <1>7, <2>1, <2>2 DEF Answered
<1> QED BY <1>6, <1>7

LEMMA ButtonsSound == ScreensInv /\ LivesFit => ButtonsMatchServer
<1> SUFFICES ASSUME ScreensInv, LivesFit, Fresh
             PROVE
    /\ \A o \in {q \in Offers : CouldCall(q, off)} :
         /\ Offered(o) /\ Foreseen(o) => WouldAccept(o)
         /\ WouldAccept(o) /\ o.route \notin Narrower => Offered(o)
    /\ \A o \in {q \in Offers : CouldCall(q, {})} : \A l \in DOMAIN o.on :
         Allows(Lists[l], role, {}) \/ (role = "employee" /\ o.route = "expense.create")
    /\ page = "dashboard" =>
         \A l \in {"bills", "expenses"} : LET k == Lists[l].of IN
           (\E r \in Routes : /\ r.name \in {"bill.approve", "expense.approve"}
                              /\ k \in DOMAIN r.from /\ db[k].status \in r.from[k])
             => copy[l].status \in Attention[l]
    /\ IF page \in hiddenNavFor(off) THEN \E l \in Mine : Lists[l].in \cap off # {}
                                     ELSE \E l \in Mine \ {"setup"} : Lists[l].in \cap off = {}
  BY DEF ButtonsMatchServer
<1>1. page \in DOMAIN PAGES /\ Readable(PAGES[page]) /\ Steered(PAGES[page], page)
  BY PagesSteered DEF ScreensInv, VersionsFit
<1>2. ASSUME NEW o \in Offers, CouldCall(o, {}), NEW l \in DOMAIN o.on
      PROVE  Allows(Lists[l], role, {}) \/ (role = "employee" /\ o.route = "expense.create")
  <2>1. PICK r \in Routes : r.name = o.route /\ r.may \in Grants[role] BY <1>2 DEF CouldCall, Allows
  <2>2. r.may = MayOf(o.route) BY <2>1, RoutesAsk DEF Asks
  <2>3. role \in DOMAIN Grants BY DEF LivesFit
  <2>4. CASE Entails(MayOf(o.route), Lists[l].may) BY <2>1, <2>2, <2>3, <2>4 DEF Entails, Allows
  <2>5. CASE o.route = "expense.create" /\ Lists[l].may = "report:read"
    <3>1. MayOf("expense.create") = "expense:submit" BY DEF MayOf
    <3> QED BY <2>1, <2>2, <2>3, <2>5, <3>1, SubmittersRead DEF Allows
  <2> QED BY <1>1, <2>4, <2>5 DEF Readable, Offers
<1>3. ASSUME page = "dashboard", NEW l \in {"bills", "expenses"}, NEW r \in Routes,
             r.name \in {"bill.approve", "expense.approve"},
             Lists[l].of \in DOMAIN r.from, db[Lists[l].of].status \in r.from[Lists[l].of]
      PROVE  copy[l].status \in Attention[l]
  <2>1. {"bills", "expenses"} \subseteq Mine BY <1>3 DEF Mine, PAGES, DashboardPage, Page
  <2>2. copy[l].status = db[Lists[l].of].status BY <1>3, <2>1, CopiesFit
  <2>4. \/ r.name = "bill.approve" /\ DOMAIN r.from = {"bill", "account"} /\ r.from["bill"] = {"draft"}
        \/ r.name = "expense.approve" /\ DOMAIN r.from = {"expense", "account"} /\ r.from["expense"] = {"submitted"}
    <3>1. CASE r.name = "bill.approve" /\ r \in BillRoutes BY <3>1 DEF BillRoutes, Route
    <3>2. CASE r.name = "expense.approve" /\ r \in ExpenseRoutes BY <3>2 DEF ExpenseRoutes, Route
    <3> QED BY <1>3, <3>1, <3>2, RouterOf
  <2>5. \/ l = "bills" /\ Lists[l].of = "bill" /\ Attention[l] = {"draft"}
        \/ l = "expenses" /\ Lists[l].of = "expense" /\ Attention[l] = {"submitted"}
    BY <1>3, ListsShow DEF Attention
  <2> QED BY <1>3, <2>2, <2>4, <2>5
<1>4. IF page \in hiddenNavFor(off) THEN \E l \in Mine : Lists[l].in \cap off # {}
                                    ELSE \E l \in Mine \ {"setup"} : Lists[l].in \cap off = {}
  <2>1. CASE off = {} BY <1>1, <2>1 DEF hiddenNavFor, Steered, Mine
  <2>2. ASSUME NEW s \in off PROVE IF page \in hiddenNavFor(off) THEN \E l \in Mine : Lists[l].in \cap off # {}
                                    ELSE \E l \in Mine \ {"setup"} : Lists[l].in \cap off = {}
    <3>1. off = {s} /\ s \in Sections BY <2>2 DEF LivesFit
    <3>2. page \in hiddenNavFor(off) <=> page \in Nav[s] BY <3>1 DEF hiddenNavFor
    <3> QED BY <1>1, <3>1, <3>2 DEF Steered, Mine
  <2> QED BY <2>1, <2>2
<1>5. \A o \in {q \in Offers : CouldCall(q, off)} :
         /\ Offered(o) /\ Foreseen(o) => WouldAccept(o)
         /\ WouldAccept(o) /\ o.route \notin Narrower => Offered(o)
  BY ButtonsFit
<1> QED BY <1>2, <1>3, <1>4, <1>5

\* On every page that shows what there is, whatever happened before: the buttons and forms
\* are those the server would accept from this member, save the refusals listed; whoever
\* may send a form may read what it is filled from; the first page counts what waits for
\* an approval; and the navigation leaves out the pages that a section takes away.
THEOREM ButtonsHold == ScreensSpec => []ButtonsMatchServer
<1>1. ScreensInit => ScreensInv /\ LivesFit BY ScreensStart, LivesStart
<1>2. ScreensInv /\ LivesFit /\ [ScreensNext]_screenVars => (ScreensInv /\ LivesFit)'
  BY ScreensStep, LivesStep
<1> QED BY <1>1, <1>2, ButtonsSound, PTL DEF ScreensSpec
=============================================================================
