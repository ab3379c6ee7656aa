----------------------------- MODULE Approvals -----------------------------
(***************************************************************************)
(* What a person decides: proposals of the copilot (ai/gateway.ts,         *)
(* ai/registry.ts, routes/v1/ai.routes.ts) and the budget its turns spend, *)
(* expense claims (expenseService.ts), bills made from scanned documents   *)
(* (documentService.ts) and actions on the suppliers' invoices the tax     *)
(* portal shows (imsService.ts).  One claim, one document and one portal   *)
(* record are modelled, and any number of proposals.                       *)
(***************************************************************************)
EXTENDS Naturals, Sequences, FiniteSets

CONSTANTS
  Requests,      \* requests that may run at once
  Users, Author, \* who approves; the one who submitted the claim
  Vendors,       \* those a scanned bill may be from
  Kinds,         \* what a proposal may be: "books" (an invoice or an entry), "ims"
  Actions,       \* actions on a portal record; "pending" is one of them
  Quota,         \* tokens of the month; a call of the model costs one
  MaxTools,      \* MAX_TOOL_ITERATIONS
  MaxStarts,     \* bound: requests begun
  MaxFailures    \* bound: processes that die and calls that fail

ASSUME ApprovalsAssumption ==
  /\ IsFiniteSet(Requests) /\ Requests # {} /\ Author \in Users
  /\ Kinds \subseteq {"books", "ims"} /\ "none" \notin Actions \cup Vendors
  /\ Quota \in Nat /\ MaxTools \in Nat /\ MaxStarts \in Nat /\ MaxFailures \in Nat

VARIABLES
  usage,     \* tokens recorded this month
  proposals, \* the proposals, in the order of creation
  expense,   \* the claim, its version, and how often it was posted
  document,  \* the scanned document, and the bill it refers to
  bills,     \* the vendors who have a bill with the document's number
  ims, gsp,  \* the portal record here; the action there
  request,   \* what each request is doing
  history    \* for bounds and properties alone

vars == <<usage, proposals, expense, document, bills, ims, gsp, request, history>>
copilot == <<usage, proposals>>
paper   == <<document, bills>>
portal  == <<ims, gsp>>

None == "none"
Idle == [at |-> "rest", id |-> 0, kind |-> None, calls |-> 0, tools |-> FALSE, seen |-> 0,
         was |-> None, crossed |-> FALSE]

At(r, place) == request[r].at = place
Go(r, place) == request' = [request EXCEPT ![r].at = place]
Done(r)      == request' = [request EXCEPT ![r] = Idle]

Begin(r, req) ==
  /\ At(r, "rest") /\ history.starts < MaxStarts
  /\ request' = [request EXCEPT ![r] = req]
  /\ history' = [history EXCEPT !.starts = @ + 1]

-----------------------------------------------------------------------------
(* A turn of the copilot *)

\* Mutant: the quota is a limit for a single turn.
TurnBeginAny(r) ==
  /\ Begin(r, [Idle EXCEPT !.at = "chat"])
  /\ UNCHANGED <<copilot, expense, paper, portal>>

\* assertBudget, before the first call.
TurnBegin(r) ==
  /\ usage < Quota
  /\ Begin(r, [Idle EXCEPT !.at = "chat"])
  /\ UNCHANGED <<copilot, expense, paper, portal>>

\* The model asks for a tool - one that reads, or one that proposes - or answers;
\* an answer may state a figure no tool returned.
TurnChat(r) ==
  /\ At(r, "chat")
  /\ \E k \in Kinds \cup {"read", "answer", "invented"} :
       request' = [request EXCEPT ![r].at = "record", ![r].kind = k, ![r].calls = @ + 1]
  /\ history' = [history EXCEPT !.spent = @ + 1]
  /\ UNCHANGED <<copilot, expense, paper, portal>>

\* recordUsage; then the tool, the one corrective call, or the end of the turn.
TurnRecord(r) ==
  /\ At(r, "record")
  /\ usage' = usage + 1
  /\ LET q == request[r]
     IN CASE q.kind \in Kinds \cup {"read"} /\ q.calls <= MaxTools -> Go(r, "tool")
          [] q.kind = "invented" /\ q.tools /\ q.calls <= MaxTools + 1 ->
               request' = [request EXCEPT ![r].at = "chat", ![r].calls = MaxTools + 1]
          [] OTHER -> Done(r)
  /\ UNCHANGED <<proposals, expense, paper, portal, history>>

\* executeTool: a writing tool makes a proposal and touches nothing else.
TurnTool(r) ==
  /\ At(r, "tool")
  /\ proposals' = IF request[r].kind = "read" THEN proposals
                  ELSE Append(proposals, [kind |-> request[r].kind, status |-> "proposed",
                                          late |-> FALSE, runs |-> 0, crossed |-> FALSE])
  /\ request' = [request EXCEPT ![r].at = "chat", ![r].tools = TRUE]
  /\ UNCHANGED <<usage, expense, paper, portal, history>>

-----------------------------------------------------------------------------
(* A proposal *)

Deciding == {"run", "save", "expire", "refuse", "act", "push", "pushed"}
\* Two requests decide upon proposal p at once.
Crossed(r, p) ==
  [proposals EXCEPT ![p].crossed = @ \/ \E x \in Requests \ {r} :
                                          request[x].at \in Deciding /\ request[x].id = p]

\* A day has passed since it was made.
ProposalLapse ==
  \E p \in 1..Len(proposals) :
    /\ proposals[p].status = "proposed" /\ ~proposals[p].late
    /\ proposals' = [proposals EXCEPT ![p].late = TRUE]
    /\ UNCHANGED <<usage, expense, paper, portal, request, history>>


\* confirm: the proposal must be open, and then not be too old ...
ConfirmBegin(r) ==
  /\ \E p \in 1..Len(proposals) :
       /\ proposals[p].status = "proposed"
       /\ Begin(r, [Idle EXCEPT !.id = p, !.kind = proposals[p].kind,
                                !.at = IF proposals[p].late THEN "expire" ELSE "run"])
       /\ proposals' = Crossed(r, p)
  /\ UNCHANGED <<usage, expense, paper, portal>>

\* ... or it is marked, and the request refused.
ConfirmExpire(r) ==
  /\ At(r, "expire")
  /\ proposals' = [proposals EXCEPT ![request[r].id].status = "expired"]
  /\ Done(r)
  /\ UNCHANGED <<usage, expense, paper, portal, history>>

\* The draft is created or the entry posted, in a transaction of the service's own.
ConfirmRun(r) ==
  /\ At(r, "run") /\ request[r].kind = "books"
  /\ proposals' = [proposals EXCEPT ![request[r].id].runs = @ + 1]
  /\ Go(r, "save")
  /\ UNCHANGED <<usage, expense, paper, portal, history>>

\* Only then is it saved that it was confirmed.
ConfirmSave(r) ==
  /\ At(r, "save")
  /\ proposals' = [proposals EXCEPT ![request[r].id].status = "confirmed"]
  /\ Done(r)
  /\ UNCHANGED <<usage, expense, paper, portal, history>>

\* reject: found open, and saved.
RefuseBegin(r) ==
  /\ \E p \in 1..Len(proposals) :
       /\ proposals[p].status = "proposed"
       /\ Begin(r, [Idle EXCEPT !.id = p, !.at = "refuse"])
       /\ proposals' = Crossed(r, p)
  /\ UNCHANGED <<usage, expense, paper, portal>>

RefuseSave(r) ==
  /\ At(r, "refuse")
  /\ proposals' = [proposals EXCEPT ![request[r].id].status = "rejected"]
  /\ Done(r)
  /\ UNCHANGED <<usage, expense, paper, portal, history>>

-----------------------------------------------------------------------------
(* The action on a portal record *)

\* act, by a person or as a confirmed proposal: one period may be left pending.
ActBegin(r) ==
  /\ \E a \in Actions :
       /\ a = "pending" => ims.pendings < 1
       /\ \/ Begin(r, [Idle EXCEPT !.at = "act", !.kind = a, !.seen = ims.pendings,
                                   !.was = ims.action])
          \/ /\ At(r, "run") /\ request[r].kind = "ims"
             /\ request' = [request EXCEPT ![r].at = "act", ![r].kind = a,
                                           ![r].seen = ims.pendings, ![r].was = ims.action]
             /\ UNCHANGED history
  /\ UNCHANGED <<copilot, expense, paper, portal>>

\* The decision is saved, but only what differs from what was read is written ...
ActSave(r) ==
  /\ At(r, "act")
  /\ ims' = [ims EXCEPT !.action = IF request[r].kind = request[r].was THEN @
                                   ELSE request[r].kind,
                        !.pendings = IF request[r].kind = "pending" THEN request[r].seen + 1
                                     ELSE @]
  /\ Go(r, "push")
  /\ history' = [history EXCEPT !.crossed = \/ @
                                            \/ ims.action # request[r].was
                                            \/ \E x \in Requests \ {r} : At(x, "push")]
  /\ proposals' = [p \in 1..Len(proposals) |->
                     IF p = request[r].id THEN [proposals[p] EXCEPT !.runs = @ + 1]
                     ELSE proposals[p]]
  /\ UNCHANGED <<usage, expense, paper, gsp>>

\* Mutant: what was pushed once is not pushed again.
ActPushOnce(r) ==
  /\ At(r, "push")
  /\ gsp' = IF ims.pushed THEN gsp ELSE request[r].kind
  /\ Go(r, "pushed")
  /\ UNCHANGED <<copilot, expense, paper, ims, history>>

\* ... then pushed to the portal ...
ActPush(r) ==
  /\ At(r, "push")
  /\ gsp' = request[r].kind
  /\ Go(r, "pushed")
  /\ UNCHANGED <<copilot, expense, paper, ims, history>>

\* ... then saved again, with the time of the push.
ActPushed(r) ==
  /\ At(r, "pushed")
  /\ ims' = [ims EXCEPT !.pushed = TRUE]
  /\ IF request[r].id = 0 THEN Done(r) ELSE Go(r, "save")
  /\ UNCHANGED <<copilot, expense, paper, gsp, history>>

\* sync: the record is matched with a bill of its vendor and number, if there is
\* one and it is approved by now ...
SyncMatch(r) ==
  /\ \E n \in IF bills = {} THEN {0} ELSE {0, 1} :
       Begin(r, [Idle EXCEPT !.at = "match", !.seen = n])
  /\ UNCHANGED <<copilot, expense, paper, portal>>

\* ... and upserted: amounts and match, not what was decided.
SyncUpsert(r) ==
  /\ At(r, "match")
  /\ ims' = [ims EXCEPT !.matched = request[r].seen = 1]
  /\ Done(r)
  /\ UNCHANGED <<copilot, expense, paper, gsp, history>>

-----------------------------------------------------------------------------
(* An expense claim *)

\* approve: read in the snapshot of a transaction; nobody approves his own.
ApproveBegin(r) ==
  /\ expense.status = "submitted"
  /\ \E u \in Users \ {Author} :
       Begin(r, [Idle EXCEPT !.at = "approve", !.kind = u, !.seen = expense.version])
  /\ UNCHANGED <<copilot, expense, paper, portal>>

\* Posted and saved in one transaction, or begun again if the claim was written
\* since its snapshot.
ApproveCommit(r) ==
  /\ At(r, "approve")
  /\ IF expense.version = request[r].seen
     THEN /\ expense' = [status |-> "approved", by |-> request[r].kind,
                         version |-> expense.version + 1, posted |-> expense.posted + 1]
          /\ Done(r)
     ELSE /\ IF expense.status = "submitted"
             THEN request' = [request EXCEPT ![r].seen = expense.version] ELSE Done(r)
          /\ UNCHANGED expense
  /\ UNCHANGED <<copilot, paper, portal, history>>

\* reject: read outside a transaction ...
RejectBegin(r) ==
  /\ expense.status = "submitted"
  /\ \E u \in Users \ {Author} :
       Begin(r, [Idle EXCEPT !.at = "reject", !.kind = u, !.seen = expense.version])
  /\ UNCHANGED <<copilot, expense, paper, portal>>

\* Mutant: no optimistic concurrency.
RejectSaveBlind(r) ==
  /\ At(r, "reject")
  /\ expense' = [expense EXCEPT !.status = "rejected", !.version = @ + 1]
  /\ Done(r)
  /\ UNCHANGED <<copilot, paper, portal, history>>

\* ... and saved if it still has the version that was read: else VersionError.
RejectSave(r) ==
  /\ At(r, "reject")
  /\ expense' = IF expense.version = request[r].seen
                THEN [expense EXCEPT !.status = "rejected", !.version = @ + 1] ELSE expense
  /\ Done(r)
  /\ UNCHANGED <<copilot, paper, portal, history>>

-----------------------------------------------------------------------------
(* A scanned document *)

\* upload: stored ...
Upload(r) ==
  /\ document.state = "absent"
  /\ Begin(r, [Idle EXCEPT !.at = "extract"])
  /\ document' = [document EXCEPT !.state = "uploaded"]
  /\ UNCHANGED <<copilot, expense, bills, portal>>

\* ... and read, by its text layer or a vision model.
Extract(r) ==
  /\ At(r, "extract")
  /\ document' = [document EXCEPT !.state = "extracted"]
  /\ Done(r)
  /\ UNCHANGED <<copilot, expense, bills, portal, history>>

\* createBill: for a document that was read, and has none yet ...
BillBegin(r) ==
  /\ document.state = "extracted" /\ document.bill = None
  /\ \E v \in Vendors :
       Begin(r, [Idle EXCEPT !.at = "bill", !.kind = v,
                             !.crossed = \E x \in Requests : request[x].at \in {"bill", "link"}])
  /\ UNCHANGED <<copilot, expense, paper, portal>>

\* ... the bill, unless the vendor has one with this number: a unique index ...
BillCreate(r) ==
  /\ At(r, "bill")
  /\ IF request[r].kind \in bills
     THEN Done(r) /\ UNCHANGED <<bills, history>>
     ELSE /\ bills' = bills \cup {request[r].kind}
          /\ Go(r, "link")
          /\ history' = [history EXCEPT !.excused = @ \/ request[r].crossed]
  /\ UNCHANGED <<copilot, expense, document, portal>>

\* ... and the reference to it.
BillLink(r) ==
  /\ At(r, "link")
  /\ document' = [document EXCEPT !.bill = request[r].kind]
  /\ Done(r)
  /\ UNCHANGED <<copilot, expense, bills, portal, history>>

-----------------------------------------------------------------------------

\* The process dies, or a call fails, before the request's next step.
Fail(r) ==
  /\ ~At(r, "rest") /\ history.failures < MaxFailures
  /\ Done(r)
  /\ proposals' = [p \in 1..Len(proposals) |->
                     IF p = request[r].id /\ request[r].at \in {"save", "push", "pushed"}
                     THEN [proposals[p] EXCEPT !.crossed = TRUE] ELSE proposals[p]]
  /\ history' = [history EXCEPT
       !.failures = @ + 1,
       !.lost = IF At(r, "record") THEN @ + 1 ELSE @,
       !.excused = @ \/ At(r, "link"),
       !.crossed = @ \/ At(r, "push")]
  /\ UNCHANGED <<usage, expense, paper, portal>>

Init ==
  /\ usage = 0 /\ proposals = <<>>
  /\ expense = [status |-> "submitted", by |-> Author, version |-> 0, posted |-> 0]
  /\ document = [state |-> "absent", bill |-> None] /\ bills = {}
  /\ ims = [action |-> None, pendings |-> 0, pushed |-> FALSE, matched |-> FALSE]
  /\ gsp = None
  /\ request = [r \in Requests |-> Idle]
  /\ history = [starts |-> 0, failures |-> 0, spent |-> 0, lost |-> 0, crossed |-> FALSE,
                excused |-> FALSE]

Turn(r)    == TurnBegin(r) \/ TurnChat(r) \/ TurnRecord(r) \/ TurnTool(r)
Decide(r)  == ConfirmBegin(r) \/ ConfirmExpire(r) \/ ConfirmRun(r) \/ ConfirmSave(r)
                \/ RefuseBegin(r) \/ RefuseSave(r)
ActUpon(r) == ActBegin(r) \/ ActSave(r) \/ ActPush(r) \/ ActPushed(r)
                \/ SyncMatch(r) \/ SyncUpsert(r)
Claim(r)   == ApproveBegin(r) \/ ApproveCommit(r) \/ RejectBegin(r) \/ RejectSave(r)
Scan(r)    == Upload(r) \/ Extract(r) \/ BillBegin(r) \/ BillCreate(r) \/ BillLink(r)

\* Claims and documents on one side, proposals and portal records on the other, have
\* no state in common.
PapersNext == \E r \in Requests : Claim(r) \/ Scan(r) \/ Fail(r)

DecisionsNext ==
  \/ \E r \in Requests : Turn(r) \/ Decide(r) \/ ActUpon(r) \/ Fail(r)
  \/ ProposalLapse

Next == PapersNext \/ DecisionsNext

Spec == Init /\ [][Next]_vars

-----------------------------------------------------------------------------
(* Properties *)

\* Every call of the model is recorded unless its process died, and what turns
\* that were let in together may spend beyond the quota is bounded.
BudgetIsBounded ==
  history.spent - history.lost < Quota + Cardinality(Requests) * (MaxTools + 2)

\* A proposal takes effect once if it is confirmed, and never if it is rejected or
\* too old, unless two requests decided upon it at once or one of them was cut off
\* after it had taken effect.
ProposalsRunOnce ==
  \A p \in 1..Len(proposals) :
    ~proposals[p].crossed =>
      /\ proposals[p].runs <= 1
      /\ proposals[p].status \in {"rejected", "expired"} => proposals[p].runs = 0

\* A claim that somebody approves while somebody else rejects it is one or the
\* other: posted once if it is approved, never if not, and never by its author.
\* One document makes one bill, unless two requests made one at once or the first
\* was cut off before it was noted.
PapersArePostedOnce ==
  /\ expense.posted = (IF expense.status = "approved" THEN 1 ELSE 0)
  /\ expense.status = "approved" => expense.by # Author
  /\ ~history.excused => Cardinality(bills) <= 1

\* What somebody must approve - a proposal, a claim, a document - takes effect once, and
\* not at all if it was refused.
ApprovedOnce == ProposalsRunOnce /\ PapersArePostedOnce

\* When nobody is at it, the portal has the action that is saved here, unless two
\* acted upon the record at once or a push failed.
PortalFollowsRecord ==
  (~history.crossed /\ \A r \in Requests : ~At(r, "push")) => gsp = ims.action
=============================================================================
