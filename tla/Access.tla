------------------------------- MODULE Access -------------------------------
(***************************************************************************)
(* Who may do what in one company: memberships and invitations             *)
(* (services/memberService.ts), the seats they take (subscriptionService), *)
(* and the two caches a request's permissions pass through - one in Redis  *)
(* for all processes (permissionCache.ts), one in each process for the     *)
(* sections an operator switched off (requireModule.ts).  The members here *)
(* are those other than the owner, whom no handler may modify.             *)
(***************************************************************************)
EXTENDS Naturals, FiniteSets

CONSTANTS
  Staff,      \* the people who are, or are to be, members
  Joined,     \* those who are when the model begins, their invitations still good
  Askers,     \* those whose requests to the books are modelled
  Roles,      \* the roles that may be given, each a set of permissions
  Admins,     \* requests of administrators that may run at once
  Pods,       \* API processes
  Seats,      \* organization.limits.maxUsers, less the owner
  MaxChanges, \* bound: requests of administrators and operators begun
  MaxLost     \* bound: Redis commands that fail

ASSUME AccessAssumption ==
  /\ IsFiniteSet(Staff) /\ IsFiniteSet(Admins) /\ Staff \cap Admins = {}
  /\ Joined \subseteq Staff /\ Askers \subseteq Staff /\ Roles # {}
  /\ Cardinality(Joined) <= Seats
  /\ Seats \in Nat /\ MaxChanges \in Nat /\ MaxLost \in Nat

VARIABLES
  account,  \* the users who have one
  member,   \* the membership of each user
  invites,  \* signed invitations that have not expired
  section,  \* is the section on for the company?
  cache,    \* the permissions of each user in Redis
  podCache, \* what each process believes of the section
  work,     \* what each administrator, and each user accepting, is doing
  request,  \* each user's request to a route of the section
  toggle,   \* the operator's request
  history   \* for bounds and properties alone

accessVars == <<account, member, invites, section, cache, podCache, work, request, toggle, history>>

None    == "none"
Nothing == "nothing"   \* the empty set of permissions
Idle    == [at |-> "rest", user |-> None, role |-> None, status |-> None,
            overtaken |-> FALSE, late |-> FALSE]
Away    == [at |-> "rest", pod |-> None, perms |-> None, open |-> FALSE]

Seated == {u \in Staff : member[u].status # "none"}

\* membershipRepo.resolvePermissions: those of the role of an active membership.
Perms(u) == IF member[u].status = "active" THEN member[u].role ELSE Nothing

Does(c, place) == work[c].at = place
Done(c)        == work' = [work EXCEPT ![c] = Idle]

\* A user takes a seat: an invitation that has counted the seats is overtaken.
Overtaken(c) ==
  [x \in DOMAIN work |-> IF x # c /\ work[x].at \in {"find", "create"}
                         THEN [work[x] EXCEPT !.overtaken = TRUE] ELSE work[x]]

\* permissionCache.invalidate: DEL, whose failure is swallowed.
Invalidated(u) ==
  \/ /\ cache' = [cache EXCEPT ![u] = None]
     /\ history' = [history EXCEPT !.stale = @ \ {u}]
  \/ /\ history.lost < MaxLost
     /\ history' = [history EXCEPT !.lost = @ + 1, !.stale = @ \cup {u}]
     /\ UNCHANGED cache

-----------------------------------------------------------------------------
(* Invitations *)

Register(u) ==
  /\ u \notin account
  /\ account' = account \cup {u}
  /\ UNCHANGED <<member, invites, section, cache, podCache, work, request, toggle, history>>

Begun == /\ history.changes < MaxChanges
         /\ history' = [history EXCEPT !.changes = @ + 1]

\* Mutant: memberships that wait for their user take no seat.
InviteCountActive(a) ==
  /\ Does(a, "rest") /\ Cardinality({u \in Staff : member[u].status = "active"}) < Seats
  /\ \E u \in Staff, r \in Roles :
       work' = [work EXCEPT ![a] = [Idle EXCEPT !.at = "find", !.user = u, !.role = r,
                                                !.late = member[u].status = "suspended"]]
  /\ Begun
  /\ UNCHANGED <<account, member, invites, section, cache, podCache, request, toggle>>

\* assertSeatQuota: whoever has a membership, of any status, takes a seat.
InviteCount(a) ==
  /\ Does(a, "rest") /\ Cardinality(Seated) < Seats
  /\ \E u \in Staff, r \in Roles :
       work' = [work EXCEPT ![a] = [Idle EXCEPT !.at = "find", !.user = u, !.role = r,
                                                !.late = member[u].status = "suspended"]]
  /\ Begun
  /\ UNCHANGED <<account, member, invites, section, cache, podCache, request, toggle>>

\* Mutant: only an active member is refused.
InviteFindActive(a) ==
  /\ Does(a, "find")
  /\ LET u == work[a].user
     IN CASE u \notin account \/ member[u].status \in {"invited", "suspended"} ->
               work' = [work EXCEPT ![a].at = "sign"]
          [] u \in account /\ member[u].status = "none" ->
               work' = [work EXCEPT ![a].at = "create"]
          [] OTHER -> Done(a)
  /\ UNCHANGED <<account, member, invites, section, cache, podCache, request, toggle, history>>

\* The invitee, if there is an account, must not be or have been a member: 409.
InviteFind(a) ==
  /\ Does(a, "find")
  /\ LET u == work[a].user
     IN CASE u \notin account \/ member[u].status = "invited" ->
               work' = [work EXCEPT ![a].at = "sign"]
          [] u \in account /\ member[u].status = "none" ->
               work' = [work EXCEPT ![a].at = "create"]
          [] OTHER -> Done(a)
  /\ UNCHANGED <<account, member, invites, section, cache, podCache, request, toggle, history>>

\* The membership waits for its user; the unique index refuses a second one.
InviteCreate(a) ==
  /\ Does(a, "create")
  /\ LET u == work[a].user
     IN IF member[u].status = "none"
        THEN /\ member' = [member EXCEPT ![u] = [status |-> "invited", role |-> work[a].role]]
             /\ work' = [Overtaken(a) EXCEPT ![a].at = "sign"]
             /\ history' = [history EXCEPT
                  !.unmetered = IF work[a].overtaken THEN @ \cup {u} ELSE @]
        ELSE Done(a) /\ UNCHANGED <<member, history>>
  /\ UNCHANGED <<account, invites, section, cache, podCache, request, toggle>>

\* The token carries the role of this invitation, and is mailed; or the mail
\* fails, and the request with it.
InviteSign(a) ==
  /\ Does(a, "sign")
  /\ invites' \in {invites, invites \cup {[user |-> work[a].user, role |-> work[a].role,
                                           late |-> work[a].late]}}
  /\ Done(a)
  /\ UNCHANGED <<account, member, section, cache, podCache, request, toggle, history>>

\* accept: the token fits the signed-in user, who is not an active member.  It is
\* not used up.
AcceptRead(u) ==
  /\ Does(u, "rest") /\ u \in account /\ member[u].status # "active"
  /\ \E i \in invites :
       /\ i.user = u
       /\ work' = [work EXCEPT ![u] = [Idle EXCEPT
            !.at = IF member[u].status = "none" THEN "join" ELSE "activate",
            !.user = u, !.role = i.role, !.late = i.late]]
  /\ UNCHANGED <<account, member, invites, section, cache, podCache, request, toggle, history>>

\* findByIdAndUpdate, of a membership found invited or suspended.
AcceptActivate(u) ==
  /\ Does(u, "activate")
  /\ member' = [member EXCEPT ![u] = [status |-> "active", role |-> work[u].role]]
  /\ work' = [work EXCEPT ![u].at = "flush"]
  /\ UNCHANGED <<account, invites, section, cache, podCache, request, toggle, history>>

\* No membership was found: one is made, for which nobody counts the seats.
AcceptJoin(u) ==
  /\ Does(u, "join")
  /\ IF member[u].status = "none"
     THEN /\ member' = [member EXCEPT ![u] = [status |-> "active", role |-> work[u].role]]
          /\ work' = [Overtaken(u) EXCEPT ![u].at = "flush"]
          /\ history' = [history EXCEPT !.unmetered = @ \cup {u}]
     ELSE Done(u) /\ UNCHANGED <<member, history>>
  /\ UNCHANGED <<account, invites, section, cache, podCache, request, toggle>>

InviteExpire ==
  /\ \E i \in invites : invites' = invites \ {i}
  /\ UNCHANGED <<account, member, section, cache, podCache, work, request, toggle, history>>

-----------------------------------------------------------------------------
(* Roles and suspension *)

\* updateMember: the membership is found, whatever its status.
UpdateRead(a) ==
  /\ Does(a, "rest")
  /\ \E u \in Seated, r \in Roles \cup {None}, s \in {None, "active", "suspended"} :
       /\ r # None \/ s # None
       /\ work' = [work EXCEPT ![a] = [Idle EXCEPT !.at = "update", !.user = u, !.role = r,
                                                   !.status = s]]
  /\ Begun
  /\ UNCHANGED <<account, member, invites, section, cache, podCache, request, toggle>>

Patched(m, w) == [status |-> IF w.status = None THEN m.status ELSE w.status,
                  role   |-> IF w.role = None THEN m.role ELSE w.role]


UpdateWrite(a) ==
  /\ Does(a, "update")
  /\ member' = [member EXCEPT ![work[a].user] = Patched(@, work[a])]
  /\ work' = [work EXCEPT ![a].at = "flush"]
  /\ UNCHANGED <<account, invites, section, cache, podCache, request, toggle, history>>

\* The cached permissions are deleted: the last step of an update or acceptance.
Flush(c) ==
  /\ Does(c, "flush")
  /\ Invalidated(work[c].user)
  /\ Done(c)
  /\ UNCHANGED <<account, member, invites, section, podCache, request, toggle>>

\* The operator's setCompanyModules, on one process ...
ToggleWrite(p) ==
  /\ toggle = None
  /\ section' = ~section
  /\ toggle' = p
  /\ Begun
  /\ UNCHANGED <<account, member, invites, cache, podCache, work, request>>

\* ... which forgets what it believed; the others do not.
ToggleFlush ==
  /\ toggle # None
  /\ podCache' = [podCache EXCEPT ![toggle] = None]
  /\ toggle' = None
  /\ UNCHANGED <<account, member, invites, section, cache, work, request, history>>

-----------------------------------------------------------------------------
(* A request *)

Passing(u, place) == request[u].at = place
Go(u, place) == request' = [request EXCEPT ![u].at = place]
Refused(u)   == request' = [request EXCEPT ![u] = Away]

\* tenantResolve: the membership is read anew for every request.
Resolve(u, p) ==
  /\ Passing(u, "rest") /\ member[u].status = "active"
  /\ request' = [request EXCEPT ![u] = [Away EXCEPT !.at = "section", !.pod = p]]
  /\ UNCHANGED <<account, member, invites, section, cache, podCache, work, toggle, history>>

\* requireModule, where the process has an answer ...
SectionHit(u) ==
  /\ Passing(u, "section") /\ podCache[request[u].pod] # None
  /\ IF podCache[request[u].pod] = "on" THEN Go(u, "authorize") ELSE Refused(u)
  /\ UNCHANGED <<account, member, invites, section, cache, podCache, work, toggle, history>>

\* ... or reads the company ...
SectionRead(u) ==
  /\ Passing(u, "section") /\ podCache[request[u].pod] = None
  /\ request' = [request EXCEPT ![u].at = "remember", ![u].open = section]
  /\ UNCHANGED <<account, member, invites, section, cache, podCache, work, toggle, history>>

\* ... and remembers what it read, whatever was invalidated meanwhile.
SectionFill(u) ==
  /\ Passing(u, "remember")
  /\ podCache' = [podCache EXCEPT ![request[u].pod] = IF request[u].open THEN "on" ELSE "off"]
  /\ IF request[u].open THEN Go(u, "authorize") ELSE Refused(u)
  /\ UNCHANGED <<account, member, invites, section, cache, work, toggle, history>>

\* authorize: permissionCache.get, where Redis has the key ...
PermsHit(u) ==
  /\ Passing(u, "authorize") /\ cache[u] # None
  /\ request' = [request EXCEPT ![u].at = "served", ![u].perms = cache[u]]
  /\ UNCHANGED <<account, member, invites, section, cache, podCache, work, toggle, history>>

\* ... or does not: the membership and its role are read ...
PermsRead(u) ==
  /\ Passing(u, "authorize") /\ cache[u] = None
  /\ request' = [request EXCEPT ![u].at = "fill", ![u].perms = Perms(u)]
  /\ UNCHANGED <<account, member, invites, section, cache, podCache, work, toggle, history>>

\* ... and put into Redis, unless that fails.
PermsFill(u) ==
  /\ Passing(u, "fill")
  /\ \/ /\ cache' = [cache EXCEPT ![u] = request[u].perms]
        /\ history' = [history EXCEPT !.stale = IF request[u].perms # Perms(u)
                                                THEN @ \cup {u} ELSE @ \ {u}]
     \/ /\ history.lost < MaxLost
        /\ history' = [history EXCEPT !.lost = @ + 1]
        /\ UNCHANGED cache
  /\ Go(u, "served")
  /\ UNCHANGED <<account, member, invites, section, podCache, work, toggle>>

\* The handler runs, or the permission was not among them.
HandleRequest(u) ==
  /\ Passing(u, "served")
  /\ Refused(u)
  /\ UNCHANGED <<account, member, invites, section, cache, podCache, work, toggle, history>>

\* Mutant: SET instead of SETEX.
PermsExpireNever(u) ==
  /\ cache[u] # None
  /\ UNCHANGED accessVars

\* A minute after it was put there the key is gone.
PermsExpire(u) ==
  /\ cache[u] # None
  /\ cache' = [cache EXCEPT ![u] = None]
  /\ history' = [history EXCEPT !.stale = @ \ {u}]
  /\ UNCHANGED <<account, member, invites, section, podCache, work, request, toggle>>

\* After ten seconds a process asks again.
SectionExpire(p) ==
  /\ podCache[p] # None
  /\ podCache' = [podCache EXCEPT ![p] = None]
  /\ UNCHANGED <<account, member, invites, section, cache, work, request, toggle, history>>

-----------------------------------------------------------------------------

AccessInit ==
  /\ account = Joined
  /\ \E r \in Roles :
       /\ member = [u \in Staff |-> IF u \in Joined THEN [status |-> "active", role |-> r]
                                   ELSE [status |-> "none", role |-> None]]
       /\ invites = [user : Joined, role : {r}, late : {FALSE}]
  /\ section = TRUE
  /\ cache = [u \in Staff |-> None]
  /\ podCache = [p \in Pods |-> None]
  /\ work = [c \in Admins \cup Staff |-> Idle]
  /\ request = [u \in Staff |-> Away]
  /\ toggle = None
  /\ history = [changes |-> 0, lost |-> 0, stale |-> {}, unmetered |-> {}]

Invite(a) == InviteCount(a) \/ InviteFind(a) \/ InviteCreate(a) \/ InviteSign(a)
Accept(u) == AcceptRead(u) \/ AcceptActivate(u) \/ AcceptJoin(u)
Request(u) == SectionHit(u) \/ SectionRead(u) \/ SectionFill(u) \/ PermsHit(u)
                \/ PermsRead(u) \/ PermsFill(u) \/ HandleRequest(u)

AccessNext ==
  \/ \E a \in Admins : Invite(a) \/ UpdateRead(a) \/ UpdateWrite(a)
  \/ \E c \in Admins \cup Staff : Flush(c)
  \/ \E u \in Staff : Register(u) \/ Accept(u)
  \/ \E u \in Askers : Request(u) \/ PermsExpire(u) \/ \E p \in Pods : Resolve(u, p)
  \/ \E p \in Pods : ToggleWrite(p) \/ SectionExpire(p)
  \/ ToggleFlush \/ InviteExpire

AccessSpec == AccessInit /\ [][AccessNext]_accessVars

\* A process that took a request up goes on with it, and time passes.
Fairness ==
  /\ \A a \in Admins : WF_accessVars(InviteFind(a) \/ InviteCreate(a) \/ InviteSign(a) \/ UpdateWrite(a))
  /\ \A c \in Admins \cup Staff : WF_accessVars(Flush(c))
  /\ \A u \in Askers : WF_accessVars(Request(u)) /\ WF_accessVars(PermsExpire(u))
  /\ \A p \in Pods : WF_accessVars(SectionExpire(p))
  /\ WF_accessVars(ToggleFlush)

FairSpec == AccessSpec /\ Fairness

-----------------------------------------------------------------------------
(* Properties *)

\* Permissions that are not the member's own are found in the cache only while the
\* request that changed them has not yet deleted the key, or if Redis failed it,
\* or if a request that had read the old ones put them there.
StaleHasCause ==
  \A u \in Staff :
    cache[u] \notin {None, Perms(u)} /\ u \notin history.stale =>
      \E c \in Admins \cup Staff : Does(c, "flush") /\ work[c].user = u

\* Whatever overtook whatever: once nothing is changed any more, both caches come
\* to say what the database says, and go on saying it.
ChangesTakeEffect ==
  <>[](/\ \A u \in Staff : cache[u] \in {None, Perms(u)}
       /\ \A p \in Pods : podCache[p] \in {None, IF section THEN "on" ELSE "off"})

\* A suspended member comes back by an administrator's decision, or by accepting
\* an invitation begun before the suspension: none begun after it is any use.
SuspensionHolds ==
  [][\A u \in Staff :
       member[u].status = "suspended" /\ member'[u].status = "active" =>
         \/ \E a \in Admins : Does(a, "update") /\ work[a].user = u /\ work'[a].at # "update"
         \/ Does(u, "activate") /\ ~work[u].late]_accessVars

\* No more members than the plan has seats for, but those who were invited before
\* they had an account, and those whose invitations counted the seats at once.
SeatsAreCounted == Cardinality(Seated \ history.unmetered) <= Seats

\* Who is a member, and what members may do, is what administrators decided, whichever
\* requests overtook each other.
MembershipHolds == StaleHasCause /\ SeatsAreCounted
=============================================================================
