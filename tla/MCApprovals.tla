---------------------------- MODULE MCApprovals ----------------------------
(* Instances for TLC of Approvals, and of Screens, the pages from which      *)
(* members approve and do everything else.  They share nothing, nor do the   *)
(* two halves of Approvals, so one behaviour runs one of the three.  Of the  *)
(* two roles that differ in billing and companies alone one is in most       *)
(* pages only reached by a change of role.                                   *)
EXTENDS Approvals, Screens

CONSTANTS r1, r2

VARIABLE which

AnyRequest == Permutations({r1, r2})

\* The part that rests has one initial state.
MembersInit ==
  /\ which \in {"decisions", "papers", "page"}
  /\ Init /\ ScreensInit
  /\ role # "company_admin" \/ page \in {"billing", "team", "dashboard"}
  /\ which # "page" =>
       page = "billing" /\ role = "owner" /\ loads = {} /\ \A k \in DOMAIN db : db[k].status = Usual[k]

MembersNext ==
  /\ UNCHANGED which
  /\ \/ which = "decisions" /\ DecisionsNext /\ UNCHANGED screenVars
     \/ which = "papers" /\ PapersNext /\ UNCHANGED screenVars
     \/ which = "page" /\ ScreensNext /\ UNCHANGED vars

membersVars == <<vars, screenVars, which>>

MembersSpec == MembersInit /\ [][MembersNext]_membersVars
=============================================================================
