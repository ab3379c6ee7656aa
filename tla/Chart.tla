-------------------------------- MODULE Chart --------------------------------
(***************************************************************************)
(* The tree of the chart of accounts (services/accountService.ts): every   *)
(* account keeps its parent and, for cheap subtree reads, the path of      *)
(* codes from the root down to itself.  Only the writes of a move are a    *)
(* transaction; what they are computed from is read before it, each read a *)
(* step of its own.  Depth is not kept: it changes wherever the path does, *)
(* and by as much.  Names, rates and activity do not touch the tree.       *)
(***************************************************************************)
EXTENDS Naturals, Sequences, FiniteSets
LOCAL INSTANCE SequencesExt

CONSTANTS
  Codes,     \* codes of accounts
  Template,  \* the seeded rows <<code, parent>>, parents first
  Clients,   \* requests that may run at once
  Root,      \* the parent of an account that has none
  MaxStarts  \* bound: requests begun

VARIABLES
  account, \* by code, which is unique: its state, parent and path
  work,    \* what each request is doing, and what it has read
  starts   \* requests begun

vars == <<account, work, starts>>

System  == {Template[n][1] : n \in DOMAIN Template}
Live    == {k \in Codes : account[k].state = "live"}
Absent  == [state |-> "absent", parent |-> Root, path |-> <<>>]
Resting == [at |-> "rest", code |-> Root, parent |-> Root, old |-> <<>>, path |-> <<>>,
            below |-> <<>>, row |-> 1]

\* The path under parent p, as it is now.
PathAt(p, k) == IF p = Root THEN <<k>> ELSE account[p].path \o <<k>>
Below(path)  == {k \in Live : IsStrictPrefix(path, account[k].path)}

At(c, place) == work[c].at = place
Done(c)      == work' = [work EXCEPT ![c] = Resting]

Begin(c, request) ==
  /\ At(c, "rest") /\ starts < MaxStarts
  /\ starts' = starts + 1
  /\ work' = [work EXCEPT ![c] = request]
  /\ UNCHANGED account

-----------------------------------------------------------------------------

\* create: the parent is read, and must not be deleted ...
CreateRead(c) ==
  \E k \in Codes \ System, p \in Live \cup {Root} :
    Begin(c, [Resting EXCEPT !.at = "insert", !.code = k, !.parent = p, !.path = PathAt(p, k)])

\* ... and the account inserted, unless its code was ever used.
CreateInsert(c) ==
  /\ At(c, "insert")
  /\ LET w == work[c]
     IN account' = IF account[w.code] # Absent THEN account
                   ELSE [account EXCEPT ![w.code] =
                           [state |-> "live", parent |-> w.parent, path |-> w.path]]
  /\ Done(c)
  /\ UNCHANGED starts

\* update with a parentId, null for the root: no system account is moved.
MoveRead(c) ==
  \E k \in Live \ System, p \in Codes \cup {Root} :
    Begin(c, [Resting EXCEPT !.at = IF p = Root THEN "subtree" ELSE "parent",
                             !.code = k, !.parent = p, !.old = account[k].path, !.path = <<k>>])

\* reparent: the new parent exists, and is not in the subtree that is moved ...
MoveParent(c) ==
  /\ At(c, "parent")
  /\ LET w == work[c]
     IN work' = [work EXCEPT ![c] =
                   IF w.parent \in Live /\ ~IsPrefix(w.old, account[w.parent].path)
                   THEN [w EXCEPT !.at = "subtree", !.path = PathAt(w.parent, w.code)]
                   ELSE Resting]
  /\ UNCHANGED <<account, starts>>

\* ... whose accounts are read with their paths ...
MoveSubtree(c) ==
  /\ At(c, "subtree")
  /\ work' = [work EXCEPT ![c].at = "commit",
                          ![c].below = [k \in Below(work[c].old) |-> account[k].path]]
  /\ UNCHANGED <<account, starts>>

\* ... and written, with the account, in one transaction: whatever has become of
\* them since, and not what has come since.
MoveCommit(c) ==
  /\ At(c, "commit")
  /\ LET w == work[c]
     IN account' = [k \in Codes |->
          IF k = w.code THEN [account[k] EXCEPT !.parent = w.parent, !.path = w.path]
          ELSE IF k \in DOMAIN w.below
               THEN [account[k] EXCEPT !.path =
                       w.path \o SubSeq(w.below[k], Len(w.old) + 1, Len(w.below[k]))]
               ELSE account[k]]
  /\ Done(c)
  /\ UNCHANGED starts

\* remove: no system account, and none with children that are counted ...
RemoveRead(c) ==
  \E k \in Live \ System :
    /\ ~ \E j \in Live : account[j].parent = k
    /\ Begin(c, [Resting EXCEPT !.at = "delete", !.code = k])

\* ... is deleted softly, wherever it is by then.
RemoveWrite(c) ==
  /\ At(c, "delete")
  /\ account' = [account EXCEPT ![work[c].code].state = "deleted"]
  /\ Done(c)
  /\ UNCHANGED starts

\* seedTemplate: the accounts there are; codes that were ever used are passed over.
SeedRead(c) ==
  Begin(c, [Resting EXCEPT !.at = "seed", !.below = [k \in Live |-> account[k].path]])

\* One row: its parent's path as it was read or made.  A row without one, or that
\* has been inserted meanwhile, ends the request with an error.
SeedRow(c) ==
  /\ At(c, "seed") /\ work[c].row <= Len(Template)
  /\ LET w == work[c]
         k == Template[w.row][1]
         p == Template[w.row][2]
         path == IF p = Root THEN <<k>> ELSE w.below[p] \o <<k>>
     IN IF k \in DOMAIN w.below
        THEN work' = [work EXCEPT ![c].row = @ + 1] /\ UNCHANGED account
        ELSE IF account[k] # Absent THEN Done(c) /\ UNCHANGED account
        ELSE /\ account' = [account EXCEPT ![k] = [state |-> "live", parent |-> p, path |-> path]]
             /\ work' = [work EXCEPT ![c].row = @ + 1,
                                     ![c].below = [j \in DOMAIN w.below \cup {k} |->
                                                     IF j = k THEN path ELSE w.below[j]]]
  /\ UNCHANGED starts

SeedEnd(c) == /\ At(c, "seed") /\ work[c].row > Len(Template)
              /\ Done(c)
              /\ UNCHANGED <<account, starts>>

\* The process dies, or the transaction is not committed: nothing of it is written.
Abandon(c) == ~At(c, "rest") /\ Done(c) /\ UNCHANGED <<account, starts>>

Init ==
  /\ account = [k \in Codes |-> Absent]
  /\ work = [c \in Clients |-> Resting]
  /\ starts = 0

Next ==
  \E c \in Clients :
    \/ CreateRead(c) \/ CreateInsert(c)
    \/ MoveRead(c) \/ MoveParent(c) \/ MoveSubtree(c) \/ MoveCommit(c)
    \/ RemoveRead(c) \/ RemoveWrite(c)
    \/ SeedRead(c) \/ SeedRow(c) \/ SeedEnd(c)
    \/ Abandon(c)

Spec == Init /\ [][Next]_vars

-----------------------------------------------------------------------------
(* Properties *)

\* "Owns the materialised path ... reparenting rewrites the whole subtree": the path
\* of an account is its parent's, and its own code.
PathsFollowParents ==
  \A k \in Live : account[k].path = PathAt(account[k].parent, k)
=============================================================================
