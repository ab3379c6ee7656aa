------------------------------- MODULE Screens ------------------------------
(***************************************************************************)
(* One page of the web application, on the screen of one member, and the   *)
(* server behind it.  Every list is loaded when the page appears and again *)
(* after an act of the page that succeeds; a load that fails leaves the    *)
(* copy there was.  Meanwhile others work, time passes, and an operator    *)
(* may switch a section off or an owner change the member's role.          *)
(*                                                                         *)
(* MaxPresses bounds the acts of the member, MaxEvents everything else     *)
(* that can happen, MaxLate the lists being answered.                      *)
(***************************************************************************)
EXTENDS Pages, FiniteSets

CONSTANTS Me, Other, NoCopy, Shown, MaxPresses, MaxEvents, MaxLate

ASSUME ScreensAssumption ==
  /\ Shown \subseteq DOMAIN PAGES
  /\ NoCopy \notin [status : UNION {Statuses[k] : k \in DOMAIN Statuses}, ver : Nat]

VARIABLES
  page,      \* the page
  role, off, \* of the member, and the sections that are off
  db,        \* the documents, and how often each has changed
  claimant,  \* who submitted the claim
  copy,      \* what the page holds of each list
  loads,     \* the reads in flight
  failed,    \* the lists whose latest load failed
  sent,      \* the acts in flight
  mine,      \* the changes that the page was told it made
  crossed,   \* the lists of which two reads were in flight at once
  crashed,   \* whether drawing the page threw
  presses, events

screenVars == <<page, role, off, db, claimant, copy, loads, failed, sent, mine, crossed, crashed, presses, events>>

Mine == PAGES[page].lists
Offers == PAGES[page].offers

\* Journal entries, and the documents read one by one, are put on the screen in the
\* order in which the answers come; of any other list only the latest load counts.
Unordered == {"entries", "documents"}

Loading(l) == \E q \in loads : q.of = l

\* The two cards that are not drawn until they know.
Hushed == {"setup", "companies"}

Offered(o) ==
  /\ ~crashed
  /\ \A l \in DOMAIN o.on :
       /\ copy[l] # NoCopy /\ copy[l].status \in o.on[l]
       /\ l \in Hushed => ~Loading(l) /\ l \notin failed

\* The kinds that a page and its acts are about.
Touched(p) ==
  {Lists[l].of : l \in PAGES[p].lists}
    \cup UNION {DOMAIN r.from \cup UNION {DOMAIN did : did \in r.to} :
                r \in {q \in Routes : \E o \in PAGES[p].offers : o.route = q.name}}

Usual ==
  [invoice |-> "issued", bill |-> "draft", expense |-> "submitted", payment |-> "none", bank |-> "active",
   txn |-> "unlikely", entry |-> "posted", account |-> "seeded", party |-> "active", item |-> "none",
   ims |-> "no_action", company |-> "with_gstin", doc |-> "extracted", proposal |-> "proposed",
   member |-> "active", notice |-> "unread", prefs |-> "mail", plan |-> "free", filed |-> "none"]

\* "got" is empty until the server has read, and then holds the answer.
NewLoad(l, no) == [of |-> l, no |-> no, got |-> <<>>]

\* A bound: all kinds are as usual and at most one list is still on its way, or one kind
\* is anywhere in its life and the lists are there.
ScreensInit ==
  /\ page \in Shown /\ role \in DOMAIN Grants /\ off = {}
  /\ claimant \in {Other} \cup {Me : k \in {"expense"} \cap Touched(page)}
  /\ \E late \in {{}} \cup {{l} : l \in Mine} : \E k \in Touched(page) : \E s \in Statuses[k] :
       /\ late # {} => s = Usual[k]
       /\ db = [j \in Touched(page) |-> [status |-> IF j = k THEN s ELSE Usual[j], ver |-> 0]]
       /\ loads = {NewLoad(l, 0) : l \in late}
       /\ failed = {l \in Mine \ late : ~Allows(Lists[l], role, off)}
       /\ copy = [l \in Mine |-> IF l \in late \cup failed THEN NoCopy ELSE db[Lists[l].of]]
  /\ sent = {} /\ mine = [k \in Touched(page) |-> 0]
  /\ crossed = {}
  /\ crashed = (page = "banking" /\ copy.suggestions # NoCopy /\ copy.suggestions.status = "likely")
  /\ presses = 0 /\ events = 0

-----------------------------------------------------------------------------
(* Reading *)

Answers == {q \in loads : q.got # <<>>}

\* Reading a return writes the return.
Read1(q) ==
  LET l == Lists[q.of]  allowed == Allows(l, role, off)
      next == IF allowed /\ l.of = "filed" THEN Becomes(db, [filed |-> "prepared"]) ELSE db IN
  /\ q.got = <<>> /\ Cardinality({r.of : r \in Answers} \ {q.of}) < MaxLate
  /\ db' = next
  /\ loads' = (loads \ {q}) \cup {[q EXCEPT !.got = <<IF allowed THEN next[l.of] ELSE NoCopy>>]}
  /\ UNCHANGED <<page, role, off, claimant, copy, failed, sent, mine, crossed, crashed, presses, events>>

\* A suggestion cannot be drawn: the page looks for candidates that it does not have.
Unreadable(l, got) == l = "suggestions" /\ got.status = "likely"

\* A document read on its own hides the one in the list from then on.
Show(q) ==
  /\ q.got # <<>>
  /\ loads' = {r \in loads \ {q} : ~(q.of = "documents" /\ r.of = q.of /\ q.no > 0 /\ r.no = 0)}
  /\ IF q.got[1] = NoCopy
     THEN failed' = failed \cup {q.of} /\ UNCHANGED <<copy, crashed>>
     ELSE /\ copy' = [copy EXCEPT ![q.of] = q.got[1]]
          /\ failed' = failed \ {q.of}
          /\ crashed' = (crashed \/ Unreadable(q.of, q.got[1]))
  /\ UNCHANGED <<page, role, off, db, claimant, sent, mine, crossed, presses, events>>

LoseLoad(q) ==
  /\ events < MaxEvents
  /\ loads' = loads \ {q} /\ failed' = failed \cup {q.of} /\ events' = events + 1
  /\ UNCHANGED <<page, role, off, db, claimant, copy, sent, mine, crossed, crashed, presses>>

\* The reads that a success starts; an earlier one of the same list is forgotten, where
\* the page keeps their order.
Again(ls) ==
  LET kept == {q \in loads : q.of \notin ls \ Unordered}
      no(l) == 1 + Cardinality({q \in kept : q.of = l}) IN
  kept \cup {NewLoad(l, no(l)) : l \in ls}

-----------------------------------------------------------------------------
(* Acting *)

Press(o) ==
  /\ presses < MaxPresses /\ Offered(o)
  /\ presses' = presses + 1
  /\ sent' = sent \cup {[offer |-> o, no |-> presses, at |-> "sent", made |-> <<>>]}
  /\ UNCHANGED <<page, role, off, db, claimant, copy, loads, failed, mine, crossed, crashed, events>>

Claims(r, who) == claimant' = IF r.name = "expense.create" THEN who ELSE claimant

Changed == {k \in DOMAIN db : db'[k] # db[k]}

Handle(a) ==
  /\ a.at = "sent"
  /\ \E r \in {q \in Routes : q.name = a.offer.route} :
       IF Allows(r, role, off) /\ Accepts(r, db, claimant, Me, a.offer.sends)
       THEN /\ db' \in Effects(r, db)
            /\ Claims(r, Me)
            /\ sent' = (sent \ {a}) \cup
                 {[a EXCEPT !.at = "done", !.made = [k \in Changed |-> db'[k].ver]]}
       ELSE /\ ~\E other \in Routes : /\ other.name = r.name /\ Allows(other, role, off)
                                      /\ Accepts(other, db, claimant, Me, a.offer.sends)
            /\ sent' = (sent \ {a}) \cup {[a EXCEPT !.at = "refused"]}
            /\ UNCHANGED <<db, claimant>>
  /\ UNCHANGED <<page, role, off, copy, loads, failed, mine, crossed, crashed, presses, events>>

Return(a) ==
  /\ a.at # "sent"
  /\ sent' = sent \ {a}
  /\ LET ls == IF a.at = "done" THEN a.offer.reloads ELSE {} IN
     /\ mine' = [k \in DOMAIN mine |->
                   IF k \in DOMAIN a.made /\ a.made[k] > mine[k] THEN a.made[k] ELSE mine[k]]
     /\ loads' = Again(ls)
     /\ failed' = failed \ ls
     /\ crossed' = crossed \cup {l \in ls \cap Unordered : Loading(l)}
  /\ UNCHANGED <<page, role, off, db, claimant, copy, crashed, presses, events>>

LoseAct(a) ==
  /\ events < MaxEvents
  /\ sent' = sent \ {a} /\ events' = events + 1
  /\ UNCHANGED <<page, role, off, db, claimant, copy, loads, failed, mine, crossed, crashed, presses>>

-----------------------------------------------------------------------------
(* The rest of the world *)

\* What a section owns.
Owner == [invoice |-> "sales", bill |-> "purchases", expense |-> "purchases", payment |-> "money",
          bank |-> "money", txn |-> "money", ims |-> "compliance", doc |-> "documents", proposal |-> "ai",
          party |-> "parties", item |-> "parties", filed |-> "compliance"]

\* What other members do to these documents.
Others ==
  /\ \E r \in Routes :
       /\ DOMAIN r.from \subseteq DOMAIN db /\ Accepts(r, db, claimant, Other, r.needs)
       /\ db' \in Effects(r, db) /\ db' # db
       /\ Claims(r, Other)
  /\ UNCHANGED <<role, off>>

\* The nightly marking, the day of an e-invoice, the hours of a proposal, and a document
\* that is read at last.
Elapse ==
  /\ \E c \in {<<"invoice", "issued", "late">>, <<"invoice", "issued", "aged">>, <<"invoice", "late", "overdue">>,
               <<"invoice", "aged", "overdue">>, <<"proposal", "proposed", "lapsed">>,
               <<"doc", "uploaded", "extracted">>, <<"doc", "uploaded", "failed">>} :
       /\ c[1] \in DOMAIN db /\ db[c[1]].status = c[2]
       /\ db' = Becomes(db, [k \in {c[1]} |-> c[3]])
  /\ UNCHANGED <<role, off, claimant>>

\* The sections that the page depends upon.
Gates ==
  (UNION {Lists[l].in : l \in Mine})
    \cup (UNION {r.in : r \in {q \in Routes : \E o \in Offers : o.route = q.name}})

Switch ==
  /\ \/ role' \in DOMAIN Grants \ {role} /\ UNCHANGED off
     \/ off' \in {{s} : s \in Gates \cup {Owner[k] : k \in DOMAIN Owner \cap DOMAIN db}} /\ UNCHANGED role
  /\ UNCHANGED <<db, claimant>>

Meanwhile ==
  /\ events < MaxEvents /\ events' = events + 1
  /\ Others \/ Elapse \/ Switch
  /\ UNCHANGED <<page, copy, loads, failed, sent, mine, crossed, crashed, presses>>

ScreensNext ==
  \/ \E q \in loads : Read1(q) \/ Show(q) \/ LoseLoad(q)
  \/ \E o \in Offers : Press(o)
  \/ \E a \in sent : Handle(a) \/ Return(a) \/ LoseAct(a)
  \/ Meanwhile

ScreensSpec == ScreensInit /\ [][ScreensNext]_screenVars

-----------------------------------------------------------------------------
(* Properties *)

\* Nothing is on its way, and the page shows what there is.
Fresh ==
  /\ loads = {} /\ sent = {} /\ failed = {} /\ ~crashed
  /\ \A l \in Mine : copy[l] = db[Lists[l].of]

CouldCall(o, gone) == \E r \in Routes : r.name = o.route /\ Allows(r, role, gone)

WouldAccept(o) ==
  \E r \in Routes : r.name = o.route /\ Allows(r, role, off) /\ Accepts(r, db, claimant, Me, o.sends)

\* The refusals that the pages do not foresee: an invoice is cancelled only while it is
\* issued, and within a day of its e-invoice; a claim is decided by another; a record is
\* pending once; a bill needs what was not read; a proposal lapses; the records of the
\* portal are those of a number.  Without a chart nothing is posted, as a card says.
KnownRefusals ==
  {<<"invoice.cancel", "invoice", {"draft", "aged"}>>, <<"expense.approve", "expense", {"submitted"}>>,
   <<"expense.reject", "expense", {"submitted"}>>, <<"ims.pending", "ims", {"held", "accept_held", "reject_held"}>>,
   <<"doc.bill", "doc", {"unread"}>>, <<"proposal.confirm", "proposal", {"lapsed"}>>,
   <<"ims.sync", "company", {"without_gstin"}>>}

Foreseen(o) ==
  /\ db.account.status = "seeded"
  /\ ~\E c \in KnownRefusals :
       /\ c[1] = o.route /\ db[c[2]].status \in c[3]
       /\ o.route \in OthersOnly => claimant = Me

\* What the server would do again, or do to more documents than the page offers.
Narrower == {"invoice.send", "notice.read", "account.seed", "company.update"}

\* A page that shows what there is offers a member what the server would accept from
\* that member, and nothing else, save the refusals above; whoever may send a form may
\* read the lists that it is filled from, save an employee the accounts of a claim; and
\* the first page counts every document that waits for an approval.  A section that is
\* off takes from the navigation pages that cannot show a list without it, and none that
\* stays is left with no list to show.  Sections are as they are now: the navigation has
\* those loaded at sign-in, which catch up at the next.  The pages are the fourteen of
\* Pages: exports, the copilot and the dialog of an invoice are not among them.
ButtonsMatchServer ==
  Fresh =>
    /\ \A o \in {q \in Offers : CouldCall(q, off)} :
         /\ Offered(o) /\ Foreseen(o) => WouldAccept(o)
         /\ WouldAccept(o) /\ o.route \notin Narrower => Offered(o)
    /\ \A o \in {q \in Offers : CouldCall(q, {})} : \A l \in DOMAIN o.on :
         Allows(Lists[l], role, {}) \/ (role = "employee" /\ o.route = "expense.create")
    /\ page = "dashboard" =>
         \A l \in {"bills", "expenses"} : LET k == Lists[l].of IN
           (\E r \in Routes : /\ r.name \in {"bill.approve", "expense.approve"}
                              /\ k \in DOMAIN r.from /\ db[k].status \in r.from[k])
             => copy[l].status \in Attention[l]
    /\ IF page \in hiddenNavFor(off) THEN \E l \in Mine : Lists[l].in \cap off # {}
                                     ELSE \E l \in Mine \ {"setup"} : Lists[l].in \cap off = {}

\* Once nothing is in flight, what the page was told it did is on the screen, in every
\* list whose latest load succeeded and whose answers did not cross.  The chart is held
\* twice, and only one of the two is loaded again.
ScreenIsTrue ==
  \A l \in Mine \ ({"setup", "accounts"} \cup failed \cup crossed) :
    ~crashed /\ sent = {} /\ ~Loading(l) /\ copy[l] # NoCopy => copy[l].ver >= mine[Lists[l].of]

\* Who may change what although its section is off: a payment settles an invoice, and a
\* proposal is carried out.
Crossing == {<<"payments", "invoice">>, <<"copilot", "invoice">>, <<"copilot", "ims">>}

ReadersChange(r) ==
  IF r = "auditor" THEN {"filed", "notice", "prefs"} ELSE {"expense", "doc", "notice", "prefs"}

\* By what the member does, an auditor changes nothing but notices and the returns that
\* are prepared by being read; an employee only submits claims and papers; nobody
\* decides a claim of their own; and nothing changes in a section that is off, save by
\* the acts above.
ChangesAreAllowed ==
  [][events' = events =>
       /\ role \in {"auditor", "employee"} => Changed \subseteq ReadersChange(role)
       /\ "expense" \in Changed =>
            \/ db'.expense.status = "submitted" /\ role # "auditor"
            \/ claimant # Me /\ role # "employee"
       /\ \A k \in Changed \cap DOMAIN Owner : Owner[k] \in off => <<page, k>> \in Crossing]_screenVars
=============================================================================
