------------------------------ MODULE Browser -------------------------------
(***************************************************************************)
(* One browser tab of the web application: who is signed in and which      *)
(* company is open (App.tsx), what requests carry (lib/api.ts), what a     *)
(* page has loaded (useLoad), and the operators' portal that shares the    *)
(* tab with them (AdminPortal.tsx).                                        *)
(*                                                                         *)
(* The token and the company of requests are variables of a module; the    *)
(* user and the company on the screen are state of a component; and every  *)
(* call is answered, or fails, whenever it is.  The cookie and the saved   *)
(* company belong to the browser, so other tabs change them.               *)
(***************************************************************************)
EXTENDS Integers, FiniteSets

CONSTANTS
  Users, Operators,
  Companies,
  Of,          \* the companies of each user
  Questions,   \* what a page may ask: its dependencies
  MaxActs,     \* bound on what the person does
  MaxCalls,    \* bound on calls in flight
  Nobody

ASSUME BrowserAssumption ==
  /\ Operators \subseteq Users /\ Of \in [Users -> SUBSET Companies]
  /\ Questions # {} /\ MaxActs \in Nat /\ MaxCalls \in Nat
  /\ Nobody \notin Users \cup Companies

VARIABLES
  cookie,    \* the browser's: whose session the refresh cookie is
  saved,     \* the browser's: fp-company-id
  token,     \* whose token requests carry
  companyId, \* and which company
  tab,       \* state of App: the view, whether it is loading, the user and the
             \* company shown, and whether the login form waits for an answer
  portal,    \* state of AdminPortal: which, whether it is checking, and whose it is
  page,      \* the page: its effect, its question, its data, whether it waits and
             \* whether its last read failed
  calls,     \* calls in flight
  sent,      \* calls so far
  crossed,   \* (history) sign-ins of two people overlapped, or the portal was left for
             \* the application with somebody signed in to one of them, or being signed
             \* in or out
  acts       \* what the person did so far

browserVars == <<cookie, saved, token, companyId, tab, portal, page, calls, sent, crossed, acts>>

NoData == [as |-> Nobody, company |-> Nobody, question |-> Nobody]
NoPage == [effect |-> 0, question |-> Nobody, data |-> NoData, busy |-> FALSE, failed |-> FALSE]

\* A call, numbered: whose token or cookie and which company it carries, and what it
\* is about: a page's question, or the portal that made it.
Call(kind, as, company, about) ==
  [kind |-> kind, as |-> as, company |-> company, about |-> about, effect |-> sent + 1]

SignIns == {c \in calls : c.kind \in {"refresh", "login", "portalRefresh", "portalLogin"}}

\* What, when it is answered, takes the token of whoever has it by then.
SignOuts == {c \in calls : c.kind \in {"portalLogout", "portalVetted"}}

Acts == acts < MaxActs /\ acts' = acts + 1
Reacts == UNCHANGED acts
InPortal == tab.view = "admin"
Room == Cardinality(calls) < MaxCalls

\* The shell with its page, and not the picker, a login or the portal.
Shows(t) == t.view = "app" /\ ~t.loading /\ t.user # Nobody /\ t.company # Nobody

\* What follows from a new state of App: the page is mounted and loads, or unmounted.
Renders(flying) ==
  IF Shows(tab') /\ ~Shows(tab)
  THEN \E q \in Questions :
         /\ page' = [NoPage EXCEPT !.effect = sent + 1, !.question = q, !.busy = TRUE]
         /\ calls' = flying \cup {Call("load", token', companyId', q)}
         /\ sent' = sent + 1
  ELSE /\ page' = IF Shows(tab') THEN page ELSE NoPage
       /\ calls' = flying
       /\ UNCHANGED sent

\* A call is sent, and nothing is rendered that loads.
Sends(call, flying) == calls' = flying \cup {call} /\ sent' = sent + 1

-----------------------------------------------------------------------------
(* App: its load, login, picker and logout *)

NoPortal == [mount |-> 0, checking |-> FALSE, me |-> Nobody]
FreshTab(view) == [view |-> view, loading |-> TRUE, user |-> Nobody, company |-> Nobody, form |-> "open"]

\* The page is loaded anew: everything in memory is gone, and App asks who it is;
\* so does the portal, if it is what the address says.
Fresh(view) ==
  /\ token' = Nobody /\ companyId' = Nobody
  /\ tab' = FreshTab(view) /\ page' = NoPage
  /\ LET admin == view = "admin"  mount == sent + 2 IN
     /\ portal' = IF admin THEN [mount |-> mount, checking |-> TRUE, me |-> Nobody] ELSE NoPortal
     /\ calls' = {Call("refresh", cookie, Nobody, Nobody)}
         \cup {c \in {[Call("portalRefresh", cookie, Nobody, mount) EXCEPT !.effect = mount]} : admin}
  /\ sent' = sent + 2
  /\ crossed' = FALSE
  /\ UNCHANGED <<cookie, saved>>

Reload == Acts /\ Fresh(tab.view)

\* Mutant: the app is ready as soon as it knows who the user is.
RefreshedReady(c) ==
  /\ c.kind = "refresh" /\ c.as # Nobody
  /\ cookie' = c.as /\ token' = c.as
  /\ tab' = [tab EXCEPT !.user = c.as, !.loading = FALSE]
  /\ Sends(Call("companies", c.as, companyId, Nobody), calls \ {c})
  /\ page' = page
  /\ UNCHANGED <<saved, companyId, portal, crossed>> /\ Reacts

\* The first effect of App, when its refresh is answered: the companies are next.
Refreshed(c) ==
  /\ c.kind = "refresh" /\ c.as # Nobody
  /\ cookie' = c.as /\ token' = c.as
  /\ tab' = [tab EXCEPT !.user = c.as]
  /\ Sends(Call("companies", c.as, companyId, Nobody), calls \ {c})
  /\ page' = page
  /\ UNCHANGED <<saved, companyId, portal, crossed>> /\ Reacts

\* The company of last time, or the only one; none, and the picker shows.
Matching(c) ==
  IF saved \in Of[c.as] THEN {saved}
  ELSE IF Cardinality(Of[c.as]) = 1 THEN Of[c.as] ELSE {}

CompaniesCame(c) ==
  /\ c.kind = "companies"
  /\ IF Matching(c) = {} THEN tab' = [tab EXCEPT !.loading = FALSE] /\ UNCHANGED companyId
     ELSE \E m \in Matching(c) : /\ companyId' = m
                                 /\ tab' = [tab EXCEPT !.loading = FALSE, !.company = m]
  /\ UNCHANGED <<cookie, saved, token, portal, crossed>> /\ Reacts
  /\ Renders(calls \ {c})

\* A failure of either is ignored.
LoadFailed(c) ==
  /\ c.kind \in {"refresh", "companies"}
  /\ tab' = [tab EXCEPT !.loading = FALSE]
  /\ UNCHANGED <<cookie, saved, token, companyId, portal, crossed>> /\ Reacts
  /\ Renders(calls \ {c})

OnAuthPage == tab.view = "app" /\ ~tab.loading /\ tab.user = Nobody

\* AuthPage.submit
Login(u) ==
  /\ OnAuthPage /\ tab.form = "open" /\ Room /\ Acts
  /\ tab' = [tab EXCEPT !.form = "busy"]
  /\ crossed' = (crossed \/ \E c \in SignIns : c.as # u)
  /\ Sends(Call("login", u, companyId, Nobody), calls)
  /\ UNCHANGED <<cookie, saved, token, companyId, portal, page>>

\* Back to the landing page; a form that is opened again does not know of the call.
Back ==
  /\ OnAuthPage /\ tab.form = "busy" /\ Acts
  /\ tab' = [tab EXCEPT !.form = "open"]
  /\ UNCHANGED <<cookie, saved, token, companyId, portal, page, calls, sent, crossed>>

LoggedIn(c) ==
  /\ c.kind = "login"
  /\ cookie' = c.as /\ token' = c.as
  /\ tab' = [tab EXCEPT !.user = c.as, !.form = "open"]
  /\ UNCHANGED <<saved, companyId, portal, crossed>> /\ Reacts
  /\ Renders(calls \ {c})

LoginFailed(c) ==
  /\ c.kind = "login"
  /\ tab' = [tab EXCEPT !.form = "open"] /\ calls' = calls \ {c}
  /\ UNCHANGED <<cookie, saved, token, companyId, portal, page, sent, crossed>> /\ Reacts

\* The picker, whose list is what the token may see.
Pick(m) ==
  /\ tab.view = "app" /\ ~tab.loading /\ tab.user # Nobody /\ tab.company = Nobody
  /\ token # Nobody /\ m \in Of[token] /\ Room /\ Acts
  /\ companyId' = m /\ saved' = m
  /\ tab' = [tab EXCEPT !.company = m]
  /\ UNCHANGED <<cookie, token, portal, crossed>>
  /\ Renders(calls)

Switch ==
  /\ Shows(tab) /\ Acts
  /\ tab' = [tab EXCEPT !.company = Nobody]
  /\ UNCHANGED <<cookie, saved, token, companyId, portal, crossed>>
  /\ Renders(calls)

\* The server is told, and nobody waits for its answer.
Logout ==
  /\ Shows(tab) /\ Room /\ Acts
  /\ saved' = Nobody /\ token' = Nobody /\ companyId' = Nobody
  /\ tab' = [tab EXCEPT !.user = Nobody, !.company = Nobody]
  /\ page' = NoPage
  /\ Sends(Call("logout", token, companyId, Nobody), calls)
  /\ UNCHANGED <<cookie, portal, crossed>>

\* It clears the cookie there is by then.
LogoutDone(c) ==
  /\ c.kind = "logout"
  /\ cookie' \in {cookie, Nobody}
  /\ calls' = calls \ {c}
  /\ UNCHANGED <<saved, token, companyId, tab, portal, page, sent, crossed>> /\ Reacts

-----------------------------------------------------------------------------
(* A page: useLoad *)

\* Another question (a filter, a month), or the same one again: the effect before it is
\* cleaned up, and what was read before stays - but not on another page.
Ask(q) ==
  /\ Shows(tab) /\ Room /\ Acts
  /\ \E kept \in {page.data, NoData} :
       page' = [effect |-> sent + 1, question |-> q, data |-> kept, busy |-> TRUE, failed |-> FALSE]
  /\ Sends(Call("load", token, companyId, q), calls)
  /\ UNCHANGED <<cookie, saved, token, companyId, tab, portal, crossed>>

Loaded(c) ==
  /\ c.kind = "load"
  /\ page' = IF page.effect # c.effect THEN page
             ELSE [page EXCEPT !.busy = FALSE,
                     !.data = [as |-> c.as, company |-> c.company, question |-> c.about]]
  /\ calls' = calls \ {c}
  /\ UNCHANGED <<cookie, saved, token, companyId, tab, portal, sent, crossed>> /\ Reacts

\* The page waits no longer, and what was there before stays beside the error.
NotLoaded(c) ==
  /\ c.kind = "load"
  /\ page' = IF page.effect # c.effect THEN page ELSE [page EXCEPT !.busy = FALSE, !.failed = TRUE]
  /\ calls' = calls \ {c}
  /\ UNCHANGED <<cookie, saved, token, companyId, tab, portal, sent, crossed>> /\ Reacts

-----------------------------------------------------------------------------
(* The portal *)

\* The address changes to #admin, which unmounts what App shows, but not App.
OpenPortal ==
  /\ tab.view = "app" /\ Room /\ Acts
  /\ tab' = [tab EXCEPT !.view = "admin", !.form = "open"] /\ page' = NoPage
  /\ portal' = [mount |-> sent + 1, checking |-> TRUE, me |-> Nobody]
  /\ crossed' = (crossed \/ \E c \in SignIns : c.as # cookie)
  /\ Sends(Call("portalRefresh", cookie, companyId, sent + 1), calls)
  /\ UNCHANGED <<cookie, saved, token, companyId>>

\* Away from it: what App had shown is shown again.
LeavePortal ==
  /\ InPortal /\ Room /\ Acts
  /\ tab' = [tab EXCEPT !.view = "app"] /\ portal' = NoPortal
  /\ crossed' = (crossed \/ token # Nobody \/ tab.user # Nobody \/ SignIns # {} \/ SignOuts # {})
  /\ UNCHANGED <<cookie, saved, token, companyId>>
  /\ Renders(calls)

PortalActs == InPortal /\ Room /\ Acts

\* OperatorLogin.submit
PortalLogin(u) ==
  /\ PortalActs /\ ~portal.checking /\ portal.me = Nobody
  /\ \A c \in calls : ~(c.kind \in {"portalLogin", "portalVetted"} /\ c.about = portal.mount)
  /\ crossed' = (crossed \/ \E c \in SignIns : c.as # u)
  /\ Sends(Call("portalLogin", u, companyId, portal.mount), calls)
  /\ UNCHANGED <<cookie, saved, token, companyId, tab, portal, page>>

\* The token changes hands, and the server is asked whether it is an operator's;
\* the portal's first effect stops here if the portal was closed.
PortalToken(c) ==
  /\ c.kind \in {"portalRefresh", "portalLogin"} /\ c.as # Nobody
  /\ cookie' = c.as
  /\ IF c.kind = "portalRefresh" /\ c.about # portal.mount
     THEN calls' = calls \ {c} /\ UNCHANGED <<token, sent>>
     ELSE /\ token' = c.as
          /\ Sends(Call(IF c.kind = "portalLogin" THEN "portalVetted" ELSE "portalChecked",
                        c.as, companyId, c.about), calls \ {c})
  /\ UNCHANGED <<saved, companyId, tab, portal, page, crossed>> /\ Reacts

\* Who is no operator is told so, and after a login loses the token.
PortalAnswered(c) ==
  /\ c.kind \in {"portalVetted", "portalChecked"}
  /\ portal' = IF c.about # portal.mount THEN portal
               ELSE [portal EXCEPT !.checking = @ /\ c.kind = "portalVetted",
                                   !.me = IF c.as \in Operators THEN c.as ELSE @]
  /\ token' = IF c.kind = "portalVetted" /\ c.as \notin Operators THEN Nobody ELSE token
  /\ calls' = calls \ {c}
  /\ UNCHANGED <<cookie, saved, companyId, tab, page, sent, crossed>> /\ Reacts

PortalFailed(c) ==
  /\ c.kind \in {"portalRefresh", "portalChecked", "portalLogin", "portalVetted", "impersonate"}
  /\ portal' = IF c.about = portal.mount /\ c.kind \in {"portalRefresh", "portalChecked"}
               THEN [portal EXCEPT !.checking = FALSE] ELSE portal
  /\ calls' = calls \ {c}
  /\ UNCHANGED <<cookie, saved, token, companyId, tab, page, sent, crossed>> /\ Reacts

\* signOut, whose answer is waited for, and impersonate.
PortalAsks(kind) ==
  /\ PortalActs /\ portal.me # Nobody
  /\ Sends(Call(kind, token, companyId, portal.mount), calls)
  /\ UNCHANGED <<cookie, saved, token, companyId, tab, portal, page, crossed>>

PortalSignedOut(c) ==
  /\ c.kind = "portalLogout"
  /\ cookie' \in {cookie, Nobody} /\ token' = Nobody
  /\ portal' = IF c.about = portal.mount THEN [portal EXCEPT !.me = Nobody] ELSE portal
  /\ calls' = calls \ {c}
  /\ UNCHANGED <<saved, companyId, tab, page, sent, crossed>> /\ Reacts

\* The customer's token is taken - and lost, because the way into the customer
\* application is to load the page again.
Impersonated(c) ==
  /\ c.kind = "impersonate"
  /\ Fresh("app") /\ Reacts

-----------------------------------------------------------------------------

\* In another tab somebody logs in or out, and picks a company.
OtherTab(u) ==
  /\ Acts
  /\ cookie' = u
  /\ saved' \in IF u = Nobody THEN {Nobody} ELSE {saved} \cup Of[u]
  /\ UNCHANGED <<token, companyId, tab, portal, page, calls, sent, crossed>>

BrowserInit ==
  /\ cookie \in Users \cup {Nobody} /\ saved \in Companies \cup {Nobody}
  /\ token = Nobody /\ companyId = Nobody
  /\ tab = FreshTab("app") /\ portal = NoPortal /\ page = NoPage
  /\ calls = {[kind |-> "refresh", as |-> cookie, company |-> Nobody, about |-> Nobody, effect |-> 1]}
  /\ sent = 1 /\ crossed = FALSE /\ acts = 0

BrowserNext ==
  \/ \E c \in calls :
       \/ Refreshed(c) \/ CompaniesCame(c) \/ LoadFailed(c)
       \/ LoggedIn(c) \/ LoginFailed(c) \/ LogoutDone(c)
       \/ Loaded(c) \/ NotLoaded(c)
       \/ PortalToken(c) \/ PortalAnswered(c) \/ PortalFailed(c)
       \/ PortalSignedOut(c) \/ Impersonated(c)
  \/ \E u \in Users : Login(u) \/ PortalLogin(u)
  \/ \E u \in Users \cup {Nobody} : OtherTab(u)
  \/ \E m \in Companies : Pick(m)
  \/ \E q \in Questions : Ask(q)
  \/ Reload \/ Back \/ Switch \/ Logout
  \/ OpenPortal \/ LeavePortal
  \/ \E kind \in {"portalLogout", "impersonate"} : PortalAsks(kind)

BrowserSpec == BrowserInit /\ [][BrowserNext]_browserVars

-----------------------------------------------------------------------------
(* Property *)

\* What the user on the screen reads in the company on it.
AnswerTo(q) == [as |-> tab.user, company |-> tab.company, question |-> q]

\* The user and the company on the screen are those that requests are made for; whatever
\* a page shows was read by that user, in that company, and a page that neither waits
\* nor has failed shows the answer to what it now asks (a page whose read failed keeps,
\* beside the error, the answer to what it asked before); and the portal shows the
\* operator whose token it uses, if it has one left (a sign-out clicked twice may take
\* the next one's).
\* Unless two people's sign-ins overlapped, or somebody came back from the portal to
\* the application, signed in to either or before the portal's sign-out was answered:
\* then the screen may name one person and requests be another's, or nobody's.
ActsAsShown ==
  ~crossed =>
    /\ Shows(tab) =>
         /\ token = tab.user /\ companyId = tab.company
         /\ page.data # NoData => page.data.as = tab.user /\ page.data.company = tab.company
         /\ page.busy \/ page.failed \/ page.data = AnswerTo(page.question)
    /\ InPortal /\ portal.me # Nobody => token \in {portal.me, Nobody}
=============================================================================
