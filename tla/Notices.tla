------------------------------ MODULE Notices -------------------------------
(***************************************************************************)
(* The reminders of overdue invoices and of returns that are due: runs of  *)
(* two jobs, which may overlap, be repeated or die, tell the owner of each  *)
(* company by the channels that the owner's preferences leave on, while    *)
(* invoices are paid, days pass, and the preferences are changed by        *)
(* requests that read, merge and write them.                               *)
(*                                                                         *)
(* Dates are the days of one month on which something may run; Switches    *)
(* the preferences that are changed; MaxRuns, MaxMishaps and MaxOthers     *)
(* (payments and changes of preferences) bound what happens.               *)
(***************************************************************************)
EXTENDS Naturals, Sequences, FiniteSets

CONSTANTS Owned, Numbered, Debts, CompanyOf, Dates, Runs, Toggles, Switches,
          MaxRuns, MaxOthers, MaxMishaps

ASSUME RemindersAssumption ==
  /\ Numbered \subseteq Owned /\ CompanyOf \in [Debts -> Owned]
  /\ Dates \in Seq(1..31) /\ Len(Dates) > 0
  /\ \A i, j \in DOMAIN Dates : Dates[i] = Dates[j] => i = j
  /\ Switches \subseteq {"overdue", "gstr1", "gstr3b", "inApp", "email", "whatsapp"}

VARIABLES
  paid,     \* the invoices that are not overdue any more
  today,    \* an index of Dates
  prefs,    \* of the owner, for each company
  entered,  \* the notifications stored: the company, and the key that is unique in it
  reminder, \* what each run is doing
  patch,    \* and each change of the preferences
  told,     \* what was sent, by which channel
  again,    \* and sent a second time
  wished,   \* the preferences as the changes that were answered asked for
  mishap,   \* what was stored or sent in a way that excuses something
  done      \* counts what the bounds bound

noticeVars == <<paid, today, prefs, entered, reminder, patch, told, again, wished, mishap, done>>

Preferred == {"overdue", "gstr1", "gstr3b", "inApp", "email", "whatsapp"}

Defaults == [f \in Preferred |-> f # "whatsapp"]

-----------------------------------------------------------------------------
(* What is told *)

\* Returns are due on the 11th and the 20th.
DueOn(date) == IF date = 8 THEN {"gstr1"} ELSE IF date = 17 THEN {"gstr3b"} ELSE {}

Notice(company, event, of, day) == [company |-> company, event |-> event, of |-> of, day |-> day]

overdueInvoiceReminders(day) ==
  {Notice(CompanyOf[i], "overdue", i, day) : i \in Debts \ paid}

gstDueDateReminders(day) ==
  {Notice(c, kind, kind, day) : c \in Numbered, kind \in DueOn(Dates[day])}

\* Mutant: one reminder of an invoice, ever.
DedupeKeyEver(n) == [of |-> n.of, at |-> 0]

\* An invoice once a day, a return once a month.
dedupeKey(n) == [of |-> n.of, at |-> IF n.event = "overdue" THEN n.day ELSE 0]

-----------------------------------------------------------------------------
(* Runs *)

\* "listed" is what the run found to tell, "left" what it has still to; "now" what it is
\* telling, under the preferences "under"; "spared" what they kept from being stored.
NoRun == [at |-> "rest", listed |-> {}, left |-> {}, now |-> {}, under |-> Defaults, spared |-> {}]

NoticesInit ==
  /\ paid = {} /\ today = 1
  /\ prefs = [c \in Owned |-> Defaults] /\ wished = prefs
  /\ entered = {} /\ told = {} /\ again = {}
  /\ reminder = [r \in Runs |-> NoRun]
  /\ patch = [p \in Toggles |-> [at |-> "rest"]]
  /\ mishap = [unlocked |-> {}, untold |-> {}, crossed |-> {}, landed |-> {}]
  /\ done = [runs |-> 0, patches |-> 0, mishaps |-> 0]

Doing(r, at) == reminder[r].at = at

Telling(r) == CHOOSE n \in reminder[r].now : TRUE

Start(r) ==
  /\ reminder[r].at \in {"rest", "over", "failed"}
  /\ done.runs < MaxRuns /\ done' = [done EXCEPT !.runs = @ + 1]
  /\ \E listed \in {overdueInvoiceReminders(today), gstDueDateReminders(today)} :
       reminder' =
         [reminder EXCEPT ![r] = [NoRun EXCEPT !.at = "next", !.listed = listed, !.left = listed]]
  /\ UNCHANGED <<paid, today, prefs, entered, patch, told, again, wished, mishap>>

\* The next one, and the preferences; a muted event is passed over.
Consider(r) ==
  /\ Doing(r, "next")
  /\ \E n \in reminder[r].left : LET under == prefs[n.company] IN
       reminder' =
         [reminder EXCEPT ![r].left = @ \ {n}, ![r].under = under,
                          ![r].at = IF under[n.event] THEN "store" ELSE "next",
                          ![r].now = IF under[n.event] THEN {n} ELSE {},
                          ![r].spared = IF under[n.event] /\ under.inApp THEN @ ELSE @ \cup {n}]
  /\ UNCHANGED <<paid, today, prefs, entered, patch, told, again, wished, mishap, done>>

\* What is stored already has been told of; without a place to store it nothing tells.
Store(r) ==
  /\ Doing(r, "store")
  /\ LET n == Telling(r)  row == <<n.company, dedupeKey(n)>> IN
     IF ~reminder[r].under.inApp
     THEN /\ reminder' = [reminder EXCEPT ![r].at = "email"]
          /\ mishap' = [mishap EXCEPT !.unlocked = @ \cup {n}]
          /\ UNCHANGED entered
     ELSE IF row \in entered
     THEN /\ reminder' = [reminder EXCEPT ![r].at = "next", ![r].now = {}]
          /\ UNCHANGED <<entered, mishap>>
     ELSE /\ reminder' = [reminder EXCEPT ![r].at = "email"]
          /\ entered' = entered \cup {row}
          /\ mishap' = [mishap EXCEPT !.landed = @ \cup {n}]
  /\ UNCHANGED <<paid, today, prefs, patch, told, again, wished, done>>

Sends(channel, n) ==
  /\ told' = told \cup {<<channel, n>>}
  /\ again' = again \cup ({<<channel, n>>} \cap told)

\* An error of the mail server is logged and forgotten.
SendMail(r) ==
  /\ Doing(r, "email")
  /\ reminder' = [reminder EXCEPT ![r].at = "whatsapp"]
  /\ LET n == Telling(r) IN
     \/ reminder[r].under.email /\ Sends("email", n) /\ UNCHANGED <<mishap, done>>
     \/ /\ reminder[r].under.email => done.mishaps < MaxMishaps
        /\ done' = [done EXCEPT !.mishaps = IF reminder[r].under.email THEN @ + 1 ELSE @]
        /\ mishap' = [mishap EXCEPT !.untold = @ \cup {n}]
        /\ UNCHANGED <<told, again>>
  /\ UNCHANGED <<paid, today, prefs, entered, patch, wished>>

\* There is a template for overdue invoices only.
SendTemplate(r) ==
  /\ Doing(r, "whatsapp")
  /\ reminder' = [reminder EXCEPT ![r].at = "next", ![r].now = {}]
  /\ LET n == Telling(r) IN
     IF reminder[r].under.whatsapp /\ n.event = "overdue"
     THEN Sends("whatsapp", n) ELSE UNCHANGED <<told, again>>
  /\ UNCHANGED <<paid, today, prefs, entered, patch, wished, mishap, done>>

End(r) ==
  /\ Doing(r, "next") /\ reminder[r].left = {}
  /\ reminder' = [reminder EXCEPT ![r].at = "over"]
  /\ UNCHANGED <<paid, today, prefs, entered, patch, told, again, wished, mishap, done>>

\* The process dies, or the database fails: nothing more of the run's list is told, and
\* what was stored and not yet sent never will be.
Abort(r) ==
  /\ reminder[r].at \in {"next", "store", "email", "whatsapp"}
  /\ done.mishaps < MaxMishaps /\ done' = [done EXCEPT !.mishaps = @ + 1]
  /\ reminder' = [reminder EXCEPT ![r].at = "failed", ![r].now = {}]
  /\ mishap' = [mishap EXCEPT !.untold = IF Doing(r, "email") THEN @ \cup reminder[r].now ELSE @]
  /\ UNCHANGED <<paid, today, prefs, entered, patch, told, again, wished>>

-----------------------------------------------------------------------------
(* Preferences *)

\* One switch of the page: the server reads all preferences ...
PatchRead(p) ==
  /\ patch[p].at = "rest" /\ done.patches + Cardinality(paid) < MaxOthers
  /\ done' = [done EXCEPT !.patches = @ + 1]
  /\ \E c \in Owned : \E f \in Switches :
       patch' = [patch EXCEPT ![p] = [at |-> "write", company |-> c, saw |-> prefs[c], field |-> f,
                                      to |-> ~prefs[c][f], overtaken |-> FALSE]]
  /\ UNCHANGED <<paid, today, prefs, entered, reminder, told, again, wished, mishap>>

\* ... and writes all, the one switched.
PatchWrite(p) ==
  /\ patch[p].at = "write"
  /\ LET w == patch[p]  c == w.company IN
     /\ prefs' = [prefs EXCEPT ![c] = [w.saw EXCEPT ![w.field] = w.to]]
     /\ wished' = [wished EXCEPT ![c][w.field] = w.to]
     /\ patch' = [q \in Toggles |->
                    IF q = p THEN [at |-> "rest"]
                    ELSE IF patch[q].at = "write" /\ patch[q].company = c
                    THEN [patch[q] EXCEPT !.overtaken = TRUE] ELSE patch[q]]
     /\ mishap' = [mishap EXCEPT !.crossed = IF w.overtaken THEN @ \cup {c} ELSE @]
  /\ UNCHANGED <<paid, today, entered, reminder, told, again, done>>

-----------------------------------------------------------------------------
(* The rest *)

Paid(i) ==
  /\ i \notin paid /\ done.patches + Cardinality(paid) < MaxOthers
  /\ paid' = paid \cup {i}
  /\ UNCHANGED <<today, prefs, entered, reminder, patch, told, again, wished, mishap, done>>

Tomorrow ==
  /\ today < Len(Dates) /\ today' = today + 1
  /\ UNCHANGED <<paid, prefs, entered, reminder, patch, told, again, wished, mishap, done>>

NoticesNext ==
  \/ \E r \in Runs : \/ Start(r) \/ Consider(r) \/ Store(r) \/ SendMail(r) \/ SendTemplate(r)
                     \/ End(r) \/ Abort(r)
  \/ \E p \in Toggles : PatchRead(p) \/ PatchWrite(p)
  \/ \E i \in Debts : Paid(i)
  \/ Tomorrow

NoticesSpec == NoticesInit /\ [][NoticesNext]_noticeVars

-----------------------------------------------------------------------------
(* Properties *)

\* However runs overlap, and are repeated after one that died: nobody is told twice of
\* one thing on one day, unless there is no notification in the application to tell that
\* he was; what is stored was sent by mail too, or is being sent, unless the mail was
\* lost, cut off or not wanted; a run that ends has told of all it found, but what
\* was not to be stored; and a preference is what was asked for last, unless changes of
\* it overlapped.
ToldOnce ==
  /\ \A s \in again : s[2] \in mishap.unlocked
  /\ \A n \in mishap.landed :
       \/ <<"email", n>> \in told \/ n \in mishap.untold
       \/ \E r \in Runs : Doing(r, "email") /\ n \in reminder[r].now
  /\ \A r \in Runs : Doing(r, "over") =>
       reminder[r].listed \subseteq mishap.landed \cup reminder[r].spared
  /\ \A c \in Owned \ mishap.crossed : prefs[c] = wished[c]
=============================================================================
