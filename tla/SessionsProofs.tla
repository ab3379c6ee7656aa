--------------------------- MODULE SessionsProofs ---------------------------
(***************************************************************************)
(* That what was ended stays ended, that a token and a code are used once, *)
(* that no honest browser is taken for a thief, and that guesses are       *)
(* bounded: for any number of tabs and browsers, tokens, resets and codes. *)
(*                                                                         *)
(* A request that is to create a session relies on what it read before its *)
(* awaits; unless an end has overtaken it, that still stands when it does. *)
(* A browser whose tabs ask one after the other holds, in its cookie or in *)
(* an answer on its way, the only live token of its family.                *)
(***************************************************************************)
EXTENDS Sessions, FiniteSetTheorems, TLAPS

Entering == {"password", "passed", "admitted"}
Renewing == {"user", "reuse", "rotate", "successor"}
\* Where a request has to do with the cookie.
CookiePlaces == Entering \cup Renewing \cup {"answer", "leaving"}
Places   == CookiePlaces \cup {"rest", "verifying", "setting", "unlinking", "revoking", "setup",
                               "enabling", "disabling"}
Request  == [at : Places, token : Nat, family : Nat, pw : Nat, code : Codes \cup {NoCode},
             late : BOOLEAN]
Account  == [pw : Nat, failures : Nat, locked : BOOLEAN, disabled : BOOLEAN,
             verified : BOOLEAN, totp : {"on", "off", "setup"}, codes : SUBSET Codes, batch : Nat]
Session  == [family : Nat, pw : Nat, by : Browsers, state : {"live", "revoked", "gone"},
             escaped : BOOLEAN]
History  == [ended : SUBSET Nat, disturbed : SUBSET Browsers, alarms : SUBSET Browsers,
             tried : Nat, raced : SUBSET Codes, events : Nat, uses : [Codes -> Nat]]

SessionsTypeOK ==
  /\ user \in Account /\ sessions \in Seq(Session) /\ jar \in [Browsers -> Nat]
  /\ tab \in [Tabs -> Request] /\ history \in History

-----------------------------------------------------------------------------
(* What was ended *)

\* A session of the family, opened with the password, is no one's that was ended.
Stands(f, pw) ==
  /\ f \notin history.ended
  /\ user.disabled => operator = "revoking"
  /\ pw # user.pw => \E b \in Tabs : tab[b].at \in {"unlinking", "revoking"}

\* A family is named after its first token, and is of one browser.
FamiliesFit ==
  /\ \A t \in Tokens : /\ sessions[t].family \in Tokens
                       /\ sessions[sessions[t].family].by = sessions[t].by
  /\ \A br \in Browsers : jar[br] # NoToken =>
       jar[br] \in Tokens /\ sessions[jar[br]].by = br
  /\ history.ended \subseteq Tokens

TabFits(b) ==
  LET q == tab[b]
  IN /\ q.at \in Renewing =>
          /\ q.token \in Tokens /\ sessions[q.token].by = BrowserOf[b]
          /\ q.family = sessions[q.token].family
     /\ q.at = "reuse" => ~Live(q.token)
     /\ q.at = "answer" /\ q.token # NoToken =>
          q.token \in Tokens /\ sessions[q.token].by = BrowserOf[b]
     /\ q.at = "leaving" => q.token = NoToken /\ q.family \in Tokens
     /\ q.at \in Entering => q.family = 0
     /\ q.at = "password" /\ q.code # NoCode => q.pw # Wrong

\* The session a request is about to create will stand.
Entry(b)   == /\ tab[b].at \in Entering /\ ~tab[b].late
              /\ tab[b].at = "password" => tab[b].pw # Wrong
Succeeds(b) == tab[b].at = "successor" /\ ~tab[b].late /\ ~sessions[tab[b].token].escaped

WillStand(b) ==
  /\ Entry(b) => Stands(0, tab[b].pw)
  /\ Succeeds(b) => Stands(tab[b].family, sessions[tab[b].token].pw)

-----------------------------------------------------------------------------
(* What is used once *)

Works(t) == Live(t) /\ ~sessions[t].escaped

OneWorks ==
  /\ \A t, u \in Tokens :
       Works(t) /\ Works(u) /\ sessions[t].family = sessions[u].family => t = u
  /\ \A b \in Tabs, t \in Tokens : Succeeds(b) /\ Works(t) => sessions[t].family # tab[b].family
  /\ \A b, c \in Tabs : Succeeds(b) /\ Succeeds(c) /\ tab[b].family = tab[c].family => b = c

Offers(b, c) == tab[b].at = "password" /\ tab[b].code = c

CodesFit ==
  /\ \A c \in Codes : c[1] > user.batch =>
       c \notin user.codes /\ history.uses[c] = 0 /\ \A b \in Tabs : ~Offers(b, c)
  /\ \A c \in Codes \ history.raced :
       /\ history.uses[c] <= 1
       /\ history.uses[c] # 0 => c \notin user.codes /\ \A b \in Tabs : ~Offers(b, c)
       /\ \A a, b \in Tabs : Offers(a, c) /\ Offers(b, c) => a = b

\* A browser whose tabs ask one after the other.
Busy(b) == tab[b].at \in CookiePlaces
Honest(br) ==
  br \notin history.disturbed =>
    /\ \A b, c \in Tabs : BrowserOf[b] = br /\ BrowserOf[c] = br /\ Busy(b) /\ Busy(c) => b = c
    /\ \A b \in Tabs : BrowserOf[b] = br /\ tab[b].at \in Renewing => tab[b].token = jar[br]
    /\ \A t \in Tokens : jar[br] # NoToken /\ Live(t)
                           /\ sessions[t].family = sessions[jar[br]].family =>
         \/ t = jar[br]
         \/ \E b \in Tabs : BrowserOf[b] = br /\ tab[b].at = "answer" /\ tab[b].token = t
    /\ \A b \in Tabs, t \in Tokens : BrowserOf[b] = br /\ Live(t) =>
         /\ tab[b].at = "successor" => sessions[t].family # tab[b].family
         /\ tab[b].at = "answer" /\ tab[b].token # NoToken
              /\ sessions[t].family = sessions[tab[b].token].family => t = tab[b].token

-----------------------------------------------------------------------------
(* Guesses *)

OnTheirWay == {b \in Tabs : tab[b].at = "password" /\ tab[b].pw = Wrong}

GuessesFit ==
  /\ ~user.locked =>
       IF user.failures < LockAfter
       THEN history.tried <= user.failures + Cardinality(OnTheirWay)
       ELSE history.tried <= Cardinality(OnTheirWay)
  /\ GuessesAreBounded

IInv ==
  /\ SessionsTypeOK /\ FamiliesFit /\ RevocationHolds /\ OneWorks /\ CodesFit /\ GuessesFit
  /\ AlarmHasCause
  /\ \A b \in Tabs : TabFits(b) /\ WillStand(b)
  /\ \A br \in Browsers : Honest(br)
-----------------------------------------------------------------------------
(* What a step leaves alone *)

\* The sessions are those there were, and none comes back to life.
Fades ==
  /\ sessions' \in Seq(Session) /\ Len(sessions') = Len(sessions)
  /\ \A t \in Tokens :
       /\ sessions'[t].family = sessions[t].family /\ sessions'[t].pw = sessions[t].pw
       /\ sessions'[t].by = sessions[t].by /\ sessions'[t].escaped = sessions[t].escaped
       /\ sessions'[t].state = "live" => sessions[t].state = "live"

\* The tabs but those in M go on waiting; those to create a session of one of the
\* families fs are overtaken.
Others(M, fs) ==
  /\ tab' \in [Tabs -> Request]
  /\ \A o \in Tabs \ M :
       /\ tab'[o].at = tab[o].at /\ tab'[o].token = tab[o].token
       /\ tab'[o].family = tab[o].family /\ tab'[o].pw = tab[o].pw
       /\ tab'[o].code = tab[o].code
       /\ tab[o].late => tab'[o].late
       /\ tab[o].at \in Entering \cup {"successor"} /\ tab[o].family \in fs => tab'[o].late

LEMMA TabMoves ==
  ASSUME SessionsTypeOK, NEW b \in Tabs, NEW q \in Request, tab' = [tab EXCEPT ![b] = q]
  PROVE  Others({b}, {}) /\ tab'[b] = q
BY DEF SessionsTypeOK, Others

LEMMA OvertakenIs ==
  ASSUME SessionsTypeOK, NEW fs
  PROVE  /\ Overtaken(fs) \in [Tabs -> Request]
         /\ \A o \in Tabs :
              LET n == Overtaken(fs)[o]
              IN /\ n.at = tab[o].at /\ n.token = tab[o].token /\ n.family = tab[o].family
                 /\ n.pw = tab[o].pw /\ n.code = tab[o].code
                 /\ tab[o].late => n.late
                 /\ tab[o].at \in Entering \cup {"successor"} /\ tab[o].family \in fs => n.late
<1> DEFINE late(o) == [tab[o] EXCEPT !.late = TRUE]
           hit(o)  == /\ tab[o].at \in {"password", "passed", "admitted", "successor"}
                      /\ tab[o].family \in fs
<1>1. ASSUME NEW o \in Tabs
      PROVE  /\ late(o) \in Request /\ late(o).late
             /\ late(o).at = tab[o].at /\ late(o).token = tab[o].token
             /\ late(o).family = tab[o].family /\ late(o).pw = tab[o].pw
             /\ late(o).code = tab[o].code /\ tab[o] \in Request
  BY DEF SessionsTypeOK, Request
<1>2. Overtaken(fs) = [o \in Tabs |-> IF hit(o) THEN late(o) ELSE tab[o]]
  BY DEF Overtaken
<1>3. \A o \in Tabs : tab[o].at \in Entering \cup {"successor"} /\ tab[o].family \in fs => hit(o)
  BY DEF Entering
<1> HIDE DEF late, hit
<1>4. \A o \in Tabs : Overtaken(fs)[o] = IF hit(o) THEN late(o) ELSE tab[o] BY <1>2
<1>5. Overtaken(fs) \in [Tabs -> Request] BY <1>1, <1>2
<1> QED BY <1>1, <1>3, <1>4, <1>5

LEMMA Overtakes ==
  ASSUME SessionsTypeOK, NEW fs, tab' = Overtaken(fs)
  PROVE  Others({}, fs)
BY OvertakenIs DEF Others

LEMMA OvertakesBut ==
  ASSUME SessionsTypeOK, NEW fs, NEW b \in Tabs, NEW q \in Request,
         tab' = [Overtaken(fs) EXCEPT ![b] = q]
  PROVE  Others({b}, fs) /\ tab'[b] = q
<1>1. /\ tab' \in [Tabs -> Request] /\ tab'[b] = q
      /\ \A o \in Tabs \ {b} : tab'[o] = Overtaken(fs)[o]
  BY OvertakenIs
<1> QED BY <1>1, OvertakenIs DEF Others

LEMMA NoTabMoves ==
  ASSUME SessionsTypeOK, tab' = tab PROVE Others({}, {})
BY DEF SessionsTypeOK, Others

LEMMA SameFades ==
  ASSUME SessionsTypeOK, sessions' = sessions PROVE Fades
BY DEF SessionsTypeOK, Fades

LEMMA TokensFade == ASSUME Fades PROVE Tokens' = Tokens
BY DEF Fades, Tokens

LEMMA FamiliesStay ==
  ASSUME FamiliesFit, Fades, jar' = jar, history'.ended \subseteq Tokens
  PROVE  FamiliesFit'
<1>1. Tokens' = Tokens BY TokensFade
<1>2. \A t \in Tokens : sessions'[t].family = sessions[t].family /\ sessions'[t].by = sessions[t].by
  BY DEF Fades
<1>3. ASSUME NEW t \in Tokens
      PROVE  /\ sessions'[t].family \in Tokens
             /\ sessions'[sessions'[t].family].by = sessions'[t].by
  <2>1. sessions[t].family \in Tokens /\ sessions[sessions[t].family].by = sessions[t].by
    BY DEF FamiliesFit
  <2> QED BY <1>2, <2>1
<1>4. ASSUME NEW br \in Browsers, jar'[br] # NoToken
      PROVE  jar'[br] \in Tokens /\ sessions'[jar'[br]].by = br
  <2>1. jar[br] \in Tokens /\ sessions[jar[br]].by = br BY <1>4 DEF FamiliesFit
  <2> QED BY <1>2, <2>1
<1> QED BY <1>1, <1>3, <1>4 DEF FamiliesFit

LEMMA TabsStay ==
  ASSUME Fades, NEW M, NEW fs, Others(M, fs), NEW o \in Tabs \ M, TabFits(o)
  PROVE  TabFits(o)'
BY DEF Fades, Others, TabFits, Tokens, Live, Renewing

LEMMA OneStays ==
  ASSUME OneWorks, Fades, NEW M, NEW fs, Others(M, fs),
         \A o \in Tabs \ M : TabFits(o), \A b \in Tabs \cap M : tab'[b].at # "successor"
  PROVE  OneWorks'
<1>1. Tokens' = Tokens BY TokensFade
<1>2. \A t \in Tokens : Works(t)' => Works(t) /\ sessions'[t].family = sessions[t].family
  BY DEF Works, Live, Fades
<1>3. ASSUME NEW o \in Tabs, Succeeds(o)'
      PROVE  Succeeds(o) /\ tab'[o].family = tab[o].family
  <2>1. o \notin M BY <1>3 DEF Succeeds
  <2>2. tab[o].at = "successor" /\ tab[o].token \in Tokens
    BY <1>3, <2>1 DEF Succeeds, Others, TabFits, Renewing
  <2> QED BY <1>3, <2>1, <2>2 DEF Succeeds, Others, Fades
<1>4. \A t, u \in Tokens' : Works(t)' /\ Works(u)' /\ sessions'[t].family = sessions'[u].family
                              => t = u
  BY <1>1, <1>2 DEF OneWorks
<1>5. ASSUME NEW b \in Tabs, NEW t \in Tokens', Succeeds(b)', Works(t)'
      PROVE  sessions'[t].family # tab'[b].family
  BY <1>1, <1>2, <1>3, <1>5 DEF OneWorks
<1>6. ASSUME NEW b \in Tabs, NEW c \in Tabs, Succeeds(b)', Succeeds(c)',
             tab'[b].family = tab'[c].family
      PROVE  b = c
  BY <1>3, <1>6 DEF OneWorks
<1> QED BY <1>4, <1>5, <1>6 DEF OneWorks

LEMMA CodesStay ==
  ASSUME CodesFit, NEW M, NEW fs, Others(M, fs), user'.codes \subseteq user.codes,
         user'.batch = user.batch, history'.uses = history.uses, history'.raced = history.raced,
         \A b \in Tabs \cap M : tab'[b].at # "password"
  PROVE  CodesFit'
<1>1. \A b \in Tabs, c \in Codes : Offers(b, c)' => Offers(b, c)
  BY DEF Offers, Others
<1> QED BY <1>1 DEF CodesFit

\* As many are on their way.
LEMMA WaysStay ==
  ASSUME NEW M, NEW fs, Others(M, fs),
         \A b \in Tabs \cap M : (tab'[b].at = "password" /\ tab'[b].pw = Wrong)
                                  <=> (tab[b].at = "password" /\ tab[b].pw = Wrong)
  PROVE  OnTheirWay' = OnTheirWay
<1>1. \A b \in Tabs : (tab'[b].at = "password" /\ tab'[b].pw = Wrong)
                        <=> (tab[b].at = "password" /\ tab[b].pw = Wrong)
  BY DEF Others
<1> QED BY <1>1 DEF OnTheirWay

LEMMA GuessesStay ==
  ASSUME GuessesFit, NEW M, NEW fs, Others(M, fs),
         \A b \in Tabs \cap M : (tab'[b].at = "password" /\ tab'[b].pw = Wrong)
                                  <=> (tab[b].at = "password" /\ tab[b].pw = Wrong),
         user'.locked = user.locked, user'.failures = user.failures,
         history'.tried = history.tried
  PROVE  GuessesFit'
<1>1. OnTheirWay' = OnTheirWay BY WaysStay
<1> QED BY <1>1 DEF GuessesFit, GuessesAreBounded

\* How many are on their way.
LEMMA WaysCount ==
  /\ IsFiniteSet(OnTheirWay) /\ Cardinality(OnTheirWay) \in Nat
  /\ Cardinality(Tabs) \in Nat /\ Cardinality(OnTheirWay) <= Cardinality(Tabs)
<1>1. OnTheirWay \subseteq Tabs /\ IsFiniteSet(Tabs)
  BY SessionsAssumption DEF OnTheirWay
<1> QED BY <1>1, FS_Subset, FS_CardinalityType

LEMMA GuessesForgotten ==
  ASSUME SessionsTypeOK, SessionsTypeOK', history'.tried = 0
  PROVE  GuessesFit'
<1>1. OnTheirWay' \subseteq Tabs /\ IsFiniteSet(Tabs)
  BY SessionsAssumption DEF OnTheirWay
<1>2. Cardinality(OnTheirWay') \in Nat /\ Cardinality(Tabs) \in Nat
  BY <1>1, FS_Subset, FS_CardinalityType
<1>3. Cardinality(OnTheirWay)' \in Nat BY <1>2
<1>4. user'.failures \in Nat BY DEF SessionsTypeOK, Account
<1> QED BY <1>2, <1>3, <1>4, SessionsAssumption DEF GuessesFit, GuessesAreBounded
-----------------------------------------------------------------------------
(* Steps that create no session *)

\* What stood still stands, but in the families D that are ended.
StandsOn(D) ==
  \A f \in (Families \cup {0}) \ D, pw \in Nat : Stands(f, pw) => Stands(f, pw)'

LEMMA StandStays ==
  ASSUME SessionsTypeOK, RevocationHolds, \A b \in Tabs : TabFits(b) /\ WillStand(b), Fades,
         NEW M, NEW D, Others(M, D), StandsOn(D), \A b \in Tabs \cap M : WillStand(b)',
         \A t \in Tokens : sessions[t].family \in D => sessions'[t].state # "live"
  PROVE  RevocationHolds' /\ \A b \in Tabs : WillStand(b)'
<1>1. \A t \in Tokens : sessions[t] \in Session BY DEF SessionsTypeOK, Tokens
<1>2. Tokens' = Tokens BY TokensFade
<1>3. ASSUME NEW t \in Tokens, sessions'[t].state = "live", ~sessions'[t].escaped
      PROVE  Stands(sessions[t].family, sessions[t].pw)'
  <2>1. sessions[t].state = "live" /\ ~sessions[t].escaped BY <1>3 DEF Fades
  <2>2. sessions[t].family \in Families \ D BY <1>3 DEF Families
  <2>3. Stands(sessions[t].family, sessions[t].pw)
    BY <2>1 DEF RevocationHolds, Stands, Live
  <2> DEFINE f == sessions[t].family
             pw == sessions[t].pw
  <2>4. \A g \in (Families \cup {0}) \ D, w \in Nat : Stands(g, w) => Stands(g, w)'
    BY DEF StandsOn
  <2>5. pw \in Nat BY <1>1 DEF Session
  <2>6. PICK g \in (Families \cup {0}) \ D, w \in Nat : g = f /\ w = pw BY <2>2, <2>5
  <2>7. Stands(g, w)' BY <2>3, <2>4, <2>6
  <2>8. sessions'[t].family = g /\ sessions'[t].pw = w BY <2>6 DEF Fades
  <2> QED BY <2>7, <2>8 DEF Stands
<1>4. RevocationHolds'
  BY <1>2, <1>3 DEF RevocationHolds, Live, Stands, Fades
<1>5. ASSUME NEW b \in Tabs \ M PROVE WillStand(b)'
  <2>1. tab[b].pw \in Nat BY DEF SessionsTypeOK, Request
  <2>2. ASSUME Entry(b)' PROVE \E w \in Nat : w = tab'[b].pw /\ Stands(0, w)'
    <3>1. Entry(b) /\ tab'[b].pw = tab[b].pw BY <2>2 DEF Entry, Others
    <3>2. Stands(0, tab[b].pw) /\ 0 \notin D
      BY <2>2, <3>1 DEF WillStand, Entry, Others, TabFits
    <3>3. PICK w \in Nat : w = tab[b].pw BY <2>1
    <3>4. Stands(0, w)' BY <3>2, <3>3 DEF StandsOn
    <3> QED BY <3>1, <3>3, <3>4
  <2>3. ASSUME Succeeds(b)'
        PROVE  \E g \in Families \cup {0}, w \in Nat :
                 g = tab'[b].family /\ w = sessions'[tab'[b].token].pw /\ Stands(g, w)'
    <3>1. tab'[b].family = tab[b].family /\ tab'[b].token = tab[b].token BY DEF Others
    <3>2. /\ tab[b].at = "successor" /\ tab[b].token \in Tokens
          /\ tab[b].family = sessions[tab[b].token].family
      BY <2>3 DEF Succeeds, Others, TabFits, Renewing
    <3>3. Succeeds(b) /\ tab[b].family \notin D
      BY <2>3, <3>1, <3>2 DEF Succeeds, Others, Fades
    <3>4. Stands(tab[b].family, sessions[tab[b].token].pw) BY <3>3 DEF WillStand
    <3>5. tab[b].family \in Families BY <3>2 DEF Families
    <3>6. PICK g \in (Families \cup {0}) \ D, w \in Nat :
            g = tab[b].family /\ w = sessions[tab[b].token].pw
      BY <1>1, <3>2, <3>3, <3>5 DEF Session
    <3>7. Stands(g, w)' BY <3>4, <3>6 DEF StandsOn
    <3>8. sessions'[tab'[b].token].pw = w /\ tab'[b].family = g BY <3>1, <3>2, <3>6 DEF Fades
    <3> QED BY <3>6, <3>7, <3>8
  <2> QED BY <2>2, <2>3 DEF WillStand, Stands
<1> QED BY <1>4, <1>5

\* One request of a browser moves, and its other tabs, if it is undisturbed, do nothing.
HonestMove(b) ==
  BrowserOf[b] \notin history'.disturbed =>
    /\ tab[b].at # "answer"
    /\ tab'[b].at \in CookiePlaces =>
         \/ tab[b].at \in CookiePlaces
         \/ \A o \in Tabs \ {b} : BrowserOf[o] = BrowserOf[b] => ~Busy(o)
    /\ tab'[b].at \in Renewing => tab'[b].token = jar[BrowserOf[b]]
    /\ tab'[b].at = "successor" =>
         \A t \in Tokens : sessions'[t].state = "live" => sessions[t].family # tab'[b].family
    /\ tab'[b].at = "answer" => tab'[b].token = NoToken

LEMMA HonestStays ==
  ASSUME FamiliesFit, \A b \in Tabs : TabFits(b), NEW br \in Browsers, Honest(br), Fades,
         NEW M, NEW fs, Others(M, fs), \A b, c \in M : b = c, \A b \in Tabs \cap M : HonestMove(b),
         jar' = jar, history.disturbed \subseteq history'.disturbed
  PROVE  Honest(br)'
<1> SUFFICES ASSUME br \notin history'.disturbed PROVE Honest(br)' BY DEF Honest
<1>1. br \notin history.disturbed /\ Tokens' = Tokens BY TokensFade
<1>2. ASSUME NEW b \in Tabs, NEW c \in Tabs, BrowserOf[b] = br, BrowserOf[c] = br,
             tab'[b].at \in CookiePlaces, tab'[c].at \in CookiePlaces
      PROVE  b = c
  <2>1. CASE b \notin M /\ c \notin M BY <1>1, <1>2, <2>1 DEF Honest, Busy, Others
  <2>2. CASE b \in M /\ c \in M BY <2>2
  <2>3. CASE b \in M /\ c \notin M
    <3>1. Busy(c) BY <1>2, <2>3 DEF Busy, Others
    <3> QED BY <1>1, <1>2, <2>3, <3>1 DEF HonestMove, Honest, Busy
  <2>4. CASE c \in M /\ b \notin M
    <3>1. Busy(b) BY <1>2, <2>4 DEF Busy, Others
    <3> QED BY <1>1, <1>2, <2>4, <3>1 DEF HonestMove, Honest, Busy
  <2> QED BY <2>1, <2>2, <2>3, <2>4
<1>3. ASSUME NEW b \in Tabs, BrowserOf[b] = br, tab'[b].at \in Renewing
      PROVE  tab'[b].token = jar'[br]
  BY <1>1, <1>3 DEF Honest, Others, HonestMove
<1>4. ASSUME NEW t \in Tokens, jar'[br] # NoToken, sessions'[t].state = "live",
             sessions'[t].family = sessions'[jar'[br]].family
      PROVE  \/ t = jar'[br]
             \/ \E b \in Tabs : BrowserOf[b] = br /\ tab'[b].at = "answer" /\ tab'[b].token = t
  <2>1. jar[br] \in Tokens BY <1>4 DEF FamiliesFit
  <2>2. sessions[t].state = "live" /\ sessions[t].family = sessions[jar[br]].family
    BY <1>4, <2>1 DEF Fades
  <2>3. CASE t # jar[br]
    <3>1. PICK b \in Tabs : BrowserOf[b] = br /\ tab[b].at = "answer" /\ tab[b].token = t
      BY <1>1, <1>4, <2>2, <2>3 DEF Honest, Live
    <3>2. b \notin M BY <3>1 DEF HonestMove
    <3> QED BY <3>1, <3>2 DEF Others
  <2> QED BY <2>3
<1>5. ASSUME NEW b \in Tabs, NEW t \in Tokens, BrowserOf[b] = br, sessions'[t].state = "live",
             tab'[b].at = "successor"
      PROVE  sessions'[t].family # tab'[b].family
  BY <1>1, <1>5 DEF Honest, Live, Fades, Others, HonestMove
<1>6. ASSUME NEW b \in Tabs, NEW t \in Tokens, BrowserOf[b] = br, sessions'[t].state = "live",
             tab'[b].at = "answer", tab'[b].token # NoToken,
             sessions'[t].family = sessions'[tab'[b].token].family
      PROVE  t = tab'[b].token
  <2>1. b \notin M BY <1>6 DEF HonestMove
  <2>2. tab[b].at = "answer" /\ tab[b].token = tab'[b].token BY <1>6, <2>1 DEF Others
  <2>3. tab[b].token \in Tokens BY <1>6, <2>2 DEF TabFits
  <2> QED BY <1>1, <1>6, <2>2, <2>3 DEF Honest, Live, Fades
<1> QED BY <1>1, <1>2, <1>3, <1>4, <1>5, <1>6 DEF Honest, Busy, Live
\* Nothing that a request relies on changes.
LEMMA CalmStands ==
  ASSUME NEW M, NEW fs, Others(M, fs), user'.pw = user.pw, user'.disabled = user.disabled,
         operator' = operator, history'.ended = history.ended,
         \A b \in Tabs \cap M : tab[b].at \in {"unlinking", "revoking"} =>
                                  tab'[b].at \in {"unlinking", "revoking"}
  PROVE  StandsOn({})
<1>1. (\E b \in Tabs : tab[b].at \in {"unlinking", "revoking"}) =>
        \E b \in Tabs : tab'[b].at \in {"unlinking", "revoking"}
  BY DEF Others
<1> QED BY <1>1 DEF StandsOn, Stands

LEMMA QuietStep ==
  ASSUME IInv, SessionsTypeOK', Fades, jar' = jar, NEW M, NEW D, Others(M, D),
         M \subseteq Tabs, \A b, c \in M : b = c,
         history.disturbed \subseteq history'.disturbed, history'.ended \subseteq Tokens,
         AlarmHasCause', StandsOn(D), OneWorks', CodesFit', GuessesFit',
         \A t \in Tokens : sessions[t].family \in D => sessions'[t].state # "live",
         \A b \in M : TabFits(b)' /\ WillStand(b)' /\ HonestMove(b)
  PROVE  IInv'
<1>1. /\ SessionsTypeOK /\ FamiliesFit /\ RevocationHolds
      /\ \A b \in Tabs : TabFits(b) /\ WillStand(b)
      /\ \A br \in Browsers : Honest(br)
  BY DEF IInv
<1>2. FamiliesFit' BY <1>1, FamiliesStay
<1>3. \A b \in Tabs \cap M : WillStand(b)' OBVIOUS
<1>4. RevocationHolds' /\ \A b \in Tabs : WillStand(b)' BY <1>1, <1>3, StandStays
<1>5. \A o \in Tabs \ M : TabFits(o)' BY <1>1, TabsStay
<1>6. \A b \in Tabs : TabFits(b)' BY <1>5
<1>7. \A b \in Tabs \cap M : HonestMove(b) OBVIOUS
<1>8. \A b \in Tabs : TabFits(b) BY <1>1
<1>9. ASSUME NEW br \in Browsers PROVE Honest(br)'
  BY <1>1, <1>7, <1>8, HonestStays
<1> QED BY <1>2, <1>4, <1>6, <1>9 DEF IInv

\* A step that is about nobody's credentials, password or guesses.
LEMMA CalmStep ==
  ASSUME IInv, SessionsTypeOK', Fades, jar' = jar, NEW M, Others(M, {}),
         M \subseteq Tabs, \A b, c \in M : b = c, StandsOn({}),
         history.disturbed \subseteq history'.disturbed, history'.ended = history.ended,
         history'.alarms = history.alarms, history'.tried = history.tried,
         history'.raced = history.raced, history'.uses = history.uses,
         user'.codes \subseteq user.codes, user'.batch = user.batch,
         user'.locked = user.locked, user'.failures = user.failures,
         \A b \in M : /\ TabFits(b)' /\ HonestMove(b)
                      /\ tab'[b].at \notin {"password", "passed", "admitted", "successor"}
                      /\ ~(tab[b].at = "password" /\ tab[b].pw = Wrong)
  PROVE  IInv'
<1>1. /\ SessionsTypeOK /\ FamiliesFit /\ OneWorks /\ CodesFit /\ GuessesFit /\ AlarmHasCause
      /\ \A b \in Tabs : TabFits(b)
  BY DEF IInv
<1>2. \A o \in Tabs \ M : TabFits(o) BY <1>1
<1>3. \A b \in Tabs \cap M : tab'[b].at # "successor" /\ tab'[b].at # "password" OBVIOUS
<1>4. OneWorks' BY <1>1, <1>2, <1>3, OneStays
<1>5. CodesFit' BY <1>1, <1>3, CodesStay
<1>6. \A b \in Tabs \cap M : (tab'[b].at = "password" /\ tab'[b].pw = Wrong)
                                 <=> (tab[b].at = "password" /\ tab[b].pw = Wrong)
  BY <1>3
<1>7. GuessesFit' BY <1>1, <1>6, GuessesStay
<1>8. AlarmHasCause' BY <1>1 DEF AlarmHasCause
<1>9. \A b \in M : WillStand(b)' BY DEF WillStand, Entry, Succeeds, Entering
<1>10. history'.ended \subseteq Tokens BY <1>1 DEF FamiliesFit
<1>11. \A b \in M : TabFits(b)' /\ WillStand(b)' /\ HonestMove(b) BY <1>9
<1> QED BY <1>4, <1>5, <1>7, <1>8, <1>10, <1>11, QuietStep

-----------------------------------------------------------------------------
(* Types *)

LEMMA RestingIs ==
  /\ Resting \in Request /\ Resting.at = "rest" /\ Resting.token = 0 /\ Resting.family = 0
  /\ Resting.pw = 0 /\ Resting.code = NoCode /\ Resting.late = FALSE
BY DEF Resting, Request, Places, CookiePlaces, NoToken

\* What a request begins with, if another of its browser is noted.
LEMMA DisturbIs ==
  ASSUME SessionsTypeOK, NEW b \in Tabs
  PROVE  /\ Disturb(b) \in History
         /\ Disturb(b).ended = history.ended /\ Disturb(b).alarms = history.alarms
         /\ Disturb(b).tried = history.tried /\ Disturb(b).raced = history.raced
         /\ Disturb(b).uses = history.uses /\ history.disturbed \subseteq Disturb(b).disturbed
         /\ BrowserOf[b] \notin Disturb(b).disturbed =>
              \A o \in Tabs \ {b} : BrowserOf[o] = BrowserOf[b] => tab[o].at = "rest"
<1> DEFINE h == [history EXCEPT !.disturbed = @ \cup {BrowserOf[b]}]
<1>1. BrowserOf[b] \in Browsers BY SessionsAssumption
<1>2. /\ h \in History /\ h.ended = history.ended /\ h.alarms = history.alarms
      /\ h.tried = history.tried /\ h.raced = history.raced /\ h.uses = history.uses
      /\ h.disturbed = history.disturbed \cup {BrowserOf[b]} /\ history \in History
  BY <1>1 DEF SessionsTypeOK, History
<1>3. Disturb(b) = IF Crowded(b) THEN h ELSE history BY DEF Disturb
<1> HIDE DEF h
<1>4. CASE Crowded(b) BY <1>2, <1>3, <1>4
<1>5. CASE ~Crowded(b) BY <1>2, <1>3, <1>5 DEF Crowded, At
<1> QED BY <1>4, <1>5

\* One thing more happened.
LEMMA EventIs ==
  ASSUME SessionsTypeOK, history' = [history EXCEPT !.events = @ + 1]
  PROVE  /\ history' \in History
         /\ history'.ended = history.ended /\ history'.alarms = history.alarms
         /\ history'.tried = history.tried /\ history'.raced = history.raced
         /\ history'.uses = history.uses /\ history'.disturbed = history.disturbed
<1>1. PICK n \in Nat : n = history.events + 1 BY DEF SessionsTypeOK, History
<1>2. history \in History /\ history' = [history EXCEPT !.events = n]
  BY <1>1 DEF SessionsTypeOK
<1> QED BY <1>2 DEF History

\* A request begins, ends or goes on that is no login and does nothing with the cookie.
LEMMA PlainStep ==
  ASSUME IInv, NEW b \in Tabs, NEW q \in Request, tab' = [tab EXCEPT ![b] = q],
         tab[b].at # "answer", ~(tab[b].at = "password" /\ tab[b].pw = Wrong),
         tab[b].at \in {"unlinking", "revoking"} => q.at \in {"unlinking", "revoking"},
         q.at \notin CookiePlaces,
         sessions' = sessions, jar' = jar, operator' = operator,
         user' \in Account, user'.pw = user.pw, user'.disabled = user.disabled,
         user'.locked = user.locked, user'.failures = user.failures,
         user'.batch = user.batch, user'.codes \subseteq user.codes,
         history' = history \/ history' = [history EXCEPT !.events = @ + 1]
  PROVE  IInv'
<1>1. Others({b}, {}) /\ tab'[b] = q BY TabMoves DEF IInv
<1>2. /\ TabFits(b)' /\ HonestMove(b)
      /\ tab'[b].at \notin {"password", "passed", "admitted", "successor"}
  BY <1>1 DEF TabFits, HonestMove, CookiePlaces, Entering, Renewing
<1>3. /\ history' \in History
      /\ history'.ended = history.ended /\ history'.alarms = history.alarms
      /\ history'.tried = history.tried /\ history'.raced = history.raced
      /\ history'.uses = history.uses /\ history'.disturbed = history.disturbed
  BY EventIs DEF IInv, SessionsTypeOK
<1>4. Fades BY SameFades DEF IInv
<1>5. StandsOn({}) BY <1>1, <1>3, CalmStands
<1>6. SessionsTypeOK' BY <1>1, <1>3 DEF IInv, SessionsTypeOK, Others
<1> QED BY <1>1, <1>2, <1>3, <1>4, <1>5, <1>6, CalmStep

\* No request moves.
LEMMA StillStep ==
  ASSUME IInv, tab' = tab, jar' = jar, Fades, StandsOn({}),
         user' \in Account, user'.codes \subseteq user.codes, user'.batch = user.batch,
         user'.locked = user.locked, user'.failures = user.failures,
         history' = history \/ history' = [history EXCEPT !.events = @ + 1]
  PROVE  IInv'
<1>1. Others({}, {}) BY NoTabMoves DEF IInv
<1>2. /\ history' \in History
      /\ history'.ended = history.ended /\ history'.alarms = history.alarms
      /\ history'.tried = history.tried /\ history'.raced = history.raced
      /\ history'.uses = history.uses /\ history'.disturbed = history.disturbed
  BY EventIs DEF IInv, SessionsTypeOK
<1>3. SessionsTypeOK' BY <1>1, <1>2 DEF IInv, SessionsTypeOK, Others, Fades
<1> QED BY <1>1, <1>2, <1>3, CalmStep

-----------------------------------------------------------------------------
(* The steps, one by one: those that are about no credential *)

\* The token of a cookie is one of its browser's.
LEMMA CookieIs ==
  ASSUME IInv, NEW b \in Tabs, NEW t, t = jar[BrowserOf[b]], t # NoToken
  PROVE  t \in Tokens /\ t \in Nat /\ sessions[t].by = BrowserOf[b] /\ sessions[t].family \in Nat
         /\ sessions[t].family \in Tokens /\ BrowserOf[b] \in Browsers
<1>1. BrowserOf[b] \in Browsers BY SessionsAssumption
<1>2. t \in Tokens /\ sessions[t].by = BrowserOf[b] BY <1>1 DEF IInv, FamiliesFit
<1> QED BY <1>1, <1>2 DEF IInv, FamiliesFit, SessionsTypeOK, Session, Tokens

LEMMA RefreshReadInv ==
  ASSUME IInv, NEW b \in Tabs, RefreshRead(b) PROVE IInv'
<1> DEFINE t == jar[BrowserOf[b]]
           q == [Resting EXCEPT !.at = IF Live(t) THEN "user" ELSE "reuse",
                                !.token = t, !.family = sessions[t].family]
<1>1. /\ t # NoToken /\ At(b, "rest") /\ tab' = [tab EXCEPT ![b] = q]
      /\ history' = Disturb(b) /\ UNCHANGED <<user, sessions, links, jar, operator>>
  BY DEF RefreshRead, Begin
<1>2. /\ t \in Tokens /\ t \in Nat /\ sessions[t].by = BrowserOf[b]
      /\ sessions[t].family \in Nat
  BY <1>1, CookieIs
<1>3. /\ q \in Request /\ q.token = t /\ q.family = sessions[t].family
      /\ q.at = IF Live(t) THEN "user" ELSE "reuse"
  BY <1>2, RestingIs DEF Request, Places, CookiePlaces, Renewing
<1> HIDE DEF q
<1>4. Others({b}, {}) /\ tab'[b] = q BY <1>1, <1>3, TabMoves DEF IInv
<1>5. Fades BY <1>1, SameFades DEF IInv
<1>6. StandsOn({}) BY <1>1, <1>4, CalmStands, DisturbIs DEF At, IInv
<1>7. Tokens' = Tokens /\ sessions' = sessions BY <1>1, <1>5, TokensFade
<1>8. TabFits(b)'
  BY <1>1, <1>2, <1>3, <1>4, <1>7 DEF TabFits, Renewing, Entering, Live
<1>9. HonestMove(b)
  BY <1>1, <1>3, <1>4, DisturbIs
     DEF IInv, HonestMove, At, Renewing, Busy, CookiePlaces, Entering
<1>10. SessionsTypeOK'
  BY <1>1, <1>4, DisturbIs DEF IInv, SessionsTypeOK, Others
<1>11. /\ tab'[b].at \notin {"password", "passed", "admitted", "successor"}
       /\ ~(tab[b].at = "password" /\ tab[b].pw = Wrong)
  BY <1>1, <1>3, <1>4 DEF At
<1>12. /\ history'.ended = history.ended /\ history'.alarms = history.alarms
       /\ history'.tried = history.tried /\ history'.raced = history.raced
       /\ history'.uses = history.uses /\ history.disturbed \subseteq history'.disturbed
  BY <1>1, DisturbIs DEF IInv
<1> QED BY <1>1, <1>4, <1>5, <1>6, <1>8, <1>9, <1>10, <1>11, <1>12, CalmStep

LEMMA LogoutFindInv ==
  ASSUME IInv, NEW b \in Tabs, LogoutFind(b) PROVE IInv'
<1> DEFINE t == jar[BrowserOf[b]]
           q == [Resting EXCEPT !.at = "leaving", !.family = sessions[t].family]
<1>1. /\ t # NoToken /\ At(b, "rest") /\ tab' = [tab EXCEPT ![b] = q]
      /\ history' = Disturb(b) /\ UNCHANGED <<user, sessions, links, jar, operator>>
  BY DEF LogoutFind, Begin
<1>2. sessions[t].family \in Nat /\ sessions[t].family \in Tokens
  BY <1>1, CookieIs
<1>3. /\ q \in Request /\ q.token = NoToken /\ q.family = sessions[t].family
      /\ q.at = "leaving"
  BY <1>2, RestingIs DEF Request, Places, CookiePlaces, NoToken
<1> HIDE DEF q
<1>4. Others({b}, {}) /\ tab'[b] = q BY <1>1, <1>3, TabMoves DEF IInv
<1>5. Fades BY <1>1, SameFades DEF IInv
<1>6. StandsOn({}) BY <1>1, <1>4, CalmStands, DisturbIs DEF At, IInv
<1>7. Tokens' = Tokens /\ sessions' = sessions BY <1>1, <1>5, TokensFade
<1>8. TabFits(b)'
  BY <1>1, <1>2, <1>3, <1>4, <1>7 DEF TabFits, Renewing, Entering
<1>9. HonestMove(b)
  BY <1>1, <1>3, <1>4, DisturbIs
     DEF IInv, HonestMove, At, Renewing, Busy, CookiePlaces, Entering
<1>10. SessionsTypeOK'
  BY <1>1, <1>4, DisturbIs DEF IInv, SessionsTypeOK, Others
<1>11. /\ tab'[b].at \notin {"password", "passed", "admitted", "successor"}
       /\ ~(tab[b].at = "password" /\ tab[b].pw = Wrong)
  BY <1>1, <1>3, <1>4 DEF At
<1>12. /\ history'.ended = history.ended /\ history'.alarms = history.alarms
       /\ history'.tried = history.tried /\ history'.raced = history.raced
       /\ history'.uses = history.uses /\ history.disturbed \subseteq history'.disturbed
  BY <1>1, DisturbIs DEF IInv
<1> QED BY <1>1, <1>4, <1>5, <1>6, <1>8, <1>9, <1>10, <1>11, <1>12, CalmStep

LEMMA RefreshUserInv ==
  ASSUME IInv, NEW b \in Tabs, RefreshUser(b) PROVE IInv'
<1> DEFINE r == [tab[b] EXCEPT !.at = "rotate"]
           q == IF user.disabled THEN Resting ELSE r
<1>1. /\ At(b, "user") /\ tab' = [tab EXCEPT ![b] = q]
      /\ UNCHANGED <<user, sessions, links, jar, operator, history>>
  BY DEF RefreshUser
<1>2. /\ r \in Request /\ r.at = "rotate" /\ r.token = tab[b].token /\ r.family = tab[b].family
  BY DEF IInv, SessionsTypeOK, Request, Places, CookiePlaces, Renewing
<1> HIDE DEF r
<1>3. q \in Request BY <1>2, RestingIs
<1>4. q.at = "rest" \/ (q.at = "rotate" /\ q.token = tab[b].token /\ q.family = tab[b].family)
  BY <1>2, RestingIs
<1> HIDE DEF q
<1>5. Others({b}, {}) /\ tab'[b] = q BY <1>1, <1>3, TabMoves DEF IInv
<1>6. Fades BY <1>1, SameFades DEF IInv
<1>7. StandsOn({}) BY <1>1, <1>5, CalmStands DEF At
<1>8. Tokens' = Tokens /\ sessions' = sessions BY <1>1, <1>6, TokensFade
<1>9. TabFits(b) BY DEF IInv
<1>10. TabFits(b)'
  BY <1>1, <1>4, <1>5, <1>8, <1>9 DEF TabFits, Renewing, Entering, At
<1>11. BrowserOf[b] \in Browsers BY SessionsAssumption
<1>12. HonestMove(b)
  BY <1>1, <1>4, <1>5, <1>11
     DEF IInv, HonestMove, At, Renewing, Busy, CookiePlaces, Entering, Honest
<1>13. SessionsTypeOK' BY <1>1, <1>5 DEF IInv, SessionsTypeOK, Others
<1>14. /\ tab'[b].at \notin {"password", "passed", "admitted", "successor"}
       /\ ~(tab[b].at = "password" /\ tab[b].pw = Wrong)
  BY <1>1, <1>4, <1>5 DEF At
<1> QED BY <1>1, <1>5, <1>6, <1>7, <1>10, <1>12, <1>13, <1>14, CalmStep
LEMMA LoseAnswerInv ==
  ASSUME IInv, NEW b \in Tabs, LoseAnswer(b) PROVE IInv'
<1> DEFINE h == [history EXCEPT !.disturbed = @ \cup {BrowserOf[b]}, !.events = @ + 1]
<1>1. /\ At(b, "answer") /\ tab' = [tab EXCEPT ![b] = Resting] /\ history' = h
      /\ UNCHANGED <<user, sessions, links, jar, operator>>
  BY DEF LoseAnswer
<1>2. BrowserOf[b] \in Browsers BY SessionsAssumption
<1>14. history.events \in Nat /\ history.disturbed \subseteq Browsers
  BY DEF IInv, SessionsTypeOK, History
<1>15. PICK n \in Nat : n = history.events + 1 BY <1>14
<1>16. PICK s \in SUBSET Browsers : s = history.disturbed \cup {BrowserOf[b]} BY <1>2, <1>14
<1>3. n = history.events + 1 /\ s = history.disturbed \cup {BrowserOf[b]} BY <1>15, <1>16
<1>4. history \in History /\ h = [history EXCEPT !.disturbed = s, !.events = n]
  BY <1>3 DEF IInv, SessionsTypeOK
<1>5. /\ h \in History /\ h.disturbed = s
      /\ h.ended = history.ended /\ h.alarms = history.alarms
      /\ h.tried = history.tried /\ h.raced = history.raced /\ h.uses = history.uses
  BY <1>4 DEF History
<1> HIDE DEF h
<1>6. Others({b}, {}) /\ tab'[b] = Resting BY <1>1, RestingIs, TabMoves DEF IInv
<1>7. HonestMove(b) BY <1>1, <1>3, <1>5 DEF HonestMove
<1>8. TabFits(b)' BY <1>6, RestingIs DEF TabFits, Entering, Renewing
<1>9. SessionsTypeOK' BY <1>1, <1>5, <1>6 DEF IInv, SessionsTypeOK, Others
<1>10. Fades BY <1>1, SameFades DEF IInv
<1>11. StandsOn({}) BY <1>1, <1>5, <1>6, CalmStands DEF At
<1>12. /\ tab'[b].at \notin {"password", "passed", "admitted", "successor"}
       /\ ~(tab[b].at = "password" /\ tab[b].pw = Wrong)
  BY <1>1, <1>6, RestingIs DEF At
<1>13. /\ history'.ended = history.ended /\ history'.alarms = history.alarms
       /\ history'.tried = history.tried /\ history'.raced = history.raced
       /\ history'.uses = history.uses /\ history.disturbed \subseteq history'.disturbed
  BY <1>1, <1>3, <1>5
<1> QED BY <1>1, <1>6, <1>7, <1>8, <1>9, <1>10, <1>11, <1>12, <1>13, CalmStep

\* What a request is while it is about something else than signing in.
LEMMA RequestsAt ==
  ASSUME SessionsTypeOK, NEW b \in Tabs, NEW place \in Places
  PROVE  LET q == [tab[b] EXCEPT !.at = place]
         IN /\ q \in Request /\ q.at = place /\ q.token = tab[b].token /\ q.pw = tab[b].pw
            /\ q.family = tab[b].family /\ q.code = tab[b].code /\ q.late = tab[b].late
BY DEF SessionsTypeOK, Request

LEMMA RestingAt ==
  ASSUME NEW place \in Places, NEW pw \in Nat
  PROVE  LET q == [Resting EXCEPT !.at = place, !.pw = pw]
         IN q \in Request /\ q.at = place /\ q.pw = pw
BY RestingIs DEF Request

LEMMA RestingJust ==
  ASSUME NEW place \in Places
  PROVE  LET q == [Resting EXCEPT !.at = place] IN q \in Request /\ q.at = place
BY RestingIs DEF Request

\* Changes of the account that are about no credential.
LEMMA AccountIs ==
  ASSUME SessionsTypeOK
  PROVE  /\ user \in Account /\ user.codes \subseteq Codes /\ user.pw \in Nat
         /\ user.failures \in Nat /\ user.batch \in Nat
BY DEF SessionsTypeOK, Account

LEMMA MailInv ==
  ASSUME IInv, NEW b \in Tabs, VerifyConsume(b) \/ VerifyMark(b) \/ ResetConsume(b)
                                \/ ResetLinks(b)
  PROVE  IInv'
<1>1. CASE VerifyConsume(b)
  <2> DEFINE q == [Resting EXCEPT !.at = "verifying"]
  <2>1. q \in Request /\ q.at = "verifying" BY RestingJust DEF Places
  <2>2. /\ At(b, "rest") /\ tab' = [tab EXCEPT ![b] = q]
        /\ history' = [history EXCEPT !.events = @ + 1]
        /\ UNCHANGED <<user, sessions, jar, operator>>
    BY <1>1 DEF VerifyConsume, Event, Begin
  <2> HIDE DEF q
  <2>3. q.at \notin CookiePlaces BY <2>1 DEF CookiePlaces, Entering, Renewing
  <2> QED BY <2>1, <2>2, <2>3, AccountIs, PlainStep DEF At, IInv
<1>2. CASE VerifyMark(b)
  <2>1. /\ At(b, "verifying") /\ tab' = [tab EXCEPT ![b] = Resting]
        /\ user' = [user EXCEPT !.verified = TRUE]
        /\ UNCHANGED <<sessions, jar, operator, history>>
    BY <1>2 DEF VerifyMark
  <2>2. /\ user' \in Account /\ user'.pw = user.pw /\ user'.disabled = user.disabled
        /\ user'.locked = user.locked /\ user'.failures = user.failures
        /\ user'.batch = user.batch /\ user'.codes \subseteq user.codes
    BY <2>1 DEF IInv, SessionsTypeOK, Account
  <2>3. Resting.at \notin CookiePlaces BY RestingIs DEF CookiePlaces, Entering, Renewing
  <2> QED BY <2>1, <2>2, <2>3, RestingIs, PlainStep DEF At
<1>3. CASE ResetConsume(b)
  <2>1. PICK l \in 1..MaxResets :
          Begin(b, [Resting EXCEPT !.at = "setting", !.pw = l])
    BY <1>3 DEF ResetConsume
  <2> DEFINE q == [Resting EXCEPT !.at = "setting", !.pw = l]
  <2>2. l \in Nat BY SessionsAssumption
  <2>3. q \in Request /\ q.at = "setting" BY <2>2, RestingAt DEF Places
  <2>4. /\ At(b, "rest") /\ tab' = [tab EXCEPT ![b] = q]
        /\ UNCHANGED <<user, sessions, jar, operator, history>>
    BY <1>3, <2>1 DEF ResetConsume, Begin
  <2> HIDE DEF q
  <2>5. q.at \notin CookiePlaces BY <2>3 DEF CookiePlaces, Entering, Renewing
  <2> QED BY <2>3, <2>4, <2>5, AccountIs, PlainStep DEF At, IInv
<1>4. CASE ResetLinks(b)
  <2> DEFINE q == [tab[b] EXCEPT !.at = "revoking"]
  <2>1. q \in Request /\ q.at = "revoking" BY RequestsAt DEF Places, IInv
  <2>2. /\ At(b, "unlinking") /\ tab' = [tab EXCEPT ![b] = q]
        /\ UNCHANGED <<user, sessions, jar, operator, history>>
    BY <1>4 DEF ResetLinks
  <2> HIDE DEF q
  <2>3. q.at \notin CookiePlaces BY <2>1 DEF CookiePlaces, Entering, Renewing
  <2> QED BY <2>1, <2>2, <2>3, AccountIs, PlainStep DEF At, IInv
<1> QED BY <1>1, <1>2, <1>3, <1>4
LEMMA SecondFactorInv ==
  ASSUME IInv, NEW b \in Tabs, \/ SetupRead(b) \/ SetupWrite(b) \/ VerifyTotp(b)
                               \/ DisableTotpCheck(b) \/ DisableTotp(b)
  PROVE  IInv'
<1>1. CASE SetupRead(b) \/ VerifyTotp(b)
  <2>1. PICK place \in {"setup", "enabling"} :
          /\ At(b, "rest") /\ tab' = [tab EXCEPT ![b] = [Resting EXCEPT !.at = place]]
          /\ history' = history \/ history' = [history EXCEPT !.events = @ + 1]
          /\ UNCHANGED <<user, sessions, jar, operator>>
    BY <1>1 DEF SetupRead, VerifyTotp, Event, Begin
  <2> DEFINE q == [Resting EXCEPT !.at = place]
  <2>2. q \in Request /\ q.at = place BY RestingJust DEF Places
  <2>3. tab' = [tab EXCEPT ![b] = q] BY <2>1
  <2> HIDE DEF q
  <2>4. q.at \notin CookiePlaces BY <2>2 DEF CookiePlaces, Entering, Renewing
  <2> QED BY <2>1, <2>2, <2>3, <2>4, AccountIs, PlainStep DEF At, IInv
<1>2. CASE SetupWrite(b) \/ DisableTotp(b)
  <2>1. /\ tab[b].at \in {"setup", "disabling"} /\ tab' = [tab EXCEPT ![b] = Resting]
        /\ \/ user' = [user EXCEPT !.totp = "setup"]
           \/ user' = [user EXCEPT !.totp = "off", !.codes = {}]
        /\ UNCHANGED <<sessions, jar, operator, history>>
    BY <1>2 DEF SetupWrite, DisableTotp, At
  <2>2. /\ user' \in Account /\ user'.pw = user.pw /\ user'.disabled = user.disabled
        /\ user'.locked = user.locked /\ user'.failures = user.failures
        /\ user'.batch = user.batch /\ user'.codes \subseteq user.codes
    BY <2>1 DEF IInv, SessionsTypeOK, Account
  <2>3. Resting.at \notin CookiePlaces BY RestingIs DEF CookiePlaces, Entering, Renewing
  <2> QED BY <2>1, <2>2, <2>3, RestingIs, PlainStep
<1>3. CASE DisableTotpCheck(b)
  <2> DEFINE q == [Resting EXCEPT !.at = "disabling"]
  <2>1. /\ At(b, "rest") /\ tab' = [tab EXCEPT ![b] = q]
        /\ history' = [history EXCEPT !.events = @ + 1]
        /\ user' \in {user} \cup {[user EXCEPT !.codes = @ \ {c}] : c \in user.codes}
        /\ UNCHANGED <<sessions, jar, operator>>
    BY <1>3 DEF DisableTotpCheck, Event, Begin
  <2>2. q \in Request /\ q.at = "disabling" BY RestingJust DEF Places
  <2> HIDE DEF q
  <2>3. q.at \notin CookiePlaces BY <2>2 DEF CookiePlaces, Entering, Renewing
  <2>4. PICK s \in SUBSET Codes : s \subseteq user.codes /\ user' = [user EXCEPT !.codes = s]
    <3>1. CASE user' = user BY <3>1, AccountIs DEF Account, IInv
    <3>2. CASE user' # user BY <2>1, <3>2, AccountIs DEF IInv
    <3> QED BY <3>1, <3>2
  <2>5. /\ user' \in Account /\ user'.pw = user.pw /\ user'.disabled = user.disabled
        /\ user'.locked = user.locked /\ user'.failures = user.failures
        /\ user'.batch = user.batch /\ user'.codes \subseteq user.codes
    BY <2>4 DEF IInv, SessionsTypeOK, Account
  <2> QED BY <2>1, <2>2, <2>3, <2>5, PlainStep DEF At
<1> QED BY <1>1, <1>2, <1>3

LEMMA OutsideInv ==
  ASSUME IInv, SendLink \/ Disable \/ Enable \/ Expire PROVE IInv'
<1> USE DEF Event
<1>1. CASE SendLink
  <2>1. /\ history' = [history EXCEPT !.events = @ + 1]
        /\ UNCHANGED <<user, sessions, jar, tab, operator>>
    BY <1>1 DEF SendLink
  <2>2. StandsOn({}) BY <2>1, NoTabMoves, EventIs, CalmStands DEF IInv
  <2> QED BY <2>1, <2>2, SameFades, AccountIs, StillStep DEF IInv
<1>2. CASE Disable \/ Enable
  <2>1. /\ history' = history \/ history' = [history EXCEPT !.events = @ + 1]
        /\ UNCHANGED <<sessions, jar, tab>>
        /\ \/ user' = [user EXCEPT !.disabled = TRUE] /\ operator' = "revoking"
           \/ user' = [user EXCEPT !.disabled = FALSE] /\ operator' = operator
    BY <1>2 DEF Disable, Enable
  <2>2. /\ user' \in Account /\ user'.pw = user.pw
        /\ user'.locked = user.locked /\ user'.failures = user.failures
        /\ user'.batch = user.batch /\ user'.codes \subseteq user.codes
        /\ user'.disabled => operator' = "revoking"
    BY <2>1 DEF IInv, SessionsTypeOK, Account
  <2>3. history'.ended = history.ended BY <2>1, EventIs DEF IInv
  <2>4. StandsOn({}) BY <2>1, <2>2, <2>3 DEF StandsOn, Stands
  <2> QED BY <2>1, <2>2, <2>4, SameFades, StillStep DEF IInv
<1>3. CASE Expire
  <2>1. PICK t \in Tokens :
          /\ history' = [history EXCEPT !.events = @ + 1]
          /\ sessions' = [sessions EXCEPT ![t].state = "gone"]
          /\ UNCHANGED <<user, links, jar, tab, operator>>
    BY <1>3 DEF Expire
  <2>2. Fades
    <3> DEFINE s == [sessions[t] EXCEPT !.state = "gone"]
    <3>1. /\ s \in Session /\ s.family = sessions[t].family /\ s.pw = sessions[t].pw
          /\ s.by = sessions[t].by /\ s.escaped = sessions[t].escaped /\ s.state = "gone"
      <4>1. sessions[t] \in Session BY DEF IInv, SessionsTypeOK, Tokens
      <4> QED BY <4>1 DEF Session
    <3>2. sessions \in Seq(Session) /\ sessions' = [sessions EXCEPT ![t] = s]
      BY <2>1 DEF IInv, SessionsTypeOK
    <3> HIDE DEF s
    <3> QED BY <3>1, <3>2 DEF Fades, Tokens
  <2>3. StandsOn({}) BY <2>1, NoTabMoves, EventIs, CalmStands DEF IInv
  <2> QED BY <2>1, <2>2, <2>3, AccountIs, StillStep DEF IInv
<1> QED BY <1>1, <1>2, <1>3
-----------------------------------------------------------------------------
(* The steps of a login *)

\* A step that reads and rotates no credential, whatever it ends.
LEMMA SoundStep ==
  ASSUME IInv, SessionsTypeOK', Fades, jar' = jar, NEW M, NEW D, Others(M, D),
         M \subseteq Tabs, \A b, c \in M : b = c,
         history.disturbed \subseteq history'.disturbed, history'.ended \subseteq Tokens,
         history'.raced = history.raced, history'.uses = history.uses,
         user'.codes \subseteq user.codes, user'.batch = user.batch,
         AlarmHasCause', StandsOn(D), GuessesFit',
         \A t \in Tokens : sessions[t].family \in D => sessions'[t].state # "live",
         \A b \in M : /\ TabFits(b)' /\ WillStand(b)' /\ HonestMove(b)
                      /\ tab'[b].at # "password" /\ tab'[b].at # "successor"
  PROVE  IInv'
<1>1. OneWorks /\ CodesFit /\ \A b \in Tabs : TabFits(b) BY DEF IInv
<1>2. \A o \in Tabs \ M : TabFits(o) BY <1>1
<1>3. \A b \in Tabs \cap M : tab'[b].at # "successor" /\ tab'[b].at # "password" OBVIOUS
<1>4. OneWorks' BY <1>1, <1>2, <1>3, OneStays
<1>5. CodesFit' BY <1>1, <1>3, CodesStay
<1>6. \A b \in M : TabFits(b)' /\ WillStand(b)' /\ HonestMove(b) OBVIOUS
<1> QED BY <1>4, <1>5, <1>6, QuietStep

\* The guesses are forgotten.
LEMMA TriedIs ==
  ASSUME SessionsTypeOK, \/ history' = [history EXCEPT !.tried = 0]
                         \/ history' = [history EXCEPT !.tried = 0, !.events = @ + 1]
  PROVE  /\ history' \in History /\ history'.tried = 0
         /\ history'.ended = history.ended /\ history'.alarms = history.alarms
         /\ history'.raced = history.raced
         /\ history'.uses = history.uses /\ history'.disturbed = history.disturbed
<1>1. PICK n \in Nat : n = history.events + 1 BY DEF SessionsTypeOK, History
<1>2. /\ history \in History
      /\ \/ history' = [history EXCEPT !.tried = 0]
         \/ history' = [history EXCEPT !.tried = 0, !.events = n]
  BY <1>1 DEF SessionsTypeOK
<1>3. CASE history' = [history EXCEPT !.tried = 0] BY <1>2, <1>3 DEF History
<1>4. CASE history' = [history EXCEPT !.tried = 0, !.events = n] BY <1>2, <1>4 DEF History
<1> QED BY <1>2, <1>3, <1>4

LEMMA LockEndsInv ==
  ASSUME IInv, LockEnds PROVE IInv'
<1>1. /\ user' = [user EXCEPT !.locked = FALSE]
      /\ history' = [history EXCEPT !.tried = 0, !.events = @ + 1]
      /\ UNCHANGED <<sessions, links, jar, tab, operator>>
  BY DEF LockEnds
<1>2. /\ user' \in Account /\ user'.pw = user.pw /\ user'.disabled = user.disabled
      /\ user'.batch = user.batch /\ user'.codes \subseteq user.codes
  BY <1>1 DEF IInv, SessionsTypeOK, Account
<1>3. Others({}, {}) /\ Fades BY <1>1, NoTabMoves, SameFades DEF IInv
<1>4. /\ history' \in History /\ history'.tried = 0 /\ history'.ended = history.ended
      /\ history'.alarms = history.alarms /\ history'.raced = history.raced
      /\ history'.uses = history.uses /\ history'.disturbed = history.disturbed
  BY <1>1, TriedIs DEF IInv
<1>5. SessionsTypeOK' BY <1>1, <1>2, <1>4 DEF IInv, SessionsTypeOK
<1>6. StandsOn({}) BY <1>1, <1>2, <1>3, <1>4, CalmStands
<1>7. GuessesFit' BY <1>4, <1>5, GuessesForgotten DEF IInv
<1>8. AlarmHasCause' /\ history'.ended \subseteq Tokens
  BY <1>4 DEF IInv, AlarmHasCause, FamiliesFit
<1> QED BY <1>1, <1>2, <1>3, <1>4, <1>5, <1>6, <1>7, <1>8, SoundStep

LEMMA LoginPassInv ==
  ASSUME IInv, NEW b \in Tabs, LoginPass(b) PROVE IInv'
<1> DEFINE q == [tab[b] EXCEPT !.at = "admitted"]
<1>1. /\ tab[b].at \in {"password", "passed"}
      /\ tab[b].at = "password" => tab[b].pw # Wrong
      /\ tab' = [tab EXCEPT ![b] = q]
      /\ user' = [user EXCEPT !.failures = 0, !.locked = FALSE]
      /\ history' = [history EXCEPT !.tried = 0]
      /\ UNCHANGED <<sessions, links, jar, operator>>
  BY DEF LoginPass, At
<1>2. /\ user' \in Account /\ user'.pw = user.pw /\ user'.disabled = user.disabled
      /\ user'.batch = user.batch /\ user'.codes \subseteq user.codes
  BY <1>1 DEF IInv, SessionsTypeOK, Account
<1>3. /\ q \in Request /\ q.at = "admitted" /\ q.token = tab[b].token /\ q.pw = tab[b].pw
      /\ q.family = tab[b].family /\ q.late = tab[b].late
  BY RequestsAt DEF IInv, Places, CookiePlaces, Entering
<1> HIDE DEF q
<1>4. Others({b}, {}) /\ tab'[b] = q /\ Fades BY <1>1, <1>3, TabMoves, SameFades DEF IInv
<1>5. /\ history' \in History /\ history'.tried = 0 /\ history'.ended = history.ended
      /\ history'.alarms = history.alarms /\ history'.raced = history.raced
      /\ history'.uses = history.uses /\ history'.disturbed = history.disturbed
  BY <1>1, TriedIs DEF IInv
<1>6. SessionsTypeOK' BY <1>1, <1>2, <1>4, <1>5 DEF IInv, SessionsTypeOK, Others
<1>7. StandsOn({}) BY <1>1, <1>2, <1>4, <1>5, CalmStands
<1>8. GuessesFit' BY <1>5, <1>6, GuessesForgotten DEF IInv
<1>9. AlarmHasCause' /\ history'.ended \subseteq Tokens
  BY <1>5 DEF IInv, AlarmHasCause, FamiliesFit
<1>10. TabFits(b) /\ WillStand(b) BY DEF IInv
<1>11. TabFits(b)' BY <1>1, <1>3, <1>4, <1>10 DEF TabFits, Renewing, Entering
<1>12. HonestMove(b) BY <1>1, <1>3, <1>4 DEF HonestMove, Renewing, Entering, CookiePlaces
<1>13. WillStand(b)'
  <2>1. tab[b].pw \in Nat BY DEF IInv, SessionsTypeOK, Request
  <2>2. PICK w \in Nat : w = tab[b].pw BY <2>1
  <2>3. Stands(0, w) => Stands(0, w)' BY <1>7 DEF StandsOn
  <2>4. tab'[b].pw = w BY <1>3, <1>4, <2>2
  <2>5. ~q.late => Entry(b) BY <1>1, <1>3 DEF Entry, Entering
  <2>6. ~tab'[b].late => Stands(0, w)' BY <1>4, <1>10, <2>2, <2>3, <2>5 DEF WillStand
  <2> QED BY <1>3, <1>4, <2>4, <2>6 DEF WillStand, Entry, Succeeds, Stands
<1> QED BY <1>1, <1>2, <1>3, <1>4, <1>5, <1>6, <1>7, <1>8, <1>9, <1>11, <1>12, <1>13, SoundStep

LEMMA ResetPasswordInv ==
  ASSUME IInv, NEW b \in Tabs, ResetPassword(b) PROVE IInv'
<1> DEFINE q == [tab[b] EXCEPT !.at = "unlinking"]
<1>1. /\ tab[b].at = "setting" /\ tab' = [tab EXCEPT ![b] = q]
      /\ user' = [user EXCEPT !.pw = tab[b].pw, !.failures = 0, !.locked = FALSE]
      /\ history' = [history EXCEPT !.tried = 0]
      /\ UNCHANGED <<sessions, links, jar, operator>>
  BY DEF ResetPassword, At
<1>2. PICK w \in Nat : w = tab[b].pw BY DEF IInv, SessionsTypeOK, Request
<1>3. /\ user' \in Account /\ user'.disabled = user.disabled
      /\ user'.batch = user.batch /\ user'.codes \subseteq user.codes
  BY <1>1, <1>2 DEF IInv, SessionsTypeOK, Account
<1>4. q \in Request /\ q.at = "unlinking" BY RequestsAt DEF IInv, Places
<1> HIDE DEF q
<1>5. Others({b}, {}) /\ tab'[b] = q /\ Fades BY <1>1, <1>4, TabMoves, SameFades DEF IInv
<1>6. /\ history' \in History /\ history'.tried = 0 /\ history'.ended = history.ended
      /\ history'.alarms = history.alarms /\ history'.raced = history.raced
      /\ history'.uses = history.uses /\ history'.disturbed = history.disturbed
  BY <1>1, TriedIs DEF IInv
<1>7. SessionsTypeOK' BY <1>1, <1>3, <1>5, <1>6 DEF IInv, SessionsTypeOK, Others
<1>8. tab'[b].at = "unlinking" BY <1>4, <1>5
<1>9. StandsOn({}) BY <1>1, <1>3, <1>6, <1>8 DEF StandsOn, Stands
<1>10. GuessesFit' BY <1>6, <1>7, GuessesForgotten DEF IInv
<1>11. AlarmHasCause' /\ history'.ended \subseteq Tokens
  BY <1>6 DEF IInv, AlarmHasCause, FamiliesFit
<1>12. TabFits(b)' BY <1>8 DEF TabFits, Renewing, Entering
<1>13. HonestMove(b) BY <1>1, <1>8 DEF HonestMove, Renewing, Entering, CookiePlaces
<1>14. WillStand(b)' BY <1>8 DEF WillStand, Entry, Succeeds, Entering
<1> QED BY <1>1, <1>3, <1>5, <1>6, <1>7, <1>8, <1>9, <1>10, <1>11, <1>12, <1>13, <1>14, SoundStep
LEMMA CodesAre ==
  /\ NoCode \notin Codes
  /\ \A n \in 1..MaxBatches : \A c \in Batch(n) : c \in Codes /\ c[1] = n
  /\ \A c \in Codes : c[1] \in Nat
BY SessionsAssumption DEF NoCode, Codes, Batch

LEMMA LoginReadInv ==
  ASSUME IInv, NEW b \in Tabs, LoginRead(b) PROVE IInv'
<1>1. PICK pw \in {Wrong, user.pw}, code \in {NoCode} \cup user.codes :
        /\ code # NoCode => pw # Wrong /\ user.totp = "on"
        /\ Begin(b, [Resting EXCEPT !.at = "password", !.pw = pw, !.code = code])
        /\ history' = [Disturb(b) EXCEPT
             !.tried = IF pw = Wrong THEN @ + 1 ELSE @,
             !.raced = IF \E o \in Tabs : At(o, "password") /\ tab[o].code = code
                       THEN @ \cup ({code} \cap Codes) ELSE @]
  BY DEF LoginRead
<1> DEFINE q == [Resting EXCEPT !.at = "password", !.pw = pw, !.code = code]
<1>2. /\ ~user.disabled /\ ~user.locked /\ tab[b].at = "rest" /\ tab' = [tab EXCEPT ![b] = q]
      /\ UNCHANGED <<user, sessions, links, jar, operator>>
  BY <1>1 DEF LoginRead, Begin, At
<1>3. pw \in Nat /\ code \in Codes \cup {NoCode} BY AccountIs DEF IInv, Wrong
<1>4. /\ q \in Request /\ q.at = "password" /\ q.pw = pw /\ q.code = code /\ q.family = 0
      /\ q.late = FALSE
  BY <1>3, RestingIs DEF Request, Places, CookiePlaces, Entering
<1> HIDE DEF q
<1>5. Others({b}, {}) /\ tab'[b] = q /\ Fades BY <1>2, <1>4, TabMoves, SameFades DEF IInv
<1>6. PICK n \in Nat, r \in SUBSET Codes :
        /\ n = IF pw = Wrong THEN history.tried + 1 ELSE history.tried
        /\ r = IF \E o \in Tabs : At(o, "password") /\ tab[o].code = code
               THEN history.raced \cup ({code} \cap Codes) ELSE history.raced
  <2>1. history.tried \in Nat /\ history.raced \subseteq Codes
    BY DEF IInv, SessionsTypeOK, History
  <2> DEFINE n == IF pw = Wrong THEN history.tried + 1 ELSE history.tried
             r == IF \E o \in Tabs : At(o, "password") /\ tab[o].code = code
                  THEN history.raced \cup ({code} \cap Codes) ELSE history.raced
  <2>2. n \in Nat BY <2>1
  <2>3. r \in SUBSET Codes BY <2>1
  <2> HIDE DEF n, r
  <2>4. \E m \in Nat, s \in SUBSET Codes : m = n /\ s = r BY <2>2, <2>3
  <2> QED BY <2>4 DEF n, r
<1>7. history' = [Disturb(b) EXCEPT !.tried = n, !.raced = r]
  BY <1>1, <1>6, DisturbIs DEF IInv
<1>8. /\ history' \in History /\ history'.tried = n /\ history'.raced = r
      /\ history'.ended = history.ended /\ history'.alarms = history.alarms
      /\ history'.uses = history.uses /\ history'.disturbed = Disturb(b).disturbed
      /\ history.disturbed \subseteq history'.disturbed
  BY <1>7, DisturbIs DEF IInv, History
<1>9. SessionsTypeOK' BY <1>2, <1>5, <1>8 DEF IInv, SessionsTypeOK, Others
<1>10. StandsOn({}) BY <1>2, <1>5, <1>8, CalmStands
<1>11. TabFits(b)' BY <1>1, <1>4, <1>5 DEF TabFits, Renewing, Entering
<1>12. HonestMove(b)
  BY <1>2, <1>4, <1>5, <1>8, DisturbIs
     DEF IInv, HonestMove, Renewing, Entering, CookiePlaces, Busy
<1>13. WillStand(b)'
  <2>1. 0 \notin history.ended BY DEF IInv, FamiliesFit, Tokens
  <2> QED BY <1>1, <1>2, <1>4, <1>5, <1>8, <2>1
        DEF WillStand, Entry, Succeeds, Stands, Entering
<1>14. OneWorks'
  BY <1>4, <1>5, OneStays DEF IInv
<1>15. CodesFit'
  <2>1. \A o \in Tabs \ {b}, c \in Codes : Offers(o, c)' <=> Offers(o, c)
    BY <1>5 DEF Offers, Others
  <2>2. \A c \in Codes : (Offers(b, c)' <=> c = code) /\ ~Offers(b, c)
    BY <1>2, <1>4, <1>5 DEF Offers
  <2>3. user' = user /\ history'.uses = history.uses /\ history.raced \subseteq r
    BY <1>2, <1>6, <1>8
  <2>4. ASSUME NEW c \in Codes, c[1] > user'.batch
        PROVE  c \notin user'.codes /\ history'.uses[c] = 0 /\ \A o \in Tabs : ~Offers(o, c)'
    <3>1. c # code BY <2>3, <2>4, CodesAre DEF IInv, CodesFit
    <3> QED BY <2>1, <2>2, <2>3, <2>4, <3>1 DEF IInv, CodesFit
  <2>5. ASSUME NEW c \in Codes, c \notin r
        PROVE  /\ history'.uses[c] <= 1
               /\ history'.uses[c] # 0 => c \notin user'.codes /\ \A o \in Tabs : ~Offers(o, c)'
               /\ \A a, o \in Tabs : Offers(a, c)' /\ Offers(o, c)' => a = o
    <3>1. c \notin history.raced BY <2>3, <2>5
    <3>2. history.uses[c] # 0 => c # code BY <3>1, CodesAre DEF IInv, CodesFit
    <3>3. c = code => \A o \in Tabs : ~Offers(o, c)
      BY <1>6, <2>5 DEF Offers, At
    <3> QED BY <2>1, <2>2, <2>3, <3>1, <3>2, <3>3 DEF IInv, CodesFit
  <2> QED BY <1>8, <2>4, <2>5 DEF CodesFit
<1>16. GuessesFit'
  <2>1. \A o \in Tabs \ {b} : (o \in OnTheirWay') <=> (o \in OnTheirWay)
    BY <1>5 DEF OnTheirWay, Others
  <2>2. b \notin OnTheirWay /\ (b \in OnTheirWay' <=> pw = Wrong)
    BY <1>2, <1>4, <1>5 DEF OnTheirWay
  <2>3. OnTheirWay \subseteq Tabs /\ OnTheirWay' \subseteq Tabs BY DEF OnTheirWay
  <2>4. IsFiniteSet(OnTheirWay) /\ Cardinality(OnTheirWay) \in Nat BY WaysCount
  <2>5. Cardinality(OnTheirWay') <= Cardinality(Tabs) /\ Cardinality(Tabs) \in Nat
    BY <2>3, SessionsAssumption, FS_Subset, FS_CardinalityType
  <2>6. user.failures \in Nat /\ LockAfter \in Nat \ {0} /\ history.tried \in Nat
    BY SessionsAssumption DEF IInv, SessionsTypeOK, Account, History
  <2>7. IF user.failures < LockAfter
        THEN history.tried <= user.failures + Cardinality(OnTheirWay)
        ELSE history.tried <= Cardinality(OnTheirWay)
    BY <1>2 DEF IInv, GuessesFit
  <2>8. CASE pw = Wrong
    <3>1. OnTheirWay' = OnTheirWay \cup {b} BY <2>1, <2>2, <2>3, <2>8
    <3>2. Cardinality(OnTheirWay') = Cardinality(OnTheirWay) + 1
      BY <2>2, <2>4, <3>1, FS_AddElement
    <3>3. n = history.tried + 1 BY <1>6, <2>8
    <3> QED BY <1>2, <1>8, <2>4, <2>5, <2>6, <2>7, <3>2, <3>3
          DEF GuessesFit, GuessesAreBounded
  <2>9. CASE pw # Wrong
    <3>1. OnTheirWay' = OnTheirWay BY <2>1, <2>2, <2>3, <2>9
    <3>2. n = history.tried BY <1>6, <2>9
    <3> QED BY <1>2, <1>8, <3>1, <3>2 DEF IInv, GuessesFit, GuessesAreBounded
  <2> QED BY <2>8, <2>9
<1>17. AlarmHasCause' /\ history'.ended \subseteq Tokens
  BY <1>8 DEF IInv, AlarmHasCause, FamiliesFit
<1> QED BY <1>2, <1>5, <1>8, <1>9, <1>10, <1>11, <1>12, <1>13, <1>14, <1>15, <1>16, <1>17, QuietStep

LEMMA LoginFailInv ==
  ASSUME IInv, NEW b \in Tabs, LoginFail(b) PROVE IInv'
<1>1. /\ tab[b].at = "password" /\ tab[b].pw = Wrong /\ user' = FailedLogin
      /\ tab' = [tab EXCEPT ![b] = Resting]
      /\ UNCHANGED <<sessions, links, jar, operator, history>>
  BY DEF LoginFail, At
<1>12. user.failures \in Nat /\ user.locked \in BOOLEAN BY DEF IInv, SessionsTypeOK, Account
<1>13. PICK n \in Nat :
         n = IF user.failures < LockAfter THEN user.failures + 1 ELSE user.failures
  BY <1>12
<1>14. PICK l \in BOOLEAN : l = (user.locked \/ user.failures + 1 >= LockAfter) OBVIOUS
<1>2. /\ n = IF user.failures < LockAfter THEN user.failures + 1 ELSE user.failures
      /\ l = (user.locked \/ user.failures + 1 >= LockAfter)
  BY <1>13, <1>14
<1>3. user \in Account /\ user' = [user EXCEPT !.failures = n, !.locked = l]
  BY <1>1, <1>2 DEF FailedLogin, IInv, SessionsTypeOK
<1>4. /\ user' \in Account /\ user'.pw = user.pw /\ user'.disabled = user.disabled
      /\ user'.batch = user.batch /\ user'.codes = user.codes
      /\ user'.failures = n /\ user'.locked = l
  BY <1>3 DEF Account
<1>5. Others({b}, {}) /\ tab'[b] = Resting /\ Fades
  BY <1>1, RestingIs, TabMoves, SameFades DEF IInv
<1>6. SessionsTypeOK' BY <1>1, <1>4, <1>5 DEF IInv, SessionsTypeOK, Others
<1>7. StandsOn({}) BY <1>1, <1>4, <1>5, CalmStands
<1>8. TabFits(b)' /\ WillStand(b)' /\ tab'[b].at = "rest"
  BY <1>5, RestingIs DEF TabFits, WillStand, Entry, Succeeds, Entering, Renewing
<1>9. HonestMove(b) BY <1>1, <1>8 DEF HonestMove, CookiePlaces, Entering, Renewing
<1>10. GuessesFit'
  <2>1. b \in OnTheirWay /\ OnTheirWay' = OnTheirWay \ {b}
    BY <1>1, <1>5, <1>8 DEF OnTheirWay, Others
  <2>2. IsFiniteSet(OnTheirWay) /\ Cardinality(OnTheirWay) \in Nat BY WaysCount
  <2>3. Cardinality(OnTheirWay') = Cardinality(OnTheirWay) - 1
    BY <2>1, <2>2, FS_RemoveElement
  <2>4. user.failures \in Nat /\ LockAfter \in Nat \ {0} /\ history.tried \in Nat
    BY SessionsAssumption DEF IInv, SessionsTypeOK, Account, History
  <2>5. GuessesFit BY DEF IInv
  <2>6. history' = history BY <1>1
  <2>7. ASSUME ~l PROVE n < LockAfter /\ history.tried <= n + Cardinality(OnTheirWay')
    <3>1. ~user.locked /\ ~(user.failures + 1 >= LockAfter) BY <1>2, <2>7
    <3>2. user.failures < LockAfter /\ n = user.failures + 1 BY <1>13, <2>4, <3>1
    <3> QED BY <2>2, <2>3, <2>4, <2>5, <3>1, <3>2 DEF GuessesFit
  <2> QED BY <1>4, <2>5, <2>6, <2>7 DEF GuessesFit, GuessesAreBounded
<1>11. AlarmHasCause' /\ history'.ended \subseteq Tokens
  BY <1>1 DEF IInv, AlarmHasCause, FamiliesFit
<1> QED BY <1>1, <1>4, <1>5, <1>6, <1>7, <1>8, <1>9, <1>10, <1>11, SoundStep
LEMMA LoginCodeInv ==
  ASSUME IInv, NEW b \in Tabs, LoginCode(b) PROVE IInv'
<1> DEFINE q == [tab[b] EXCEPT !.at = "passed", !.code = NoCode]
<1>1. /\ tab[b].at = "password" /\ tab[b].code # NoCode
      /\ user' = [user EXCEPT !.codes = @ \ {tab[b].code}]
      /\ tab' = [tab EXCEPT ![b] = q]
      /\ history' = [history EXCEPT !.uses[tab[b].code] = IF @ < 2 THEN @ + 1 ELSE @]
      /\ UNCHANGED <<sessions, links, jar, operator>>
  BY DEF LoginCode, At
<1>2. PICK k \in Codes : k = tab[b].code
  BY <1>1 DEF IInv, SessionsTypeOK, Request
<1>3. TabFits(b) /\ WillStand(b) BY DEF IInv
<1>4. tab[b].pw # Wrong BY <1>1, <1>3 DEF TabFits
<1>5. /\ q \in Request /\ q.at = "passed" /\ q.token = tab[b].token /\ q.pw = tab[b].pw
      /\ q.family = tab[b].family /\ q.late = tab[b].late
  BY DEF IInv, SessionsTypeOK, Request, Places, CookiePlaces, Entering
<1> HIDE DEF q
<1>6. Others({b}, {}) /\ tab'[b] = q /\ Fades BY <1>1, <1>5, TabMoves, SameFades DEF IInv
<1>7. PICK s \in SUBSET Codes : s = user.codes \ {k} BY AccountIs DEF IInv
<1>8. user \in Account /\ user' = [user EXCEPT !.codes = s]
  BY <1>1, <1>2, <1>7 DEF IInv, SessionsTypeOK
<1>9. /\ user' \in Account /\ user'.pw = user.pw /\ user'.disabled = user.disabled
      /\ user'.batch = user.batch /\ user'.codes = s
      /\ user'.failures = user.failures /\ user'.locked = user.locked
  BY <1>8 DEF Account
<1>10. history.uses \in [Codes -> Nat] BY DEF IInv, SessionsTypeOK, History
<1>11. PICK n \in Nat : n = IF history.uses[k] < 2 THEN history.uses[k] + 1 ELSE history.uses[k]
  BY <1>10
<1>12. PICK u \in [Codes -> Nat] : u = [history.uses EXCEPT ![k] = n] BY <1>10
<1>13. history \in History /\ history' = [history EXCEPT !.uses = u]
  BY <1>1, <1>2, <1>11, <1>12 DEF IInv, SessionsTypeOK
<1>14. /\ history' \in History /\ history'.tried = history.tried
       /\ history'.ended = history.ended /\ history'.alarms = history.alarms
       /\ history'.raced = history.raced /\ history'.disturbed = history.disturbed
       /\ history'.uses = u
  BY <1>13 DEF History
<1>15. SessionsTypeOK' BY <1>1, <1>6, <1>9, <1>14 DEF IInv, SessionsTypeOK, Others
<1>16. StandsOn({}) BY <1>1, <1>6, <1>9, <1>14, CalmStands
<1>17. TabFits(b)' BY <1>1, <1>3, <1>5, <1>6 DEF TabFits, Renewing, Entering
<1>18. HonestMove(b) BY <1>1, <1>5, <1>6 DEF HonestMove, Renewing, Entering, CookiePlaces
<1>19. WillStand(b)'
  <2>1. PICK w \in Nat : w = tab[b].pw BY DEF IInv, SessionsTypeOK, Request
  <2>2. Stands(0, w) => Stands(0, w)' BY <1>16 DEF StandsOn
  <2>3. ~q.late => Stands(0, w) BY <1>1, <1>3, <1>4, <1>5, <2>1 DEF WillStand, Entry, Entering
  <2> QED BY <1>5, <1>6, <2>1, <2>2, <2>3 DEF WillStand, Entry, Succeeds, Stands
<1>20. OneWorks' BY <1>5, <1>6, OneStays DEF IInv
<1>21. CodesFit'
  <2>1. \A o \in Tabs, c \in Codes : Offers(o, c)' <=> o # b /\ Offers(o, c)
    BY <1>5, <1>6 DEF Offers, Others
  <2>2. Offers(b, k) BY <1>1, <1>2 DEF Offers
  <2>3. k \notin s /\ s \subseteq user.codes /\ \A c \in Codes \ {k} : u[c] = history.uses[c]
    BY <1>7, <1>10, <1>12
  <2>4. u[k] = n BY <1>10, <1>12
  <2>5. \A c \in Codes : c[1] > user.batch => c # k BY <2>2 DEF IInv, CodesFit
  <2>6. k \notin history.raced => n <= 1
    BY <1>10, <1>11, <2>2 DEF IInv, CodesFit
  <2>7. \A c \in Codes : c[1] > user'.batch =>
          c \notin user'.codes /\ history'.uses[c] = 0 /\ \A o \in Tabs : ~Offers(o, c)'
    BY <1>9, <1>14, <2>1, <2>3, <2>5 DEF IInv, CodesFit
  <2>8. \A c \in Codes \ history'.raced : c # k =>
          /\ history'.uses[c] <= 1
          /\ history'.uses[c] # 0 => c \notin user'.codes /\ \A o \in Tabs : ~Offers(o, c)'
          /\ \A a, o \in Tabs : Offers(a, c)' /\ Offers(o, c)' => a = o
    BY <1>9, <1>14, <2>1, <2>3 DEF IInv, CodesFit
  <2>9. k \notin history.raced =>
          /\ history'.uses[k] <= 1 /\ k \notin user'.codes
          /\ \A o \in Tabs : ~Offers(o, k)'
    BY <1>9, <1>14, <2>1, <2>2, <2>3, <2>4, <2>6 DEF IInv, CodesFit
  <2> QED BY <1>14, <2>7, <2>8, <2>9 DEF CodesFit
<1>22. GuessesFit' BY <1>4, <1>5, <1>6, <1>9, <1>14, GuessesStay DEF IInv
<1>23. AlarmHasCause' /\ history'.ended \subseteq Tokens
  BY <1>14 DEF IInv, AlarmHasCause, FamiliesFit
<1> QED BY <1>1, <1>6, <1>14, <1>15, <1>16, <1>17, <1>18, <1>19, <1>20, <1>21, <1>22, <1>23, QuietStep

LEMMA EnableTotpInv ==
  ASSUME IInv, NEW b \in Tabs, EnableTotp(b) PROVE IInv'
<1>1. /\ tab[b].at = "enabling" /\ user.batch < MaxBatches
      /\ user' = [user EXCEPT !.totp = "on", !.codes = Batch(user.batch + 1), !.batch = @ + 1]
      /\ tab' = [tab EXCEPT ![b] = Resting]
      /\ UNCHANGED <<sessions, links, jar, operator, history>>
  BY DEF EnableTotp, At
<1>2. PICK n \in 1..MaxBatches : n = user.batch + 1
  BY <1>1, AccountIs, SessionsAssumption DEF IInv
<1>3. PICK s \in SUBSET Codes : s = Batch(n) BY <1>2, CodesAre
<1>4. /\ user \in Account /\ n \in Nat
      /\ user' = [user EXCEPT !.totp = "on", !.codes = s, !.batch = n]
  BY <1>1, <1>2, <1>3, SessionsAssumption DEF IInv, SessionsTypeOK
<1>5. /\ user' \in Account /\ user'.pw = user.pw /\ user'.disabled = user.disabled
      /\ user'.batch = n /\ user'.codes = s
      /\ user'.failures = user.failures /\ user'.locked = user.locked
  BY <1>4 DEF Account
<1>6. Others({b}, {}) /\ tab'[b] = Resting /\ Fades
  BY <1>1, RestingIs, TabMoves, SameFades DEF IInv
<1>7. SessionsTypeOK' BY <1>1, <1>5, <1>6 DEF IInv, SessionsTypeOK, Others
<1>8. StandsOn({}) BY <1>1, <1>5, <1>6, CalmStands
<1>9. TabFits(b)' /\ WillStand(b)' /\ tab'[b].at = "rest"
  BY <1>6, RestingIs DEF TabFits, WillStand, Entry, Succeeds, Entering, Renewing
<1>10. HonestMove(b) BY <1>1, <1>9 DEF HonestMove, CookiePlaces, Entering, Renewing
<1>11. OneWorks' BY <1>6, <1>9, OneStays DEF IInv
<1>12. CodesFit'
  <2>1. \A o \in Tabs, c \in Codes : Offers(o, c)' => Offers(o, c)
    BY <1>6, <1>9 DEF Offers, Others
  <2>2. \A c \in Codes : c[1] \in Nat /\ (c \in s => c[1] = n) BY <1>3, CodesAre
  <2>3. user.batch \in Nat BY AccountIs DEF IInv
  <2>4. \A c \in Codes : c[1] > user'.batch =>
          c \notin user'.codes /\ history'.uses[c] = 0 /\ \A o \in Tabs : ~Offers(o, c)'
    BY <1>1, <1>2, <1>5, <2>1, <2>2, <2>3 DEF IInv, CodesFit
  <2>5. \A c \in Codes \ history'.raced :
          /\ history'.uses[c] <= 1
          /\ history'.uses[c] # 0 => c \notin user'.codes /\ \A o \in Tabs : ~Offers(o, c)'
          /\ \A a, o \in Tabs : Offers(a, c)' /\ Offers(o, c)' => a = o
    BY <1>1, <1>2, <1>5, <2>1, <2>2, <2>3 DEF IInv, CodesFit
  <2> QED BY <2>4, <2>5 DEF CodesFit
<1>13. GuessesFit' BY <1>1, <1>5, <1>6, <1>9, GuessesStay DEF IInv
<1>14. AlarmHasCause' /\ history'.ended \subseteq Tokens
  BY <1>1 DEF IInv, AlarmHasCause, FamiliesFit
<1> QED BY <1>1, <1>6, <1>7, <1>8, <1>9, <1>10, <1>11, <1>12, <1>13, <1>14, QuietStep
-----------------------------------------------------------------------------
(* A session is created *)

LEMMA AppendIs ==
  ASSUME NEW s \in Session, NEW q \in Seq(Session)
  PROVE  LET n == Append(q, s)
         IN /\ n \in Seq(Session) /\ Len(n) = Len(q) + 1 /\ n[Len(q) + 1] = s
            /\ \A t \in 1..Len(q) : n[t] = q[t]
OBVIOUS

\* The sessions get one more, s at n.
Creates(n, s) ==
  /\ sessions' \in Seq(Session) /\ Tokens' = Tokens \cup {n} /\ n \notin Tokens
  /\ sessions'[n] = s
  /\ \A t \in Tokens :
       /\ sessions'[t] \in Session
       /\ sessions'[t].family = sessions[t].family /\ sessions'[t].pw = sessions[t].pw
       /\ sessions'[t].by = sessions[t].by /\ sessions'[t].escaped = sessions[t].escaped
       /\ sessions'[t].state = sessions[t].state

LEMMA Created ==
  ASSUME SessionsTypeOK, NEW s \in Session, sessions' = Append(sessions, s),
         NEW n \in Nat, n = Len(sessions) + 1
  PROVE  Creates(n, s)
<1>1. sessions \in Seq(Session) /\ Len(sessions) \in Nat BY DEF SessionsTypeOK
<1>2. /\ sessions' \in Seq(Session) /\ Len(sessions') = n /\ sessions'[n] = s
      /\ \A t \in 1..Len(sessions) : sessions'[t] = sessions[t] /\ sessions[t] \in Session
  BY <1>1, AppendIs
<1>3. Tokens' = Tokens \cup {n} /\ n \notin Tokens BY <1>1, <1>2 DEF Tokens
<1> QED BY <1>2, <1>3 DEF Creates, Tokens

\* A request that creates a session s of its browser: the first of a family, or the
\* successor of a token that was rotated.
LEMMA IssueStep ==
  ASSUME IInv, NEW b \in Tabs, NEW s \in Session, NEW n \in Nat, Creates(n, s),
         Others({b}, {}), tab'[b].at = "answer", tab'[b].token = n,
         tab[b].at \in {"admitted", "successor"},
         UNCHANGED <<user, jar, operator, history>>, s.by = BrowserOf[b],
         s.family = n \/ (s.family \in Tokens /\ sessions[s.family].by = s.by),
         ~s.escaped => /\ Stands(s.family, s.pw)
                       /\ \A t \in Tokens : Works(t) => sessions[t].family # s.family
                       /\ \A c \in Tabs \ {b} : Succeeds(c) => tab[c].family # s.family,
         BrowserOf[b] \notin history.disturbed =>
           \A t \in Tokens : Live(t) => sessions[t].family # s.family
  PROVE  IInv'
<1>2. /\ sessions' \in Seq(Session) /\ Tokens' = Tokens \cup {n} /\ n \notin Tokens
      /\ sessions'[n] = s
  BY DEF Creates
<1>21. \A t \in Tokens :
         /\ sessions'[t].family = sessions[t].family /\ sessions'[t].pw = sessions[t].pw
         /\ sessions'[t].by = sessions[t].by /\ sessions'[t].escaped = sessions[t].escaped
         /\ sessions'[t].state = sessions[t].state
  BY DEF Creates
<1>3. Others({b}, {}) /\ tab'[b].at = "answer" OBVIOUS
<1>4. \A c \in Tabs \ {b} : /\ tab'[c].at = tab[c].at /\ tab'[c].token = tab[c].token
                            /\ tab'[c].family = tab[c].family /\ tab'[c].pw = tab[c].pw
                            /\ tab'[c].code = tab[c].code
                            /\ tab[c].late => tab'[c].late
  BY DEF Others
<1>1. sessions \in Seq(Session) /\ Len(sessions) \in Nat /\ IInv BY DEF IInv, SessionsTypeOK
<1>5. SessionsTypeOK' BY <1>2, <1>3 DEF IInv, SessionsTypeOK, Others
<1>6. \A t \in Tokens : sessions[t].family \in Tokens /\ sessions[t] \in Session
  BY <1>1 DEF IInv, FamiliesFit, Tokens
<1>7. tab'[b].token = n OBVIOUS
<1>8. s.family = n \/ (s.family \in Tokens /\ sessions[s.family].by = s.by) OBVIOUS
<1>9. FamiliesFit'
  <2>1. \A t \in Tokens' : /\ sessions'[t].family \in Tokens'
                           /\ sessions'[sessions'[t].family].by = sessions'[t].by
    <3>1. CASE s.family = n BY <1>2, <1>6, <1>21, <3>1 DEF IInv, FamiliesFit
    <3>2. CASE s.family \in Tokens BY <1>2, <1>6, <1>8, <1>21, <3>2 DEF IInv, FamiliesFit
    <3> QED BY <1>8, <3>1, <3>2
  <2>2. \A br \in Browsers : jar'[br] # NoToken =>
          jar'[br] \in Tokens' /\ sessions'[jar'[br]].by = br
    BY <1>2, <1>21 DEF IInv, FamiliesFit
  <2>3. history'.ended \subseteq Tokens' BY <1>2 DEF IInv, FamiliesFit
  <2> QED BY <2>1, <2>2, <2>3 DEF FamiliesFit
<1>10. \A f \in Nat, w \in Nat : Stands(f, w) => Stands(f, w)'
  <2>1. (\E c \in Tabs : tab[c].at \in {"unlinking", "revoking"}) =>
          \E c \in Tabs : tab'[c].at \in {"unlinking", "revoking"}
    BY <1>4
  <2> QED BY <2>1 DEF Stands
<1>11. RevocationHolds'
  <2>1. ASSUME NEW t \in Tokens', sessions'[t].state = "live", ~sessions'[t].escaped
        PROVE  \E f \in Nat, w \in Nat :
                 f = sessions'[t].family /\ w = sessions'[t].pw /\ Stands(f, w)'
    <3>1. PICK f \in Nat, w \in Nat : f = sessions'[t].family /\ w = sessions'[t].pw
      BY <1>2, <1>21, <1>6 DEF Session
    <3>2. CASE t = n BY <1>2, <1>10, <2>1, <3>1, <3>2
    <3>3. CASE t \in Tokens
      <4>1. sessions[t].state = "live" /\ ~sessions[t].escaped BY <1>2, <1>21, <2>1, <3>3
      <4>2. f = sessions[t].family /\ w = sessions[t].pw BY <1>2, <1>21, <3>1, <3>3
      <4>3. Stands(f, w) BY <3>3, <4>1, <4>2 DEF IInv, RevocationHolds, Live, Stands
      <4> QED BY <1>10, <3>1, <4>3
    <3> QED BY <1>2, <3>2, <3>3
  <2> QED BY <2>1 DEF RevocationHolds, Live, Stands
<1>12. ASSUME NEW c \in Tabs, Succeeds(c)'
       PROVE  /\ c # b /\ Succeeds(c) /\ tab'[c].family = tab[c].family
              /\ tab[c].token \in Tokens /\ tab'[c].token = tab[c].token
              /\ tab[c].family = sessions[tab[c].token].family
  <2>1. c # b BY <1>3, <1>12 DEF Succeeds
  <2>2. tab[c].at = "successor" BY <1>4, <1>12, <2>1 DEF Succeeds
  <2>3. tab[c].token \in Tokens /\ tab[c].family = sessions[tab[c].token].family
    BY <2>2 DEF IInv, TabFits, Renewing
  <2> QED BY <1>21, <1>4, <1>12, <2>1, <2>3 DEF Succeeds
<1>13. OneWorks'
  <2>1. \A t \in Tokens : Works(t)' <=> Works(t) BY <1>21 DEF Works, Live
  <2>2. Works(n)' => ~s.escaped BY <1>2 DEF Works
  <2>3. \A t, u \in Tokens' :
          Works(t)' /\ Works(u)' /\ sessions'[t].family = sessions'[u].family => t = u
    BY <1>2, <1>21, <2>1, <2>2 DEF IInv, OneWorks
  <2>4. ASSUME NEW c \in Tabs, NEW t \in Tokens', Succeeds(c)', Works(t)'
        PROVE  sessions'[t].family # tab'[c].family
    BY <1>2, <1>12, <1>21, <2>1, <2>2, <2>4 DEF IInv, OneWorks
  <2>5. ASSUME NEW c \in Tabs, NEW d \in Tabs, Succeeds(c)', Succeeds(d)',
               tab'[c].family = tab'[d].family
        PROVE  c = d
    BY <1>12, <2>5 DEF IInv, OneWorks
  <2> QED BY <2>3, <2>4, <2>5 DEF OneWorks
<1>14. CodesFit'
  <2>1. CodesFit /\ \A c \in Tabs \cap {b} : tab'[c].at # "password" BY <1>3 DEF IInv
  <2> QED BY <1>3, <2>1, CodesStay
<1>15. GuessesFit'
  <2>1. GuessesFit /\ \A c \in Tabs \cap {b} : (tab'[c].at = "password" /\ tab'[c].pw = Wrong)
                                              <=> (tab[c].at = "password" /\ tab[c].pw = Wrong)
    BY <1>3 DEF IInv
  <2> QED BY <1>3, <2>1, GuessesStay
<1>16. AlarmHasCause' BY DEF IInv, AlarmHasCause
<1>17. ASSUME NEW c \in Tabs PROVE TabFits(c)'
  <2>1. CASE c = b BY <1>2, <1>3, <1>7, <2>1 DEF TabFits, Renewing, Entering
  <2>2. CASE c # b
    <3>1. TabFits(c) BY DEF IInv
    <3>2. c \in Tabs \ {b} BY <2>2
    <3> QED BY <1>2, <1>21, <1>4, <3>1, <3>2 DEF TabFits, Renewing, Entering, Live
  <2> QED BY <2>1, <2>2
<1>18. ASSUME NEW c \in Tabs PROVE WillStand(c)'
  <2>1. WillStand(c) /\ TabFits(c) BY DEF IInv
  <2>2. ASSUME Entry(c)' PROVE \E w \in Nat : w = tab'[c].pw /\ Stands(0, w)'
    <3>1. c # b BY <1>3, <2>2 DEF Entry, Entering
    <3>2. PICK w \in Nat : w = tab[c].pw BY DEF IInv, SessionsTypeOK, Request
    <3> QED BY <1>4, <1>10, <2>1, <2>2, <3>1, <3>2 DEF WillStand, Entry
  <2>3. ASSUME Succeeds(c)'
        PROVE  \E f \in Nat, w \in Nat :
                 f = tab'[c].family /\ w = sessions'[tab'[c].token].pw /\ Stands(f, w)'
    <3>1. PICK f \in Nat, w \in Nat : f = tab[c].family /\ w = sessions[tab[c].token].pw
      BY <1>6, <1>12, <2>3 DEF Session
    <3> QED BY <1>21, <1>10, <1>12, <2>1, <2>3, <3>1 DEF WillStand
  <2> QED BY <2>2, <2>3 DEF WillStand, Stands
<1>19. ASSUME NEW br \in Browsers PROVE Honest(br)'
  <2> SUFFICES ASSUME br \notin history.disturbed PROVE Honest(br)' BY DEF Honest
  <2>1. Honest(br) BY DEF IInv
  <2>2. \A c \in Tabs : tab'[c].at \in CookiePlaces <=> tab[c].at \in CookiePlaces
    BY <1>3, <1>4 DEF CookiePlaces, Entering, Renewing
  <2>3. tab[b].at \in CookiePlaces BY DEF CookiePlaces, Entering, Renewing
  <2>4. s.family \in Tokens =>
          \A t \in Tokens : sessions[t].family = s.family => sessions[t].by = BrowserOf[b]
    BY <1>8, <1>2 DEF IInv, FamiliesFit
  <2>5. ASSUME NEW c \in Tabs, BrowserOf[c] = br, tab'[c].at \in Renewing
        PROVE  tab'[c].token = jar'[br]
    <3>1. c # b BY <1>3, <2>5 DEF Renewing
    <3> QED BY <1>4, <2>1, <2>5, <3>1 DEF Honest
  <2>6. ASSUME NEW t \in Tokens', jar'[br] # NoToken, sessions'[t].state = "live",
               sessions'[t].family = sessions'[jar'[br]].family
        PROVE  \/ t = jar'[br]
               \/ \E c \in Tabs : BrowserOf[c] = br /\ tab'[c].at = "answer" /\ tab'[c].token = t
    <3>1. jar[br] \in Tokens /\ sessions[jar[br]].by = br BY <2>6 DEF IInv, FamiliesFit
    <3>2. CASE t = n
      <4>1. s.family = sessions[jar[br]].family BY <1>2, <1>21, <2>6, <3>1, <3>2
      <4>2. s.family \in Tokens BY <1>6, <3>1, <4>1
      <4>3. BrowserOf[b] = br BY <2>4, <3>1, <4>1, <4>2
      <4> QED BY <1>3, <1>7, <3>2, <4>3
    <3>3. CASE t \in Tokens
      <4>1. sessions[t].state = "live" /\ sessions[t].family = sessions[jar[br]].family
        BY <1>2, <1>21, <2>6, <3>1, <3>3
      <4>2. CASE t # jar[br]
        <5>1. PICK c \in Tabs : BrowserOf[c] = br /\ tab[c].at = "answer" /\ tab[c].token = t
          BY <2>1, <2>6, <3>3, <4>1, <4>2 DEF Honest, Live
        <5>2. c # b BY <5>1
        <5> QED BY <1>4, <5>1, <5>2
      <4> QED BY <4>2
    <3> QED BY <1>2, <3>2, <3>3
  <2>7. ASSUME NEW c \in Tabs, NEW t \in Tokens', BrowserOf[c] = br, sessions'[t].state = "live",
               tab'[c].at = "successor"
        PROVE  sessions'[t].family # tab'[c].family
    <3>1. c # b /\ tab[c].at = "successor" /\ tab'[c].family = tab[c].family
      BY <1>3, <1>4, <2>7
    <3>2. /\ tab[c].token \in Tokens /\ sessions[tab[c].token].by = br
          /\ tab[c].family = sessions[tab[c].token].family
      BY <2>7, <3>1 DEF IInv, TabFits, Renewing
    <3>3. CASE t = n /\ s.family = tab[c].family
      <4>1. BrowserOf[b] = br BY <1>2, <1>6, <2>4, <3>2, <3>3
      <4> QED BY <2>1, <2>3, <2>7, <3>1, <4>1 DEF Honest, Busy, CookiePlaces, Renewing
    <3>4. CASE t \in Tokens
      BY <1>21, <2>1, <2>7, <3>1, <3>4 DEF Honest, Live
    <3> QED BY <1>2, <3>1, <3>3, <3>4
  <2>8. ASSUME NEW c \in Tabs, NEW t \in Tokens', BrowserOf[c] = br, sessions'[t].state = "live",
               tab'[c].at = "answer", tab'[c].token # NoToken,
               sessions'[t].family = sessions'[tab'[c].token].family
        PROVE  t = tab'[c].token
    <3>1. CASE c = b
      <4>1. tab'[c].token = n BY <1>3, <1>7, <3>1
      <4>2. CASE t \in Tokens BY <1>2, <1>21, <2>8, <3>1, <4>1, <4>2 DEF Live
      <4> QED BY <1>2, <4>1, <4>2
    <3>2. CASE c # b
      <4>1. tab[c].at = "answer" /\ tab'[c].token = tab[c].token BY <1>4, <2>8, <3>2
      <4>2. tab[c].token \in Tokens /\ sessions[tab[c].token].by = br
        BY <2>8, <4>1 DEF IInv, TabFits
      <4>3. CASE t = n
        <5>1. s.family = sessions[tab[c].token].family BY <1>2, <1>21, <2>8, <4>1, <4>2, <4>3
        <5>2. BrowserOf[b] = br BY <1>6, <2>4, <4>2, <5>1
        <5> QED BY <2>1, <2>3, <2>8, <3>2, <4>1, <5>2 DEF Honest, Busy, CookiePlaces
      <4>4. CASE t \in Tokens
        BY <1>21, <2>1, <2>8, <4>1, <4>2, <4>4 DEF Honest, Live
      <4> QED BY <1>2, <4>3, <4>4
    <3> QED BY <3>1, <3>2
  <2>9. \A c, d \in Tabs : BrowserOf[c] = br /\ BrowserOf[d] = br
          /\ tab'[c].at \in CookiePlaces /\ tab'[d].at \in CookiePlaces => c = d
    BY <2>1, <2>2 DEF Honest, Busy
  <2> QED BY <2>5, <2>6, <2>7, <2>8, <2>9 DEF Honest, Busy, Live
<1> QED BY <1>5, <1>9, <1>11, <1>13, <1>14, <1>15, <1>16, <1>17, <1>18, <1>19 DEF IInv
LEMMA LoginIssueInv ==
  ASSUME IInv, NEW b \in Tabs, LoginIssue(b) PROVE IInv'
<1>1. sessions \in Seq(Session) /\ Len(sessions) \in Nat BY DEF IInv, SessionsTypeOK
<1>2. PICK n \in Nat : n = Len(sessions) + 1 BY <1>1
<1> DEFINE s == [family |-> n, pw |-> tab[b].pw, by |-> BrowserOf[b], state |-> "live",
                 escaped |-> tab[b].late]
           q == [tab[b] EXCEPT !.at = "answer", !.token = n]
<1>3. /\ tab[b].at = "admitted" /\ sessions' = Append(sessions, s)
      /\ tab' = [tab EXCEPT ![b] = q] /\ UNCHANGED <<user, jar, operator, history>>
  BY <1>2 DEF LoginIssue, Create, At
<1>4. /\ s \in Session /\ s.family = n /\ s.pw = tab[b].pw /\ s.by = BrowserOf[b]
      /\ s.escaped = tab[b].late
  BY SessionsAssumption DEF IInv, SessionsTypeOK, Session, Request
<1>5. q \in Request /\ q.at = "answer" /\ q.token = n
  BY DEF IInv, SessionsTypeOK, Request, Places, CookiePlaces
<1> HIDE DEF s, q
<1>6. Creates(n, s) BY <1>2, <1>3, <1>4, Created DEF IInv
<1>7. Others({b}, {}) /\ tab'[b] = q BY <1>3, <1>5, TabMoves DEF IInv
<1>8. n \notin Tokens /\ \A t \in Tokens : sessions[t].family \in Tokens
  BY <1>6 DEF Creates, IInv, FamiliesFit
<1>9. WillStand(b) /\ \A c \in Tabs : TabFits(c) BY DEF IInv
<1>10. ~s.escaped => Stands(n, s.pw)
  <2>1. ~s.escaped => Stands(0, tab[b].pw)
    BY <1>3, <1>4, <1>9 DEF WillStand, Entry, Entering
  <2>2. n \notin history.ended BY <1>8 DEF IInv, FamiliesFit
  <2> QED BY <1>4, <2>1, <2>2 DEF Stands
<1>11. \A c \in Tabs : Succeeds(c) => tab[c].family # n
  BY <1>8, <1>9 DEF Succeeds, TabFits, Renewing
<1>12. ~s.escaped => /\ Stands(s.family, s.pw)
                     /\ \A t \in Tokens : Works(t) => sessions[t].family # s.family
                     /\ \A c \in Tabs \ {b} : Succeeds(c) => tab[c].family # s.family
  BY <1>4, <1>8, <1>10, <1>11
<1>13. BrowserOf[b] \notin history.disturbed =>
         \A t \in Tokens : Live(t) => sessions[t].family # s.family
  BY <1>4, <1>8
<1> QED BY <1>3, <1>4, <1>5, <1>6, <1>7, <1>12, <1>13, IssueStep

LEMMA RefreshIssueInv ==
  ASSUME IInv, NEW b \in Tabs, RefreshIssue(b) PROVE IInv'
<1>1. sessions \in Seq(Session) /\ Len(sessions) \in Nat BY DEF IInv, SessionsTypeOK
<1>2. PICK n \in Nat : n = Len(sessions) + 1 BY <1>1
<1> DEFINE k   == tab[b].token
           esc == tab[b].late \/ sessions[k].escaped
           s   == [family |-> sessions[k].family, pw |-> sessions[k].pw, by |-> sessions[k].by,
                   state |-> "live", escaped |-> esc]
           q   == [tab[b] EXCEPT !.at = "answer", !.token = n]
<1>3. /\ tab[b].at = "successor" /\ sessions' = Append(sessions, s)
      /\ tab' = [tab EXCEPT ![b] = q] /\ UNCHANGED <<user, jar, operator, history>>
  BY <1>2 DEF RefreshIssue, Create, At
<1>4. WillStand(b) /\ \A c \in Tabs : TabFits(c) BY DEF IInv
<1>5. k \in Tokens /\ sessions[k].by = BrowserOf[b] /\ tab[b].family = sessions[k].family
  BY <1>3, <1>4 DEF TabFits, Renewing
<1>6. sessions[k] \in Session BY <1>1, <1>5 DEF Tokens
<1>7. esc \in BOOLEAN OBVIOUS
<1> HIDE DEF esc, k
<1>8. /\ s \in Session /\ s.family = tab[b].family /\ s.pw = sessions[k].pw
      /\ s.by = BrowserOf[b] /\ s.escaped = esc
  BY <1>5, <1>6, <1>7 DEF Session
<1>9. q \in Request /\ q.at = "answer" /\ q.token = n
  BY DEF IInv, SessionsTypeOK, Request, Places, CookiePlaces
<1> HIDE DEF s, q
<1>10. Creates(n, s) BY <1>2, <1>3, <1>8, Created DEF IInv
<1>11. Others({b}, {}) /\ tab'[b] = q BY <1>3, <1>9, TabMoves DEF IInv
<1>12. s.family \in Tokens /\ sessions[s.family].by = s.by
  BY <1>5, <1>8 DEF IInv, FamiliesFit
<1>13. ~s.escaped => Succeeds(b) BY <1>3, <1>8 DEF Succeeds, esc, k
<1>14. Succeeds(b) => Stands(tab[b].family, sessions[tab[b].token].pw) BY <1>4 DEF WillStand
<1>15. ~s.escaped => /\ Stands(s.family, s.pw)
                     /\ \A t \in Tokens : Works(t) => sessions[t].family # s.family
                     /\ \A c \in Tabs \ {b} : Succeeds(c) => tab[c].family # s.family
  BY <1>8, <1>13, <1>14 DEF IInv, OneWorks, k
<1>16. BrowserOf[b] \notin history.disturbed =>
         \A t \in Tokens : Live(t) => sessions[t].family # s.family
  BY <1>3, <1>8, SessionsAssumption DEF IInv, Honest
<1> QED BY <1>3, <1>8, <1>9, <1>10, <1>11, <1>12, <1>15, <1>16, IssueStep

LEMMA RevokedIs ==
  ASSUME NEW s \in Session
  PROVE  /\ Revoked(s) \in Session /\ Revoked(s).state # "live"
         /\ Revoked(s).family = s.family /\ Revoked(s).pw = s.pw /\ Revoked(s).by = s.by
         /\ Revoked(s).escaped = s.escaped
<1>1. CASE s.state = "live" BY <1>1 DEF Revoked, Session
<1>2. CASE s.state # "live" BY <1>2 DEF Revoked
<1> QED BY <1>1, <1>2

LEMMA RotateInv ==
  ASSUME IInv, NEW b \in Tabs, Rotate(b) PROVE IInv'
<1> DEFINE k    == tab[b].token
           late == ~Live(k)
           s    == Revoked(sessions[k])
           q    == [tab[b] EXCEPT !.at = "successor", !.late = late]
<1>1. /\ tab[b].at = "rotate" /\ sessions' = [sessions EXCEPT ![k] = s]
      /\ tab' = [tab EXCEPT ![b] = q] /\ UNCHANGED <<user, links, jar, operator, history>>
  BY DEF Rotate, At
<1>2. late \in BOOLEAN OBVIOUS
<1> HIDE DEF late
<1>3. \A c \in Tabs : TabFits(c) BY DEF IInv
<1>4. k \in Tokens /\ sessions[k].by = BrowserOf[b] /\ tab[b].family = sessions[k].family
  BY <1>1, <1>3 DEF TabFits, Renewing
<1>5. sessions \in Seq(Session) /\ Len(sessions) \in Nat /\ sessions[k] \in Session
  BY <1>4 DEF IInv, SessionsTypeOK, Tokens
<1>6. /\ s \in Session /\ s.state # "live" /\ s.family = sessions[k].family
      /\ s.pw = sessions[k].pw /\ s.by = sessions[k].by /\ s.escaped = sessions[k].escaped
  BY <1>5, RevokedIs
<1>7. /\ q \in Request /\ q.at = "successor" /\ q.token = tab[b].token
      /\ q.family = tab[b].family /\ q.late = late
  BY <1>2 DEF IInv, SessionsTypeOK, Request, Places, CookiePlaces, Renewing
<1> HIDE DEF s, q
<1>8. Fades /\ sessions'[k].state # "live" BY <1>1, <1>4, <1>5, <1>6 DEF Fades, Tokens
<1>9. Others({b}, {}) /\ tab'[b] = q BY <1>1, <1>7, TabMoves DEF IInv
<1>10. Tokens' = Tokens BY <1>8, TokensFade
<1>11. \A t \in Tokens :
         /\ sessions'[t].family = sessions[t].family /\ sessions'[t].pw = sessions[t].pw
         /\ sessions'[t].by = sessions[t].by /\ sessions'[t].escaped = sessions[t].escaped
         /\ sessions'[t].state = "live" => Live(t) /\ t # k
  BY <1>8 DEF Fades, Live
<1>12. /\ tab'[b].at = "successor" /\ tab'[b].token = k /\ tab'[b].family = sessions[k].family
       /\ tab'[b].late <=> ~Live(k)
  BY <1>4, <1>7, <1>9 DEF late
<1>13. TabFits(b)' BY <1>4, <1>10, <1>11, <1>12 DEF TabFits, Renewing, Entering
<1>14. Succeeds(b)' => Works(k) BY <1>4, <1>11, <1>12 DEF Succeeds, Works
<1>15. WillStand(b)'
  <2>1. ASSUME Succeeds(b)' PROVE Stands(sessions[k].family, sessions[k].pw)
    BY <1>4, <1>14, <2>1 DEF Works, IInv, RevocationHolds, Stands
  <2>2. PICK f \in Nat, w \in Nat : f = sessions[k].family /\ w = sessions[k].pw
    BY <1>5 DEF Session
  <2>3. StandsOn({}) BY <1>1, <1>9, CalmStands
  <2>4. f \in Families BY <1>4, <2>2 DEF Families
  <2>5. Stands(f, w) => Stands(f, w)' BY <2>3, <2>4 DEF StandsOn
  <2> QED BY <1>4, <1>11, <1>12, <2>1, <2>2, <2>5 DEF WillStand, Entry, Entering, Stands
<1>16. OneWorks'
  <2>1. \A t \in Tokens : Works(t)' => Works(t) /\ t # k BY <1>11 DEF Works, Live
  <2>2. ASSUME NEW c \in Tabs \ {b}, Succeeds(c)'
        PROVE  Succeeds(c) /\ tab'[c].family = tab[c].family
    <3>1. /\ tab[c].at = "successor" /\ tab'[c].token = tab[c].token
          /\ tab'[c].family = tab[c].family /\ ~tab[c].late
      BY <1>9, <2>2 DEF Succeeds, Others
    <3>2. tab[c].token \in Tokens BY <1>3, <3>1 DEF TabFits, Renewing
    <3> QED BY <1>11, <2>2, <3>1, <3>2 DEF Succeeds
  <2>3. OneWorks BY DEF IInv
  <2>4. \A t, u \in Tokens' : Works(t)' /\ Works(u)' /\ sessions'[t].family = sessions'[u].family
                                => t = u
    BY <1>10, <1>11, <2>1, <2>3 DEF OneWorks
  <2>5. ASSUME NEW c \in Tabs, NEW t \in Tokens', Succeeds(c)', Works(t)'
        PROVE  sessions'[t].family # tab'[c].family
    <3>1. CASE c = b BY <1>4, <1>10, <1>11, <1>12, <1>14, <2>1, <2>3, <2>5, <3>1 DEF OneWorks
    <3>2. CASE c # b BY <1>10, <1>11, <2>1, <2>2, <2>3, <2>5, <3>2 DEF OneWorks
    <3> QED BY <3>1, <3>2
  <2>6. ASSUME NEW c \in Tabs \ {b}, Succeeds(b)', Succeeds(c)'
        PROVE  tab'[c].family # tab'[b].family
    BY <1>4, <1>12, <1>14, <2>2, <2>3, <2>6 DEF OneWorks
  <2>7. ASSUME NEW c \in Tabs, NEW d \in Tabs, Succeeds(c)', Succeeds(d)',
               tab'[c].family = tab'[d].family
        PROVE  c = d
    BY <2>2, <2>3, <2>6, <2>7 DEF OneWorks
  <2> QED BY <2>4, <2>5, <2>7 DEF OneWorks
<1>17. HonestMove(b)
  <2> SUFFICES ASSUME BrowserOf[b] \notin history.disturbed PROVE HonestMove(b)
    BY <1>1 DEF HonestMove
  <2>1. BrowserOf[b] \in Browsers BY SessionsAssumption
  <2>2. Honest(BrowserOf[b]) BY <2>1 DEF IInv
  <2>3. k = jar[BrowserOf[b]] BY <1>1, <2>2 DEF Honest, Renewing
  <2>4. k # NoToken BY <1>4 DEF Tokens, NoToken
  <2>5. \A c \in Tabs : BrowserOf[c] = BrowserOf[b] => tab[c].at # "answer"
    BY <1>1, <2>2 DEF Honest, Busy, CookiePlaces, Renewing
  <2>6. \A t \in Tokens : Live(t) /\ sessions[t].family = sessions[k].family => t = k
    BY <2>2, <2>3, <2>4, <2>5 DEF Honest
  <2>7. \A t \in Tokens : sessions'[t].state = "live" => sessions[t].family # tab'[b].family
    BY <1>11, <1>12, <2>6
  <2>8. tab[b].at \in CookiePlaces /\ tab[b].at # "answer"
    BY <1>1 DEF CookiePlaces, Renewing
  <2> QED BY <1>12, <2>3, <2>7, <2>8 DEF HonestMove
<1>18. CodesFit' BY <1>1, <1>9, <1>12, CodesStay DEF IInv
<1>19. GuessesFit' BY <1>1, <1>9, <1>12, GuessesStay DEF IInv
<1>20. StandsOn({}) BY <1>1, <1>9, CalmStands
<1>21. SessionsTypeOK' BY <1>1, <1>8, <1>9 DEF IInv, SessionsTypeOK, Others, Fades
<1>22. AlarmHasCause' /\ history'.ended \subseteq Tokens
  BY <1>1 DEF IInv, AlarmHasCause, FamiliesFit
<1> QED BY <1>1, <1>8, <1>9, <1>13, <1>15, <1>16, <1>17, <1>18, <1>19, <1>20, <1>21, <1>22, QuietStep
-----------------------------------------------------------------------------
(* Families are ended *)

LEMMA FamilyFades ==
  ASSUME SessionsTypeOK, NEW f, sessions' = RevokedFamily(f)
  PROVE  Fades /\ \A t \in Tokens : sessions[t].family = f => sessions'[t].state # "live"
<1>1. \A t \in Tokens : sessions[t] \in Session BY DEF SessionsTypeOK, Tokens
<1>2. /\ sessions' \in Seq(Session) /\ Len(sessions') = Len(sessions)
      /\ \A t \in Tokens : sessions'[t] = IF sessions[t].family = f THEN Revoked(sessions[t])
                                          ELSE sessions[t]
  <2> DEFINE e(t) == IF t \in Family(f) THEN Revoked(sessions[t]) ELSE sessions[t]
  <2>1. \A t \in Tokens : e(t) \in Session BY <1>1, RevokedIs
  <2>2. sessions' = [t \in Tokens |-> e(t)] BY DEF RevokedFamily
  <2>3. \A t \in Tokens : e(t) = IF sessions[t].family = f THEN Revoked(sessions[t])
                                 ELSE sessions[t]
    BY DEF Family
  <2> HIDE DEF e
  <2>4. Len(sessions) \in Nat BY DEF SessionsTypeOK
  <2>5. sessions' \in Seq(Session) /\ Len(sessions') = Len(sessions)
    BY <2>1, <2>2, <2>4 DEF Tokens
  <2> QED BY <2>2, <2>3, <2>5
<1> QED BY <1>1, <1>2, RevokedIs DEF Fades

LEMMA AllFade ==
  ASSUME SessionsTypeOK, sessions' = RevokedAll
  PROVE  Fades /\ \A t \in Tokens : sessions'[t].state # "live"
<1>1. \A t \in Tokens : sessions[t] \in Session BY DEF SessionsTypeOK, Tokens
<1> DEFINE e(t) == Revoked(sessions[t])
<1>2. \A t \in Tokens : e(t) \in Session BY <1>1, RevokedIs
<1>3. sessions' = [t \in Tokens |-> e(t)] BY DEF RevokedAll
<1>4. \A t \in Tokens :
        /\ e(t).family = sessions[t].family /\ e(t).pw = sessions[t].pw
        /\ e(t).by = sessions[t].by /\ e(t).escaped = sessions[t].escaped
        /\ e(t).state # "live"
  BY <1>1, RevokedIs
<1> HIDE DEF e
<1>5. Len(sessions) \in Nat BY DEF SessionsTypeOK
<1>6. sessions' \in Seq(Session) /\ Len(sessions') = Len(sessions)
  BY <1>2, <1>3, <1>5 DEF Tokens
<1> QED BY <1>3, <1>4, <1>6 DEF Fades

\* The families D end, and what is on its way in them is overtaken.
LEMMA EndStep ==
  ASSUME IInv, SessionsTypeOK', Fades, NEW D, NEW M, Others(M, D), M \subseteq Tabs,
         \A b, c \in M : b = c, UNCHANGED <<user, jar>>, StandsOn(D),
         \A t \in Tokens : sessions[t].family \in D => sessions'[t].state # "live",
         \A b \in M : /\ tab[b].at \notin {"answer", "password"}
                      /\ tab'[b].at = "rest"
                         \/ (tab'[b].at = "answer" /\ tab'[b].token = NoToken /\ Busy(b)),
         history'.ended \subseteq Tokens, AlarmHasCause',
         history'.disturbed = history.disturbed, history'.raced = history.raced,
         history'.uses = history.uses, history'.tried = history.tried
  PROVE  IInv'
<1>1. GuessesFit'
  <2>1. GuessesFit
        /\ \A b \in Tabs \cap M : (tab'[b].at = "password" /\ tab'[b].pw = Wrong)
                                      <=> (tab[b].at = "password" /\ tab[b].pw = Wrong)
    BY DEF IInv
  <2> QED BY <2>1, GuessesStay
<1>2. ASSUME NEW b \in M
      PROVE  /\ TabFits(b)' /\ WillStand(b)' /\ HonestMove(b)
             /\ tab'[b].at # "password" /\ tab'[b].at # "successor"
  BY DEF TabFits, WillStand, HonestMove, Entry, Succeeds, Entering, Renewing, CookiePlaces, Busy
<1> QED BY <1>1, <1>2, SoundStep

\* What a family's end does to the history.
LEMMA EndedIs ==
  ASSUME SessionsTypeOK, NEW e \in SUBSET Nat, NEW a \in SUBSET Browsers, NEW n \in Nat,
         history' = [history EXCEPT !.ended = e, !.alarms = a, !.events = n]
  PROVE  /\ history' \in History /\ history'.ended = e /\ history'.alarms = a
         /\ history'.tried = history.tried /\ history'.raced = history.raced
         /\ history'.uses = history.uses /\ history'.disturbed = history.disturbed
BY DEF SessionsTypeOK, History
\* A family's end leaves the others' sessions standing.
LEMMA EndStands ==
  ASSUME NEW D, NEW M, NEW fs, Others(M, fs), user' = user, operator' = operator,
         history'.ended = history.ended \cup D,
         \A b \in Tabs \cap M : tab[b].at \notin {"unlinking", "revoking"}
  PROVE  StandsOn(D)
<1>1. (\E b \in Tabs : tab[b].at \in {"unlinking", "revoking"}) =>
        \E b \in Tabs : tab'[b].at \in {"unlinking", "revoking"}
  BY DEF Others
<1> QED BY <1>1 DEF StandsOn, Stands

LEMMA HistoryIs ==
  ASSUME SessionsTypeOK
  PROVE  /\ history \in History /\ history.ended \subseteq Nat /\ history.alarms \subseteq Browsers
         /\ history.events \in Nat /\ history = [history EXCEPT !.events = history.events]
         /\ Tokens \subseteq Nat
BY DEF SessionsTypeOK, History, Tokens

LEMMA RefreshBurnInv ==
  ASSUME IInv, NEW b \in Tabs, RefreshBurn(b) PROVE IInv'
<1> DEFINE f == tab[b].family
           loud == \E t \in Family(f) : Live(t)
<1>1. /\ tab[b].at = "reuse" /\ sessions' = RevokedFamily(f)
      /\ tab' = [Overtaken({f}) EXCEPT ![b] = Resting]
      /\ history' = [history EXCEPT !.ended = @ \cup {f},
           !.alarms = IF loud THEN @ \cup {sessions[f].by} ELSE @]
      /\ UNCHANGED <<user, links, jar, operator>>
  BY DEF RefreshBurn, At
<1>2. TabFits(b) /\ SessionsTypeOK BY DEF IInv
<1>3. PICK k \in Tokens : /\ k = tab[b].token /\ sessions[k].by = BrowserOf[b]
                          /\ f = sessions[k].family /\ ~Live(k)
  BY <1>1, <1>2 DEF TabFits, Renewing
<1>4. f \in Tokens /\ sessions[f].by = BrowserOf[b] /\ BrowserOf[b] \in Browsers
  BY <1>3, SessionsAssumption DEF IInv, FamiliesFit
<1>5. loud => BrowserOf[b] \in history.disturbed
  <2> SUFFICES ASSUME BrowserOf[b] \notin history.disturbed, loud PROVE FALSE OBVIOUS
  <2>1. Honest(BrowserOf[b]) BY <1>4 DEF IInv
  <2>2. k = jar[BrowserOf[b]] BY <1>1, <1>3, <2>1 DEF Honest, Renewing
  <2>3. k # NoToken BY <1>2, <1>3 DEF Tokens, NoToken
  <2>4. PICK t \in Tokens : sessions[t].family = f /\ Live(t) BY DEF Family
  <2>5. PICK c \in Tabs : BrowserOf[c] = BrowserOf[b] /\ tab[c].at = "answer"
    BY <1>3, <2>1, <2>2, <2>3, <2>4 DEF Honest
  <2>6. Busy(c) /\ Busy(b) BY <1>1, <2>5 DEF Busy, CookiePlaces, Renewing
  <2>7. c = b BY <2>1, <2>5, <2>6 DEF Honest
  <2> QED BY <1>1, <2>5, <2>7
<1>6. PICK e \in SUBSET Nat : e = history.ended \cup {f} BY <1>2, <1>4, HistoryIs
<1>7. PICK a \in SUBSET Browsers :
        a = IF loud THEN history.alarms \cup {sessions[f].by} ELSE history.alarms
  <2>1. CASE loud
    <3>1. \E a \in SUBSET Browsers : a = history.alarms \cup {sessions[f].by}
      BY <1>2, <1>4, HistoryIs
    <3> QED BY <2>1, <3>1
  <2>2. CASE ~loud BY <1>2, <2>2, HistoryIs
  <2> QED BY <2>1, <2>2
<1>8. history' = [history EXCEPT !.ended = e, !.alarms = a, !.events = history.events]
  <2>1. history' = [history EXCEPT !.ended = e, !.alarms = a] BY <1>1, <1>6, <1>7
  <2>2. history \in History BY <1>2, HistoryIs
  <2> QED BY <2>1, <2>2 DEF History
<1>9. /\ history' \in History /\ history'.ended = e /\ history'.alarms = a
      /\ history'.tried = history.tried /\ history'.raced = history.raced
      /\ history'.uses = history.uses /\ history'.disturbed = history.disturbed
  BY <1>2, <1>8, EndedIs, HistoryIs
<1>10. Fades /\ \A t \in Tokens : sessions[t].family \in {f} => sessions'[t].state # "live"
  BY <1>1, <1>2, FamilyFades
<1>11. Others({b}, {f}) /\ tab'[b] = Resting BY <1>1, <1>2, RestingIs, OvertakesBut
<1>12. StandsOn({f}) BY <1>1, <1>6, <1>9, <1>11, EndStands
<1>13. SessionsTypeOK' BY <1>1, <1>2, <1>9, <1>10, <1>11 DEF SessionsTypeOK, Others, Fades
<1>14. AlarmHasCause'
  BY <1>4, <1>5, <1>7, <1>9 DEF AlarmHasCause, IInv
<1>15. history'.ended \subseteq Tokens BY <1>4, <1>6, <1>9 DEF IInv, FamiliesFit
<1>16. \A c \in {b} : /\ tab[c].at \notin {"answer", "password"}
                      /\ tab'[c].at = "rest"
                         \/ (tab'[c].at = "answer" /\ tab'[c].token = NoToken /\ Busy(c))
  BY <1>1, <1>11, RestingIs
<1>17. {b} \subseteq Tabs /\ (\A c, d \in {b} : c = d) /\ UNCHANGED <<user, jar>> BY <1>1
<1> HIDE DEF f
<1> QED BY <1>9, <1>10, <1>11, <1>12, <1>13, <1>14, <1>15, <1>16, <1>17, EndStep

LEMMA LogoutRevokeInv ==
  ASSUME IInv, NEW b \in Tabs, LogoutRevoke(b) PROVE IInv'
<1> DEFINE f == tab[b].family
           q == [Overtaken({f})[b] EXCEPT !.at = "answer"]
<1>1. /\ tab[b].at = "leaving" /\ sessions' = RevokedFamily(f)
      /\ tab' = [Overtaken({f}) EXCEPT ![b] = q]
      /\ history' = [history EXCEPT !.ended = @ \cup {f}]
      /\ UNCHANGED <<user, links, jar, operator>>
  BY DEF LogoutRevoke, At
<1>2. TabFits(b) /\ SessionsTypeOK BY DEF IInv
<1>3. f \in Tokens /\ tab[b].token = NoToken BY <1>1, <1>2 DEF TabFits
<1>4. q \in Request /\ q.at = "answer" /\ q.token = tab[b].token
  <2>1. Overtaken({f})[b] \in Request /\ Overtaken({f})[b].token = tab[b].token
    BY <1>2, OvertakenIs
  <2> QED BY <2>1 DEF Request, Places, CookiePlaces
<1> HIDE DEF q
<1>5. PICK e \in SUBSET Nat : e = history.ended \cup {f} BY <1>2, <1>3, HistoryIs
<1>6. history' = [history EXCEPT !.ended = e, !.alarms = history.alarms, !.events = history.events]
  <2>1. history' = [history EXCEPT !.ended = e] BY <1>1, <1>5
  <2>2. history \in History BY <1>2, HistoryIs
  <2> QED BY <2>1, <2>2 DEF History
<1>7. /\ history' \in History /\ history'.ended = e /\ history'.alarms = history.alarms
      /\ history'.tried = history.tried /\ history'.raced = history.raced
      /\ history'.uses = history.uses /\ history'.disturbed = history.disturbed
  BY <1>2, <1>6, EndedIs, HistoryIs
<1>8. Fades /\ \A t \in Tokens : sessions[t].family \in {f} => sessions'[t].state # "live"
  BY <1>1, <1>2, FamilyFades
<1>9. Others({b}, {f}) /\ tab'[b] = q BY <1>1, <1>2, <1>4, OvertakesBut
<1>10. StandsOn({f}) BY <1>1, <1>5, <1>7, <1>9, EndStands
<1>11. SessionsTypeOK' BY <1>1, <1>2, <1>7, <1>8, <1>9 DEF SessionsTypeOK, Others, Fades
<1>12. AlarmHasCause' BY <1>7 DEF AlarmHasCause, IInv
<1>13. history'.ended \subseteq Tokens BY <1>3, <1>5, <1>7 DEF IInv, FamiliesFit
<1>14. Busy(b) BY <1>1 DEF Busy, CookiePlaces
<1>15. \A c \in {b} : /\ tab[c].at \notin {"answer", "password"}
                      /\ tab'[c].at = "rest"
                         \/ (tab'[c].at = "answer" /\ tab'[c].token = NoToken /\ Busy(c))
  BY <1>1, <1>3, <1>4, <1>9, <1>14
<1>16. {b} \subseteq Tabs /\ (\A c, d \in {b} : c = d) /\ UNCHANGED <<user, jar>> BY <1>1
<1> HIDE DEF f
<1> QED BY <1>7, <1>8, <1>9, <1>10, <1>11, <1>12, <1>13, <1>15, <1>16, EndStep

LEMMA RevokeSessionInv ==
  ASSUME IInv, NEW b \in Tabs, RevokeSession(b) PROVE IInv'
<1>1. PICK f \in Families :
        /\ sessions' = RevokedFamily(f) /\ tab' = Overtaken({f})
        /\ history' = [history EXCEPT !.ended = @ \cup {f}, !.events = @ + 1]
        /\ UNCHANGED <<user, links, jar, operator>>
  BY DEF RevokeSession
<1>2. SessionsTypeOK BY DEF IInv
<1>3. f \in Tokens BY DEF IInv, FamiliesFit, Families
<1>4. PICK e \in SUBSET Nat : e = history.ended \cup {f} BY <1>2, <1>3, HistoryIs
<1>5. PICK n \in Nat : n = history.events + 1 BY <1>2, HistoryIs
<1>6. history' = [history EXCEPT !.ended = e, !.alarms = history.alarms, !.events = n]
  <2>1. history' = [history EXCEPT !.ended = e, !.events = n] BY <1>1, <1>4, <1>5
  <2>2. history \in History BY <1>2, HistoryIs
  <2> QED BY <2>1, <2>2 DEF History
<1>7. /\ history' \in History /\ history'.ended = e /\ history'.alarms = history.alarms
      /\ history'.tried = history.tried /\ history'.raced = history.raced
      /\ history'.uses = history.uses /\ history'.disturbed = history.disturbed
  BY <1>2, <1>6, EndedIs, HistoryIs
<1>8. Fades /\ \A t \in Tokens : sessions[t].family \in {f} => sessions'[t].state # "live"
  BY <1>1, <1>2, FamilyFades
<1>9. Others({}, {f}) BY <1>1, <1>2, Overtakes
<1>10. StandsOn({f}) BY <1>1, <1>4, <1>7, <1>9, EndStands
<1>11. SessionsTypeOK' BY <1>1, <1>2, <1>7, <1>8, <1>9 DEF SessionsTypeOK, Others, Fades
<1>12. AlarmHasCause' BY <1>7 DEF AlarmHasCause, IInv
<1>13. history'.ended \subseteq Tokens BY <1>3, <1>4, <1>7 DEF IInv, FamiliesFit
<1> QED BY <1>1, <1>7, <1>8, <1>9, <1>10, <1>11, <1>12, <1>13, EndStep

LEMMA AllEndedIs ==
  ASSUME IInv, history' = [history EXCEPT !.ended = @ \cup Families]
  PROVE  /\ history' \in History /\ history'.ended = history.ended \cup Families
         /\ history'.alarms = history.alarms
         /\ history'.tried = history.tried /\ history'.raced = history.raced
         /\ history'.uses = history.uses /\ history'.disturbed = history.disturbed
<1>1. Families \subseteq Tokens BY DEF IInv, FamiliesFit, Families
<1>2. PICK e \in SUBSET Nat : e = history.ended \cup Families BY <1>1, HistoryIs DEF IInv
<1>3. history' = [history EXCEPT !.ended = e] /\ history \in History
  BY <1>2, HistoryIs DEF IInv
<1>4. /\ history' \in History /\ history'.ended = e /\ history'.alarms = history.alarms
      /\ history'.tried = history.tried /\ history'.raced = history.raced
      /\ history'.uses = history.uses /\ history'.disturbed = history.disturbed
  BY <1>3 DEF History
<1> QED BY <1>2, <1>4

\* A reset's last step, or the operator's, ends every session.
LEMMA EndAllInv ==
  ASSUME IInv, NEW M, M \subseteq Tabs, \A b, c \in M : b = c,
         Others(M, Families \cup {0}), UNCHANGED <<user, jar>>,
         Fades, \A t \in Tokens : sessions'[t].state # "live",
         \A b \in M : tab[b].at = "revoking" /\ tab'[b].at = "rest",
         history' \in History, history'.ended = history.ended \cup Families,
         history'.alarms = history.alarms,
         history'.tried = history.tried, history'.raced = history.raced,
         history'.uses = history.uses, history'.disturbed = history.disturbed
  PROVE  IInv'
<1>1. SessionsTypeOK' BY DEF IInv, SessionsTypeOK, Others, Fades
<1>2. StandsOn(Families \cup {0}) BY DEF StandsOn
<1>3. AlarmHasCause' BY DEF AlarmHasCause, IInv
<1>4. history'.ended \subseteq Tokens BY DEF IInv, FamiliesFit, Families
<1>5. \A t \in Tokens : sessions[t].family \in Families \cup {0} => sessions'[t].state # "live"
  OBVIOUS
<1>6. \A b \in M : /\ tab[b].at \notin {"answer", "password"}
                   /\ tab'[b].at = "rest"
                      \/ (tab'[b].at = "answer" /\ tab'[b].token = NoToken /\ Busy(b))
  OBVIOUS
<1> QED BY <1>1, <1>2, <1>3, <1>4, <1>5, <1>6, EndStep

LEMMA ResetRevokeInv ==
  ASSUME IInv, NEW b \in Tabs, ResetRevoke(b) PROVE IInv'
<1>1. /\ tab[b].at = "revoking" /\ sessions' = RevokedAll
      /\ tab' = [Overtaken(Families \cup {0}) EXCEPT ![b] = Resting]
      /\ history' = [history EXCEPT !.ended = @ \cup Families]
      /\ UNCHANGED <<user, links, jar, operator>>
  BY DEF ResetRevoke, At
<1>2. Others({b}, Families \cup {0}) /\ tab'[b] = Resting
  BY <1>1, RestingIs, OvertakesBut DEF IInv
<1>3. Fades /\ \A t \in Tokens : sessions'[t].state # "live" BY <1>1, AllFade DEF IInv
<1>4. \A c \in {b} : tab[c].at = "revoking" /\ tab'[c].at = "rest" BY <1>1, <1>2, RestingIs
<1>5. {b} \subseteq Tabs /\ (\A c, d \in {b} : c = d) /\ UNCHANGED <<user, jar>> BY <1>1
<1> QED BY <1>1, <1>2, <1>3, <1>4, <1>5, AllEndedIs, EndAllInv

LEMMA DisableRevokeInv ==
  ASSUME IInv, DisableRevoke PROVE IInv'
<1>1. /\ sessions' = RevokedAll /\ tab' = Overtaken(Families \cup {0})
      /\ history' = [history EXCEPT !.ended = @ \cup Families]
      /\ UNCHANGED <<user, jar>>
  BY DEF DisableRevoke
<1>2. Others({}, Families \cup {0}) BY <1>1, Overtakes DEF IInv
<1>3. Fades /\ \A t \in Tokens : sessions'[t].state # "live" BY <1>1, AllFade DEF IInv
<1> QED BY <1>1, <1>2, <1>3, AllEndedIs, EndAllInv

-----------------------------------------------------------------------------
(* An answer *)

LEMMA AnswerInv ==
  ASSUME IInv, NEW b \in Tabs, Answer(b) PROVE IInv'
<1> DEFINE k == tab[b].token
           home == BrowserOf[b]
<1>1. /\ tab[b].at = "answer" /\ jar' = [jar EXCEPT ![home] = k]
      /\ tab' = [tab EXCEPT ![b] = Resting]
      /\ UNCHANGED <<user, sessions, links, operator, history>>
  BY DEF Answer, At
<1>2. /\ SessionsTypeOK /\ FamiliesFit /\ RevocationHolds /\ OneWorks /\ CodesFit /\ GuessesFit
      /\ \A c \in Tabs : TabFits(c) /\ WillStand(c)
      /\ \A br \in Browsers : Honest(br)
  BY DEF IInv
<1>3. home \in Browsers /\ k \in Nat BY <1>2, SessionsAssumption DEF SessionsTypeOK, Request
<1>4. k # NoToken => k \in Tokens /\ sessions[k].by = home BY <1>1, <1>2 DEF TabFits
<1>5. Others({b}, {}) /\ tab'[b] = Resting /\ Fades
  BY <1>1, <1>2, RestingIs, TabMoves, SameFades
<1>6. tab'[b].at = "rest" BY <1>5, RestingIs
<1>7. jar' \in [Browsers -> Nat] /\ jar'[home] = k /\ \A br \in Browsers \ {home} : jar'[br] = jar[br]
  BY <1>1, <1>2, <1>3 DEF SessionsTypeOK
<1>8. SessionsTypeOK' BY <1>1, <1>2, <1>5, <1>7 DEF SessionsTypeOK, Others
<1>9. Tokens' = Tokens /\ sessions' = sessions BY <1>1, <1>5, TokensFade
<1>10. FamiliesFit'
  <2>1. \A br \in Browsers : jar'[br] # NoToken => jar'[br] \in Tokens /\ sessions[jar'[br]].by = br
    BY <1>2, <1>4, <1>7 DEF FamiliesFit
  <2> QED BY <1>1, <1>2, <1>9, <2>1 DEF FamiliesFit
<1>11. StandsOn({}) BY <1>1, <1>5, CalmStands
<1>12. TabFits(b)' /\ WillStand(b)'
  BY <1>6 DEF TabFits, WillStand, Entry, Succeeds, Entering, Renewing
<1>13. \A c \in Tabs \ {b} : TabFits(c)' BY <1>2, <1>5, TabsStay
<1>14. RevocationHolds' /\ \A c \in Tabs : WillStand(c)'
  <2>1. \A c \in Tabs \cap {b} : WillStand(c)' BY <1>12
  <2> QED BY <1>2, <1>5, <1>11, <2>1, StandStays
<1>15. OneWorks' BY <1>2, <1>5, <1>6, OneStays
<1>16. CodesFit' BY <1>1, <1>2, <1>5, <1>6, CodesStay
<1>17. GuessesFit' BY <1>1, <1>2, <1>5, <1>6, GuessesStay
<1>18. AlarmHasCause' BY <1>1 DEF IInv, AlarmHasCause
<1>19. \A c \in Tabs \ {b} : tab'[c].at = tab[c].at /\ tab'[c].token = tab[c].token
                              /\ tab'[c].family = tab[c].family
  BY <1>5 DEF Others
<1>20. ASSUME NEW br \in Browsers, br # home PROVE Honest(br)'
  <2>1. Honest(br) /\ jar'[br] = jar[br] BY <1>2, <1>7, <1>20
  <2>2. \A c \in Tabs : BrowserOf[c] = br => c # b BY <1>20
  <2> QED BY <1>1, <1>9, <1>19, <2>1, <2>2 DEF Honest, Busy, Live
<1>21. Honest(home)'
  <2> SUFFICES ASSUME home \notin history.disturbed PROVE Honest(home)' BY <1>1 DEF Honest
  <2>1. Honest(home) BY <1>2, <1>3
  <2>2. \A c \in Tabs : BrowserOf[c] = home => tab'[c].at \notin CookiePlaces
    <3>1. ASSUME NEW c \in Tabs, BrowserOf[c] = home, tab'[c].at \in CookiePlaces PROVE FALSE
      <4>1. c # b BY <1>6, <3>1 DEF CookiePlaces, Entering, Renewing
      <4>2. Busy(c) /\ Busy(b) BY <1>1, <1>19, <3>1, <4>1 DEF Busy, CookiePlaces
      <4> QED BY <2>1, <3>1, <4>1, <4>2 DEF Honest
    <3> QED BY <3>1
  <2>3. \A c \in Tabs : BrowserOf[c] = home =>
          tab'[c].at \notin Renewing /\ tab'[c].at # "answer" /\ tab'[c].at # "successor"
    BY <2>2 DEF CookiePlaces, Renewing
  <2>4. \A t \in Tokens : k # NoToken /\ Live(t) /\ sessions[t].family = sessions[k].family => t = k
    BY <1>1, <2>1 DEF Honest
  <2> QED BY <1>7, <1>9, <2>2, <2>3, <2>4 DEF Honest, Busy, Live
<1> HIDE DEF home, k
<1>22. PICK h \in Browsers : h = home BY <1>3
<1>23. Honest(h)' BY <1>21, <1>22 DEF Honest, home
<1>24. \A br \in Browsers : Honest(br)' BY <1>20, <1>22, <1>23
<1> QED BY <1>8, <1>10, <1>12, <1>13, <1>14, <1>15, <1>16, <1>17, <1>18, <1>24 DEF IInv
-----------------------------------------------------------------------------
(* The invariant *)

LEMMA InitInv == Init => IInv
<1> SUFFICES ASSUME Init PROVE IInv OBVIOUS
<1>1. /\ sessions = <<>> /\ jar = [b \in Browsers |-> NoToken] /\ tab = [b \in Tabs |-> Resting]
      /\ operator = "rest" /\ user.pw = 0 /\ user.failures = 0 /\ user.locked = FALSE
      /\ user.batch = (IF SecondFactor THEN 1 ELSE 0)
      /\ user.codes = (IF SecondFactor THEN Batch(1) ELSE {})
      /\ history = [ended |-> {}, disturbed |-> {}, alarms |-> {}, tried |-> 0, raced |-> {},
                    events |-> 0, uses |-> [c \in Codes |-> 0]]
  BY DEF Init
<1>2. Tokens = {} /\ sessions \in Seq(Session) BY <1>1 DEF Tokens
<1>3. \A b \in Tabs : tab[b] = Resting BY <1>1
<1>4. Batch(1) \subseteq Codes /\ \A c \in Batch(1) : c[1] = 1 BY CodesAre, SessionsAssumption
<1>5. user \in Account
  <2> DEFINE totp == IF SecondFactor THEN "on" ELSE "off"
             codes == IF SecondFactor THEN Batch(1) ELSE {}
             batch == IF SecondFactor THEN 1 ELSE 0
  <2>1. totp \in {"on", "off", "setup"} /\ codes \in SUBSET Codes /\ batch \in Nat BY <1>4
  <2>2. user = [pw |-> 0, failures |-> 0, locked |-> FALSE, disabled |-> FALSE,
                verified |-> FALSE, totp |-> totp, codes |-> codes, batch |-> batch]
    BY DEF Init
  <2> HIDE DEF totp, codes, batch
  <2> QED BY <2>1, <2>2 DEF Account
<1>6. history \in History
  <2>1. [c \in Codes |-> 0] \in [Codes -> Nat] OBVIOUS
  <2> QED BY <1>1, <2>1 DEF History
<1>7. /\ history.ended = {} /\ history.disturbed = {} /\ history.alarms = {}
      /\ history.tried = 0 /\ history.raced = {} /\ \A c \in Codes : history.uses[c] = 0
  BY <1>1
<1>8. SessionsTypeOK BY <1>1, <1>2, <1>5, <1>6, RestingIs DEF SessionsTypeOK, NoToken
<1>9. FamiliesFit BY <1>1, <1>2, <1>7 DEF FamiliesFit
<1>10. RevocationHolds BY <1>2 DEF RevocationHolds
<1>11. OneWorks BY <1>2, <1>3, RestingIs DEF OneWorks, Succeeds
<1>12. CodesFit
  <2>1. \A b \in Tabs, c \in Codes : ~Offers(b, c) BY <1>3, RestingIs DEF Offers
  <2>2. \A c \in Codes : c[1] > user.batch => c \notin user.codes BY <1>1, <1>4
  <2> QED BY <1>7, <2>1, <2>2 DEF CodesFit
<1>13. GuessesFit
  <2>1. Cardinality(OnTheirWay) \in Nat /\ Cardinality(Tabs) \in Nat BY WaysCount
  <2> QED BY <1>1, <1>7, <2>1, SessionsAssumption DEF GuessesFit, GuessesAreBounded
<1>14. AlarmHasCause BY <1>7 DEF AlarmHasCause
<1>15. \A b \in Tabs : TabFits(b) /\ WillStand(b)
  BY <1>3, RestingIs DEF TabFits, WillStand, Entry, Succeeds, Entering, Renewing
<1>16. \A b \in Tabs : tab[b].at = "rest" BY <1>3, RestingIs
<1>17. \A br \in Browsers : Honest(br)
  BY <1>2, <1>16 DEF Honest, Busy, CookiePlaces, Entering, Renewing
<1> QED BY <1>8, <1>9, <1>10, <1>11, <1>12, <1>13, <1>14, <1>15, <1>17 DEF IInv

LEMMA StutterInv == ASSUME IInv, UNCHANGED vars PROVE IInv'
<1>1. StandsOn({}) BY NoTabMoves, CalmStands DEF vars, IInv
<1> QED BY <1>1, SameFades, AccountIs, StillStep DEF vars, IInv

LEMMA NextInv == IInv /\ [Next]_vars => IInv'
<1> SUFFICES ASSUME IInv, [Next]_vars PROVE IInv' OBVIOUS
<1>1. ASSUME NEW b \in Tabs, Login(b) PROVE IInv'
  BY <1>1, LoginReadInv, LoginFailInv, LoginCodeInv, LoginPassInv, LoginIssueInv DEF Login
<1>2. ASSUME NEW b \in Tabs, Refresh(b) PROVE IInv'
  BY <1>2, RefreshReadInv, RefreshBurnInv, RefreshUserInv, RotateInv, RefreshIssueInv DEF Refresh
<1>3. ASSUME NEW b \in Tabs, Leave(b) PROVE IInv'
  BY <1>3, LogoutFindInv, LogoutRevokeInv, RevokeSessionInv DEF Leave
<1>4. ASSUME NEW b \in Tabs, Reset(b) PROVE IInv'
  BY <1>4, MailInv, ResetPasswordInv, ResetRevokeInv DEF Reset
<1>5. ASSUME NEW b \in Tabs, Totp(b) PROVE IInv'
  BY <1>5, SecondFactorInv, EnableTotpInv DEF Totp
<1>6. ASSUME NEW b \in Tabs, \/ VerifyConsume(b) \/ VerifyMark(b) \/ Answer(b) \/ LoseAnswer(b)
      PROVE  IInv'
  BY <1>6, MailInv, AnswerInv, LoseAnswerInv
<1>7. CASE SendLink \/ Disable \/ DisableRevoke \/ Enable \/ LockEnds \/ Expire
  BY <1>7, OutsideInv, DisableRevokeInv, LockEndsInv
<1>8. CASE UNCHANGED vars BY <1>8, StutterInv
<1> QED BY <1>1, <1>2, <1>3, <1>4, <1>5, <1>6, <1>7, <1>8 DEF Next

LEMMA Invariance == Spec => []IInv
BY InitInv, NextInv, PTL DEF Spec

-----------------------------------------------------------------------------

\* What was ended stays ended (services/authService.ts: logout, revokeSession, resetPassword,
\* the reuse of an old token; adminService's disabling): no token of it works, whatever
\* tabs, resets and operators do at once, but those issued by requests it overtook.
THEOREM EndedStaysEnded == Spec => []RevocationHolds
<1>1. IInv => RevocationHolds BY DEF IInv
<1> QED BY <1>1, Invariance, PTL

\* Rotation keeps a family to one token that works, a recovery code opens one session unless
\* two requests offer it at once, and no browser whose tabs ask one after the other is taken
\* for a thief (services/authService.ts: refresh, verifySecondFactor).
THEOREM CredentialsAreUsedOnce == Spec => []UsedOnce
<1>1. ASSUME IInv PROVE UsedOnce
  <2>1. ASSUME NEW f \in Families
        PROVE  Cardinality({t \in Family(f) : Live(t) /\ ~sessions[t].escaped}) <= 1
    <3> DEFINE S == {t \in Family(f) : Live(t) /\ ~sessions[t].escaped}
    <3>1. \A t, u \in S : t = u BY <1>1 DEF IInv, OneWorks, Works, Family
    <3>2. S = {} \/ \E t : S = {t} BY <3>1
    <3>3. Cardinality({}) = 0 /\ \A t : Cardinality({t}) = 1 BY FS_EmptySet, FS_Singleton
    <3> QED BY <3>2, <3>3
  <2>2. \A c \in Codes : history.uses[c] > 1 => c \in history.raced
    <3>1. \A c \in Codes : history.uses[c] \in Nat
      BY <1>1 DEF IInv, SessionsTypeOK, History
    <3> QED BY <1>1, <3>1 DEF IInv, CodesFit
  <2> QED BY <1>1, <2>1, <2>2 DEF UsedOnce, CredentialsWorkOnce, IInv
<1> QED BY <1>1, Invariance, PTL

\* Wrong passwords and codes are counted although they are tried at once: no more than lock
\* the account, and those on their way (userRepo.recordFailedLogin).
THEOREM GuessesStayBounded == Spec => []GuessesAreBounded
<1>1. IInv => GuessesAreBounded BY DEF IInv, GuessesFit
<1> QED BY <1>1, Invariance, PTL
=============================================================================
