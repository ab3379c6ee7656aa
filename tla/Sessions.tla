------------------------------ MODULE Sessions ------------------------------
(***************************************************************************)
(* One account's sign-in (services/authService.ts with its repositories    *)
(* and controller) as the web client uses it.  The tabs of a browser share *)
(* one refresh cookie and ask for an access token when they load, each on  *)
(* its own; every await of a handler is a place where another request may  *)
(* come between.  Passwords are numbered by the reset that set them.       *)
(***************************************************************************)
EXTENDS Naturals, Sequences, FiniteSets

CONSTANTS
  Tabs, Browsers, BrowserOf, \* open tabs, and the browser (cookie jar) of each
  LockAfter,                 \* failed logins that lock the account
  CodesPerBatch,             \* recovery codes made when the second factor is enabled
  MaxTokens, MaxResets, MaxBatches, \* bounds: refresh tokens, resets, batches of codes
  MaxEvents,                 \* bound: things done beside signing in, refreshing, signing out
  SecondFactor,              \* is the second factor on at the start?
  LostAnswers,               \* may an answer be lost on its way to the browser?
  Operators                  \* may an operator disable and enable the account?

ASSUME SessionsAssumption ==
  /\ IsFiniteSet(Tabs) /\ BrowserOf \in [Tabs -> Browsers]
  /\ LockAfter \in Nat \ {0} /\ CodesPerBatch \in Nat
  /\ MaxTokens \in Nat \ {0} /\ MaxResets \in Nat /\ MaxBatches \in Nat \ {0}
  /\ MaxEvents \in Nat
  /\ SecondFactor \in BOOLEAN /\ LostAnswers \in BOOLEAN /\ Operators \in BOOLEAN

VARIABLES
  user,     \* the account
  sessions, \* the session documents; a refresh token is the place of its own
  links,    \* mailed links: 0 verifies the address, l sets password l
  jar,      \* the refresh cookie of each browser, 0 if it has none
  tab,      \* what each tab's request is doing
  operator, \* the operator's request: "rest" or "revoking"
  history   \* what happened, for the properties alone

vars == <<user, sessions, links, jar, tab, operator, history>>

NoToken == 0
Wrong   == 99      \* a password that is not the account's
NoCode  == <<0, 0>>
Batch(n) == {n} \X (1..CodesPerBatch)
Codes    == UNION {Batch(n) : n \in 1..MaxBatches}
Resting  == [at |-> "rest", token |-> NoToken, family |-> 0, pw |-> 0, code |-> NoCode,
             late |-> FALSE]

Tokens    == 1..Len(sessions)
Family(f) == {t \in Tokens : sessions[t].family = f}
Families  == {sessions[t].family : t \in Tokens}
Live(t)   == sessions[t].state = "live"
At(b, place) == tab[b].at = place

Event == /\ history.events < MaxEvents
         /\ history' = [history EXCEPT !.events = @ + 1]

-----------------------------------------------------------------------------
(* Session documents *)

Revoked(s) == IF s.state = "live" THEN [s EXCEPT !.state = "revoked"] ELSE s

\* Mutant: only the first session of the family is revoked.
RevokedFamilyMember(f) ==
  [t \in Tokens |-> IF t = f THEN Revoked(sessions[t]) ELSE sessions[t]]

\* updateMany({familyId, revokedAt: null}).
RevokedFamily(f) ==
  [t \in Tokens |-> IF t \in Family(f) THEN Revoked(sessions[t]) ELSE sessions[t]]

\* updateMany({userId, revokedAt: null}).
RevokedAll == [t \in Tokens |-> Revoked(sessions[t])]

\* A request that will still create a session of one of the families fs (0: of a
\* new one) is overtaken when these are revoked.
Overtaken(fs) ==
  [b \in Tabs |-> IF /\ tab[b].at \in {"password", "passed", "admitted", "successor"}
                     /\ tab[b].family \in fs
                  THEN [tab[b] EXCEPT !.late = TRUE] ELSE tab[b]]

\* sessionRepo.create: a successor of the same family, or the first of a family.
Create(family, pw, browser, late) ==
  Append(sessions, [family |-> family, pw |-> pw, by |-> browser, state |-> "live",
                    escaped |-> late])

-----------------------------------------------------------------------------
(* A tab's request *)

\* Another tab of the same browser has a request on its way.
Crowded(b) == \E o \in Tabs \ {b} : BrowserOf[o] = BrowserOf[b] /\ ~At(o, "rest")

Disturb(b) == IF Crowded(b) THEN [history EXCEPT !.disturbed = @ \cup {BrowserOf[b]}]
              ELSE history

Begin(b, request) ==
  /\ At(b, "rest")
  /\ tab' = [tab EXCEPT ![b] = request]

\* login, up to the password: a disabled or locked account refuses at once, a
\* missing second factor without being counted.  pw is Wrong if the password is,
\* or the code of the app; a recovery code is one of those read with the user.
LoginRead(b) ==
  /\ ~user.disabled /\ ~user.locked
  /\ \E pw \in {Wrong, user.pw}, code \in {NoCode} \cup user.codes :
       /\ code # NoCode => pw # Wrong /\ user.totp = "on"
       /\ Begin(b, [Resting EXCEPT !.at = "password", !.pw = pw, !.code = code])
       /\ history' = [Disturb(b) EXCEPT
            !.tried = IF pw = Wrong THEN @ + 1 ELSE @,
            !.raced = IF \E o \in Tabs : At(o, "password") /\ tab[o].code = code
                      THEN @ \cup ({code} \cap Codes) ELSE @]
  /\ UNCHANGED <<user, sessions, links, jar, operator>>

\* Mutant: the counter is cleared when it locks the account.
FailedLoginCleared ==
  IF user.failures + 1 >= LockAfter THEN [user EXCEPT !.failures = 0]
  ELSE [user EXCEPT !.failures = @ + 1]

\* recordFailedLogin: one pipeline update increments and, at the limit, locks.
FailedLogin ==
  [user EXCEPT !.failures = IF @ < LockAfter THEN @ + 1 ELSE @,
               !.locked = @ \/ user.failures + 1 >= LockAfter]

\* The password or the second factor was wrong.
LoginFail(b) ==
  /\ At(b, "password") /\ tab[b].pw = Wrong
  /\ user' = FailedLogin
  /\ tab' = [tab EXCEPT ![b] = Resting]
  /\ UNCHANGED <<sessions, links, jar, operator, history>>

\* verifySecondFactor: the code matched a hash read with the user; $pull takes
\* it away, and whether it was still there is not looked at.
LoginCode(b) ==
  /\ At(b, "password") /\ tab[b].code # NoCode
  /\ user' = [user EXCEPT !.codes = @ \ {tab[b].code}]
  /\ tab' = [tab EXCEPT ![b].at = "passed", ![b].code = NoCode]
  /\ history' = [history EXCEPT !.uses[tab[b].code] = IF @ < 2 THEN @ + 1 ELSE @]
  /\ UNCHANGED <<sessions, links, jar, operator>>

\* recordSuccessfulLogin clears the counter, and a lock set in the meantime.
LoginPass(b) ==
  /\ \/ At(b, "passed")
     \/ At(b, "password") /\ tab[b].pw # Wrong /\ tab[b].code = NoCode
  /\ user' = [user EXCEPT !.failures = 0, !.locked = FALSE]
  /\ tab' = [tab EXCEPT ![b].at = "admitted"]
  /\ history' = [history EXCEPT !.tried = 0]
  /\ UNCHANGED <<sessions, links, jar, operator>>

\* issueSession: the first token of a new family, named after it.
LoginIssue(b) ==
  /\ At(b, "admitted") /\ Len(sessions) < MaxTokens
  /\ sessions' = Create(Len(sessions) + 1, tab[b].pw, BrowserOf[b], tab[b].late)
  /\ tab' = [tab EXCEPT ![b].at = "answer", ![b].token = Len(sessions) + 1]
  /\ UNCHANGED <<user, links, jar, operator, history>>

\* refresh: find the session of the cookie.  One that is gone or expired is
\* refused, a revoked one is reuse, whatever revoked it.
RefreshRead(b) ==
  LET t == jar[BrowserOf[b]]
  IN /\ t # NoToken /\ sessions[t].state # "gone"
     /\ Begin(b, [Resting EXCEPT !.at = IF Live(t) THEN "user" ELSE "reuse",
                                 !.token = t, !.family = sessions[t].family])
     /\ history' = Disturb(b)
     /\ UNCHANGED <<user, sessions, links, jar, operator>>


\* Reuse: the family is burned, and the user told if anything of it was alive.
\* The answer is an error: the browser keeps its cookie.
RefreshBurn(b) ==
  /\ At(b, "reuse")
  /\ LET f == tab[b].family
     IN /\ sessions' = RevokedFamily(f)
        /\ tab' = [Overtaken({f}) EXCEPT ![b] = Resting]
        /\ history' = [history EXCEPT
             !.ended = @ \cup {f},
             !.alarms = IF \E t \in Family(f) : Live(t) THEN @ \cup {sessions[f].by} ELSE @]
  /\ UNCHANGED <<user, links, jar, operator>>

\* The user of the session is read: a disabled account is refused.
RefreshUser(b) ==
  /\ At(b, "user")
  /\ tab' = [tab EXCEPT ![b] = IF user.disabled THEN Resting ELSE [@ EXCEPT !.at = "rotate"]]
  /\ UNCHANGED <<user, sessions, links, jar, operator, history>>

\* Mutant: the old token is not revoked.
RotateKept(b) ==
  /\ At(b, "rotate")
  /\ sessions' = sessions
  /\ tab' = [tab EXCEPT ![b].at = "successor"]
  /\ UNCHANGED <<user, links, jar, operator, history>>

\* revoke(session, 'rotation') filters on revokedAt: null; its result is not
\* looked at.
Rotate(b) ==
  /\ At(b, "rotate")
  /\ sessions' = [sessions EXCEPT ![tab[b].token] = Revoked(@)]
  /\ tab' = [tab EXCEPT ![b].at = "successor", ![b].late = ~Live(tab[b].token)]
  /\ UNCHANGED <<user, links, jar, operator, history>>

\* The successor, in the same family.
RefreshIssue(b) ==
  /\ At(b, "successor") /\ Len(sessions) < MaxTokens
  /\ LET old == sessions[tab[b].token]
     IN sessions' = Create(old.family, old.pw, old.by, tab[b].late \/ old.escaped)
  /\ tab' = [tab EXCEPT ![b].at = "answer", ![b].token = Len(sessions) + 1]
  /\ UNCHANGED <<user, links, jar, operator, history>>

\* logout: find the session of the cookie ...
LogoutFind(b) ==
  LET t == jar[BrowserOf[b]]
  IN /\ t # NoToken /\ sessions[t].state # "gone"
     /\ Begin(b, [Resting EXCEPT !.at = "leaving", !.family = sessions[t].family])
     /\ history' = Disturb(b)
     /\ UNCHANGED <<user, sessions, links, jar, operator>>

\* ... and revoke its family; the answer clears the cookie.
LogoutRevoke(b) ==
  /\ At(b, "leaving")
  /\ sessions' = RevokedFamily(tab[b].family)
  /\ tab' = [Overtaken({tab[b].family}) EXCEPT ![b].at = "answer"]
  /\ history' = [history EXCEPT !.ended = @ \cup {tab[b].family}]
  /\ UNCHANGED <<user, links, jar, operator>>

\* revokeSession: a signed-in user ends a session of the list, of any device.
RevokeSession(b) ==
  /\ At(b, "rest") /\ history.events < MaxEvents
  /\ \E f \in Families :
       /\ \E t \in Family(f) : Live(t)
       /\ sessions' = RevokedFamily(f)
       /\ tab' = Overtaken({f})
       /\ history' = [history EXCEPT !.ended = @ \cup {f}, !.events = @ + 1]
  /\ UNCHANGED <<user, links, jar, operator>>

\* The answer reaches the browser and sets or clears the cookie all tabs share.
Answer(b) ==
  /\ At(b, "answer")
  /\ jar' = [jar EXCEPT ![BrowserOf[b]] = tab[b].token]
  /\ tab' = [tab EXCEPT ![b] = Resting]
  /\ UNCHANGED <<user, sessions, links, operator, history>>

\* The answer is lost, or the tab closed: the cookie stays as it was.
LoseAnswer(b) ==
  /\ LostAnswers /\ At(b, "answer") /\ history.events < MaxEvents
  /\ tab' = [tab EXCEPT ![b] = Resting]
  /\ history' = [history EXCEPT !.disturbed = @ \cup {BrowserOf[b]}, !.events = @ + 1]
  /\ UNCHANGED <<user, sessions, links, jar, operator>>

-----------------------------------------------------------------------------
(* Links sent by mail *)

\* verifyEmail: findOneAndUpdate consumes the link, and the account is marked.
VerifyConsume(b) ==
  /\ Event
  /\ links[0] = "sent"
  /\ Begin(b, [Resting EXCEPT !.at = "verifying"])
  /\ links' = [links EXCEPT ![0] = "used"]
  /\ UNCHANGED <<user, sessions, jar, operator>>

VerifyMark(b) ==
  /\ At(b, "verifying")
  /\ user' = [user EXCEPT !.verified = TRUE]
  /\ tab' = [tab EXCEPT ![b] = Resting]
  /\ UNCHANGED <<sessions, links, jar, operator, history>>

\* forgotPassword: one more link; those sent before stay good.
SendLink ==
  \E l \in 1..MaxResets :
    /\ Event
    /\ links[l] = "none"
    /\ links' = [links EXCEPT ![l] = "sent"]
    /\ UNCHANGED <<user, sessions, jar, tab, operator>>

\* resetPassword: findOneAndUpdate consumes the link ...
ResetConsume(b) ==
  \E l \in 1..MaxResets :
    /\ links[l] = "sent"
    /\ Begin(b, [Resting EXCEPT !.at = "setting", !.pw = l])
    /\ links' = [links EXCEPT ![l] = "used"]
    /\ UNCHANGED <<user, sessions, jar, operator, history>>

\* ... the new password clears the counter and a lock ...
ResetPassword(b) ==
  /\ At(b, "setting")
  /\ user' = [user EXCEPT !.pw = tab[b].pw, !.failures = 0, !.locked = FALSE]
  /\ tab' = [tab EXCEPT ![b].at = "unlinking"]
  /\ history' = [history EXCEPT !.tried = 0]
  /\ UNCHANGED <<sessions, links, jar, operator>>

\* ... every other link, of either purpose, is invalidated ...
ResetLinks(b) ==
  /\ At(b, "unlinking")
  /\ links' = [l \in 0..MaxResets |-> IF links[l] = "sent" THEN "used" ELSE links[l]]
  /\ tab' = [tab EXCEPT ![b].at = "revoking"]
  /\ UNCHANGED <<user, sessions, jar, operator, history>>

\* ... and every session revoked.
ResetRevoke(b) ==
  /\ At(b, "revoking")
  /\ sessions' = RevokedAll
  /\ tab' = [Overtaken(Families \cup {0}) EXCEPT ![b] = Resting]
  /\ history' = [history EXCEPT !.ended = @ \cup Families]
  /\ UNCHANGED <<user, links, jar, operator>>

-----------------------------------------------------------------------------
(* The second factor *)

\* totpSetup refuses while the factor is enabled ...
SetupRead(b) ==
  /\ user.totp # "on"
  /\ Begin(b, [Resting EXCEPT !.at = "setup"])
  /\ UNCHANGED <<user, sessions, links, jar, operator, history>>

\* ... and writes a secret, and that it is not enabled, whatever happened since.
SetupWrite(b) ==
  /\ At(b, "setup")
  /\ user' = [user EXCEPT !.totp = "setup"]
  /\ tab' = [tab EXCEPT ![b] = Resting]
  /\ UNCHANGED <<sessions, links, jar, operator, history>>

\* totpVerify: the code fits the stored secret; ten codes are hashed ...
VerifyTotp(b) ==
  /\ Event
  /\ user.totp # "off"
  /\ Begin(b, [Resting EXCEPT !.at = "enabling"])
  /\ UNCHANGED <<user, sessions, links, jar, operator>>

\* ... and replace all codes there were.
EnableTotp(b) ==
  /\ At(b, "enabling") /\ user.batch < MaxBatches
  /\ user' = [user EXCEPT !.totp = "on", !.codes = Batch(user.batch + 1), !.batch = @ + 1]
  /\ tab' = [tab EXCEPT ![b] = Resting]
  /\ UNCHANGED <<sessions, links, jar, operator, history>>

\* totpDisable, with a code of the app or a recovery code, which is consumed.
DisableTotpCheck(b) ==
  /\ Event
  /\ user.totp = "on"
  /\ Begin(b, [Resting EXCEPT !.at = "disabling"])
  /\ user' \in {user} \cup {[user EXCEPT !.codes = @ \ {c}] : c \in user.codes}
  /\ UNCHANGED <<sessions, links, jar, operator>>

DisableTotp(b) ==
  /\ At(b, "disabling")
  /\ user' = [user EXCEPT !.totp = "off", !.codes = {}]
  /\ tab' = [tab EXCEPT ![b] = Resting]
  /\ UNCHANGED <<sessions, links, jar, operator, history>>

-----------------------------------------------------------------------------
(* The operator, and time *)

\* setUserStatus(disabled): the flag first, and then every session.
Disable ==
  /\ Event
  /\ Operators /\ operator = "rest" /\ ~user.disabled
  /\ user' = [user EXCEPT !.disabled = TRUE]
  /\ operator' = "revoking"
  /\ UNCHANGED <<sessions, links, jar, tab>>

DisableRevoke ==
  /\ operator = "revoking"
  /\ sessions' = RevokedAll
  /\ tab' = Overtaken(Families \cup {0})
  /\ operator' = "rest"
  /\ history' = [history EXCEPT !.ended = @ \cup Families]
  /\ UNCHANGED <<user, links, jar>>

Enable ==
  /\ Operators /\ operator = "rest" /\ user.disabled
  /\ user' = [user EXCEPT !.disabled = FALSE]
  /\ UNCHANGED <<sessions, links, jar, tab, operator, history>>

\* A quarter of an hour passes: the lock ends, the counter keeps its value.
LockEnds ==
  /\ user.locked /\ history.events < MaxEvents
  /\ user' = [user EXCEPT !.locked = FALSE]
  /\ history' = [history EXCEPT !.tried = 0, !.events = @ + 1]
  /\ UNCHANGED <<sessions, links, jar, tab, operator>>

\* A token's time is over, and the TTL index removes its document; no request
\* that found it takes as long.
Expire ==
  \E t \in Tokens :
    /\ Event
    /\ sessions[t].state # "gone"
    /\ \A b \in Tabs : tab[b].token # t
    /\ sessions' = [sessions EXCEPT ![t].state = "gone"]
    /\ UNCHANGED <<user, links, jar, tab, operator>>

-----------------------------------------------------------------------------

Init ==
  /\ user = [pw |-> 0, failures |-> 0, locked |-> FALSE, disabled |-> FALSE,
             verified |-> FALSE, totp |-> IF SecondFactor THEN "on" ELSE "off",
             codes |-> IF SecondFactor THEN Batch(1) ELSE {},
             batch |-> IF SecondFactor THEN 1 ELSE 0]
  /\ sessions = <<>>
  /\ links = [l \in 0..MaxResets |-> IF l = 0 THEN "sent" ELSE "none"]
  /\ jar = [b \in Browsers |-> NoToken]
  /\ tab = [b \in Tabs |-> Resting]
  /\ operator = "rest"
  /\ history = [ended |-> {}, disturbed |-> {}, alarms |-> {}, tried |-> 0, raced |-> {},
                events |-> 0, uses |-> [c \in Codes |-> 0]]

Login(b)   == LoginRead(b) \/ LoginFail(b) \/ LoginCode(b) \/ LoginPass(b) \/ LoginIssue(b)
Refresh(b) == RefreshRead(b) \/ RefreshBurn(b) \/ RefreshUser(b) \/ Rotate(b) \/ RefreshIssue(b)
Leave(b)   == LogoutFind(b) \/ LogoutRevoke(b) \/ RevokeSession(b)
Reset(b)   == ResetConsume(b) \/ ResetPassword(b) \/ ResetLinks(b) \/ ResetRevoke(b)
Totp(b)    == SetupRead(b) \/ SetupWrite(b) \/ VerifyTotp(b) \/ EnableTotp(b)
                \/ DisableTotpCheck(b) \/ DisableTotp(b)

Next ==
  \/ \E b \in Tabs : Login(b) \/ Refresh(b) \/ Leave(b) \/ Reset(b) \/ Totp(b)
                      \/ VerifyConsume(b) \/ VerifyMark(b) \/ Answer(b) \/ LoseAnswer(b)
  \/ SendLink \/ Disable \/ DisableRevoke \/ Enable \/ LockEnds \/ Expire

Spec == Init /\ [][Next]_vars

-----------------------------------------------------------------------------
(* Properties *)

\* A family that was ended - by a logout, a reset, an operator, or because an old
\* token came back - has no token that works, except those issued by requests
\* its end overtook; a disabled account has none but such, and nor does one with
\* a session that was opened with another password, once the reset is through.
RevocationHolds ==
  \A t \in Tokens :
    Live(t) /\ ~sessions[t].escaped =>
      /\ sessions[t].family \notin history.ended
      /\ user.disabled => operator = "revoking"
      /\ sessions[t].pw # user.pw => \E b \in Tabs : tab[b].at \in {"unlinking", "revoking"}

\* What is good for one use is used once.  Rotation keeps a family to one token
\* that works, and a recovery code opens one session: a second takes requests that
\* use the same token, or the same code, at once.
CredentialsWorkOnce ==
  /\ \A f \in Families : Cardinality({t \in Family(f) : Live(t) /\ ~sessions[t].escaped}) <= 1
  /\ \A c \in Codes : history.uses[c] > 1 => c \in history.raced

\* The alarm for a stolen token is raised only for a browser whose tabs asked at
\* the same time, or which lost an answer: one request after the other, no
\* logout, reset, expiry or operator makes an honest browser look like a thief.
AlarmHasCause == history.alarms \subseteq history.disturbed

\* A token or a code is used once, and an honest browser is not taken for a thief: what
\* detects the second use neither misses one nor sees one where there is none.
UsedOnce == CredentialsWorkOnce /\ AlarmHasCause

\* Between two successes, resets or ends of the lock, no more wrong passwords and
\* codes are tried than lock the account, plus those that were on their way.
GuessesAreBounded == history.tried < LockAfter + Cardinality(Tabs)
=============================================================================
