-------------------------------- MODULE Chosen ------------------------------
(***************************************************************************)
(* What a page shows of the one thing that was chosen: the statement of a  *)
(* party, the return or the report of a period (loaded by useLoad), the    *)
(* dialog of an invoice, and the conversation with the copilot.  The       *)
(* answers come in any order, and people do not wait for them.             *)
(*                                                                         *)
(* MaxGestures bounds what the person does, MaxErrors the calls that fail, *)
(* Spare the conversations that may be begun.                              *)
(***************************************************************************)
EXTENDS Naturals, Sequences

CONSTANTS Things, Spare, Nothing, MaxGestures, MaxErrors

\* Nothing is no conversation that is begun here.
ASSUME ChosenAssumption == Nothing \notin {"new"} \X Nat

VARIABLES
  view,      \* "kept", "dialog" or "copilot"
  chosen,    \* what the person asked for last
  shown,     \* what the data on the screen are of
  reads,     \* the reads in flight
  erred,     \* whether a call failed
  errors, gestures,
  hasty,   \* whether the person went on before everything was answered
  \* The copilot: the conversation that the next message goes to; the saved ones, newest
  \* first, as the server and as the page knows them; whether one was restored; the
  \* message in flight; an answer written into another conversation; and a new chat that
  \* was replaced by the one before.
  conv, saved, listed, listing, restored, sending, mixed, replaced

copilotVars == <<conv, saved, listed, listing, restored, sending, mixed, replaced>>
choiceVars == <<view, chosen, shown, reads, erred, errors, gestures, hasty, copilotVars>>

NotSending == [to |-> Nothing, at |-> "idle"]

ChosenInit ==
  /\ view \in {"kept", "dialog", "copilot"}
  /\ chosen = Nothing /\ shown = Nothing /\ reads = {} /\ erred = FALSE
  /\ errors = 0 /\ gestures = 0 /\ hasty = FALSE
  /\ conv = Nothing /\ listed = <<>> /\ restored = FALSE /\ sending = NotSending
  /\ mixed = FALSE /\ replaced = FALSE
  /\ listing = (view = "copilot")
  /\ saved \in {<<>>} \cup IF view = "copilot" THEN {c \in Things \X Things : c[1] # c[2]} ELSE {}

\* The conversations that were begun here.
Spared == Len(SelectSeq(saved, LAMBDA c : c \notin Things))

Gesture == gestures < MaxGestures /\ gestures' = gestures + 1

\* A read: of what, made by which gesture, and whether a failure takes the screen away.
ReadOf(x, fatal) == [of |-> x, no |-> gestures, fatal |-> fatal]

-----------------------------------------------------------------------------
(* Loaded by useLoad: a new choice drops the read of the one before, and    *)
(* leaves its data on the screen until the answer.                          *)

\* Mutant: the answer to an earlier read counts.
AliveMutant == reads

Alive == {}

Pick(x) ==
  /\ view = "kept" /\ Gesture /\ x # chosen
  /\ chosen' = x /\ reads' = Alive \cup {ReadOf(x, FALSE)} /\ erred' = FALSE
  /\ UNCHANGED <<view, shown, errors, hasty, copilotVars>>

Leave ==
  /\ view = "kept" /\ Gesture /\ chosen # Nothing
  /\ chosen' = Nothing /\ shown' = Nothing /\ reads' = {} /\ erred' = FALSE
  /\ UNCHANGED <<view, errors, hasty, copilotVars>>

-----------------------------------------------------------------------------
(* The dialog of an invoice, drawn from the row at once and from the        *)
(* details when they come.                                                  *)

Open(x) ==
  /\ view = "dialog" /\ Gesture /\ shown = Nothing
  /\ chosen' = x /\ shown' = x
  /\ reads' = reads \cup {ReadOf(x, FALSE)}
  /\ hasty' = (hasty \/ reads # {})
  /\ UNCHANGED <<view, erred, errors, copilotVars>>

\* Close, Escape, or a click beside it.
Close ==
  /\ view = "dialog" /\ Gesture /\ shown # Nothing
  /\ chosen' = Nothing /\ shown' = Nothing
  /\ hasty' = (hasty \/ reads # {})
  /\ UNCHANGED <<view, reads, erred, errors, copilotVars>>

\* An act of the dialog reads the details again; where that fails the dialog goes.
ActInDialog ==
  /\ view = "dialog" /\ Gesture /\ shown # Nothing
  /\ reads' = reads \cup {ReadOf(shown, TRUE)}
  /\ UNCHANGED <<view, chosen, shown, erred, errors, hasty, copilotVars>>

-----------------------------------------------------------------------------
(* The copilot *)

Known(c) == \E i \in DOMAIN listed : listed[i] = c

\* The effect that runs when the list or the conversation has changed: it picks up, once,
\* where the last chat left off.
Restores(list, of) == ~restored /\ of = Nothing /\ list # <<>>

\* Whether something that the page does by itself is still to come.
Unsettled == reads # {} \/ (listing /\ ~restored)

ListAnswer ==
  /\ listing /\ listing' = FALSE /\ listed' = saved
  /\ restored' = (restored \/ Restores(saved, conv))
  /\ IF Restores(saved, conv)
     THEN /\ reads' = reads \cup {ReadOf(saved[1], FALSE)}
          /\ chosen' = IF gestures = 0 THEN saved[1] ELSE chosen
     ELSE UNCHANGED <<reads, chosen>>
  /\ UNCHANGED <<view, shown, erred, errors, gestures, hasty, conv, saved, sending, mixed, replaced>>

\* The buttons of the saved chats are there while a message is being answered.
OpenConversation(c) ==
  /\ view = "copilot" /\ Gesture /\ Known(c)
  /\ chosen' = c /\ reads' = reads \cup {ReadOf(c, FALSE)}
  /\ hasty' = (hasty \/ Unsettled \/ sending # NotSending)
  /\ UNCHANGED <<view, shown, erred, errors, copilotVars>>

NewChat ==
  /\ view = "copilot" /\ Gesture /\ sending = NotSending
  /\ chosen' = Nothing /\ conv' = Nothing /\ shown' = Nothing
  /\ LET again == conv # Nothing /\ Restores(listed, Nothing) IN
     /\ restored' = (restored \/ again) /\ replaced' = (replaced \/ again)
     /\ reads' = IF again THEN reads \cup {ReadOf(listed[1], FALSE)} ELSE reads
  /\ hasty' = (hasty \/ Unsettled)
  /\ UNCHANGED <<view, erred, errors, saved, listed, listing, sending, mixed>>

Send ==
  /\ view = "copilot" /\ Gesture /\ sending = NotSending
  /\ conv = Nothing => Spared < Spare
  /\ sending' = [to |-> conv, at |-> IF conv = Nothing THEN "begins" ELSE "streams"]
  /\ hasty' = (hasty \/ Unsettled)
  /\ UNCHANGED <<view, chosen, shown, reads, erred, errors, conv, saved, listed, listing, restored, mixed, replaced>>

\* A conversation is made, and becomes the one of the page.  Its name tells it from the
\* others: no two begin without a gesture between.
Begun ==
  /\ sending.at = "begins"
  /\ LET new == <<"new", gestures>> IN
     /\ saved' = <<new>> \o saved /\ conv' = new
     /\ sending' = [to |-> new, at |-> "streams"]
     /\ shown' = IF shown = Nothing THEN new ELSE shown
     /\ chosen' = IF chosen = Nothing THEN new ELSE chosen
  /\ UNCHANGED <<view, reads, erred, errors, gestures, hasty, listed, listing, restored, mixed, replaced>>

\* What comes is written into the last message on the screen.
Streams ==
  /\ sending.at = "streams" /\ ~mixed
  /\ mixed' = (shown # sending.to)
  /\ UNCHANGED <<view, chosen, shown, reads, erred, errors, gestures, hasty, conv, saved, listed, listing, restored,
                 sending, replaced>>

\* The conversation is the newest now, and the list is loaded again.
Ends ==
  /\ sending.at = "streams"
  /\ saved' = <<sending.to>> \o SelectSeq(saved, LAMBDA c : c # sending.to)
  /\ sending' = NotSending /\ listing' = TRUE
  /\ UNCHANGED <<view, chosen, shown, reads, erred, errors, gestures, hasty, conv, listed, restored, mixed, replaced>>

-----------------------------------------------------------------------------
(* Answers, and calls that fail *)

Answer(r) ==
  /\ reads' = reads \ {r} /\ shown' = r.of
  /\ conv' = IF view = "copilot" THEN r.of ELSE conv
  /\ UNCHANGED <<view, chosen, erred, errors, gestures, hasty, saved, listed, listing, restored, sending, mixed,
                 replaced>>

Fails(r) ==
  /\ errors < MaxErrors /\ errors' = errors + 1
  /\ reads' = reads \ {r} /\ erred' = TRUE
  /\ shown' = IF r.fatal THEN Nothing ELSE shown
  /\ UNCHANGED <<view, chosen, gestures, hasty, copilotVars>>

SendFails ==
  /\ sending # NotSending /\ errors < MaxErrors /\ errors' = errors + 1
  /\ sending' = NotSending /\ erred' = TRUE
  /\ UNCHANGED <<view, chosen, shown, reads, gestures, hasty, conv, saved, listed, listing, restored, mixed, replaced>>

ChosenNext ==
  \/ \E x \in Things : Pick(x) \/ Open(x)
  \/ Leave \/ Close \/ ActInDialog
  \/ \E i \in DOMAIN listed : OpenConversation(listed[i])
  \/ ListAnswer \/ NewChat \/ Send \/ Begun \/ Streams \/ Ends \/ SendFails
  \/ \E r \in reads : Answer(r) \/ Fails(r)

ChosenSpec == ChosenInit /\ [][ChosenNext]_choiceVars

-----------------------------------------------------------------------------
(* Properties *)

\* Once everything is answered, what is on the screen is of what was chosen, and the next
\* message goes to the conversation that is shown: save after a failure, where the person
\* went on before everything was answered, and for the new chat that is replaced by the
\* one before it.  No answer is written into another conversation unless the person
\* opened that one meanwhile.
ShownIsChosen ==
  /\ reads = {} /\ sending = NotSending /\ ~listing /\ ~erred /\ ~hasty /\ ~replaced =>
       shown = chosen /\ (view = "copilot" => conv = shown)
  /\ mixed => hasty \/ replaced
=============================================================================
