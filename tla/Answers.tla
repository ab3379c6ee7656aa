------------------------------ MODULE Answers ------------------------------
(***************************************************************************)
(* How a turn of the copilot comes to an answer: the language model that   *)
(* the environment's keys choose, or the engine that stands in for it; the *)
(* tools a turn calls; and the check that the figures of the answer are in *)
(* what the tools returned.  What a language model says is arbitrary; what *)
(* the engine says follows from the question and the result before it, and *)
(* a question is the set of topics whose words are in it.                  *)
(* The money a turn costs, and what is proposed in it, are in Approvals.   *)
(*                                                                         *)
(* ToolLimit is the code's 6; MaxLapses bounds the minutes that pass.      *)
(***************************************************************************)
EXTENDS Naturals, Sequences

CONSTANTS Turns, Questions, ToolLimit, MaxLapses

\* What the engine looks for in a question, in this order.
Intents == <<"invoice", "revenue", "expenses", "profit", "cash", "health", "forecast", "receivables">>
Topics  == {Intents[i] : i \in DOMAIN Intents}

\* A message that is nothing but a greeting.
Greeting == {"greeting"}

ASSUME AnswersAssumption == ToolLimit \in Nat \ {0} /\ Questions \subseteq SUBSET Topics \cup {Greeting}

VARIABLES
  provider, \* what the environment's keys chose
  allowed,  \* the permissions of who asks
  booked,   \* what figures the books hold
  turn,     \* what each turn is doing
  cooling,  \* whether Gemini failed less than a minute ago, for all turns
  lapses

answerVars == <<provider, allowed, booked, turn, cooling, lapses>>

\* A figure that no result holds, and one that is not looked up: of two digits at most,
\* or zero.
Unfounded == "unfounded"
Small     == "small"

-----------------------------------------------------------------------------
(* Providers and tools *)

\* Keys are used in this order; one for Gemini that looks wrong is passed over.
initLlmProvider(keys) ==
  IF keys.gemini = "AIza" THEN "gemini"
  ELSE IF keys.groq \/ keys.openai THEN "compatible" ELSE "engine"

\* What the engine looks for in a result, of what each tool returns.
Fields ==
  [getRevenue                |-> {"totalIncomePaise"},
   getExpenses               |-> {"totalExpensesPaise"},
   getProfitAndLoss          |-> {"totalIncomePaise", "totalExpensesPaise", "netProfitPaise"},
   getCashPosition           |-> {"netProfitPaise"},
   getOutstandingReceivables |-> {},
   getCashFlowForecast       |-> {},
   getHealthScore            |-> {},
   proposeInvoice            |-> {"proposalId"}]

Writes == {"proposeInvoice"}

toolsFor(permissions) ==
  (IF "report:read" \in permissions THEN DOMAIN Fields \ Writes ELSE {})
    \cup (IF "ai:write" \in permissions THEN Writes ELSE {})

\* A turn of a model: a call of a tool, or words, with figures that were found in the
\* results, or others.
CallOf(tool) == [call |-> tool, says |-> "nothing", figures |-> {}]
Words(says, figures) == [call |-> "nothing", says |-> says, figures |-> figures]

-----------------------------------------------------------------------------
(* The engine *)

First(places) == CHOOSE i \in places : \A j \in places : i <= j

\* The first of these fields that is there decides what is said of a result.
Order ==
  << <<"proposalId", "proposal">>, <<"totalIncomePaise", "revenue">>, <<"totalExpensesPaise", "expenses">>,
     <<"netProfitPaise", "profit">>, <<"balancePaise", "cash">>, <<"score", "health">>,
     <<"receivables", "receivables">> >>

\* And the rest is written out as it is.
ToolTurn(tool) ==
  LET found == {i \in DOMAIN Order : Order[i][1] \in Fields[tool]} IN
  IF found = {} THEN "data" ELSE Order[First(found)][2]

\* An amount is said in rupees; one below a rupee has a part that no result has.
Spoken(says) ==
  IF booked = "pennies" /\ says \in {"revenue", "expenses", "profit", "cash"}
  THEN {Unfounded} ELSE {"found"}

ToolOf ==
  [revenue |-> "getRevenue", expenses |-> "getExpenses", profit |-> "getProfitAndLoss",
   cash |-> "getCashPosition", health |-> "getHealthScore", forecast |-> "getCashFlowForecast",
   receivables |-> "getOutstandingReceivables", invoice |-> "proposeInvoice"]

\* Greetings are answered without a tool; of the topics with a word in the question, the
\* first whose tool there is counts; an invoice is drafted for a customer, if there is
\* any; the guide is for whatever is left, figures and all.
UserTurn(question, tools) ==
  LET meant == {i \in DOMAIN Intents : Intents[i] \in question /\ ToolOf[Intents[i]] \in tools} IN
  IF question = Greeting THEN {Words("greeting", {})}
  ELSE IF meant = {} THEN {Words("guide", {Unfounded, Small})}
  ELSE {CallOf(ToolOf[Intents[First(meant)]])}
         \cup {w \in {Words("noCustomer", {})} : Intents[First(meant)] = "invoice"}

fallbackSmartTurn(t) ==
  IF turn[t].last = "tool"
  THEN LET says == ToolTurn(turn[t].tool) IN {Words(says, Spoken(says))}
  ELSE UserTurn(turn[t].asks, toolsFor(allowed))

-----------------------------------------------------------------------------
(* The loop of a turn *)

\* "asks" the question; "next" the iteration; "last" who spoke last; "tool" the latest
\* tool that was called; "found" whether a result held a figure; "waits" counts
\* the calls of Gemini that failed, "thawed" tells that the pause ended meanwhile, and
\* "alone" that no language model had a part in it.
NoTurn ==
  [at |-> "rest", asks |-> {}, next |-> 0, last |-> "user", tool |-> "nothing", found |-> FALSE, retried |-> FALSE,
   answer |-> Words("nothing", {}), raw |-> FALSE, waits |-> 0, thawed |-> FALSE, alone |-> TRUE]

AnswersInit ==
  /\ \E keys \in [gemini : {"none", "bad", "AIza"}, groq : BOOLEAN, openai : BOOLEAN] :
       provider = initLlmProvider(keys)
  /\ allowed \in {{}, {"report:read"}, {"report:read", "ai:write"}}
  /\ booked \in {"nothing", "pennies", "figures"}
  /\ turn = [t \in Turns |-> NoTurn] /\ cooling = FALSE /\ lapses = 0

\* The figures that are looked up: those of two digits pass for counts, and zero is allowed.
numberTokens(figures) == figures \ {Small}

\* No result, or none with a number of three digits, and nothing is checked.
validateGrounding(found, figures) == found => numberTokens(figures) \subseteq {"found"}

\* Mutant: the second attempt is not checked.
GroundedMutant(retried, found, figures) == retried \/ validateGrounding(found, figures)

\* The first attempt and the second are checked alike.
Grounded(retried, found, figures) == validateGrounding(found, figures)

\* What the loop makes of "u", with the turn as "w" says.
Loop(w, u) ==
  LET said == [w EXCEPT !.at = "done", !.answer = u] IN
  IF ~w.retried /\ u.call # "nothing" /\ w.next < ToolLimit
  THEN IF u.call \in toolsFor(allowed)
       THEN [w EXCEPT !.at = "chat", !.last = "tool", !.next = @ + 1, !.tool = u.call,
                      !.found = @ \/ booked # "nothing" \/ u.call \in Writes]
       ELSE [w EXCEPT !.at = "failed"]
  ELSE IF Grounded(w.retried, w.found, u.figures) THEN said
  ELSE IF w.retried THEN [said EXCEPT !.raw = TRUE]
  ELSE [w EXCEPT !.at = "chat", !.last = "system", !.retried = TRUE]

Ask(t, question) ==
  /\ turn[t].at = "rest"
  /\ turn' = [turn EXCEPT ![t] = [NoTurn EXCEPT !.at = "chat", !.asks = question]]
  /\ UNCHANGED <<provider, allowed, booked, cooling, lapses>>

\* The engine answers at once: it is the provider, or Gemini is left alone for a minute.
EngineChat(t) ==
  /\ turn[t].at = "chat"
  /\ provider = "engine" \/ (provider = "gemini" /\ cooling)
  /\ \E u \in fallbackSmartTurn(t) : turn' = [turn EXCEPT ![t] = Loop(@, u)]
  /\ UNCHANGED <<provider, allowed, booked, cooling, lapses>>

ModelChat(t) ==
  /\ turn[t].at = "chat"
  /\ provider = "compatible" \/ (provider = "gemini" /\ ~cooling)
  /\ turn' = [turn EXCEPT ![t].at = "asked"]
  /\ UNCHANGED <<provider, allowed, booked, cooling, lapses>>

\* Whatever a model may say: a tool, one that there is not (or with arguments that it
\* does not take, which ends a turn too), words, or nothing.  A bound: it calls the tools
\* that the questions are about.
Called == {ToolOf[topic] : topic \in Topics \cap UNION Questions} \cup {"noSuchTool"}

Said ==
  {CallOf(tool) : tool \in Called}
    \cup {Words("prose", f) : f \in SUBSET {"found", Small, Unfounded}} \cup {Words("nothing", {})}

\* A language model had a part in the turn; Gemini had none, though it was waited for.
Heard(w) == [w EXCEPT !.alone = FALSE]
Waited(w) == [w EXCEPT !.waits = @ + 1]

Thaw == [t \in Turns |-> [turn[t] EXCEPT !.thawed = @ \/ cooling]]

\* A success ends the pause for all.
GeminiAnswers(t) ==
  /\ turn[t].at = "asked" /\ provider = "gemini"
  /\ \E u \in Said : turn' = [Thaw EXCEPT ![t] = Loop(Heard(@), u)]
  /\ cooling' = FALSE
  /\ UNCHANGED <<provider, allowed, booked, lapses>>

\* An error, eight seconds without an answer, or one that is not what was asked for:
\* the engine answers instead.
GeminiFails(t) ==
  /\ turn[t].at = "asked" /\ provider = "gemini"
  /\ \E u \in fallbackSmartTurn(t) : turn' = [turn EXCEPT ![t] = Loop(Waited(@), u)]
  /\ cooling' = TRUE
  /\ UNCHANGED <<provider, allowed, booked, lapses>>

\* An answer that is an error has no choices, and is taken for words; a call that fails
\* fails the turn.
CompatibleAnswers(t) ==
  /\ turn[t].at = "asked" /\ provider = "compatible"
  /\ \/ \E u \in (Said \ {Words("nothing", {})}) \cup {Words("canned", {})} :
          turn' = [turn EXCEPT ![t] = Loop(Heard(@), u)]
     \/ turn' = [turn EXCEPT ![t] = [Heard(@) EXCEPT !.at = "failed"]]
  /\ UNCHANGED <<provider, allowed, booked, cooling, lapses>>

Lapse ==
  /\ cooling /\ lapses < MaxLapses /\ lapses' = lapses + 1
  /\ cooling' = FALSE /\ turn' = Thaw
  /\ UNCHANGED <<provider, allowed, booked>>

AnswersNext ==
  \/ \E t \in Turns : \/ \E q \in Questions : Ask(t, q)
                      \/ EngineChat(t) \/ ModelChat(t) \/ GeminiAnswers(t) \/ GeminiFails(t)
                      \/ CompatibleAnswers(t)
  \/ Lapse

AnswersSpec == AnswersInit /\ [][AnswersNext]_answerVars

-----------------------------------------------------------------------------
(* Properties *)

\* What fits a topic: the figure it asks for, or the result as it is.
Fits(topic) == IF topic = "invoice" THEN {"proposal", "noCustomer"} ELSE {topic, "data"}

\* Profit and loss holds the income too, which is said first; the cash position holds the
\* net profit, and the cash under a name that is not looked for.
KnownMisfits == {<<"profit", "revenue">>, <<"cash", "profit">>}

\* What may be answered: something of a topic of the question, the first whose tool is
\* granted (so a cash flow forecast is answered with the cash position); the guide,
\* if there is none.
Answerable(question) == {i \in DOMAIN Intents : Intents[i] \in question /\ ToolOf[Intents[i]] \in toolsFor(allowed)}

FitsQuestion(question, says) ==
  \/ question = Greeting /\ says = "greeting"
  \/ question # Greeting /\ Answerable(question) = {} /\ says = "guide"
  \/ \E i \in Answerable(question) :
       /\ \A j \in Answerable(question) : i <= j
       /\ says \in Fits(Intents[i]) \/ <<Intents[i], says>> \in KnownMisfits

\* When a turn is over, every figure of its answer is from a result of the turn or has two
\* digits at most or is zero, unless no result had any; the engine, left alone, answers a topic it
\* was asked about, as far as tools are granted and but for the two above, and neither
\* fails nor is asked again, unless amounts are below a rupee (then it answers nothing);
\* and no turn waits twice for a Gemini that fails, unless the pause ended meanwhile.
AnswersFit ==
  \A t \in Turns : LET w == turn[t] IN
    /\ w.at = "done" /\ w.found => w.raw \/ w.answer.figures \subseteq {"found", Small}
    /\ w.alone => w.at # "failed" /\ (w.retried => booked = "pennies")
    /\ w.at = "done" /\ w.alone =>
         FitsQuestion(w.asks, w.answer.says) \/ (w.retried /\ w.answer.says = "nothing")
    /\ w.waits > 1 => w.thawed
=============================================================================
