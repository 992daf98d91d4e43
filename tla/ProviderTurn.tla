----------------------------- MODULE ProviderTurn -----------------------------
(***************************************************************************)
(* The inside of a drain's provider turns: runTurnAttempt of               *)
(* session/runner/llm.ts from the request to its end, the publisher that   *)
(* records what the provider streams (session/runner/publish-llm-event.ts),*)
(* the fibers that run the local tools, the projection of the tools'       *)
(* states (session/message-updater.ts), and the recovery of tools that an  *)
(* earlier drain or process has left open.                                 *)
(*                                                                         *)
(* The publisher's semaphore makes each publication, and each loop of      *)
(* publications, one step.  Text, reasoning and payloads are left out.     *)
(***************************************************************************)
EXTENDS FiniteSets

CONSTANTS Call,         \* the provider's tool calls
          Hosted,       \* those the provider executes itself
          StepLimited   \* the agent has a step limit, so a turn may be its last

ProviderTurnAssumption == Hosted \subseteq Call /\ StepLimited \in BOOLEAN

VARIABLES state,    \* [Call -> projected state of the tool], durable
          step,     \* projected assistant message of the last turn, durable
          tool,     \* [Call -> the publisher's entry], of this turn
          fiber,    \* [Call -> the fiber that executes a local call]
          turn,     \* where the drain is, and the local variables of its turn
          outcome   \* history variable: [Call -> how its execution ended]

durable == <<state, step>>
vars == <<durable, tool, fiber, turn, outcome>>

Local == Call \ Hosted

------------------------------------------------------------------------------
(* Phases of a drain.                                                      *)
(*   "off"       no drain                                                  *)
(*   "recover"   failInterruptedTools                                      *)
(*   "request"   assembling a request                                      *)
(*   "stream"    consuming the provider's stream                           *)
(*   "called"    Tool.Called is committed; its tool is about to start      *)
(*   "closed"    the stream has an Exit                                    *)
(*   "await"     waiting for the tool fibers                               *)
(*   "clear"     interrupting the tool fibers and waiting for them         *)
(*   "settle"    every fiber that matters has an Exit                      *)
(*   "scope"     the turn has its result; its scope waits for the fibers   *)
Phase == {"off", "recover", "request", "stream", "called", "closed", "await", "clear",
          "settle", "scope"}

TurnType ==
  [phase : Phase,
   call : SUBSET Call,                                 \* the call in "called"
   tools : BOOLEAN,                                    \* toolMaterialization is defined
   recover : BOOLEAN,                                  \* recoverOverflow is defined
   started : BOOLEAN,                                  \* hasAssistantStarted
   active : BOOLEAN,                                   \* hasActiveAssistant
   failed : BOOLEAN,                                   \* assistantFailed
   error : BOOLEAN,                                    \* hasProviderError
   overflow : BOOLEAN,                                 \* overflowFailure
   cont : BOOLEAN,                                     \* needsContinuation
   exit : {"none", "success", "overflow", "failure", "defect", "interrupt"},  \* of the stream
   settled : {"none", "success", "rejected", "failure", "interrupt"},         \* of the fibers
   begun : SUBSET Call]                                \* history: calls begun in this drain

Off == [phase |-> "off", call |-> {}, tools |-> FALSE, recover |-> FALSE, started |-> FALSE,
        active |-> FALSE, failed |-> FALSE, error |-> FALSE, overflow |-> FALSE, cont |-> FALSE,
        exit |-> "none", settled |-> "none", begun |-> {}]

NoTool == [known |-> FALSE, called |-> FALSE, settled |-> FALSE]

Init ==
  /\ state = [c \in Call |-> "none"] /\ step = "none"
  /\ tool = [c \in Call |-> NoTool] /\ fiber = [c \in Call |-> "none"]
  /\ turn = Off
  /\ outcome = [c \in Call |-> "none"]

At(phase) == turn.phase = phase

Alive == {c \in Call : fiber[c] \in {"running", "publishing"}}

------------------------------------------------------------------------------
(* What an event does to the projection.                                   *)

Open(s) == s \in {"pending", "running"}

\* session.next.tool.failed of every call in C.
Failed(C) == [c \in Call |-> IF c \in C /\ Open(state[c]) THEN "error" ELSE state[c]]

\* session.next.tool.called, whatever the tool's state.
Called(c) == [state EXCEPT ![c] = "running"]

\* session.next.tool.success and .failed with a result.
Settled(c, result) ==
  [state EXCEPT ![c] = IF @ = "running" \/ (@ = "pending" /\ result = "error") THEN result ELSE @]

\* session.next.step.started, unless the turn's assistant message exists.
StepStarted == step' = IF turn.started THEN step ELSE "open"

(* failUnsettledTools, with and without hostedOnly: the calls it fails.    *)
Unsettled == {c \in Call : tool[c].known /\ ~tool[c].settled}
UnsettledHosted == {c \in Unsettled : c \in Hosted /\ tool[c].called}

FailTools(C) ==
  /\ tool' = [c \in Call |-> IF c \in C THEN [tool[c] EXCEPT !.settled = TRUE] ELSE tool[c]]
  /\ state' = Failed(C)

------------------------------------------------------------------------------
(* The drain, between its turns.                                           *)

Begin ==
  /\ At("off")
  /\ turn' = [Off EXCEPT !.phase = "recover"]
  /\ UNCHANGED <<durable, tool, fiber, outcome>>

\* One publication of failInterruptedTools.
Recover(c) ==
  /\ At("recover") /\ Open(state[c])
  /\ state' = Failed({c})
  /\ UNCHANGED <<step, tool, fiber, turn, outcome>>

Recovered ==
  /\ At("recover") /\ ~\E c \in Call : Open(state[c])
  /\ turn' = [turn EXCEPT !.phase = "request"]
  /\ UNCHANGED <<durable, tool, fiber, outcome>>

\* The request of the next turn: a new publisher, a new set of fibers.  On the
\* last step that the agent's limit allows no tools are offered.
Request ==
  /\ At("request")
  /\ \E tools \in {TRUE} \union {~StepLimited} :
       turn' = [Off EXCEPT !.phase = "stream", !.tools = tools,
                           !.recover = turn.exit # "overflow", !.begun = turn.begun]
  /\ tool' = [c \in Call |-> NoTool]
  /\ fiber' = [c \in Call |-> "none"]
  /\ UNCHANGED <<durable, outcome>>

------------------------------------------------------------------------------
(* The provider's stream.  Events after a provider error are ignored.      *)

Streaming == At("stream") /\ ~turn.error /\ ~turn.overflow

\* Text or reasoning starts the assistant message.
StartText ==
  /\ Streaming
  /\ StepStarted
  /\ turn' = [turn EXCEPT !.started = TRUE, !.active = ~turn.started \/ @]
  /\ UNCHANGED <<state, tool, fiber, outcome>>

\* tool-input-start of a call the Session has not seen.
StartInput(c) ==
  /\ Streaming /\ state[c] = "none"
  /\ StepStarted
  /\ state' = [state EXCEPT ![c] = "pending"]
  /\ tool' = [tool EXCEPT ![c].known = TRUE]
  /\ turn' = [turn EXCEPT !.started = TRUE, !.active = ~turn.started \/ @, !.begun = @ \union {c}]
  /\ UNCHANGED <<fiber, outcome>>

\* tool-call, preceded by the start and the end of its input if need be.  The
\* publisher refuses a second call, not a call it has already settled, and the
\* projection of Tool.Called does not look at the tool's state.
CallTool(c) ==
  /\ Streaming
  /\ \/ state[c] = "none"
     \/ tool[c].known /\ ~tool[c].called
  /\ StepStarted
  /\ state' = Called(c)
  /\ tool' = [tool EXCEPT ![c].known = TRUE, ![c].called = TRUE]
  /\ turn' = [turn EXCEPT !.started = TRUE, !.active = ~turn.started \/ @, !.begun = @ \union {c},
                          !.phase = IF c \in Local THEN "called" ELSE "stream",
                          !.call = IF c \in Local THEN {c} ELSE {}]
  /\ UNCHANGED <<fiber, outcome>>

\* Tools were offered: run the call in a fiber of its own.
StartTool ==
  /\ At("called") /\ turn.tools
  /\ fiber' = [c \in Call |-> IF c \in turn.call THEN "running" ELSE fiber[c]]
  /\ turn' = [turn EXCEPT !.phase = "stream", !.call = {}, !.cont = TRUE]
  /\ UNCHANGED <<durable, tool, outcome>>

\* They were not: fail every tool there is.
RefuseTool ==
  /\ At("called") /\ ~turn.tools
  /\ FailTools(Unsettled)
  /\ turn' = [turn EXCEPT !.phase = "stream", !.call = {}]
  /\ UNCHANGED <<step, fiber, outcome>>

\* tool-result of a hosted call.  A result, other than an error, of a call that
\* was settled before kills the stream.
HostedResult(c, result) ==
  /\ Streaming /\ c \in Hosted /\ tool[c].called /\ ~tool[c].settled
  /\ outcome' = [outcome EXCEPT ![c] = result]
  /\ tool' = [tool EXCEPT ![c].settled = TRUE]
  /\ state' = Settled(c, result)
  /\ UNCHANGED <<step, fiber, turn>>

HostedDuplicate(c) ==
  /\ Streaming /\ c \in Hosted /\ tool[c].called /\ tool[c].settled
  /\ turn' = [turn EXCEPT !.phase = "closed", !.exit = "defect"]
  /\ UNCHANGED <<durable, tool, fiber, outcome>>

\* step-finish.  In a response without content it is also what starts the
\* assistant message, which then counts as active although it has ended.
FinishStep ==
  /\ Streaming
  /\ step' = "ended"
  /\ turn' = [turn EXCEPT !.started = TRUE, !.active = ~turn.started]
  /\ UNCHANGED <<state, tool, fiber, outcome>>

\* provider-error; a context overflow before any output is kept aside.
ProviderError ==
  /\ Streaming
  /\ step' = "failed"
  /\ turn' = [turn EXCEPT !.error = TRUE, !.started = TRUE, !.active = FALSE, !.failed = TRUE]
  /\ UNCHANGED <<state, tool, fiber, outcome>>

Overflow ==
  /\ Streaming /\ ~turn.started
  /\ turn' = [turn EXCEPT !.overflow = TRUE]
  /\ UNCHANGED <<durable, tool, fiber, outcome>>

\* The stream ends, fails with an LLMError, or is interrupted, also between a
\* call and the start of its fiber.
EndStream ==
  /\ At("stream")
  /\ \E exit \in {"success", "failure"} :
       turn' = [turn EXCEPT !.phase = "closed", !.exit = exit]
  /\ UNCHANGED <<durable, tool, fiber, outcome>>

InterruptStream ==
  /\ At("stream") \/ At("called")
  /\ turn' = [turn EXCEPT !.phase = "closed", !.call = {}, !.exit = "interrupt"]
  /\ UNCHANGED <<durable, tool, fiber, outcome>>

------------------------------------------------------------------------------
(* Tool fibers.                                                            *)
(*   "running"     executing, interruptible                                *)
(*   "publishing"  its settlement waits for the publisher, uninterruptible *)
(*   "done", "gone", "rejected", "defect"   its Exit: success, interrupted,*)
(*                 a dismissed question, any other failure                 *)

Interrupted == [c \in Call |-> IF fiber[c] = "running" THEN "gone" ELSE fiber[c]]

FinishTool(c, result) ==
  /\ fiber[c] = "running"
  /\ outcome' = [outcome EXCEPT ![c] = result]
  /\ fiber' = [fiber EXCEPT ![c] = "publishing"]
  /\ UNCHANGED <<durable, tool, turn>>

BreakTool(c) ==
  /\ fiber[c] = "running"
  /\ \E exit \in {"rejected", "defect"} : fiber' = [fiber EXCEPT ![c] = exit]
  /\ UNCHANGED <<durable, tool, turn, outcome>>

\* Mutant: the late result of a call that was failed is recorded as settled.
PublishResultLate(c) ==
  /\ fiber[c] = "publishing"
  /\ fiber' = [fiber EXCEPT ![c] = "done"]
  /\ tool' = [tool EXCEPT ![c].settled = TRUE]
  /\ state' = Settled(c, outcome[c])
  /\ UNCHANGED <<step, turn, outcome>>

\* The result of a call that was settled meanwhile is dropped, or dies.
PublishResult(c) ==
  /\ fiber[c] = "publishing"
  /\ IF tool[c].settled
       THEN /\ fiber' = [fiber EXCEPT ![c] = IF outcome[c] = "error" THEN "done" ELSE "defect"]
            /\ UNCHANGED <<state, tool>>
       ELSE /\ fiber' = [fiber EXCEPT ![c] = "done"]
            /\ tool' = [tool EXCEPT ![c].settled = TRUE]
            /\ state' = Settled(c, outcome[c])
  /\ UNCHANGED <<step, turn, outcome>>

------------------------------------------------------------------------------
(* After the stream: uninterruptible but for the waits.                    *)

\* A context overflow before any output: compact and make one other attempt.
\* The compaction may be interrupted; when it fails the turn goes on.
RecoverOverflow ==
  /\ At("closed") /\ turn.recover /\ ~turn.started
  /\ turn.overflow \/ turn.exit = "failure"
  /\ \/ turn' = [turn EXCEPT !.phase = "request", !.exit = "overflow"]
     \/ turn' = [turn EXCEPT !.phase = "scope", !.exit = "interrupt"]
  /\ UNCHANGED <<durable, tool, fiber, outcome>>

\* Record a failed stream; interrupt the tools of an interrupted one.
CloseStream ==
  /\ At("closed")
  /\ LET fails == turn.exit = "failure" /\ ~turn.error /\ ~turn.overflow
     IN  /\ FailTools(IF fails THEN UnsettledHosted ELSE {})
         /\ step' = IF fails \/ turn.overflow THEN "failed" ELSE step
         /\ turn' = [turn EXCEPT
                       !.error = @ \/ turn.overflow,
                       !.failed = @ \/ fails \/ turn.overflow,
                       !.started = @ \/ fails \/ turn.overflow,
                       !.active = @ /\ ~fails,
                       !.settled = IF turn.exit = "interrupt" THEN "interrupt" ELSE @,
                       !.phase = IF turn.exit = "interrupt" THEN "clear" ELSE "await"]
  /\ fiber' = IF turn.exit = "interrupt" THEN Interrupted ELSE fiber
  /\ UNCHANGED outcome

\* awaitToolFibers: the first failure, or no fiber left.
AwaitTools ==
  /\ At("await")
  /\ \/ /\ \A c \in Call : fiber[c] \in {"none", "done"}
        /\ turn' = [turn EXCEPT !.phase = "settle", !.settled = "success"]
        /\ UNCHANGED fiber
     \/ /\ \E c \in Call : fiber[c] = "rejected"
        /\ turn' = [turn EXCEPT !.phase = "clear", !.settled = "rejected"]
        /\ fiber' = Interrupted
     \/ /\ \E c \in Call : fiber[c] = "defect"
        /\ turn' = [turn EXCEPT !.phase = "settle", !.settled = "failure"]
        /\ UNCHANGED fiber
  /\ UNCHANGED <<durable, tool, outcome>>

InterruptAwait ==
  /\ At("await")
  /\ turn' = [turn EXCEPT !.phase = "clear", !.settled = "interrupt"]
  /\ fiber' = Interrupted
  /\ UNCHANGED <<durable, tool, outcome>>

\* Mutant: waits for interrupted fibers that will never finish.
ClearedWhenDone ==
  /\ At("clear") /\ \A c \in Call : fiber[c] \in {"none", "done"}
  /\ turn' = [turn EXCEPT !.phase = "settle"]
  /\ UNCHANGED <<durable, tool, fiber, outcome>>

\* FiberSet.clear waits for fibers that are publishing.
Cleared ==
  /\ At("clear") /\ Alive = {}
  /\ turn' = [turn EXCEPT !.phase = "settle"]
  /\ UNCHANGED <<durable, tool, fiber, outcome>>

\* Which calls the end of the turn fails.
Leftover ==
  IF turn.settled # "success" \/ turn.error THEN Unsettled
  ELSE IF turn.exit = "success" THEN UnsettledHosted
  ELSE {}

\* Fail what nobody will settle any more, and the assistant message of an
\* interrupted turn.  Leaving the scope interrupts the fibers that remain.
Settle ==
  /\ At("settle")
  /\ FailTools(Leftover)
  /\ step' = IF turn.settled = "interrupt" /\ turn.active /\ ~turn.failed THEN "failed" ELSE step
  /\ turn' = [turn EXCEPT !.phase = "scope", !.active = @ /\ turn.settled # "interrupt"]
  /\ fiber' = Interrupted
  /\ UNCHANGED outcome

\* The turn returns.  A turn that called tools is continued; others may be, for
\* inputs that arrived meanwhile.
EndTurn ==
  /\ At("scope") /\ Alive = {}
  /\ \E more \in BOOLEAN :
       LET returns == turn.exit = "success" /\ turn.settled = "success"
       IN  /\ turn.cont /\ ~turn.error /\ returns => more
           /\ turn' = IF returns /\ more THEN [turn EXCEPT !.phase = "request"] ELSE Off
  /\ UNCHANGED <<durable, tool, fiber, outcome>>

------------------------------------------------------------------------------

\* The drain is interrupted or fails while it recovers or assembles.
Stop ==
  /\ At("recover") \/ At("request")
  /\ turn' = Off
  /\ UNCHANGED <<durable, tool, fiber, outcome>>

Crash ==
  /\ ~At("off")
  /\ turn' = Off
  /\ tool' = [c \in Call |-> NoTool]
  /\ fiber' = [c \in Call |-> "none"]
  /\ UNCHANGED <<durable, outcome>>

FiberStep(c) == PublishResult(c) \/ \E result \in {"completed", "error"} : FinishTool(c, result)

StreamEvent ==
  \/ StartText \/ FinishStep \/ ProviderError \/ Overflow
  \/ \E c \in Call : StartInput(c) \/ CallTool(c) \/ HostedDuplicate(c)
  \/ \E c \in Call, result \in {"completed", "error"} : HostedResult(c, result)

MainStep ==
  \/ \E c \in Call : Recover(c)
  \/ Recovered \/ Request \/ StartTool \/ RefuseTool \/ EndStream
  \/ RecoverOverflow \/ CloseStream \/ AwaitTools \/ Cleared \/ Settle \/ EndTurn

Next ==
  \/ Begin \/ StreamEvent \/ MainStep
  \/ InterruptStream \/ InterruptAwait \/ Stop \/ Crash
  \/ \E c \in Call : FiberStep(c) \/ BreakTool(c)

Spec == Init /\ [][Next]_vars

\* The provider's streams end, tools finish, and fibers run.
FairSpec ==
  /\ Spec
  /\ WF_vars(MainStep)
  /\ \A c \in Call : WF_vars(FiberStep(c))

------------------------------------------------------------------------------
(* Properties.                                                             *)

TypeOK ==
  /\ state \in [Call -> {"none", "pending", "running", "completed", "error"}]
  /\ step \in {"none", "open", "ended", "failed"}
  /\ tool \in [Call -> [known : BOOLEAN, called : BOOLEAN, settled : BOOLEAN]]
  /\ fiber \in [Call -> {"none", "running", "publishing", "done", "gone", "rejected", "defect"}]
  /\ turn \in TurnType
  /\ outcome \in [Call -> {"none", "completed", "error"}]

\* When a request is assembled, every call in the conversation that has been
\* made has its result; a call whose input the provider started in this drain
\* and never finished may lack one.  Whatever went wrong with an earlier turn,
\* drain or process must have been settled.
ResultsBeforeRequest ==
  At("request") =>
    \A c \in Call : state[c] # "running" /\ (state[c] = "pending" => c \in turn.begun)

\* specs/v2/session.md:245: "await all started settlements after provider-turn
\* consumption, persist every result, and reload history once before
\* continuation".
PersistsEveryResult == At("request") => \A c \in Call : state[c] # "running"

\* What the model is told about a tool is what happened: a completed tool has
\* executed to its end, and a tool that has, and whose settlement the turn
\* waited for, is not reported as interrupted.
HonestResult ==
  /\ \A c \in Call : state[c] = "completed" => outcome[c] = "completed"
  /\ \A c \in Call : fiber[c] = "done" /\ outcome[c] = "completed" => state[c] = "completed"

\* A tool never executes outside the turn that called it.
NoStrayTool == At("off") \/ At("recover") \/ At("request") => Alive = {}

\* Whatever order stream events, tools, failures and interrupts come in, the
\* conversation tells the model what its tools did, and no tool outlives its
\* turn; before every request each call made has its result, unless a step limit
\* may refuse a call whose input is still streamed.
ToolsAreHonest ==
  TypeOK /\ HonestResult /\ NoStrayTool /\ (StepLimited \/ ResultsBeforeRequest)

\* The assistant message of a turn that fails or is interrupted is closed when
\* the drain ends, unless the stream died of a protocol defect.
ClosesStep ==
  /\ At("scope") /\ At("off")' /\ turn.started
  /\ turn.exit \in {"failure", "interrupt"} \/ turn.settled = "interrupt"
  => step' # "open"

StepClosed == [][ClosesStep]_vars

\* Whatever its tools do, when they are interrupted and when they publish, a turn
\* comes to its end and the drain with it or on to its next request.
TurnEnds == At("stream") ~> At("request") \/ At("off")

=============================================================================
