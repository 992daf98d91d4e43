---------------------------- MODULE SessionRunner ----------------------------
(***************************************************************************)
(* One Session's execution in one process: admissions and their wakes, the *)
(* coordinator that owns the Session's drain, and the drain's own loop     *)
(* (SessionRunner.run in session/runner/llm.ts).                           *)
(*                                                                         *)
(* Composes DrainGate, which RunCoordinator implements, with the inbox of  *)
(* SessionInbox reduced to which inputs are pending.  A provider turn ends *)
(* by asking for tool results or not; its stream and its tools are inside  *)
(* the step.  Everything in a process can fail or be interrupted between   *)
(* two steps, and the process can crash.                                   *)
(***************************************************************************)
EXTENDS Naturals

CONSTANTS Input,     \* message ids
          Steps      \* the agent's configured step limit

ASSUME StepsAssumption == Steps \in Nat \ {0}

VARIABLES state, owed,   \* the gate: see DrainGate
          kind,          \* [Input -> how it is delivered, "none" before its admission]
          pending,       \* admitted and not promoted
          unanswered,    \* promoted, and no provider turn has ended since
          waking,        \* committed, and the caller is about to wake the Session
          history,       \* there is a conversation since the last compaction
          drain,         \* the drain the gate's owner runs
          excused        \* history variable: inputs no wake accounts for, see NoStrandedInput

gate == <<state, owed>>
inputs == <<kind, pending, unanswered, waking, excused>>
vars == <<gate, inputs, history, drain>>

Gate == INSTANCE DrainGate

------------------------------------------------------------------------------
(* A drain.                                                                *)
(*   "start"     owned, not begun: busy is published, a successor yields   *)
(*   "turn"      runTurnAttempt is about to reach its promotion boundary   *)
(*   "promote"   it has selected `todo`                                    *)
(*   "stream"    its provider request is out                               *)
(*   "after"     the turn is over                                          *)
(*   "shells"    about to look for a shell input                           *)
(*   "shell"     a shell command runs                                      *)
(*   "boundary"  the Session would otherwise go idle                       *)
(*   "done", "failed"   it has an Exit, and the coordinator settles        *)
Running == {"start", "turn", "promote", "stream", "after", "shells", "shell", "boundary"}

DrainType ==
  [pc : {"off", "done", "failed"} \union Running,
   force : BOOLEAN,                         \* an explicit resume forces the next turn
   promotion : {"none", "steer", "queue"},  \* of the next turn
   step : 1 .. Steps + 1,
   open : BOOLEAN,                          \* the last turn called tools
   recovered : BOOLEAN,                     \* the turn has recovered from an overflow
   todo : SUBSET Input,
   \* History variables: turns since an input last became visible, and whether
   \* the drain has promoted a queued prompt that no turn has answered.
   turns : Nat, queued : BOOLEAN]

Started(force) ==
  [pc |-> "start", force |-> force, promotion |-> "none", step |-> 1, open |-> FALSE,
   recovered |-> FALSE, todo |-> {}, turns |-> 0, queued |-> FALSE]

Off == [Started(FALSE) EXCEPT !.pc = "off"]
Failed == [Started(FALSE) EXCEPT !.pc = "failed"]

Pending(k) == {i \in pending : kind[i] = k}

Init ==
  /\ Gate!Init
  /\ kind = [i \in Input |-> "none"]
  /\ pending = {} /\ unanswered = {} /\ waking = {} /\ excused = {}
  /\ history = FALSE
  /\ drain = Off

------------------------------------------------------------------------------
(* Clients.                                                                *)

\* The inbox row is committed.  The wake is a later step, or none if the caller
\* passed resume: false.
Admit(i) ==
  /\ kind[i] = "none"
  /\ \E k \in {"steer", "queue", "shell"} : kind' = [kind EXCEPT ![i] = k]
  /\ pending' = pending \union {i}
  /\ \/ waking' = waking \union {i} /\ UNCHANGED excused
     \/ excused' = excused \union {i} /\ UNCHANGED waking
  /\ UNCHANGED <<gate, unanswered, history, drain>>

\* Whoever asks while the gate is idle gets a drain of his own.
Asked(force) ==
  /\ Gate!Ask
  /\ drain' = IF state = "idle" THEN Started(force) ELSE drain

\* execution.wake, after an admission or by an exact retry of one.  From now on
\* the Session owes everything that is pending a look.
Wake(i) ==
  /\ kind[i] # "none"
  /\ Asked(FALSE)
  /\ waking' = waking \ {i}
  /\ excused' = excused \ pending
  /\ UNCHANGED <<kind, pending, unanswered, history>>

\* injectSynthetic can be interrupted between its admission and its wake.
LoseWake(i) ==
  /\ i \in waking /\ kind[i] = "steer"
  /\ waking' = waking \ {i}
  /\ excused' = excused \union {i}
  /\ UNCHANGED <<gate, kind, pending, unanswered, history, drain>>

\* execution.resume of an idle Session.  Otherwise it joins and changes nothing.
Resume ==
  /\ state = "idle"
  /\ Asked(TRUE)
  /\ excused' = {}
  /\ UNCHANGED <<kind, pending, unanswered, waking, history>>

\* execution.interrupt drops the owed wake and stops the drain, unless that has
\* its Exit already.
Interrupt ==
  /\ Gate!Halt
  /\ drain' = IF drain.pc \in Running THEN Failed ELSE drain
  /\ excused' = excused \union pending
  /\ UNCHANGED <<kind, pending, unanswered, waking, history>>

------------------------------------------------------------------------------
(* The drain.                                                              *)

Stepping(pc) == drain.pc = pc /\ UNCHANGED <<gate, kind, waking>>

\* Mutant: a shell input does not count as eligible.
BeginWithoutShell ==
  /\ Stepping("start")
  /\ LET promotion == IF Pending("steer") # {} THEN "steer"
                      ELSE IF Pending("queue") # {} THEN "queue" ELSE "none"
     IN  drain' = [drain EXCEPT
           !.promotion = promotion,
           !.pc = IF promotion # "none" \/ drain.force THEN "turn" ELSE "done"]
  /\ UNCHANGED <<pending, unanswered, excused, history>>

\* Mutant: every drain makes a provider turn.
BeginAnyway ==
  /\ Stepping("start")
  /\ drain' = [drain EXCEPT
       !.promotion = IF Pending("steer") # {} THEN "steer"
                     ELSE IF Pending("queue") # {} THEN "queue" ELSE "none",
       !.pc = "turn"]
  /\ UNCHANGED <<pending, unanswered, excused, history>>

\* What the drain is for: steers, else one queued prompt, else shell inputs.  A
\* wake that finds nothing eligible returns.
Begin ==
  /\ Stepping("start")
  /\ LET promotion == IF Pending("steer") # {} THEN "steer"
                      ELSE IF Pending("queue") # {} THEN "queue" ELSE "none"
     IN  drain' = [drain EXCEPT
           !.promotion = promotion,
           !.pc = IF promotion # "none" \/ drain.force THEN "turn"
                  ELSE IF Pending("shell") # {} THEN "shells" ELSE "done"]
  /\ UNCHANGED <<pending, unanswered, excused, history>>

\* Mutant: a boundary selects every queued prompt.
SelectAll ==
  /\ Stepping("turn")
  /\ LET rows == CASE drain.promotion = "none"  -> {}
                   [] drain.promotion = "steer" -> Pending("steer")
                   [] drain.promotion = "queue" -> Pending("steer") \union Pending("queue")
     IN  drain' = [drain EXCEPT !.pc = "promote", !.todo = rows,
                                !.step = IF rows = {} THEN @ ELSE 1]
  /\ UNCHANGED <<pending, unanswered, excused, history>>

\* A promotion boundary selects the pending steers, and before them one queued
\* prompt (the oldest: see SessionInbox) if the Session was about to go idle.
\* New input resets the step allowance.
Select ==
  /\ Stepping("turn")
  /\ \E queued \in SUBSET Pending("queue") :
       /\ \A i, j \in queued : i = j
       /\ queued = {} <=> (drain.promotion # "queue" \/ Pending("queue") = {})
       /\ LET rows == queued \union (IF drain.promotion = "none" THEN {} ELSE Pending("steer"))
          IN  drain' = [drain EXCEPT !.pc = "promote", !.todo = rows,
                                     !.step = IF rows = {} THEN @ ELSE 1]
  /\ UNCHANGED <<pending, unanswered, excused, history>>

Promote(i) ==
  /\ Stepping("promote")
  /\ i \in drain.todo /\ i \in pending
  /\ pending' = pending \ {i}
  /\ unanswered' = unanswered \union {i}
  /\ excused' = excused \ {i}
  /\ history' = TRUE
  /\ drain' = [drain EXCEPT !.todo = @ \ {i}, !.turns = 0,
                             !.queued = @ \/ kind[i] = "queue"]

\* A prompt that was promoted elsewhere meanwhile is skipped; a skill, synthetic
\* or command (all of them steers) kills the drain, which Fail covers.
PromoteLate(i) ==
  /\ Stepping("promote")
  /\ i \in drain.todo /\ i \notin pending
  /\ drain' = [drain EXCEPT !.todo = @ \ {i}]
  /\ UNCHANGED <<pending, unanswered, excused, history>>

\* Mutant: the turn after a compaction starts with a full step allowance.
CompactResetsStep ==
  /\ Stepping("promote") /\ drain.todo = {} /\ history
  /\ history' = FALSE
  /\ drain' = [drain EXCEPT !.pc = "turn", !.promotion = "none", !.step = 1]
  /\ UNCHANGED <<pending, unanswered, excused>>

\* The request would not fit: compact and attempt the turn again, without a
\* promotion and at the same step.  There is nothing to compact right after a
\* compaction.
Compact ==
  /\ Stepping("promote") /\ drain.todo = {} /\ history
  /\ history' = FALSE
  /\ drain' = [drain EXCEPT !.pc = "turn", !.promotion = "none"]
  /\ UNCHANGED <<pending, unanswered, excused>>

Request ==
  /\ Stepping("promote") /\ drain.todo = {}
  /\ drain' = [drain EXCEPT !.pc = "stream"]
  /\ UNCHANGED <<pending, unanswered, excused, history>>

\* The provider rejects the request as too long before it answers: compact once
\* and attempt the turn again.
RecoverOverflow ==
  /\ Stepping("stream") /\ ~drain.recovered /\ history
  /\ history' = FALSE
  /\ drain' = [drain EXCEPT !.pc = "turn", !.promotion = "none", !.recovered = TRUE]
  /\ UNCHANGED <<pending, unanswered, excused>>

\* The provider turn ends, also with a provider error.  Tools are not offered at
\* the last step of the allowance, and continue the drain once they settle.
\* Steps past the limit are counted as one.
EndTurn ==
  /\ Stepping("stream")
  /\ \E called \in BOOLEAN :
       /\ called => drain.step < Steps
       /\ drain' = [drain EXCEPT !.pc = "after", !.promotion = "steer", !.open = called,
                      !.step = IF @ > Steps THEN @ ELSE @ + 1, !.recovered = FALSE,
                      !.force = FALSE, !.turns = @ + 1, !.queued = FALSE]
  /\ unanswered' = {}
  /\ history' = TRUE
  /\ UNCHANGED <<pending, excused>>

\* Mutant: tool results do not continue the drain.
AfterIgnoresTools ==
  /\ Stepping("after")
  /\ drain' = [drain EXCEPT !.pc = IF Pending("steer") # {} THEN "turn" ELSE "shells"]
  /\ UNCHANGED <<pending, unanswered, excused, history>>

\* Tool results and steers admitted meanwhile require another turn.
After ==
  /\ Stepping("after")
  /\ drain' = [drain EXCEPT !.pc = IF drain.open \/ Pending("steer") # {} THEN "turn" ELSE "shells"]
  /\ UNCHANGED <<pending, unanswered, excused, history>>

\* Shell.Started promotes the input; its command runs for 30 seconds at most.
RunShell(i) ==
  /\ Stepping("shells") /\ i \in Pending("shell")
  /\ pending' = pending \ {i}
  /\ excused' = excused \ {i}
  /\ history' = TRUE
  /\ drain' = [drain EXCEPT !.pc = "shell"]
  /\ UNCHANGED unanswered

ShellEnds ==
  /\ Stepping("shell")
  /\ drain' = [drain EXCEPT !.pc = "shells"]
  /\ UNCHANGED <<pending, unanswered, excused, history>>

NoShell ==
  /\ Stepping("shells") /\ Pending("shell") = {}
  /\ drain' = [drain EXCEPT !.pc = "boundary"]
  /\ UNCHANGED <<pending, unanswered, excused, history>>

\* Mutant: the drain ends at the boundary and leaves the queue to a later wake.
BoundaryEnds ==
  /\ Stepping("boundary")
  /\ drain' = [drain EXCEPT !.pc = IF Pending("shell") # {} THEN "shells" ELSE "done"]
  /\ UNCHANGED <<pending, unanswered, excused, history>>

\* The next queued prompt starts another activity, else the drain is done.
Boundary ==
  /\ Stepping("boundary")
  /\ drain' = IF Pending("queue") # {}
              THEN [drain EXCEPT !.pc = "turn", !.promotion = "queue", !.step = 1]
              ELSE [drain EXCEPT !.pc = IF Pending("shell") # {} THEN "shells" ELSE "done"]
  /\ UNCHANGED <<pending, unanswered, excused, history>>

\* The busy publication, a read, a policy gate, the provider, a tool or a
\* projector fails.  A failure of a shell command is output, not a failure.
Fail ==
  /\ drain.pc \in Running
  /\ drain' = Failed
  /\ UNCHANGED <<gate, inputs, history>>

------------------------------------------------------------------------------
(* The coordinator.                                                        *)

\* Mutant: a failed drain's coalesced wake is dropped with it.
FinishDropsWake ==
  /\ drain.pc \in {"done", "failed"} /\ state = "serving"
  /\ state' = IF owed /\ drain.pc = "done" THEN "serving" ELSE "closing"
  /\ owed' = FALSE
  /\ drain' = IF state' = "serving" THEN Started(FALSE) ELSE Off
  /\ excused' = IF drain.pc = "done" THEN excused
                ELSE excused \union unanswered \union (IF owed THEN {} ELSE pending)
  /\ UNCHANGED <<kind, pending, unanswered, waking, history>>

\* settle.  What a failed drain had promoted is not retried; what is pending
\* gets another drain only if a wake is owed.
Finish ==
  /\ drain.pc \in {"done", "failed"}
  /\ Gate!Finish
  /\ drain' = IF owed THEN Started(FALSE) ELSE Off
  /\ excused' = IF drain.pc = "done" THEN excused
                ELSE excused \union unanswered \union (IF owed THEN {} ELSE pending)
  /\ UNCHANGED <<kind, pending, unanswered, waking, history>>

\* Mutant: the successor enters the map and is never started.
CloseStartsNobody ==
  /\ Gate!Close
  /\ drain' = Off
  /\ UNCHANGED <<inputs, history>>

\* Idle is published; a wake that arrived meanwhile starts a new busy interval.
Close ==
  /\ Gate!Close
  /\ drain' = IF owed THEN Started(FALSE) ELSE Off
  /\ UNCHANGED <<inputs, history>>

------------------------------------------------------------------------------
(* The rest of the world.                                                  *)

\* Another process's promotion is replayed here; that process answers it.
PromotedElsewhere(i) ==
  /\ i \in pending /\ kind[i] # "shell"
  /\ pending' = pending \ {i}
  /\ unanswered' = unanswered \union {i}
  /\ excused' = excused \union {i}
  /\ history' = TRUE
  /\ drain' = [drain EXCEPT !.turns = 0]
  /\ UNCHANGED <<gate, kind, waking>>

\* The process ends; the database keeps the inbox and the history.  Nothing
\* wakes the Session when the next process starts.
Crash ==
  /\ state' = "idle" /\ owed' = FALSE
  /\ drain' = Off
  /\ waking' = {}
  /\ excused' = pending \union unanswered
  /\ UNCHANGED <<kind, pending, unanswered, history>>

------------------------------------------------------------------------------

DrainStep ==
  \/ Begin \/ Select \/ Compact \/ Request \/ RecoverOverflow \/ EndTurn \/ After
  \/ ShellEnds \/ NoShell \/ Boundary
  \/ \E i \in Input : Promote(i) \/ PromoteLate(i) \/ RunShell(i)

Settle == Finish \/ Close

Next ==
  \/ \E i \in Input : Admit(i) \/ Wake(i) \/ LoseWake(i) \/ PromotedElsewhere(i)
  \/ Resume \/ Interrupt \/ Crash
  \/ DrainStep \/ Fail \/ Settle

Spec == Init /\ [][Next]_vars

\* The runtime runs the drain's fiber and the callers, who are uninterruptible
\* between admission and wake.  A provider stream and a command end: there is no
\* timeout on the former.
Fairness ==
  /\ WF_vars(DrainStep)
  /\ WF_vars(Settle)
  /\ \A i \in Input : WF_vars(i \in waking /\ Wake(i))

FairSpec == Spec /\ Fairness

------------------------------------------------------------------------------
(* Correctness.                                                            *)

TypeOK ==
  /\ Gate!TypeOK
  /\ kind \in [Input -> {"none", "steer", "queue", "shell"}]
  /\ pending \subseteq Input /\ unanswered \subseteq Input
  /\ waking \subseteq Input /\ excused \subseteq Input
  /\ history \in BOOLEAN
  /\ drain \in DrainType
  /\ drain.pc = "off" <=> state # "serving"

\* A Session never goes idle over work it owes an answer: whatever is pending or
\* unanswered was admitted without a wake, or its caller is about to wake, or
\* nothing has asked for it since a failure, an interrupt or a crash cut its
\* drain short.  Admissions, wakes, the drain's checks and the coordinator's
\* settlement are separate steps; no order of them strands an input.
NoStrandedInput ==
  state = "idle" => pending \union unanswered \subseteq excused \union waking

\* specs/v2/session.md:204: "A wake calls the provider only when it can promote
\* eligible input."  Every request answers something: an explicit resume, an
\* input, or tool results.
NoIdleRequest ==
  [][Request => drain.force \/ drain.open \/ unanswered # {}]_vars

\* CONTEXT.md:109: a queued prompt does not promote while the drain requires
\* continuation, and no drain promotes another one before a turn has answered it.
QueueOneAtATime ==
  [][\A i \in Input : Promote(i) /\ kind[i] = "queue" => ~drain.open /\ ~drain.queued]_vars

\* However turns are compacted, recovered or continued, an agent gets no more
\* turns on the same input than its step limit, and calls no tools in the last.
StepLimit == drain.open => drain.turns < Steps

\* An input whose caller wakes the Session is promoted and answered, unless an
\* interrupt, a failure or a crash strands it, or retries by its client keep
\* starting drains that all fail.
InputIsAnswered ==
  \/ []<><<Fail>>_vars
  \/ \A i \in Input :
       i \in waking ~> (i \in excused \/ i \notin pending \union unanswered)

==============================================================================
