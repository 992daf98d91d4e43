------------------------- MODULE SessionRunner_proofs ------------------------
(***************************************************************************)
(* Proofs about SessionRunner, for any set of inputs and any step limit:   *)
(* its type invariant, that no input is stranded, that an agent stays      *)
(* within its step limit, that every provider request has a reason, and    *)
(* that queued prompts are promoted one at a time.                         *)
(***************************************************************************)
EXTENDS SessionRunner, TLAPS

\* The gate owes nothing while it is idle.  Inputs exist once admitted, and are
\* pending or visible, not both.  Only a promotion boundary has selected rows.
Sound ==
  /\ state = "idle" => ~owed
  /\ pending \intersect unanswered = {}
  /\ \A i \in pending \union unanswered \union drain.todo : kind[i] # "none"
  /\ drain.pc # "promote" => drain.todo = {}

\* The drain has yet to look at pending inputs of kind k, or its failure will
\* excuse them.
Looks(k) ==
  \/ drain.pc \in {"start", "turn", "promote", "stream", "after", "failed"}
  \/ k \in {"queue", "shell"} /\ drain.pc \in {"shells", "shell", "boundary"}

\* A pending input that nothing excuses has a drain to come, or one that will
\* still look for it.
PendingCovered ==
  \A i \in pending \ (excused \union waking) :
    owed \/ (state = "serving" /\ Looks(kind[i]))

\* A visible input without an answer has a provider turn in progress, or a
\* forced one to come.
UnansweredCovered ==
  \A i \in unanswered \ excused :
    /\ state = "serving"
    /\ \/ drain.pc \in {"turn", "promote", "stream", "failed"}
       \/ drain.pc = "start" /\ drain.force

\* The step counter runs ahead of the turns spent since an input last became
\* visible, except where a selection of new input is about to reset the latter.
StepsAhead ==
  /\ drain.open => drain.turns < Steps
  /\ \/ drain.turns = 0
     \/ drain.step <= Steps => drain.turns < drain.step
     \/ drain.pc = "promote" /\ drain.todo # {} /\ drain.todo \subseteq pending
     \/ drain.pc = "turn" /\ drain.promotion = "queue" /\ Pending("queue") # {}

\* Queued prompts are selected at most one at a time, and only when no turn has
\* to continue and no queued prompt waits for its answer.
QueueSelected ==
  /\ \A i \in drain.todo : kind[i] = "queue" =>
       ~drain.open /\ ~drain.queued /\ \A j \in drain.todo : kind[j] = "queue" => j = i
  /\ drain.pc = "turn" /\ drain.promotion = "queue" => ~drain.open /\ ~drain.queued
  /\ drain.pc \in {"start", "shells", "shell", "boundary"} => ~drain.open /\ ~drain.queued
  /\ drain.pc = "after" => drain.promotion = "steer" /\ ~drain.queued

\* What the request of the coming turn will answer.
Reason == drain.force \/ drain.open \/ unanswered # {}

TurnHasReason ==
  /\ drain.pc = "turn" =>
       \/ Reason
       \/ drain.promotion # "none" /\ Pending("steer") # {}
       \/ drain.promotion = "queue" /\ Pending("queue") # {}
  /\ drain.pc = "promote" => Reason \/ drain.todo \intersect pending # {}
  /\ drain.pc = "stream" => Reason

IInv ==
  /\ TypeOK
  /\ Sound
  /\ PendingCovered
  /\ UnansweredCovered
  /\ StepsAhead
  /\ QueueSelected
  /\ TurnHasReason

------------------------------------------------------------------------------
(* A new drain, an absent one and a failed one are drains.                 *)

LEMMA StartedType ==
  ASSUME NEW f \in BOOLEAN
  PROVE  Started(f) \in DrainType /\ Started(f).pc = "start"
  BY StepsAssumption DEF Started, DrainType, Running

LEMMA OffTypes ==
  /\ Off \in DrainType /\ Off.pc = "off"
  /\ Failed \in DrainType /\ Failed.pc = "failed"
  BY StartedType DEF Off, Failed, DrainType, Running

------------------------------------------------------------------------------
(* Each action preserves the inductive invariant.                          *)

LEMMA AdmitInv ==
  ASSUME IInv, NEW i \in Input, Admit(i)
  PROVE  IInv'
  <1>1. TypeOK'
    BY DEF IInv, TypeOK, Admit, gate, Gate!TypeOK
  <1>2. Sound'
    BY DEF IInv, TypeOK, Sound, Admit, gate
  <1>3. PendingCovered'
    BY DEF IInv, PendingCovered, Admit, gate, Looks
  <1>4. UnansweredCovered'
    BY DEF IInv, UnansweredCovered, Admit, gate
  <1>5. StepsAhead'
    BY DEF IInv, StepsAhead, Admit, Pending
  <1>6. QueueSelected'
    BY DEF IInv, Sound, QueueSelected, Admit
  <1>7. TurnHasReason'
    BY DEF IInv, TurnHasReason, Admit, Reason, Pending
  <1> QED
    BY <1>1, <1>2, <1>3, <1>4, <1>5, <1>6, <1>7 DEF IInv

LEMMA WakeInv ==
  ASSUME IInv, NEW i \in Input, Wake(i)
  PROVE  IInv'
  <1>1. TypeOK'
    BY StartedType DEF IInv, TypeOK, Wake, Asked, Gate!Ask, Gate!TypeOK
  <1>2. Sound'
    BY DEF IInv, Sound, Wake, Asked, Gate!Ask, Started
  <1>3. PendingCovered'
    BY DEF IInv, PendingCovered, Wake, Asked, Gate!Ask, Started, Looks
  <1>4. UnansweredCovered'
    BY DEF IInv, Sound, UnansweredCovered, Wake, Asked, Gate!Ask
  <1>5. StepsAhead'
    BY DEF IInv, StepsAhead, Wake, Asked, Started, Pending
  <1>6. QueueSelected'
    BY DEF IInv, QueueSelected, Wake, Asked, Started
  <1>7. TurnHasReason'
    BY DEF IInv, TurnHasReason, Wake, Asked, Started, Reason, Pending
  <1> QED
    BY <1>1, <1>2, <1>3, <1>4, <1>5, <1>6, <1>7 DEF IInv

LEMMA LoseWakeInv ==
  ASSUME IInv, NEW i \in Input, LoseWake(i)
  PROVE  IInv'
  <1>1. TypeOK'
    BY DEF IInv, TypeOK, LoseWake, gate, Gate!TypeOK
  <1>2. Sound'
    BY DEF IInv, Sound, LoseWake, gate
  <1>3. PendingCovered'
    BY DEF IInv, PendingCovered, LoseWake, gate, Looks
  <1>4. UnansweredCovered'
    BY DEF IInv, UnansweredCovered, LoseWake, gate
  <1>5. StepsAhead'
    BY DEF IInv, StepsAhead, LoseWake, Pending
  <1>6. QueueSelected'
    BY DEF IInv, QueueSelected, LoseWake
  <1>7. TurnHasReason'
    BY DEF IInv, TurnHasReason, LoseWake, Reason, Pending
  <1> QED
    BY <1>1, <1>2, <1>3, <1>4, <1>5, <1>6, <1>7 DEF IInv

LEMMA PromotedElsewhereInv ==
  ASSUME IInv, NEW i \in Input, PromotedElsewhere(i)
  PROVE  IInv'
  <1>1. TypeOK'
    BY DEF IInv, TypeOK, PromotedElsewhere, gate, DrainType, Gate!TypeOK
  <1>2. Sound'
    BY DEF IInv, Sound, PromotedElsewhere, gate
  <1>3. PendingCovered'
    BY DEF IInv, PendingCovered, PromotedElsewhere, gate, Looks
  <1>4. UnansweredCovered'
    BY DEF IInv, UnansweredCovered, PromotedElsewhere, gate
  <1>5. StepsAhead'
    BY StepsAssumption DEF IInv, StepsAhead, PromotedElsewhere
  <1>6. QueueSelected'
    BY DEF IInv, QueueSelected, PromotedElsewhere
  <1>7. TurnHasReason'
    BY DEF IInv, TurnHasReason, PromotedElsewhere, Reason
  <1> QED
    BY <1>1, <1>2, <1>3, <1>4, <1>5, <1>6, <1>7 DEF IInv

LEMMA ResumeInv ==
  ASSUME IInv, Resume
  PROVE  IInv'
  <1>1. TypeOK'
    BY StartedType DEF IInv, TypeOK, Resume, Asked, Gate!Ask, Gate!TypeOK
  <1>2. Sound'
    BY DEF IInv, Sound, Resume, Asked, Gate!Ask, Started
  <1>3. PendingCovered'
    BY DEF IInv, PendingCovered, Resume, Asked, Gate!Ask, Started, Looks
  <1>4. UnansweredCovered'
    BY DEF IInv, UnansweredCovered, Resume, Asked, Gate!Ask, Started
  <1>5. StepsAhead'
    BY DEF IInv, StepsAhead, Resume, Asked, Started
  <1>6. QueueSelected'
    BY DEF IInv, QueueSelected, Resume, Asked, Started
  <1>7. TurnHasReason'
    BY DEF IInv, TurnHasReason, Resume, Asked, Started
  <1> QED
    BY <1>1, <1>2, <1>3, <1>4, <1>5, <1>6, <1>7 DEF IInv

LEMMA InterruptInv ==
  ASSUME IInv, Interrupt
  PROVE  IInv'
  <1>1. TypeOK'
    BY OffTypes DEF IInv, TypeOK, Interrupt, Gate!Halt, Running, Gate!TypeOK
  <1>2. Sound'
    BY DEF IInv, Sound, Interrupt, Gate!Halt, Failed, Started
  <1>3. PendingCovered'
    BY DEF IInv, PendingCovered, Interrupt
  <1>4. UnansweredCovered'
    BY DEF IInv, UnansweredCovered, Interrupt, Gate!Halt, Failed
  <1>5. StepsAhead'
    BY DEF IInv, StepsAhead, Interrupt, Failed, Started, Running
  <1>6. QueueSelected'
    BY DEF IInv, QueueSelected, Interrupt, Failed, Started
  <1>7. TurnHasReason'
    BY DEF IInv, TurnHasReason, Interrupt, Failed, Running
  <1> QED
    BY <1>1, <1>2, <1>3, <1>4, <1>5, <1>6, <1>7 DEF IInv

LEMMA CrashInv ==
  ASSUME IInv, Crash
  PROVE  IInv'
  <1>1. TypeOK'
    BY OffTypes DEF IInv, TypeOK, Crash, Gate!TypeOK
  <1>2. Sound'
    BY DEF IInv, Sound, Crash, Off, Started
  <1>3. PendingCovered'
    BY DEF IInv, PendingCovered, Crash
  <1>4. UnansweredCovered'
    BY DEF IInv, UnansweredCovered, Crash
  <1>5. StepsAhead'
    BY DEF IInv, StepsAhead, Crash, Off, Started
  <1>6. QueueSelected'
    BY DEF IInv, QueueSelected, Crash, Off, Started
  <1>7. TurnHasReason'
    BY DEF IInv, TurnHasReason, Crash, Off
  <1> QED
    BY <1>1, <1>2, <1>3, <1>4, <1>5, <1>6, <1>7 DEF IInv

LEMMA FailInv ==
  ASSUME IInv, Fail
  PROVE  IInv'
  <1>1. TypeOK'
    BY OffTypes DEF IInv, TypeOK, Fail, gate, inputs, Running, Gate!TypeOK
  <1>2. Sound'
    BY DEF IInv, Sound, Fail, gate, inputs, Failed, Started
  <1>3. PendingCovered'
    BY DEF IInv, PendingCovered, Fail, gate, inputs, Failed, Looks
  <1>4. UnansweredCovered'
    BY DEF IInv, UnansweredCovered, Fail, gate, inputs, Failed
  <1>5. StepsAhead'
    BY DEF IInv, StepsAhead, Fail, Failed, Started
  <1>6. QueueSelected'
    BY DEF IInv, QueueSelected, Fail, Failed, Started
  <1>7. TurnHasReason'
    BY DEF IInv, TurnHasReason, Fail, Failed
  <1> QED
    BY <1>1, <1>2, <1>3, <1>4, <1>5, <1>6, <1>7 DEF IInv

LEMMA FinishInv ==
  ASSUME IInv, Finish
  PROVE  IInv'
  <1>1. TypeOK'
    BY StartedType, OffTypes DEF IInv, TypeOK, Finish, Gate!Finish, Gate!TypeOK
  <1>2. Sound'
    BY DEF IInv, Sound, Finish, Gate!Finish, Off, Started
  <1>3. PendingCovered'
    BY DEF IInv, PendingCovered, Finish, Gate!Finish, Started, Looks
  <1>4. UnansweredCovered'
    BY DEF IInv, UnansweredCovered, Finish
  <1>5. StepsAhead'
    BY DEF IInv, StepsAhead, Finish, Off, Started
  <1>6. QueueSelected'
    BY DEF IInv, QueueSelected, Finish, Off, Started
  <1>7. TurnHasReason'
    BY DEF IInv, TurnHasReason, Finish, Off, Started
  <1> QED
    BY <1>1, <1>2, <1>3, <1>4, <1>5, <1>6, <1>7 DEF IInv

LEMMA CloseInv ==
  ASSUME IInv, Close
  PROVE  IInv'
  <1>1. TypeOK'
    BY StartedType, OffTypes DEF IInv, TypeOK, Close, Gate!Close, inputs, Gate!TypeOK
  <1>2. Sound'
    BY DEF IInv, Sound, Close, Gate!Close, Off, Started, inputs
  <1>3. PendingCovered'
    BY DEF IInv, PendingCovered, Close, Gate!Close, Started, inputs, Looks
  <1>4. UnansweredCovered'
    BY DEF IInv, UnansweredCovered, Close, Gate!Close, inputs
  <1>5. StepsAhead'
    BY DEF IInv, StepsAhead, Close, Off, Started
  <1>6. QueueSelected'
    BY DEF IInv, QueueSelected, Close, Off, Started
  <1>7. TurnHasReason'
    BY DEF IInv, TurnHasReason, Close, Off, Started
  <1> QED
    BY <1>1, <1>2, <1>3, <1>4, <1>5, <1>6, <1>7 DEF IInv

LEMMA BeginInv ==
  ASSUME IInv, Begin
  PROVE  IInv'
  <1>1. TypeOK'
    BY DEF IInv, TypeOK, Begin, Stepping, gate, DrainType, Running, Gate!TypeOK
  <1>2. Sound'
    BY DEF IInv, Sound, Begin, Stepping, gate
  <1>3. PendingCovered'
    BY DEF IInv, TypeOK, Sound, PendingCovered, Begin, Stepping, gate, Pending, Looks
  <1>4. UnansweredCovered'
    BY DEF IInv, UnansweredCovered, Begin, Stepping, gate
  <1>5. StepsAhead'
    BY DEF IInv, StepsAhead, Begin, Stepping
  <1>6. QueueSelected'
    BY DEF IInv, QueueSelected, Begin, Stepping
  <1>7. TurnHasReason'
    BY DEF IInv, TurnHasReason, Begin, Stepping, Pending, Reason
  <1> QED
    BY <1>1, <1>2, <1>3, <1>4, <1>5, <1>6, <1>7 DEF IInv

LEMMA SelectInv ==
  ASSUME IInv, Select
  PROVE  IInv'
  <1>1. TypeOK'
    <2>1. PICK rows \in SUBSET Input :
            drain' = [drain EXCEPT !.pc = "promote", !.todo = rows,
                                   !.step = IF rows = {} THEN @ ELSE 1]
      BY DEF IInv, TypeOK, Select, Pending
    <2>2. (IF rows = {} THEN drain.step ELSE 1) \in 1 .. Steps + 1
      BY StepsAssumption DEF IInv, TypeOK, DrainType
    <2>3. drain' \in DrainType /\ drain'.pc = "promote"
      BY <2>1, <2>2 DEF IInv, TypeOK, DrainType, Running
    <2> QED
      BY <2>3 DEF IInv, TypeOK, Select, Stepping, gate, Gate!TypeOK
  <1>2. Sound'
    BY DEF IInv, Sound, Select, Stepping, gate, Pending
  <1>3. PendingCovered'
    BY DEF IInv, PendingCovered, Select, Stepping, gate, Looks
  <1>4. UnansweredCovered'
    BY DEF IInv, UnansweredCovered, Select, Stepping, gate
  <1>5. StepsAhead'
    BY DEF IInv, StepsAhead, Select, Stepping, Pending
  <1>6. QueueSelected'
    BY DEF IInv, QueueSelected, Select, Stepping, Pending
  <1>7. TurnHasReason'
    BY DEF IInv, TurnHasReason, Select, Stepping, Pending, Reason
  <1> QED
    BY <1>1, <1>2, <1>3, <1>4, <1>5, <1>6, <1>7 DEF IInv

LEMMA PromoteInv ==
  ASSUME IInv, NEW i \in Input, Promote(i)
  PROVE  IInv'
  <1>1. TypeOK'
    BY DEF IInv, TypeOK, Promote, Stepping, gate, DrainType, Gate!TypeOK
  <1>2. Sound'
    BY DEF IInv, Sound, Promote, Stepping, gate
  <1>3. PendingCovered'
    BY DEF IInv, PendingCovered, Promote, Stepping, gate, Looks
  <1>4. UnansweredCovered'
    BY DEF IInv, TypeOK, UnansweredCovered, Promote, Stepping, gate
  <1>5. StepsAhead'
    BY StepsAssumption DEF IInv, StepsAhead, Promote
  <1>6. QueueSelected'
    BY DEF IInv, TypeOK, QueueSelected, Promote, Stepping, DrainType
  <1>7. TurnHasReason'
    BY DEF IInv, TurnHasReason, Promote, Reason
  <1> QED
    BY <1>1, <1>2, <1>3, <1>4, <1>5, <1>6, <1>7 DEF IInv

LEMMA PromoteLateInv ==
  ASSUME IInv, NEW i \in Input, PromoteLate(i)
  PROVE  IInv'
  <1>1. TypeOK'
    BY DEF IInv, TypeOK, PromoteLate, Stepping, gate, DrainType, Gate!TypeOK
  <1>2. Sound'
    BY DEF IInv, Sound, PromoteLate, Stepping, gate
  <1>3. PendingCovered'
    BY DEF IInv, PendingCovered, PromoteLate, Stepping, gate, Looks
  <1>4. UnansweredCovered'
    BY DEF IInv, UnansweredCovered, PromoteLate, Stepping, gate
  <1>5. StepsAhead'
    BY DEF IInv, StepsAhead, PromoteLate, Stepping
  <1>6. QueueSelected'
    BY DEF IInv, QueueSelected, PromoteLate, Stepping
  <1>7. TurnHasReason'
    BY DEF IInv, TurnHasReason, PromoteLate, Stepping, Reason
  <1> QED
    BY <1>1, <1>2, <1>3, <1>4, <1>5, <1>6, <1>7 DEF IInv

LEMMA CompactInv ==
  ASSUME IInv, Compact
  PROVE  IInv'
  <1>1. TypeOK'
    BY DEF IInv, TypeOK, Compact, Stepping, gate, DrainType, Running, Gate!TypeOK
  <1>2. Sound'
    BY DEF IInv, Sound, Compact, Stepping, gate
  <1>3. PendingCovered'
    BY DEF IInv, PendingCovered, Compact, Stepping, gate, Looks
  <1>4. UnansweredCovered'
    BY DEF IInv, UnansweredCovered, Compact, Stepping, gate
  <1>5. StepsAhead'
    BY DEF IInv, StepsAhead, Compact, Stepping
  <1>6. QueueSelected'
    BY DEF IInv, QueueSelected, Compact
  <1>7. TurnHasReason'
    BY DEF IInv, TurnHasReason, Compact, Stepping, Reason
  <1> QED
    BY <1>1, <1>2, <1>3, <1>4, <1>5, <1>6, <1>7 DEF IInv

LEMMA RequestInv ==
  ASSUME IInv, Request
  PROVE  IInv'
  <1>1. TypeOK'
    BY DEF IInv, TypeOK, Request, Stepping, gate, DrainType, Running, Gate!TypeOK
  <1>2. Sound'
    BY DEF IInv, Sound, Request, Stepping, gate
  <1>3. PendingCovered'
    BY DEF IInv, PendingCovered, Request, Stepping, gate, Looks
  <1>4. UnansweredCovered'
    BY DEF IInv, UnansweredCovered, Request, Stepping, gate
  <1>5. StepsAhead'
    BY DEF IInv, StepsAhead, Request, Stepping
  <1>6. QueueSelected'
    BY DEF IInv, QueueSelected, Request
  <1>7. TurnHasReason'
    BY DEF IInv, TurnHasReason, Request, Stepping, Reason
  <1> QED
    BY <1>1, <1>2, <1>3, <1>4, <1>5, <1>6, <1>7 DEF IInv

LEMMA RecoverOverflowInv ==
  ASSUME IInv, RecoverOverflow
  PROVE  IInv'
  <1>1. TypeOK'
    BY DEF IInv, TypeOK, RecoverOverflow, Stepping, gate, DrainType, Running, Gate!TypeOK
  <1>2. Sound'
    BY DEF IInv, Sound, RecoverOverflow, Stepping, gate
  <1>3. PendingCovered'
    BY DEF IInv, PendingCovered, RecoverOverflow, Stepping, gate, Looks
  <1>4. UnansweredCovered'
    BY DEF IInv, UnansweredCovered, RecoverOverflow, Stepping, gate
  <1>5. StepsAhead'
    BY DEF IInv, StepsAhead, RecoverOverflow, Stepping
  <1>6. QueueSelected'
    BY DEF IInv, QueueSelected, RecoverOverflow, Stepping
  <1>7. TurnHasReason'
    BY DEF IInv, TurnHasReason, RecoverOverflow, Stepping, Reason
  <1> QED
    BY <1>1, <1>2, <1>3, <1>4, <1>5, <1>6, <1>7 DEF IInv

LEMMA EndTurnInv ==
  ASSUME IInv, EndTurn
  PROVE  IInv'
  <1>1. TypeOK'
    <2>1. PICK called \in BOOLEAN, step \in 1 .. Steps + 1, turns \in Nat :
            drain' = [drain EXCEPT !.pc = "after", !.promotion = "steer", !.open = called,
                        !.step = step, !.recovered = FALSE,
                        !.force = FALSE, !.turns = turns, !.queued = FALSE]
      <3>1. (IF drain.step > Steps THEN drain.step ELSE drain.step + 1) \in 1 .. Steps + 1
        BY StepsAssumption DEF IInv, TypeOK, DrainType
      <3>2. drain.turns + 1 \in Nat
        BY DEF IInv, TypeOK, DrainType
      <3> QED
        BY <3>1, <3>2 DEF EndTurn
    <2>2. drain' \in DrainType /\ drain'.pc = "after"
      BY <2>1 DEF IInv, TypeOK, DrainType, Running
    <2> QED
      BY <2>2 DEF IInv, TypeOK, EndTurn, Stepping, gate, Gate!TypeOK
  <1>2. Sound'
    BY DEF IInv, Sound, EndTurn, Stepping, gate
  <1>3. PendingCovered'
    BY DEF IInv, PendingCovered, EndTurn, Stepping, gate, Looks
  <1>4. UnansweredCovered'
    BY DEF IInv, UnansweredCovered, EndTurn
  <1>5. StepsAhead'
    BY StepsAssumption DEF IInv, TypeOK, StepsAhead, EndTurn, Stepping, DrainType
  <1>6. QueueSelected'
    BY DEF IInv, Sound, QueueSelected, EndTurn, Stepping
  <1>7. TurnHasReason'
    BY DEF IInv, TurnHasReason, EndTurn
  <1> QED
    BY <1>1, <1>2, <1>3, <1>4, <1>5, <1>6, <1>7 DEF IInv

LEMMA AfterInv ==
  ASSUME IInv, After
  PROVE  IInv'
  <1>1. TypeOK'
    BY DEF IInv, TypeOK, After, Stepping, gate, DrainType, Running, Gate!TypeOK
  <1>2. Sound'
    BY DEF IInv, Sound, After, Stepping, gate
  <1>3. PendingCovered'
    BY DEF IInv, TypeOK, Sound, PendingCovered, After, Stepping, gate, Pending, Looks
  <1>4. UnansweredCovered'
    BY DEF IInv, UnansweredCovered, After, Stepping
  <1>5. StepsAhead'
    BY DEF IInv, StepsAhead, After, Stepping
  <1>6. QueueSelected'
    BY DEF IInv, QueueSelected, After, Stepping
  <1>7. TurnHasReason'
    BY DEF IInv, QueueSelected, TurnHasReason, After, Stepping, Pending, Reason
  <1> QED
    BY <1>1, <1>2, <1>3, <1>4, <1>5, <1>6, <1>7 DEF IInv

LEMMA RunShellInv ==
  ASSUME IInv, NEW i \in Input, RunShell(i)
  PROVE  IInv'
  <1>1. TypeOK'
    BY DEF IInv, TypeOK, RunShell, Stepping, gate, DrainType, Running, Gate!TypeOK
  <1>2. Sound'
    BY DEF IInv, Sound, RunShell, Stepping, gate
  <1>3. PendingCovered'
    BY DEF IInv, PendingCovered, RunShell, Stepping, gate, Looks
  <1>4. UnansweredCovered'
    BY DEF IInv, Sound, UnansweredCovered, RunShell, Stepping, Pending
  <1>5. StepsAhead'
    BY DEF IInv, StepsAhead, RunShell, Stepping
  <1>6. QueueSelected'
    BY DEF IInv, QueueSelected, RunShell, Stepping
  <1>7. TurnHasReason'
    BY DEF IInv, TurnHasReason, RunShell
  <1> QED
    BY <1>1, <1>2, <1>3, <1>4, <1>5, <1>6, <1>7 DEF IInv

LEMMA ShellEndsInv ==
  ASSUME IInv, ShellEnds
  PROVE  IInv'
  <1>1. TypeOK'
    BY DEF IInv, TypeOK, ShellEnds, Stepping, gate, DrainType, Running, Gate!TypeOK
  <1>2. Sound'
    BY DEF IInv, Sound, ShellEnds, Stepping, gate
  <1>3. PendingCovered'
    BY DEF IInv, PendingCovered, ShellEnds, Stepping, gate, Looks
  <1>4. UnansweredCovered'
    BY DEF IInv, UnansweredCovered, ShellEnds, Stepping
  <1>5. StepsAhead'
    BY DEF IInv, StepsAhead, ShellEnds, Stepping
  <1>6. QueueSelected'
    BY DEF IInv, QueueSelected, ShellEnds, Stepping
  <1>7. TurnHasReason'
    BY DEF IInv, TurnHasReason, ShellEnds
  <1> QED
    BY <1>1, <1>2, <1>3, <1>4, <1>5, <1>6, <1>7 DEF IInv

LEMMA NoShellInv ==
  ASSUME IInv, NoShell
  PROVE  IInv'
  <1>1. TypeOK'
    BY DEF IInv, TypeOK, NoShell, Stepping, gate, DrainType, Running, Gate!TypeOK
  <1>2. Sound'
    BY DEF IInv, Sound, NoShell, Stepping, gate
  <1>3. PendingCovered'
    BY DEF IInv, PendingCovered, NoShell, Stepping, gate, Looks
  <1>4. UnansweredCovered'
    BY DEF IInv, UnansweredCovered, NoShell, Stepping
  <1>5. StepsAhead'
    BY DEF IInv, StepsAhead, NoShell, Stepping
  <1>6. QueueSelected'
    BY DEF IInv, QueueSelected, NoShell, Stepping
  <1>7. TurnHasReason'
    BY DEF IInv, TurnHasReason, NoShell
  <1> QED
    BY <1>1, <1>2, <1>3, <1>4, <1>5, <1>6, <1>7 DEF IInv

LEMMA BoundaryInv ==
  ASSUME IInv, Boundary
  PROVE  IInv'
  <1>1. TypeOK'
    <2>1. CASE Pending("queue") # {}
      <3>1. drain' = [drain EXCEPT !.pc = "turn", !.promotion = "queue", !.step = 1]
        BY <2>1 DEF Boundary
      <3>2. 1 \in 1 .. Steps + 1
        BY StepsAssumption
      <3>3. drain' \in DrainType /\ drain'.pc = "turn"
        BY <3>1, <3>2 DEF IInv, TypeOK, DrainType, Running
      <3> QED
        BY <3>3 DEF IInv, TypeOK, Boundary, Stepping, gate, Gate!TypeOK
    <2>2. CASE Pending("queue") = {}
      <3>1. PICK pc \in {"shells", "done"} : drain' = [drain EXCEPT !.pc = pc]
        BY <2>2 DEF Boundary
      <3>2. drain' \in DrainType /\ drain'.pc # "off"
        BY <3>1 DEF IInv, TypeOK, DrainType, Running
      <3> QED
        BY <3>2 DEF IInv, TypeOK, Boundary, Stepping, gate, Gate!TypeOK
    <2> QED
      BY <2>1, <2>2
  <1>2. Sound'
    BY DEF IInv, Sound, Boundary, Stepping, gate
  <1>3. PendingCovered'
    BY DEF IInv, PendingCovered, Boundary, Stepping, gate, Pending, Looks
  <1>4. UnansweredCovered'
    BY DEF IInv, UnansweredCovered, Boundary, Stepping
  <1>5. StepsAhead'
    BY DEF IInv, StepsAhead, Boundary, Stepping, Pending
  <1>6. QueueSelected'
    BY DEF IInv, QueueSelected, Boundary, Stepping
  <1>7. TurnHasReason'
    BY DEF IInv, TurnHasReason, Boundary, Stepping, Pending
  <1> QED
    BY <1>1, <1>2, <1>3, <1>4, <1>5, <1>6, <1>7 DEF IInv

------------------------------------------------------------------------------
(* The theorems.                                                           *)

LEMMA InitInv == Init => IInv
  <1> SUFFICES ASSUME Init PROVE IInv
    OBVIOUS
  <1>1. TypeOK
    BY OffTypes DEF Init, Gate!Init, TypeOK, Gate!TypeOK
  <1>2. drain.todo = {} /\ drain.turns = 0 /\ ~drain.open
    BY DEF Init, Off, Started
  <1>3. Sound /\ PendingCovered /\ UnansweredCovered /\ StepsAhead /\ QueueSelected /\ TurnHasReason
    BY <1>2, OffTypes DEF Init, Gate!Init, Sound, PendingCovered, UnansweredCovered, StepsAhead,
         QueueSelected, TurnHasReason
  <1> QED
    BY <1>1, <1>3 DEF IInv

LEMMA NextInv == IInv /\ [Next]_vars => IInv'
  <1> SUFFICES ASSUME IInv, [Next]_vars PROVE IInv'
    OBVIOUS
  <1>1. ASSUME NEW i \in Input, Admit(i) \/ Wake(i) \/ LoseWake(i) \/ PromotedElsewhere(i)
        PROVE  IInv'
    BY <1>1, AdmitInv, WakeInv, LoseWakeInv, PromotedElsewhereInv
  <1>2. CASE Resume \/ Interrupt \/ Crash \/ Fail
    BY <1>2, ResumeInv, InterruptInv, CrashInv, FailInv
  <1>3. CASE DrainStep
    <2>1. CASE Begin \/ Select \/ Compact \/ Request \/ RecoverOverflow \/ EndTurn \/ After
      BY <2>1, BeginInv, SelectInv, CompactInv, RequestInv, RecoverOverflowInv, EndTurnInv, AfterInv
    <2>2. CASE ShellEnds \/ NoShell \/ Boundary
      BY <2>2, ShellEndsInv, NoShellInv, BoundaryInv
    <2>3. ASSUME NEW i \in Input, Promote(i) \/ PromoteLate(i) \/ RunShell(i)
          PROVE  IInv'
      BY <2>3, PromoteInv, PromoteLateInv, RunShellInv
    <2> QED
      BY <1>3, <2>1, <2>2, <2>3 DEF DrainStep
  <1>4. CASE Settle
    BY <1>4, FinishInv, CloseInv DEF Settle
  <1>5. CASE UNCHANGED vars
    BY <1>5 DEF vars, gate, inputs, IInv, TypeOK, Gate!TypeOK, Sound, PendingCovered, Looks,
         UnansweredCovered, StepsAhead, QueueSelected, TurnHasReason, Reason, Pending
  <1> QED
    BY <1>1, <1>2, <1>3, <1>4, <1>5 DEF Next

\* The inductive invariant holds in every behaviour.
THEOREM Invariance == Spec => []IInv
  BY InitInv, NextInv, PTL DEF Spec

\* Type correctness of the gate, the inbox and the drain.
THEOREM TypeCorrect == Spec => []TypeOK
  <1>1. IInv => TypeOK
    BY DEF IInv
  <1> QED
    BY <1>1, Invariance, PTL

\* No order of admissions, wakes, checks and settlements strands an input: the
\* coverage invariants, read in a state where the gate is idle and owes nothing.
THEOREM NoStrandedInputAlways == Spec => []NoStrandedInput
  <1>1. IInv => NoStrandedInput
    BY DEF IInv, NoStrandedInput, Sound, PendingCovered, UnansweredCovered
  <1> QED
    BY <1>1, Invariance, PTL

\* No agent exceeds its step limit, whatever is compacted or recovered.
THEOREM StepLimitAlways == Spec => []StepLimit
  <1>1. IInv => StepLimit
    BY DEF IInv, StepLimit, StepsAhead
  <1> QED
    BY <1>1, Invariance, PTL

\* The provider is never called without something to answer.
THEOREM NoIdleRequestAlways == Spec => NoIdleRequest
  <1>1. IInv /\ [Next]_vars => [Request => drain.force \/ drain.open \/ unanswered # {}]_vars
    BY DEF IInv, TurnHasReason, Reason, Request, Stepping
  <1> QED
    BY <1>1, Invariance, PTL DEF Spec, NoIdleRequest

\* Queued prompts wait for continuation and for each other's answers.
THEOREM QueueOneAtATimeAlways == Spec => QueueOneAtATime
  <1>1. IInv /\ [Next]_vars =>
          [\A i \in Input : Promote(i) /\ kind[i] = "queue" => ~drain.open /\ ~drain.queued]_vars
    BY DEF IInv, QueueSelected, Promote, Stepping
  <1> QED
    BY <1>1, Invariance, PTL DEF Spec, QueueOneAtATime

==============================================================================
