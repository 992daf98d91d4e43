----------------------------- MODULE Turns_proofs -----------------------------
(***************************************************************************)
(* Proofs about provider turns.  Their tools (ProviderTurn), for any calls *)
(* and any interleaving of stream, fibers, interrupts and crashes: every   *)
(* call has its result before the next request, results are honest, no     *)
(* tool outlives its turn, and a turn that failed or was interrupted has   *)
(* closed its message.  Their system context (ContextEpoch), for any       *)
(* sources and Locations: what the model is shown is what later changes    *)
(* are compared with, is current, and is fresh after a compaction.         *)
(***************************************************************************)
EXTENDS ProviderTurn, Naturals, SequenceTheorems, TLAPS

CONSTANTS Sources, Removable, Unavailable, Removed, Locations, Values, NoEpoch, NoSystem, MaxSeq
VARIABLES world, location, log, epoch     \* beside ContextEpoch's turn

Ctx == INSTANCE ContextEpoch

------------------------------------------------------------------------------
(* Tools: the inductive invariant.                                         *)

InTurn == turn.phase \in {"stream", "called", "closed", "await", "clear", "settle", "scope"}
Executing(c) == fiber[c] \in {"running", "publishing"}

\* The publisher's entry of a call, its state and its fiber agree.
CallOk(c) ==
  /\ tool[c].called \/ tool[c].settled => tool[c].known
  /\ tool[c].known => state[c] # "none"
  /\ fiber[c] # "none" => c \in Local /\ tool[c].called
  /\ fiber[c] = "done" => tool[c].settled
  /\ fiber[c] = "publishing" => outcome[c] # "none"
  /\ Executing(c) => InTurn /\ state[c] \in {"running", "error"}
  /\ InTurn /\ tool[c].called /\ ~tool[c].settled => state[c] = "running"
  /\ turn.phase \in {"stream", "closed"} /\ ~turn.started => ~tool[c].known
  /\ InTurn \/ At("request") => (state[c] = "pending" => c \in turn.begun)
  /\ state[c] = "completed" => outcome[c] = "completed"
  /\ fiber[c] = "done" /\ outcome[c] = "completed" => state[c] = "completed"

\* Where tools are always offered, whoever is called is executed and settled: a state
\* that is running belongs to this turn, and to somebody who will settle it.
OfferedOk(c) ==
  /\ InTurn /\ state[c] = "running" => tool[c].called /\ ~tool[c].settled
  /\ turn.phase \in {"stream", "called"} /\ tool[c].settled => tool[c].called
  /\ InTurn /\ tool[c].called /\ c \in Local /\ turn.exit # "interrupt" /\ c \notin turn.call
       => fiber[c] # "none"
  /\ At("request") => state[c] # "running"
  /\ At("scope") /\ turn.exit = "success" /\ turn.settled = "success" => state[c] # "running"

\* The call whose tool is about to start.
CallingOk ==
  /\ ~At("called") => turn.call = {}
  /\ At("called") => turn.started
  /\ \A c \in turn.call : /\ c \in Local /\ tool[c].called /\ state[c] = "running"
                          /\ fiber[c] = "none"

\* The projected assistant message and what the publisher knows of it.
MessageOk ==
  /\ InTurn /\ turn.started /\ step = "open" => turn.active /\ ~turn.failed
  /\ (turn.error => turn.failed) /\ (turn.failed => turn.started)
  /\ turn.phase \in {"stream", "called"} => turn.exit = "none"
  /\ At("clear") => turn.settled \in {"rejected", "interrupt"}
  /\ turn.phase \in {"await", "clear", "settle", "scope"} /\ turn.started =>
       /\ turn.exit = "failure" => step # "open"
       /\ turn.exit = "interrupt" => turn.settled = "interrupt" /\ ~At("await")
  /\ At("scope") /\ turn.started /\ turn.settled = "interrupt" => step # "open"

\* The turn's calls that are waited for have their result; its tools are offered.
AllDone == At("settle") /\ turn.settled = "success" => \A c \in Call : fiber[c] \in {"none", "done"}
ToolsOffered == InTurn => turn.tools

ToolInv ==
  /\ TypeOK
  /\ \A c \in Call : CallOk(c)
  /\ CallingOk /\ MessageOk /\ AllDone
  /\ StepLimited = FALSE => ToolsOffered /\ \A c \in Call : OfferedOk(c)

------------------------------------------------------------------------------
(* Tools: the actions keep the invariant.                                  *)

LEMMA FailToolsType ==
  ASSUME TypeOK, NEW C, FailTools(C)
  PROVE  /\ state' \in [Call -> {"none", "pending", "running", "completed", "error"}]
         /\ tool' \in [Call -> [known : BOOLEAN, called : BOOLEAN, settled : BOOLEAN]]
  BY DEF TypeOK, FailTools, Failed, Open

LEMMA BeginKeeps ==
  ASSUME ProviderTurnAssumption, ToolInv, Begin PROVE ToolInv'
  <1>0. TypeOK /\ CallingOk /\ MessageOk /\ AllDone /\ \A c \in Call : CallOk(c)
    BY DEF ToolInv
  <1>1. TypeOK'
    BY <1>0 DEF Begin, At, Off, durable, TypeOK, TurnType, Phase
  <1>2. ASSUME NEW c \in Call PROVE CallOk(c)'
    <2> TypeOK /\ CallOk(c) /\ CallingOk /\ MessageOk /\ AllDone
      BY <1>0
    <2> QED
      BY ProviderTurnAssumption DEF Begin, At, Off, durable, TypeOK, TurnType, Phase, CallingOk,
         Local, MessageOk, InTurn, AllDone, CallOk, Executing, ProviderTurnAssumption
  <1>3. CallingOk' /\ MessageOk' /\ AllDone'
    BY <1>0 DEF Begin, At, Off, durable, TypeOK, TurnType, Phase, CallingOk, Local, MessageOk,
       InTurn, AllDone, CallOk, Executing
  <1>4. ASSUME StepLimited = FALSE
        PROVE  ToolsOffered' /\ \A c \in Call : OfferedOk(c)'
    <2>0. ToolsOffered
      BY <1>4 DEF ToolInv
    <2>1. ToolsOffered'
      BY <1>0, <1>4, <2>0 DEF Begin, At, Off, durable, TypeOK, TurnType, Phase, ToolsOffered,
         InTurn
    <2>2. ASSUME NEW c \in Call PROVE OfferedOk(c)'
      <3> TypeOK /\ CallOk(c) /\ OfferedOk(c) /\ CallingOk /\ MessageOk /\ AllDone
        BY <1>0, <1>4 DEF ToolInv
      <3> QED
        BY <1>4, <2>0 DEF Begin, At, Off, durable, TypeOK, TurnType, Phase, CallingOk, Local,
           MessageOk, InTurn, AllDone, CallOk, Executing, OfferedOk, ToolsOffered
    <2> QED
      BY <2>1, <2>2
  <1> QED
    BY <1>1, <1>2, <1>3, <1>4 DEF ToolInv

LEMMA RecoveredKeeps ==
  ASSUME ProviderTurnAssumption, ToolInv, Recovered PROVE ToolInv'
  <1>0. TypeOK /\ CallingOk /\ MessageOk /\ AllDone /\ \A c \in Call : CallOk(c)
    BY DEF ToolInv
  <1>1. TypeOK'
    BY <1>0 DEF Recovered, At, Open, durable, TypeOK, TurnType, Phase
  <1>2. ASSUME NEW c \in Call PROVE CallOk(c)'
    <2> TypeOK /\ CallOk(c) /\ CallingOk /\ MessageOk /\ AllDone
      BY <1>0
    <2> QED
      BY ProviderTurnAssumption DEF Recovered, At, Open, durable, TypeOK, TurnType, Phase,
         CallingOk, Local, MessageOk, InTurn, AllDone, CallOk, Executing, ProviderTurnAssumption
  <1>3. CallingOk' /\ MessageOk' /\ AllDone'
    BY <1>0 DEF Recovered, At, Open, durable, TypeOK, TurnType, Phase, CallingOk, Local,
       MessageOk, InTurn, AllDone, CallOk, Executing
  <1>4. ASSUME StepLimited = FALSE
        PROVE  ToolsOffered' /\ \A c \in Call : OfferedOk(c)'
    <2>0. ToolsOffered
      BY <1>4 DEF ToolInv
    <2>1. ToolsOffered'
      BY <1>0, <1>4, <2>0 DEF Recovered, At, Open, durable, TypeOK, TurnType, Phase,
         ToolsOffered, InTurn
    <2>2. ASSUME NEW c \in Call PROVE OfferedOk(c)'
      <3> TypeOK /\ CallOk(c) /\ OfferedOk(c) /\ CallingOk /\ MessageOk /\ AllDone
        BY <1>0, <1>4 DEF ToolInv
      <3> QED
        BY <1>4, <2>0 DEF Recovered, At, Open, durable, TypeOK, TurnType, Phase, CallingOk,
           Local, MessageOk, InTurn, AllDone, CallOk, Executing, OfferedOk, ToolsOffered
    <2> QED
      BY <2>1, <2>2
  <1> QED
    BY <1>1, <1>2, <1>3, <1>4 DEF ToolInv

LEMMA RequestKeeps ==
  ASSUME ProviderTurnAssumption, ToolInv, Request PROVE ToolInv'
  <1>0. TypeOK /\ CallingOk /\ MessageOk /\ AllDone /\ \A c \in Call : CallOk(c)
    BY DEF ToolInv
  <1>1. TypeOK'
    <2>1. PICK tools \in BOOLEAN :
            turn' = [Off EXCEPT !.phase = "stream", !.tools = tools,
                                !.recover = turn.exit # "overflow", !.begun = turn.begun]
      BY <1>0 DEF Request, ProviderTurnAssumption
    <2>2. Off \in TurnType /\ turn.begun \in SUBSET Call /\ (turn.exit # "overflow") \in BOOLEAN
      BY <1>0 DEF Off, TypeOK, TurnType, Phase
    <2>3. turn' \in TurnType
      BY <2>1, <2>2 DEF TurnType, Phase
    <2> QED
      BY <1>0, <2>3 DEF Request, NoTool, durable, TypeOK
  <1>2. ASSUME NEW c \in Call PROVE CallOk(c)'
    <2> TypeOK /\ CallOk(c) /\ CallingOk /\ MessageOk /\ AllDone
      BY <1>0
    <2> QED
      BY ProviderTurnAssumption DEF Request, At, Off, NoTool, durable, TypeOK, TurnType, Phase,
         CallingOk, Local, MessageOk, InTurn, AllDone, CallOk, Executing, ProviderTurnAssumption
  <1>3. CallingOk' /\ MessageOk' /\ AllDone'
    BY <1>0 DEF Request, At, Off, NoTool, durable, TypeOK, TurnType, Phase, CallingOk, Local,
       MessageOk, InTurn, AllDone, CallOk, Executing
  <1>4. ASSUME StepLimited = FALSE
        PROVE  ToolsOffered' /\ \A c \in Call : OfferedOk(c)'
    <2>0. ToolsOffered
      BY <1>4 DEF ToolInv
    <2>1. ToolsOffered'
      BY <1>0, <1>4, <2>0 DEF Request, At, Off, NoTool, durable, TypeOK, TurnType, Phase,
         ToolsOffered, InTurn
    <2>2. ASSUME NEW c \in Call PROVE OfferedOk(c)'
      <3> TypeOK /\ CallOk(c) /\ OfferedOk(c) /\ CallingOk /\ MessageOk /\ AllDone
        BY <1>0, <1>4 DEF ToolInv
      <3> QED
        BY <1>4, <2>0 DEF Request, At, Off, NoTool, durable, TypeOK, TurnType, Phase, CallingOk,
           Local, MessageOk, InTurn, AllDone, CallOk, Executing, OfferedOk, ToolsOffered
    <2> QED
      BY <2>1, <2>2
  <1> QED
    BY <1>1, <1>2, <1>3, <1>4 DEF ToolInv

LEMMA StartTextKeeps ==
  ASSUME ProviderTurnAssumption, ToolInv, StartText PROVE ToolInv'
  <1>0. TypeOK /\ CallingOk /\ MessageOk /\ AllDone /\ \A c \in Call : CallOk(c)
    BY DEF ToolInv
  <1>1. TypeOK'
    BY <1>0 DEF StartText, Streaming, StepStarted, At, TypeOK, TurnType, Phase
  <1>2. ASSUME NEW c \in Call PROVE CallOk(c)'
    <2> TypeOK /\ CallOk(c) /\ CallingOk /\ MessageOk /\ AllDone
      BY <1>0
    <2> QED
      BY ProviderTurnAssumption DEF StartText, Streaming, StepStarted, At, TypeOK, TurnType,
         Phase, CallingOk, Local, MessageOk, InTurn, AllDone, CallOk, Executing,
         ProviderTurnAssumption
  <1>3. CallingOk' /\ MessageOk' /\ AllDone'
    <2>1. CallingOk'
      BY <1>0 DEF StartText, Streaming, StepStarted, At, TypeOK, TurnType, Phase, CallingOk,
         Local, MessageOk, InTurn, AllDone, CallOk, Executing
    <2>2. MessageOk'
      BY <1>0 DEF StartText, Streaming, StepStarted, At, TypeOK, TurnType, Phase, CallingOk,
         Local, MessageOk, InTurn, AllDone, CallOk, Executing
    <2>3. AllDone'
      BY <1>0 DEF StartText, Streaming, StepStarted, At, TypeOK, TurnType, Phase, CallingOk,
         Local, MessageOk, InTurn, AllDone, CallOk, Executing
    <2> QED
      BY <2>1, <2>2, <2>3
  <1>4. ASSUME StepLimited = FALSE
        PROVE  ToolsOffered' /\ \A c \in Call : OfferedOk(c)'
    <2>0. ToolsOffered
      BY <1>4 DEF ToolInv
    <2>1. ToolsOffered'
      BY <1>0, <1>4, <2>0 DEF StartText, Streaming, StepStarted, At, TypeOK, TurnType, Phase,
         ToolsOffered, InTurn
    <2>2. ASSUME NEW c \in Call PROVE OfferedOk(c)'
      <3> TypeOK /\ CallOk(c) /\ OfferedOk(c) /\ CallingOk /\ MessageOk /\ AllDone
        BY <1>0, <1>4 DEF ToolInv
      <3> QED
        BY <1>4, <2>0 DEF StartText, Streaming, StepStarted, At, TypeOK, TurnType, Phase,
           CallingOk, Local, MessageOk, InTurn, AllDone, CallOk, Executing, OfferedOk,
           ToolsOffered
    <2> QED
      BY <2>1, <2>2
  <1> QED
    BY <1>1, <1>2, <1>3, <1>4 DEF ToolInv

LEMMA StartToolKeeps ==
  ASSUME ProviderTurnAssumption, ToolInv, StartTool PROVE ToolInv'
  <1>0. TypeOK /\ CallingOk /\ MessageOk /\ AllDone /\ \A c \in Call : CallOk(c)
    BY DEF ToolInv
  <1>1. TypeOK'
    BY <1>0 DEF StartTool, At, durable, TypeOK, TurnType, Phase
  <1>2. ASSUME NEW c \in Call PROVE CallOk(c)'
    <2> TypeOK /\ CallOk(c) /\ CallingOk /\ MessageOk /\ AllDone
      BY <1>0
    <2> QED
      BY ProviderTurnAssumption DEF StartTool, At, durable, TypeOK, TurnType, Phase, CallingOk,
         Local, MessageOk, InTurn, AllDone, CallOk, Executing, ProviderTurnAssumption
  <1>3. CallingOk' /\ MessageOk' /\ AllDone'
    BY <1>0 DEF StartTool, At, durable, TypeOK, TurnType, Phase, CallingOk, Local, MessageOk,
       InTurn, AllDone, CallOk, Executing
  <1>4. ASSUME StepLimited = FALSE
        PROVE  ToolsOffered' /\ \A c \in Call : OfferedOk(c)'
    <2>0. ToolsOffered
      BY <1>4 DEF ToolInv
    <2>1. ToolsOffered'
      BY <1>0, <1>4, <2>0 DEF StartTool, At, durable, TypeOK, TurnType, Phase, ToolsOffered,
         InTurn
    <2>2. ASSUME NEW c \in Call PROVE OfferedOk(c)'
      <3> TypeOK /\ CallOk(c) /\ OfferedOk(c) /\ CallingOk /\ MessageOk /\ AllDone
        BY <1>0, <1>4 DEF ToolInv
      <3> QED
        BY <1>4, <2>0 DEF StartTool, At, durable, TypeOK, TurnType, Phase, CallingOk, Local,
           MessageOk, InTurn, AllDone, CallOk, Executing, OfferedOk, ToolsOffered
    <2> QED
      BY <2>1, <2>2
  <1> QED
    BY <1>1, <1>2, <1>3, <1>4 DEF ToolInv

LEMMA RefuseToolKeeps ==
  ASSUME ProviderTurnAssumption, ToolInv, RefuseTool PROVE ToolInv'
  <1>0. TypeOK /\ CallingOk /\ MessageOk /\ AllDone /\ \A c \in Call : CallOk(c)
    BY DEF ToolInv
  <1>1. TypeOK'
    <2>1. turn' \in TurnType
      BY <1>0 DEF RefuseTool, At, FailTools, Unsettled, Failed, Open, TypeOK, TurnType, Phase
    <2>2. step' \in {"none", "open", "ended", "failed"}
      BY <1>0 DEF RefuseTool, At, FailTools, Unsettled, Failed, Open, TypeOK, TurnType, Phase
    <2>3. fiber' \in [Call -> {"none", "running", "publishing", "done", "gone", "rejected", "defect"}]
      BY <1>0 DEF RefuseTool, At, FailTools, Unsettled, Failed, Open, TypeOK, TurnType, Phase
    <2>4. outcome' = outcome
      BY DEF RefuseTool, durable
    <2> QED
      BY <1>0, <2>1, <2>2, <2>3, <2>4, FailToolsType DEF RefuseTool, TypeOK
  <1>2. ASSUME NEW c \in Call PROVE CallOk(c)'
    <2> TypeOK /\ CallOk(c) /\ CallingOk /\ MessageOk /\ AllDone
      BY <1>0
    <2> QED
      BY ProviderTurnAssumption DEF RefuseTool, At, FailTools, Unsettled, Failed, Open, TypeOK,
         TurnType, Phase, CallingOk, Local, MessageOk, InTurn, AllDone, CallOk, Executing,
         ProviderTurnAssumption
  <1>3. CallingOk' /\ MessageOk' /\ AllDone'
    BY <1>0 DEF RefuseTool, At, FailTools, Unsettled, Failed, Open, TypeOK, TurnType, Phase,
       CallingOk, Local, MessageOk, InTurn, AllDone, CallOk, Executing
  <1>4. ASSUME StepLimited = FALSE
        PROVE  ToolsOffered' /\ \A c \in Call : OfferedOk(c)'
    <2>0. ToolsOffered
      BY <1>4 DEF ToolInv
    <2>1. ToolsOffered'
      BY <1>0, <1>4, <2>0 DEF RefuseTool, At, FailTools, Unsettled, Failed, Open, TypeOK,
         TurnType, Phase, ToolsOffered, InTurn
    <2>2. ASSUME NEW c \in Call PROVE OfferedOk(c)'
      <3> TypeOK /\ CallOk(c) /\ OfferedOk(c) /\ CallingOk /\ MessageOk /\ AllDone
        BY <1>0, <1>4 DEF ToolInv
      <3> QED
        BY <1>4, <2>0 DEF RefuseTool, At, FailTools, Unsettled, Failed, Open, TypeOK, TurnType,
           Phase, CallingOk, Local, MessageOk, InTurn, AllDone, CallOk, Executing, OfferedOk,
           ToolsOffered
    <2> QED
      BY <2>1, <2>2
  <1> QED
    BY <1>1, <1>2, <1>3, <1>4 DEF ToolInv

LEMMA FinishStepKeeps ==
  ASSUME ProviderTurnAssumption, ToolInv, FinishStep PROVE ToolInv'
  <1>0. TypeOK /\ CallingOk /\ MessageOk /\ AllDone /\ \A c \in Call : CallOk(c)
    BY DEF ToolInv
  <1>1. TypeOK'
    BY <1>0 DEF FinishStep, Streaming, At, TypeOK, TurnType, Phase
  <1>2. ASSUME NEW c \in Call PROVE CallOk(c)'
    <2> TypeOK /\ CallOk(c) /\ CallingOk /\ MessageOk /\ AllDone
      BY <1>0
    <2> QED
      BY ProviderTurnAssumption DEF FinishStep, Streaming, At, TypeOK, TurnType, Phase,
         CallingOk, Local, MessageOk, InTurn, AllDone, CallOk, Executing, ProviderTurnAssumption
  <1>3. CallingOk' /\ MessageOk' /\ AllDone'
    BY <1>0 DEF FinishStep, Streaming, At, TypeOK, TurnType, Phase, CallingOk, Local, MessageOk,
       InTurn, AllDone, CallOk, Executing
  <1>4. ASSUME StepLimited = FALSE
        PROVE  ToolsOffered' /\ \A c \in Call : OfferedOk(c)'
    <2>0. ToolsOffered
      BY <1>4 DEF ToolInv
    <2>1. ToolsOffered'
      BY <1>0, <1>4, <2>0 DEF FinishStep, Streaming, At, TypeOK, TurnType, Phase, ToolsOffered,
         InTurn
    <2>2. ASSUME NEW c \in Call PROVE OfferedOk(c)'
      <3> TypeOK /\ CallOk(c) /\ OfferedOk(c) /\ CallingOk /\ MessageOk /\ AllDone
        BY <1>0, <1>4 DEF ToolInv
      <3> QED
        BY <1>4, <2>0 DEF FinishStep, Streaming, At, TypeOK, TurnType, Phase, CallingOk, Local,
           MessageOk, InTurn, AllDone, CallOk, Executing, OfferedOk, ToolsOffered
    <2> QED
      BY <2>1, <2>2
  <1> QED
    BY <1>1, <1>2, <1>3, <1>4 DEF ToolInv

LEMMA ProviderErrorKeeps ==
  ASSUME ProviderTurnAssumption, ToolInv, ProviderError PROVE ToolInv'
  <1>0. TypeOK /\ CallingOk /\ MessageOk /\ AllDone /\ \A c \in Call : CallOk(c)
    BY DEF ToolInv
  <1>1. TypeOK'
    BY <1>0 DEF ProviderError, Streaming, At, TypeOK, TurnType, Phase
  <1>2. ASSUME NEW c \in Call PROVE CallOk(c)'
    <2> TypeOK /\ CallOk(c) /\ CallingOk /\ MessageOk /\ AllDone
      BY <1>0
    <2> QED
      BY ProviderTurnAssumption DEF ProviderError, Streaming, At, TypeOK, TurnType, Phase,
         CallingOk, Local, MessageOk, InTurn, AllDone, CallOk, Executing, ProviderTurnAssumption
  <1>3. CallingOk' /\ MessageOk' /\ AllDone'
    BY <1>0 DEF ProviderError, Streaming, At, TypeOK, TurnType, Phase, CallingOk, Local,
       MessageOk, InTurn, AllDone, CallOk, Executing
  <1>4. ASSUME StepLimited = FALSE
        PROVE  ToolsOffered' /\ \A c \in Call : OfferedOk(c)'
    <2>0. ToolsOffered
      BY <1>4 DEF ToolInv
    <2>1. ToolsOffered'
      BY <1>0, <1>4, <2>0 DEF ProviderError, Streaming, At, TypeOK, TurnType, Phase,
         ToolsOffered, InTurn
    <2>2. ASSUME NEW c \in Call PROVE OfferedOk(c)'
      <3> TypeOK /\ CallOk(c) /\ OfferedOk(c) /\ CallingOk /\ MessageOk /\ AllDone
        BY <1>0, <1>4 DEF ToolInv
      <3> QED
        BY <1>4, <2>0 DEF ProviderError, Streaming, At, TypeOK, TurnType, Phase, CallingOk,
           Local, MessageOk, InTurn, AllDone, CallOk, Executing, OfferedOk, ToolsOffered
    <2> QED
      BY <2>1, <2>2
  <1> QED
    BY <1>1, <1>2, <1>3, <1>4 DEF ToolInv

LEMMA OverflowKeeps ==
  ASSUME ProviderTurnAssumption, ToolInv, Overflow PROVE ToolInv'
  <1>0. TypeOK /\ CallingOk /\ MessageOk /\ AllDone /\ \A c \in Call : CallOk(c)
    BY DEF ToolInv
  <1>1. TypeOK'
    BY <1>0 DEF Overflow, Streaming, durable, At, TypeOK, TurnType, Phase
  <1>2. ASSUME NEW c \in Call PROVE CallOk(c)'
    <2> TypeOK /\ CallOk(c) /\ CallingOk /\ MessageOk /\ AllDone
      BY <1>0
    <2> QED
      BY ProviderTurnAssumption DEF Overflow, Streaming, durable, At, TypeOK, TurnType, Phase,
         CallingOk, Local, MessageOk, InTurn, AllDone, CallOk, Executing, ProviderTurnAssumption
  <1>3. CallingOk' /\ MessageOk' /\ AllDone'
    BY <1>0 DEF Overflow, Streaming, durable, At, TypeOK, TurnType, Phase, CallingOk, Local,
       MessageOk, InTurn, AllDone, CallOk, Executing
  <1>4. ASSUME StepLimited = FALSE
        PROVE  ToolsOffered' /\ \A c \in Call : OfferedOk(c)'
    <2>0. ToolsOffered
      BY <1>4 DEF ToolInv
    <2>1. ToolsOffered'
      BY <1>0, <1>4, <2>0 DEF Overflow, Streaming, durable, At, TypeOK, TurnType, Phase,
         ToolsOffered, InTurn
    <2>2. ASSUME NEW c \in Call PROVE OfferedOk(c)'
      <3> TypeOK /\ CallOk(c) /\ OfferedOk(c) /\ CallingOk /\ MessageOk /\ AllDone
        BY <1>0, <1>4 DEF ToolInv
      <3> QED
        BY <1>4, <2>0 DEF Overflow, Streaming, durable, At, TypeOK, TurnType, Phase, CallingOk,
           Local, MessageOk, InTurn, AllDone, CallOk, Executing, OfferedOk, ToolsOffered
    <2> QED
      BY <2>1, <2>2
  <1> QED
    BY <1>1, <1>2, <1>3, <1>4 DEF ToolInv

LEMMA EndStreamKeeps ==
  ASSUME ProviderTurnAssumption, ToolInv, EndStream PROVE ToolInv'
  <1>0. TypeOK /\ CallingOk /\ MessageOk /\ AllDone /\ \A c \in Call : CallOk(c)
    BY DEF ToolInv
  <1>1. TypeOK'
    BY <1>0 DEF EndStream, At, durable, TypeOK, TurnType, Phase
  <1>2. ASSUME NEW c \in Call PROVE CallOk(c)'
    <2> TypeOK /\ CallOk(c) /\ CallingOk /\ MessageOk /\ AllDone
      BY <1>0
    <2> QED
      BY ProviderTurnAssumption DEF EndStream, At, durable, TypeOK, TurnType, Phase, CallingOk,
         Local, MessageOk, InTurn, AllDone, CallOk, Executing, ProviderTurnAssumption
  <1>3. CallingOk' /\ MessageOk' /\ AllDone'
    BY <1>0 DEF EndStream, At, durable, TypeOK, TurnType, Phase, CallingOk, Local, MessageOk,
       InTurn, AllDone, CallOk, Executing
  <1>4. ASSUME StepLimited = FALSE
        PROVE  ToolsOffered' /\ \A c \in Call : OfferedOk(c)'
    <2>0. ToolsOffered
      BY <1>4 DEF ToolInv
    <2>1. ToolsOffered'
      BY <1>0, <1>4, <2>0 DEF EndStream, At, durable, TypeOK, TurnType, Phase, ToolsOffered,
         InTurn
    <2>2. ASSUME NEW c \in Call PROVE OfferedOk(c)'
      <3> TypeOK /\ CallOk(c) /\ OfferedOk(c) /\ CallingOk /\ MessageOk /\ AllDone
        BY <1>0, <1>4 DEF ToolInv
      <3> QED
        BY <1>4, <2>0 DEF EndStream, At, durable, TypeOK, TurnType, Phase, CallingOk, Local,
           MessageOk, InTurn, AllDone, CallOk, Executing, OfferedOk, ToolsOffered
    <2> QED
      BY <2>1, <2>2
  <1> QED
    BY <1>1, <1>2, <1>3, <1>4 DEF ToolInv

LEMMA InterruptStreamKeeps ==
  ASSUME ProviderTurnAssumption, ToolInv, InterruptStream PROVE ToolInv'
  <1>0. TypeOK /\ CallingOk /\ MessageOk /\ AllDone /\ \A c \in Call : CallOk(c)
    BY DEF ToolInv
  <1>1. TypeOK'
    BY <1>0 DEF InterruptStream, At, durable, TypeOK, TurnType, Phase
  <1>2. ASSUME NEW c \in Call PROVE CallOk(c)'
    <2> TypeOK /\ CallOk(c) /\ CallingOk /\ MessageOk /\ AllDone
      BY <1>0
    <2> QED
      BY ProviderTurnAssumption DEF InterruptStream, At, durable, TypeOK, TurnType, Phase,
         CallingOk, Local, MessageOk, InTurn, AllDone, CallOk, Executing, ProviderTurnAssumption
  <1>3. CallingOk' /\ MessageOk' /\ AllDone'
    BY <1>0 DEF InterruptStream, At, durable, TypeOK, TurnType, Phase, CallingOk, Local,
       MessageOk, InTurn, AllDone, CallOk, Executing
  <1>4. ASSUME StepLimited = FALSE
        PROVE  ToolsOffered' /\ \A c \in Call : OfferedOk(c)'
    <2>0. ToolsOffered
      BY <1>4 DEF ToolInv
    <2>1. ToolsOffered'
      BY <1>0, <1>4, <2>0 DEF InterruptStream, At, durable, TypeOK, TurnType, Phase,
         ToolsOffered, InTurn
    <2>2. ASSUME NEW c \in Call PROVE OfferedOk(c)'
      <3> TypeOK /\ CallOk(c) /\ OfferedOk(c) /\ CallingOk /\ MessageOk /\ AllDone
        BY <1>0, <1>4 DEF ToolInv
      <3> QED
        BY <1>4, <2>0 DEF InterruptStream, At, durable, TypeOK, TurnType, Phase, CallingOk,
           Local, MessageOk, InTurn, AllDone, CallOk, Executing, OfferedOk, ToolsOffered
    <2> QED
      BY <2>1, <2>2
  <1> QED
    BY <1>1, <1>2, <1>3, <1>4 DEF ToolInv

LEMMA RecoverOverflowKeeps ==
  ASSUME ProviderTurnAssumption, ToolInv, RecoverOverflow PROVE ToolInv'
  <1>0. TypeOK /\ CallingOk /\ MessageOk /\ AllDone /\ \A c \in Call : CallOk(c)
    BY DEF ToolInv
  <1>. PICK p \in {"request", "scope"}, e \in {"overflow", "interrupt"} :
         turn' = [turn EXCEPT !.phase = p, !.exit = e]
    BY DEF RecoverOverflow
  <1>1. TypeOK'
    BY <1>0 DEF RecoverOverflow, durable, TypeOK, TurnType, Phase
  <1>2. ASSUME NEW c \in Call PROVE CallOk(c)'
    <2> TypeOK /\ CallOk(c) /\ CallingOk /\ MessageOk /\ AllDone
      BY <1>0
    <2> QED
      BY ProviderTurnAssumption DEF RecoverOverflow, At, durable, TypeOK, TurnType, Phase,
         CallingOk, Local, MessageOk, InTurn, AllDone, CallOk, Executing, ProviderTurnAssumption
  <1>3. CallingOk' /\ MessageOk' /\ AllDone'
    BY <1>0 DEF RecoverOverflow, At, durable, TypeOK, TurnType, Phase, CallingOk, Local,
       MessageOk, InTurn, AllDone, CallOk, Executing
  <1>4. ASSUME StepLimited = FALSE
        PROVE  ToolsOffered' /\ \A c \in Call : OfferedOk(c)'
    <2>0. ToolsOffered
      BY <1>4 DEF ToolInv
    <2>1. ToolsOffered'
      BY <1>0, <1>4, <2>0 DEF RecoverOverflow, At, durable, TypeOK, TurnType, Phase,
         ToolsOffered, InTurn
    <2>2. ASSUME NEW c \in Call PROVE OfferedOk(c)'
      <3> TypeOK /\ CallOk(c) /\ OfferedOk(c) /\ CallingOk /\ MessageOk /\ AllDone
        BY <1>0, <1>4 DEF ToolInv
      <3> QED
        BY <1>4, <2>0 DEF RecoverOverflow, At, durable, TypeOK, TurnType, Phase, CallingOk,
           Local, MessageOk, InTurn, AllDone, CallOk, Executing, OfferedOk, ToolsOffered
    <2> QED
      BY <2>1, <2>2
  <1> QED
    BY <1>1, <1>2, <1>3, <1>4 DEF ToolInv

LEMMA CloseStreamKeeps ==
  ASSUME ProviderTurnAssumption, ToolInv, CloseStream PROVE ToolInv'
  <1>0. TypeOK /\ CallingOk /\ MessageOk /\ AllDone /\ \A c \in Call : CallOk(c)
    BY DEF ToolInv
  <1>1. TypeOK'
    <2>1. turn' \in TurnType
      <3> DEFINE fails == turn.exit = "failure" /\ ~turn.error /\ ~turn.overflow
                 e == turn.error \/ turn.overflow
                 f == turn.failed \/ fails \/ turn.overflow
                 b == turn.started \/ fails \/ turn.overflow
                 a == turn.active /\ ~fails
                 t == IF turn.exit = "interrupt" THEN "interrupt" ELSE turn.settled
                 p == IF turn.exit = "interrupt" THEN "clear" ELSE "await"
                 mid == [turn EXCEPT !.error = e, !.failed = f, !.started = b]
      <3>1. /\ turn \in TurnType /\ p \in {"clear", "await"}
            /\ t \in {"none", "success", "rejected", "failure", "interrupt"}
            /\ e \in BOOLEAN /\ f \in BOOLEAN /\ b \in BOOLEAN /\ a \in BOOLEAN
        BY <1>0 DEF TypeOK, TurnType
      <3>2. turn' = [mid EXCEPT !.active = a, !.settled = t, !.phase = p]
        BY <3>1 DEF CloseStream, TurnType
      <3> HIDE DEF e, f, b, a, t, p
      <3>3. mid \in TurnType
        BY <3>1 DEF TurnType
      <3> HIDE DEF mid
      <3> QED
        BY <3>1, <3>2, <3>3 DEF TurnType, Phase
    <2>2. step' \in {"none", "open", "ended", "failed"}
      BY <1>0 DEF CloseStream, At, FailTools, UnsettledHosted, Interrupted, Failed, Unsettled,
         Open, TypeOK, TurnType, Phase
    <2>3. fiber' \in [Call -> {"none", "running", "publishing", "done", "gone", "rejected", "defect"}]
      BY <1>0 DEF CloseStream, At, FailTools, UnsettledHosted, Interrupted, Failed, Unsettled,
         Open, TypeOK, TurnType, Phase
    <2>4. outcome' = outcome
      BY DEF CloseStream, durable
    <2> QED
      BY <1>0, <2>1, <2>2, <2>3, <2>4, FailToolsType DEF CloseStream, TypeOK
  <1>2. ASSUME NEW c \in Call PROVE CallOk(c)'
    <2> TypeOK /\ CallOk(c) /\ CallingOk /\ MessageOk /\ AllDone
      BY <1>0
    <2> QED
      BY ProviderTurnAssumption DEF CloseStream, At, FailTools, UnsettledHosted, Interrupted,
         Failed, Unsettled, Open, TypeOK, TurnType, Phase, CallingOk, Local, MessageOk, InTurn,
         AllDone, CallOk, Executing, ProviderTurnAssumption
  <1>3. CallingOk' /\ MessageOk' /\ AllDone'
    BY <1>0 DEF CloseStream, At, FailTools, UnsettledHosted, Interrupted, Failed, Unsettled,
       Open, TypeOK, TurnType, Phase, CallingOk, Local, MessageOk, InTurn, AllDone, CallOk,
       Executing
  <1>4. ASSUME StepLimited = FALSE
        PROVE  ToolsOffered' /\ \A c \in Call : OfferedOk(c)'
    <2>0. ToolsOffered
      BY <1>4 DEF ToolInv
    <2>1. ToolsOffered'
      BY <1>0, <1>4, <2>0 DEF CloseStream, At, FailTools, UnsettledHosted, Interrupted, Failed,
         Unsettled, Open, TypeOK, TurnType, Phase, ToolsOffered, InTurn
    <2>2. ASSUME NEW c \in Call PROVE OfferedOk(c)'
      <3> TypeOK /\ CallOk(c) /\ OfferedOk(c) /\ CallingOk /\ MessageOk /\ AllDone
        BY <1>0, <1>4 DEF ToolInv
      <3> QED
        BY <1>4, <2>0 DEF CloseStream, At, FailTools, UnsettledHosted, Interrupted, Failed,
           Unsettled, Open, TypeOK, TurnType, Phase, CallingOk, Local, MessageOk, InTurn,
           AllDone, CallOk, Executing, OfferedOk, ToolsOffered
    <2> QED
      BY <2>1, <2>2
  <1> QED
    BY <1>1, <1>2, <1>3, <1>4 DEF ToolInv

LEMMA AwaitToolsKeeps ==
  ASSUME ProviderTurnAssumption, ToolInv, AwaitTools PROVE ToolInv'
  <1>0. TypeOK /\ CallingOk /\ MessageOk /\ AllDone /\ \A c \in Call : CallOk(c)
    BY DEF ToolInv
  <1>. PICK p \in {"settle", "clear"}, e \in {"success", "rejected", "failure"} :
         /\ turn' = [turn EXCEPT !.phase = p, !.settled = e]
         /\ p = "clear" <=> e = "rejected"
         /\ e = "success" => \A c \in Call : fiber[c] \in {"none", "done"}
         /\ fiber' = IF p = "clear" THEN Interrupted ELSE fiber
    BY DEF AwaitTools
  <1>1. TypeOK'
    BY <1>0 DEF AwaitTools, Interrupted, durable, TypeOK, TurnType, Phase
  <1>2. ASSUME NEW c \in Call PROVE CallOk(c)'
    <2> TypeOK /\ CallOk(c) /\ CallingOk /\ MessageOk /\ AllDone
      BY <1>0
    <2> QED
      BY ProviderTurnAssumption DEF AwaitTools, At, Interrupted, durable, TypeOK, TurnType,
         Phase, CallingOk, Local, MessageOk, InTurn, AllDone, CallOk, Executing,
         ProviderTurnAssumption
  <1>3. CallingOk' /\ MessageOk' /\ AllDone'
    BY <1>0 DEF AwaitTools, At, Interrupted, durable, TypeOK, TurnType, Phase, CallingOk, Local,
       MessageOk, InTurn, AllDone, CallOk, Executing
  <1>4. ASSUME StepLimited = FALSE
        PROVE  ToolsOffered' /\ \A c \in Call : OfferedOk(c)'
    <2>0. ToolsOffered
      BY <1>4 DEF ToolInv
    <2>1. ToolsOffered'
      BY <1>0, <1>4, <2>0 DEF AwaitTools, At, Interrupted, durable, TypeOK, TurnType, Phase,
         ToolsOffered, InTurn
    <2>2. ASSUME NEW c \in Call PROVE OfferedOk(c)'
      <3> TypeOK /\ CallOk(c) /\ OfferedOk(c) /\ CallingOk /\ MessageOk /\ AllDone
        BY <1>0, <1>4 DEF ToolInv
      <3> QED
        BY <1>4, <2>0 DEF AwaitTools, At, Interrupted, durable, TypeOK, TurnType, Phase,
           CallingOk, Local, MessageOk, InTurn, AllDone, CallOk, Executing, OfferedOk,
           ToolsOffered
    <2> QED
      BY <2>1, <2>2
  <1> QED
    BY <1>1, <1>2, <1>3, <1>4 DEF ToolInv

LEMMA InterruptAwaitKeeps ==
  ASSUME ProviderTurnAssumption, ToolInv, InterruptAwait PROVE ToolInv'
  <1>0. TypeOK /\ CallingOk /\ MessageOk /\ AllDone /\ \A c \in Call : CallOk(c)
    BY DEF ToolInv
  <1>1. TypeOK'
    BY <1>0 DEF InterruptAwait, At, Interrupted, durable, TypeOK, TurnType, Phase
  <1>2. ASSUME NEW c \in Call PROVE CallOk(c)'
    <2> TypeOK /\ CallOk(c) /\ CallingOk /\ MessageOk /\ AllDone
      BY <1>0
    <2> QED
      BY ProviderTurnAssumption DEF InterruptAwait, At, Interrupted, durable, TypeOK, TurnType,
         Phase, CallingOk, Local, MessageOk, InTurn, AllDone, CallOk, Executing,
         ProviderTurnAssumption
  <1>3. CallingOk' /\ MessageOk' /\ AllDone'
    BY <1>0 DEF InterruptAwait, At, Interrupted, durable, TypeOK, TurnType, Phase, CallingOk,
       Local, MessageOk, InTurn, AllDone, CallOk, Executing
  <1>4. ASSUME StepLimited = FALSE
        PROVE  ToolsOffered' /\ \A c \in Call : OfferedOk(c)'
    <2>0. ToolsOffered
      BY <1>4 DEF ToolInv
    <2>1. ToolsOffered'
      BY <1>0, <1>4, <2>0 DEF InterruptAwait, At, Interrupted, durable, TypeOK, TurnType, Phase,
         ToolsOffered, InTurn
    <2>2. ASSUME NEW c \in Call PROVE OfferedOk(c)'
      <3> TypeOK /\ CallOk(c) /\ OfferedOk(c) /\ CallingOk /\ MessageOk /\ AllDone
        BY <1>0, <1>4 DEF ToolInv
      <3> QED
        BY <1>4, <2>0 DEF InterruptAwait, At, Interrupted, durable, TypeOK, TurnType, Phase,
           CallingOk, Local, MessageOk, InTurn, AllDone, CallOk, Executing, OfferedOk,
           ToolsOffered
    <2> QED
      BY <2>1, <2>2
  <1> QED
    BY <1>1, <1>2, <1>3, <1>4 DEF ToolInv

LEMMA ClearedKeeps ==
  ASSUME ProviderTurnAssumption, ToolInv, Cleared PROVE ToolInv'
  <1>0. TypeOK /\ CallingOk /\ MessageOk /\ AllDone /\ \A c \in Call : CallOk(c)
    BY DEF ToolInv
  <1>1. TypeOK'
    BY <1>0 DEF Cleared, At, Alive, durable, TypeOK, TurnType, Phase
  <1>2. ASSUME NEW c \in Call PROVE CallOk(c)'
    <2> TypeOK /\ CallOk(c) /\ CallingOk /\ MessageOk /\ AllDone
      BY <1>0
    <2> QED
      BY ProviderTurnAssumption DEF Cleared, At, Alive, durable, TypeOK, TurnType, Phase,
         CallingOk, Local, MessageOk, InTurn, AllDone, CallOk, Executing, ProviderTurnAssumption
  <1>3. CallingOk' /\ MessageOk' /\ AllDone'
    BY <1>0 DEF Cleared, At, Alive, durable, TypeOK, TurnType, Phase, CallingOk, Local,
       MessageOk, InTurn, AllDone, CallOk, Executing
  <1>4. ASSUME StepLimited = FALSE
        PROVE  ToolsOffered' /\ \A c \in Call : OfferedOk(c)'
    <2>0. ToolsOffered
      BY <1>4 DEF ToolInv
    <2>1. ToolsOffered'
      BY <1>0, <1>4, <2>0 DEF Cleared, At, Alive, durable, TypeOK, TurnType, Phase,
         ToolsOffered, InTurn
    <2>2. ASSUME NEW c \in Call PROVE OfferedOk(c)'
      <3> TypeOK /\ CallOk(c) /\ OfferedOk(c) /\ CallingOk /\ MessageOk /\ AllDone
        BY <1>0, <1>4 DEF ToolInv
      <3> QED
        BY <1>4, <2>0 DEF Cleared, At, Alive, durable, TypeOK, TurnType, Phase, CallingOk,
           Local, MessageOk, InTurn, AllDone, CallOk, Executing, OfferedOk, ToolsOffered
    <2> QED
      BY <2>1, <2>2
  <1> QED
    BY <1>1, <1>2, <1>3, <1>4 DEF ToolInv

LEMMA SettleKeeps ==
  ASSUME ProviderTurnAssumption, ToolInv, Settle PROVE ToolInv'
  <1>0. TypeOK /\ CallingOk /\ MessageOk /\ AllDone /\ \A c \in Call : CallOk(c)
    BY DEF ToolInv
  <1>1. TypeOK'
    <2>1. turn' \in TurnType
      BY <1>0 DEF Settle, At, FailTools, Leftover, Interrupted, Failed, Unsettled,
         UnsettledHosted, Open, TypeOK, TurnType, Phase
    <2>2. step' \in {"none", "open", "ended", "failed"}
      BY <1>0 DEF Settle, At, FailTools, Leftover, Interrupted, Failed, Unsettled,
         UnsettledHosted, Open, TypeOK, TurnType, Phase
    <2>3. fiber' \in [Call -> {"none", "running", "publishing", "done", "gone", "rejected", "defect"}]
      BY <1>0 DEF Settle, At, FailTools, Leftover, Interrupted, Failed, Unsettled,
         UnsettledHosted, Open, TypeOK, TurnType, Phase
    <2>4. outcome' = outcome
      BY DEF Settle, durable
    <2> QED
      BY <1>0, <2>1, <2>2, <2>3, <2>4, FailToolsType DEF Settle, TypeOK
  <1>2. ASSUME NEW c \in Call PROVE CallOk(c)'
    <2> TypeOK /\ CallOk(c) /\ CallingOk /\ MessageOk /\ AllDone
      BY <1>0
    <2> QED
      BY ProviderTurnAssumption DEF Settle, At, FailTools, Leftover, Interrupted, Failed,
         Unsettled, UnsettledHosted, Open, TypeOK, TurnType, Phase, CallingOk, Local, MessageOk,
         InTurn, AllDone, CallOk, Executing, ProviderTurnAssumption
  <1>3. CallingOk' /\ MessageOk' /\ AllDone'
    BY <1>0 DEF Settle, At, FailTools, Leftover, Interrupted, Failed, Unsettled,
       UnsettledHosted, Open, TypeOK, TurnType, Phase, CallingOk, Local, MessageOk, InTurn,
       AllDone, CallOk, Executing
  <1>4. ASSUME StepLimited = FALSE
        PROVE  ToolsOffered' /\ \A c \in Call : OfferedOk(c)'
    <2>0. ToolsOffered
      BY <1>4 DEF ToolInv
    <2>1. ToolsOffered'
      BY <1>0, <1>4, <2>0 DEF Settle, At, FailTools, Leftover, Interrupted, Failed, Unsettled,
         UnsettledHosted, Open, TypeOK, TurnType, Phase, ToolsOffered, InTurn
    <2>2. ASSUME NEW c \in Call PROVE OfferedOk(c)'
      <3> TypeOK /\ CallOk(c) /\ OfferedOk(c) /\ CallingOk /\ MessageOk /\ AllDone
        BY <1>0, <1>4 DEF ToolInv
      <3> QED
        BY <1>4, <2>0 DEF Settle, At, FailTools, Leftover, Interrupted, Failed, Unsettled,
           UnsettledHosted, Open, TypeOK, TurnType, Phase, CallingOk, Local, MessageOk, InTurn,
           AllDone, CallOk, Executing, OfferedOk, ToolsOffered
    <2> QED
      BY <2>1, <2>2
  <1> QED
    BY <1>1, <1>2, <1>3, <1>4 DEF ToolInv

LEMMA EndTurnKeeps ==
  ASSUME ProviderTurnAssumption, ToolInv, EndTurn PROVE ToolInv'
  <1>0. TypeOK /\ CallingOk /\ MessageOk /\ AllDone /\ \A c \in Call : CallOk(c)
    BY DEF ToolInv
  <1>1. TypeOK'
    BY <1>0 DEF EndTurn, At, Alive, Off, durable, TypeOK, TurnType, Phase
  <1>2. ASSUME NEW c \in Call PROVE CallOk(c)'
    <2> TypeOK /\ CallOk(c) /\ CallingOk /\ MessageOk /\ AllDone
      BY <1>0
    <2> QED
      BY ProviderTurnAssumption DEF EndTurn, At, Alive, Off, durable, TypeOK, TurnType, Phase,
         CallingOk, Local, MessageOk, InTurn, AllDone, CallOk, Executing, ProviderTurnAssumption
  <1>3. CallingOk' /\ MessageOk' /\ AllDone'
    BY <1>0 DEF EndTurn, At, Alive, Off, durable, TypeOK, TurnType, Phase, CallingOk, Local,
       MessageOk, InTurn, AllDone, CallOk, Executing
  <1>4. ASSUME StepLimited = FALSE
        PROVE  ToolsOffered' /\ \A c \in Call : OfferedOk(c)'
    <2>0. ToolsOffered
      BY <1>4 DEF ToolInv
    <2>1. ToolsOffered'
      BY <1>0, <1>4, <2>0 DEF EndTurn, At, Alive, Off, durable, TypeOK, TurnType, Phase,
         ToolsOffered, InTurn
    <2>2. ASSUME NEW c \in Call PROVE OfferedOk(c)'
      <3> TypeOK /\ CallOk(c) /\ OfferedOk(c) /\ CallingOk /\ MessageOk /\ AllDone
        BY <1>0, <1>4 DEF ToolInv
      <3> QED
        BY <1>4, <2>0 DEF EndTurn, At, Alive, Off, durable, TypeOK, TurnType, Phase, CallingOk,
           Local, MessageOk, InTurn, AllDone, CallOk, Executing, OfferedOk, ToolsOffered
    <2> QED
      BY <2>1, <2>2
  <1> QED
    BY <1>1, <1>2, <1>3, <1>4 DEF ToolInv

LEMMA StopKeeps ==
  ASSUME ProviderTurnAssumption, ToolInv, Stop PROVE ToolInv'
  <1>0. TypeOK /\ CallingOk /\ MessageOk /\ AllDone /\ \A c \in Call : CallOk(c)
    BY DEF ToolInv
  <1>1. TypeOK'
    BY <1>0 DEF Stop, At, Off, durable, TypeOK, TurnType, Phase
  <1>2. ASSUME NEW c \in Call PROVE CallOk(c)'
    <2> TypeOK /\ CallOk(c) /\ CallingOk /\ MessageOk /\ AllDone
      BY <1>0
    <2> QED
      BY ProviderTurnAssumption DEF Stop, At, Off, durable, TypeOK, TurnType, Phase, CallingOk,
         Local, MessageOk, InTurn, AllDone, CallOk, Executing, ProviderTurnAssumption
  <1>3. CallingOk' /\ MessageOk' /\ AllDone'
    BY <1>0 DEF Stop, At, Off, durable, TypeOK, TurnType, Phase, CallingOk, Local, MessageOk,
       InTurn, AllDone, CallOk, Executing
  <1>4. ASSUME StepLimited = FALSE
        PROVE  ToolsOffered' /\ \A c \in Call : OfferedOk(c)'
    <2>0. ToolsOffered
      BY <1>4 DEF ToolInv
    <2>1. ToolsOffered'
      BY <1>0, <1>4, <2>0 DEF Stop, At, Off, durable, TypeOK, TurnType, Phase, ToolsOffered,
         InTurn
    <2>2. ASSUME NEW c \in Call PROVE OfferedOk(c)'
      <3> TypeOK /\ CallOk(c) /\ OfferedOk(c) /\ CallingOk /\ MessageOk /\ AllDone
        BY <1>0, <1>4 DEF ToolInv
      <3> QED
        BY <1>4, <2>0 DEF Stop, At, Off, durable, TypeOK, TurnType, Phase, CallingOk, Local,
           MessageOk, InTurn, AllDone, CallOk, Executing, OfferedOk, ToolsOffered
    <2> QED
      BY <2>1, <2>2
  <1> QED
    BY <1>1, <1>2, <1>3, <1>4 DEF ToolInv

LEMMA CrashKeeps ==
  ASSUME ProviderTurnAssumption, ToolInv, Crash PROVE ToolInv'
  <1>0. TypeOK /\ CallingOk /\ MessageOk /\ AllDone /\ \A c \in Call : CallOk(c)
    BY DEF ToolInv
  <1>1. TypeOK'
    BY <1>0 DEF Crash, At, Off, NoTool, durable, TypeOK, TurnType, Phase
  <1>2. ASSUME NEW c \in Call PROVE CallOk(c)'
    <2> TypeOK /\ CallOk(c) /\ CallingOk /\ MessageOk /\ AllDone
      BY <1>0
    <2> QED
      BY ProviderTurnAssumption DEF Crash, At, Off, NoTool, durable, TypeOK, TurnType, Phase,
         CallingOk, Local, MessageOk, InTurn, AllDone, CallOk, Executing, ProviderTurnAssumption
  <1>3. CallingOk' /\ MessageOk' /\ AllDone'
    BY <1>0 DEF Crash, At, Off, NoTool, durable, TypeOK, TurnType, Phase, CallingOk, Local,
       MessageOk, InTurn, AllDone, CallOk, Executing
  <1>4. ASSUME StepLimited = FALSE
        PROVE  ToolsOffered' /\ \A c \in Call : OfferedOk(c)'
    <2>0. ToolsOffered
      BY <1>4 DEF ToolInv
    <2>1. ToolsOffered'
      BY <1>0, <1>4, <2>0 DEF Crash, At, Off, NoTool, durable, TypeOK, TurnType, Phase,
         ToolsOffered, InTurn
    <2>2. ASSUME NEW c \in Call PROVE OfferedOk(c)'
      <3> TypeOK /\ CallOk(c) /\ OfferedOk(c) /\ CallingOk /\ MessageOk /\ AllDone
        BY <1>0, <1>4 DEF ToolInv
      <3> QED
        BY <1>4, <2>0 DEF Crash, At, Off, NoTool, durable, TypeOK, TurnType, Phase, CallingOk,
           Local, MessageOk, InTurn, AllDone, CallOk, Executing, OfferedOk, ToolsOffered
    <2> QED
      BY <2>1, <2>2
  <1> QED
    BY <1>1, <1>2, <1>3, <1>4 DEF ToolInv

LEMMA RecoverKeeps ==
  ASSUME ProviderTurnAssumption, ToolInv, NEW d \in Call, Recover(d) PROVE ToolInv'
  <1>0. TypeOK /\ CallingOk /\ MessageOk /\ AllDone /\ \A c \in Call : CallOk(c)
    BY DEF ToolInv
  <1>1. TypeOK'
    BY <1>0 DEF Recover, At, Open, Failed, TypeOK, TurnType, Phase
  <1>2. ASSUME NEW c \in Call PROVE CallOk(c)'
    <2> TypeOK /\ CallOk(c) /\ CallingOk /\ MessageOk /\ AllDone
      BY <1>0
    <2> QED
      BY ProviderTurnAssumption DEF Recover, At, Open, Failed, TypeOK, TurnType, Phase,
         CallingOk, Local, MessageOk, InTurn, AllDone, CallOk, Executing, ProviderTurnAssumption
  <1>3. CallingOk' /\ MessageOk' /\ AllDone'
    BY <1>0 DEF Recover, At, Open, Failed, TypeOK, TurnType, Phase, CallingOk, Local, MessageOk,
       InTurn, AllDone, CallOk, Executing
  <1>4. ASSUME StepLimited = FALSE
        PROVE  ToolsOffered' /\ \A c \in Call : OfferedOk(c)'
    <2>0. ToolsOffered
      BY <1>4 DEF ToolInv
    <2>1. ToolsOffered'
      BY <1>0, <1>4, <2>0 DEF Recover, At, Open, Failed, TypeOK, TurnType, Phase, ToolsOffered,
         InTurn
    <2>2. ASSUME NEW c \in Call PROVE OfferedOk(c)'
      <3> TypeOK /\ CallOk(c) /\ OfferedOk(c) /\ CallingOk /\ MessageOk /\ AllDone
        BY <1>0, <1>4 DEF ToolInv
      <3> QED
        BY <1>4, <2>0 DEF Recover, At, Open, Failed, TypeOK, TurnType, Phase, CallingOk, Local,
           MessageOk, InTurn, AllDone, CallOk, Executing, OfferedOk, ToolsOffered
    <2> QED
      BY <2>1, <2>2
  <1> QED
    BY <1>1, <1>2, <1>3, <1>4 DEF ToolInv

LEMMA StartInputKeeps ==
  ASSUME ProviderTurnAssumption, ToolInv, NEW d \in Call, StartInput(d) PROVE ToolInv'
  <1>0. TypeOK /\ CallingOk /\ MessageOk /\ AllDone /\ \A c \in Call : CallOk(c)
    BY DEF ToolInv
  <1>1. TypeOK'
    BY <1>0 DEF StartInput, Streaming, StepStarted, At, TypeOK, TurnType, Phase
  <1>2. ASSUME NEW c \in Call PROVE CallOk(c)'
    <2> TypeOK /\ CallOk(c) /\ CallingOk /\ MessageOk /\ AllDone
      BY <1>0
    <2> QED
      BY ProviderTurnAssumption DEF StartInput, Streaming, StepStarted, At, TypeOK, TurnType,
         Phase, CallingOk, Local, MessageOk, InTurn, AllDone, CallOk, Executing,
         ProviderTurnAssumption
  <1>3. CallingOk' /\ MessageOk' /\ AllDone'
    <2>1. CallingOk'
      BY <1>0 DEF StartInput, Streaming, StepStarted, At, TypeOK, TurnType, Phase, CallingOk,
         Local, MessageOk, InTurn, AllDone, CallOk, Executing
    <2>2. MessageOk'
      BY <1>0 DEF StartInput, Streaming, StepStarted, At, TypeOK, TurnType, Phase, CallingOk,
         Local, MessageOk, InTurn, AllDone, CallOk, Executing
    <2>3. AllDone'
      BY <1>0 DEF StartInput, Streaming, StepStarted, At, TypeOK, TurnType, Phase, CallingOk,
         Local, MessageOk, InTurn, AllDone, CallOk, Executing
    <2> QED
      BY <2>1, <2>2, <2>3
  <1>4. ASSUME StepLimited = FALSE
        PROVE  ToolsOffered' /\ \A c \in Call : OfferedOk(c)'
    <2>0. ToolsOffered
      BY <1>4 DEF ToolInv
    <2>1. ToolsOffered'
      BY <1>0, <1>4, <2>0 DEF StartInput, Streaming, StepStarted, At, TypeOK, TurnType, Phase,
         ToolsOffered, InTurn
    <2>2. ASSUME NEW c \in Call PROVE OfferedOk(c)'
      <3> TypeOK /\ CallOk(c) /\ OfferedOk(c) /\ CallingOk /\ MessageOk /\ AllDone
        BY <1>0, <1>4 DEF ToolInv
      <3> QED
        BY <1>4, <2>0 DEF StartInput, Streaming, StepStarted, At, TypeOK, TurnType, Phase,
           CallingOk, Local, MessageOk, InTurn, AllDone, CallOk, Executing, OfferedOk,
           ToolsOffered
    <2> QED
      BY <2>1, <2>2
  <1> QED
    BY <1>1, <1>2, <1>3, <1>4 DEF ToolInv

LEMMA CallToolKeeps ==
  ASSUME ProviderTurnAssumption, ToolInv, NEW d \in Call, CallTool(d) PROVE ToolInv'
  <1>0. TypeOK /\ CallingOk /\ MessageOk /\ AllDone /\ \A c \in Call : CallOk(c)
    BY DEF ToolInv
  <1>1. TypeOK'
    <2>1. PICK a \in BOOLEAN, p \in {"called", "stream"}, C \in SUBSET Call :
            turn' = [turn EXCEPT !.started = TRUE, !.active = a, !.begun = @ \union {d},
                                 !.phase = p, !.call = C]
      <3>1. (~turn.started \/ turn.active) \in BOOLEAN /\ {d} \in SUBSET Call /\ {} \in SUBSET Call
        BY <1>0 DEF TypeOK, TurnType
      <3> QED
        BY <3>1 DEF CallTool
    <2>2. turn' \in TurnType
      BY <1>0, <2>1 DEF TypeOK, TurnType, Phase
    <2>3. tool' \in [Call -> [known : BOOLEAN, called : BOOLEAN, settled : BOOLEAN]]
      BY <1>0 DEF TypeOK, CallTool
    <2> QED
      BY <1>0, <2>2, <2>3 DEF CallTool, Called, StepStarted, TypeOK
  <1>2. ASSUME NEW c \in Call PROVE CallOk(c)'
    <2> TypeOK /\ CallOk(c) /\ CallingOk /\ MessageOk /\ AllDone
      BY <1>0
    <2> QED
      BY ProviderTurnAssumption DEF CallTool, Streaming, StepStarted, Called, Local, At, TypeOK,
         TurnType, Phase, CallingOk, MessageOk, InTurn, AllDone, CallOk, Executing,
         ProviderTurnAssumption
  <1>3. CallingOk' /\ MessageOk' /\ AllDone'
    BY <1>0 DEF CallTool, Streaming, StepStarted, Called, Local, At, TypeOK, TurnType, Phase,
       CallingOk, MessageOk, InTurn, AllDone, CallOk, Executing
  <1>4. ASSUME StepLimited = FALSE
        PROVE  ToolsOffered' /\ \A c \in Call : OfferedOk(c)'
    <2>0. ToolsOffered
      BY <1>4 DEF ToolInv
    <2>1. ToolsOffered'
      BY <1>0, <1>4, <2>0 DEF CallTool, Streaming, StepStarted, Called, Local, At, TypeOK,
         TurnType, Phase, ToolsOffered, InTurn
    <2>2. ASSUME NEW c \in Call PROVE OfferedOk(c)'
      <3> TypeOK /\ CallOk(c) /\ OfferedOk(c) /\ CallingOk /\ MessageOk /\ AllDone
        BY <1>0, <1>4 DEF ToolInv
      <3> QED
        BY <1>4, <2>0 DEF CallTool, Streaming, StepStarted, Called, Local, At, TypeOK, TurnType,
           Phase, CallingOk, MessageOk, InTurn, AllDone, CallOk, Executing, OfferedOk,
           ToolsOffered
    <2> QED
      BY <2>1, <2>2
  <1> QED
    BY <1>1, <1>2, <1>3, <1>4 DEF ToolInv

LEMMA HostedDuplicateKeeps ==
  ASSUME ProviderTurnAssumption, ToolInv, NEW d \in Call, HostedDuplicate(d) PROVE ToolInv'
  <1>0. TypeOK /\ CallingOk /\ MessageOk /\ AllDone /\ \A c \in Call : CallOk(c)
    BY DEF ToolInv
  <1>1. TypeOK'
    BY <1>0 DEF HostedDuplicate, Streaming, durable, At, TypeOK, TurnType, Phase
  <1>2. ASSUME NEW c \in Call PROVE CallOk(c)'
    <2> TypeOK /\ CallOk(c) /\ CallingOk /\ MessageOk /\ AllDone
      BY <1>0
    <2> QED
      BY ProviderTurnAssumption DEF HostedDuplicate, Streaming, durable, At, TypeOK, TurnType,
         Phase, CallingOk, Local, MessageOk, InTurn, AllDone, CallOk, Executing,
         ProviderTurnAssumption
  <1>3. CallingOk' /\ MessageOk' /\ AllDone'
    BY <1>0 DEF HostedDuplicate, Streaming, durable, At, TypeOK, TurnType, Phase, CallingOk,
       Local, MessageOk, InTurn, AllDone, CallOk, Executing
  <1>4. ASSUME StepLimited = FALSE
        PROVE  ToolsOffered' /\ \A c \in Call : OfferedOk(c)'
    <2>0. ToolsOffered
      BY <1>4 DEF ToolInv
    <2>1. ToolsOffered'
      BY <1>0, <1>4, <2>0 DEF HostedDuplicate, Streaming, durable, At, TypeOK, TurnType, Phase,
         ToolsOffered, InTurn
    <2>2. ASSUME NEW c \in Call PROVE OfferedOk(c)'
      <3> TypeOK /\ CallOk(c) /\ OfferedOk(c) /\ CallingOk /\ MessageOk /\ AllDone
        BY <1>0, <1>4 DEF ToolInv
      <3> QED
        BY <1>4, <2>0 DEF HostedDuplicate, Streaming, durable, At, TypeOK, TurnType, Phase,
           CallingOk, Local, MessageOk, InTurn, AllDone, CallOk, Executing, OfferedOk,
           ToolsOffered
    <2> QED
      BY <2>1, <2>2
  <1> QED
    BY <1>1, <1>2, <1>3, <1>4 DEF ToolInv

LEMMA BreakToolKeeps ==
  ASSUME ProviderTurnAssumption, ToolInv, NEW d \in Call, BreakTool(d) PROVE ToolInv'
  <1>0. TypeOK /\ CallingOk /\ MessageOk /\ AllDone /\ \A c \in Call : CallOk(c)
    BY DEF ToolInv
  <1>1. TypeOK'
    BY <1>0 DEF BreakTool, durable, TypeOK, TurnType, Phase
  <1>2. ASSUME NEW c \in Call PROVE CallOk(c)'
    <2> TypeOK /\ CallOk(c) /\ CallingOk /\ MessageOk /\ AllDone
      BY <1>0
    <2> QED
      BY ProviderTurnAssumption DEF BreakTool, durable, TypeOK, TurnType, Phase, CallingOk, At,
         Local, MessageOk, InTurn, AllDone, CallOk, Executing, ProviderTurnAssumption
  <1>3. CallingOk' /\ MessageOk' /\ AllDone'
    BY <1>0 DEF BreakTool, durable, TypeOK, TurnType, Phase, CallingOk, At, Local, MessageOk,
       InTurn, AllDone, CallOk, Executing
  <1>4. ASSUME StepLimited = FALSE
        PROVE  ToolsOffered' /\ \A c \in Call : OfferedOk(c)'
    <2>0. ToolsOffered
      BY <1>4 DEF ToolInv
    <2>1. ToolsOffered'
      BY <1>0, <1>4, <2>0 DEF BreakTool, durable, TypeOK, TurnType, Phase, ToolsOffered, InTurn
    <2>2. ASSUME NEW c \in Call PROVE OfferedOk(c)'
      <3> TypeOK /\ CallOk(c) /\ OfferedOk(c) /\ CallingOk /\ MessageOk /\ AllDone
        BY <1>0, <1>4 DEF ToolInv
      <3> QED
        BY <1>4, <2>0 DEF BreakTool, durable, TypeOK, TurnType, Phase, CallingOk, At, Local,
           MessageOk, InTurn, AllDone, CallOk, Executing, OfferedOk, ToolsOffered
    <2> QED
      BY <2>1, <2>2
  <1> QED
    BY <1>1, <1>2, <1>3, <1>4 DEF ToolInv

LEMMA PublishResultKeeps ==
  ASSUME ProviderTurnAssumption, ToolInv, NEW d \in Call, PublishResult(d) PROVE ToolInv'
  <1>0. TypeOK /\ CallingOk /\ MessageOk /\ AllDone /\ \A c \in Call : CallOk(c)
    BY DEF ToolInv
  <1>1. TypeOK'
    <2>1. outcome[d] \in {"none", "completed", "error"}
      BY <1>0 DEF TypeOK
    <2>2. state' \in [Call -> {"none", "pending", "running", "completed", "error"}]
      BY <1>0, <2>1 DEF PublishResult, Settled, TypeOK
    <2>3. tool' \in [Call -> [known : BOOLEAN, called : BOOLEAN, settled : BOOLEAN]]
      <3>1. tool \in [Call -> [known : BOOLEAN, called : BOOLEAN, settled : BOOLEAN]]
        BY <1>0 DEF TypeOK
      <3>2. CASE tool' = tool
        BY <3>1, <3>2
      <3>3. CASE tool' = [tool EXCEPT ![d].settled = TRUE]
        BY <3>1, <3>3
      <3> QED
        BY <3>2, <3>3 DEF PublishResult
    <2>4. UNCHANGED <<step, turn>> /\ outcome' \in [Call -> {"none", "completed", "error"}]
      BY <1>0, <2>1 DEF TypeOK, PublishResult
    <2> QED
      BY <1>0, <2>2, <2>3, <2>4 DEF TypeOK, PublishResult
  <1>2. ASSUME NEW c \in Call PROVE CallOk(c)'
    <2> TypeOK /\ CallOk(c) /\ CallingOk /\ MessageOk /\ AllDone
      BY <1>0
    <2> QED
      BY ProviderTurnAssumption DEF PublishResult, Settled, TypeOK, TurnType, Phase, CallingOk,
         At, Local, MessageOk, InTurn, AllDone, CallOk, Executing, ProviderTurnAssumption
  <1>3. CallingOk' /\ MessageOk' /\ AllDone'
    BY <1>0 DEF PublishResult, Settled, TypeOK, TurnType, Phase, CallingOk, At, Local,
       MessageOk, InTurn, AllDone, CallOk, Executing
  <1>4. ASSUME StepLimited = FALSE
        PROVE  ToolsOffered' /\ \A c \in Call : OfferedOk(c)'
    <2>0. ToolsOffered
      BY <1>4 DEF ToolInv
    <2>1. ToolsOffered'
      BY <1>0, <1>4, <2>0 DEF PublishResult, Settled, TypeOK, TurnType, Phase, ToolsOffered,
         InTurn
    <2>2. ASSUME NEW c \in Call PROVE OfferedOk(c)'
      <3> TypeOK /\ CallOk(c) /\ OfferedOk(c) /\ CallingOk /\ MessageOk /\ AllDone
        BY <1>0, <1>4 DEF ToolInv
      <3> QED
        BY <1>4, <2>0 DEF PublishResult, Settled, TypeOK, TurnType, Phase, CallingOk, At, Local,
           MessageOk, InTurn, AllDone, CallOk, Executing, OfferedOk, ToolsOffered
    <2> QED
      BY <2>1, <2>2
  <1> QED
    BY <1>1, <1>2, <1>3, <1>4 DEF ToolInv

LEMMA HostedResultKeeps ==
  ASSUME ProviderTurnAssumption, ToolInv, NEW d \in Call, NEW r \in {"completed", "error"}, HostedResult(d, r) PROVE ToolInv'
  <1>0. TypeOK /\ CallingOk /\ MessageOk /\ AllDone /\ \A c \in Call : CallOk(c)
    BY DEF ToolInv
  <1>1. TypeOK'
    <2>1. r \in {"none", "completed", "error"}
      BY <1>0 DEF TypeOK
    <2>2. state' \in [Call -> {"none", "pending", "running", "completed", "error"}]
      BY <1>0, <2>1 DEF HostedResult, Settled, TypeOK
    <2>3. tool' \in [Call -> [known : BOOLEAN, called : BOOLEAN, settled : BOOLEAN]]
      BY <1>0 DEF TypeOK, HostedResult
    <2>4. UNCHANGED <<step, turn>> /\ outcome' \in [Call -> {"none", "completed", "error"}]
      BY <1>0, <2>1 DEF TypeOK, HostedResult
    <2> QED
      BY <1>0, <2>2, <2>3, <2>4 DEF TypeOK, HostedResult
  <1>2. ASSUME NEW c \in Call PROVE CallOk(c)'
    <2> TypeOK /\ CallOk(c) /\ CallingOk /\ MessageOk /\ AllDone
      BY <1>0
    <2> QED
      BY ProviderTurnAssumption DEF HostedResult, Streaming, Settled, At, TypeOK, TurnType,
         Phase, CallingOk, Local, MessageOk, InTurn, AllDone, CallOk, Executing,
         ProviderTurnAssumption
  <1>3. CallingOk' /\ MessageOk' /\ AllDone'
    BY <1>0 DEF HostedResult, Streaming, Settled, At, TypeOK, TurnType, Phase, CallingOk, Local,
       MessageOk, InTurn, AllDone, CallOk, Executing
  <1>4. ASSUME StepLimited = FALSE
        PROVE  ToolsOffered' /\ \A c \in Call : OfferedOk(c)'
    <2>0. ToolsOffered
      BY <1>4 DEF ToolInv
    <2>1. ToolsOffered'
      BY <1>0, <1>4, <2>0 DEF HostedResult, Streaming, Settled, At, TypeOK, TurnType, Phase,
         ToolsOffered, InTurn
    <2>2. ASSUME NEW c \in Call PROVE OfferedOk(c)'
      <3> TypeOK /\ CallOk(c) /\ OfferedOk(c) /\ CallingOk /\ MessageOk /\ AllDone
        BY <1>0, <1>4 DEF ToolInv
      <3> QED
        BY <1>4, <2>0 DEF HostedResult, Streaming, Settled, At, TypeOK, TurnType, Phase,
           CallingOk, Local, MessageOk, InTurn, AllDone, CallOk, Executing, OfferedOk,
           ToolsOffered
    <2> QED
      BY <2>1, <2>2
  <1> QED
    BY <1>1, <1>2, <1>3, <1>4 DEF ToolInv

LEMMA FinishToolKeeps ==
  ASSUME ProviderTurnAssumption, ToolInv, NEW d \in Call, NEW r \in {"completed", "error"}, FinishTool(d, r) PROVE ToolInv'
  <1>0. TypeOK /\ CallingOk /\ MessageOk /\ AllDone /\ \A c \in Call : CallOk(c)
    BY DEF ToolInv
  <1>1. TypeOK'
    BY <1>0 DEF FinishTool, durable, TypeOK, TurnType, Phase
  <1>2. ASSUME NEW c \in Call PROVE CallOk(c)'
    <2> TypeOK /\ CallOk(c) /\ CallingOk /\ MessageOk /\ AllDone
      BY <1>0
    <2> QED
      BY ProviderTurnAssumption DEF FinishTool, durable, TypeOK, TurnType, Phase, CallingOk, At,
         Local, MessageOk, InTurn, AllDone, CallOk, Executing, ProviderTurnAssumption
  <1>3. CallingOk' /\ MessageOk' /\ AllDone'
    BY <1>0 DEF FinishTool, durable, TypeOK, TurnType, Phase, CallingOk, At, Local, MessageOk,
       InTurn, AllDone, CallOk, Executing
  <1>4. ASSUME StepLimited = FALSE
        PROVE  ToolsOffered' /\ \A c \in Call : OfferedOk(c)'
    <2>0. ToolsOffered
      BY <1>4 DEF ToolInv
    <2>1. ToolsOffered'
      BY <1>0, <1>4, <2>0 DEF FinishTool, durable, TypeOK, TurnType, Phase, ToolsOffered, InTurn
    <2>2. ASSUME NEW c \in Call PROVE OfferedOk(c)'
      <3> TypeOK /\ CallOk(c) /\ OfferedOk(c) /\ CallingOk /\ MessageOk /\ AllDone
        BY <1>0, <1>4 DEF ToolInv
      <3> QED
        BY <1>4, <2>0 DEF FinishTool, durable, TypeOK, TurnType, Phase, CallingOk, At, Local,
           MessageOk, InTurn, AllDone, CallOk, Executing, OfferedOk, ToolsOffered
    <2> QED
      BY <2>1, <2>2
  <1> QED
    BY <1>1, <1>2, <1>3, <1>4 DEF ToolInv
------------------------------------------------------------------------------
(* Tools: the invariance theorem.                                          *)

LEMMA ToolsBegin == ASSUME ProviderTurnAssumption, Init PROVE ToolInv
  <1>1. Off \in TurnType
    BY DEF Off, TurnType, Phase
  <1>2. TypeOK
    BY <1>1 DEF Init, TypeOK, NoTool
  <1>3. CallingOk /\ MessageOk /\ AllDone /\ ToolsOffered
    BY DEF Init, Off, CallingOk, MessageOk, AllDone, ToolsOffered, At, InTurn
  <1>4. ASSUME NEW c \in Call PROVE CallOk(c) /\ OfferedOk(c)
    BY DEF Init, Off, NoTool, CallOk, OfferedOk, At, InTurn, Executing
  <1> QED
    BY <1>2, <1>3, <1>4 DEF ToolInv

LEMMA ToolStep ==
  ASSUME ProviderTurnAssumption, ToolInv, [Next]_vars PROVE ToolInv'
  <1>1. CASE UNCHANGED vars
    BY <1>1 DEF vars, durable, ToolInv, TypeOK, CallOk, CallingOk, MessageOk, AllDone,
       ToolsOffered, OfferedOk, InTurn, Executing, At
  <1>2. CASE StreamEvent
    BY <1>2, StartTextKeeps, FinishStepKeeps, ProviderErrorKeeps, OverflowKeeps, StartInputKeeps,
       CallToolKeeps, HostedDuplicateKeeps, HostedResultKeeps DEF StreamEvent
  <1>3. CASE MainStep
    BY <1>3, RecoverKeeps, RecoveredKeeps, RequestKeeps, StartToolKeeps, RefuseToolKeeps,
       EndStreamKeeps, RecoverOverflowKeeps, CloseStreamKeeps, AwaitToolsKeeps, ClearedKeeps,
       SettleKeeps, EndTurnKeeps DEF MainStep
  <1>4. CASE \E c \in Call : FiberStep(c) \/ BreakTool(c)
    BY <1>4, PublishResultKeeps, FinishToolKeeps, BreakToolKeeps DEF FiberStep
  <1> QED
    BY <1>1, <1>2, <1>3, <1>4, BeginKeeps, InterruptStreamKeeps, InterruptAwaitKeeps, StopKeeps,
       CrashKeeps DEF Next

\* The inductive invariant holds in every state a drain's provider turns reach.
THEOREM ToolInvariance == ProviderTurnAssumption => (Spec => []ToolInv)
  <1> SUFFICES ASSUME ProviderTurnAssumption PROVE Spec => []ToolInv
    OBVIOUS
  <1> QED
    BY ToolsBegin, ToolStep, PTL DEF Spec

------------------------------------------------------------------------------
(* Tools: what follows from it.                                            *)

\* What the projection, the publisher, the fibers and the turn hold has its type.
THEOREM ToolTypeCorrect == ProviderTurnAssumption => (Spec => []TypeOK)
  <1> SUFFICES ASSUME ProviderTurnAssumption PROVE Spec => []TypeOK
    OBVIOUS
  <1>1. ToolInv => TypeOK
    BY DEF ToolInv
  <1> QED
    BY <1>1, ToolInvariance, PTL

\* A tool that the conversation says is completed has executed to its end, and one
\* whose result was published is not reported as interrupted, whenever the turn,
\* its stream or the process was cut off.
THEOREM HonestResultAlways == ProviderTurnAssumption => (Spec => []HonestResult)
  <1> SUFFICES ASSUME ProviderTurnAssumption PROVE Spec => []HonestResult
    OBVIOUS
  <1>1. ToolInv => HonestResult
    BY DEF ToolInv, HonestResult, CallOk
  <1> QED
    BY <1>1, ToolInvariance, PTL

\* No fiber of a tool executes between the drains, in recovery, or while a request is
\* assembled.
THEOREM NoStrayToolAlways == ProviderTurnAssumption => (Spec => []NoStrayTool)
  <1> SUFFICES ASSUME ProviderTurnAssumption PROVE Spec => []NoStrayTool
    OBVIOUS
  <1>1. ToolInv => NoStrayTool
    BY DEF ToolInv, NoStrayTool, CallOk, Executing, InTurn, At, Alive
  <1> QED
    BY <1>1, ToolInvariance, PTL

\* Where the agent has no step limit, every call that was made has its result before
\* the next request, whatever became of the turn, drain or process that made it.  With
\* a step limit a call that was refused while its input streamed can still be made.
THEOREM ResultsBeforeRequestAlways ==
  ProviderTurnAssumption /\ StepLimited = FALSE => (Spec => []ResultsBeforeRequest)
  <1> SUFFICES ASSUME ProviderTurnAssumption, StepLimited = FALSE
               PROVE  Spec => []ResultsBeforeRequest
    OBVIOUS
  <1>1. ToolInv => ResultsBeforeRequest
    BY DEF ToolInv, ResultsBeforeRequest, CallOk, OfferedOk
  <1> QED
    BY <1>1, ToolInvariance, PTL

\* A turn that failed or was interrupted does not leave its assistant message open when
\* the drain ends.
THEOREM StepClosedAlways == ProviderTurnAssumption => (Spec => StepClosed)
  <1> SUFFICES ASSUME ProviderTurnAssumption PROVE Spec => StepClosed
    OBVIOUS
  <1>1. ASSUME ToolInv, [Next]_vars PROVE [ClosesStep]_vars
    <2> SUFFICES ASSUME At("scope"), At("off")', turn.started,
                        turn.exit \in {"failure", "interrupt"} \/ turn.settled = "interrupt"
                 PROVE  step' # "open"
      BY DEF ClosesStep
    <2>1. step # "open"
      BY <1>1 DEF ToolInv, MessageOk, At
    <2>2. UNCHANGED step
      BY <1>1 DEF Next, StreamEvent, MainStep, Begin, StartText, FinishStep, ProviderError,
         Overflow, StartInput, CallTool, HostedDuplicate, HostedResult, Recover, Recovered, Request,
         StartTool, RefuseTool, EndStream, RecoverOverflow, CloseStream, AwaitTools, Cleared,
         Settle, EndTurn, InterruptStream, InterruptAwait, Stop, Crash, FiberStep, PublishResult,
         FinishTool, BreakTool, Streaming, At, durable, vars
    <2> QED
      BY <2>1, <2>2
  <1> QED
    BY <1>1, ToolInvariance, PTL DEF Spec, StepClosed

\* What the run checks of provider turns, for any calls: results are honest, no tool
\* outlives its turn, and without a step limit no request goes out before each call
\* made has its result.
THEOREM ToolsAreHonestAlways == ProviderTurnAssumption => (Spec => []ToolsAreHonest)
  <1> SUFFICES ASSUME ProviderTurnAssumption PROVE Spec => []ToolsAreHonest
    OBVIOUS
  <1>1. ToolInv => (StepLimited \/ ResultsBeforeRequest)
    BY DEF ProviderTurnAssumption, ToolInv, ResultsBeforeRequest, CallOk, OfferedOk
  <1>2. TypeOK /\ HonestResult /\ NoStrayTool /\ (StepLimited \/ ResultsBeforeRequest)
          => ToolsAreHonest
    BY DEF ToolsAreHonest
  <1> QED
    BY <1>1, <1>2, ToolInvariance, ToolTypeCorrect, HonestResultAlways, NoStrayToolAlways, PTL

------------------------------------------------------------------------------
(* Context epochs: the inductive invariant.                                *)

\* What can be seen of a source, of the sources at once, and the update's text.
Held == UNION {Ctx!Observed(l) : l \in Locations}
Seen == UNION {[D -> Held] : D \in SUBSET Sources}
Texts == UNION {[D -> Held \cup {Removed}] : D \in SUBSET Sources}

Row == [baseline : Ctx!Snapshots, snapshot : Ctx!Snapshots, seq : Nat]
Sys == [baseline : Ctx!Snapshots, seq : Nat]
EpochTurn == [at : {"idle", "insert", "promote", "prepare", "write", "request"},
             loc : Locations, seen : Seen, stored : Row \cup {NoEpoch}, compaction : Nat,
             system : Sys \cup {NoSystem}]
LogEvent == [type : {"system"}, text : Texts] \cup [type : {"compaction", "other"}, text : {<<>>}]

\* Where history h updates source s past n; what it shows past a baseline; and where
\* it was compacted.
UpdatesPast(h, n, s) ==
  {j \in n + 1 .. Len(h) : h[j].type = "system" /\ s \in DOMAIN h[j].text}
ShownIn(h, row) ==
  [s \in Sources |-> LET i == Ctx!LatestOf(UpdatesPast(h, row.seq, s))
                     IN IF i = 0 THEN Ctx!Admitted(row.baseline)[s] ELSE h[i].text[s]]
Compactions(h) == {i \in 1..Len(h) : h[i].type = "compaction"}
LatestIn(h) == Ctx!LatestOf(Compactions(h))

\* There is a latest of S, unless S is empty.
HasLast(S) == S = {} \/ \E m \in S : \A i \in S : i <= m

\* A turn whose request is settled, perhaps before it has promoted.
Ready == turn.at = "request" \/ (turn.at = "promote" /\ turn.system # NoSystem)

CtxTyped ==
  /\ world \in [Locations -> Seen]
  /\ \A l \in Locations : \A s \in DOMAIN world[l] : world[l][s] \in Ctx!Observed(l)
  /\ location \in Locations
  /\ log \in Seq(LogEvent) /\ MaxSeq \in Nat /\ Len(log) <= MaxSeq
  /\ epoch \in Row \cup {NoEpoch} /\ turn \in EpochTurn
  /\ epoch # NoEpoch => epoch.seq <= Len(log)
  /\ turn.stored # NoEpoch => turn.stored.seq <= Len(log)
  /\ Ready => turn.system \in Sys /\ turn.system.seq <= Len(log)

\* The rows that turns read and write add up: baseline and updates are the snapshot.
Told(h, row) == ShownIn(h, row) = Ctx!Admitted(row.snapshot)

\* A turn that has read its row has read the epoch, unless it is gone since, and the
\* latest compaction.
Prepared ==
  /\ turn.at = "write" => /\ turn.stored = epoch \/ epoch = NoEpoch
                          /\ turn.stored # NoEpoch => Told(log, turn.stored)
                          /\ turn.compaction = LatestIn(log)
  /\ turn.at \notin {"write", "request"} => turn.stored = NoEpoch

\* History is finite.  Past a compaction that the epoch does not cover it has no update.
Finite(h) == HasLast(Compactions(h)) /\ \A s \in Sources : HasLast(UpdatesPast(h, 0, s))
CompactionBounds ==
  /\ Finite(log)
  /\ epoch # NoEpoch => \A c \in Compactions(log) : epoch.seq < c =>
       \A j \in c + 1 .. Len(log) : log[j].type # "system"

\* What was seen in full is what is shown.
AsSeen(seen, h, system) ==
  DOMAIN seen # {} /\ ~Ctx!InitializationBlocked(seen) =>
    \A s \in Sources : ShownIn(h, system)[s] = IF s \in DOMAIN seen THEN seen[s] ELSE Removed

Requested ==
  Ready => /\ epoch # NoEpoch => turn.system = Ctx!SystemOf(epoch)
           /\ AsSeen(turn.seen, log, turn.system)
           /\ turn.stored # NoEpoch /\ ~Ctx!InitializationBlocked(turn.seen)
                => turn.system.seq >= turn.compaction

CtxInv ==
  /\ CtxTyped
  /\ epoch # NoEpoch => Told(log, epoch)
  /\ Prepared /\ CompactionBounds /\ Requested

------------------------------------------------------------------------------
(* Context epochs: observations, snapshots and updates.                    *)

LEMMA NothingSeen == <<>> \in Seen
  <1>1. <<>> \in [{} -> Held]
    OBVIOUS
  <1> QED
    BY <1>1 DEF Seen

LEMMA GenerationType ==
  ASSUME NEW seen \in Seen
  PROVE  /\ Ctx!Generation(seen) \in Ctx!Snapshots
         /\ \A s \in Sources : Ctx!Admitted(Ctx!Generation(seen))[s] =
              IF s \in Ctx!Available(seen) THEN seen[s] ELSE Removed
  <1>1. Ctx!Available(seen) \subseteq Sources /\ \A s \in Ctx!Available(seen) : seen[s] \in Held
    BY DEF Seen, Ctx!Available
  <1>2. \A s \in Ctx!Available(seen) :
          Ctx!Entry(s, seen[s]) \in [value : Held, removable : BOOLEAN, stale : BOOLEAN]
    BY <1>1 DEF Ctx!Entry
  <1>3. Ctx!Generation(seen) \in
          [Ctx!Available(seen) -> [value : Held, removable : BOOLEAN, stale : BOOLEAN]]
    BY <1>2 DEF Ctx!Generation
  <1> QED
    BY <1>1, <1>3 DEF Ctx!Snapshots, Held, Ctx!Admitted, Ctx!Generation, Ctx!Entry

LEMMA AdvancedType ==
  ASSUME NEW seen \in Seen, NEW old \in Ctx!Snapshots
  PROVE  Ctx!Advanced(seen, old) \in Ctx!Snapshots
  <1> DEFINE Cell == [value : Held, removable : BOOLEAN, stale : BOOLEAN]
             D == Ctx!Available(seen) \cup (DOMAIN seen \cap DOMAIN old)
  <1>1. DOMAIN seen \subseteq Sources /\ \A s \in DOMAIN seen : seen[s] \in Held
    BY DEF Seen
  <1>2. \A s \in DOMAIN old : old[s] \in Cell
    BY DEF Ctx!Snapshots, Held
  <1>3. \A s \in D : (IF s \in Ctx!Changed(seen, old) THEN Ctx!Entry(s, seen[s]) ELSE old[s]) \in Cell
    BY <1>1, <1>2 DEF Ctx!Changed, Ctx!Available, Ctx!Entry
  <1>4. Ctx!Advanced(seen, old) \in [D -> Cell]
    BY <1>3 DEF Ctx!Advanced
  <1>5. D \subseteq Sources
    BY <1>1 DEF Ctx!Available
  <1> QED
    BY <1>4, <1>5 DEF Ctx!Snapshots, Held

LEMMA UpdateType ==
  ASSUME NEW seen \in Seen, NEW old \in Ctx!Snapshots
  PROVE  Ctx!Update(seen, old) \in Texts
  <1> DEFINE D == Ctx!Changed(seen, old) \cup (DOMAIN old \ DOMAIN seen)
  <1>1. DOMAIN seen \subseteq Sources /\ \A s \in DOMAIN seen : seen[s] \in Held
    BY DEF Seen
  <1>2. DOMAIN old \subseteq Sources
    BY DEF Ctx!Snapshots
  <1>3. Ctx!Update(seen, old) \in [D -> Held \cup {Removed}]
    BY <1>1 DEF Ctx!Update
  <1>4. D \in SUBSET Sources
    BY <1>1, <1>2 DEF Ctx!Changed, Ctx!Available
  <1> QED
    BY <1>3, <1>4 DEF Texts

\* An update tells exactly how the snapshot after it differs from the one before.
LEMMA UpdateTells ==
  ASSUME NEW seen \in Seen, NEW old \in Ctx!Snapshots, NEW s \in Sources
  PROVE  Ctx!Admitted(Ctx!Advanced(seen, old))[s] =
           IF s \in DOMAIN Ctx!Update(seen, old) THEN Ctx!Update(seen, old)[s]
                                                 ELSE Ctx!Admitted(old)[s]
  BY DEF Ctx!Admitted, Ctx!Advanced, Ctx!Update, Ctx!Changed, Ctx!Available, Ctx!Entry

\* With every source available, the snapshot after an update is what was seen.
LEMMA UpdateCompletes ==
  ASSUME NEW seen \in Seen, NEW old \in Ctx!Snapshots, NEW s \in Sources,
         ~Ctx!InitializationBlocked(seen)
  PROVE  Ctx!Admitted(Ctx!Advanced(seen, old))[s] = IF s \in DOMAIN seen THEN seen[s] ELSE Removed
  BY DEF Ctx!Admitted, Ctx!Advanced, Ctx!Changed, Ctx!Available, Ctx!Entry, Ctx!InitializationBlocked

LEMMA EmptyUpdate ==
  ASSUME NEW seen \in Seen, NEW old \in Ctx!Snapshots, Ctx!Update(seen, old) = <<>>, NEW s \in Sources,
         ~Ctx!InitializationBlocked(seen)
  PROVE  Ctx!Admitted(old)[s] = IF s \in DOMAIN seen THEN seen[s] ELSE Removed
  <1>1. DOMAIN Ctx!Update(seen, old) = {}
    OBVIOUS
  <1> QED
    BY <1>1, UpdateTells, UpdateCompletes
------------------------------------------------------------------------------
(* Context epochs: the history.                                            *)

LEMMA ShownIsShownIn == \A system : Ctx!Shown(system) = ShownIn(log, system)
  BY DEF Ctx!Shown, ShownIn, UpdatesPast

LEMMA LatestIsLatestIn == Ctx!LatestCompaction = LatestIn(log)
  BY DEF Ctx!LatestCompaction, LatestIn, Compactions

LEMMA LatestIsLast ==
  ASSUME NEW S \in SUBSET (Nat \ {0}), HasLast(S)
  PROVE  /\ Ctx!LatestOf(S) \in S \cup {0} /\ (Ctx!LatestOf(S) = 0 <=> S = {})
         /\ \A i \in S : i <= Ctx!LatestOf(S)
  <1>1. CASE S = {}
    BY <1>1 DEF Ctx!LatestOf
  <1>2. CASE S # {}
    <2>1. PICK m \in S : \A i \in S : i <= m
      BY <1>2 DEF HasLast
    <2>2. \A i \in S : (\A j \in S : j <= i) <=> i = m
      BY <2>1
    <2>3. Ctx!LatestOf(S) = m
      BY <1>2, <2>2 DEF Ctx!LatestOf
    <2> QED
      BY <2>1, <2>3
  <1> QED
    BY <1>1, <1>2

\* A set whose last element is known.
LEMMA LatestIs ==
  ASSUME NEW S \in SUBSET (Nat \ {0}), NEW m \in S, \A i \in S : i <= m
  PROVE  Ctx!LatestOf(S) = m
  <1>1. HasLast(S)
    BY DEF HasLast
  <1>2. Ctx!LatestOf(S) \in S /\ m <= Ctx!LatestOf(S)
    BY <1>1, LatestIsLast
  <1>3. Ctx!LatestOf(S) <= m /\ m \in Nat /\ Ctx!LatestOf(S) \in Nat
    BY <1>2
  <1> QED
    BY <1>2, <1>3

LEMMA AppendIsLast ==
  ASSUME NEW h \in Seq(LogEvent), NEW e \in LogEvent
  PROVE  /\ Append(h, e) \in Seq(LogEvent)
         /\ Len(Append(h, e)) = Len(h) + 1
         /\ Append(h, e)[Len(h) + 1] = e
         /\ \A i \in 1..Len(h) : Append(h, e)[i] = h[i]
         /\ Len(h) \in Nat
  OBVIOUS

\* What an event adds to its history.
LEMMA AppendAdds ==
  ASSUME NEW h \in Seq(LogEvent), NEW e \in LogEvent, NEW s, NEW n \in Nat, n <= Len(h)
  PROVE  /\ UpdatesPast(Append(h, e), n, s) =
              UpdatesPast(h, n, s)
              \cup (IF e.type = "system" /\ s \in DOMAIN e.text THEN {Len(h) + 1} ELSE {})
         /\ Compactions(Append(h, e)) =
              Compactions(h) \cup (IF e.type = "compaction" THEN {Len(h) + 1} ELSE {})
  <1> DEFINE g == Append(h, e)
  <1>1. Len(g) = Len(h) + 1 /\ g[Len(h) + 1] = e /\ (\A i \in 1..Len(h) : g[i] = h[i]) /\ Len(h) \in Nat
    BY AppendIsLast
  <1> HIDE DEF g
  <1>2. UpdatesPast(g, n, s) = UpdatesPast(h, n, s)
          \cup (IF e.type = "system" /\ s \in DOMAIN e.text THEN {Len(h) + 1} ELSE {})
    BY <1>1 DEF UpdatesPast
  <1>3. Compactions(g) = Compactions(h) \cup (IF e.type = "compaction" THEN {Len(h) + 1} ELSE {})
    BY <1>1 DEF Compactions
  <1> QED
    BY <1>2, <1>3 DEF g

\* A part of a history that is finite has a latest, or nothing.
LEMMA PastHasLast ==
  ASSUME NEW h \in Seq(LogEvent), Finite(h), NEW s \in Sources, NEW n \in Nat
  PROVE  HasLast(UpdatesPast(h, n, s)) /\ UpdatesPast(h, n, s) \subseteq 1..Len(h)
  <1>1. HasLast(UpdatesPast(h, 0, s)) /\ Len(h) \in Nat
    BY DEF Finite
  <1>2. UpdatesPast(h, n, s) = {j \in UpdatesPast(h, 0, s) : n < j}
    BY <1>1 DEF UpdatesPast
  <1>3. UpdatesPast(h, 0, s) \subseteq 1..Len(h)
    BY DEF UpdatesPast
  <1> QED
    BY <1>1, <1>2, <1>3 DEF HasLast

LEMMA AppendIsFinite ==
  ASSUME NEW h \in Seq(LogEvent), NEW e \in LogEvent, Finite(h)
  PROVE  Finite(Append(h, e))
  <1>1. Len(h) \in Nat /\ 0 <= Len(h) /\ Compactions(h) \subseteq 1..Len(h)
    BY DEF Compactions
  <1>2. HasLast(Compactions(Append(h, e)))
    <2>1. HasLast(Compactions(h))
      BY DEF Finite
    <2>2. Compactions(Append(h, e)) =
            Compactions(h) \cup (IF e.type = "compaction" THEN {Len(h) + 1} ELSE {})
      BY <1>1, AppendAdds, 0 \in Nat
    <2> QED
      BY <1>1, <2>1, <2>2 DEF HasLast
  <1>3. ASSUME NEW s \in Sources PROVE HasLast(UpdatesPast(Append(h, e), 0, s))
    BY <1>1, AppendAdds, HasLast(UpdatesPast(h, 0, s)), UpdatesPast(h, 0, s) \subseteq 1..Len(h), 0 \in Nat
       DEF HasLast, Finite, UpdatesPast
  <1> QED
    BY <1>2, <1>3 DEF Finite

\* What is not an update does not change what is shown.
LEMMA PlainIsNotShown ==
  ASSUME NEW h \in Seq(LogEvent), NEW e \in LogEvent, e.type # "system", Finite(h),
         NEW row, row.seq \in Nat, row.seq <= Len(h)
  PROVE  ShownIn(Append(h, e), row) = ShownIn(h, row)
  <1> DEFINE g == Append(h, e)
  <1>1. ASSUME NEW s \in Sources PROVE UpdatesPast(g, row.seq, s) = UpdatesPast(h, row.seq, s)
    <2> DEFINE n == row.seq
    <2>1. n \in Nat /\ n <= Len(h)
      OBVIOUS
    <2> HIDE DEF n
    <2>2. UpdatesPast(g, n, s) =
            UpdatesPast(h, n, s)
            \cup (IF e.type = "system" /\ s \in DOMAIN e.text THEN {Len(h) + 1} ELSE {})
      BY <2>1, AppendAdds
    <2> QED
      BY <2>2 DEF n
  <1>2. \A i \in 1..Len(h) : g[i] = h[i]
    BY AppendIsLast
  <1>3. ASSUME NEW s \in Sources
        PROVE  LET i == Ctx!LatestOf(UpdatesPast(h, row.seq, s)) IN i = 0 \/ g[i] = h[i]
    <2>1. HasLast(UpdatesPast(h, row.seq, s)) /\ UpdatesPast(h, row.seq, s) \subseteq 1..Len(h)
      BY PastHasLast
    <2>2. UpdatesPast(h, row.seq, s) \in SUBSET (Nat \ {0})
      BY <2>1
    <2> QED
      BY <2>1, <2>2, <1>2, LatestIsLast
  <1> HIDE DEF g
  <1>4. ShownIn(g, row) = ShownIn(h, row)
    BY <1>1, <1>3 DEF ShownIn
  <1> QED
    BY <1>4 DEF g

\* A system row at or past every update shows its baseline.
LEMMA BaselineIsShown ==
  ASSUME NEW h \in Seq(LogEvent), NEW row,
         \A j \in row.seq + 1 .. Len(h) : h[j].type # "system", NEW s \in Sources
  PROVE  ShownIn(h, row)[s] = Ctx!Admitted(row.baseline)[s]
  <1>1. UpdatesPast(h, row.seq, s) = {}
    BY DEF UpdatesPast
  <1> QED
    BY <1>1 DEF ShownIn, Ctx!LatestOf

\* An update is shown at once.
LEMMA UpdateIsShown ==
  ASSUME NEW h \in Seq(LogEvent), Finite(h), NEW text \in Texts,
         NEW row, row.seq \in Nat, row.seq <= Len(h), NEW s \in Sources
  PROVE  ShownIn(Append(h, [type |-> "system", text |-> text]), row)[s] =
           IF s \in DOMAIN text THEN text[s] ELSE ShownIn(h, row)[s]
  <1> DEFINE e == [type |-> "system", text |-> text]
             g == Append(h, e)
             U == UpdatesPast(h, row.seq, s)
  <1>1. e \in LogEvent
    BY DEF LogEvent
  <1>2. Len(h) \in Nat /\ g[Len(h) + 1] = e /\ \A i \in 1..Len(h) : g[i] = h[i]
    BY <1>1, AppendIsLast
  <1>3. UpdatesPast(g, row.seq, s) = U \cup (IF s \in DOMAIN text THEN {Len(h) + 1} ELSE {})
    BY <1>1, AppendAdds
  <1>4. HasLast(U) /\ U \subseteq 1..Len(h)
    BY PastHasLast
  <1>5. CASE s \in DOMAIN text
    <2>1. UpdatesPast(g, row.seq, s) \in SUBSET (Nat \ {0})
          /\ Len(h) + 1 \in UpdatesPast(g, row.seq, s)
          /\ \A i \in UpdatesPast(g, row.seq, s) : i <= Len(h) + 1
      BY <1>2, <1>3, <1>4, <1>5
    <2>2. Ctx!LatestOf(UpdatesPast(g, row.seq, s)) = Len(h) + 1
      BY <2>1, LatestIs
    <2> HIDE DEF g
    <2>3. ShownIn(g, row)[s] = g[Len(h) + 1].text[s]
      BY <2>2, <1>2 DEF ShownIn
    <2> QED
      BY <2>3, <1>2, <1>5 DEF g
  <1>6. CASE s \notin DOMAIN text
    <2>1. UpdatesPast(g, row.seq, s) = U
      BY <1>3, <1>6
    <2>2. Ctx!LatestOf(U) = 0 \/ g[Ctx!LatestOf(U)] = h[Ctx!LatestOf(U)]
      <3>1. U \in SUBSET (Nat \ {0})
        BY <1>4
      <3> QED
        BY <3>1, <1>2, <1>4, LatestIsLast
    <2> HIDE DEF g
    <2>3. ShownIn(g, row)[s] = ShownIn(h, row)[s]
      BY <2>1, <2>2 DEF ShownIn
    <2> QED
      BY <2>3, <1>6 DEF g
  <1> QED
    BY <1>5, <1>6
------------------------------------------------------------------------------
(* Context epochs: the steps.                                              *)

LEMMA EpochBegins == Ctx!ContextEpochAssumption /\ Ctx!Init => CtxInv
  <1> SUFFICES ASSUME Ctx!ContextEpochAssumption, Ctx!Init PROVE CtxInv
    OBVIOUS
  <1>1. PICK l \in Locations, v \in Values :
          location = l /\ world = [m \in Locations |-> [s \in Sources |-> <<m, v>>]]
    BY DEF Ctx!Init
  <1>2. log = <<>> /\ epoch = NoEpoch /\ turn = Ctx!Idle
    BY DEF Ctx!Init
  <1>3. \A m \in Locations : <<m, v>> \in Ctx!Observed(m) /\ Ctx!Observed(m) \subseteq Held
    BY DEF Ctx!Observed, Held
  <1>4. \A m \in Locations : world[m] \in [Sources -> Held]
    BY <1>1, <1>3
  <1>5. world \in [Locations -> Seen]
    BY <1>1, <1>4 DEF Seen
  <1>6. turn \in EpochTurn /\ ~Ready /\ turn.stored = NoEpoch /\ turn.at = "idle"
    BY <1>1, <1>2, NothingSeen DEF Ctx!Idle, EpochTurn, Ready
  <1>7. CtxTyped
    <2>1. log \in Seq(LogEvent) /\ MaxSeq \in Nat /\ Len(log) <= MaxSeq
      BY <1>2 DEF Ctx!ContextEpochAssumption
    <2>2. \A m \in Locations : \A s \in DOMAIN world[m] : world[m][s] \in Ctx!Observed(m)
      BY <1>1, <1>3
    <2> QED
      BY <1>1, <1>2, <1>5, <1>6, <2>1, <2>2 DEF CtxTyped
  <1>8. CompactionBounds
    <2>1. Compactions(log) = {} /\ \A s \in Sources : UpdatesPast(log, 0, s) = {}
      BY <1>2 DEF Compactions, UpdatesPast
    <2> QED
      BY <1>2, <2>1 DEF CompactionBounds, Finite, HasLast
  <1> QED
    BY <1>2, <1>6, <1>7, <1>8 DEF CtxInv, Prepared, Requested

LEMMA ChangeKeeps ==
  ASSUME CtxInv, NEW l \in Locations, NEW s \in Sources, Ctx!Change(l, s) PROVE CtxInv'
  <1>1. PICK o \in Ctx!Observed(l) \cup {Removed} :
          world' = [world EXCEPT ![l] =
            [t \in (DOMAIN world[l] \ {s}) \cup (IF o = Removed THEN {} ELSE {s}) |->
               IF t = s THEN o ELSE world[l][t]]]
    BY DEF Ctx!Change
  <1> DEFINE D == (DOMAIN world[l] \ {s}) \cup (IF o = Removed THEN {} ELSE {s})
             w == [t \in D |-> IF t = s THEN o ELSE world[l][t]]
  <1>2. world \in [Locations -> Seen] /\ world[l] \in Seen
        /\ \A m \in Locations : \A t \in DOMAIN world[m] : world[m][t] \in Ctx!Observed(m)
    BY DEF CtxInv, CtxTyped
  <1>3. DOMAIN world[l] \subseteq Sources /\ Ctx!Observed(l) \subseteq Held
    BY <1>2 DEF Seen, Held
  <1>4. D \subseteq Sources /\ \A t \in D : w[t] \in Ctx!Observed(l)
    BY <1>2, <1>3
  <1>5. w \in [D -> Held]
    BY <1>3, <1>4
  <1>6. w \in Seen
    BY <1>4, <1>5 DEF Seen
  <1>7. DOMAIN w = D
    OBVIOUS
  <1> HIDE DEF w, D
  <1>8. world' = [world EXCEPT ![l] = w]
    BY <1>1 DEF w, D
  <1>9. world' \in [Locations -> Seen]
        /\ \A m \in Locations : \A t \in DOMAIN world'[m] : world'[m][t] \in Ctx!Observed(m)
    BY <1>2, <1>4, <1>6, <1>7, <1>8
  <1>10. UNCHANGED <<location, log, epoch, turn>>
    BY DEF Ctx!Change
  <1>11. CtxTyped'
    BY <1>9, <1>10 DEF CtxInv, CtxTyped, Ready
  <1> QED
    BY <1>10, <1>11 DEF CtxInv, Prepared, CompactionBounds, Requested, Ready

\* A turn that stops, with or without its epoch, leaves a state that holds.
LEMMA EpochStopKeeps ==
  ASSUME CtxInv, turn' = Ctx!Idle, UNCHANGED <<world, location, log, epoch>>
  PROVE  CtxInv'
  <1>1. turn' \in EpochTurn /\ ~Ready' /\ turn'.stored = NoEpoch /\ turn'.at = "idle"
    BY NothingSeen DEF CtxInv, CtxTyped, Ctx!Idle, EpochTurn, Ready
  <1>2. CtxTyped'
    BY <1>1 DEF CtxInv, CtxTyped
  <1> QED
    BY <1>1, <1>2 DEF CtxInv, Prepared, CompactionBounds, Requested

\* What an event other than an update leaves as it was.
LEMMA PlainKeeps ==
  ASSUME CtxInv, NEW type \in {"compaction", "other"}, Ctx!Plain(type)
  PROVE  /\ log' \in Seq(LogEvent) /\ Len(log') = Len(log) + 1 /\ Len(log) \in Nat /\ Finite(log')
         /\ \A row : row.seq \in Nat /\ row.seq <= Len(log) => ShownIn(log', row) = ShownIn(log, row)
         /\ type = "other" => LatestIn(log') = LatestIn(log)
         /\ epoch # NoEpoch => \A c \in Compactions(log') : epoch.seq < c =>
              \A j \in c + 1 .. Len(log') : log'[j].type # "system"
  <1> DEFINE e == [type |-> type, text |-> <<>>]
  <1>1. log \in Seq(LogEvent) /\ Finite(log) /\ e \in LogEvent /\ log' = Append(log, e)
        /\ e.type = type /\ type # "system"
    BY DEF CtxInv, CtxTyped, CompactionBounds, Ctx!Plain, Ctx!Happens, LogEvent
  <1> HIDE DEF e
  <1>2. /\ log' \in Seq(LogEvent) /\ Len(log') = Len(log) + 1 /\ log'[Len(log) + 1] = e
        /\ (\A i \in 1..Len(log) : log'[i] = log[i]) /\ Len(log) \in Nat
    BY <1>1, AppendIsLast
  <1>3. Finite(log')
    BY <1>1, AppendIsFinite
  <1>4. \A row : row.seq \in Nat /\ row.seq <= Len(log) => ShownIn(log', row) = ShownIn(log, row)
    BY <1>1, PlainIsNotShown
  <1>5. Compactions(log') = Compactions(log) \cup (IF type = "compaction" THEN {Len(log) + 1} ELSE {})
    BY <1>1, <1>2, AppendAdds, 0 \in Nat, 0 <= Len(log)
  <1>6. type = "other" => LatestIn(log') = LatestIn(log)
    BY <1>5 DEF LatestIn
  <1>7. ASSUME epoch # NoEpoch, NEW c \in Compactions(log'), epoch.seq < c, NEW j \in c + 1 .. Len(log')
        PROVE  log'[j].type # "system"
    <2>1. CASE c \in Compactions(log)
      <3>1. c \in 1..Len(log)
        BY <2>1 DEF Compactions
      <3>2. CASE j = Len(log) + 1
        BY <3>2, <1>1, <1>2
      <3>3. CASE j # Len(log) + 1
        <4>1. j \in c + 1 .. Len(log) /\ j \in 1..Len(log)
          BY <3>1, <3>3, <1>2
        <4> QED
          BY <4>1, <2>1, <1>2, <1>7 DEF CtxInv, CompactionBounds
      <3> QED
        BY <3>2, <3>3
    <2>2. CASE c = Len(log) + 1
      BY <2>2, <1>2
    <2> QED
      BY <2>1, <2>2, <1>5
  <1> QED
    BY <1>2, <1>3, <1>4, <1>6, <1>7
LEMMA MoveKeeps == ASSUME CtxInv, NEW l \in Locations, Ctx!Move(l) PROVE CtxInv'
  <1>1. /\ location' = l /\ Ctx!Plain("other") /\ epoch' = NoEpoch /\ Len(log) < MaxSeq
        /\ UNCHANGED <<world, turn>>
    BY DEF Ctx!Move
  <1>2. /\ log' \in Seq(LogEvent) /\ Len(log') = Len(log) + 1 /\ Len(log) \in Nat /\ Finite(log')
        /\ \A row : row.seq \in Nat /\ row.seq <= Len(log) => ShownIn(log', row) = ShownIn(log, row)
        /\ LatestIn(log') = LatestIn(log)
    BY <1>1, PlainKeeps
  <1>3. CtxTyped'
    <2>1. turn \in EpochTurn /\ Len(log') <= MaxSeq /\ MaxSeq \in Nat
      BY <1>1, <1>2 DEF CtxInv, CtxTyped
    <2>2. turn.stored # NoEpoch => turn.stored.seq <= Len(log')
      BY <1>2 DEF CtxInv, CtxTyped, EpochTurn, Row
    <2>3. Ready => turn.system \in Sys /\ turn.system.seq <= Len(log')
      BY <1>2 DEF CtxInv, CtxTyped, Sys
    <2> QED
      BY <1>1, <1>2, <2>1, <2>2, <2>3 DEF CtxInv, CtxTyped, Ready
  <1>4. Prepared'
    <2>1. turn.at = "write" /\ turn.stored # NoEpoch => Told(log', turn.stored)
      BY <1>2 DEF CtxInv, CtxTyped, Prepared, Told, EpochTurn, Row
    <2> QED
      BY <1>1, <1>2, <2>1 DEF CtxInv, Prepared
  <1>5. Requested'
    <2>1. Ready => ShownIn(log', turn.system) = ShownIn(log, turn.system)
      BY <1>2 DEF CtxInv, CtxTyped, Sys
    <2> QED
      BY <1>1, <2>1 DEF CtxInv, Requested, Ready, AsSeen
  <1> QED
    BY <1>1, <1>2, <1>3, <1>4, <1>5 DEF CtxInv, CompactionBounds

LEMMA UpgradeKeeps == ASSUME CtxInv, NEW s \in Sources, Ctx!Upgrade(s) PROVE CtxInv'
  <1>1. /\ epoch # NoEpoch /\ s \in DOMAIN epoch.snapshot
        /\ epoch' = [epoch EXCEPT !.snapshot[s].stale = TRUE]
        /\ turn' = Ctx!Idle /\ UNCHANGED <<world, location, log>>
    BY DEF Ctx!Upgrade
  <1>2. epoch \in Row /\ epoch.seq <= Len(log)
    BY <1>1 DEF CtxInv, CtxTyped
  <1> DEFINE Cell == [value : Held, removable : BOOLEAN, stale : BOOLEAN]
  <1>3. PICK D \in SUBSET Sources : epoch.snapshot \in [D -> Cell]
    BY <1>2 DEF Row, Ctx!Snapshots, Held
  <1>4. epoch'.snapshot \in [D -> Cell]
    BY <1>1, <1>2, <1>3 DEF Row
  <1>5. epoch' \in Row /\ epoch'.seq = epoch.seq /\ epoch'.baseline = epoch.baseline
    <2>1. epoch'.snapshot \in Ctx!Snapshots
      BY <1>4 DEF Ctx!Snapshots, Held
    <2> HIDE DEF Cell
    <2> QED
      BY <1>1, <1>2, <2>1 DEF Row
  <1>6. Ctx!Admitted(epoch'.snapshot) = Ctx!Admitted(epoch.snapshot)
    BY <1>1, <1>2, <1>3, <1>4 DEF Row, Ctx!Admitted
  <1>7. Told(log', epoch')
    <2>1. Told(log, epoch)
      BY <1>1 DEF CtxInv
    <2>2. ShownIn(log', epoch') = ShownIn(log, epoch)
      BY <1>1, <1>5 DEF ShownIn
    <2> QED
      BY <2>1, <2>2, <1>6 DEF Told
  <1>8. turn' \in EpochTurn /\ ~Ready' /\ turn'.stored = NoEpoch /\ turn'.at = "idle"
    BY <1>1, NothingSeen DEF CtxInv, CtxTyped, Ctx!Idle, EpochTurn, Ready
  <1>9. CtxTyped'
    BY <1>1, <1>2, <1>5, <1>8 DEF CtxInv, CtxTyped
  <1>10. CompactionBounds'
    BY <1>1, <1>5 DEF CtxInv, CompactionBounds
  <1> QED
    BY <1>7, <1>8, <1>9, <1>10 DEF CtxInv, Prepared, Requested

LEMMA EpochBeginKeeps == ASSUME CtxInv, Ctx!Begin PROVE CtxInv'
  <1>1. /\ UNCHANGED <<world, location, log, epoch>>
        /\ \/ turn' = [Ctx!Idle EXCEPT !.at = "promote"]
           \/ turn' = [Ctx!Idle EXCEPT !.at = "insert", !.seen = world[location]]
    BY DEF Ctx!Begin
  <1>2. /\ turn' \in EpochTurn /\ turn'.stored = NoEpoch /\ turn'.at \in {"promote", "insert"}
        /\ turn'.system = NoSystem
    <2>1. location \in Locations /\ world[location] \in Seen
      BY DEF CtxInv, CtxTyped
    <2>2. \/ turn' = [at |-> "promote", loc |-> location, seen |-> <<>>, stored |-> NoEpoch,
                     compaction |-> 0, system |-> NoSystem]
          \/ turn' = [at |-> "insert", loc |-> location, seen |-> world[location],
                     stored |-> NoEpoch, compaction |-> 0, system |-> NoSystem]
      BY <1>1 DEF Ctx!Idle
    <2> QED
      BY <2>1, <2>2, NothingSeen DEF EpochTurn
  <1>3. ~Ready'
    BY <1>2 DEF Ready
  <1>4. CtxTyped'
    BY <1>1, <1>2, <1>3 DEF CtxInv, CtxTyped
  <1> QED
    BY <1>1, <1>2, <1>3, <1>4 DEF CtxInv, Prepared, CompactionBounds, Requested

LEMMA PromoteKeeps == ASSUME CtxInv, Ctx!Promote PROVE CtxInv'
  <1>1. /\ turn.at = "promote" /\ UNCHANGED <<world, location, epoch>>
        /\ UNCHANGED log \/ (Len(log) < MaxSeq /\ Ctx!Plain("other"))
        /\ turn' = [turn EXCEPT !.at = IF turn.system = NoSystem THEN "prepare" ELSE "request"]
    BY DEF Ctx!Promote
  <1>2. turn \in EpochTurn /\ log \in Seq(LogEvent) /\ Len(log) \in Nat /\ turn.stored = NoEpoch
    BY <1>1 DEF CtxInv, CtxTyped, Prepared
  <1>3. /\ turn' \in EpochTurn /\ turn'.at \in {"prepare", "request"} /\ turn'.stored = NoEpoch
        /\ turn'.system = turn.system /\ turn'.seen = turn.seen /\ Ready' => Ready
    BY <1>1, <1>2 DEF EpochTurn, Ready
  <1>4. /\ log' \in Seq(LogEvent) /\ Len(log') <= MaxSeq /\ Len(log) <= Len(log') /\ Finite(log')
        /\ \A row : row.seq \in Nat /\ row.seq <= Len(log) => ShownIn(log', row) = ShownIn(log, row)
        /\ epoch # NoEpoch => \A c \in Compactions(log') : epoch.seq < c =>
              \A j \in c + 1 .. Len(log') : log'[j].type # "system"
    <2>1. CASE UNCHANGED log
      BY <2>1, <1>2 DEF CtxInv, CtxTyped, CompactionBounds
    <2>2. CASE Len(log) < MaxSeq /\ Ctx!Plain("other")
      <3>1. Len(log) + 1 <= MaxSeq
        BY <2>2, <1>2 DEF CtxInv, CtxTyped
      <3> HIDE DEF CtxInv
      <3> QED
        BY <2>2, <3>1, <1>2, PlainKeeps
    <2> QED
      BY <1>1, <2>1, <2>2
  <1>5. CtxTyped'
    BY <1>1, <1>2, <1>3, <1>4 DEF CtxInv, CtxTyped, Row, Sys
  <1>6. epoch' # NoEpoch => Told(log', epoch')
    BY <1>1, <1>2, <1>4 DEF CtxInv, CtxTyped, Row, Told
  <1>7. Requested'
    <2>1. Ready => ShownIn(log', turn.system) = ShownIn(log, turn.system)
      BY <1>4 DEF CtxInv, CtxTyped, Sys
    <2> QED
      BY <1>1, <1>3, <2>1 DEF CtxInv, Requested, AsSeen
  <1> QED
    BY <1>1, <1>3, <1>4, <1>5, <1>6, <1>7 DEF CtxInv, Prepared, CompactionBounds
LEMMA LatestIsKnown ==
  ASSUME CtxInv
  PROVE  /\ LatestIn(log) \in 0..Len(log) /\ Len(log) \in Nat
         /\ LatestIn(log) # 0 => LatestIn(log) \in Compactions(log)
         /\ \A c \in Compactions(log) : c <= LatestIn(log)
  <1>1. HasLast(Compactions(log)) /\ Len(log) \in Nat /\ Compactions(log) \subseteq 1..Len(log)
    BY DEF CtxInv, CtxTyped, CompactionBounds, Finite, Compactions
  <1>2. Compactions(log) \in SUBSET (Nat \ {0})
    BY <1>1
  <1> QED
    BY <1>1, <1>2, LatestIsLast DEF LatestIn

\* A fresh row, from the latest event or a compaction not covered before, adds up.
LEMMA FreshAddsUp ==
  ASSUME CtxInv, NEW seen \in Seen, NEW n \in Nat,
         \/ n = Len(log)
         \/ n = LatestIn(log) /\ epoch # NoEpoch /\ epoch.seq < n,
         NEW row, row = [baseline |-> Ctx!Generation(seen), snapshot |-> Ctx!Generation(seen), seq |-> n]
  PROVE  /\ row \in Row /\ row.seq <= Len(log) /\ Told(log, row)
         /\ Ctx!SystemOf(row) \in Sys /\ Ctx!SystemOf(row).seq = n
         /\ AsSeen(seen, log, Ctx!SystemOf(row))
         /\ \A c \in Compactions(log) : n < c => \A j \in c + 1 .. Len(log) : log[j].type # "system"
  <1>1. /\ LatestIn(log) \in 0..Len(log) /\ Len(log) \in Nat
        /\ LatestIn(log) # 0 => LatestIn(log) \in Compactions(log)
        /\ \A c \in Compactions(log) : c <= LatestIn(log)
    BY LatestIsKnown
  <1>2. epoch # NoEpoch => epoch.seq \in Nat
    BY DEF CtxInv, CtxTyped, Row
  <1>3. \A j \in n + 1 .. Len(log) : log[j].type # "system"
    <2>1. CASE n = Len(log)
      BY <2>1, <1>1
    <2>2. CASE n = LatestIn(log) /\ epoch # NoEpoch /\ epoch.seq < n
      BY <2>2, <1>1, <1>2 DEF CtxInv, CompactionBounds
    <2> QED
      BY <2>1, <2>2
  <1>4. row \in Row /\ Ctx!SystemOf(row) \in Sys /\ Ctx!SystemOf(row).seq = n /\ row.seq = n
    BY GenerationType DEF Row, Sys, Ctx!SystemOf
  <1>5. log \in Seq(LogEvent)
    BY DEF CtxInv, CtxTyped
  <1>6. ASSUME NEW s \in Sources
        PROVE  /\ ShownIn(log, row)[s] = Ctx!Admitted(Ctx!Generation(seen))[s]
               /\ ShownIn(log, Ctx!SystemOf(row))[s] = Ctx!Admitted(Ctx!Generation(seen))[s]
    <2>1. Ctx!SystemOf(row).baseline = Ctx!Generation(seen) /\ row.baseline = Ctx!Generation(seen)
      BY DEF Ctx!SystemOf
    <2> QED
      BY <2>1, <1>3, <1>4, <1>5, BaselineIsShown
  <1>7. Told(log, row)
    BY <1>6 DEF Told, ShownIn, Ctx!Admitted
  <1>8. AsSeen(seen, log, Ctx!SystemOf(row))
    BY <1>6, GenerationType DEF AsSeen, Ctx!InitializationBlocked
  <1>9. ASSUME NEW c \in Compactions(log), n < c, NEW j \in c + 1 .. Len(log)
        PROVE  log[j].type # "system"
    BY <1>1, <1>9 DEF Compactions
  <1> QED
    BY <1>1, <1>4, <1>7, <1>8, <1>9

\* A turn that writes a fresh row.
LEMMA FreshKeeps ==
  ASSUME CtxInv, NEW n \in Nat,
         \/ n = Len(log)
         \/ n = LatestIn(log) /\ epoch # NoEpoch /\ epoch.seq < n,
         NEW row, row = [baseline |-> Ctx!Generation(turn.seen),
                         snapshot |-> Ctx!Generation(turn.seen), seq |-> n],
         NEW at \in {"promote", "request"}, at = "promote" => turn.stored = NoEpoch,
         turn.stored # NoEpoch => n >= turn.compaction,
         epoch' = row, turn' = [turn EXCEPT !.at = at, !.system = Ctx!SystemOf(row)],
         UNCHANGED <<world, location, log>>
  PROVE  CtxInv'
  <1>1. turn \in EpochTurn /\ turn.seen \in Seen
    BY DEF CtxInv, CtxTyped, EpochTurn
  <1>2. /\ row \in Row /\ row.seq <= Len(log) /\ Told(log, row)
        /\ Ctx!SystemOf(row) \in Sys /\ Ctx!SystemOf(row).seq = n
        /\ AsSeen(turn.seen, log, Ctx!SystemOf(row))
        /\ \A c \in Compactions(log) : n < c => \A j \in c + 1 .. Len(log) : log[j].type # "system"
    BY <1>1, FreshAddsUp
  <1>3. row.seq = n
    OBVIOUS
  <1>4. /\ turn' \in EpochTurn /\ turn'.at = at /\ turn'.system = Ctx!SystemOf(row)
        /\ turn'.seen = turn.seen /\ turn'.stored = turn.stored /\ turn'.compaction = turn.compaction
    BY <1>1, <1>2 DEF EpochTurn
  <1>5. CtxTyped'
    BY <1>2, <1>3, <1>4 DEF CtxInv, CtxTyped
  <1>6. Prepared'
    BY <1>4 DEF Prepared
  <1>7. CompactionBounds'
    BY <1>2, <1>3 DEF CtxInv, CompactionBounds
  <1>8. Requested'
    BY <1>2, <1>4 DEF Requested
  <1> QED
    BY <1>2, <1>5, <1>6, <1>7, <1>8 DEF CtxInv

LEMMA InitializeKeeps == ASSUME CtxInv, Ctx!Initialize PROVE CtxInv'
  <1> DEFINE row == [baseline |-> Ctx!Generation(turn.seen),
                     snapshot |-> Ctx!Generation(turn.seen), seq |-> Len(log)]
  <1>1. /\ epoch' = row /\ turn' = [turn EXCEPT !.at = "promote", !.system = Ctx!SystemOf(row)]
        /\ UNCHANGED <<world, location, log>>
    BY DEF Ctx!Initialize, Ctx!Starts
  <1>2. turn.stored = NoEpoch /\ Len(log) \in Nat
    BY DEF CtxInv, CtxTyped, Prepared, Ctx!Initialize
  <1> HIDE DEF row
  <1> QED
    BY <1>1, <1>2, FreshKeeps DEF row

LEMMA PrepareKeeps == ASSUME CtxInv, Ctx!Prepare PROVE CtxInv'
  <1>1. UNCHANGED <<world, location, log, epoch>> /\ turn.at = "prepare"
    BY DEF Ctx!Prepare
  <1>2. CASE turn' = Ctx!Idle
    BY <1>1, <1>2, EpochStopKeeps
  <1>3. CASE turn' = [turn EXCEPT !.at = "write", !.seen = world[turn.loc], !.stored = epoch,
                                  !.compaction = LatestIn(log)]
    <2>1. turn \in EpochTurn /\ world[turn.loc] \in Seen /\ epoch \in Row \cup {NoEpoch}
          /\ LatestIn(log) \in Nat
      BY LatestIsKnown DEF CtxInv, CtxTyped, EpochTurn
    <2>2. /\ turn' \in EpochTurn /\ turn'.at = "write" /\ turn'.stored = epoch
          /\ turn'.compaction = LatestIn(log) /\ ~Ready'
      BY <1>3, <2>1 DEF EpochTurn, Ready
    <2>3. CtxTyped'
      BY <1>1, <2>2 DEF CtxInv, CtxTyped
    <2> QED
      BY <1>1, <2>2, <2>3 DEF CtxInv, Prepared, CompactionBounds, Requested
  <1> QED
    BY <1>2, <1>3, LatestIsLatestIn DEF Ctx!Prepare, Ctx!Stops

LEMMA CompactKeeps == ASSUME CtxInv, Ctx!Compact PROVE CtxInv'
  <1>1. /\ Ctx!Plain("compaction") /\ turn' = Ctx!Idle /\ Len(log) < MaxSeq
        /\ UNCHANGED <<world, location, epoch>>
    BY DEF Ctx!Compact, Ctx!Stops
  <1>2. /\ log' \in Seq(LogEvent) /\ Len(log') = Len(log) + 1 /\ Len(log) \in Nat /\ Finite(log')
        /\ \A row : row.seq \in Nat /\ row.seq <= Len(log) => ShownIn(log', row) = ShownIn(log, row)
        /\ epoch # NoEpoch => \A c \in Compactions(log') : epoch.seq < c =>
             \A j \in c + 1 .. Len(log') : log'[j].type # "system"
    BY <1>1, PlainKeeps
  <1>3. turn' \in EpochTurn /\ ~Ready' /\ turn'.stored = NoEpoch /\ turn'.at = "idle"
    BY <1>1, NothingSeen DEF CtxInv, CtxTyped, Ctx!Idle, EpochTurn, Ready
  <1>4. CtxTyped'
    <2>1. Len(log') <= MaxSeq /\ MaxSeq \in Nat
      BY <1>1, <1>2 DEF CtxInv, CtxTyped
    <2>2. epoch # NoEpoch => epoch.seq <= Len(log')
      BY <1>2 DEF CtxInv, CtxTyped, Row
    <2> QED
      BY <1>1, <1>2, <1>3, <2>1, <2>2 DEF CtxInv, CtxTyped
  <1>5. epoch' # NoEpoch => Told(log', epoch')
    BY <1>1, <1>2 DEF CtxInv, CtxTyped, Row, Told
  <1> QED
    BY <1>1, <1>2, <1>3, <1>4, <1>5 DEF CtxInv, Prepared, CompactionBounds, Requested
\* A turn that keeps what it has read, unless what it has seen asks for more.
LEMMA KeepsKeeps ==
  ASSUME CtxInv, turn.at = "write", turn.stored # NoEpoch, Ctx!Keeps, UNCHANGED <<world, location>>,
         \/ Ctx!ReplacementBlocked(turn.seen, turn.stored.snapshot)
         \/ ~Ctx!Compacted /\ Ctx!Update(turn.seen, turn.stored.snapshot) = <<>>
  PROVE  CtxInv'
  <1> DEFINE row == turn.stored
             system == Ctx!SystemOf(row)
  <1>1. /\ turn' = [turn EXCEPT !.at = "request", !.system = system]
        /\ UNCHANGED <<world, location, log, epoch>>
    BY DEF Ctx!Keeps
  <1>2. /\ turn \in EpochTurn /\ row \in Row /\ row.seq <= Len(log) /\ log \in Seq(LogEvent)
        /\ epoch = row \/ epoch = NoEpoch
        /\ Told(log, row)
    BY DEF CtxInv, CtxTyped, Prepared, EpochTurn
  <1>3. system \in Sys /\ system.seq = row.seq /\ ShownIn(log, system) = ShownIn(log, row)
    BY <1>2 DEF Sys, Row, Ctx!SystemOf, ShownIn
  <1>4. /\ turn.seen \in Seen /\ row.snapshot \in Ctx!Snapshots /\ turn.compaction \in Nat
        /\ row.seq \in Nat
    BY <1>2 DEF EpochTurn, Row
  <1>5. ~Ctx!InitializationBlocked(turn.seen) =>
          ~Ctx!Compacted /\ Ctx!Update(turn.seen, row.snapshot) = <<>>
    BY DEF Ctx!InitializationBlocked, Ctx!ReplacementBlocked
  <1>6. AsSeen(turn.seen, log, system)
    <2> SUFFICES ASSUME ~Ctx!InitializationBlocked(turn.seen), NEW s \in Sources
                 PROVE  ShownIn(log, system)[s] = IF s \in DOMAIN turn.seen THEN turn.seen[s] ELSE Removed
      BY DEF AsSeen
    <2>1. Ctx!Admitted(row.snapshot)[s] = IF s \in DOMAIN turn.seen THEN turn.seen[s] ELSE Removed
      BY <1>4, <1>5, EmptyUpdate
    <2> QED
      BY <2>1, <1>2, <1>3 DEF Told
  <1>7. ~Ctx!InitializationBlocked(turn.seen) => system.seq >= turn.compaction
    BY <1>3, <1>4, <1>5 DEF Ctx!Compacted
  <1> HIDE DEF system
  <1>8. /\ turn' \in EpochTurn /\ turn'.at = "request" /\ turn'.system = system
        /\ turn'.seen = turn.seen /\ turn'.stored = row /\ turn'.compaction = turn.compaction
    BY <1>1, <1>2, <1>3 DEF EpochTurn
  <1>9. CtxTyped'
    BY <1>1, <1>2, <1>3, <1>8 DEF CtxInv, CtxTyped
  <1>10. Requested'
    BY <1>1, <1>2, <1>6, <1>7, <1>8 DEF Requested, system
  <1> QED
    BY <1>1, <1>8, <1>9, <1>10 DEF CtxInv, Prepared, CompactionBounds

LEMMA ReplaceKeeps ==
  ASSUME CtxInv, turn.at = "write", turn.stored # NoEpoch, Ctx!Replace, UNCHANGED <<world, location>>
  PROVE  CtxInv'
  <1> DEFINE n == IF Ctx!Compacted THEN turn.compaction ELSE Len(log)
             row == [baseline |-> Ctx!Generation(turn.seen),
                     snapshot |-> Ctx!Generation(turn.seen), seq |-> n]
  <1>1. /\ epoch # NoEpoch /\ epoch' = row
        /\ turn' = [turn EXCEPT !.at = "request", !.system = Ctx!SystemOf(row)]
        /\ UNCHANGED <<world, location, log>>
    BY DEF Ctx!Replace
  <1>2. /\ turn.stored = epoch /\ turn.compaction = LatestIn(log) /\ Len(log) \in Nat
        /\ epoch.seq \in Nat
    BY <1>1 DEF CtxInv, CtxTyped, Prepared, Row
  <1>3. LatestIn(log) \in 0..Len(log)
    BY LatestIsKnown
  <1>4. /\ n \in Nat /\ n >= turn.compaction
        /\ n = Len(log) \/ (n = LatestIn(log) /\ epoch # NoEpoch /\ epoch.seq < n)
    BY <1>1, <1>2, <1>3 DEF Ctx!Compacted
  <1> HIDE DEF n
  <1>5. row = [baseline |-> Ctx!Generation(turn.seen),
               snapshot |-> Ctx!Generation(turn.seen), seq |-> n]
    OBVIOUS
  <1> HIDE DEF row
  <1> QED
    BY <1>1, <1>4, <1>5, FreshKeeps

\* The update's event and the snapshot after it.
LEMMA AdvanceKeeps ==
  ASSUME CtxInv, turn.at = "write", turn.stored # NoEpoch, Ctx!Advance, ~Ctx!Compacted,
         UNCHANGED <<world, location>>
  PROVE  CtxInv'
  <1> DEFINE old == turn.stored.snapshot
             text == Ctx!Update(turn.seen, old)
             e == [type |-> "system", text |-> text]
             system == Ctx!SystemOf(turn.stored)
  <1>1. /\ epoch # NoEpoch /\ Len(log) < MaxSeq /\ log' = Append(log, e)
        /\ epoch' = [epoch EXCEPT !.snapshot = Ctx!Advanced(turn.seen, old)]
        /\ turn' = [turn EXCEPT !.at = "request", !.system = system]
    BY DEF Ctx!Advance, Ctx!Happens
  <1>2. /\ turn.stored = epoch /\ turn.compaction = LatestIn(log) /\ turn \in EpochTurn
        /\ epoch \in Row /\ epoch.seq <= Len(log) /\ log \in Seq(LogEvent) /\ Finite(log)
        /\ MaxSeq \in Nat /\ Told(log, epoch)
    BY <1>1 DEF CtxInv, CtxTyped, Prepared, CompactionBounds
  <1>3. /\ turn.seen \in Seen /\ old \in Ctx!Snapshots /\ epoch.seq \in Nat
        /\ turn.compaction \in Nat
    BY <1>2 DEF EpochTurn, Row
  <1>4. text \in Texts /\ e \in LogEvent /\ e.type = "system"
    BY <1>3, UpdateType DEF LogEvent
  <1>5. /\ log' \in Seq(LogEvent) /\ Len(log') = Len(log) + 1 /\ Len(log) \in Nat
        /\ \A i \in 1..Len(log) : log'[i] = log[i]
    BY <1>1, <1>2, <1>4, AppendIsLast
  <1>6. Finite(log') /\ Compactions(log') = Compactions(log)
    BY <1>1, <1>2, <1>4, AppendIsFinite, AppendAdds, 0 \in Nat, 0 <= Len(log)
  <1>7. \A c \in Compactions(log') : c <= epoch.seq
    <2>1. \A c \in Compactions(log) : c <= LatestIn(log) /\ c \in Nat
      BY LatestIsKnown DEF Compactions
    <2> QED
      BY <2>1, <1>2, <1>3, <1>6 DEF Ctx!Compacted
  <1>8. /\ system \in Sys /\ system.seq = epoch.seq /\ system.baseline = epoch.baseline
    BY <1>2 DEF Sys, Row, Ctx!SystemOf
  <1>9. /\ epoch' \in Row /\ epoch'.seq = epoch.seq /\ epoch'.baseline = epoch.baseline
        /\ epoch'.snapshot = Ctx!Advanced(turn.seen, old)
    BY <1>1, <1>2, <1>3, AdvancedType DEF Row
  <1>10. ASSUME NEW s \in Sources
         PROVE  /\ ShownIn(log', epoch)[s] = Ctx!Admitted(Ctx!Advanced(turn.seen, old))[s]
                /\ ShownIn(log', system) = ShownIn(log', epoch)
                /\ ShownIn(log', epoch') = ShownIn(log', epoch)
    <2>1. ShownIn(log', epoch)[s] = IF s \in DOMAIN text THEN text[s] ELSE ShownIn(log, epoch)[s]
      BY <1>1, <1>2, <1>3, <1>4, UpdateIsShown
    <2>2. ShownIn(log, epoch)[s] = Ctx!Admitted(old)[s]
      BY <1>2 DEF Told
    <2>3. ShownIn(log', epoch)[s] = Ctx!Admitted(Ctx!Advanced(turn.seen, old))[s]
      BY <2>1, <2>2, <1>3, UpdateTells
    <2> QED
      BY <2>3, <1>8, <1>9 DEF ShownIn
  <1>11. Told(log', epoch')
    BY <1>9, <1>10 DEF Told, ShownIn, Ctx!Admitted
  <1>12. AsSeen(turn.seen, log', system)
    BY <1>3, <1>10, UpdateCompletes DEF AsSeen
  <1>13. /\ turn' \in EpochTurn /\ turn'.at = "request" /\ turn'.system = system
         /\ turn'.seen = turn.seen /\ turn'.stored = turn.stored
         /\ turn'.compaction = turn.compaction
    BY <1>1, <1>2, <1>8 DEF EpochTurn
  <1>14. system.seq >= turn.compaction
    BY <1>2, <1>3, <1>8 DEF Ctx!Compacted
  <1>15. Ctx!SystemOf(epoch') = system
    BY <1>2, <1>8, <1>9 DEF Ctx!SystemOf
  <1> HIDE DEF system, text, e, old
  <1>16. CtxTyped'
    <2>1. Len(log') <= MaxSeq /\ epoch.seq <= Len(log')
      BY <1>1, <1>2, <1>3, <1>5
    <2> QED
      BY <2>1, <1>2, <1>5, <1>8, <1>9, <1>13 DEF CtxInv, CtxTyped
  <1>17. CompactionBounds'
    <2>1. \A c \in Compactions(log') : c \in Nat
      BY DEF Compactions
    <2> QED
      BY <2>1, <1>3, <1>6, <1>7, <1>9 DEF CompactionBounds
  <1>18. Requested'
    BY <1>12, <1>13, <1>14, <1>15 DEF Requested
  <1> QED
    BY <1>11, <1>13, <1>16, <1>17, <1>18 DEF CtxInv, Prepared

LEMMA DiesKeeps ==
  ASSUME CtxInv, Ctx!Dies, UNCHANGED <<world, location>> PROVE CtxInv'
  BY EpochStopKeeps DEF Ctx!Dies, Ctx!Stops

LEMMA ReconcileKeeps == ASSUME CtxInv, Ctx!Reconcile PROVE CtxInv'
  <1> DEFINE old == turn.stored.snapshot
  <1>1. turn.at = "write" /\ UNCHANGED <<world, location>>
    BY DEF Ctx!Reconcile
  <1>2. CASE turn.stored = NoEpoch
    <2> DEFINE row == [baseline |-> Ctx!Generation(turn.seen),
                       snapshot |-> Ctx!Generation(turn.seen), seq |-> Len(log)]
    <2>1. /\ epoch' = row /\ turn' = [turn EXCEPT !.at = "request", !.system = Ctx!SystemOf(row)]
          /\ UNCHANGED <<world, location, log>>
      BY <1>1, <1>2 DEF Ctx!Reconcile, Ctx!Starts
    <2>2. Len(log) \in Nat
      BY DEF CtxInv, CtxTyped
    <2> HIDE DEF row
    <2> QED
      BY <1>2, <2>1, <2>2, FreshKeeps DEF row
  <1>3. CASE turn.stored # NoEpoch /\ Ctx!Replaces /\ Ctx!ReplacementBlocked(turn.seen, old)
    <2>1. Ctx!Keeps
      BY <1>3 DEF Ctx!Reconcile
    <2> QED
      BY <1>1, <1>3, <2>1, KeepsKeeps
  <1>4. CASE turn.stored # NoEpoch /\ Ctx!Replaces /\ ~Ctx!ReplacementBlocked(turn.seen, old)
    <2>1. Ctx!Replace \/ Ctx!Dies
      BY <1>4 DEF Ctx!Reconcile
    <2> QED
      BY <1>1, <1>4, <2>1, ReplaceKeeps, DiesKeeps
  <1>5. CASE turn.stored # NoEpoch /\ ~Ctx!Replaces
    <2>1. ~Ctx!Compacted
      BY <1>5 DEF Ctx!Replaces
    <2>2. \/ Ctx!Update(turn.seen, old) = <<>> /\ Ctx!Keeps
          \/ Ctx!Advance \/ Ctx!Dies
      BY <1>5 DEF Ctx!Reconcile
    <2> QED
      BY <1>1, <1>5, <2>1, <2>2, KeepsKeeps, AdvanceKeeps, DiesKeeps
  <1> QED
    BY <1>2, <1>3, <1>4, <1>5

LEMMA EpochStep == ASSUME CtxInv, [Ctx!Next]_(Ctx!vars) PROVE CtxInv'
  <1>1. CASE UNCHANGED Ctx!vars
    BY <1>1 DEF Ctx!vars, CtxInv, CtxTyped, Prepared, CompactionBounds, Requested, Ready
  <1>2. CASE Ctx!Crash
    BY <1>2, EpochStopKeeps DEF Ctx!Crash
  <1>3. CASE Ctx!Request
    BY <1>3, EpochStopKeeps DEF Ctx!Request, Ctx!Stops
  <1> QED
    BY <1>1, <1>2, <1>3, ChangeKeeps, MoveKeeps, UpgradeKeeps, EpochBeginKeeps, InitializeKeeps,
       PromoteKeeps, PrepareKeeps, ReconcileKeeps, CompactKeeps DEF Ctx!Next

------------------------------------------------------------------------------
(* Context epochs: what follows from it.                                   *)

\* The inductive invariant holds in every state a Session's context reaches.
THEOREM ContextInvariance == Ctx!ContextEpochAssumption => (Ctx!Spec => []CtxInv)
  <1> SUFFICES ASSUME Ctx!ContextEpochAssumption PROVE Ctx!Spec => []CtxInv
    OBVIOUS
  <1> QED
    BY EpochBegins, EpochStep, PTL DEF Ctx!Spec

\* What the Locations, the history, the epoch and the turn hold has its type.
THEOREM ContextTypeCorrect == Ctx!ContextEpochAssumption => (Ctx!Spec => []Ctx!TypeOK)
  <1> SUFFICES ASSUME Ctx!ContextEpochAssumption PROVE Ctx!Spec => []Ctx!TypeOK
    OBVIOUS
  <1>1. CtxInv => Ctx!TypeOK
    <2> SUFFICES ASSUME CtxTyped PROVE Ctx!TypeOK
      BY DEF CtxInv
    <2>1. \A l \in Locations : DOMAIN world[l] \subseteq Sources
      BY DEF CtxTyped, Seen
    <2>2. \A i \in 1..Len(log) : log[i].type \in {"system", "compaction", "other"}
      <3>1. \A e \in LogEvent : e.type \in {"system", "compaction", "other"}
        BY DEF LogEvent
      <3> QED
        BY <3>1 DEF CtxTyped
    <2>3. epoch # NoEpoch => /\ epoch.baseline \in Ctx!Snapshots /\ epoch.snapshot \in Ctx!Snapshots
                             /\ epoch.seq \in 0..MaxSeq
      BY DEF CtxTyped, Row
    <2>4. turn.at \in {"idle", "insert", "promote", "prepare", "write", "request"}
      BY DEF CtxTyped, EpochTurn
    <2> QED
      BY <2>1, <2>2, <2>3, <2>4 DEF CtxTyped, Ctx!TypeOK
  <1> QED
    BY <1>1, ContextInvariance, PTL

\* What a request shows the model adds up to the snapshot that later changes are
\* compared with, through updates, removals, compactions, replacements and restarts.
THEOREM ShownIsAdmittedAlways ==
  Ctx!ContextEpochAssumption => (Ctx!Spec => []Ctx!ShownIsAdmitted)
  <1> SUFFICES ASSUME Ctx!ContextEpochAssumption PROVE Ctx!Spec => []Ctx!ShownIsAdmitted
    OBVIOUS
  <1>1. CtxInv => Ctx!ShownIsAdmitted
    <2> SUFFICES ASSUME CtxInv, turn.at = "request", epoch # NoEpoch
                 PROVE  Ctx!Shown(turn.system) = Ctx!Admitted(epoch.snapshot)
      BY DEF Ctx!ShownIsAdmitted, Ctx!InForce
    <2>1. turn.system = Ctx!SystemOf(epoch) /\ Told(log, epoch)
      BY DEF CtxInv, Requested, Ready
    <2>2. ShownIn(log, Ctx!SystemOf(epoch)) = ShownIn(log, epoch)
      BY DEF Ctx!SystemOf, ShownIn
    <2> QED
      BY <2>1, <2>2, ShownIsShownIn DEF Told
  <1> QED
    BY <1>1, ContextInvariance, PTL

\* When every source could be observed, the model is shown exactly what was observed.
THEOREM ShownIsCurrentAlways ==
  Ctx!ContextEpochAssumption => (Ctx!Spec => []Ctx!ShownIsCurrent)
  <1> SUFFICES ASSUME Ctx!ContextEpochAssumption PROVE Ctx!Spec => []Ctx!ShownIsCurrent
    OBVIOUS
  <1>1. CtxInv => Ctx!ShownIsCurrent
    BY ShownIsShownIn DEF CtxInv, Requested, Ready, AsSeen, Ctx!ShownIsCurrent
  <1> QED
    BY <1>1, ContextInvariance, PTL

\* A completed compaction is followed by a fresh baseline as soon as the context is
\* complete.
THEOREM FreshAfterCompactionAlways ==
  Ctx!ContextEpochAssumption => (Ctx!Spec => []Ctx!FreshAfterCompaction)
  <1> SUFFICES ASSUME Ctx!ContextEpochAssumption PROVE Ctx!Spec => []Ctx!FreshAfterCompaction
    OBVIOUS
  <1>1. CtxInv => Ctx!FreshAfterCompaction
    BY DEF CtxInv, Requested, Ready, Ctx!FreshAfterCompaction
  <1> QED
    BY <1>1, ContextInvariance, PTL

\* What the run checks of context epochs, for any sources, values and Locations: what
\* the model is shown is what later changes are compared with, is current, and is
\* fresh after a compaction.
THEOREM ContextIsShownAlways == Ctx!ContextEpochAssumption => (Ctx!Spec => []Ctx!ContextIsShown)
  <1> SUFFICES ASSUME Ctx!ContextEpochAssumption PROVE Ctx!Spec => []Ctx!ContextIsShown
    OBVIOUS
  <1>1. Ctx!TypeOK /\ Ctx!ShownIsAdmitted /\ Ctx!ShownIsCurrent /\ Ctx!FreshAfterCompaction
          => Ctx!ContextIsShown
    BY DEF Ctx!ContextIsShown
  <1> QED
    BY <1>1, ContextTypeCorrect, ShownIsAdmittedAlways, ShownIsCurrentAlways,
       FreshAfterCompactionAlways, PTL

==============================================================================
