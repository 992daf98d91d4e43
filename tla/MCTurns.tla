------------------------------- MODULE MCTurns -------------------------------
(* A provider turn, on small instances: its tools (ProviderTurn) and its system
   context (ContextEpoch). The two share no state, so that their interleavings
   add nothing: the run checks the disjoint union of the instances, one of which
   is chosen at the start. *)
CONSTANTS Instances,                             \* the instances to check
          Unavailable, Removed, NoEpoch, NoSystem

VARIABLES instance,
          state, step, tool, fiber, turn, outcome,
          world, location, log, epoch

toolVars == <<state, step, tool, fiber, outcome>>
epochVars == <<world, location, log, epoch>>
vars == <<instance, turn, toolVars, epochVars>>

-----------------------------------------------------------------------------
(* The instances. *)

\* Two local tools and one the provider executes; fewer, and a step limit.
Tools   == INSTANCE ProviderTurn WITH
             Call <- {"c1", "c2", "h1"}, Hosted <- {"h1"}, StepLimited <- FALSE
Limited == INSTANCE ProviderTurn WITH
             Call <- {"c1", "h1"}, Hosted <- {"h1"}, StepLimited <- TRUE

\* Two sources, one that can render its removal; one source at two Locations.
Epoch == INSTANCE ContextEpoch WITH
           Sources <- {"s1", "s2"}, Removable <- {"s1"},
           Locations <- {"here"}, Values <- {"v1"}, MaxSeq <- 2
Moved == INSTANCE ContextEpoch WITH
           Sources <- {"s1"}, Removable <- {"s1"},
           Locations <- {"here", "there"}, Values <- {"v1", "v2"}, MaxSeq <- 2

ASSUME TurnsAssumption ==
  /\ Instances \subseteq {"tools", "limited", "epoch", "moved"}
  /\ Tools!ProviderTurnAssumption /\ Limited!ProviderTurnAssumption
  /\ Epoch!ContextEpochAssumption /\ Moved!ContextEpochAssumption

-----------------------------------------------------------------------------
(* What is not of the chosen instance is off. *)

ToolsOff == state = "off" /\ step = "off" /\ tool = "off" /\ fiber = "off" /\ outcome = "off"
EpochOff == world = "off" /\ location = "off" /\ log = "off" /\ epoch = "off"

Init ==
  /\ instance \in Instances
  /\ \/ /\ \/ instance = "tools" /\ Tools!Init
           \/ instance = "limited" /\ Limited!Init
        /\ EpochOff
     \/ /\ \/ instance = "epoch" /\ Epoch!Init
           \/ instance = "moved" /\ Moved!Init
        /\ ToolsOff

InTools(i) == instance = i /\ UNCHANGED <<instance, epochVars>>
InEpoch(i) == instance = i /\ UNCHANGED <<instance, toolVars>>

Next ==
  \/ InTools("tools") /\ Tools!Begin
  \/ InTools("tools") /\ Tools!StreamEvent
  \/ InTools("tools") /\ Tools!MainStep
  \/ InTools("tools") /\ Tools!InterruptStream
  \/ InTools("tools") /\ Tools!InterruptAwait
  \/ InTools("tools") /\ Tools!Stop
  \/ InTools("tools") /\ Tools!Crash
  \/ \E c \in {"c1", "c2"} : InTools("tools") /\ Tools!FiberStep(c)
  \/ \E c \in {"c1", "c2"} : InTools("tools") /\ Tools!BreakTool(c)
  \/ InTools("limited") /\ Limited!Begin
  \/ InTools("limited") /\ Limited!StreamEvent
  \/ InTools("limited") /\ Limited!MainStep
  \/ InTools("limited") /\ Limited!InterruptStream
  \/ InTools("limited") /\ Limited!InterruptAwait
  \/ InTools("limited") /\ Limited!Stop
  \/ InTools("limited") /\ Limited!Crash
  \/ InTools("limited") /\ Limited!FiberStep("c1")
  \/ InTools("limited") /\ Limited!BreakTool("c1")

  \/ \E s \in {"s1", "s2"} : InEpoch("epoch") /\ Epoch!Change("here", s)
  \/ \E s \in {"s1", "s2"} : InEpoch("epoch") /\ Epoch!Upgrade(s)
  \/ InEpoch("epoch") /\ Epoch!Crash
  \/ InEpoch("epoch") /\ Epoch!Begin
  \/ InEpoch("epoch") /\ Epoch!Initialize
  \/ InEpoch("epoch") /\ Epoch!Promote
  \/ InEpoch("epoch") /\ Epoch!Prepare
  \/ InEpoch("epoch") /\ Epoch!Reconcile
  \/ InEpoch("epoch") /\ Epoch!Request
  \/ InEpoch("epoch") /\ Epoch!Compact
  \/ InEpoch("moved") /\ Moved!Next

\* The fairness of ProviderTurn, for the instance with a step limit.
Spec ==
  /\ Init /\ [][Next]_vars
  /\ WF_vars(InTools("limited") /\ Limited!MainStep)
  /\ \A c \in {"c1", "h1"} : WF_vars(InTools("limited") /\ Limited!FiberStep(c))

-----------------------------------------------------------------------------
(* Properties; each part is stated and explained in its component's module. *)

\* Whatever order stream events, tools, failures and interrupts come in, the
\* conversation tells the model what its tools did, before every request, and no
\* tool outlives its turn.
ToolsAreHonest ==
  /\ instance = "tools" => Tools!ToolsAreHonest
  /\ instance = "limited" => Limited!ToolsAreHonest

\* The context shown to the model is the one later changes are compared with, and
\* is current, through updates, compactions, replacements, moves and restarts.
ContextIsShown ==
  /\ instance = "epoch" => Epoch!ContextIsShown
  /\ instance = "moved" => Moved!ContextIsShown

\* A turn that streams comes to its end, and the drain with it or on to its next
\* request, whatever its tools do and whenever they are interrupted; and one that
\* fails or is interrupted does not leave its assistant message open.
TurnEnds ==
  /\ [][instance = "limited" => Limited!ClosesStep]_vars
  /\ (instance = "limited" /\ Limited!At("stream"))
       ~> (instance = "limited" /\ (Limited!At("request") \/ Limited!At("off")))
=============================================================================
