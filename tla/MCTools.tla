------------------------------- MODULE MCTools -------------------------------
(* What the tools of a turn go through, on small instances: permission asks
   (PermissionAsk) and the servers whose tools are called (McpConnection). The
   two share no state: the run checks the disjoint union of the instances, one of
   which is chosen at the start. *)
CONSTANT Instances  \* the instances to check

VARIABLES instance, lock,
          policy, saved, grants, pc, out, pending, deferred, client,
          asked, told, answered, mute,
          enabled, conns, health, routed, wires, op, call

askVars == <<policy, saved, grants, pc, out, pending, deferred, client,
             asked, told, answered, mute>>
mcpVars == <<enabled, conns, health, routed, wires, op, call>>
vars == <<instance, lock, askVars, mcpVars>>

-----------------------------------------------------------------------------
(* The instances. *)

\* Two requests of one Session; of two Sessions; one request and two clients that
\* answer it. All ask for the same kind of thing.
Asks == INSTANCE PermissionAsk WITH
          Session <- {"s1"}, Kind <- {"k1"}, Request <- {"r1", "r2"},
          SessionOf <- [r \in {"r1", "r2"} |-> "s1"],
          KindOf <- [r \in {"r1", "r2"} |-> "k1"], Client <- {"c1"}
Sessions == INSTANCE PermissionAsk WITH
              Session <- {"s1", "s2"}, Kind <- {"k1"}, Request <- {"r1", "r2"},
              SessionOf <- [r \in {"r1", "r2"} |-> IF r = "r1" THEN "s1" ELSE "s2"],
              KindOf <- [r \in {"r1", "r2"} |-> "k1"], Client <- {"c1"}
Rivals == INSTANCE PermissionAsk WITH
            Session <- {"s1"}, Kind <- {"k1"}, Request <- {"r1"},
            SessionOf <- [r \in {"r1"} |-> "s1"], KindOf <- [r \in {"r1"} |-> "k1"],
            Client <- {"c1", "c2"}

\* A child's pipes; HTTP; each again with one fiber, for its calls: HTTP without a
\* credential to wait for, and a child.
Child == INSTANCE McpConnection WITH
           Ops <- {"o1", "o2"}, Calls <- {"k1"}, Wires <- {"w1", "w2"},
           NoWire <- "none", NoOp <- "none",
           Remote <- FALSE, Credentialed <- TRUE, CutSpawns <- FALSE
Http == INSTANCE McpConnection WITH
          Ops <- {"o1", "o2"}, Calls <- {"k1"}, Wires <- {"w1", "w2"},
          NoWire <- "none", NoOp <- "none",
          Remote <- TRUE, Credentialed <- TRUE, CutSpawns <- FALSE

Posts == INSTANCE McpConnection WITH
           Ops <- {"o1"}, Calls <- {"k1"}, Wires <- {"w1", "w2"},
           NoWire <- "none", NoOp <- "none",
           Remote <- TRUE, Credentialed <- FALSE, CutSpawns <- FALSE

Calls == INSTANCE McpConnection WITH
           Ops <- {"o1"}, Calls <- {"k1"}, Wires <- {"w1", "w2"},
           NoWire <- "none", NoOp <- "none",
           Remote <- FALSE, Credentialed <- TRUE, CutSpawns <- FALSE

ASSUME ToolsAssumption ==
  /\ Instances \subseteq {"asks", "sessions", "rivals", "child", "http", "calls", "posts"}
  /\ Asks!AskAssumption /\ Sessions!AskAssumption /\ Rivals!AskAssumption
  /\ Child!McpAssumption /\ Http!McpAssumption
  /\ Calls!McpAssumption /\ Posts!McpAssumption

-----------------------------------------------------------------------------
(* What is not of the chosen instance is off. *)

AsksOff == /\ policy = "off" /\ saved = "off" /\ grants = "off" /\ pc = "off" /\ out = "off"
           /\ pending = "off" /\ deferred = "off" /\ client = "off" /\ asked = "off"
           /\ told = "off" /\ answered = "off" /\ mute = "off"
ServerOff == /\ enabled = "off" /\ conns = "off" /\ health = "off" /\ routed = "off"
             /\ wires = "off" /\ op = "off" /\ call = "off"

Init ==
  /\ instance \in Instances
  /\ \/ /\ \/ instance = "asks" /\ Asks!Init
           \/ instance = "sessions" /\ Sessions!Init
           \/ instance = "rivals" /\ Rivals!Init
        /\ ServerOff
     \/ /\ \/ instance = "child" /\ Child!Init
           \/ instance = "http" /\ Http!Init
           \/ instance = "calls" /\ Calls!Init
           \/ instance = "posts" /\ Posts!Init
        /\ AsksOff

InAsks(i)   == instance = i /\ UNCHANGED <<instance, mcpVars>>
InServer(i) == instance = i /\ UNCHANGED <<instance, askVars>>

Next ==
  \/ \E r \in {"r1", "r2"} : InAsks("asks") /\ Asks!CallSteps(r)
  \/ \E r \in {"r1", "r2"} : InAsks("asks") /\ Asks!LockSteps(r)
  \/ \E r \in {"r1", "r2"} : InAsks("asks") /\ Asks!Interrupted(r)
  \/ InAsks("asks") /\ Asks!Send("c1")
  \/ InAsks("asks") /\ Asks!Enter("c1")
  \/ InAsks("asks") /\ Asks!Decides("c1")
  \/ InAsks("asks") /\ Asks!GoesAway("c1")
  \/ InAsks("asks") /\ Asks!Unsave("k1")
  \/ InAsks("asks") /\ \E g \in grants : Asks!revoke(g)
  \/ InAsks("sessions") /\ Sessions!Next
  \/ InAsks("rivals") /\ Rivals!Next

  \/ InServer("child") /\ Child!Shutdown
  \/ InServer("child") /\ Child!Refused
  \/ InServer("child") /\ Child!Toggle
  \/ \E o \in {"o1", "o2"} : InServer("child") /\ Child!Connect(o)
  \/ \E o \in {"o1", "o2"} : InServer("child") /\ Child!Admit(o)
  \/ \E o \in {"o1", "o2"} : InServer("child") /\ Child!Handshake(o)
  \/ \E o \in {"o1", "o2"} : InServer("child") /\ Child!Notified(o)
  \/ \E o \in {"o1", "o2"} : InServer("child") /\ Child!Interrupt(o)
  \/ \E o \in {"o1", "o2"} : InServer("child") /\ Child!Disconnect(o)
  \/ \E o \in {"o1", "o2"} : InServer("child") /\ Child!CloseServer(o)
  \/ InServer("child") /\ Child!CallTool("k1")
  \/ InServer("child") /\ Child!Answers("k1")
  \/ InServer("child") /\ Child!CallInterrupted("k1")
  \/ \E w \in {"w1", "w2"} : InServer("child") /\ Child!PipeDies(w)
  \/ InServer("http") /\ Http!Next
  \/ InServer("calls") /\ Calls!Next
  \/ InServer("posts") /\ Posts!Next

\* The fairness of PermissionAsk and McpConnection, for the instances WaitsEnd is
\* about. Both queue fibers at a semaphore, which serves those that wait in turn;
\* the strong fairness of the one that WaitsEnd looks at is enough.
Served ==
  \/ InAsks("asks") /\ Asks!LockSteps("r1")
  \/ InServer("child") /\ (Child!Admit("o1") \/ Child!CloseServer("o1"))

Fairness ==
  /\ SF_vars(Served)
  /\ WF_vars(InAsks("asks") /\ Asks!CallSteps("r1"))
  /\ WF_vars(InAsks("asks") /\ Asks!Decides("c1"))
  /\ \A o \in {"o1", "o2"} : /\ WF_vars(InServer("child") /\ Child!Handshake(o))
                             /\ WF_vars(InServer("child") /\ Child!Notified(o))
  /\ WF_vars(InServer("calls") /\ Calls!Answers("k1"))
  /\ WF_vars(InServer("posts") /\ Posts!Answers("k1"))

Spec == Init /\ [][Next]_vars /\ Fairness

-----------------------------------------------------------------------------
(* Properties; each part is stated and explained in its component's module. *)

\* An ask ends once, in what its clients are told, by an answer or a grant that is
\* its own, whatever races of answers, timeouts, withdrawals and revocations.
AsksAreClosedOnce ==
  /\ instance = "asks" => Asks!AsksAreClosedOnce
  /\ instance = "sessions" => Sessions!AsksAreClosedOnce
  /\ instance = "rivals" => Rivals!AsksAreClosedOnce

\* A connection that is open is the one its server is reached by, or is being built
\* by whoever holds the lock, and what facts() shows of it is true.
ServersAreOwned ==
  /\ instance = "child" => Child!ServersAreOwned
  /\ instance = "http" => Http!ServersAreOwned
  /\ instance = "calls" => Calls!ServersAreOwned
  /\ instance = "posts" => Posts!ServersAreOwned

\* An ask that was announced ends and its end is announced, unless that publication
\* fails.  A connect or disconnect of a child gets the lock and ends.  A call ends when
\* its server answers, its child dies or its connection is closed under it: over a
\* child's pipes, and over HTTP when there is no credential to wait for.  (What waits
\* for ever is CallsEnd over HTTP with a credential, connection.ts:690, and
\* DisconnectEnds of a remote server, 887.)
WaitsEnd ==
  (\/ instance = "asks" /\ "r1" \in asked
   \/ instance = "child" /\ op["o1"].at # "idle"
   \/ instance \in {"calls", "posts"} /\ call["k1"].at # "idle")
  ~>
  (\/ instance = "asks" /\ pc["r1"] = "done" /\ (told["r1"] # <<>> \/ "r1" \in mute)
   \/ instance = "child" /\ op["o1"].at = "idle"
   \/ instance \in {"calls", "posts"} /\ call["k1"].at = "idle")
=============================================================================
