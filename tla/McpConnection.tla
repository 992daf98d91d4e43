--------------------------- MODULE McpConnection ---------------------------
(* The connections to one MCP server as mcp/connection.ts owns them: connect,
   disconnect and shutdown, the health of the server, and the calls of its
   tools. Servers share nothing but the kill switch, so one stands for all.

   A connect goes through admission (which awaits the credential), the spawn,
   the handshake of three messages and the registration of the tools; each
   await is a step boundary. Closing a connection (it leaves the map, its calls
   fail, its scope closes and its child is gone) is one step. The server may answer, fail, die or keep silent. *)
EXTENDS Naturals

CONSTANTS Ops,          \* fibers that connect and disconnect
          Calls,        \* fibers that call a tool of the server
          Wires,        \* connections; an id is reused when nothing refers to it
          NoWire, NoOp,
          Remote,       \* the transport: HTTP requests, or a child's pipes
          Credentialed, \* the binding carries a credentialRef
          CutSpawns     \* a connect may be interrupted while it spawns

McpAssumption ==
  /\ NoWire \notin Wires
  /\ NoOp \notin Ops
  /\ {Remote, Credentialed, CutSpawns} \subseteq BOOLEAN

VARIABLES enabled,  \* ProductModePolicy.isCustomModeEnabled()
          lock,     \* who holds the server's connectLock
          conns,    \* conns.get(server)
          health,   \* health.get(server)
          routed,   \* routes knows the server's tools
          wires,    \* each connection: its scope, whether the pipe is dead
                    \* (stdio), whether it publishes tools, its health
          op,       \* each managing fiber: where it is, the connection it builds
          call      \* each call: where it is, the connection it read from conns

vars == <<enabled, lock, conns, health, routed, wires, op, call>>

Health == {"connecting", "ready", "degraded", "offline", "auth-required", "revoked"}

TypeOK ==
  /\ enabled \in BOOLEAN /\ routed \in BOOLEAN
  /\ lock \in Ops \cup {NoOp}
  /\ conns \in Wires \cup {NoWire}
  /\ health \in Health \cup {"none"}
  /\ wires \in [Wires -> [scope : {"open", "closed"}, dead : BOOLEAN,
                          tools : BOOLEAN, health : Health]]
  /\ op \in [Ops -> [at : {"idle", "connect", "disconnect", "admit", "spawn",
                           "initialize", "notify", "list", "register"},
                     wire : Wires \cup {NoWire}]]
  /\ call \in [Calls -> [at : {"idle", "resolve", "waiting", "unserved"},
                         wire : Wires \cup {NoWire}]]

Init ==
  /\ enabled = TRUE /\ routed = FALSE
  /\ lock = NoOp /\ conns = NoWire /\ health = "none"
  /\ wires = [w \in Wires |-> [scope |-> "closed", dead |-> TRUE,
                               tools |-> FALSE, health |-> "offline"]]
  /\ op = [o \in Ops |-> [at |-> "idle", wire |-> NoWire]]
  /\ call = [c \in Calls |-> [at |-> "idle", wire |-> NoWire]]

-----------------------------------------------------------------------------
(* Health. *)

\* transitionHealth: which changes are allowed.
MayBecome(from, to, rebound) ==
  \/ from = "connecting"
  \/ from = "ready"
  \/ from = "degraded" /\ to \in {"connecting", "ready", "offline"}
  \/ from \in {"offline", "auth-required"} /\ to = "connecting"
  \/ from = "revoked" /\ to = "connecting" /\ rebound

\* What setHealth leaves behind: a change that is not allowed fails.
Recorded(to) ==
  IF health \in {"none", to} \/ MayBecome(health, to, health = "revoked")
  THEN to ELSE health

\* setHealth also writes the copy of the connection in conns, if there is one.
Shown(to) ==
  IF conns # NoWire /\ Recorded(to) = to
  THEN [wires EXCEPT ![conns].health = to] ELSE wires

Observe(to) == health' = Recorded(to) /\ wires' = Shown(to)

-----------------------------------------------------------------------------
(* Closing. *)

\* killConn on the connections ws: the one in conns has its pending requests
\* failed and its scope closed, which ends its child and unregisters its tools.
Closed(ws) ==
  IF conns = NoWire THEN ws
  ELSE [ws EXCEPT ![conns].scope = "closed", ![conns].dead = TRUE]

\* shutdown, which takes no lock.
Shutdown == /\ conns # NoWire
            /\ wires' = Closed(wires) /\ conns' = NoWire
            /\ UNCHANGED <<enabled, lock, health, routed, op, call>>

\* With the flag off, connect and callTool shut down and are refused.
Refused == ~enabled /\ Shutdown

\* Whoever runs the process changes the flag; nothing watches it.
Toggle == /\ enabled' = ~enabled
          /\ UNCHANGED <<lock, conns, health, routed, wires, op, call>>

-----------------------------------------------------------------------------
(* connect and disconnect. *)

Moved(o, at) == op' = [op EXCEPT ![o].at = at]
Ended(o) == op' = [op EXCEPT ![o] = [at |-> "idle", wire |-> NoWire]]

Connect(o) ==
  /\ enabled /\ op[o].at = "idle"
  /\ Moved(o, "connect")
  /\ UNCHANGED <<enabled, lock, conns, health, routed, wires, call>>

\* Mutant: connects are not serialised.
AdmitUnlocked(o) ==
  /\ op[o].at = "connect"
  /\ lock' = o /\ Moved(o, "admit")
  /\ UNCHANGED <<enabled, conns, health, routed, wires, call>>

Admit(o) ==
  /\ op[o].at = "connect" /\ lock = NoOp
  /\ lock' = o /\ Moved(o, "admit")
  /\ UNCHANGED <<enabled, conns, health, routed, wires, call>>

\* The binding is invalid or its credential belongs to another Location, which
\* records no health; or the credential is missing, expired or revoked.
NotAdmitted(o) ==
  /\ op[o].at = "admit"
  /\ Ended(o) /\ lock' = NoOp
  /\ \/ UNCHANGED <<health, wires>>
     \/ Credentialed /\ \E to \in {"auth-required", "revoked"} : Observe(to)
  /\ UNCHANGED <<enabled, conns, routed, call>>

Unused(w) == /\ w # conns /\ wires[w].scope = "closed"
             /\ \A o \in Ops : op[o].wire # w
             /\ \A c \in Calls : call[c].wire # w

Fresh == [scope |-> "open", dead |-> FALSE, tools |-> FALSE, health |-> "connecting"]

\* An existing connection is closed and a scope made for the new one. A child is
\* then spawned; building a remote connection awaits nothing. Every health may
\* become connecting, a revoked one because this counts as its rebinding.
Prepare(o) ==
  /\ op[o].at = "admit"
  /\ health' = Recorded("connecting")
  /\ \E w \in Wires :
       /\ Unused(w)
       /\ wires' = [Closed(wires) EXCEPT ![w] = Fresh]
       /\ conns' = IF Remote THEN w ELSE NoWire
       /\ op' = [op EXCEPT ![o] = [at |-> IF Remote THEN "initialize" ELSE "spawn",
                                   wire |-> w]]
  /\ UNCHANGED <<enabled, lock, routed, call>>

Spawned(o) ==
  /\ op[o].at = "spawn"
  /\ conns' = op[o].wire /\ Moved(o, "initialize")
  /\ UNCHANGED <<enabled, lock, health, routed, wires, call>>

SpawnFails(o) ==
  /\ op[o].at = "spawn"
  /\ health' = Recorded("offline")
  /\ wires' = [wires EXCEPT ![op[o].wire].scope = "closed", ![op[o].wire].dead = TRUE]
  /\ Ended(o) /\ lock' = NoOp
  /\ UNCHANGED <<enabled, conns, routed, call>>

\* The server answers initialize or tools/list. A request on a closed remote
\* connection is forked into a closed scope and never sent.
Answered(o) ==
  /\ op[o].at \in {"initialize", "list"}
  /\ ~wires[op[o].wire].dead
  /\ Moved(o, IF op[o].at = "initialize" THEN "notify" ELSE "register")
  /\ UNCHANGED <<enabled, lock, conns, health, routed, wires, call>>

\* notifications/initialized has been written, or posted: its failure is
\* ignored, and nothing bounds the wait for the server's response.
Notified(o) ==
  /\ op[o].at = "notify"
  /\ Moved(o, "list")
  /\ UNCHANGED <<enabled, lock, conns, health, routed, wires, call>>

\* A request fails or its time is up, the tools collide with others, or ready is
\* refused: the health is recorded and the connection killed.
HandshakeFails(o) ==
  /\ op[o].at \in {"initialize", "list", "register"}
  /\ \E to \in {"offline"} \cup (IF Remote THEN {"auth-required"} ELSE {}) :
       health' = Recorded(to) /\ wires' = Closed(Shown(to))
  /\ conns' = NoWire
  /\ Ended(o) /\ lock' = NoOp
  /\ UNCHANGED <<enabled, routed, call>>

\* The tools are registered on the connection's scope and published, and the
\* server becomes ready, if its health still allows that.
Register(o) ==
  /\ op[o].at = "register"
  /\ Recorded("ready") = "ready"
  /\ health' = "ready" /\ routed' = TRUE
  /\ wires' = [wires EXCEPT ![op[o].wire].tools = TRUE, ![op[o].wire].health = "ready"]
  /\ Ended(o) /\ lock' = NoOp
  /\ UNCHANGED <<enabled, conns, call>>

\* Mutant: an interrupt keeps the lock.
InterruptHolds(o) ==
  /\ op[o].at # "idle"
  /\ op[o].at = "spawn" => CutSpawns
  /\ Ended(o)
  /\ IF op[o].at \in {"initialize", "notify", "list", "register"}
     THEN wires' = Closed(wires) /\ conns' = NoWire
     ELSE UNCHANGED <<wires, conns>>
  /\ UNCHANGED <<enabled, lock, health, routed, call>>

\* The caller is interrupted. From conns.set on, onError kills the connection;
\* before, nothing closes the scope of a child that is being spawned.
Interrupt(o) ==
  /\ op[o].at # "idle"
  /\ op[o].at = "spawn" => CutSpawns
  /\ Ended(o)
  /\ lock' = IF lock = o THEN NoOp ELSE lock
  /\ IF op[o].at \in {"initialize", "notify", "list", "register"}
     THEN wires' = Closed(wires) /\ conns' = NoWire
     ELSE UNCHANGED <<wires, conns>>
  /\ UNCHANGED <<enabled, health, routed, call>>

Disconnect(o) ==
  /\ op[o].at = "idle"
  /\ Moved(o, "disconnect")
  /\ UNCHANGED <<enabled, lock, conns, health, routed, wires, call>>

\* With the lock: a server that has a health is closed and forgotten.
CloseServer(o) ==
  /\ op[o].at = "disconnect" /\ lock = NoOp
  /\ IF health = "none" THEN UNCHANGED <<wires, conns, health>>
     ELSE wires' = Closed(wires) /\ conns' = NoWire /\ health' = "none"
  /\ Ended(o)
  /\ UNCHANGED <<enabled, lock, routed, call>>

-----------------------------------------------------------------------------
(* callTool. *)

Returns(c) == call' = [call EXCEPT ![c] = [at |-> "idle", wire |-> NoWire]]

\* wire.request: on a dead pipe it fails at once, which is recorded; in a closed
\* scope the fiber that would complete it is interrupted before it starts.
Send(c, w) ==
  IF ~Remote /\ wires[w].dead
  THEN Returns(c) /\ Observe("offline")
  ELSE /\ call' = [call EXCEPT ![c] =
              [at |-> IF wires[w].scope = "open" THEN "waiting" ELSE "unserved", wire |-> w]]
       /\ UNCHANGED <<health, wires>>

\* Through the connection that conns holds now; what a connection was admitted
\* with is known to it once its tools are published.
CallTool(c) ==
  /\ enabled /\ routed
  /\ call[c].at = "idle" /\ conns # NoWire
  /\ IF Credentialed /\ wires[conns].tools
     THEN /\ call' = [call EXCEPT ![c] = [at |-> "resolve", wire |-> conns]]
          /\ UNCHANGED <<health, wires>>
     ELSE Send(c, conns)
  /\ UNCHANGED <<enabled, lock, conns, routed, op>>

\* The credential is valid, or it is not: missing, expired, revoked, or of
\* another Location.
Resolved(c) ==
  /\ call[c].at = "resolve"
  /\ \/ Send(c, call[c].wire)
     \/ Returns(c) /\ \E to \in {"auth-required", "revoked"} : Observe(to)
     \/ Returns(c) /\ UNCHANGED <<health, wires>>
  /\ UNCHANGED <<enabled, lock, conns, routed, op>>

Result(c) ==
  /\ call[c].at = "waiting" /\ ~wires[call[c].wire].dead
  /\ Returns(c)
  /\ UNCHANGED <<enabled, lock, conns, health, routed, wires, op>>

\* The server answers with an error (degraded), a remote one with a status.
ErrorResult(c) ==
  /\ call[c].at = "waiting" /\ ~wires[call[c].wire].dead
  /\ Returns(c)
  /\ \E to \in {"degraded"} \cup (IF Remote THEN {"offline", "auth-required"} ELSE {}) :
       Observe(to)
  /\ UNCHANGED <<enabled, lock, conns, routed, op>>

\* The connection was closed under the call (offline), or the pipe died
\* (offline) or was garbled (degraded).
CallCut(c) ==
  /\ call[c].at = "waiting" /\ wires[call[c].wire].dead
  /\ Returns(c)
  /\ \E to \in {"offline"} \cup (IF Remote THEN {} ELSE {"degraded"}) : Observe(to)
  /\ UNCHANGED <<enabled, lock, conns, routed, op>>

CallInterrupted(c) ==
  /\ call[c].at # "idle"
  /\ Returns(c)
  /\ UNCHANGED <<enabled, lock, conns, health, routed, wires, op>>

\* failAll: the child exits or writes a malformed frame. Pending requests fail,
\* the connection stays.
PipeDies(w) ==
  /\ ~Remote /\ wires[w].scope = "open" /\ ~wires[w].dead
  /\ wires' = [wires EXCEPT ![w].dead = TRUE]
  /\ UNCHANGED <<enabled, lock, conns, health, routed, op, call>>

-----------------------------------------------------------------------------

Handshake(o) ==
  Prepare(o) \/ NotAdmitted(o) \/ Spawned(o) \/ SpawnFails(o) \/ Answered(o)
    \/ HandshakeFails(o) \/ Register(o)
Answers(c) == Resolved(c) \/ Result(c) \/ ErrorResult(c) \/ CallCut(c)

Next ==
  \/ Shutdown \/ Refused \/ Toggle
  \/ \E o \in Ops : \/ Connect(o) \/ Admit(o) \/ Handshake(o) \/ Notified(o)
                    \/ Interrupt(o) \/ Disconnect(o) \/ CloseServer(o)
  \/ \E c \in Calls : CallTool(c) \/ Answers(c) \/ CallInterrupted(c)
  \/ \E w \in Wires : PipeDies(w)

Spec == Init /\ [][Next]_vars

\* The semaphore is first come, first served; requests of the handshake are
\* bounded in time; a notification into a pipe is written, while nothing makes
\* a remote server respond to one; servers answer calls.
FairSpec ==
  /\ Spec
  /\ \A o \in Ops : /\ SF_vars(Admit(o)) /\ SF_vars(CloseServer(o))
                    /\ WF_vars(Handshake(o))
                    /\ WF_vars(~Remote /\ Notified(o))
  /\ \A c \in Calls : WF_vars(Answers(c))

-----------------------------------------------------------------------------
(* Properties. *)

\* A connection whose scope is open, so a child that runs, is the one callers
\* and disconnect can reach, or is being built by the fiber that has the lock:
\* the orphan that the lock is there to prevent (connection.ts:421) and
\* that an interrupt must not leave behind.
NoOrphan ==
  \A w \in Wires : wires[w].scope = "open" =>
    w = conns \/ \E o \in Ops : lock = o /\ op[o].wire = w

\* facts() never lists tools that are no longer registered, and shows the health
\* that health() shows, although closing, connecting and calls change them
\* through different paths.
FactsHonest ==
  conns # NoWire /\ wires[conns].tools =>
    wires[conns].scope = "open" /\ wires[conns].health = health

\* A connection that is open is the one its server is reached by, or is being built
\* by whoever holds the lock, unless an interrupt may cut a spawn; and what facts()
\* shows of it is true.
ServersAreOwned == TypeOK /\ FactsHonest /\ (CutSpawns \/ NoOrphan)

\* Every connect and disconnect comes to an end: nobody waits for the lock for
\* ever, whatever the server does (connection.ts:952-957).
OpsEnd == \A o \in Ops : op[o].at # "idle" ~> op[o].at = "idle"

\* Every call ends when its server answers or its connection is closed under it,
\* in whatever order the credential, the closing and the request come.  (Over HTTP
\* and with a credential it need not: connection.ts:690.)
CallsEnd == \A c \in Calls : call[c].at # "idle" ~> call[c].at = "idle"

\* "The wait is bounded by the handshake timeout" (connection.ts:956): a
\* disconnect gets the lock and ends.
DisconnectEnds == \A o \in Ops : op[o].at = "disconnect" ~> op[o].at = "idle"

\* Health is the "projection of one owned connection" (connection.ts:206): a
\* call that resolved its credential while its connection was replaced, and
\* finds the old pipe dead, does not take the new connection's health away.
HealthIsOwn ==
  [][\A c \in Calls :
       call[c].at = "resolve" /\ call'[c].at = "idle" /\ health' = "offline" =>
         health = "offline" \/ conns \in {NoWire, call[c].wire}]_vars
=============================================================================
