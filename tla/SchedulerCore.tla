--------------------------- MODULE SchedulerCore ---------------------------
(***************************************************************************)
(* The loop that the two schedulers share (session/schedule-core.ts):      *)
(* scheduled Work jobs (JobScheduler) and reminders (Reminder).            *)
(*                                                                         *)
(* Two fibers arm the queue, that is, rebuild it from the owner's table:   *)
(* the minute cycle, which also triggers what is due, one row after the    *)
(* other, and the fiber that answers the table's update events.  A scan    *)
(* awaits the database, so what a fiber installs may be older than the     *)
(* table, and older than what the other fiber has installed meanwhile.     *)
(*                                                                         *)
(* A defect (a read or a write of the database that dies) is contained:    *)
(* the arm or the tick it strikes ends there and the fiber goes on with    *)
(* the next.                                                               *)
(*                                                                         *)
(* The rows, their times and what a trigger does belong to the owner: it   *)
(* passes in the queue a scan yields and the set of rows that are due.     *)
(***************************************************************************)
CONSTANTS Rows,   \* the rows of the owner's table
          None    \* "no value"

VARIABLES stage,    \* where the daemon (its start, then its minute cycle) stands
          queue,    \* row -> when it runs next, or None
          minute,   \* the queue the daemon's own scan yielded, not yet installed
          todo,     \* the rows still to be recovered, or to be triggered
          current,  \* the row being triggered
          signal,   \* some update event has not been taken up yet
          event     \* the queue the re-arm fiber's scan yielded

coreVars == <<stage, queue, minute, todo, current, signal, event>>

Nothing == [r \in Rows |-> None]
Starting == {"sweep", "start", "recover"}
Cycle == {"arm", "install", "tick", "trigger", "check", "gate", "claim", "run",
          "settle", "rearm", "deliver", "failed"}

\* The daemon runs: it is past its startup and both of its fibers are forked.
Running == stage \in Cycle

CoreTypeOK(Runs) ==
    LET Queues == [Rows -> Runs \cup {None}] IN
    /\ stage \in {"off"} \cup Starting \cup Cycle
    /\ queue \in Queues
    /\ minute = None \/ minute \in Queues
    /\ event = None \/ event \in Queues
    /\ todo \subseteq Rows
    /\ current \in Rows \cup {None}
    /\ signal \in BOOLEAN

CoreInit ==
    /\ stage = "off"
    /\ queue = Nothing
    /\ minute = None
    /\ event = None
    /\ todo = {}
    /\ current = None
    /\ signal = FALSE

-----------------------------------------------------------------------------
(* Startup: a sweep, then an arm that also recovers stale claims.          *)

Boot ==
    /\ stage = "off"
    /\ stage' = "sweep"
    /\ UNCHANGED <<queue, minute, todo, current, signal, event>>

Swept ==
    /\ stage = "sweep"
    /\ stage' = "start"
    /\ UNCHANGED <<queue, minute, todo, current, signal, event>>

\* The startup arm's scan: the queue takes the stale rows as pending.
StartScan(next, stale) ==
    /\ stage = "start"
    /\ stage' = "recover"
    /\ minute' = next
    /\ todo' = stale
    /\ UNCHANGED <<queue, current, signal, event>>

\* The startup arm hands the claim of row r, left by a dead process, back.
Recovered(r) ==
    /\ stage = "recover"
    /\ r \in todo
    /\ todo' = todo \ {r}
    /\ UNCHANGED <<stage, queue, minute, current, signal, event>>

\* The startup arm ends and the two fibers are forked: only from here on is
\* an update event heard.
Forked ==
    /\ stage = "recover"
    /\ todo = {}
    /\ queue' = minute
    /\ minute' = None
    /\ stage' = "arm"
    /\ UNCHANGED <<todo, current, signal, event>>

\* The startup arm dies: what it has not recovered stays as it is, and the two
\* fibers start with the empty queue.
StartDied ==
    /\ stage \in {"start", "recover"}
    /\ stage' = "arm"
    /\ minute' = None
    /\ todo' = {}
    /\ UNCHANGED <<queue, current, signal, event>>

-----------------------------------------------------------------------------
(* The minute cycle: arm, then tick.                                       *)

Scan(next) ==
    /\ stage = "arm"
    /\ minute' = next
    /\ stage' = "install"
    /\ UNCHANGED <<queue, todo, current, signal, event>>

Install ==
    /\ stage = "install"
    /\ queue' = minute
    /\ minute' = None
    /\ stage' = "tick"
    /\ UNCHANGED <<todo, current, signal, event>>

\* The arm of the cycle dies: the tick goes by the queue that is there.
ArmDied ==
    /\ stage = "arm"
    /\ stage' = "tick"
    /\ UNCHANGED <<queue, minute, todo, current, signal, event>>

\* tick takes the rows whose run has come: those, and no later ones.
Tick(due) ==
    /\ stage = "tick"
    /\ todo' = due
    /\ stage' = "trigger"
    /\ UNCHANGED <<queue, minute, current, signal, event>>

Trigger(r) ==
    /\ stage = "trigger"
    /\ r \in todo
    /\ todo' = todo \ {r}
    /\ queue' = [queue EXCEPT ![r] = None]
    /\ current' = r
    /\ stage' = "check"
    /\ UNCHANGED <<minute, signal, event>>

\* The trigger of the current row goes on to stage s.
Goes(s) == stage' = s /\ UNCHANGED current

\* The trigger of the current row ends; the next due row follows.
Triggered == stage' = "trigger" /\ current' = None

\* The tick dies: the rows it has not come to wait for the next arm.
TickDied == stage' = "trigger" /\ current' = None /\ todo' = {}

\* Nothing is due any more: the fiber sleeps for a minute and arms again.
Slept ==
    /\ stage = "trigger"
    /\ todo = {}
    /\ stage' = "arm"
    /\ UNCHANGED <<queue, minute, todo, current, signal, event>>

-----------------------------------------------------------------------------
(* The fiber that arms on every update event.                              *)

\* The next event is taken up; there may be more behind it, each with an arm
\* of its own.
EventScan(next) ==
    /\ Running
    /\ signal
    /\ event = None
    /\ event' = next
    /\ signal' \in BOOLEAN
    /\ UNCHANGED <<stage, queue, minute, todo, current>>

EventDied ==
    /\ Running
    /\ signal
    /\ event = None
    /\ signal' \in BOOLEAN
    /\ UNCHANGED <<stage, queue, minute, todo, current, event>>

EventInstall ==
    /\ event # None
    /\ queue' = event
    /\ event' = None
    /\ UNCHANGED <<stage, minute, todo, current, signal>>

\* A write published the table's update event; before the fork nobody hears it.
Signalled == signal' = (signal \/ Running)

\* The process ends, with everything that was only in memory.
Ends ==
    /\ stage # "off"
    /\ stage' = "off"
    /\ queue' = Nothing
    /\ minute' = None
    /\ event' = None
    /\ todo' = {}
    /\ current' = None
    /\ signal' = FALSE
=============================================================================
