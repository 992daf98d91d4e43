------------------------------ MODULE Reminder ------------------------------
(***************************************************************************)
(* Reminders: session/schedule-service.ts over SchedulerCore, with the     *)
(* reminder_create, reminder_update and reminder_cancel tools beside it.   *)
(*                                                                         *)
(* A delivery claims the row, writes the inbox record and settles the row  *)
(* in one transaction, which is one step here; it may fail as a whole, and *)
(* then the row is read and written again, in two further steps, to back   *)
(* off.  (A row never stays "running": only the manual claim API, which    *)
(* nothing calls, commits that status.)                                    *)
(*                                                                         *)
(* Times are small numbers; the last one stands for itself and for all     *)
(* that come later, so that a back-off never leaves the range.             *)
(***************************************************************************)
EXTENDS SchedulerCore, Naturals, FiniteSets

CONSTANTS Contents,     \* what a reminder says
          Editors,      \* reminder_update calls that may run at the same time
          MaxTime,      \* bound: the last moment
          MaxAttempts,  \* MAX_DELIVERY_ATTEMPTS
          MaxEdits,     \* bound: updates
          MaxFaults,    \* bound: delivery transactions that fail
          MaxDeaths,    \* bound: defects beside them
          MaxCrashes    \* bound: ends of the process

ReminderAssumption ==
    /\ MaxTime \in Nat \ {0} /\ MaxAttempts \in Nat \ {0}
    /\ MaxEdits \in Nat /\ MaxFaults \in Nat /\ MaxDeaths \in Nat
    /\ MaxCrashes \in Nat

VARIABLES now,     \* the clock
          at,      \* the moment the running tick was given (0 between two)
          row,     \* reminder -> its row
          inbox,   \* the delivery records
          marked,  \* the rows a startup found overdue, not delivered since (recovered)
          read,    \* the row as the failure path has read it
          edit,    \* editor -> the update it makes and the row it has read
          edits,   \* updates so far
          faults,  \* failed transactions so far
          deaths,  \* other defects so far
          crashes, \* ends of the process so far
          fresh,   \* reminders no delivery was tried of since their last due time
          tries,   \* reminder -> deliveries of it that failed
          overdue  \* reminders found overdue at startup and not rescheduled since

dataVars == <<now, at, row, inbox, marked, read, edit, edits, faults, deaths, crashes>>
ghosts == <<fresh, tries, overdue>>
vars == <<coreVars, dataVars, ghosts>>

Times == 0 .. MaxTime
Terminal == {"completed", "failed", "cancelled"}

\* The idempotency key of a reminder that says c and is due at t.
Key(c, t) == <<c, t>>

RowType ==
    [status : {"absent", "pending"} \cup Terminal, content : Contents, due : Times,
     next : Times \cup {None}, attempts : 0 .. MaxAttempts - 1, key : Contents \X Times]

TypeOK ==
    /\ CoreTypeOK(Times)
    /\ now \in Times /\ at \in Times
    /\ row \in [Rows -> RowType]
    /\ \A d \in inbox : d.id \in Rows /\ d.key \in Contents \X Times /\ d.at \in Times
    /\ marked \subseteq Rows
    /\ read \in RowType \cup {None}
    /\ \A e \in Editors : edit[e] = None \/ edit[e].id \in Rows
    /\ edits \in 0 .. MaxEdits /\ faults \in 0 .. MaxFaults
    /\ deaths \in 0 .. MaxDeaths /\ crashes \in 0 .. MaxCrashes
    /\ fresh \subseteq Rows /\ overdue \subseteq Rows
    /\ tries \in [Rows -> 0 .. MaxFaults]

Init ==
    /\ CoreInit
    /\ now = 0 /\ at = 0
    /\ \E c \in Contents :
          row = [r \in Rows |-> [status |-> "absent", content |-> c, due |-> 0,
                                 next |-> None, attempts |-> 0, key |-> Key(c, 0)]]
    /\ inbox = {} /\ marked = {}
    /\ read = None
    /\ edit = [e \in Editors |-> None]
    /\ edits = 0 /\ faults = 0 /\ deaths = 0 /\ crashes = 0
    /\ fresh = {} /\ overdue = {}
    /\ tries = [r \in Rows |-> 0]

Exists(r) == row[r].status # "absent"
Pending == {r \in Rows : row[r].status = "pending"}

\* The unique index on the key: no row but r has it.
KeyFree(r, k) == \A q \in Rows \ {r} : Exists(q) => row[q].key # k

-----------------------------------------------------------------------------
(* The daemon's start.                                                     *)

Start == Boot /\ UNCHANGED <<dataVars, ghosts>>

Overdue == {r \in Pending : row[r].due < now \/ (row[r].next # None /\ row[r].next < now)}

\* markCatchUp: what the downtime kept from being delivered.
Sweep ==
    /\ Swept
    /\ marked' = marked \cup Overdue
    /\ overdue' = Overdue
    /\ UNCHANGED <<now, at, row, inbox, read, edit, edits, faults, deaths, crashes, fresh, tries>>

\* scan: a pending row runs when its next attempt or, before any, itself is due.
Armed ==
    [r \in Rows |-> IF r \notin Pending THEN None
                    ELSE IF row[r].next # None THEN row[r].next ELSE row[r].due]

StartArm == StartScan(Armed, {}) /\ UNCHANGED <<dataVars, ghosts>>
Fork == Forked /\ UNCHANGED <<dataVars, ghosts>>

-----------------------------------------------------------------------------
(* The minute cycle and the re-arm fiber.                                  *)

ArmScan == Scan(Armed) /\ UNCHANGED <<dataVars, ghosts>>
ArmInstall == Install /\ UNCHANGED <<dataVars, ghosts>>

TickDue ==
    /\ Tick({r \in Rows : queue[r] # None /\ queue[r] <= now})
    /\ at' = now
    /\ UNCHANGED <<now, row, inbox, marked, read, edit, edits, faults, deaths, crashes, ghosts>>

TriggerReminder(r) == Trigger(r) /\ UNCHANGED <<dataVars, ghosts>>

\* The row is no longer pending: nothing is delivered.
Skip ==
    /\ stage = "check"
    /\ current \notin Pending
    /\ Triggered
    /\ UNCHANGED <<queue, minute, todo, signal, event, dataVars, ghosts>>

Record(r) ==
    [id |-> r, key |-> row[r].key, at |-> at, due |-> row[r].due,
     caughtUp |-> r \in marked, late |-> r \in overdue]

\* The transaction: claim, insert unless the key is there, settle.  It looks
\* at the row's status; it does not look at when the row is due.
Deliver ==
    /\ stage = "check"
    /\ current \in Pending
    /\ row' = [row EXCEPT ![current].status = "completed"]
    /\ inbox' = IF \E d \in inbox : d.key = row[current].key
                THEN inbox ELSE inbox \cup {Record(current)}
    /\ marked' = marked \ {current}
    /\ fresh' = fresh \ {current}
    /\ Goes("deliver")
    /\ UNCHANGED <<queue, minute, todo, signal, event, now, at, read, edit, edits,
                   faults, deaths, crashes, tries, overdue>>

\* The delivery, or the back-off, and the new state of the table are announced.
Published ==
    /\ stage = "deliver"
    /\ Signalled
    /\ Triggered
    /\ UNCHANGED <<queue, minute, todo, event, dataVars, ghosts>>

\* The transaction fails and is rolled back, except for the catch-up mark,
\* which lives in memory: it may be taken off by then.
Fail ==
    /\ stage = "check"
    /\ current \in Pending
    /\ faults < MaxFaults
    /\ faults' = faults + 1
    /\ marked' \in {marked, marked \ {current}}
    /\ fresh' = fresh \ {current}
    /\ tries' = [tries EXCEPT ![current] = @ + 1]
    /\ Goes("failed")
    /\ UNCHANGED <<queue, minute, todo, signal, event, now, at, row, inbox, read, edit,
                   edits, deaths, crashes, overdue>>

\* The failure path reads the row ...
ReadFailed ==
    /\ stage = "failed"
    /\ read = None
    /\ read' = row[current]
    /\ UNCHANGED <<stage, current, queue, minute, todo, signal, event, now, at, row, inbox,
                   marked, edit, edits, faults, deaths, crashes, ghosts>>

\* backoff: 1, 2, 4, ... minutes; here, moments, of which the last stands for all
\* that come later.
Retry(attempts) ==
    LET t == at + 2 ^ (attempts - 1) IN IF t \in Times THEN t ELSE MaxTime

\* ... and writes it: failed past the limit, unless it was cancelled
\* meanwhile; before that, one more attempt and when, whatever the row is now.
BackOff ==
    LET attempts == read.attempts + 1 IN
    /\ stage = "failed"
    /\ read # None
    /\ row' = IF attempts >= MaxAttempts
              THEN [row EXCEPT ![current].status =
                       IF current \in Pending THEN "failed" ELSE @]
              ELSE [row EXCEPT ![current].attempts = attempts,
                               ![current].next = Retry(attempts)]
    /\ read' = None
    /\ Goes("deliver")
    /\ UNCHANGED <<queue, minute, todo, signal, event, now, at, inbox, marked, edit, edits,
                   faults, deaths, crashes, ghosts>>

Sleep ==
    /\ Slept
    /\ at' = 0
    /\ UNCHANGED <<now, row, inbox, marked, read, edit, edits, faults, deaths, crashes, ghosts>>
EventArm == EventScan(Armed) /\ UNCHANGED <<dataVars, ghosts>>
EventArmed == EventInstall /\ UNCHANGED <<dataVars, ghosts>>

\* A scan, the failure path or an announcement dies: the arm, or the tick, ends.
Dies ==
    /\ deaths < MaxDeaths
    /\ deaths' = deaths + 1
    /\ \/ (StartDied \/ ArmDied \/ EventDied) /\ UNCHANGED read
       \/ /\ stage \in {"failed", "deliver"}
          /\ TickDied
          /\ read' = None
          /\ UNCHANGED <<queue, minute, signal, event>>
    /\ UNCHANGED <<now, at, row, inbox, marked, edit, edits, faults, crashes, ghosts>>

-----------------------------------------------------------------------------
(* The tools, which Sessions call once the process has started.  Their     *)
(* events may be published where the daemon does not listen.               *)

Heard == Signalled \/ UNCHANGED signal

Create(r, c, t) ==
    /\ Running
    /\ ~Exists(r)
    /\ t > now
    /\ KeyFree(r, Key(c, t))
    /\ row' = [row EXCEPT ![r] = [status |-> "pending", content |-> c, due |-> t,
                                  next |-> None, attempts |-> 0, key |-> Key(c, t)]]
    /\ fresh' = fresh \cup {r}
    /\ Heard
    /\ UNCHANGED <<stage, queue, minute, todo, current, event, now, at, inbox, marked,
                   read, edit, edits, faults, deaths, crashes, tries, overdue>>

\* reminder_update reads the row, for the parts it is not to change.
EditReads(e, r, c, t) ==
    /\ Running
    /\ edits < MaxEdits
    /\ edits' = edits + 1
    /\ edit[e] = None
    /\ Exists(r)
    /\ (t # None => t > now)
    /\ edit' = [edit EXCEPT ![e] =
                   [id |-> r, content |-> c, due |-> t,
                    key |-> Key(IF c = None THEN row[r].content ELSE c,
                                IF t = None THEN row[r].due ELSE t),
                    moves |-> None]]
    /\ UNCHANGED <<coreVars, now, at, row, inbox, marked, read, faults, deaths, crashes, ghosts>>

\* update reads the row itself, to see whether the due time is another ...
EditChecks(e) ==
    LET u == edit[e] IN
    /\ u # None
    /\ u.moves = None
    /\ edit' = [edit EXCEPT ![e] =
                   IF u.id \in Pending
                   THEN [u EXCEPT !.moves = u.due # None /\ u.due # row[u.id].due]
                   ELSE None]
    /\ UNCHANGED <<coreVars, now, at, row, inbox, marked, read, edits, faults, deaths, crashes,
                   ghosts>>

\* ... and writes it: a row that is still pending takes the new parts and the
\* new key; a new due time starts its retries anew.  A key that another row has
\* fails it.
EditApplies(e) ==
    LET u == edit[e]
        another == u.due # None /\ u.due # row[u.id].due
    IN
    /\ u # None
    /\ u.moves # None
    /\ edit' = [edit EXCEPT ![e] = None]
    /\ IF u.id \in Pending /\ KeyFree(u.id, u.key)
       THEN /\ row' = [row EXCEPT
                 ![u.id].content = IF u.content = None THEN @ ELSE u.content,
                 ![u.id].due = IF u.due = None THEN @ ELSE u.due,
                 ![u.id].key = u.key,
                 ![u.id].next = IF u.moves THEN None ELSE @,
                 ![u.id].attempts = IF u.moves THEN 0 ELSE @]
            /\ fresh' = IF another THEN fresh \cup {u.id} ELSE fresh
            /\ overdue' = IF another THEN overdue \ {u.id} ELSE overdue
            /\ Heard
       ELSE UNCHANGED <<row, fresh, overdue, signal>>
    /\ UNCHANGED <<stage, queue, minute, todo, current, event, now, at, inbox, marked,
                   read, edits, faults, deaths, crashes, tries>>

Cancel(r) ==
    /\ Running
    /\ r \in Pending
    /\ row' = [row EXCEPT ![r].status = "cancelled"]
    /\ Heard
    /\ UNCHANGED <<stage, queue, minute, todo, current, event, now, at, inbox, marked,
                   read, edit, edits, faults, deaths, crashes, ghosts>>

-----------------------------------------------------------------------------
ClockTurns ==
    /\ now < MaxTime
    /\ now' = now + 1
    /\ UNCHANGED <<coreVars, at, row, inbox, marked, read, edit, edits, faults, deaths, crashes,
                   ghosts>>

Crash ==
    /\ crashes < MaxCrashes
    /\ crashes' = crashes + 1
    /\ Ends
    /\ marked' = {}
    /\ overdue' = {}
    /\ at' = 0
    /\ read' = None
    /\ edit' = [e \in Editors |-> None]
    /\ UNCHANGED <<now, row, inbox, edits, faults, deaths, fresh, tries>>

Delivery == Skip \/ Deliver \/ Published \/ Fail \/ ReadFailed \/ BackOff

Daemon ==
    \/ Start \/ Sweep \/ StartArm \/ Fork
    \/ ArmScan \/ ArmInstall \/ TickDue \/ Sleep
    \/ \E r \in Rows : TriggerReminder(r)
    \/ Delivery

Rearming == EventArm \/ EventArmed

Tools ==
    \/ \E r \in Rows, c \in Contents, t \in Times : Create(r, c, t)
    \/ \E e \in Editors, r \in Rows, c \in Contents \cup {None}, t \in Times \cup {None} :
          (c # None \/ t # None) /\ EditReads(e, r, c, t)
    \/ \E e \in Editors : EditChecks(e) \/ EditApplies(e)
    \/ \E r \in Rows : Cancel(r)

Next == Daemon \/ Rearming \/ Tools \/ ClockTurns \/ Dies \/ Crash

Spec == Init /\ [][Next]_vars

\* The process is started again, its fibers go on and time passes.
FairSpec == Spec /\ WF_vars(Daemon) /\ WF_vars(Rearming) /\ WF_vars(ClockTurns)

-----------------------------------------------------------------------------
(* Properties.                                                             *)

DeliveriesOf(r) == {d \in inbox : d.id = r}

\* Exactly once: a reminder is in the inbox once when its row is completed and
\* not at all otherwise, so a cancelled one is never delivered, through failed
\* transactions, edits of its key and restarts.  (schedule-service.ts:17, 694)
ExactlyOnce ==
    \A r \in Rows :
        Cardinality(DeliveriesOf(r)) = IF row[r].status = "completed" THEN 1 ELSE 0

\* A reminder is given up only after as many failed deliveries as the limit
\* says.  (schedule-service.ts:609)
GivesUpLate == \A r \in Rows : row[r].status = "failed" => tries[r] >= MaxAttempts

\* A reminder is delivered exactly once, and given up only after the limit.
HappensOnce == TypeOK /\ ExactlyOnce /\ GivesUpLate

IsDue(r) == r \in Pending /\ row[r].due <= now

\* A reminder that is due does not stay pending for ever: it is delivered,
\* given up or put off by its user.  (schedule-service.ts:599)
DueIsSettled == \A r \in Rows : []<>~IsDue(r)

\* A reminder is not delivered before it is due.  (reminder-create.ts: "It will
\* be delivered to your inbox when due.")
NeverEarly == \A d \in inbox : d.due <= d.at

\* A new due time starts a new delivery timeline: until a delivery is tried
\* again no retry state is left.  (schedule-service.ts:137)
FreshTimeline ==
    \A r \in fresh :
        /\ row[r].attempts = 0 /\ row[r].next = None
        /\ row[r].status # "failed"

\* What a downtime kept from being delivered is delivered as caught up, once
\* the daemon runs again.  (schedule-service.ts:663)
CatchUpIsMarked == \A d \in inbox : d.late => d.caughtUp

\* The key of a pending reminder is that of what it says and when it is due.
\* (schedule-service.ts:286)
KeyIsOwn == \A r \in Pending : row[r].key = Key(row[r].content, row[r].due)
=============================================================================
