---------------------------- MODULE JobScheduler ----------------------------
(***************************************************************************)
(* The scheduler of Work tasks: session/scheduled-job.ts over              *)
(* SchedulerCore, with the task rows of session/task.ts, the operations of *)
(* the task_schedule tool (pause, resume, remove) and the task list writes *)
(* (update) beside it, which may replace a row's schedule and dependencies *)
(* as well as its status, whatever the scheduler is doing with the row.    *)
(*                                                                         *)
(* Time is what the code compares: a one-shot job's moment has come or     *)
(* not; a recurring job's next cron match, as of the moment it was         *)
(* computed, lies ahead ("later") and then has come ("due").  nextRun      *)
(* looks strictly after the moment it is given, so whoever arms a          *)
(* recurring row always gets "later".  An entry of a queue whose row's     *)
(* schedule was replaced after the scan keeps the moment it has: one that  *)
(* nothing else knows any more, still ahead ("former") or not ("past").    *)
(*                                                                         *)
(* A task write is one step: they hold one process-wide lock.  An update   *)
(* of the list is modelled as the writes of its rows, one by one.          *)
(***************************************************************************)
EXTENDS SchedulerCore, Naturals, FiniteSets

CONSTANTS Once,       \* rows that begin with a one-shot moment
          Cron,       \* rows that begin with an enabled recurrence
          DependsOn,  \* row -> the rows it depends on at the beginning
          MaxWrites,  \* bound: pauses, resumes, removals and edits
          MaxFaults,  \* bound: reads and writes of the scheduler that die
          MaxCrashes  \* bound: ends of the process

\* The guard of every list write: no row comes to depend on itself.
Acyclic(D) ==
    \E rank \in [Rows -> 1 .. Cardinality(Rows)] :
        \A r \in Rows : \A d \in D[r] : rank[d] < rank[r]

JobAssumption ==
    /\ Once \cap Cron = {}
    /\ Once \cup Cron \subseteq Rows
    /\ DependsOn \in [Rows -> SUBSET Rows] /\ Acyclic(DependsOn)
    /\ None \notin {"later", "due", "former", "past"}
    /\ None \notin [Rows -> {"later", "due", "former", "past", None}]
    /\ None \notin [cron : BOOLEAN, needs : SUBSET Rows, stale : BOOLEAN]
    /\ MaxWrites \in Nat /\ MaxFaults \in Nat /\ MaxCrashes \in Nat

VARIABLES status,   \* row -> its status, or "gone"
          kind,     \* row -> its schedule: "plain", "once", "cron" or "off"
          deps,     \* row -> the rows it depends on
          come,     \* the one-shot rows whose moment has come
          read,     \* the current job's row, as the trigger has read it
          outcome,  \* what the executor of the current job returned
          faults,   \* reads and writes that died so far
          writes,   \* writes by others so far
          crashes,  \* ends of the process so far
          mine,     \* the rows that are in progress by the scheduler's claim
          dropped,  \* those of them whose trigger, or whose recovery, has died
          asked,    \* row -> what was last asked of it: "run", "pause", "none"
          moved,    \* the rows whose schedule was replaced since the tick's scan
          since     \* the rows others have written since the trigger's reads

rowVars == <<status, kind, deps, come>>
ghosts == <<mine, dropped, asked, moved, since>>
jobVars == <<rowVars, read, outcome, faults, writes, crashes, ghosts>>
vars == <<coreVars, jobVars>>

Outcomes == {"completed", "failed", "cancelled"}
Queued == {"scheduled", "pending"}
Statuses == Queued \cup {"in_progress", "gone"} \cup Outcomes
Runs == {"later", "due", "former", "past"}

\* "off": the recurrence is there and disabled.
Kinds == {"plain", "once", "cron", "off"}
Live(k) == k \in {"once", "cron"}

\* The stages of the tick.
Ticking == {"trigger", "check", "gate", "claim", "run", "settle", "rearm"}

\* Whether the row was recurring, what it depended on, and whether another
\* schedule has replaced the one that was read.
ReadType == [cron : BOOLEAN, needs : SUBSET Rows, stale : BOOLEAN]

TypeOK ==
    /\ CoreTypeOK(Runs)
    /\ status \in [Rows -> Statuses]
    /\ kind \in [Rows -> Kinds] /\ deps \in [Rows -> SUBSET Rows]
    /\ come \subseteq {r \in Rows : kind[r] = "once"}
    /\ read \in ReadType \cup {None}
    /\ outcome \in Outcomes \cup {None}
    /\ faults \in 0 .. MaxFaults
    /\ writes \in 0 .. MaxWrites
    /\ crashes \in 0 .. MaxCrashes
    /\ mine \subseteq Rows /\ dropped \subseteq mine
    /\ asked \in [Rows -> {"run", "pause", "none"}]
    /\ moved \subseteq Rows /\ since \subseteq Rows

Init ==
    /\ CoreInit
    /\ kind = [r \in Rows |-> IF r \in Once THEN "once" ELSE
                              IF r \in Cron THEN "cron" ELSE "plain"]
    /\ status = [r \in Rows |-> IF Live(kind[r]) THEN "scheduled" ELSE "pending"]
    /\ asked = [r \in Rows |-> IF Live(kind[r]) THEN "run" ELSE "none"]
    /\ deps = DependsOn
    /\ come = {}
    /\ read = None
    /\ outcome = None
    /\ faults = 0 /\ writes = 0 /\ crashes = 0
    /\ mine = {} /\ dropped = {} /\ moved = {} /\ since = {}

-----------------------------------------------------------------------------
(* What a scan of the table yields.                                        *)

\* Mutant: a one-shot job whose moment passed while no queue held it is left out.
NextRunAhead(r) ==
    CASE kind[r] = "cron" -> "later"
      [] kind[r] = "once" -> IF r \in come THEN None ELSE "later"
      [] OTHER -> None

\* When row r runs next, as of now.
NextRun(r) ==
    CASE kind[r] = "cron" -> "later"
      [] kind[r] = "once" -> IF r \in come THEN "due" ELSE "later"
      [] OTHER -> None

ArmedWith(rows) == [r \in Rows |-> IF r \in rows THEN NextRun(r) ELSE None]

Waiting == {r \in Rows : kind[r] # "plain" /\ status[r] \in Queued}

\* Mutant: only the claims of one-shot jobs are handed back.
StaleOnce == {r \in Rows : kind[r] = "once" /\ status[r] = "in_progress"}

Stale == {r \in Rows : kind[r] # "plain" /\ status[r] = "in_progress"}

\* Mutant: only a predecessor that runs blocks.
BlockingRunning(rows) == {d \in rows : status[d] = "in_progress"}

\* Of some predecessors, those that block: they are there and not over.
Blocking(rows) == {d \in rows : status[d] \notin Outcomes \cup {"gone"}}

BlockedBy(r) == Blocking(deps[r])

-----------------------------------------------------------------------------
(* Time.                                                                   *)

\* What lies ahead in queue q for row r, by its schedule, has come.
Comes(r, q) ==
    IF q # None /\ q[r] = "later" THEN [q EXCEPT ![r] = "due"] ELSE q

\* The schedule of row r is another now: its entry in queue q is a former one.
Outdated(r, q) ==
    IF q # None /\ q[r] # None
    THEN [q EXCEPT ![r] = IF @ \in {"due", "past"} THEN "past" ELSE "former"]
    ELSE q

\* The moment of row r arrives: the one-shot moment, or the next cron match
\* of every queue that counts on it.
ClockPasses(r) ==
    /\ \/ kind[r] = "once" /\ r \notin come /\ come' = come \cup {r}
       \/ kind[r] = "cron" /\ queue[r] = "later" /\ UNCHANGED come
    /\ queue' = Comes(r, queue)
    /\ minute' = Comes(r, minute)
    /\ event' = Comes(r, event)
    /\ UNCHANGED <<stage, todo, current, signal, status, kind, deps, read, outcome,
                   faults, writes, crashes, ghosts>>

\* So does a moment that only the queue still holds for row r.
FormerPasses(r) ==
    /\ queue[r] = "former"
    /\ queue' = [queue EXCEPT ![r] = "past"]
    /\ UNCHANGED <<stage, minute, todo, current, signal, event, jobVars>>

-----------------------------------------------------------------------------
(* Startup.                                                                *)

Start == Boot /\ UNCHANGED jobVars

\* recoverStaleClaims: rows in progress that no schedule would recover.
Sweep ==
    /\ Swept
    /\ status' = [r \in Rows |-> IF kind[r] = "plain" /\ status[r] = "in_progress"
                                 THEN "pending" ELSE status[r]]
    /\ UNCHANGED <<kind, deps, come, read, outcome, faults, writes, crashes, ghosts>>

StartArm ==
    /\ StartScan(ArmedWith(Waiting \cup Stale), Stale)
    /\ UNCHANGED jobVars

\* recover: the stale claim is patched to pending, whatever the row is by now.
Recover(r) ==
    /\ Recovered(r)
    /\ status' = [status EXCEPT ![r] = IF @ = "gone" THEN @ ELSE "pending"]
    /\ mine' = mine \ {r}
    /\ asked' = [asked EXCEPT ![r] = "run"]
    /\ UNCHANGED <<kind, deps, come, read, outcome, faults, writes, crashes, dropped,
                   moved, since>>

Fork == Forked /\ UNCHANGED jobVars

-----------------------------------------------------------------------------
(* The minute cycle.                                                       *)

ArmScan == Scan(ArmedWith(Waiting)) /\ UNCHANGED jobVars
ArmInstall == Install /\ UNCHANGED jobVars

TickDue ==
    /\ Tick({r \in Rows : queue[r] \in {"due", "past"}})
    /\ moved' = {r \in Rows : queue[r] = "past"}
    /\ UNCHANGED <<rowVars, read, outcome, faults, writes, crashes, mine, dropped, asked,
                   since>>

TriggerJob(r) == Trigger(r) /\ UNCHANGED jobVars

\* trigger reads the row again: it may be gone, paused or settled by now.
Check ==
    /\ stage = "check"
    /\ IF status[current] \in Queued
       THEN /\ Goes("gate")
            /\ read' = [cron |-> kind[current] = "cron", needs |-> deps[current],
                        stale |-> FALSE]
       ELSE Triggered /\ UNCHANGED read
    /\ since' = {}
    /\ UNCHANGED <<queue, minute, todo, signal, event, rowVars, outcome, faults, writes,
                   crashes, mine, dropped, asked, moved>>

\* Then it reads the predecessors: a blocked row stays as it is and unclaimed.
Gate ==
    /\ stage = "gate"
    /\ IF Blocking(read.needs) = {}
       THEN Goes("claim") /\ UNCHANGED read
       ELSE Triggered /\ read' = None
    /\ UNCHANGED <<queue, minute, todo, signal, event, rowVars, outcome, faults, writes,
                   crashes, ghosts>>

\* Mutant: the claim does not expect the row to be still waiting.
ClaimsAny ==
    /\ status[current] # "gone"
    /\ status' = [status EXCEPT ![current] = "in_progress"]
    /\ mine' = mine \cup {current}
    /\ asked' = [asked EXCEPT ![current] = "none"]

\* The claim expects a row that still waits; it looks at nothing else.
Claims ==
    /\ status[current] \in Queued
    /\ status' = [status EXCEPT ![current] = "in_progress"]
    /\ mine' = mine \cup {current}
    /\ asked' = [asked EXCEPT ![current] = "none"]

Claim ==
    /\ stage = "claim"
    /\ Claims
    /\ Signalled
    /\ Goes("run")
    /\ UNCHANGED <<queue, minute, todo, event, kind, deps, come, read, outcome, faults,
                   writes, crashes, dropped, moved, since>>

\* A pause, a removal or an edit came first: nothing runs.
ClaimLost ==
    /\ stage = "claim"
    /\ status[current] \notin Queued
    /\ Triggered
    /\ read' = None
    /\ UNCHANGED <<queue, minute, todo, signal, event, rowVars, outcome, faults, writes,
                   crashes, ghosts>>

\* The executor answers; its failures and defects are an outcome as well.
Executed(o) ==
    /\ stage = "run"
    /\ outcome' = o
    /\ Goes("settle")
    /\ UNCHANGED <<queue, minute, todo, signal, event, rowVars, read, faults, writes,
                   crashes, ghosts>>

\* The settle patch names no status it expects.
Settles ==
    /\ status' = [status EXCEPT ![current] = IF @ = "gone" THEN @ ELSE outcome]
    /\ mine' = mine \ {current}

\* A job that was recurring when it was read, and completed, is re-armed.
Settle ==
    /\ stage = "settle"
    /\ Settles
    /\ Signalled
    /\ IF outcome = "completed" /\ read.cron
       THEN Goes("rearm") /\ UNCHANGED <<outcome, read>>
       ELSE Triggered /\ outcome' = None /\ read' = None
    /\ UNCHANGED <<queue, minute, todo, event, kind, deps, come, faults, writes, crashes,
                   dropped, asked, moved, since>>

\* It is queued for the next match, after the tick, of the cron that was read
\* (which may have passed while the job ran, or be another by now).
Requeued(run) ==
    /\ run \in IF read.stale THEN {"former", "past"} ELSE {"later", "due"}
    /\ queue' = [queue EXCEPT ![current] = run]

\* Then it is patched to scheduled.
Rescheduled ==
    /\ status' = [status EXCEPT ![current] = IF @ = "gone" THEN @ ELSE "scheduled"]
    /\ asked' = [asked EXCEPT ![current] = "run"]

Rearm(run) ==
    /\ stage = "rearm"
    /\ status[current] = "gone" \/ Live(kind[current])
    /\ Requeued(run)
    /\ Rescheduled
    /\ Signalled
    /\ Triggered
    /\ outcome' = None /\ read' = None
    /\ UNCHANGED <<minute, todo, event, kind, deps, come, faults, writes, crashes, mine,
                   dropped, moved, since>>

\* The patch is refused, and the tick dies, if the recurrence was disabled
\* while the job ran: the row would be scheduled and could never fire.
RearmRefused(run) ==
    /\ stage = "rearm"
    /\ status[current] # "gone" /\ ~Live(kind[current])
    /\ Requeued(run)
    /\ TickDied
    /\ outcome' = None /\ read' = None
    /\ UNCHANGED <<minute, signal, event, rowVars, faults, writes, crashes, ghosts>>

Sleep ==
    /\ Slept
    /\ moved' = {}
    /\ UNCHANGED <<rowVars, read, outcome, faults, writes, crashes, mine, dropped, asked,
                   since>>

EventArm == EventScan(ArmedWith(Waiting)) /\ UNCHANGED jobVars
EventArmed == EventInstall /\ UNCHANGED jobVars

-----------------------------------------------------------------------------
(* Deaths: a read or a write of the scheduler fails with a defect.         *)

Faulty == faults < MaxFaults /\ faults' = faults + 1

\* In an arm.
ArmDies ==
    /\ Faulty
    /\ \/ StartDied /\ dropped' = mine
       \/ (ArmDied \/ EventDied) /\ UNCHANGED dropped
    /\ UNCHANGED <<rowVars, read, outcome, writes, crashes, mine, asked, moved, since>>

\* In the trigger of a job, before what it was about to write ...
TriggerDies ==
    /\ Faulty
    /\ stage \in {"check", "gate", "claim", "settle"}
    /\ TickDied
    /\ dropped' = dropped \cup ({current} \cap mine)
    /\ outcome' = None /\ read' = None
    /\ UNCHANGED <<queue, minute, signal, event, rowVars, writes, crashes, mine, asked,
                   moved, since>>

\* ... or after it, when the patch announces what it has written.
PatchDies ==
    /\ Faulty
    /\ \/ stage = "claim" /\ Claims /\ dropped' = dropped \cup {current} /\ UNCHANGED queue
       \/ stage = "settle" /\ Settles /\ UNCHANGED <<queue, asked, dropped>>
       \/ /\ stage = "rearm"
          /\ status[current] = "gone" \/ Live(kind[current])
          /\ \E run \in Runs : Requeued(run)
          /\ Rescheduled \/ UNCHANGED <<status, asked>>
          /\ UNCHANGED <<mine, dropped>>
    /\ TickDied
    /\ outcome' = None /\ read' = None
    /\ UNCHANGED <<minute, signal, event, kind, deps, come, writes, crashes, moved, since>>

Deaths == ArmDies \/ TriggerDies \/ PatchDies

-----------------------------------------------------------------------------
(* The writes of others.                                                   *)

\* Row r gets status s; the event may be published where this daemon does not
\* listen.
Written(r, s, ask) ==
    /\ stage # "off"
    /\ writes < MaxWrites
    /\ writes' = writes + 1
    /\ status[r] # "gone"
    /\ status' = [status EXCEPT ![r] = s]
    /\ asked' = [asked EXCEPT ![r] = ask]
    /\ IF s = "in_progress"
       THEN UNCHANGED <<mine, dropped>>
       ELSE mine' = mine \ {r} /\ dropped' = dropped \ {r}
    /\ since' = IF stage \in {"gate", "claim"} THEN since \cup {r} ELSE since
    /\ Signalled \/ UNCHANGED signal
    /\ UNCHANGED <<stage, todo, current, outcome, faults, crashes>>

\* A patch leaves the schedule and the dependencies as they are.
Patched(r, s, ask) ==
    /\ Written(r, s, ask)
    /\ UNCHANGED <<queue, minute, event, kind, deps, come, read, moved>>

Pause(r) == Patched(r, "cancelled", "pause")
Resume(r) == Live(kind[r]) /\ Patched(r, "scheduled", "run")
Remove(r) == Patched(r, "gone", "none")

\* The schedules that can replace that of row r: what a write omits is kept,
\* so that none takes a schedule away; a recurrence can be disabled.
Replaces(r, k) ==
    /\ k = "plain" => kind[r] = "plain"
    /\ k = "off" => kind[r] # "once"

\* update: the row takes a new status, schedule and predecessors, unless that
\* would leave it scheduled without a trigger or close a cycle.
Edit(r, s, k, moves, D) ==
    /\ Written(r, s, IF s \in Queued /\ k # "plain" THEN "run" ELSE "none")
    /\ Replaces(r, k)
    /\ k # kind[r] => moves
    /\ moves => k # "plain"
    /\ s = "scheduled" => Live(k)
    /\ kind' = [kind EXCEPT ![r] = k]
    /\ come' \in IF k # "once" THEN {come \ {r}}
                 ELSE IF moves THEN {come \ {r}, come \cup {r}} ELSE {come}
    /\ Acyclic([q \in Rows |-> IF q = r THEN D ELSE
                               IF status[q] = "gone" THEN {} ELSE deps[q]])
    /\ deps' = [deps EXCEPT ![r] = D]
    /\ IF moves
       THEN /\ queue' = Outdated(r, queue)
            /\ minute' = Outdated(r, minute)
            /\ event' = Outdated(r, event)
            /\ moved' = IF stage \in Ticking THEN moved \cup {r} ELSE moved
            /\ read' = IF read # None /\ r = current THEN [read EXCEPT !.stale = TRUE]
                                                     ELSE read
       ELSE UNCHANGED <<queue, minute, event, moved, read>>

Crash ==
    /\ crashes < MaxCrashes
    /\ crashes' = crashes + 1
    /\ Ends
    /\ outcome' = None /\ read' = None
    /\ dropped' = {} /\ moved' = {} /\ since' = {}
    /\ UNCHANGED <<rowVars, faults, writes, mine, asked>>

-----------------------------------------------------------------------------
Startup == Start \/ Sweep \/ StartArm \/ Fork \/ \E r \in Rows : Recover(r)

TriggerStep ==
    \/ Check \/ Gate \/ Claim \/ ClaimLost \/ Settle
    \/ \E o \in Outcomes : Executed(o)
    \/ \E run \in Runs : Rearm(run) \/ RearmRefused(run)

Daemon ==
    \/ Startup
    \/ ArmScan \/ ArmInstall \/ TickDue \/ Sleep
    \/ \E r \in Rows : TriggerJob(r)
    \/ TriggerStep

Rearming == EventArm \/ EventArmed

\* The statuses a list write is tried with: of those that end a row, one.
Others ==
    \E r \in Rows :
        \/ Pause(r) \/ Resume(r) \/ Remove(r)
        \/ \E s \in Queued \cup {"in_progress", "completed"}, k \in Kinds,
              moves \in BOOLEAN, D \in SUBSET Rows : Edit(r, s, k, moves, D)

Time == \E r \in Rows : ClockPasses(r) \/ FormerPasses(r)

Next == Daemon \/ Rearming \/ Others \/ Deaths \/ Crash \/ Time

Spec == Init /\ [][Next]_vars

\* The process is started (again), its fibers go on, executors answer and time
\* passes.  Nobody has to write.
FairSpec ==
    /\ Spec
    /\ WF_vars(Daemon)
    /\ WF_vars(Rearming)
    /\ \A r \in Rows : WF_vars(ClockPasses(r))

-----------------------------------------------------------------------------
(* Properties.                                                             *)

\* The rows the scheduler claims in this step.
Started == mine' \ mine

\* Whoever starts a job has a reason: a job is claimed only if it was
\* scheduled, resumed, re-armed or recovered after its last start, and neither
\* paused nor settled nor removed since.  (The claim's expected status,
\* scheduled-job.ts:120, after the check at line 94 and the scan before it.)
ClaimsAsAsked == \A r \in Started : asked[r] = "run"

\* A one-shot job is claimed when its moment has come, unless somebody has
\* replaced its schedule since the scan the tick went by.  (schedule-core.ts:79;
\* the claim does not look at the schedule again: StartsWhenDue is broken.)
ClaimsInTime ==
    \A r \in Started : kind[r] = "cron" \/ r \in come \/ r \in moved

\* A job is claimed when nothing it depends on blocks it, unless somebody has
\* written the row, or the predecessor that blocks, since the gate's reads.
\* (scheduled-job.ts:97-111; the claim does not look at the predecessors again:
\* StartsUnblocked is broken.)
ClaimsUnblocked ==
    \A r \in Started : r \in since \/ BlockedBy(r) \subseteq since

\* A job is claimed as it was asked, at its moment and after what it depends on,
\* as far as the trigger can know.
StartsAreAsked == [][ClaimsAsAsked /\ ClaimsInTime /\ ClaimsUnblocked]_vars

\* A one-shot job starts only when its moment has come.  (scheduled-job.ts:218:
\* the daemon "re-arms on every `task.updated` so a new schedule, resume, or
\* pause takes effect immediately".)
StartsWhenDue == [][\A r \in Started : kind[r] = "cron" \/ r \in come]_vars

\* A job starts only when nothing blocks it.  (scheduled-job.ts:95: "a task with
\* dependsOn may only fire once every predecessor is terminal".)
StartsUnblocked == [][\A r \in Started : BlockedBy(r) = {}]_vars

\* No orphan: while the daemon is past its startup, a row that is in progress
\* by the scheduler's claim is the job it is running now, or its trigger or its
\* recovery has died of a defect.  (scheduled-job.ts:22, 49)
NoOrphan ==
    Running => \A r \in mine \ dropped : r = current /\ stage \in {"run", "settle"}

\* No job is left in progress, through edits, deaths and restarts.
HappensOnce == TypeOK /\ NoOrphan

IsDue(r) ==
    /\ status[r] \in Queued /\ kind[r] = "once" /\ r \in come
    /\ BlockedBy(r) = {}

\* A one-shot job that waits, whose moment has come and that nothing blocks,
\* does not wait for ever, whatever armed the queue last.  (schedule-core.ts:111)
DueIsTaken == \A r \in Rows : []<>~IsDue(r)

\* A recurring job is run again and again: one that is scheduled does not stay
\* scheduled for ever.  (scheduled-job.ts:23: "Recurring jobs that complete are
\* re-armed to their next cron match"; schedule-core.ts:111)
RecurringRuns == \A r \in Rows : []<>(kind[r] # "cron" \/ status[r] # "scheduled")

\* A pause is kept: only a resume or an edit takes a paused row on.
\* (scheduled-job.ts:219: a pause takes effect immediately.)
PauseIsKept ==
    [][\A r \in Rows :
          asked[r] = "pause" /\ status[r] = "cancelled" /\ writes' = writes
             => status'[r] = "cancelled"]_vars
=============================================================================
