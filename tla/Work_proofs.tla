---------------------------- MODULE Work_proofs ----------------------------
(***************************************************************************)
(* Proofs about the work a Session leaves to others, for any jobs, graphs, *)
(* rows, clocks, writers and ends of the process.  Work jobs               *)
(* (JobScheduler): a job is claimed only as it was asked, and before its   *)
(* moment or its predecessors only if somebody has written it, or them,    *)
(* since the scheduler looked; none is left in progress once the daemon is *)
(* past its startup, unless a write of it has died.  Reminders (Reminder): *)
(* each is delivered exactly once, and given up only after as many         *)
(* failures as the limit says.  Workflow runs (WorkflowRun): a step is     *)
(* executed only after all it depends on, no attempt twice, and a run that *)
(* is over stays over and is called what it came to: nothing that an       *)
(* executed step leads to is lost, and with a single branch step nothing   *)
(* is executed on an arm not taken.                                        *)
(***************************************************************************)
EXTENDS JobScheduler, Sequences, FiniteSetTheorems, TLAPS

\* The reminders have a queue and a daemon of their own, with the same loop.
CONSTANTS Contents, Editors, MaxTime, MaxAttempts, MaxEdits, MaxDeaths
VARIABLES now, at, row, inbox, marked, edit, edits, deaths, fresh, tries, overdue

Rem == INSTANCE Reminder

\* Workflow runs share nothing with the schedules.
CONSTANTS N, Following, Parallel, Arms, Policy, MaxTries, Request, NoRequest, MaxRuns, Limit
VARIABLES run, owner, pending, worker, canceller, owed, begun, used

Wf == INSTANCE WorkflowRun WITH MaxAttempts <- MaxTries

------------------------------------------------------------------------------
(* Work jobs: the inductive invariant.                                     *)

\* A queue that some scan yielded, for rows of kinds k of whose one-shot moments
\* those of the rows in came have come: what is in it is scheduled, or was, and an
\* entry that is not a former one is what the row's schedule says.
QueueOk(q, k, came) ==
  /\ q \in [Rows -> Runs \cup {None}]
  /\ \A r \in Rows :
       /\ q[r] \in Runs => k[r] # "plain"
       /\ q[r] \in {"later", "due"} => Live(k[r])
       /\ q[r] = "due" /\ k[r] = "once" => r \in came

\* So are the queue and the scans that are not yet installed.
Queues ==
  /\ QueueOk(queue, kind, come)
  /\ minute = None \/ QueueOk(minute, kind, come)
  /\ event = None \/ QueueOk(event, kind, come)
  /\ stage \in {"recover", "install"} => QueueOk(minute, kind, come)

\* What the tick may go on to: the moment of row r has come, or was replaced.
InTime(r) == kind[r] # "plain" /\ (kind[r] = "cron" \/ r \in come \/ r \in moved)

BeforeClaim == {"check", "gate", "claim"}
AfterRead == {"gate", "claim", "run", "settle", "rearm"}

\* What the tick goes through.
Chosen ==
  /\ stage \in Ticking => \A r \in todo : InTime(r)
  /\ stage \in Ticking \ {"trigger"} => current \in Rows /\ kind[current] # "plain"
  /\ stage \in BeforeClaim => InTime(current)
  /\ stage \in {"settle", "rearm"} => outcome \in Outcomes

\* What the trigger knows of its row, unless somebody has written since.
Known ==
  /\ stage \in AfterRead => /\ read \in ReadType
                            /\ read.cron /\ ~read.stale => kind[current] = "cron"
  /\ stage = "gate" => current \in since \/ read.needs = deps[current]
  /\ stage = "claim" => current \in since \/ BlockedBy(current) \subseteq since
  /\ stage = "rearm" => read.cron

\* A row that waits and has a schedule was asked to run.
WaitsAsAsked == \A r \in Rows : kind[r] # "plain" /\ status[r] \in Queued => asked[r] = "run"

\* Where the rows in progress by a claim of the scheduler are: with the startup that
\* hands them back, current, or dropped.
Claimed ==
  /\ \A r \in mine : status[r] = "in_progress" /\ kind[r] # "plain"
  /\ stage = "recover" => mine \subseteq todo
  /\ Running \/ dropped = {}
  /\ stage \in {"run", "settle", "rearm"} => current \notin dropped

JobInv ==
  /\ TypeOK /\ Queues /\ Chosen /\ Known /\ WaitsAsAsked /\ Claimed /\ NoOrphan
------------------------------------------------------------------------------
(* Work jobs: each step keeps it.                                          *)

\* What TypeOK says, part by part, beside the queues.
JobTyped ==
  /\ stage \in {"off"} \cup Starting \cup Cycle
  /\ todo \subseteq Rows /\ current \in Rows \cup {None} /\ signal \in BOOLEAN
  /\ status \in [Rows -> Statuses]
  /\ kind \in [Rows -> Kinds] /\ deps \in [Rows -> SUBSET Rows]
  /\ come \subseteq {r \in Rows : kind[r] = "once"}
  /\ read \in ReadType \cup {None} /\ outcome \in Outcomes \cup {None}
  /\ faults \in 0 .. MaxFaults /\ writes \in 0 .. MaxWrites /\ crashes \in 0 .. MaxCrashes
  /\ mine \subseteq Rows /\ dropped \subseteq mine
  /\ asked \in [Rows -> {"run", "pause", "none"}]
  /\ moved \subseteq Rows /\ since \subseteq Rows

LEMMA JobTypes == TypeOK => JobTyped
  BY DEF TypeOK, CoreTypeOK, JobTyped

LEMMA JobTypesBack == Queues /\ JobTyped => TypeOK
  BY DEF TypeOK, CoreTypeOK, JobTyped, Queues, QueueOk

\* A scan yields such a queue.
LEMMA ArmedOk ==
  ASSUME JobAssumption, JobTyped, NEW S \in SUBSET {r \in Rows : kind[r] # "plain"}
  PROVE  QueueOk(ArmedWith(S), kind, come)
  <1>1. \A r \in Rows : NextRun(r) \in {"later", "due", None}
    BY DEF NextRun
  <1>2. \A r \in Rows : NextRun(r) \in {"later", "due"} => Live(kind[r])
    BY DEF NextRun, Live, JobAssumption
  <1>3. \A r \in Rows : NextRun(r) = "due" /\ kind[r] = "once" => r \in come
    BY DEF NextRun
  <1> DEFINE q == ArmedWith(S)
  <1>4. /\ q \in [Rows -> Runs \cup {None}]
        /\ \A r \in Rows : q[r] = IF r \in S THEN NextRun(r) ELSE None
    BY <1>1 DEF ArmedWith, Runs
  <1> QED
    BY <1>1, <1>2, <1>3, <1>4 DEF QueueOk, JobAssumption, Runs

LEMMA WaitingOk == JobAssumption /\ JobTyped => QueueOk(ArmedWith(Waiting), kind, come)
  BY ArmedOk DEF Waiting

\* An empty queue is one that a scan may have yielded.
LEMMA NothingOk == JobAssumption => QueueOk(Nothing, kind, come)
  BY DEF JobAssumption, QueueOk, Nothing, Runs

\* So is a queue without one of its rows, or with one put back.
LEMMA QueueWithout ==
  ASSUME JobAssumption, NEW q, NEW k, NEW came, QueueOk(q, k, came), NEW r \in Rows
  PROVE  QueueOk([q EXCEPT ![r] = None], k, came)
  BY DEF JobAssumption, QueueOk, Runs

LEMMA QueueWith ==
  ASSUME JobAssumption, NEW q, NEW k, NEW came, QueueOk(q, k, came), NEW r \in Rows,
         k[r] # "plain", NEW moment \in Runs,
         moment \in {"later", "due"} => k[r] = "cron"
  PROVE  QueueOk([q EXCEPT ![r] = moment], k, came)
  BY DEF JobAssumption, QueueOk, Runs, Live

\* A moment that comes makes an entry due only with it.
LEMMA ComesOk ==
  ASSUME JobAssumption, NEW q, NEW k, NEW came, NEW later, QueueOk(q, k, came),
         NEW r \in Rows, came \subseteq later, k[r] = "once" => r \in later
  PROVE  QueueOk(Comes(r, q), k, later)
  <1>1. CASE q # None /\ q[r] = "later"
    <2> DEFINE p == [q EXCEPT ![r] = "due"]
    <2>1. /\ p \in [Rows -> Runs \cup {None}] /\ p[r] = "due"
          /\ \A s \in Rows \ {r} : p[s] = q[s]
      BY DEF QueueOk, Runs
    <2>2. k[r] # "plain" /\ Live(k[r])
      BY <1>1 DEF QueueOk, Runs
    <2>3. QueueOk(p, k, later)
      BY <2>1, <2>2 DEF QueueOk
    <2> QED
      BY <1>1, <2>3 DEF Comes
  <1>2. CASE ~(q # None /\ q[r] = "later")
    BY <1>2 DEF Comes, QueueOk
  <1> QED
    BY <1>1, <1>2

\* An edit leaves of a row's entry only that it was there.
LEMMA OutdatedOk ==
  ASSUME JobAssumption, NEW q, NEW k, NEW came, NEW k2, NEW came2, QueueOk(q, k, came),
         NEW r \in Rows, k2[r] # "plain",
         \A s \in Rows \ {r} : k2[s] = k[s] /\ (s \in came2 <=> s \in came)
  PROVE  QueueOk(Outdated(r, q), k2, came2)
  <1>1. CASE q # None /\ q[r] # None
    <2> DEFINE e == IF q[r] \in {"due", "past"} THEN "past" ELSE "former"
               p == [q EXCEPT ![r] = e]
    <2>1. /\ p \in [Rows -> Runs \cup {None}] /\ p[r] \in {"past", "former"}
          /\ \A s \in Rows \ {r} : p[s] = q[s]
      BY DEF QueueOk, Runs
    <2>2. QueueOk(p, k2, came2)
      BY <2>1 DEF QueueOk
    <2> QED
      BY <1>1, <2>2 DEF Outdated
  <1>2. CASE ~(q # None /\ q[r] # None)
    <2>1. q # None
      BY DEF QueueOk, JobAssumption, Runs
    <2> QED
      BY <1>2, <2>1 DEF Outdated, QueueOk, JobAssumption, Runs
  <1> QED
    BY <1>1, <1>2

\* What a step that leaves the rows alone need not show.
LEMMA Rest ==
  ASSUME JobInv, UNCHANGED <<rowVars, asked, read, since>>,
         stage' \in AfterRead => stage' = stage /\ UNCHANGED current
  PROVE  WaitsAsAsked' /\ Known'
  BY DEF JobInv, rowVars, WaitsAsAsked, Known, BlockedBy, Blocking, AfterRead

\* The startup.
LEMMA StartupInv ==
  ASSUME JobAssumption, JobInv, Startup
  PROVE  JobInv'
  <1> USE JobTypes DEF JobInv
  <1>1. CASE Start
    <2>1. Queues'
      BY <1>1 DEF Start, Boot, Queues, jobVars, rowVars
    <2>2. JobTyped'
      BY <1>1 DEF Start, Boot, jobVars, rowVars, ghosts, JobTyped, Starting
    <2>3. Claimed' /\ Chosen' /\ NoOrphan'
      BY <1>1 DEF Start, Boot, jobVars, rowVars, ghosts, Claimed, Chosen, Ticking, BeforeClaim,
         NoOrphan, Running, Cycle
    <2>4. WaitsAsAsked' /\ Known'
      BY <1>1, Rest DEF Start, Boot, jobVars, rowVars, ghosts, AfterRead
    <2> QED
      BY <2>1, <2>2, <2>3, <2>4, JobTypesBack, PTL
  <1>2. CASE Sweep
    <2>1. Queues'
      BY <1>2 DEF Sweep, Swept, Queues
    <2>2. /\ status' \in [Rows -> Statuses] /\ stage = "sweep" /\ stage' = "start"
          /\ \A r \in Rows : status'[r] # status[r] => kind[r] = "plain"
          /\ UNCHANGED <<queue, minute, event, todo, current, signal, kind, deps, come, read, outcome,
                         faults, writes, crashes, mine, dropped, asked, moved, since>>
      BY <1>2 DEF Sweep, Swept, JobTyped, Statuses, Queued, ghosts
    <2>3. JobTyped'
      BY <2>2 DEF JobTyped, Starting
    <2>4. Claimed' /\ Chosen' /\ NoOrphan' /\ Known' /\ WaitsAsAsked'
      BY <2>2 DEF JobTyped, Claimed, Chosen, Ticking, BeforeClaim, AfterRead, NoOrphan, Running,
         Cycle, Known, WaitsAsAsked
    <2> QED
      BY <2>1, <2>3, <2>4, JobTypesBack, PTL
  <1>3. CASE StartArm
    <2>1. QueueOk(minute', kind', come')
      BY <1>3, ArmedOk DEF StartArm, StartScan, jobVars, rowVars, Waiting, Stale
    <2>2. Queues'
      BY <1>3, <2>1 DEF StartArm, StartScan, Queues, jobVars, rowVars
    <2>3. JobTyped'
      BY <1>3 DEF StartArm, StartScan, jobVars, rowVars, ghosts, JobTyped, Starting, Stale
    <2>4. Claimed' /\ Chosen' /\ NoOrphan'
      BY <1>3 DEF StartArm, StartScan, jobVars, rowVars, ghosts, JobTyped, Claimed, Chosen, Stale,
         Ticking, BeforeClaim, NoOrphan, Running, Cycle
    <2>5. WaitsAsAsked' /\ Known'
      BY <1>3, Rest DEF StartArm, StartScan, jobVars, rowVars, ghosts, AfterRead
    <2> QED
      BY <2>2, <2>3, <2>4, <2>5, JobTypesBack, PTL
  <1>4. CASE Fork
    <2>1. Queues'
      BY <1>4 DEF Fork, Forked, Queues, jobVars, rowVars
    <2>2. JobTyped'
      BY <1>4 DEF Fork, Forked, jobVars, rowVars, ghosts, JobTyped, Cycle
    <2>3. Claimed' /\ Chosen' /\ NoOrphan'
      BY <1>4 DEF Fork, Forked, jobVars, rowVars, ghosts, JobTyped, Claimed, Chosen, Ticking,
         BeforeClaim, NoOrphan, Running, Cycle
    <2>4. WaitsAsAsked' /\ Known'
      BY <1>4, Rest DEF Fork, Forked, jobVars, rowVars, ghosts, AfterRead
    <2> QED
      BY <2>1, <2>2, <2>3, <2>4, JobTypesBack, PTL
  <1>5. ASSUME NEW r \in Rows, Recover(r) PROVE JobInv'
    <2>1. /\ UNCHANGED <<stage, queue, minute, event, current, signal, kind, deps, come, read, outcome,
                         faults, writes, crashes, dropped, moved, since>>
          /\ stage = "recover" /\ todo' = todo \ {r} /\ mine' = mine \ {r}
      BY <1>5 DEF Recover, Recovered
    <2>2. /\ status' \in [Rows -> Statuses] /\ asked' \in [Rows -> {"run", "pause", "none"}]
          /\ status'[r] \in {"gone", "pending"} /\ asked'[r] = "run"
          /\ \A s \in Rows \ {r} : status'[s] = status[s] /\ asked'[s] = asked[s]
      BY <1>5 DEF Recover, JobTyped, Statuses, Queued
    <2>3. Queues'
      BY <2>1 DEF Queues
    <2>4. dropped = {}
      BY <2>1 DEF Claimed, Running, Cycle
    <2>5. JobTyped'
      BY <2>1, <2>2, <2>4 DEF JobTyped
    <2>6. WaitsAsAsked'
      BY <2>1, <2>2 DEF WaitsAsAsked
    <2>7. Claimed' /\ Chosen' /\ NoOrphan' /\ Known'
      BY <2>1, <2>2, <2>4 DEF JobTyped, Claimed, Chosen, Ticking, BeforeClaim, AfterRead, NoOrphan,
         Running, Cycle, Known
    <2> QED
      BY <2>3, <2>5, <2>6, <2>7, JobTypesBack, PTL
  <1> QED
    BY <1>1, <1>2, <1>3, <1>4, <1>5 DEF Startup

\* The minute cycle, up to what it triggers, and the re-arm fiber.
LEMMA CycleInv ==
  ASSUME JobAssumption, JobInv,
         ArmScan \/ ArmInstall \/ TickDue \/ Sleep \/ EventArm \/ EventArmed
         \/ \E r \in Rows : TriggerJob(r)
  PROVE  JobInv'
  <1> USE JobTypes, WaitingOk DEF JobInv
  <1>1. CASE ArmScan
    <2>1. Queues'
      BY <1>1 DEF ArmScan, Scan, Queues, jobVars, rowVars
    <2>2. JobTyped'
      BY <1>1 DEF ArmScan, Scan, jobVars, rowVars, ghosts, JobTyped, Cycle
    <2>3. Claimed' /\ Chosen' /\ NoOrphan'
      BY <1>1 DEF ArmScan, Scan, jobVars, rowVars, ghosts, Claimed, Chosen, Ticking, BeforeClaim,
         NoOrphan, Running, Cycle
    <2>4. WaitsAsAsked' /\ Known'
      BY <1>1, Rest DEF ArmScan, Scan, jobVars, rowVars, ghosts, AfterRead
    <2> QED
      BY <2>1, <2>2, <2>3, <2>4, JobTypesBack, PTL
  <1>2. CASE ArmInstall
    <2>1. Queues'
      BY <1>2 DEF ArmInstall, Install, Queues, jobVars, rowVars
    <2>2. JobTyped'
      BY <1>2 DEF ArmInstall, Install, jobVars, rowVars, ghosts, JobTyped, Cycle
    <2>3. Claimed' /\ Chosen' /\ NoOrphan'
      BY <1>2 DEF ArmInstall, Install, jobVars, rowVars, ghosts, Claimed, Chosen, Ticking, BeforeClaim,
         NoOrphan, Running, Cycle
    <2>4. WaitsAsAsked' /\ Known'
      BY <1>2, Rest DEF ArmInstall, Install, jobVars, rowVars, ghosts, AfterRead
    <2> QED
      BY <2>1, <2>2, <2>3, <2>4, JobTypesBack, PTL
  <1>3. CASE TickDue
    <2>1. /\ stage = "tick" /\ stage' = "trigger" /\ todo' = {r \in Rows : queue[r] \in {"due", "past"}}
          /\ moved' = {r \in Rows : queue[r] = "past"}
          /\ UNCHANGED <<queue, minute, current, signal, event, status, kind, deps, come, read, outcome,
                         faults, writes, crashes, mine, dropped, asked, since>>
      BY <1>3 DEF TickDue, Tick, rowVars
    <2>2. Queues'
      BY <2>1 DEF Queues
    <2>3. JobTyped'
      BY <2>1 DEF JobTyped, Cycle
    <2>4. Chosen'
      <3>1. \A r \in todo' : r \in Rows /\ queue[r] \in {"due", "past"}
        BY <2>1
      <3>2. \A r \in todo' : InTime(r)'
        BY <2>1, <3>1 DEF Queues, QueueOk, Runs, InTime, Live
      <3> QED
        BY <2>1, <3>2 DEF Chosen, Ticking, BeforeClaim
    <2>5. Claimed' /\ NoOrphan' /\ WaitsAsAsked' /\ Known'
      BY <2>1 DEF Claimed, NoOrphan, Running, Cycle, WaitsAsAsked, Known, AfterRead
    <2> QED
      BY <2>2, <2>3, <2>4, <2>5, JobTypesBack, PTL
  <1>4. CASE Sleep
    <2>1. /\ stage = "trigger" /\ stage' = "arm" /\ moved' = {} /\ todo = {}
          /\ UNCHANGED <<queue, minute, todo, current, signal, event, status, kind, deps, come, read,
                         outcome, faults, writes, crashes, mine, dropped, asked, since>>
      BY <1>4 DEF Sleep, Slept, rowVars
    <2>2. Queues'
      BY <2>1 DEF Queues
    <2>3. JobTyped'
      BY <2>1 DEF JobTyped, Cycle
    <2>4. Chosen' /\ Claimed' /\ NoOrphan' /\ WaitsAsAsked' /\ Known'
      BY <2>1 DEF Chosen, Ticking, BeforeClaim, Claimed, NoOrphan, Running, Cycle, WaitsAsAsked, Known,
         AfterRead
    <2> QED
      BY <2>2, <2>3, <2>4, JobTypesBack, PTL
  <1>5. CASE EventArm
    <2>1. Queues'
      BY <1>5 DEF EventArm, EventScan, Queues, jobVars, rowVars
    <2>2. JobTyped'
      BY <1>5 DEF EventArm, EventScan, jobVars, rowVars, ghosts, JobTyped
    <2>3. Claimed' /\ Chosen' /\ NoOrphan'
      BY <1>5 DEF EventArm, EventScan, jobVars, rowVars, ghosts, Claimed, Chosen, InTime, NoOrphan,
         Running
    <2>4. WaitsAsAsked' /\ Known'
      BY <1>5, Rest DEF EventArm, EventScan, jobVars, rowVars, ghosts
    <2> QED
      BY <2>1, <2>2, <2>3, <2>4, JobTypesBack, PTL
  <1>6. CASE EventArmed
    <2>1. Queues'
      BY <1>6 DEF EventArmed, EventInstall, Queues, jobVars, rowVars
    <2>2. JobTyped'
      BY <1>6 DEF EventArmed, EventInstall, jobVars, rowVars, ghosts, JobTyped
    <2>3. Claimed' /\ Chosen' /\ NoOrphan'
      BY <1>6 DEF EventArmed, EventInstall, jobVars, rowVars, ghosts, Claimed, Chosen, InTime, NoOrphan,
         Running
    <2>4. WaitsAsAsked' /\ Known'
      BY <1>6, Rest DEF EventArmed, EventInstall, jobVars, rowVars, ghosts
    <2> QED
      BY <2>1, <2>2, <2>3, <2>4, JobTypesBack, PTL
  <1>7. ASSUME NEW r \in Rows, TriggerJob(r) PROVE JobInv'
    <2>1. Queues'
      <3>1. QueueOk(queue', kind', come')
        BY <1>7, QueueWithout DEF TriggerJob, Trigger, Queues, jobVars, rowVars
      <3> QED
        BY <1>7, <3>1 DEF TriggerJob, Trigger, Queues, jobVars, rowVars
    <2>2. JobTyped'
      BY <1>7 DEF TriggerJob, Trigger, jobVars, rowVars, ghosts, JobTyped, Cycle
    <2>3. Claimed' /\ Chosen' /\ NoOrphan'
      BY <1>7 DEF TriggerJob, Trigger, jobVars, rowVars, ghosts, Claimed, Chosen, InTime, Ticking,
         BeforeClaim, NoOrphan, Running, Cycle
    <2>4. WaitsAsAsked' /\ Known'
      BY <1>7, Rest DEF TriggerJob, Trigger, jobVars, rowVars, ghosts, AfterRead
    <2> QED
      BY <2>1, <2>2, <2>3, <2>4, JobTypesBack, PTL
  <1> QED
    BY <1>1, <1>2, <1>3, <1>4, <1>5, <1>6, <1>7

\* The trigger of the current row, from its check to its claim.
LEMMA BeforeClaimInv ==
  ASSUME JobAssumption, JobInv, Check \/ Gate \/ Claim \/ ClaimLost
  PROVE  JobInv'
  <1> USE JobTypes DEF JobInv
  <1>0. current \in Rows /\ kind[current] # "plain" /\ Running /\ InTime(current) /\ mine = dropped
    BY DEF Check, Gate, Claim, ClaimLost, Chosen, Ticking, BeforeClaim, Running, Cycle, NoOrphan,
       JobTyped
  <1>1. CASE Check
    <2>1. /\ UNCHANGED <<queue, minute, todo, signal, event, status, kind, deps, come, outcome, faults,
                         writes, crashes, mine, dropped, asked, moved>>
          /\ stage = "check" /\ since' = {}
          /\ \/ /\ stage' = "gate" /\ current' = current
                /\ read' = [cron |-> kind[current] = "cron", needs |-> deps[current], stale |-> FALSE]
             \/ stage' = "trigger" /\ current' = None /\ UNCHANGED read
      BY <1>1 DEF Check, Goes, Triggered, rowVars
    <2>2. Queues'
      BY <2>1 DEF Queues
    <2>3. [cron |-> kind[current] = "cron", needs |-> deps[current], stale |-> FALSE] \in ReadType
      BY <1>0 DEF ReadType, JobTyped
    <2>4. JobTyped'
      BY <2>1, <2>3 DEF JobTyped, Cycle
    <2>5. Chosen' /\ Claimed' /\ NoOrphan' /\ WaitsAsAsked'
      BY <1>0, <2>1 DEF Chosen, InTime, Ticking, BeforeClaim, Claimed, NoOrphan, Running, Cycle,
         WaitsAsAsked
    <2>6. Known'
      <3>1. CASE stage' = "gate"
        <4>1. read' \in ReadType /\ current' = current
          BY <2>1, <2>3, <3>1
        <4>2. read'.needs = deps'[current']
          BY <2>1, <3>1
        <4>3. read'.cron => kind'[current'] = "cron"
          <5>1. UNCHANGED <<current, kind>>
                /\ read' = [cron |-> kind[current] = "cron", needs |-> deps[current], stale |-> FALSE]
            BY <2>1, <3>1
          <5>2. read'.cron <=> kind[current] = "cron"
            BY <5>1, Zenon
          <5> QED
            BY <5>1, <5>2
        <4> QED
          BY <3>1, <4>1, <4>2, <4>3 DEF Known, AfterRead
      <3>2. CASE stage' = "trigger"
        BY <3>2 DEF Known, AfterRead
      <3> QED
        BY <2>1, <3>1, <3>2
    <2> QED
      BY <2>2, <2>4, <2>5, <2>6, JobTypesBack, PTL
  <1>2. CASE Gate
    <2>1. /\ UNCHANGED <<queue, minute, todo, signal, event, status, kind, deps, come, outcome, faults,
                         writes, crashes, mine, dropped, asked, moved, since>>
          /\ stage = "gate"
          /\ \/ stage' = "claim" /\ UNCHANGED <<current, read>> /\ Blocking(read.needs) = {}
             \/ stage' = "trigger" /\ current' = None /\ read' = None
      BY <1>2 DEF Gate, Goes, Triggered, rowVars, ghosts
    <2>2. Queues'
      BY <2>1 DEF Queues
    <2>3. JobTyped'
      BY <2>1 DEF JobTyped, Cycle
    <2>4. Chosen' /\ Claimed' /\ NoOrphan' /\ WaitsAsAsked'
      BY <1>0, <2>1 DEF Chosen, InTime, Ticking, BeforeClaim, Claimed, NoOrphan, Running, Cycle,
         WaitsAsAsked
    <2>5. Known'
      BY <2>1 DEF Known, AfterRead, BlockedBy, Blocking
    <2> QED
      BY <2>2, <2>3, <2>4, <2>5, JobTypesBack, PTL
  <1>3. CASE Claim
    <2>1. /\ stage = "claim" /\ stage' = "run" /\ current' = current /\ signal' \in BOOLEAN
          /\ UNCHANGED <<queue, minute, todo, event, kind, deps, come, read, outcome, faults, writes,
                         crashes, dropped, moved, since>>
          /\ mine' = mine \cup {current} /\ status[current] \in Queued
      BY <1>3 DEF Claim, Claims, Goes, Signalled, JobTyped, Running
    <2>2. /\ status' \in [Rows -> Statuses] /\ asked' \in [Rows -> {"run", "pause", "none"}]
          /\ status'[current] = "in_progress"
          /\ \A s \in Rows \ {current} : status'[s] = status[s] /\ asked'[s] = asked[s]
      BY <1>0, <1>3 DEF Claim, Claims, JobTyped, Statuses
    <2>3. Queues'
      BY <2>1 DEF Queues
    <2>4. JobTyped'
      BY <1>0, <2>1, <2>2 DEF JobTyped, Cycle
    <2>5. WaitsAsAsked'
      BY <1>0, <2>1, <2>2 DEF WaitsAsAsked, Queued
    <2>6. current \notin dropped
      BY <2>1, <1>0 DEF Claimed, Queued
    <2>7. Claimed' /\ NoOrphan'
      BY <1>0, <2>1, <2>2, <2>6 DEF Claimed, NoOrphan, Running, Cycle, JobTyped
    <2>8. Chosen' /\ Known'
      BY <1>0, <2>1 DEF Chosen, InTime, Ticking, BeforeClaim, Known, AfterRead
    <2> QED
      BY <2>3, <2>4, <2>5, <2>7, <2>8, JobTypesBack, PTL
  <1>4. CASE ClaimLost
    <2>1. /\ UNCHANGED <<queue, minute, todo, signal, event, status, kind, deps, come, outcome, faults,
                         writes, crashes, mine, dropped, asked, moved, since>>
          /\ stage = "claim" /\ stage' = "trigger" /\ current' = None /\ read' = None
      BY <1>4 DEF ClaimLost, Triggered, rowVars, ghosts
    <2>2. Queues'
      BY <2>1 DEF Queues
    <2>3. JobTyped'
      BY <2>1 DEF JobTyped, Cycle
    <2>4. Chosen' /\ Claimed' /\ NoOrphan' /\ WaitsAsAsked' /\ Known'
      BY <1>0, <2>1 DEF Chosen, InTime, Ticking, BeforeClaim, Claimed, NoOrphan, Running, Cycle,
         WaitsAsAsked, Known, AfterRead
    <2> QED
      BY <2>2, <2>3, <2>4, JobTypesBack, PTL
  <1> QED
    BY <1>1, <1>2, <1>3, <1>4

\* ... and from its claim to its end.
LEMMA AfterClaimInv ==
  ASSUME JobAssumption, JobInv,
         Settle \/ (\E o \in Outcomes : Executed(o))
         \/ \E moment \in Runs : Rearm(moment) \/ RearmRefused(moment)
  PROVE  JobInv'
  <1> USE JobTypes DEF JobInv
  <1>0. current \in Rows /\ kind[current] # "plain" /\ Running /\ stage \in AfterRead
    BY DEF Settle, Executed, Rearm, RearmRefused, Chosen, Ticking, Running, Cycle, AfterRead
  <1>1. ASSUME NEW o \in Outcomes, Executed(o) PROVE JobInv'
    <2>1. /\ UNCHANGED <<queue, minute, todo, signal, event, current, status, kind, deps, come, read,
                         faults, writes, crashes, mine, dropped, asked, moved, since>>
          /\ stage = "run" /\ stage' = "settle" /\ outcome' \in Outcomes
      BY <1>1 DEF Executed, Goes, rowVars, ghosts
    <2>2. Queues'
      BY <2>1 DEF Queues
    <2>3. JobTyped'
      BY <2>1 DEF JobTyped, Cycle
    <2>4. Chosen' /\ Claimed' /\ NoOrphan' /\ WaitsAsAsked' /\ Known'
      BY <2>1 DEF Chosen, InTime, Ticking, BeforeClaim, Claimed, NoOrphan, Running, Cycle, WaitsAsAsked,
         Known, AfterRead
    <2> QED
      BY <2>2, <2>3, <2>4, JobTypesBack, PTL
  <1>2. CASE Settle
    <2>1. /\ UNCHANGED <<queue, minute, todo, event, kind, deps, come, faults, writes, crashes, dropped,
                         asked, moved, since>>
          /\ signal' \in BOOLEAN /\ stage = "settle" /\ outcome \in Outcomes
          /\ mine' = mine \ {current} /\ mine' = dropped
          /\ \/ stage' = "rearm" /\ read.cron /\ UNCHANGED <<current, outcome, read>>
             \/ stage' = "trigger" /\ current' = None /\ outcome' = None /\ read' = None
      BY <1>0, <1>2 DEF Settle, Settles, Signalled, Goes, Triggered, Chosen, JobTyped, Claimed, NoOrphan,
         Running
    <2>2. /\ status' \in [Rows -> Statuses] /\ status'[current] \in Outcomes \cup {"gone"}
          /\ \A s \in Rows \ {current} : status'[s] = status[s]
      BY <1>0, <1>2, <2>1 DEF Settle, Settles, JobTyped, Statuses
    <2>3. Queues'
      BY <2>1 DEF Queues
    <2>4. JobTyped'
      BY <2>1, <2>2 DEF JobTyped, Cycle
    <2>5. WaitsAsAsked'
      BY <2>1, <2>2 DEF WaitsAsAsked, Queued, Outcomes
    <2>6. Claimed' /\ NoOrphan'
      <3>1. current \notin dropped /\ \A r \in dropped : r \in Rows \ {current} /\ status'[r] = status[r]
        BY <2>1, <2>2 DEF Claimed, JobTyped
      <3> QED
        BY <1>0, <2>1, <3>1 DEF Claimed, NoOrphan, Running, Cycle, JobTyped
    <2>7. Chosen' /\ Known'
      BY <1>0, <2>1 DEF Chosen, InTime, Ticking, BeforeClaim, Known, AfterRead
    <2> QED
      BY <2>3, <2>4, <2>5, <2>6, <2>7, JobTypesBack, PTL
  <1>3. ASSUME NEW moment \in Runs, stage = "rearm", Requeued(moment)
        PROVE  QueueOk(queue', kind, come) /\ mine = dropped
    <2>1. moment \in {"later", "due"} => kind[current] = "cron"
      BY <1>3 DEF Requeued, Known, AfterRead
    <2>2. QueueOk(queue', kind, come)
      BY <1>0, <1>3, <2>1, QueueWith DEF Requeued, Queues
    <2> QED
      BY <1>3, <2>2 DEF NoOrphan, Running, Cycle, JobTyped
  <1>4. ASSUME NEW moment \in Runs, Rearm(moment) PROVE JobInv'
    <2>1. /\ UNCHANGED <<minute, todo, event, kind, deps, come, faults, writes, crashes, mine, dropped,
                         moved, since>>
          /\ signal' \in BOOLEAN /\ stage = "rearm" /\ stage' = "trigger" /\ current' = None
          /\ outcome' = None /\ read' = None
      BY <1>4 DEF Rearm, Signalled, Triggered, JobTyped, Running
    <2>2. QueueOk(queue', kind', come') /\ mine = dropped
      BY <1>3, <1>4, <2>1 DEF Rearm
    <2>3. Queues'
      BY <2>1, <2>2 DEF Queues
    <2>4. /\ status' \in [Rows -> Statuses] /\ asked' \in [Rows -> {"run", "pause", "none"}]
          /\ status'[current] \in {"gone", "scheduled"} /\ asked'[current] = "run"
          /\ \A s \in Rows \ {current} : status'[s] = status[s] /\ asked'[s] = asked[s]
      BY <1>0, <1>4 DEF Rearm, Rescheduled, JobTyped, Statuses, Queued
    <2>5. JobTyped'
      BY <2>1, <2>4 DEF JobTyped, Cycle
    <2>6. WaitsAsAsked'
      BY <2>1, <2>4 DEF WaitsAsAsked
    <2>7. Claimed' /\ NoOrphan'
      <3>1. \A r \in mine : r \in Rows \ {current} /\ status'[r] = status[r]
        BY <2>1, <2>2, <2>4 DEF Claimed, JobTyped
      <3> QED
        BY <1>0, <2>1, <2>2, <3>1 DEF Claimed, NoOrphan, Running, Cycle
    <2>8. Chosen' /\ Known'
      BY <2>1 DEF Chosen, InTime, Ticking, BeforeClaim, Known, AfterRead
    <2> QED
      BY <2>3, <2>5, <2>6, <2>7, <2>8, JobTypesBack, PTL
  <1>5. ASSUME NEW moment \in Runs, RearmRefused(moment) PROVE JobInv'
    <2>1. /\ UNCHANGED <<minute, signal, event, status, kind, deps, come, faults, writes, crashes, mine,
                         dropped, asked, moved, since>>
          /\ stage = "rearm" /\ stage' = "trigger" /\ current' = None /\ todo' = {}
          /\ outcome' = None /\ read' = None
      BY <1>5 DEF RearmRefused, TickDied, rowVars, ghosts
    <2>2. QueueOk(queue', kind', come') /\ mine = dropped
      BY <1>3, <1>5, <2>1 DEF RearmRefused
    <2>3. Queues'
      BY <2>1, <2>2 DEF Queues
    <2>4. JobTyped'
      BY <2>1 DEF JobTyped, Cycle
    <2>5. Chosen' /\ Claimed' /\ NoOrphan' /\ WaitsAsAsked' /\ Known'
      BY <2>1, <2>2 DEF Chosen, Ticking, BeforeClaim, Claimed, NoOrphan, Running, Cycle, WaitsAsAsked,
         Known, AfterRead
    <2> QED
      BY <2>3, <2>4, <2>5, JobTypesBack, PTL
  <1> QED
    BY <1>1, <1>2, <1>4, <1>5

\* The deaths.
LEMMA DeathsInv ==
  ASSUME JobAssumption, JobInv, Deaths
  PROVE  JobInv'
  <1> USE JobTypes DEF JobInv
  <1>0. faults' \in 0 .. MaxFaults
    BY DEF Deaths, ArmDies, TriggerDies, PatchDies, Faulty, JobAssumption, JobTyped
  <1>1. CASE ArmDies
    <2>1. UNCHANGED <<status, kind, deps, come, read, outcome, writes, crashes, mine, asked, moved, since>>
      BY <1>1 DEF ArmDies, rowVars
    <2>2. CASE StartDied /\ dropped' = mine
      <3>1. stage' = "arm" /\ UNCHANGED <<queue, event, current, signal>> /\ minute' = None /\ todo' = {}
        BY <2>2 DEF StartDied
      <3>2. Queues'
        BY <2>1, <3>1 DEF Queues
      <3>3. JobTyped'
        BY <1>0, <2>1, <2>2, <3>1 DEF JobTyped, Cycle
      <3>4. Chosen' /\ Claimed' /\ NoOrphan' /\ WaitsAsAsked' /\ Known'
        BY <2>1, <2>2, <3>1 DEF Chosen, Ticking, BeforeClaim, Claimed, NoOrphan, Running, Cycle,
           WaitsAsAsked, Known, AfterRead
      <3> QED
        BY <3>2, <3>3, <3>4, JobTypesBack, PTL
    <2>3. CASE ArmDied /\ UNCHANGED dropped
      <3>1. stage = "arm" /\ stage' = "tick" /\ UNCHANGED <<queue, minute, event, todo, current, signal>>
        BY <2>3 DEF ArmDied
      <3>2. Queues'
        BY <2>1, <3>1 DEF Queues
      <3>3. JobTyped'
        BY <1>0, <2>1, <2>3, <3>1 DEF JobTyped, Cycle
      <3>4. Chosen' /\ Claimed' /\ NoOrphan' /\ WaitsAsAsked' /\ Known'
        BY <2>1, <2>3, <3>1 DEF Chosen, Ticking, BeforeClaim, Claimed, NoOrphan, Running, Cycle,
           WaitsAsAsked, Known, AfterRead
      <3> QED
        BY <3>2, <3>3, <3>4, JobTypesBack, PTL
    <2>4. CASE EventDied /\ UNCHANGED dropped
      <3>1. signal' \in BOOLEAN /\ UNCHANGED <<stage, queue, minute, event, todo, current>>
        BY <2>4 DEF EventDied
      <3>2. Queues'
        BY <2>1, <3>1 DEF Queues
      <3>3. JobTyped'
        BY <1>0, <2>1, <2>4, <3>1 DEF JobTyped
      <3>4. Chosen' /\ Claimed' /\ NoOrphan' /\ WaitsAsAsked' /\ Known'
        BY <2>1, <2>4, <3>1 DEF Chosen, InTime, Claimed, NoOrphan, Running, WaitsAsAsked, Known,
           BlockedBy, Blocking
      <3> QED
        BY <3>2, <3>3, <3>4, JobTypesBack, PTL
    <2> QED
      BY <1>1, <2>2, <2>3, <2>4 DEF ArmDies
  <1>2. CASE TriggerDies
    <2>1. /\ stage \in {"check", "gate", "claim", "settle"} /\ stage' = "trigger" /\ todo' = {}
          /\ current' = None /\ outcome' = None /\ read' = None
          /\ dropped' = dropped \cup ({current} \cap mine)
          /\ UNCHANGED <<queue, minute, signal, event, status, kind, deps, come, writes, crashes, mine,
                         asked, moved, since>>
      BY <1>2 DEF TriggerDies, TickDied, rowVars
    <2>2. Queues'
      BY <2>1 DEF Queues
    <2>3. JobTyped'
      BY <1>0, <2>1 DEF JobTyped, Cycle
    <2>4. Chosen' /\ Claimed' /\ NoOrphan' /\ WaitsAsAsked' /\ Known'
      BY <2>1 DEF Chosen, Ticking, BeforeClaim, Claimed, NoOrphan, Running, Cycle, WaitsAsAsked, Known,
         AfterRead
    <2> QED
      BY <2>2, <2>3, <2>4, JobTypesBack, PTL
  <1>3. CASE PatchDies
    <2>1. /\ stage \in {"claim", "settle", "rearm"} /\ stage' = "trigger" /\ todo' = {}
          /\ current' = None /\ outcome' = None /\ read' = None
          /\ UNCHANGED <<minute, signal, event, kind, deps, come, writes, crashes, moved, since>>
          /\ current \in Rows /\ kind[current] # "plain"
      BY <1>3 DEF PatchDies, TickDied, Chosen, Ticking
    <2>2. QueueOk(queue', kind, come)
      <3>1. CASE UNCHANGED queue
        BY <3>1 DEF Queues
      <3>2. CASE stage = "rearm" /\ \E moment \in Runs : Requeued(moment)
        <4>1. PICK moment \in Runs : Requeued(moment)
          BY <3>2
        <4>2. moment \in {"later", "due"} => kind[current] = "cron"
          BY <3>2, <4>1 DEF Requeued, Known, AfterRead
        <4> QED
          BY <2>1, <4>1, <4>2, QueueWith DEF Requeued, Queues
      <3> QED
        BY <1>3, <3>1, <3>2 DEF PatchDies
    <2>3. Queues'
      BY <2>1, <2>2 DEF Queues
    <2>4. /\ Chosen' /\ Known'
      BY <2>1 DEF Chosen, Ticking, BeforeClaim, Known, AfterRead
    <2>5. CASE stage = "claim"
      <3>1. /\ mine' = mine \cup {current} /\ dropped' = dropped \cup {current}
            /\ status' \in [Rows -> Statuses] /\ asked' \in [Rows -> {"run", "pause", "none"}]
            /\ status'[current] = "in_progress"
            /\ \A s \in Rows \ {current} : status'[s] = status[s] /\ asked'[s] = asked[s]
        BY <1>3, <2>1, <2>5 DEF PatchDies, Claims, JobTyped, Statuses
      <3>2. JobTyped'
        BY <1>0, <2>1, <3>1 DEF JobTyped, Cycle
      <3>3. WaitsAsAsked'
        BY <2>1, <3>1 DEF WaitsAsAsked, Queued
      <3>4. Claimed' /\ NoOrphan'
        BY <2>1, <2>5, <3>1 DEF Claimed, NoOrphan, Running, Cycle, JobTyped
      <3> QED
        BY <2>3, <2>4, <3>2, <3>3, <3>4, JobTypesBack, PTL
    <2>6. CASE stage = "settle"
      <3>1. /\ mine' = mine \ {current} /\ UNCHANGED <<asked, dropped>>
            /\ status' \in [Rows -> Statuses] /\ status'[current] \in Outcomes \cup {"gone"}
            /\ \A s \in Rows \ {current} : status'[s] = status[s]
        BY <1>3, <2>1, <2>6 DEF PatchDies, Settles, JobTyped, Statuses, Chosen
      <3>2. current \notin dropped /\ mine' = dropped
            /\ \A r \in dropped : r \in Rows \ {current} /\ status'[r] = status[r]
        BY <2>6, <3>1 DEF Claimed, JobTyped, NoOrphan, Running, Cycle
      <3>3. JobTyped'
        BY <1>0, <2>1, <3>1, <3>2 DEF JobTyped, Cycle
      <3>4. WaitsAsAsked'
        BY <2>1, <3>1 DEF WaitsAsAsked, Queued, Outcomes
      <3>5. Claimed' /\ NoOrphan'
        BY <2>1, <2>6, <3>1, <3>2 DEF Claimed, NoOrphan, Running, Cycle, JobTyped
      <3> QED
        BY <2>3, <2>4, <3>3, <3>4, <3>5, JobTypesBack, PTL
    <2>7. CASE stage = "rearm"
      <3>1. UNCHANGED <<mine, dropped>> /\ mine = dropped /\ current \notin mine
        BY <1>3, <2>7 DEF PatchDies, Claimed, NoOrphan, Running, Cycle, JobTyped
      <3>2. /\ status' \in [Rows -> Statuses] /\ asked' \in [Rows -> {"run", "pause", "none"}]
            /\ UNCHANGED <<status, asked>> \/ asked'[current] = "run"
            /\ \A s \in Rows \ {current} : status'[s] = status[s] /\ asked'[s] = asked[s]
        BY <1>3, <2>1, <2>7 DEF PatchDies, Rescheduled, JobTyped, Statuses, Queued
      <3>3. JobTyped'
        BY <1>0, <2>1, <3>1, <3>2 DEF JobTyped, Cycle
      <3>4. WaitsAsAsked'
        BY <2>1, <3>2 DEF WaitsAsAsked
      <3>5. Claimed' /\ NoOrphan'
        <4>1. \A r \in mine : r \in Rows \ {current} /\ status'[r] = status[r]
          BY <3>1, <3>2 DEF JobTyped
        <4> QED
          BY <2>1, <2>7, <3>1, <4>1 DEF Claimed, NoOrphan, Running, Cycle
      <3> QED
        BY <2>3, <2>4, <3>3, <3>4, <3>5, JobTypesBack, PTL
    <2> QED
      BY <2>1, <2>5, <2>6, <2>7
  <1> QED
    BY <1>1, <1>2, <1>3 DEF Deaths

\* What a write of others does to row r, and what it leaves alone.
LEMMA WrittenRow ==
  ASSUME JobAssumption, JobInv, NEW r \in Rows, NEW s \in Statuses,
         NEW ask \in {"run", "pause", "none"}, Written(r, s, ask)
  PROVE  /\ UNCHANGED <<stage, todo, current, outcome, faults, crashes>>
         /\ signal' \in BOOLEAN /\ writes' \in 0 .. MaxWrites
         /\ mine' \in {mine, mine \ {r}} /\ (s # "in_progress" => r \notin mine')
         /\ mine' \subseteq mine /\ dropped' = dropped \cap mine'
         /\ since' \in {since, since \cup {r}}
         /\ stage \in {"gate", "claim"} => since' = since \cup {r}
         /\ status' \in [Rows -> Statuses] /\ asked' \in [Rows -> {"run", "pause", "none"}]
         /\ status'[r] = s /\ asked'[r] = ask
         /\ \A q \in Rows \ {r} : status'[q] = status[q] /\ asked'[q] = asked[q]
  <1> USE JobTypes DEF JobInv
  <1>1. signal' \in BOOLEAN
    BY DEF Written, Signalled, JobTyped, Running
  <1>2. writes' \in 0 .. MaxWrites
    BY DEF Written, JobTyped, JobAssumption
  <1>3. /\ mine' \in {mine, mine \ {r}} /\ (s # "in_progress" => r \notin mine')
        /\ mine' \subseteq mine /\ dropped' = dropped \cap mine'
    BY DEF Written, JobTyped
  <1>4. /\ status' \in [Rows -> Statuses] /\ asked' \in [Rows -> {"run", "pause", "none"}]
        /\ status'[r] = s /\ asked'[r] = ask
        /\ \A q \in Rows \ {r} : status'[q] = status[q] /\ asked'[q] = asked[q]
    BY DEF Written, JobTyped
  <1> QED
    BY <1>1, <1>2, <1>3, <1>4 DEF Written

\* What of the invariant a write of others keeps, whatever it does to the schedule.
LEMMA WrittenInv ==
  ASSUME JobAssumption, JobInv, NEW r \in Rows, NEW s \in Statuses,
         NEW ask \in {"run", "pause", "none"}, Written(r, s, ask),
         kind'[r] # "plain" /\ s \in Queued => ask = "run",
         kind' \in [Rows -> Kinds], kind[r] # "plain" => kind'[r] # "plain",
         \A q \in Rows \ {r} : kind'[q] = kind[q]
  PROVE  WaitsAsAsked' /\ Claimed' /\ NoOrphan'
  <1> USE JobTypes DEF JobInv
  <1>1. WaitsAsAsked'
    BY WrittenRow DEF WaitsAsAsked
  <1>2. \A q \in mine' : status'[q] = "in_progress" /\ kind'[q] # "plain"
    BY WrittenRow DEF Claimed, JobTyped
  <1>3. Claimed' /\ NoOrphan'
    BY <1>2, WrittenRow DEF Claimed, NoOrphan, Running
  <1> QED
    BY <1>1, <1>3

\* What is blocked after a write was blocked before, or by what was written.
LEMMA WrittenBlocks ==
  ASSUME JobAssumption, JobInv, NEW r \in Rows, NEW s \in Statuses,
         NEW ask \in {"run", "pause", "none"}, Written(r, s, ask),
         stage = "claim", current # r, deps'[current] = deps[current],
         BlockedBy(current) \subseteq since
  PROVE  BlockedBy(current)' \subseteq since'
  <1> USE JobTypes DEF JobInv
  <1>1. /\ UNCHANGED current /\ since' = since \cup {r} /\ current \in Rows
        /\ \A q \in Rows \ {r} : status'[q] = status[q]
    BY WrittenRow DEF Chosen, Ticking
  <1>2. deps[current] \subseteq Rows
    BY <1>1 DEF JobTyped
  <1>3. BlockedBy(current)' = {d \in deps[current] : status'[d] \notin Outcomes \cup {"gone"}}
    BY <1>1 DEF BlockedBy, Blocking
  <1>4. BlockedBy(current) = {d \in deps[current] : status[d] \notin Outcomes \cup {"gone"}}
    BY DEF BlockedBy, Blocking
  <1> QED
    BY <1>1, <1>2, <1>3, <1>4

LEMMA PatchedInv ==
  ASSUME JobAssumption, JobInv, NEW r \in Rows, NEW s \in Statuses,
         NEW ask \in {"run", "pause", "none"}, Patched(r, s, ask), s \in Queued => ask = "run"
  PROVE  JobInv'
  <1> USE JobTypes DEF JobInv
  <1>1. Written(r, s, ask) /\ UNCHANGED <<queue, minute, event, kind, deps, come, read, moved>>
    BY DEF Patched
  <1>2. Queues'
    BY <1>1, WrittenRow DEF Queues
  <1>3. JobTyped'
    BY <1>1, WrittenRow DEF JobTyped
  <1>4. Chosen'
    BY <1>1, WrittenRow DEF Chosen, InTime
  <1>5. WaitsAsAsked' /\ Claimed' /\ NoOrphan'
    BY <1>1, WrittenInv DEF JobTyped
  <1>6. Known'
    <2>1. stage = "claim" => current \in since' \/ BlockedBy(current)' \subseteq since'
      BY <1>1, WrittenRow, WrittenBlocks DEF Known
    <2> QED
      BY <1>1, <2>1, WrittenRow DEF Known
  <1> QED
    BY <1>2, <1>3, <1>4, <1>5, <1>6, JobTypesBack, PTL

LEMMA EditInv ==
  ASSUME JobAssumption, JobInv, NEW r \in Rows, NEW s \in Queued \cup {"in_progress", "completed"},
         NEW k \in Kinds, NEW moves \in BOOLEAN, NEW D \in SUBSET Rows, Edit(r, s, k, moves, D)
  PROVE  JobInv'
  <1> USE JobTypes DEF JobInv
  <1> DEFINE ask == IF s \in Queued /\ k # "plain" THEN "run" ELSE "none"
  <1>1. /\ Written(r, s, ask) /\ s \in Statuses /\ ask \in {"run", "pause", "none"}
        /\ kind' = [kind EXCEPT ![r] = k] /\ deps' = [deps EXCEPT ![r] = D]
        /\ kind[r] # "plain" => k # "plain"
        /\ k # kind[r] => moves
        /\ moves => k # "plain"
    BY DEF Edit, Replaces, Statuses, Outcomes
  <1> HIDE DEF ask
  <1>2. /\ kind' \in [Rows -> Kinds] /\ kind'[r] = k /\ \A q \in Rows \ {r} : kind'[q] = kind[q]
        /\ deps' \in [Rows -> SUBSET Rows] /\ \A q \in Rows \ {r} : deps'[q] = deps[q]
    BY <1>1 DEF JobTyped
  <1>3. /\ come' \subseteq {q \in Rows : kind'[q] = "once"}
        /\ \A q \in Rows \ {r} : q \in come' <=> q \in come
        /\ ~moves => come' = come /\ kind' = kind
    <2>1. come' \in {come, come \ {r}, come \cup {r}} /\ (k # "once" => come' = come \ {r})
          /\ (~moves /\ k = "once" => come' = come)
      BY DEF Edit
    <2>2. ~moves => kind' = kind
      BY <1>1, <1>2 DEF JobTyped
    <2>3. k # "once" => r \notin come'
      BY <2>1
    <2>4. \A q \in Rows \ {r} : q \in come' <=> q \in come
      BY <2>1
    <2>5. come' \subseteq {q \in Rows : kind'[q] = "once"}
      BY <1>2, <2>1, <2>3, <2>4 DEF JobTyped
    <2>6. ~moves /\ k # "once" => r \notin come
      BY <1>2, <2>2 DEF JobTyped
    <2> QED
      BY <2>1, <2>2, <2>4, <2>5, <2>6
  <1>4. CASE moves
    <2>1. /\ queue' = Outdated(r, queue) /\ minute' = Outdated(r, minute) /\ event' = Outdated(r, event)
          /\ moved' = IF stage \in Ticking THEN moved \cup {r} ELSE moved
          /\ read' = IF read # None /\ r = current THEN [read EXCEPT !.stale = TRUE] ELSE read
      BY <1>4 DEF Edit
    <2>2. \A q : QueueOk(q, kind, come) => QueueOk(Outdated(r, q), kind', come')
      BY <1>1, <1>2, <1>3, <1>4, OutdatedOk
    <2>3. \A q : q = None => Outdated(r, q) = None
      BY DEF Outdated
    <2>4. Queues'
      BY <1>1, <2>1, <2>2, <2>3, WrittenRow DEF Queues
    <2>5. read' \in ReadType \cup {None}
      BY <2>1 DEF JobTyped, ReadType
    <2>6. JobTyped'
      BY <1>1, <1>2, <1>3, <2>1, <2>5, WrittenRow DEF JobTyped
    <2>7. Chosen'
      <3>1. \A q \in Rows : stage \in Ticking /\ InTime(q) => InTime(q)'
        BY <1>1, <1>2, <1>3, <1>4, <2>1 DEF InTime
      <3> QED
        BY <1>1, <1>2, <1>4, <3>1, WrittenRow DEF Chosen, JobTyped, Ticking, BeforeClaim
    <2>8. Known'
      <3>1. stage = "claim" => current \in since' \/ BlockedBy(current)' \subseteq since'
        BY <1>1, <1>2, WrittenRow, WrittenBlocks DEF Known, Chosen, Ticking
      <3>2. stage \in AfterRead => /\ read' \in ReadType
                                   /\ read'.cron /\ ~read'.stale => kind'[current] = "cron"
                                   /\ read'.needs = read.needs /\ read'.cron = read.cron
        <4>1. CASE read # None /\ r = current
          BY <2>1, <4>1 DEF Known, ReadType
        <4>2. CASE r # current
          BY <1>2, <2>1, <4>2 DEF Known, Chosen, Ticking, AfterRead
        <4>3. CASE read = None /\ r = current
          BY <2>1, <4>3 DEF Known, ReadType, AfterRead, JobAssumption
        <4> QED
          BY <4>1, <4>2, <4>3
      <3> QED
        BY <1>1, <1>2, <3>1, <3>2, WrittenRow DEF Known, Chosen, Ticking, AfterRead
    <2>9. WaitsAsAsked' /\ Claimed' /\ NoOrphan'
      BY <1>1, <1>2, WrittenInv DEF ask
    <2> QED
      BY <2>4, <2>6, <2>7, <2>8, <2>9, JobTypesBack, PTL
  <1>5. CASE ~moves
    <2>1. UNCHANGED <<queue, minute, event, moved, read, kind, come>>
      BY <1>3, <1>5 DEF Edit
    <2>2. Queues'
      BY <1>1, <2>1, WrittenRow DEF Queues
    <2>3. JobTyped'
      BY <1>1, <1>2, <1>3, <2>1, WrittenRow DEF JobTyped
    <2>4. Chosen'
      BY <1>1, <2>1, WrittenRow DEF Chosen, InTime
    <2>5. Known'
      <3>1. stage = "claim" => current \in since' \/ BlockedBy(current)' \subseteq since'
        BY <1>1, <1>2, WrittenRow, WrittenBlocks DEF Known, Chosen, Ticking
      <3> QED
        BY <1>1, <1>2, <2>1, <3>1, WrittenRow DEF Known, Chosen, Ticking, AfterRead
    <2>6. WaitsAsAsked' /\ Claimed' /\ NoOrphan'
      BY <1>1, <1>2, WrittenInv DEF ask
    <2> QED
      BY <2>2, <2>3, <2>4, <2>5, <2>6, JobTypesBack, PTL
  <1> QED
    BY <1>4, <1>5

LEMMA OthersInv ==
  ASSUME JobAssumption, JobInv, Others
  PROVE  JobInv'
  <1>1. PICK r \in Rows :
          \/ Pause(r) \/ Resume(r) \/ Remove(r)
          \/ \E s \in Queued \cup {"in_progress", "completed"}, k \in Kinds, moves \in BOOLEAN,
                D \in SUBSET Rows : Edit(r, s, k, moves, D)
    BY DEF Others
  <1>2. {"cancelled", "scheduled", "gone"} \subseteq Statuses
        /\ "cancelled" \notin Queued /\ "gone" \notin Queued
    BY DEF Statuses, Queued, Outcomes
  <1>3. CASE Pause(r)
    BY <1>2, <1>3, PatchedInv DEF Pause
  <1>4. CASE Resume(r)
    BY <1>2, <1>4, PatchedInv DEF Resume
  <1>5. CASE Remove(r)
    BY <1>2, <1>5, PatchedInv DEF Remove
  <1>6. ASSUME NEW s \in Queued \cup {"in_progress", "completed"}, NEW k \in Kinds,
               NEW moves \in BOOLEAN, NEW D \in SUBSET Rows, Edit(r, s, k, moves, D)
        PROVE  JobInv'
    BY <1>6, EditInv
  <1> QED
    BY <1>1, <1>3, <1>4, <1>5, <1>6

LEMMA CrashInv ==
  ASSUME JobAssumption, JobInv, Crash
  PROVE  JobInv'
  <1> USE JobTypes DEF JobInv
  <1>1. /\ stage' = "off" /\ queue' = Nothing /\ minute' = None /\ event' = None /\ todo' = {}
        /\ current' = None /\ signal' = FALSE /\ outcome' = None /\ read' = None
        /\ dropped' = {} /\ moved' = {} /\ since' = {}
        /\ UNCHANGED <<status, kind, deps, come, faults, writes, mine, asked>>
    BY DEF Crash, Ends, rowVars
  <1>2. Queues'
    BY <1>1, NothingOk DEF Queues
  <1>3. crashes' \in 0 .. MaxCrashes
    BY DEF Crash, JobTyped, JobAssumption
  <1>4. JobTyped'
    BY <1>1, <1>3 DEF JobTyped
  <1>5. Chosen' /\ Known' /\ WaitsAsAsked' /\ Claimed' /\ NoOrphan'
    BY <1>1 DEF Chosen, Ticking, BeforeClaim, Known, AfterRead, WaitsAsAsked, Claimed, NoOrphan,
       Running, Cycle
  <1> QED
    BY <1>2, <1>4, <1>5, JobTypesBack, PTL

LEMMA TimeInv ==
  ASSUME JobAssumption, JobInv, NEW r \in Rows, ClockPasses(r) \/ FormerPasses(r)
  PROVE  JobInv'
  <1> USE JobTypes DEF JobInv
  <1>1. /\ UNCHANGED <<stage, todo, current, signal, status, kind, deps, read, outcome, faults, writes,
                       crashes, mine, dropped, asked, moved, since>>
        /\ come \subseteq come' /\ come' \subseteq {q \in Rows : kind[q] = "once"}
    BY DEF ClockPasses, FormerPasses, jobVars, rowVars, ghosts, JobTyped
  <1>2. Queues'
    <2>1. CASE ClockPasses(r)
      <3>1. /\ queue' = Comes(r, queue) /\ minute' = Comes(r, minute) /\ event' = Comes(r, event)
            /\ kind[r] = "once" => r \in come'
        BY <2>1 DEF ClockPasses
      <3>2. \A q : q = None => Comes(r, q) = None
        BY DEF Comes
      <3>3. \A q : QueueOk(q, kind, come) => QueueOk(Comes(r, q), kind, come')
        BY <1>1, <3>1, ComesOk
      <3> QED
        BY <1>1, <3>1, <3>2, <3>3 DEF Queues
    <2>2. CASE FormerPasses(r)
      <3>1. queue[r] = "former" /\ queue' = [queue EXCEPT ![r] = "past"]
            /\ UNCHANGED <<minute, event, come>>
        BY <2>2 DEF FormerPasses, jobVars, rowVars
      <3>2. kind[r] # "plain"
        BY <3>1 DEF Queues, QueueOk, Runs
      <3>3. QueueOk(queue', kind, come)
        BY <3>1, <3>2, QueueWith DEF Queues, Runs
      <3> QED
        BY <1>1, <3>1, <3>3 DEF Queues
    <2> QED
      BY <2>1, <2>2
  <1>3. JobTyped'
    BY <1>1 DEF JobTyped
  <1>4. Chosen' /\ Known' /\ WaitsAsAsked' /\ Claimed' /\ NoOrphan'
    BY <1>1 DEF Chosen, InTime, Known, BlockedBy, Blocking, WaitsAsAsked, Claimed, NoOrphan, Running
  <1> QED
    BY <1>2, <1>3, <1>4, JobTypesBack, PTL

LEMMA JobInit == JobAssumption /\ Init => JobInv
  <1> SUFFICES ASSUME JobAssumption, Init PROVE JobInv
    OBVIOUS
  <1>1. Queues
    BY NothingOk DEF Init, CoreInit, Queues
  <1>2. JobTyped
    <2>1. /\ kind \in [Rows -> Kinds] /\ status \in [Rows -> Statuses]
          /\ asked \in [Rows -> {"run", "pause", "none"}]
      BY DEF Init, Kinds, Statuses, Queued
    <2>2. 0 \in 0 .. MaxWrites /\ 0 \in 0 .. MaxFaults /\ 0 \in 0 .. MaxCrashes
          /\ deps \in [Rows -> SUBSET Rows]
      BY DEF JobAssumption, Init
    <2> QED
      BY <2>1, <2>2 DEF Init, CoreInit, JobTyped
  <1>3. WaitsAsAsked
    <2>1. \A r \in Rows : kind[r] \in {"once", "cron", "plain"}
      BY DEF Init
    <2>2. \A r \in Rows : asked[r] = IF Live(kind[r]) THEN "run" ELSE "none"
      BY DEF Init
    <2> QED
      BY <2>1, <2>2 DEF WaitsAsAsked, Live
  <1>4. Chosen /\ Known /\ Claimed /\ NoOrphan
    BY DEF Init, CoreInit, Chosen, Ticking, BeforeClaim, Known, AfterRead, Claimed, NoOrphan,
       Running, Cycle
  <1> QED
    BY <1>1, <1>2, <1>3, <1>4, JobTypesBack DEF JobInv

LEMMA JobStep == JobAssumption /\ JobInv /\ [Next]_vars => JobInv'
  <1> SUFFICES ASSUME JobAssumption, JobInv, [Next]_vars PROVE JobInv'
    OBVIOUS
  <1>1. CASE UNCHANGED vars
    BY <1>1 DEF vars, coreVars, jobVars, rowVars, ghosts, JobInv, TypeOK, CoreTypeOK, Queues, Chosen,
       InTime, Known, BlockedBy, Blocking, WaitsAsAsked, Claimed, NoOrphan, Running
  <1>2. CASE Daemon
    BY <1>2, StartupInv, CycleInv, BeforeClaimInv, AfterClaimInv DEF Daemon, TriggerStep
  <1>3. CASE Rearming
    BY <1>3, CycleInv DEF Rearming
  <1>4. CASE Time
    BY <1>4, TimeInv DEF Time
  <1> QED
    BY <1>1, <1>2, <1>3, <1>4, DeathsInv, OthersInv, CrashInv DEF Next

------------------------------------------------------------------------------
(* Work jobs: what follows from it.                                        *)

\* The inductive invariant holds in every state the scheduler reaches.
THEOREM JobInvariance == JobAssumption => (Spec => []JobInv)
  <1> SUFFICES ASSUME JobAssumption PROVE Spec => []JobInv
    OBVIOUS
  <1> QED
    BY JobInit, JobStep, PTL DEF Spec

\* Type correctness.
THEOREM JobTypeCorrect == JobAssumption => (Spec => []TypeOK)
  <1> SUFFICES ASSUME JobAssumption PROVE Spec => []TypeOK
    OBVIOUS
  <1>1. JobInv => TypeOK
    BY DEF JobInv
  <1> QED
    BY <1>1, JobInvariance, PTL

\* Past the startup, a row that is in progress by the scheduler's claim is the job it
\* runs now, or one whose trigger or recovery has died: no write and no end of the
\* process leaves one behind.
THEOREM NoOrphanAlways == JobAssumption => (Spec => []NoOrphan)
  <1> SUFFICES ASSUME JobAssumption PROVE Spec => []NoOrphan
    OBVIOUS
  <1>1. JobInv => NoOrphan
    BY DEF JobInv
  <1> QED
    BY <1>1, JobInvariance, PTL

\* Only the claim takes a row that was not in progress by one, and it takes the row
\* whose trigger stands before it.
LEMMA OnlyClaims ==
  ASSUME JobAssumption, JobInv, [Next]_vars, NEW r \in Started
  PROVE  /\ stage = "claim" /\ r = current /\ Claims
         /\ UNCHANGED <<kind, deps, come, moved, since>>
  <1>1. r \in mine' /\ r \notin mine
    BY DEF Started
  <1>2. mine' # mine /\ ~(mine' \subseteq mine)
    BY <1>1
  <1>3. Claim \/ PatchDies
    <2>1. CASE Startup
      BY <1>2, <2>1 DEF Startup, Start, Sweep, StartArm, Fork, Recover, jobVars, ghosts
    <2>2. CASE ArmScan \/ ArmInstall \/ TickDue \/ Sleep \/ Rearming \/ \E q \in Rows : TriggerJob(q)
      BY <1>2, <2>2 DEF ArmScan, ArmInstall, TickDue, Sleep, TriggerJob, Rearming, EventArm,
         EventArmed, jobVars, ghosts
    <2>3. CASE TriggerStep /\ ~Claim
      BY <1>2, <2>3 DEF TriggerStep, Check, Gate, ClaimLost, Settle, Settles, Executed, Rearm,
         RearmRefused, ghosts
    <2>4. CASE Others
      <3>1. \A q, s, ask : Written(q, s, ask) => mine' \subseteq mine
        BY DEF Written
      <3>2. PICK q \in Rows :
              \/ Pause(q) \/ Resume(q) \/ Remove(q)
              \/ \E s \in Queued \cup {"in_progress", "completed"}, k \in Kinds, moves \in BOOLEAN,
                    D \in SUBSET Rows : Edit(q, s, k, moves, D)
        BY <2>4 DEF Others
      <3>3. ASSUME NEW s \in Queued \cup {"in_progress", "completed"}, NEW k \in Kinds,
                   NEW moves \in BOOLEAN, NEW D \in SUBSET Rows, Edit(q, s, k, moves, D)
            PROVE  mine' \subseteq mine
        BY <3>1, <3>3 DEF Edit
      <3> QED
        BY <1>2, <3>1, <3>2, <3>3 DEF Pause, Resume, Remove, Patched
    <2>5. CASE (ArmDies \/ TriggerDies) \/ Crash \/ Time \/ UNCHANGED vars
      BY <1>2, <2>5 DEF ArmDies, TriggerDies, Crash, Time, ClockPasses, FormerPasses, vars, jobVars,
         ghosts
    <2> QED
      BY <2>1, <2>2, <2>3, <2>4, <2>5 DEF Next, Daemon, Deaths
  <1> QED
    BY <1>1, <1>3 DEF Claim, Claims, PatchDies, Settles

LEMMA StepClaimsAsAsked == JobAssumption /\ JobInv /\ [Next]_vars => ClaimsAsAsked
  <1> SUFFICES ASSUME JobAssumption, JobInv, [Next]_vars, NEW r \in Started
               PROVE  asked[r] = "run"
    BY DEF ClaimsAsAsked
  <1> QED
    BY OnlyClaims DEF Claims, JobInv, Chosen, Ticking, WaitsAsAsked

LEMMA StepClaimsInTime == JobAssumption /\ JobInv /\ [Next]_vars => ClaimsInTime
  <1> SUFFICES ASSUME JobAssumption, JobInv, [Next]_vars, NEW r \in Started
               PROVE  kind[r] = "cron" \/ r \in come \/ r \in moved
    BY DEF ClaimsInTime
  <1> QED
    BY OnlyClaims DEF JobInv, Chosen, BeforeClaim, InTime

LEMMA StepClaimsUnblocked == JobAssumption /\ JobInv /\ [Next]_vars => ClaimsUnblocked
  <1> SUFFICES ASSUME JobAssumption, JobInv, [Next]_vars, NEW r \in Started
               PROVE  r \in since \/ BlockedBy(r) \subseteq since
    BY DEF ClaimsUnblocked
  <1> QED
    BY OnlyClaims DEF JobInv, Known

\* A one-shot job is claimed when its moment has come, whatever stale scan the queue
\* was installed from, unless somebody has replaced its schedule since the tick's scan.
THEOREM ClaimsInTimeAlways == JobAssumption => (Spec => [][ClaimsInTime]_vars)
  <1> SUFFICES ASSUME JobAssumption PROVE Spec => [][ClaimsInTime]_vars
    OBVIOUS
  <1> QED
    BY StepClaimsInTime, JobInvariance, PTL DEF Spec

\* A job is claimed when no row it depends on blocks it, unless somebody has written it
\* or the row that blocks since the trigger's reads.
THEOREM ClaimsUnblockedAlways == JobAssumption => (Spec => [][ClaimsUnblocked]_vars)
  <1> SUFFICES ASSUME JobAssumption PROVE Spec => [][ClaimsUnblocked]_vars
    OBVIOUS
  <1> QED
    BY StepClaimsUnblocked, JobInvariance, PTL DEF Spec

\* A job is claimed only as it was asked (scheduled, resumed, re-armed or recovered
\* after its last start, and neither paused nor settled nor removed since), at its
\* moment and after what it depends on, as far as the trigger can know.
THEOREM StartsAsAsked == JobAssumption => (Spec => StartsAreAsked)
  <1> SUFFICES ASSUME JobAssumption PROVE Spec => StartsAreAsked
    OBVIOUS
  <1>1. JobInv /\ [Next]_vars => ClaimsAsAsked /\ ClaimsInTime /\ ClaimsUnblocked
    BY StepClaimsAsAsked, StepClaimsInTime, StepClaimsUnblocked
  <1> QED
    BY <1>1, JobInvariance, PTL DEF Spec, StartsAreAsked
------------------------------------------------------------------------------
(* Reminders: the inductive invariant.                                     *)

RunQueue == [Rows -> Rem!Times \cup {None}]
EditType == [id : Rows, content : Contents \cup {None}, due : Rem!Times \cup {None},
             key : Contents \X Rem!Times, moves : BOOLEAN \cup {None}]

\* Types; what a scan has yielded is there when it is installed.
RemTyped ==
  /\ Rem!TypeOK
  /\ edit \in [Editors -> EditType \cup {None}]
  /\ stage \in {"recover", "install"} => minute \in RunQueue
  /\ stage \in {"check", "deliver", "failed"} => current \in Rows

\* What is in the inbox are the completed reminders, each once and under its key,
\* which no other reminder has.
Filed ==
  /\ \A r, q \in Rows : r # q /\ Rem!Exists(r) /\ Rem!Exists(q) => row[r].key # row[q].key
  /\ \A d \in inbox : d.id \in Rows /\ row[d.id].status = "completed" /\ d.key = row[d.id].key
  /\ \A d, f \in inbox : d.id = f.id => d = f
  /\ \A r \in Rows : row[r].status = "completed" => \E d \in inbox : d.id = r

\* No more attempts are counted than have failed, also by the failure path that has
\* read the row and not yet written it.
Counted ==
  /\ \A r \in Rows : row[r].attempts <= tries[r] /\ tries[r] <= faults
  /\ stage = "failed" => row[current].attempts < tries[current]
  /\ read # None => stage = "failed" /\ read.attempts < tries[current]

RemInv == RemTyped /\ Filed /\ Counted /\ Rem!GivesUpLate
------------------------------------------------------------------------------
(* Reminders: each step keeps it.                                          *)

\* The types of the parts.
LEMMA RemTypes ==
  ASSUME RemTyped
  PROVE  /\ stage \in {"off"} \cup Starting \cup Cycle /\ queue \in RunQueue
         /\ minute = None \/ minute \in RunQueue
         /\ event = None \/ event \in RunQueue
         /\ todo \subseteq Rows /\ current \in Rows \cup {None} /\ signal \in BOOLEAN
         /\ now \in Rem!Times /\ at \in Rem!Times /\ row \in [Rows -> Rem!RowType]
         /\ marked \subseteq Rows /\ read \in Rem!RowType \cup {None}
         /\ edit \in [Editors -> EditType \cup {None}]
         /\ edits \in 0 .. MaxEdits /\ faults \in 0 .. MaxFaults
         /\ deaths \in 0 .. MaxDeaths /\ crashes \in 0 .. MaxCrashes
         /\ fresh \subseteq Rows /\ overdue \subseteq Rows /\ tries \in [Rows -> 0 .. MaxFaults]
         /\ \A d \in inbox : d.id \in Rows /\ d.key \in Contents \X Rem!Times /\ d.at \in Rem!Times
  BY DEF RemTyped, RunQueue, Rem!TypeOK, Rem!CoreTypeOK, Rem!Starting, Rem!Cycle, Starting, Cycle

\* A row's key is that of a content and a moment.
LEMMA KeyType ==
  ASSUME NEW c \in Contents, NEW t \in Rem!Times
  PROVE  Rem!Key(c, t) \in Contents \X Rem!Times
  BY DEF Rem!Key

\* One row is replaced.
LEMMA RowPut ==
  ASSUME row \in [Rows -> Rem!RowType], NEW r \in Rows, NEW e \in Rem!RowType,
         row' = [row EXCEPT ![r] = e]
  PROVE  row' \in [Rows -> Rem!RowType] /\ row'[r] = e /\ \A q \in Rows \ {r} : row'[q] = row[q]
  OBVIOUS

\* A scan yields a queue.
LEMMA ScanType ==
  ASSUME RemTyped
  PROVE  Rem!Armed \in RunQueue
  <1>1. \A r \in Rows : row[r].due \in Rem!Times /\ row[r].next \in Rem!Times \cup {None}
    BY RemTypes DEF Rem!RowType
  <1> QED
    BY <1>1 DEF Rem!Armed, RunQueue

\* Most steps leave the table, the inbox and the failures alone.
LEMMA RemRest ==
  ASSUME RemInv, UNCHANGED <<row, inbox, faults, tries, read>>,
         stage' = "failed" <=> stage = "failed", stage = "failed" => current' = current
  PROVE  Filed' /\ Counted' /\ Rem!GivesUpLate'
  <1>1. Filed'
    BY DEF RemInv, Filed, Rem!Exists
  <1>2. Counted'
    BY DEF RemInv, Counted
  <1>3. Rem!GivesUpLate'
    BY DEF RemInv, Rem!GivesUpLate
  <1> QED
    BY <1>1, <1>2, <1>3

\* The startup, the minute cycle and the re-arm fiber.
LEMMA LoopInv ==
  ASSUME Rem!ReminderAssumption, RemInv,
         \/ Rem!Start \/ Rem!Sweep \/ Rem!StartArm \/ Rem!Fork
         \/ Rem!ArmScan \/ Rem!ArmInstall \/ Rem!TickDue \/ Rem!Sleep
         \/ Rem!EventArm \/ Rem!EventArmed
         \/ \E r \in Rows : Rem!TriggerReminder(r)
  PROVE  RemInv'
  <1> USE DEF Rem!dataVars, Rem!ghosts, Rem!Starting, Rem!Cycle
  <1>1. UNCHANGED <<now, row, inbox, read, edit, edits, faults, deaths, crashes, fresh, tries>>
    BY DEF Rem!Start, Rem!Sweep, Rem!StartArm, Rem!Fork, Rem!ArmScan, Rem!ArmInstall, Rem!TickDue,
       Rem!Sleep, Rem!EventArm, Rem!EventArmed, Rem!TriggerReminder
  <1>2. Rem!Armed \in RunQueue
    BY ScanType DEF RemInv
  <1>3. /\ stage' \in {"off"} \cup Starting \cup Cycle
        /\ stage' = "failed" <=> stage = "failed"
        /\ stage = "failed" => current' = current
    BY RemTypes DEF RemInv, Rem!Start, Rem!Sweep, Rem!StartArm, Rem!Fork, Rem!ArmScan, Rem!ArmInstall,
       Rem!TickDue, Rem!Sleep, Rem!EventArm, Rem!EventArmed, Rem!TriggerReminder, Rem!Boot, Rem!Swept,
       Rem!StartScan, Rem!Forked, Rem!Scan, Rem!Install, Rem!Tick, Rem!Slept, Rem!EventScan,
       Rem!EventInstall, Rem!Trigger, Starting, Cycle
  <1>4. Filed' /\ Counted' /\ Rem!GivesUpLate'
    BY <1>1, <1>3, RemRest
  <1>5. at' \in Rem!Times /\ marked' \subseteq Rows /\ overdue' \subseteq Rows
    <2>1. Rem!Overdue \subseteq Rows /\ 0 \in Rem!Times
      BY DEF Rem!Overdue, Rem!Pending, Rem!Times, Rem!ReminderAssumption
    <2> QED
      BY <2>1, RemTypes DEF RemInv, Rem!Start, Rem!Sweep, Rem!StartArm, Rem!Fork, Rem!ArmScan,
         Rem!ArmInstall, Rem!TickDue, Rem!Sleep, Rem!EventArm, Rem!EventArmed, Rem!TriggerReminder
  <1>6. /\ queue' \in RunQueue
        /\ minute' = None \/ minute' \in RunQueue
        /\ event' = None \/ event' \in RunQueue
        /\ stage' \in {"recover", "install"} => minute' \in RunQueue
    <2>1. \A r \in Rows : [queue EXCEPT ![r] = None] \in RunQueue
      BY RemTypes DEF RemInv, RunQueue
    <2>2. CASE Rem!Start \/ Rem!Sweep \/ Rem!StartArm \/ Rem!Fork
      BY <1>2, <2>2, RemTypes DEF RemInv, RemTyped, Rem!Start, Rem!Sweep, Rem!StartArm, Rem!Fork,
         Rem!Boot, Rem!Swept, Rem!StartScan, Rem!Forked
    <2>3. CASE Rem!ArmScan \/ Rem!ArmInstall \/ Rem!EventArm \/ Rem!EventArmed
      BY <1>2, <2>3, RemTypes DEF RemInv, RemTyped, Rem!ArmScan, Rem!ArmInstall, Rem!EventArm,
         Rem!EventArmed, Rem!Scan, Rem!Install, Rem!EventScan, Rem!EventInstall
    <2>4. CASE Rem!TickDue \/ Rem!Sleep \/ \E r \in Rows : Rem!TriggerReminder(r)
      BY <2>1, <2>4, RemTypes DEF RemInv, RemTyped, Rem!TickDue, Rem!Sleep, Rem!TriggerReminder,
         Rem!Tick, Rem!Slept, Rem!Trigger
    <2> QED
      BY <2>2, <2>3, <2>4
  <1>7. /\ todo' \subseteq Rows /\ current' \in Rows \cup {None} /\ signal' \in BOOLEAN
        /\ stage' \in {"check", "deliver", "failed"} => current' \in Rows
    BY RemTypes DEF RemInv, RemTyped, Rem!Start, Rem!Sweep, Rem!StartArm, Rem!Fork, Rem!ArmScan,
       Rem!ArmInstall, Rem!TickDue, Rem!Sleep, Rem!EventArm, Rem!EventArmed, Rem!TriggerReminder,
       Rem!Boot, Rem!Swept, Rem!StartScan, Rem!Forked, Rem!Scan, Rem!Install, Rem!Tick, Rem!Slept,
       Rem!EventScan, Rem!EventInstall, Rem!Trigger
  <1>8. RemTyped'
    BY <1>1, <1>3, <1>5, <1>6, <1>7 DEF RemInv, RemTyped, Rem!TypeOK, Rem!CoreTypeOK, RunQueue,
       Starting, Cycle
  <1> QED
    BY <1>4, <1>8 DEF RemInv

\* The delivery of the current reminder, as far as it changes no row.
LEMMA DeliveryInv ==
  ASSUME Rem!ReminderAssumption, RemInv, Rem!Skip \/ Rem!Published \/ Rem!ReadFailed
  PROVE  RemInv'
  <1> USE DEF Rem!dataVars, Rem!ghosts
  <1>1. CASE Rem!Skip \/ Rem!Published
    <2>1. /\ UNCHANGED <<queue, minute, todo, event, now, at, row, inbox, marked, read, edit, edits,
                         faults, deaths, crashes, fresh, tries, overdue>>
          /\ stage \in {"check", "deliver"} /\ stage' = "trigger" /\ current' = None
      BY <1>1 DEF Rem!Skip, Rem!Published, Rem!Triggered
    <2>2. signal' \in BOOLEAN
      BY <1>1, RemTypes DEF RemInv, Rem!Skip, Rem!Published, Rem!Signalled, Rem!Running
    <2>3. RemTyped'
      BY <2>1, <2>2 DEF RemInv, RemTyped, Rem!TypeOK, Rem!CoreTypeOK, Rem!Cycle
    <2> QED
      BY <2>1, <2>3, RemRest DEF RemInv
  <1>2. CASE Rem!ReadFailed
    <2>1. PICK c \in Rows : c = current
      BY <1>2 DEF Rem!ReadFailed, RemInv, RemTyped
    <2>2. read' = row[c] /\ read' \in Rem!RowType /\ stage = "failed"
      BY <1>2, <2>1, RemTypes DEF Rem!ReadFailed, RemInv
    <2>3. RemTyped'
      BY <1>2, <2>2 DEF Rem!ReadFailed, RemInv, RemTyped, Rem!TypeOK, Rem!CoreTypeOK
    <2>4. Filed' /\ Rem!GivesUpLate'
      BY <1>2 DEF Rem!ReadFailed, RemInv, Filed, Rem!Exists, Rem!GivesUpLate
    <2>5. Counted'
      BY <1>2, <2>1, <2>2 DEF Rem!ReadFailed, RemInv, Counted
    <2> QED
      BY <2>3, <2>4, <2>5 DEF RemInv
  <1> QED
    BY <1>1, <1>2

\* A failure of the delivery: it counts before the row does.
LEMMA FailInv ==
  ASSUME Rem!ReminderAssumption, RemInv, Rem!Fail
  PROVE  RemInv'
  <1>1. PICK c \in Rows : c = current
    BY DEF Rem!Fail, Rem!Pending
  <1>2. /\ UNCHANGED <<queue, minute, todo, signal, event, now, at, row, inbox, read, edit, edits,
                       deaths, crashes, overdue, current>>
        /\ stage = "check" /\ stage' = "failed" /\ marked' \subseteq Rows /\ fresh' \subseteq Rows
        /\ faults < MaxFaults /\ faults' = faults + 1
    BY RemTypes DEF RemInv, Rem!Fail, Rem!Goes
  <1>3. /\ tries[c] \in Nat /\ faults \in Nat /\ MaxFaults \in Nat /\ tries[c] <= faults
        /\ \A r \in Rows : row[r].attempts \in Nat /\ row[r].attempts <= tries[r] /\ tries[r] <= faults
                           /\ tries[r] \in Nat
    <2>1. MaxFaults \in Nat /\ MaxAttempts \in Nat \ {0}
      BY DEF Rem!ReminderAssumption
    <2>2. \A r \in Rows : row[r].attempts \in 0 .. MaxAttempts - 1
      BY RemTypes DEF RemInv, Rem!RowType
    <2>3. \A r \in Rows : tries[r] \in 0 .. MaxFaults
      BY RemTypes DEF RemInv
    <2> QED
      BY <1>1, <2>1, <2>2, <2>3, RemTypes DEF RemInv, Counted
  <1>4. faults' \in 0 .. MaxFaults /\ tries[c] + 1 \in 0 .. MaxFaults
    BY <1>2, <1>3
  <1>5. /\ tries' \in [Rows -> 0 .. MaxFaults] /\ tries'[c] = tries[c] + 1
        /\ \A r \in Rows \ {c} : tries'[r] = tries[r]
    BY <1>1, <1>4, RemTypes DEF RemInv, Rem!Fail
  <1>6. RemTyped'
    BY <1>1, <1>2, <1>4, <1>5 DEF RemInv, RemTyped, Rem!TypeOK, Rem!CoreTypeOK, Rem!Cycle
  <1>7. Filed'
    BY <1>2 DEF RemInv, Filed, Rem!Exists
  <1>8. \A r \in Rows : tries'[r] \in Nat /\ tries[r] <= tries'[r]
    BY <1>3, <1>5
  <1>9. Counted'
    <2>1. read = None
      BY <1>2 DEF RemInv, Counted
    <2>2. \A r \in Rows : row[r].attempts <= tries'[r] /\ tries'[r] <= faults'
      BY <1>2, <1>3, <1>5
    <2>3. row[c].attempts < tries'[c]
      BY <1>3, <1>5
    <2> QED
      BY <1>1, <1>2, <2>1, <2>2, <2>3 DEF Counted
  <1>10. Rem!GivesUpLate'
    <2> SUFFICES ASSUME NEW r \in Rows, row[r].status = "failed" PROVE tries'[r] >= MaxAttempts
      BY <1>2 DEF Rem!GivesUpLate
    <2>1. tries[r] >= MaxAttempts
      BY DEF RemInv, Rem!GivesUpLate
    <2>2. MaxAttempts \in Nat
      BY DEF Rem!ReminderAssumption
    <2> QED
      BY <1>3, <1>8, <2>1, <2>2
  <1> QED
    BY <1>6, <1>7, <1>9, <1>10 DEF RemInv

\* The failure path writes what it read, with one more attempt, or gives up.
LEMMA BackOffInv ==
  ASSUME Rem!ReminderAssumption, RemInv, Rem!BackOff
  PROVE  RemInv'
  <1>1. PICK c \in Rows : c = current
    BY DEF Rem!BackOff, RemInv, RemTyped
  <1> DEFINE attempts == read.attempts + 1
  <1>2. /\ UNCHANGED <<queue, minute, todo, event, now, at, inbox, marked, edit, edits, faults,
                       deaths, crashes, fresh, tries, overdue>>
        /\ stage = "failed" /\ stage' = "deliver" /\ read # None /\ read' = None
        /\ UNCHANGED <<current, signal>>
    BY DEF Rem!BackOff, Rem!Goes, Rem!ghosts
  <1>3. /\ MaxAttempts \in Nat \ {0} /\ MaxFaults \in Nat /\ read \in Rem!RowType /\ row[c] \in Rem!RowType
        /\ read.attempts \in Nat /\ tries[c] \in Nat /\ read.attempts < tries[c]
    <2>1. MaxAttempts \in Nat \ {0} /\ MaxFaults \in Nat
      BY DEF Rem!ReminderAssumption
    <2>2. read \in Rem!RowType /\ row[c] \in Rem!RowType /\ tries[c] \in 0 .. MaxFaults
      BY <1>2, RemTypes DEF RemInv
    <2>3. read.attempts \in 0 .. MaxAttempts - 1
      BY <2>2 DEF Rem!RowType
    <2>4. read.attempts < tries[c]
      BY <1>1, <1>2 DEF RemInv, Counted
    <2> QED
      BY <2>1, <2>2, <2>3, <2>4
  <1>4. attempts \in Nat /\ attempts <= tries[c]
    BY <1>3
  <1>5. CASE attempts >= MaxAttempts
    <2> DEFINE e == [row[c] EXCEPT !.status = IF c \in Rem!Pending THEN "failed" ELSE @]
    <2>1. row' = [row EXCEPT ![c] = e]
      BY <1>1, <1>5 DEF Rem!BackOff
    <2>2. e \in Rem!RowType /\ e.key = row[c].key /\ e.attempts = row[c].attempts
          /\ e.status = IF row[c].status = "pending" THEN "failed" ELSE row[c].status
      BY <1>3 DEF Rem!RowType, Rem!Terminal, Rem!Pending
    <2> HIDE DEF e
    <2>3. row' \in [Rows -> Rem!RowType] /\ row'[c] = e /\ \A q \in Rows \ {c} : row'[q] = row[q]
      BY <2>1, <2>2, RowPut, RemTypes DEF RemInv
    <2>4. RemTyped'
      BY <1>1, <1>2, <2>3 DEF RemInv, RemTyped, Rem!TypeOK, Rem!CoreTypeOK, Rem!Cycle
    <2>5. Filed'
      BY <1>2, <2>2, <2>3 DEF RemInv, Filed, Rem!Exists
    <2>6. Counted'
      BY <1>2, <2>2, <2>3 DEF RemInv, Counted
    <2>7. tries[c] >= MaxAttempts
      BY <1>3, <1>4, <1>5
    <2>8. Rem!GivesUpLate'
      BY <1>2, <2>3, <2>7 DEF RemInv, Rem!GivesUpLate
    <2> QED
      BY <2>4, <2>5, <2>6, <2>8 DEF RemInv
  <1>6. CASE ~(attempts >= MaxAttempts)
    <2>1. attempts \in 0 .. MaxAttempts - 1 /\ Rem!Retry(attempts) \in Rem!Times
      <3>1. MaxTime \in Rem!Times
        BY DEF Rem!Times, Rem!ReminderAssumption
      <3>2. Rem!Retry(attempts) \in Rem!Times
        BY <3>1 DEF Rem!Retry
      <3> QED
        BY <1>3, <1>4, <1>6, <3>2
    <2> DEFINE e == [row[c] EXCEPT !.attempts = attempts, !.next = Rem!Retry(attempts)]
    <2>2. row' = [row EXCEPT ![c] = e]
      BY <1>1, <1>6 DEF Rem!BackOff
    <2> HIDE DEF attempts
    <2>3. e \in Rem!RowType /\ e.key = row[c].key /\ e.attempts = attempts /\ e.status = row[c].status
      BY <1>3, <2>1 DEF Rem!RowType
    <2> HIDE DEF e
    <2>4. row' \in [Rows -> Rem!RowType] /\ row'[c] = e /\ \A q \in Rows \ {c} : row'[q] = row[q]
      BY <2>2, <2>3, RowPut, RemTypes DEF RemInv
    <2>5. RemTyped'
      BY <1>1, <1>2, <2>4 DEF RemInv, RemTyped, Rem!TypeOK, Rem!CoreTypeOK, Rem!Cycle
    <2>6. Filed'
      BY <1>2, <2>3, <2>4 DEF RemInv, Filed, Rem!Exists
    <2>7. Counted'
      BY <1>2, <1>4, <2>3, <2>4 DEF RemInv, Counted
    <2>8. Rem!GivesUpLate'
      BY <1>2, <2>3, <2>4 DEF RemInv, Rem!GivesUpLate
    <2> QED
      BY <2>5, <2>6, <2>7, <2>8 DEF RemInv
  <1> QED
    BY <1>5, <1>6

\* The delivery: the key of a pending reminder is not in the inbox, so that the
\* insertion is never skipped.
LEMMA DeliverInv ==
  ASSUME Rem!ReminderAssumption, RemInv, Rem!Deliver
  PROVE  RemInv'
  <1>1. PICK c \in Rows : c = current
    BY DEF Rem!Deliver, Rem!Pending
  <1>2. /\ UNCHANGED <<queue, minute, todo, signal, event, now, at, read, edit, edits, faults,
                       deaths, crashes, tries, overdue, current>>
        /\ stage = "check" /\ stage' = "deliver" /\ marked' \subseteq Rows /\ fresh' \subseteq Rows
        /\ row[c].status = "pending"
    BY <1>1, RemTypes DEF RemInv, Rem!Deliver, Rem!Goes, Rem!Pending
  <1>3. row[c] \in Rem!RowType /\ at \in Rem!Times
    BY RemTypes DEF RemInv
  <1>4. \A d \in inbox : d.id # c /\ d.key # row[c].key
    BY <1>2 DEF RemInv, Filed, Rem!Exists
  <1> DEFINE f == Rem!Record(c)
  <1>5. f.id = c /\ f.key = row[c].key /\ f.at = at
    BY DEF Rem!Record
  <1> DEFINE e == [row[c] EXCEPT !.status = "completed"]
  <1>6. row' = [row EXCEPT ![c] = e] /\ inbox' = inbox \cup {f}
    BY <1>1, <1>4 DEF Rem!Deliver
  <1>7. e \in Rem!RowType /\ e.key = row[c].key /\ e.attempts = row[c].attempts /\ e.status = "completed"
    BY <1>3 DEF Rem!RowType, Rem!Terminal
  <1> HIDE DEF e, f
  <1>8. row' \in [Rows -> Rem!RowType] /\ row'[c] = e /\ \A q \in Rows \ {c} : row'[q] = row[q]
    BY <1>6, <1>7, RowPut, RemTypes DEF RemInv
  <1>9. \A d \in inbox' : d.id \in Rows /\ d.key \in Contents \X Rem!Times /\ d.at \in Rem!Times
    <2>1. row[c].key \in Contents \X Rem!Times
      BY <1>3 DEF Rem!RowType
    <2> QED
      BY <1>3, <1>5, <1>6, <2>1, RemTypes DEF RemInv
  <1>10. RemTyped'
    BY <1>1, <1>2, <1>8, <1>9 DEF RemInv, RemTyped, Rem!TypeOK, Rem!CoreTypeOK, Rem!Cycle
  <1>11. Filed'
    <2>1. \A r, q \in Rows : r # q /\ Rem!Exists(r)' /\ Rem!Exists(q)' => row'[r].key # row'[q].key
      BY <1>2, <1>7, <1>8 DEF RemInv, Filed, Rem!Exists
    <2>2. \A d \in inbox' : d.id \in Rows /\ row'[d.id].status = "completed" /\ d.key = row'[d.id].key
      BY <1>5, <1>6, <1>7, <1>8, <1>4 DEF RemInv, Filed
    <2>3. \A d, g \in inbox' : d.id = g.id => d = g
      BY <1>4, <1>5, <1>6 DEF RemInv, Filed
    <2>4. \A r \in Rows : row'[r].status = "completed" => \E d \in inbox' : d.id = r
      BY <1>5, <1>6, <1>8 DEF RemInv, Filed
    <2> QED
      BY <2>1, <2>2, <2>3, <2>4 DEF Filed, Rem!Exists
  <1>12. Counted'
    BY <1>2, <1>7, <1>8 DEF RemInv, Counted
  <1>13. Rem!GivesUpLate'
    BY <1>2, <1>7, <1>8 DEF RemInv, Rem!GivesUpLate
  <1> QED
    BY <1>10, <1>11, <1>12, <1>13 DEF RemInv

\* A pending row takes on new parts under a key that no other row has: a new reminder,
\* or a change of one.
LEMMA RowsKeyed ==
  ASSUME Rem!ReminderAssumption, RemInv, NEW c \in Rows, NEW e \in Rem!RowType,
         row[c].status \in {"absent", "pending"}, e.status = "pending",
         e.attempts \in {0, row[c].attempts}, Rem!KeyFree(c, e.key),
         row' = [row EXCEPT ![c] = e],
         UNCHANGED <<stage, current, inbox, faults, tries, read>>
  PROVE  Filed' /\ Counted' /\ Rem!GivesUpLate'
  <1>1. row' \in [Rows -> Rem!RowType] /\ row'[c] = e /\ \A q \in Rows \ {c} : row'[q] = row[q]
    BY RowPut, RemTypes DEF RemInv
  <1>2. \A q \in Rows \ {c} : Rem!Exists(q) => row[q].key # e.key
    BY DEF Rem!KeyFree
  <1>3. Filed'
    <2>1. \A r, q \in Rows : r # q /\ Rem!Exists(r)' /\ Rem!Exists(q)' => row'[r].key # row'[q].key
      BY <1>1, <1>2 DEF RemInv, Filed, Rem!Exists
    <2>2. \A d \in inbox : d.id \in Rows /\ row'[d.id].status = "completed" /\ d.key = row'[d.id].key
      BY <1>1 DEF RemInv, Filed
    <2>3. \A r \in Rows : row'[r].status = "completed" => \E d \in inbox : d.id = r
      BY <1>1 DEF RemInv, Filed
    <2> QED
      BY <2>1, <2>2, <2>3 DEF RemInv, Filed, Rem!Exists
  <1>4. \A r \in Rows : row'[r].attempts \in Nat /\ row'[r].attempts <= row[r].attempts
                        /\ row[r].attempts \in Nat /\ tries[r] \in Nat
    <2>1. MaxAttempts \in Nat \ {0} /\ MaxFaults \in Nat
      BY DEF Rem!ReminderAssumption
    <2>2. \A r \in Rows : row'[r].attempts \in 0 .. MaxAttempts - 1 /\ row[r].attempts \in 0 .. MaxAttempts - 1
      BY <1>1, RemTypes DEF RemInv, Rem!RowType
    <2>3. \A r \in Rows : tries[r] \in 0 .. MaxFaults
      BY RemTypes DEF RemInv
    <2>4. \A r \in Rows : row'[r].attempts \in {0, row[r].attempts}
      BY <1>1
    <2> QED
      BY <2>1, <2>2, <2>3, <2>4
  <1>5. Counted'
    <2>1. \A r \in Rows : row'[r].attempts <= tries[r]
      BY <1>4 DEF RemInv, Counted
    <2>2. stage = "failed" => row'[current].attempts < tries[current]
      BY <1>4 DEF RemInv, RemTyped, Counted
    <2> QED
      BY <2>1, <2>2 DEF RemInv, Counted
  <1>6. Rem!GivesUpLate'
    BY <1>1 DEF RemInv, Rem!GivesUpLate
  <1> QED
    BY <1>3, <1>5, <1>6

\* The tools.
LEMMA ToolsInv ==
  ASSUME Rem!ReminderAssumption, RemInv, Rem!Tools
  PROVE  RemInv'
  <1>1. ASSUME NEW r \in Rows, NEW c \in Contents, NEW t \in Rem!Times, Rem!Create(r, c, t)
        PROVE  RemInv'
    <2> DEFINE e == [status |-> "pending", content |-> c, due |-> t, next |-> None, attempts |-> 0,
                     key |-> Rem!Key(c, t)]
    <2>1. e \in Rem!RowType
      <3>1. 0 \in 0 .. MaxAttempts - 1 /\ Rem!Key(c, t) \in Contents \X Rem!Times
        BY KeyType DEF Rem!ReminderAssumption
      <3> QED
        BY <3>1 DEF Rem!RowType
    <2>2. e.status = "pending" /\ e.attempts = 0 /\ e.key = Rem!Key(c, t)
      OBVIOUS
    <2>3. row' = [row EXCEPT ![r] = e] /\ row[r].status = "absent" /\ Rem!KeyFree(r, e.key)
      BY <1>1 DEF Rem!Create, Rem!Exists
    <2> HIDE DEF e
    <2>4. /\ UNCHANGED <<stage, queue, minute, todo, current, event, now, at, inbox, marked, read, edit,
                         edits, faults, deaths, crashes, tries, overdue>>
          /\ fresh' = fresh \cup {r}
      BY <1>1 DEF Rem!Create
    <2>5. signal' \in BOOLEAN
      BY <1>1, RemTypes DEF RemInv, Rem!Create, Rem!Heard, Rem!Signalled, Rem!Running
    <2>6. row' \in [Rows -> Rem!RowType]
      BY <2>1, <2>3, RowPut, RemTypes DEF RemInv
    <2>7. RemTyped'
      BY <2>4, <2>5, <2>6 DEF RemInv, RemTyped, Rem!TypeOK, Rem!CoreTypeOK
    <2>8. Filed' /\ Counted' /\ Rem!GivesUpLate'
      BY <2>1, <2>2, <2>3, <2>4, RowsKeyed
    <2> QED
      BY <2>7, <2>8 DEF RemInv
  <1>2. ASSUME NEW e \in Editors, NEW r \in Rows, NEW c \in Contents \cup {None},
               NEW t \in Rem!Times \cup {None}, Rem!EditReads(e, r, c, t)
        PROVE  RemInv'
    <2> DEFINE content == IF c = None THEN row[r].content ELSE c
               due == IF t = None THEN row[r].due ELSE t
    <2>1. content \in Contents /\ due \in Rem!Times
      BY RemTypes DEF RemInv, Rem!RowType
    <2>2. PICK k \in Contents \X Rem!Times : k = Rem!Key(content, due)
      BY <2>1, KeyType
    <2> DEFINE u == [id |-> r, content |-> c, due |-> t, key |-> k, moves |-> None]
    <2>3. u \in EditType /\ edit' = [edit EXCEPT ![e] = u]
      BY <1>2, <2>2 DEF Rem!EditReads, EditType
    <2> HIDE DEF u
    <2>4. edit' \in [Editors -> EditType \cup {None}]
      BY <2>3, RemTypes DEF RemInv
    <2>5. edits' \in 0 .. MaxEdits
      BY <1>2, RemTypes DEF RemInv, Rem!EditReads, Rem!ReminderAssumption
    <2>6. \A i \in Editors : edit'[i] = None \/ edit'[i].id \in Rows
      BY <2>4 DEF EditType
    <2>7. UNCHANGED <<stage, queue, minute, todo, current, signal, event, now, at, row, inbox, marked,
                      read, faults, deaths, crashes, fresh, tries, overdue>>
      BY <1>2 DEF Rem!EditReads, Rem!coreVars, Rem!ghosts
    <2>8. RemTyped'
      BY <2>4, <2>5, <2>6, <2>7 DEF RemInv, RemTyped, Rem!TypeOK, Rem!CoreTypeOK
    <2> QED
      BY <2>7, <2>8, RemRest DEF RemInv
  <1>3. ASSUME NEW i \in Editors, Rem!EditChecks(i) PROVE RemInv'
    <2> DEFINE u == edit[i]
               another == u.due # None /\ u.due # row[u.id].due
    <2>1. u \in EditType
      BY <1>3, RemTypes DEF RemInv, Rem!EditChecks
    <2>2. another \in BOOLEAN
      OBVIOUS
    <2>3. edit' = [edit EXCEPT ![i] = IF u.id \in Rem!Pending THEN [u EXCEPT !.moves = another] ELSE None]
      BY <1>3 DEF Rem!EditChecks
    <2> HIDE DEF another
    <2>4. [u EXCEPT !.moves = another] \in EditType
      BY <2>1, <2>2 DEF EditType
    <2>5. edit' \in [Editors -> EditType \cup {None}]
      BY <2>3, <2>4, RemTypes DEF RemInv
    <2>6. \A j \in Editors : edit'[j] = None \/ edit'[j].id \in Rows
      BY <2>5 DEF EditType
    <2>7. UNCHANGED <<stage, queue, minute, todo, current, signal, event, now, at, row, inbox, marked,
                      read, edits, faults, deaths, crashes, fresh, tries, overdue>>
      BY <1>3 DEF Rem!EditChecks, Rem!coreVars, Rem!ghosts
    <2>8. RemTyped'
      BY <2>5, <2>6, <2>7 DEF RemInv, RemTyped, Rem!TypeOK, Rem!CoreTypeOK
    <2> QED
      BY <2>7, <2>8, RemRest DEF RemInv
  <1>4. ASSUME NEW i \in Editors, Rem!EditApplies(i) PROVE RemInv'
    <2> DEFINE u == edit[i]
    <2>1. u \in EditType /\ u.id \in Rows
      BY <1>4, RemTypes DEF RemInv, Rem!EditApplies, EditType
    <2>2. PICK c \in Rows : c = u.id
      BY <2>1
    <2>3. /\ edit' \in [Editors -> EditType \cup {None}]
          /\ UNCHANGED <<stage, queue, minute, todo, current, event, now, at, inbox, marked, read, edits,
                         faults, deaths, crashes, tries>>
      BY <1>4, RemTypes DEF RemInv, Rem!EditApplies
    <2>4. \A j \in Editors : edit'[j] = None \/ edit'[j].id \in Rows
      BY <2>3 DEF EditType
    <2>5. signal' \in BOOLEAN /\ fresh' \subseteq Rows /\ overdue' \subseteq Rows
      <3>1. signal' \in {signal, TRUE, FALSE}
        <4>1. Rem!Heard \/ UNCHANGED signal
          BY <1>4 DEF Rem!EditApplies
        <4>2. (signal \/ Rem!Running) \in BOOLEAN
          OBVIOUS
        <4> QED
          BY <4>1, <4>2 DEF Rem!Heard, Rem!Signalled
      <3>2. fresh' \in {fresh, fresh \cup {u.id}} /\ overdue' \in {overdue, overdue \ {u.id}}
        BY <1>4 DEF Rem!EditApplies
      <3> QED
        BY <2>1, <3>1, <3>2, RemTypes DEF RemInv
    <2>6. CASE c \in Rem!Pending /\ Rem!KeyFree(c, u.key)
      <3> DEFINE changed(x) == [x EXCEPT !.content = IF u.content = None THEN @ ELSE u.content,
                                         !.due = IF u.due = None THEN @ ELSE u.due,
                                         !.key = u.key,
                                         !.next = IF u.moves THEN None ELSE @,
                                         !.attempts = IF u.moves THEN 0 ELSE @]
                 e == changed(row[c])
      <3>1. row' = [row EXCEPT ![c] = e]
        <4>1. row' = [row EXCEPT ![u.id] = changed(row[u.id])]
          BY <1>4, <2>2, <2>6 DEF Rem!EditApplies
        <4> HIDE DEF changed
        <4> QED
          BY <2>2, <4>1
      <3>2. row[c] \in Rem!RowType /\ row[c].status = "pending"
        BY <2>6, RemTypes DEF RemInv, Rem!Pending
      <3>3. /\ u.content = None \/ u.content \in Contents
            /\ u.due = None \/ u.due \in Rem!Times
            /\ u.key \in Contents \X Rem!Times /\ 0 \in 0 .. MaxAttempts - 1
        BY <2>1 DEF EditType, Rem!ReminderAssumption
      <3> HIDE DEF u
      <3>4. e \in Rem!RowType /\ e.status = "pending" /\ e.key = u.key
            /\ e.attempts \in {0, row[c].attempts}
        BY <3>2, <3>3 DEF Rem!RowType
      <3> HIDE DEF e
      <3>5. row' \in [Rows -> Rem!RowType]
        BY <3>1, <3>4, RowPut, RemTypes DEF RemInv
      <3>6. RemTyped'
        BY <2>3, <2>4, <2>5, <3>5 DEF RemInv, RemTyped, Rem!TypeOK, Rem!CoreTypeOK
      <3>7. Filed' /\ Counted' /\ Rem!GivesUpLate'
        BY <2>3, <2>6, <3>1, <3>2, <3>4, RowsKeyed
      <3> QED
        BY <3>6, <3>7 DEF RemInv
    <2>7. CASE ~(c \in Rem!Pending /\ Rem!KeyFree(c, u.key))
      <3>1. UNCHANGED <<row, fresh, overdue, signal>>
        BY <1>4, <2>2, <2>7 DEF Rem!EditApplies
      <3>2. RemTyped'
        BY <2>3, <2>4, <3>1 DEF RemInv, RemTyped, Rem!TypeOK, Rem!CoreTypeOK
      <3> QED
        BY <2>3, <3>1, <3>2, RemRest DEF RemInv
    <2> QED
      BY <2>6, <2>7
  <1>5. ASSUME NEW c \in Rows, Rem!Cancel(c) PROVE RemInv'
    <2> DEFINE e == [row[c] EXCEPT !.status = "cancelled"]
    <2>1. row[c] \in Rem!RowType /\ row[c].status = "pending" /\ row' = [row EXCEPT ![c] = e]
      BY <1>5, RemTypes DEF RemInv, Rem!Cancel, Rem!Pending
    <2>2. e \in Rem!RowType /\ e.status = "cancelled" /\ e.key = row[c].key /\ e.attempts = row[c].attempts
      BY <2>1 DEF Rem!RowType, Rem!Terminal
    <2> HIDE DEF e
    <2>3. row' \in [Rows -> Rem!RowType] /\ row'[c] = e /\ \A q \in Rows \ {c} : row'[q] = row[q]
      BY <2>1, <2>2, RowPut, RemTypes DEF RemInv
    <2>4. /\ UNCHANGED <<stage, queue, minute, todo, current, event, now, at, inbox, marked, read, edit,
                         edits, faults, deaths, crashes, fresh, tries, overdue>>
          /\ signal' \in BOOLEAN
      BY <1>5, RemTypes DEF RemInv, Rem!Cancel, Rem!Heard, Rem!Signalled, Rem!Running, Rem!ghosts
    <2>5. RemTyped'
      BY <2>3, <2>4 DEF RemInv, RemTyped, Rem!TypeOK, Rem!CoreTypeOK
    <2>6. Filed'
      BY <2>1, <2>2, <2>3, <2>4 DEF RemInv, Filed, Rem!Exists
    <2>7. Counted'
      BY <2>2, <2>3, <2>4 DEF RemInv, RemTyped, Counted
    <2>8. Rem!GivesUpLate'
      BY <2>2, <2>3, <2>4 DEF RemInv, Rem!GivesUpLate
    <2> QED
      BY <2>5, <2>6, <2>7, <2>8 DEF RemInv
  <1> QED
    BY <1>1, <1>2, <1>3, <1>4, <1>5 DEF Rem!Tools

\* A defect beside the delivery: an arm ends, or the tick.
LEMMA DiesInv ==
  ASSUME Rem!ReminderAssumption, RemInv, Rem!Dies
  PROVE  RemInv'
  <1>1. /\ UNCHANGED <<now, at, row, inbox, marked, edit, edits, faults, crashes, fresh, tries, overdue>>
        /\ \/ (Rem!StartDied \/ Rem!ArmDied \/ Rem!EventDied) /\ UNCHANGED read
           \/ /\ stage \in {"failed", "deliver"} /\ Rem!TickDied /\ read' = None
              /\ UNCHANGED <<queue, minute, signal, event>>
    BY DEF Rem!Dies, Rem!ghosts
  <1>2. deaths' \in 0 .. MaxDeaths
    BY RemTypes DEF RemInv, Rem!Dies, Rem!ReminderAssumption
  <1>3. CASE (Rem!StartDied \/ Rem!ArmDied \/ Rem!EventDied) /\ UNCHANGED read
    <2>1. /\ UNCHANGED <<queue, current, event>> /\ minute' \in {minute, None}
          /\ todo' \in {todo, {}} /\ signal' \in BOOLEAN
          /\ \/ UNCHANGED <<stage, minute>>
             \/ stage \in {"start", "recover"} /\ stage' = "arm"
             \/ stage = "arm" /\ stage' = "tick"
      BY <1>3, RemTypes DEF RemInv, Rem!StartDied, Rem!ArmDied, Rem!EventDied
    <2>2. RemTyped'
      BY <1>1, <1>2, <1>3, <2>1 DEF RemInv, RemTyped, Rem!TypeOK, Rem!CoreTypeOK, Rem!Cycle
    <2> QED
      BY <1>1, <1>3, <2>1, <2>2, RemRest DEF RemInv
  <1>4. CASE /\ stage \in {"failed", "deliver"} /\ Rem!TickDied /\ read' = None
             /\ UNCHANGED <<queue, minute, signal, event>>
    <2>1. stage' = "trigger" /\ current' = None /\ todo' = {}
      BY <1>4 DEF Rem!TickDied
    <2>2. RemTyped'
      BY <1>1, <1>2, <1>4, <2>1 DEF RemInv, RemTyped, Rem!TypeOK, Rem!CoreTypeOK, Rem!Cycle
    <2>3. Filed' /\ Counted' /\ Rem!GivesUpLate'
      BY <1>1, <1>4, <2>1 DEF RemInv, Filed, Rem!Exists, Counted, Rem!GivesUpLate
    <2> QED
      BY <2>2, <2>3 DEF RemInv
  <1> QED
    BY <1>1, <1>3, <1>4

\* Time, and the end of the process.
LEMMA WorldInv ==
  ASSUME Rem!ReminderAssumption, RemInv, Rem!ClockTurns \/ Rem!Crash
  PROVE  RemInv'
  <1>1. CASE Rem!ClockTurns
    <2>1. /\ UNCHANGED <<stage, queue, minute, todo, current, signal, event, at, row, inbox, marked, read,
                         edit, edits, faults, deaths, crashes, fresh, tries, overdue>>
          /\ now' \in Rem!Times
      BY <1>1, RemTypes DEF RemInv, Rem!ClockTurns, Rem!coreVars, Rem!ghosts, Rem!Times,
         Rem!ReminderAssumption
    <2>2. RemTyped'
      BY <2>1 DEF RemInv, RemTyped, Rem!TypeOK, Rem!CoreTypeOK
    <2> QED
      BY <2>1, <2>2, RemRest DEF RemInv
  <1>2. CASE Rem!Crash
    <2>1. /\ UNCHANGED <<now, row, inbox, edits, faults, deaths, fresh, tries>>
          /\ stage' = "off" /\ queue' = Rem!Nothing /\ minute' = None /\ event' = None /\ todo' = {}
          /\ current' = None /\ signal' = FALSE /\ marked' = {} /\ overdue' = {} /\ read' = None
          /\ edit' = [e \in Editors |-> None] /\ at' \in Rem!Times
      BY <1>2 DEF Rem!Crash, Rem!Ends, Rem!Times, Rem!ReminderAssumption
    <2>2. crashes' \in 0 .. MaxCrashes
      BY <1>2, RemTypes DEF RemInv, Rem!Crash, Rem!ReminderAssumption
    <2>3. queue' \in RunQueue
      BY <2>1 DEF Rem!Nothing, RunQueue
    <2>4. RemTyped'
      BY <2>1, <2>2, <2>3 DEF RemInv, RemTyped, Rem!TypeOK, Rem!CoreTypeOK, RunQueue
    <2>5. Filed'
      BY <2>1 DEF RemInv, Filed, Rem!Exists
    <2>6. Counted'
      BY <2>1 DEF RemInv, Counted
    <2>7. Rem!GivesUpLate'
      BY <2>1 DEF RemInv, Rem!GivesUpLate
    <2> QED
      BY <2>4, <2>5, <2>6, <2>7 DEF RemInv
  <1> QED
    BY <1>1, <1>2

LEMMA RemInit == Rem!ReminderAssumption /\ Rem!Init => RemInv
  <1> SUFFICES ASSUME Rem!ReminderAssumption, Rem!Init PROVE RemInv
    OBVIOUS
  <1>1. PICK c \in Contents :
          row = [r \in Rows |-> [status |-> "absent", content |-> c, due |-> 0, next |-> None,
                                 attempts |-> 0, key |-> Rem!Key(c, 0)]]
    BY DEF Rem!Init
  <1>2. /\ 0 \in Rem!Times /\ 0 \in 0 .. MaxAttempts - 1 /\ 0 \in 0 .. MaxFaults
        /\ 0 \in 0 .. MaxEdits /\ 0 \in 0 .. MaxDeaths /\ 0 \in 0 .. MaxCrashes
    BY DEF Rem!Times, Rem!ReminderAssumption
  <1> DEFINE e == [status |-> "absent", content |-> c, due |-> 0, next |-> None, attempts |-> 0,
                   key |-> Rem!Key(c, 0)]
  <1>3. e \in Rem!RowType /\ e.status = "absent" /\ e.attempts = 0
    <2>1. Rem!Key(c, 0) \in Contents \X Rem!Times
      BY <1>2, KeyType
    <2> QED
      BY <1>2, <2>1 DEF Rem!RowType
  <1> HIDE DEF e
  <1>4. row \in [Rows -> Rem!RowType] /\ \A r \in Rows : row[r] = e
    BY <1>1, <1>3 DEF e
  <1>5. RemTyped
    BY <1>2, <1>4 DEF Rem!Init, Rem!CoreInit, RemTyped, Rem!TypeOK, Rem!CoreTypeOK, Rem!Nothing, RunQueue
  <1>6. Filed /\ Rem!GivesUpLate
    BY <1>3, <1>4 DEF Rem!Init, Filed, Rem!Exists, Rem!GivesUpLate
  <1>7. Counted
    BY <1>3, <1>4 DEF Rem!Init, Rem!CoreInit, Counted
  <1> QED
    BY <1>5, <1>6, <1>7 DEF RemInv

LEMMA RemStep == Rem!ReminderAssumption /\ RemInv /\ [Rem!Next]_(Rem!vars) => RemInv'
  <1> SUFFICES ASSUME Rem!ReminderAssumption, RemInv, [Rem!Next]_(Rem!vars) PROVE RemInv'
    OBVIOUS
  <1>1. CASE UNCHANGED Rem!vars
    <2>1. UNCHANGED <<stage, queue, minute, todo, current, signal, event, now, at, row, inbox, marked,
                      read, edit, edits, faults, deaths, crashes, fresh, tries, overdue>>
      BY <1>1 DEF Rem!vars, Rem!coreVars, Rem!dataVars, Rem!ghosts
    <2>2. RemTyped'
      BY <2>1 DEF RemInv, RemTyped, Rem!TypeOK, Rem!CoreTypeOK
    <2> QED
      BY <2>1, <2>2, RemRest DEF RemInv
  <1>2. CASE Rem!Daemon
    BY <1>2, LoopInv, DeliveryInv, FailInv, BackOffInv, DeliverInv DEF Rem!Daemon, Rem!Delivery
  <1>3. CASE Rem!Rearming
    BY <1>3, LoopInv DEF Rem!Rearming
  <1> QED
    BY <1>1, <1>2, <1>3, ToolsInv, DiesInv, WorldInv DEF Rem!Next

------------------------------------------------------------------------------
(* Reminders: what follows from it.                                        *)

\* The inductive invariant holds in every state the reminders reach.
THEOREM RemInvariance == Rem!ReminderAssumption => (Rem!Spec => []RemInv)
  <1> SUFFICES ASSUME Rem!ReminderAssumption PROVE Rem!Spec => []RemInv
    OBVIOUS
  <1> QED
    BY RemInit, RemStep, PTL DEF Rem!Spec

\* Type correctness.
THEOREM RemTypeCorrect == Rem!ReminderAssumption => (Rem!Spec => []Rem!TypeOK)
  <1> SUFFICES ASSUME Rem!ReminderAssumption PROVE Rem!Spec => []Rem!TypeOK
    OBVIOUS
  <1>1. RemInv => Rem!TypeOK
    BY DEF RemInv, RemTyped
  <1> QED
    BY <1>1, RemInvariance, PTL

LEMMA SameCardinality == \A S : Rem!Cardinality(S) = Cardinality(S)
  BY DEF Rem!Cardinality, Cardinality

LEMMA FiledOnce == RemInv => Rem!ExactlyOnce
  <1> SUFFICES ASSUME RemInv, NEW r \in Rows
               PROVE  Rem!Cardinality(Rem!DeliveriesOf(r)) = IF row[r].status = "completed" THEN 1 ELSE 0
    BY DEF Rem!ExactlyOnce
  <1>1. CASE row[r].status = "completed"
    <2>1. PICK d \in inbox : d.id = r
      BY <1>1 DEF RemInv, Filed
    <2>2. Rem!DeliveriesOf(r) = {d}
      BY <2>1 DEF RemInv, Filed, Rem!DeliveriesOf
    <2> QED
      BY <1>1, <2>2, FS_Singleton, SameCardinality
  <1>2. CASE row[r].status # "completed"
    <2>1. Rem!DeliveriesOf(r) = {}
      BY <1>2 DEF RemInv, Filed, Rem!DeliveriesOf
    <2> QED
      BY <1>2, <2>1, FS_EmptySet, SameCardinality
  <1> QED
    BY <1>1, <1>2

\* A reminder is in the inbox once when it is completed and not at all otherwise,
\* through failed transactions, changes of its key and ends of the process.
THEOREM ExactlyOnceAlways == Rem!ReminderAssumption => (Rem!Spec => []Rem!ExactlyOnce)
  <1> SUFFICES ASSUME Rem!ReminderAssumption PROVE Rem!Spec => []Rem!ExactlyOnce
    OBVIOUS
  <1> QED
    BY FiledOnce, RemInvariance, PTL

\* A reminder is given up only after as many failed deliveries as the limit says.
THEOREM GivesUpLateAlways == Rem!ReminderAssumption => (Rem!Spec => []Rem!GivesUpLate)
  <1> SUFFICES ASSUME Rem!ReminderAssumption PROVE Rem!Spec => []Rem!GivesUpLate
    OBVIOUS
  <1>1. RemInv => Rem!GivesUpLate
    BY DEF RemInv
  <1> QED
    BY <1>1, RemInvariance, PTL

------------------------------------------------------------------------------
(* Workflow runs: the inductive invariant.                                 *)

StepRow == [st : Wf!StepStatuses, att : Nat, rev : Nat, arm : Wf!Target]
RunRow == [status : Wf!RunStatuses, rev : Nat, seq : Nat, told : BOOLEAN,
           by : {"submit", "owner", "retry"}, req : Request \cup {NoRequest},
           step : [Wf!Step -> StepRow]]

\* Attempts whose executor has not been started.
NotBegun == {"pending", "ready", "dispatching"}

\* A step that is to be executed, or was, is not held back by a predecessor.
Unblocked(r) ==
  \A s \in Wf!Step : r.step[s].st \notin {"pending", "skipped"} =>
    \A p \in Wf!Predecessors[s] : Wf!Satisfies(p, r.step[p])

\* What holds of every run by itself.
RunSound(r) ==
  /\ r \in RunRow
  /\ r.status \in {"pending", "running"} => r.seq = r.rev
  /\ r.status \in Wf!TerminalStatuses => \A s \in Wf!Step : r.step[s].st \notin Wf!InFlight
  /\ r.status = "cancelling" =>
       \A s \in Wf!Step : r.step[s].st \notin {"dispatching", "running"}
  /\ r.status = "completed" =>
       \A s \in Wf!Step : r.step[s].st \in {"completed", "skipped"}
  /\ r.status = "partial_success" =>
       \A s \in Wf!Step :
         \/ r.step[s].st \in {"completed", "skipped", "cancelled"}
         \/ r.step[s].st = "failed" /\ Policy[s] = "continue"
  /\ Unblocked(r)

OwnerPlaces == {"off", "admit", "loop", "frontier", "empty", "batch", "unwind", "fail",
                "failing", "cancel", "finalize", "recover"}
WorkerPlaces == {"off", "queued", "dispatch", "prepare", "start", "execute", "settle",
                 "retry", "abort", "error"}

WfTypes ==
  /\ run \in Seq(RunRow) /\ Len(run) <= MaxRuns
  /\ owner \in [pc : OwnerPlaces, rid : Nat, rev : Nat,
                why : {"none", "abort", "error", "stop"}, stop : BOOLEAN]
  /\ worker \in [Wf!Step -> [pc : WorkerPlaces, rev : Nat, seen : Nat]]
  /\ canceller \in [pc : {"idle", "interrupt", "waiting", "finalize"}, rid : Nat, rev : Nat]
  /\ pending \in BOOLEAN /\ owed \in Nat
  /\ begun \subseteq (1..MaxRuns) \X Wf!Step \X Nat

\* Who refers to a run refers to one that exists; fibers of a batch are the owner's.
Placed ==
  /\ owner.pc \notin {"off", "admit", "unwind"} => owner.rid \in DOMAIN run
  /\ owner.pc = "unwind" /\ owner.why = "abort" => owner.rid \in DOMAIN run
  /\ \A s \in Wf!Step : worker[s].pc # "off" =>
       owner.pc \in {"batch", "unwind"} /\ owner.rid \in DOMAIN run
  /\ \A s \in Wf!Step : worker[s].pc = "retry" => Policy[s] = "retry"
  /\ canceller.pc # "idle" => canceller.rid \in DOMAIN run

RunsSound == \A i \in DOMAIN run : RunSound(run[i])

\* An attempt that was started is the step's latest or an older one, and as the
\* latest it is past every state from which it could be started.
BegunOnce ==
  \A i \in 1..MaxRuns, s \in Wf!Step, a \in Nat : <<i, s, a>> \in begun =>
    /\ i \in DOMAIN run /\ a <= run[i].step[s].att
    /\ a = run[i].step[s].att => run[i].step[s].st \notin NotBegun

WfInv == WfTypes /\ Placed /\ RunsSound /\ BegunOnce /\ Wf!DependenciesFirst

WorkflowAssumption == Wf!GraphAssumption /\ Wf!RunAssumption

------------------------------------------------------------------------------
(* What may become of a row.                                               *)

RowKeeps(s, a, b) ==
  /\ Wf!Satisfies(s, a) => Wf!Satisfies(s, b)
  /\ a.att <= b.att
  /\ a.att = b.att /\ a.st \notin NotBegun => b.st \notin NotBegun

\* No step becomes one that is to be executed.
NoNewWork(r, q) ==
  \A s \in Wf!Step : q.step[s].st \notin {"pending", "skipped"} =>
                       r.step[s].st \notin {"pending", "skipped"}

RunKeeps(r, q) ==
  /\ r.status \in Wf!TerminalStatuses =>
       /\ q.status = r.status
       /\ \A s \in Wf!Step : r.step[s].st \notin Wf!Unstarted => q.step[s] = r.step[s]
  /\ \A s \in Wf!Step : RowKeeps(s, r.step[s], q.step[s])

\* Runs that go on, or went on to their end; steps that may still lead on.
Going == {"pending", "running", "completed"}
Open == NotBegun \cup {"running"}

\* A settled branch step, and what it gives up.
Chose(r, b) == Arms[b] # {} /\ r.step[b].st = "completed"
Lost(r, b) == Wf!Abandoned[b][r.step[b].arm]

\* What a completed step may have chosen.
Choices(s) == IF Arms[s] = {} THEN {Wf!END} ELSE Arms[s]

StaysGoing(r, q) == q.status \in Going => r.status \in Going

\* What was settled in its favour, or skipped, stays so.
StaysSettled(r, q) ==
  \A s \in Wf!Step :
    \/ r.step[s].st \in {"completed", "skipped"}
    \/ r.step[s].st = "failed" /\ Policy[s] = "continue"
    => q.step[s].st = r.step[s].st /\ q.step[s].arm = r.step[s].arm

\* Only a running step is completed, by itself, and a branch step chooses an arm.
SettlesOne(r, q) ==
  \A s \in Wf!Step : q.step[s].st = "completed" /\ r.step[s].st # "completed" =>
    /\ r.step[s].st = "running"
    /\ q.step[s].arm \in Choices(s)
    /\ \A t \in Wf!Step : t # s => q.step[t] = r.step[t]

\* As long as a run goes on, a step is skipped only with all that its branch gives up.
SkipsLost(r, q) ==
  q.status \in Going =>
    \A s \in Wf!Step : q.step[s].st = "skipped" /\ r.step[s].st # "skipped" =>
      \E b \in Wf!Step :
        /\ Chose(r, b) /\ s \in Lost(r, b)
        /\ \A d \in Wf!Step :
             d \in Lost(r, b) /\ r.step[d].st \in Wf!Unstarted => q.step[d].st = "skipped"

\* New work is what all predecessors allow and no settled branch gives up.
PromotesRightly(r, q) ==
  \A s \in Wf!Step :
    q.step[s].st \notin {"pending", "skipped"} /\ r.step[s].st \in {"pending", "skipped"} =>
      /\ q.status = r.status
      /\ \A p \in Wf!Predecessors[s] : Wf!Satisfies(p, q.step[p])
      /\ \A b \in Wf!Step : Chose(q, b) => s \notin Lost(q, b)

\* What waits or runs did so before, or is retried; and so it is in a run that stops.
OpensRetried(r, q) ==
  \A s \in Wf!Step :
    /\ q.step[s].st \in Open /\ r.step[s].st \notin Open => Wf!At(s, "retry")
    /\ q.step[s].st = "pending" => r.step[s].st = "pending"
    /\ q.step[s].st \in Wf!Unstarted /\ q.status \notin {"pending", "running"} =>
         /\ r.status \notin {"pending", "running"}
         /\ r.step[s].st \in Wf!Unstarted \/ Wf!At(s, "retry")

Moves(r, q) ==
  /\ StaysGoing(r, q) /\ StaysSettled(r, q) /\ SettlesOne(r, q) /\ SkipsLost(r, q)
  /\ PromotesRightly(r, q) /\ OpensRetried(r, q)

\* Most changes neither complete, promote, retry nor skip any step of a run that goes on.
Plain(r, q) ==
  /\ StaysGoing(r, q) /\ NoNewWork(r, q)
  /\ \A s \in Wf!Step :
       /\ r.step[s].st \in {"completed", "skipped", "failed"} =>
            q.step[s].st = r.step[s].st /\ q.step[s].arm = r.step[s].arm
       /\ q.step[s].st = "completed" => r.step[s].st = "completed"
       /\ q.step[s].st \in Open => r.step[s].st \in Open
       /\ q.step[s].st = "pending" => r.step[s].st = "pending"
       /\ q.step[s].st = "skipped" /\ q.status \in Going => r.step[s].st = "skipped"
       /\ q.step[s].st \in Wf!Unstarted /\ q.status \notin {"pending", "running"} =>
            r.status \notin {"pending", "running"} /\ r.step[s].st \in Wf!Unstarted

RunBecomes(r, q) == RunSound(q) /\ RunKeeps(r, q) /\ Moves(r, q)

LEMMA PlainMoves ==
  ASSUME NEW r, NEW q, Plain(r, q)
  PROVE  Moves(r, q)
<1>1. StaysGoing(r, q) /\ StaysSettled(r, q) /\ SettlesOne(r, q) /\ SkipsLost(r, q)
  BY DEF Plain, StaysSettled, SettlesOne, SkipsLost
<1>2. PromotesRightly(r, q) BY DEF Plain, NoNewWork, PromotesRightly
<1>3. OpensRetried(r, q) BY DEF Plain, OpensRetried
<1> QED BY <1>1, <1>2, <1>3 DEF Moves

------------------------------------------------------------------------------
(* The graph.                                                              *)

\* What a step leads to has the step and is closed; no predecessor is in it.
LEMMA Reached ==
  ASSUME WorkflowAssumption, NEW t \in Wf!Step
  PROVE  /\ t \in Wf!Descendants[t] /\ Wf!Descendants[t] \subseteq Wf!Step
         /\ \A p \in Wf!Descendants[t] : Wf!Successors(p) \subseteq Wf!Descendants[t]
<1>1. t \in Wf!Target BY DEF Wf!Target
<1>2. t # Wf!END BY DEF Wf!Step, Wf!END
<1>3. Wf!Descendants[t] =
        {s \in Wf!Step : \A A \in SUBSET Wf!Step :
           t \in A \cup {Wf!END} /\ (\A p \in A : Wf!Successors(p) \subseteq A) => s \in A}
  BY <1>1 DEF Wf!Descendants
<1>4. \A p \in Wf!Step : Wf!Successors(p) \subseteq Wf!Step
  BY DEF WorkflowAssumption, Wf!GraphAssumption, Wf!Successors, Wf!Target
<1>5. \A p \in Wf!Descendants[t] : Wf!Successors(p) \subseteq Wf!Descendants[t]
  <2> SUFFICES ASSUME NEW p \in Wf!Descendants[t], NEW s \in Wf!Successors(p)
               PROVE  s \in Wf!Descendants[t]
    OBVIOUS
  <2>1. p \in Wf!Step /\ s \in Wf!Step BY <1>3, <1>4
  <2>2. ASSUME NEW A \in SUBSET Wf!Step, t \in A \cup {Wf!END},
               \A x \in A : Wf!Successors(x) \subseteq A
        PROVE  s \in A
    BY <1>3, <2>2
  <2> QED BY <1>3, <2>1, <2>2
<1> QED BY <1>2, <1>3, <1>5

LEMMA NoCycle ==
  ASSUME WorkflowAssumption, NEW s \in Wf!Step, NEW p \in Wf!Predecessors[s]
  PROVE  p \in Wf!Step /\ p \notin Wf!Descendants[s] /\ s \in Wf!Successors(p)
<1>1. p \in Wf!Step /\ s \in Wf!Successors(p) BY DEF Wf!Predecessors
<1>2. p \notin Wf!Descendants[s] BY <1>1 DEF WorkflowAssumption, Wf!GraphAssumption
<1> QED BY <1>1, <1>2

LEMMA EntryIsFirst ==
  ASSUME WorkflowAssumption
  PROVE  1 \in Wf!Step /\ Wf!Predecessors[1] = {}
<1>1. 1 \in Wf!Step /\ Wf!Step = Wf!Descendants[1]
  BY DEF WorkflowAssumption, Wf!GraphAssumption, Wf!Step
<1> QED BY <1>1, NoCycle

\* What is reached from a step is in every closed set that has the step; and some
\* predecessor of a step that is reached is reached as well.
LEMMA ReachedIn ==
  ASSUME WorkflowAssumption, NEW t \in Wf!Step, NEW A \in SUBSET Wf!Step, t \in A,
         \A p \in A : Wf!Successors(p) \subseteq A
  PROVE  Wf!Descendants[t] \subseteq A
<1>1. t \in Wf!Target BY DEF Wf!Target
<1>2. Wf!Descendants[t] =
        {s \in Wf!Step : \A B \in SUBSET Wf!Step :
           t \in B \cup {Wf!END} /\ (\A p \in B : Wf!Successors(p) \subseteq B) => s \in B}
  BY <1>1 DEF Wf!Descendants
<1> QED BY <1>2

LEMMA Entered ==
  ASSUME WorkflowAssumption, NEW t \in Wf!Step, NEW s \in Wf!Descendants[t], s # t
  PROVE  \E p \in Wf!Predecessors[s] : p \in Wf!Descendants[t]
<1> SUFFICES ASSUME \A p \in Wf!Predecessors[s] : p \notin Wf!Descendants[t]
             PROVE  FALSE
  OBVIOUS
<1> DEFINE A == Wf!Descendants[t] \ {s}
<1>1. /\ t \in Wf!Descendants[t] /\ Wf!Descendants[t] \subseteq Wf!Step
      /\ \A p \in Wf!Descendants[t] : Wf!Successors(p) \subseteq Wf!Descendants[t]
  BY Reached
<1>2. ASSUME NEW p \in A PROVE Wf!Successors(p) \subseteq A
  BY <1>1, <1>2 DEF Wf!Predecessors
<1>3. Wf!Descendants[t] \subseteq A
  <2> HIDE DEF A
  <2>1. A \in SUBSET Wf!Step /\ t \in A BY <1>1 DEF A
  <2> QED BY <1>2, <2>1, ReachedIn
<1> QED BY <1>3

\* END leads nowhere.
LEMMA EndReached ==
  ASSUME WorkflowAssumption
  PROVE  Wf!Descendants[Wf!END] = {}
<1>1. Wf!END \in Wf!Target BY DEF Wf!Target
<1>2. Wf!Descendants[Wf!END] =
        {s \in Wf!Step : \A B \in SUBSET Wf!Step :
           Wf!END \in B \cup {Wf!END} /\ (\A p \in B : Wf!Successors(p) \subseteq B)
             => s \in B}
  BY <1>1 DEF Wf!Descendants
<1>3. {} \in SUBSET Wf!Step OBVIOUS
<1> QED BY <1>2, <1>3

\* What a branch step gives up: another arm leads to it, the chosen one does not, and
\* its predecessors are given up too.  Nothing else is like that.
LEMMA AbandonedIs ==
  ASSUME WorkflowAssumption, NEW b \in Wf!Step, NEW c \in Wf!Target
  PROVE  /\ \A d \in Wf!Abandoned[b][c] :
              /\ d \in Wf!Step /\ d \notin Wf!Descendants[c]
              /\ \E t \in Arms[b] : t # c /\ t \in Wf!Step /\ d \in Wf!Descendants[t]
              /\ \A p \in Wf!Predecessors[d] : p # b => p \in Wf!Abandoned[b][c]
         /\ \A d \in Wf!Step :
              /\ d \notin Wf!Descendants[c]
              /\ \E t \in Arms[b] : t # c /\ t \in Wf!Step /\ d \in Wf!Descendants[t]
              /\ \A p \in Wf!Predecessors[d] : p # b => p \in Wf!Abandoned[b][c]
              => d \in Wf!Abandoned[b][c]
<1> DEFINE Cand == (UNION {Wf!Descendants[t] : t \in Arms[b] \ {c}}) \ Wf!Descendants[c]
           Closed(A) == \A d \in A : Wf!Predecessors[d] \ {b} \subseteq A
           All == Wf!Abandoned[b][c]
<1>1. All = UNION {A \in SUBSET Cand : Closed(A)} BY DEF Wf!Abandoned
<1>2. Arms[b] \subseteq Wf!Step \cup {Wf!END}
  BY DEF WorkflowAssumption, Wf!GraphAssumption, Wf!Target
<1>3. \A d : d \in Cand <=>
        d \notin Wf!Descendants[c] /\ \E t \in Arms[b] : t # c /\ d \in Wf!Descendants[t]
  OBVIOUS
<1>4. \A d \in Cand :
        d \in Wf!Step /\ \E t \in Arms[b] : t # c /\ t \in Wf!Step /\ d \in Wf!Descendants[t]
  <2> HIDE DEF Cand
  <2> QED BY <1>2, <1>3, EndReached, Reached
<1> HIDE DEF Cand, All
<1>5. All \subseteq Cand /\ Closed(All) BY <1>1
<1>6. ASSUME NEW d \in Cand, Wf!Predecessors[d] \ {b} \subseteq All
      PROVE  d \in All
  <2>1. All \cup {d} \in SUBSET Cand /\ Closed(All \cup {d}) BY <1>5, <1>6
  <2> HIDE DEF Closed
  <2> QED BY <1>1, <2>1
<1> QED BY <1>3, <1>4, <1>5, <1>6 DEF All

------------------------------------------------------------------------------
(* Changes of one run.                                                     *)

LEMMA MarkIs ==
  ASSUME NEW rows \in [Wf!Step -> StepRow], NEW from, NEW to \in Wf!StepStatuses
  PROVE  /\ Wf!Mark(rows, from, to) \in [Wf!Step -> StepRow]
         /\ \A s \in Wf!Step :
              /\ rows[s].st \in from => Wf!Mark(rows, from, to)[s].st = to
              /\ rows[s].st \notin from => Wf!Mark(rows, from, to)[s] = rows[s]
              /\ Wf!Mark(rows, from, to)[s].att = rows[s].att
<1> DEFINE m == Wf!Mark(rows, from, to)
<1>1. ASSUME NEW s \in Wf!Step
      PROVE  /\ m[s] \in StepRow /\ m[s].att = rows[s].att
             /\ rows[s].st \in from => m[s].st = to
             /\ rows[s].st \notin from => m[s] = rows[s]
  <2>1. rows[s] \in StepRow OBVIOUS
  <2>2. m[s] = IF rows[s].st \in from
               THEN [rows[s] EXCEPT !.st = to, !.rev = @ + 1] ELSE rows[s]
    BY DEF Wf!Mark
  <2> HIDE DEF m
  <2>3. CASE rows[s].st \in from
    <3> DEFINE line == rows[s]
    <3>1. line \in StepRow BY <2>1
    <3>2. m[s] = [line EXCEPT !.st = to, !.rev = @ + 1] BY <2>2, <2>3
    <3> HIDE DEF line
    <3>3. line.rev + 1 \in Nat BY <3>1 DEF StepRow
    <3>4. m[s] = [line EXCEPT !.st = to, !.rev = line.rev + 1] BY <3>1, <3>2 DEF StepRow
    <3>5. m[s] \in StepRow /\ m[s].st = to /\ m[s].att = line.att
      BY <3>1, <3>3, <3>4 DEF StepRow
    <3> QED BY <2>3, <3>5 DEF line
  <2>4. CASE rows[s].st \notin from
    BY <2>1, <2>2, <2>4
  <2> QED BY <2>3, <2>4
<1>2. m = [s \in Wf!Step |-> m[s]] BY DEF Wf!Mark
<1> QED BY <1>1, <1>2

LEMMA Kept ==
  ASSUME NEW r, NEW q, Unblocked(r), NoNewWork(r, q),
         \A s \in Wf!Step : RowKeeps(s, r.step[s], q.step[s])
  PROVE  Unblocked(q)
<1> SUFFICES ASSUME NEW s \in Wf!Step, q.step[s].st \notin {"pending", "skipped"},
                    NEW p \in Wf!Predecessors[s]
             PROVE  Wf!Satisfies(p, q.step[p])
  BY DEF Unblocked
<1>1. Wf!Satisfies(p, r.step[p]) BY DEF Unblocked, NoNewWork
<1>2. p \in Wf!Step BY DEF Wf!Predecessors
<1> QED BY <1>1, <1>2 DEF RowKeeps

LEMMA MoveIs ==
  ASSUME NEW r \in RunRow, NEW stat \in Wf!RunStatuses, NEW rows \in [Wf!Step -> StepRow]
  PROVE  /\ Wf!Move(r, stat, rows) \in RunRow
         /\ Wf!Move(r, stat, rows).status = stat
         /\ Wf!Move(r, stat, rows).step = rows
<1>1. r.rev + 1 \in Nat BY DEF RunRow
<1>2. Wf!Move(r, stat, rows) =
        [r EXCEPT !.status = stat, !.rev = r.rev + 1, !.step = rows]
  BY DEF Wf!Move, RunRow
<1> QED BY <1>1, <1>2 DEF RunRow

LEMMA TellIs ==
  ASSUME NEW r, RunSound(r)
  PROVE  /\ RunSound(Wf!Tell(r)) /\ RunKeeps(r, Wf!Tell(r)) /\ Plain(r, Wf!Tell(r))
         /\ Wf!Tell(r).status = r.status /\ Wf!Tell(r).step = r.step
<1>1. /\ Wf!Tell(r) \in RunRow /\ Wf!Tell(r).status = r.status
      /\ Wf!Tell(r).step = r.step /\ Wf!Tell(r).seq = r.seq /\ Wf!Tell(r).rev = r.rev
  BY DEF Wf!Tell, RunSound, RunRow
<1>2. \A s \in Wf!Step : r.step[s].att <= r.step[s].att BY DEF RunSound, RunRow, StepRow
<1>3. RunSound(Wf!Tell(r)) /\ RunKeeps(r, Wf!Tell(r))
  BY <1>1, <1>2 DEF RunSound, RunKeeps, RowKeeps, Unblocked
<1>4. Plain(r, Wf!Tell(r)) BY <1>1 DEF Plain, StaysGoing, NoNewWork
<1> QED BY <1>1, <1>3, <1>4

LEMMA FailedIs ==
  ASSUME NEW r, RunSound(r), r.status \notin Wf!TerminalStatuses
  PROVE  RunBecomes(r, Wf!Failed(r))
<1> DEFINE mid == Wf!Mark(r.step, Wf!InFlight, "cancelled")
           rows == Wf!Mark(mid, Wf!Unstarted, "skipped")
<1>1. r \in RunRow /\ r.step \in [Wf!Step -> StepRow] BY DEF RunSound, RunRow
<1>2. mid \in [Wf!Step -> StepRow] BY <1>1, MarkIs DEF Wf!StepStatuses
<1>3. rows \in [Wf!Step -> StepRow] BY <1>2, MarkIs DEF Wf!StepStatuses
<1>4. \A s \in Wf!Step :
        /\ r.step[s].st \in Wf!InFlight => rows[s].st = "cancelled"
        /\ r.step[s].st \in Wf!Unstarted => rows[s].st = "skipped"
        /\ r.step[s].st \notin Wf!InFlight \cup Wf!Unstarted => rows[s] = r.step[s]
        /\ rows[s].att = r.step[s].att /\ r.step[s].att \in Nat
  <2> TAKE s \in Wf!Step
  <2> HIDE DEF mid, rows
  <2>1. /\ r.step[s].st \in Wf!InFlight => mid[s].st = "cancelled"
        /\ r.step[s].st \notin Wf!InFlight => mid[s] = r.step[s]
        /\ mid[s].att = r.step[s].att
    BY <1>1, MarkIs DEF mid, Wf!StepStatuses
  <2>2. /\ mid[s].st \in Wf!Unstarted => rows[s].st = "skipped"
        /\ mid[s].st \notin Wf!Unstarted => rows[s] = mid[s]
        /\ rows[s].att = mid[s].att
    BY <1>2, MarkIs DEF rows, Wf!StepStatuses
  <2> QED BY <1>1, <2>1, <2>2 DEF Wf!InFlight, Wf!Unstarted, StepRow
<1>5. /\ Wf!Failed(r) \in RunRow /\ Wf!Failed(r).status = "failed"
      /\ Wf!Failed(r).step = rows
  BY <1>1, <1>3, MoveIs DEF Wf!Failed, Wf!RunStatuses, Wf!TerminalStatuses
<1> HIDE DEF mid, rows
<1>6. \A s \in Wf!Step : RowKeeps(s, r.step[s], rows[s])
  BY <1>4 DEF RowKeeps, Wf!Satisfies, NotBegun, Wf!InFlight, Wf!Unstarted
<1>7. Unblocked(Wf!Failed(r))
  <2>1. NoNewWork(r, Wf!Failed(r))
    BY <1>4, <1>5 DEF NoNewWork, Wf!InFlight, Wf!Unstarted
  <2> QED BY <1>5, <1>6, <2>1, Kept DEF RunSound
<1>8. \A s \in Wf!Step : rows[s].st \notin Wf!InFlight
  BY <1>4 DEF Wf!InFlight, Wf!Unstarted
<1>9. Plain(r, Wf!Failed(r))
  BY <1>4, <1>5
     DEF Plain, StaysGoing, Going, Open, NotBegun, NoNewWork, Wf!InFlight, Wf!Unstarted
<1> QED BY <1>5, <1>6, <1>7, <1>8, <1>9, PlainMoves DEF RunBecomes, RunSound, RunKeeps

LEMMA CancellingIs ==
  ASSUME NEW r, RunSound(r), r.status \notin Wf!TerminalStatuses
  PROVE  RunBecomes(r, Wf!Cancelling(r)) /\ Plain(r, Wf!Cancelling(r))
<1> DEFINE mid == Wf!Mark(r.step, {"running", "dispatching"}, "cancelling")
           rows == Wf!Mark(mid, Wf!Unstarted, "skipped")
<1>1. r \in RunRow /\ r.step \in [Wf!Step -> StepRow] BY DEF RunSound, RunRow
<1>2. mid \in [Wf!Step -> StepRow] BY <1>1, MarkIs DEF Wf!StepStatuses
<1>3. rows \in [Wf!Step -> StepRow] BY <1>2, MarkIs DEF Wf!StepStatuses
<1>4. \A s \in Wf!Step :
        /\ r.step[s].st \in {"running", "dispatching"} => rows[s].st = "cancelling"
        /\ r.step[s].st \in Wf!Unstarted => rows[s].st = "skipped"
        /\ r.step[s].st \notin {"running", "dispatching"} \cup Wf!Unstarted
             => rows[s] = r.step[s]
        /\ rows[s].att = r.step[s].att /\ r.step[s].att \in Nat
  <2> TAKE s \in Wf!Step
  <2> HIDE DEF mid, rows
  <2>1. /\ r.step[s].st \in {"running", "dispatching"} => mid[s].st = "cancelling"
        /\ r.step[s].st \notin {"running", "dispatching"} => mid[s] = r.step[s]
        /\ mid[s].att = r.step[s].att
    BY <1>1, MarkIs DEF mid, Wf!StepStatuses
  <2>2. /\ mid[s].st \in Wf!Unstarted => rows[s].st = "skipped"
        /\ mid[s].st \notin Wf!Unstarted => rows[s] = mid[s]
        /\ rows[s].att = mid[s].att
    BY <1>2, MarkIs DEF rows, Wf!StepStatuses
  <2> QED BY <1>1, <2>1, <2>2 DEF Wf!Unstarted, StepRow
<1>5. /\ Wf!Cancelling(r) \in RunRow /\ Wf!Cancelling(r).status = "cancelling"
      /\ Wf!Cancelling(r).step = rows
  BY <1>1, <1>3, MoveIs DEF Wf!Cancelling, Wf!RunStatuses
<1> HIDE DEF mid, rows
<1>6. \A s \in Wf!Step : RowKeeps(s, r.step[s], rows[s])
  BY <1>4 DEF RowKeeps, Wf!Satisfies, NotBegun, Wf!Unstarted
<1>7. Unblocked(Wf!Cancelling(r))
  <2>1. NoNewWork(r, Wf!Cancelling(r)) BY <1>4, <1>5 DEF NoNewWork, Wf!Unstarted
  <2> QED BY <1>5, <1>6, <2>1, Kept DEF RunSound
<1>8. \A s \in Wf!Step : rows[s].st \notin {"dispatching", "running"}
  BY <1>4 DEF Wf!Unstarted
<1>9. Plain(r, Wf!Cancelling(r))
  BY <1>4, <1>5 DEF Plain, StaysGoing, Going, Open, NotBegun, NoNewWork, Wf!Unstarted
<1> QED BY <1>5, <1>6, <1>7, <1>8, <1>9, PlainMoves
        DEF RunBecomes, RunSound, RunKeeps, Wf!TerminalStatuses

LEMMA CancelledIs ==
  ASSUME NEW r, RunSound(r), r.status = "cancelling"
  PROVE  RunBecomes(r, Wf!Cancelled(r)) /\ Plain(r, Wf!Cancelled(r))
<1> DEFINE rows == Wf!Mark(r.step, {"cancelling"}, "cancelled")
<1>1. r \in RunRow /\ r.step \in [Wf!Step -> StepRow] BY DEF RunSound, RunRow
<1>2. rows \in [Wf!Step -> StepRow] BY <1>1, MarkIs DEF Wf!StepStatuses
<1>3. \A s \in Wf!Step :
        /\ r.step[s].st = "cancelling" => rows[s].st = "cancelled"
        /\ r.step[s].st # "cancelling" => rows[s] = r.step[s]
        /\ rows[s].att = r.step[s].att /\ r.step[s].att \in Nat
  BY <1>1, MarkIs DEF Wf!StepStatuses, StepRow
<1>4. /\ Wf!Cancelled(r) \in RunRow /\ Wf!Cancelled(r).status = "cancelled"
      /\ Wf!Cancelled(r).step = rows
  BY <1>1, <1>2, MoveIs DEF Wf!Cancelled, Wf!RunStatuses, Wf!TerminalStatuses
<1> HIDE DEF rows
<1>5. \A s \in Wf!Step : RowKeeps(s, r.step[s], rows[s])
  BY <1>3 DEF RowKeeps, Wf!Satisfies, NotBegun
<1>6. Unblocked(Wf!Cancelled(r))
  <2>1. NoNewWork(r, Wf!Cancelled(r)) BY <1>3, <1>4 DEF NoNewWork
  <2> QED BY <1>4, <1>5, <2>1, Kept DEF RunSound
<1>7. \A s \in Wf!Step : rows[s].st \notin Wf!InFlight
  BY <1>3 DEF RunSound, Wf!InFlight
<1>8. Plain(r, Wf!Cancelled(r))
  BY <1>3, <1>4 DEF Plain, StaysGoing, Going, Open, NotBegun, NoNewWork, Wf!Unstarted
<1> QED BY <1>4, <1>5, <1>6, <1>7, <1>8, PlainMoves
        DEF RunBecomes, RunSound, RunKeeps, Wf!TerminalStatuses

LEMMA SameIs ==
  ASSUME NEW r, RunSound(r)
  PROVE  RunBecomes(r, r) /\ Plain(r, r)
<1>1. \A s \in Wf!Step : r.step[s].att <= r.step[s].att BY DEF RunSound, RunRow, StepRow
<1>2. Plain(r, r) BY DEF Plain, StaysGoing, NoNewWork
<1> QED BY <1>1, <1>2, PlainMoves DEF RunBecomes, RunKeeps, RowKeeps

LEMMA CancelRowIs ==
  ASSUME NEW r, RunSound(r)
  PROVE  RunBecomes(r, Wf!CancelRow(r)) /\ Plain(r, Wf!CancelRow(r))
<1>1. CASE r.status \in Wf!TerminalStatuses \cup {"cancelling"}
  BY <1>1, SameIs DEF Wf!CancelRow
<1>2. CASE r.status \notin Wf!TerminalStatuses \cup {"cancelling"}
  BY <1>2, CancellingIs DEF Wf!CancelRow
<1> QED BY <1>1, <1>2

LEMMA RecoveredIs ==
  ASSUME NEW r, RunSound(r), r.status \notin Wf!TerminalStatuses
  PROVE  RunBecomes(r, Wf!Recovered(r))
<1>1. r \in RunRow /\ r.step \in [Wf!Step -> StepRow] BY DEF RunSound, RunRow
<1>2. CASE \E s \in Wf!Step : r.step[s].st = "running"
  <2> DEFINE from == Wf!Unstarted \cup {"dispatching", "cancelling"}
             mid == Wf!Mark(r.step, {"running"}, "execution_unknown")
             rows == Wf!Mark(mid, from, "skipped")
  <2>1. mid \in [Wf!Step -> StepRow] BY <1>1, MarkIs DEF Wf!StepStatuses
  <2>2. rows \in [Wf!Step -> StepRow] BY <2>1, MarkIs DEF Wf!StepStatuses
  <2>3. \A s \in Wf!Step :
          /\ r.step[s].st = "running" => rows[s].st = "execution_unknown"
          /\ r.step[s].st \in from => rows[s].st = "skipped"
          /\ r.step[s].st \notin from \cup {"running"} => rows[s] = r.step[s]
          /\ rows[s].att = r.step[s].att /\ r.step[s].att \in Nat
    <3> TAKE s \in Wf!Step
    <3> HIDE DEF mid, rows, from
    <3>1. /\ r.step[s].st = "running" => mid[s].st = "execution_unknown"
          /\ r.step[s].st # "running" => mid[s] = r.step[s]
          /\ mid[s].att = r.step[s].att
      BY <1>1, MarkIs DEF mid, Wf!StepStatuses
    <3>2. /\ mid[s].st \in from => rows[s].st = "skipped"
          /\ mid[s].st \notin from => rows[s] = mid[s]
          /\ rows[s].att = mid[s].att
      BY <2>1, MarkIs DEF rows, Wf!StepStatuses
    <3>3. "execution_unknown" \notin from /\ "running" \notin from
      BY DEF from, Wf!Unstarted
    <3> QED BY <1>1, <3>1, <3>2, <3>3 DEF StepRow
  <2>4. /\ Wf!Recovered(r) \in RunRow /\ Wf!Recovered(r).status = "recovery_required"
        /\ Wf!Recovered(r).step = rows
    <3>1. Wf!Recovered(r) = Wf!Move(r, "recovery_required", rows)
      BY <1>2 DEF Wf!Recovered
    <3>2. "recovery_required" \in Wf!RunStatuses BY DEF Wf!RunStatuses, Wf!TerminalStatuses
    <3> HIDE DEF mid, rows, from
    <3> QED BY <1>1, <2>2, <3>1, <3>2, MoveIs
  <2> HIDE DEF mid, rows
  <2>5. \A s \in Wf!Step : RowKeeps(s, r.step[s], rows[s])
    BY <2>3 DEF RowKeeps, Wf!Satisfies, NotBegun, Wf!Unstarted, from
  <2>6. Unblocked(Wf!Recovered(r))
    <3>1. NoNewWork(r, Wf!Recovered(r)) BY <2>3, <2>4 DEF NoNewWork, Wf!Unstarted
    <3> QED BY <2>4, <2>5, <3>1, Kept DEF RunSound
  <2>7. \A s \in Wf!Step : rows[s].st \notin Wf!InFlight
    BY <2>3 DEF Wf!InFlight, Wf!Unstarted
  <2>8. Plain(r, Wf!Recovered(r))
    BY <2>3, <2>4 DEF from, Plain, StaysGoing, Going, Open, NotBegun, NoNewWork, Wf!Unstarted
  <2> QED BY <2>4, <2>5, <2>6, <2>7, <2>8, PlainMoves
          DEF RunBecomes, RunSound, RunKeeps, Wf!TerminalStatuses
<1>3. CASE ~\E s \in Wf!Step : r.step[s].st = "running"
  <2> DEFINE rows == Wf!Mark(r.step, {"dispatching"}, "ready")
  <2>1. rows \in [Wf!Step -> StepRow] BY <1>1, MarkIs DEF Wf!StepStatuses
  <2>2. \A s \in Wf!Step :
          /\ r.step[s].st = "dispatching" => rows[s].st = "ready"
          /\ r.step[s].st # "dispatching" => rows[s] = r.step[s]
          /\ rows[s].att = r.step[s].att /\ r.step[s].att \in Nat
    <3>1. "ready" \in Wf!StepStatuses BY DEF Wf!StepStatuses
    <3>2. \A s \in Wf!Step : r.step[s].att \in Nat BY <1>1 DEF StepRow
    <3> QED BY <1>1, <3>1, <3>2, MarkIs
  <2> HIDE DEF rows
  <2>3. /\ Wf!Recovered(r) \in RunRow /\ Wf!Recovered(r).status = r.status
        /\ Wf!Recovered(r).step = rows /\ Wf!Recovered(r).seq = r.seq
        /\ Wf!Recovered(r).rev = r.rev
    BY <1>1, <1>3, <2>1 DEF Wf!Recovered, RunRow, rows
  <2>4. \A s \in Wf!Step : RowKeeps(s, r.step[s], rows[s])
    BY <2>2 DEF RowKeeps, Wf!Satisfies, NotBegun
  <2>5. Unblocked(Wf!Recovered(r))
    <3>1. NoNewWork(r, Wf!Recovered(r)) BY <2>2, <2>3 DEF NoNewWork
    <3> QED BY <2>3, <2>4, <3>1, Kept DEF RunSound
  <2>6. r.status = "cancelling" =>
          \A s \in Wf!Step : rows[s].st \notin {"dispatching", "running"}
    BY <2>2 DEF RunSound
  <2>7. Plain(r, Wf!Recovered(r))
    <3>1. r.status \notin {"pending", "running"} =>
            \A s \in Wf!Step : r.step[s].st # "dispatching"
      BY <1>1 DEF RunSound, RunRow, Wf!RunStatuses
    <3> QED
      BY <2>2, <2>3, <3>1
         DEF Plain, StaysGoing, Going, Open, NotBegun, NoNewWork, Wf!Unstarted
  <2> QED BY <2>3, <2>4, <2>5, <2>6, <2>7, PlainMoves
          DEF RunBecomes, RunSound, RunKeeps, Wf!TerminalStatuses
<1> QED BY <1>2, <1>3

LEMMA SkippedIs ==
  ASSUME NEW rows \in [Wf!Step -> StepRow]
  PROVE  /\ Wf!Skipped(rows) \in [Wf!Step -> StepRow]
         /\ \A s \in Wf!Step :
              /\ \/ Wf!Skipped(rows)[s] = rows[s]
                 \/ rows[s].st \in Wf!Unstarted /\ Wf!Skipped(rows)[s].st = "skipped"
              /\ Wf!Skipped(rows)[s].att = rows[s].att
              /\ Wf!Skipped(rows)[s] # rows[s] =>
                   \E b \in Wf!Step : Chose([step |-> rows], b) /\ s \in Lost([step |-> rows], b)
              /\ \A b \in Wf!Step :
                   /\ Chose([step |-> rows], b) /\ s \in Lost([step |-> rows], b)
                   /\ rows[s].st \in Wf!Unstarted
                   => Wf!Skipped(rows)[s].st = "skipped"
<1> DEFINE m == Wf!Skipped(rows)
           branched == {b \in Wf!Step : Arms[b] # {} /\ rows[b].st = "completed"}
           given == UNION {Wf!Abandoned[b][rows[b].arm] : b \in branched}
<1>1. ASSUME NEW s \in Wf!Step
      PROVE  /\ m[s] \in StepRow /\ m[s].att = rows[s].att
             /\ m[s] = rows[s] \/ (rows[s].st \in Wf!Unstarted /\ m[s].st = "skipped")
             /\ m[s] # rows[s] => s \in given
             /\ s \in given /\ rows[s].st \in Wf!Unstarted => m[s].st = "skipped"
  <2>1. rows[s] \in StepRow OBVIOUS
  <2>2. m[s] = IF s \in given /\ rows[s].st \in Wf!Unstarted
               THEN [rows[s] EXCEPT !.st = "skipped", !.rev = @ + 1] ELSE rows[s]
    BY DEF Wf!Skipped
  <2> HIDE DEF m, given
  <2>3. CASE s \in given /\ rows[s].st \in Wf!Unstarted
    <3> DEFINE line == rows[s]
    <3>1. line \in StepRow BY <2>1
    <3>2. m[s] = [line EXCEPT !.st = "skipped", !.rev = @ + 1] BY <2>2, <2>3
    <3> HIDE DEF line
    <3>3. line.rev + 1 \in Nat BY <3>1 DEF StepRow
    <3>4. m[s] = [line EXCEPT !.st = "skipped", !.rev = line.rev + 1]
      BY <3>1, <3>2 DEF StepRow
    <3>5. m[s] \in StepRow /\ m[s].st = "skipped" /\ m[s].att = line.att
      BY <3>1, <3>3, <3>4 DEF StepRow, Wf!StepStatuses
    <3> QED BY <2>3, <3>5 DEF line
  <2>4. CASE ~(s \in given /\ rows[s].st \in Wf!Unstarted)
    BY <2>1, <2>2, <2>4
  <2> QED BY <2>3, <2>4
<1>2. m = [s \in Wf!Step |-> m[s]] BY DEF Wf!Skipped
<1>3. \A s : s \in given <=>
        \E b \in Wf!Step : Chose([step |-> rows], b) /\ s \in Lost([step |-> rows], b)
  BY DEF Chose, Lost
<1> HIDE DEF m, given
<1> QED BY <1>1, <1>2, <1>3 DEF m

LEMMA PromotedIs ==
  ASSUME NEW rows \in [Wf!Step -> StepRow]
  PROVE  /\ Wf!Promoted(rows) \in [Wf!Step -> StepRow]
         /\ \A s \in Wf!Step :
              /\ \/ Wf!Promoted(rows)[s] = rows[s]
                 \/ /\ rows[s].st = "pending" /\ Wf!Promoted(rows)[s].st = "ready"
                    /\ \A p \in Wf!Predecessors[s] : Wf!Satisfies(p, rows[p])
              /\ Wf!Promoted(rows)[s].att = rows[s].att
<1> DEFINE m == Wf!Promoted(rows)
           Free(s) == \A p \in Wf!Predecessors[s] : Wf!Satisfies(p, rows[p])
<1>1. ASSUME NEW s \in Wf!Step
      PROVE  /\ m[s] \in StepRow /\ m[s].att = rows[s].att
             /\ m[s] = rows[s] \/ (rows[s].st = "pending" /\ m[s].st = "ready" /\ Free(s))
  <2>1. rows[s] \in StepRow OBVIOUS
  <2>2. m[s] = IF rows[s].st = "pending" /\ Free(s)
               THEN [rows[s] EXCEPT !.st = "ready", !.rev = @ + 1] ELSE rows[s]
    BY DEF Wf!Promoted
  <2> HIDE DEF m, Free
  <2>3. CASE rows[s].st = "pending" /\ Free(s)
    <3> DEFINE line == rows[s]
    <3>1. line \in StepRow BY <2>1
    <3>2. m[s] = [line EXCEPT !.st = "ready", !.rev = @ + 1] BY <2>2, <2>3
    <3> HIDE DEF line
    <3>3. line.rev + 1 \in Nat BY <3>1 DEF StepRow
    <3>4. m[s] = [line EXCEPT !.st = "ready", !.rev = line.rev + 1]
      BY <3>1, <3>2 DEF StepRow
    <3>5. m[s] \in StepRow /\ m[s].st = "ready" /\ m[s].att = line.att
      BY <3>1, <3>3, <3>4 DEF StepRow, Wf!StepStatuses
    <3> QED BY <2>3, <3>5 DEF line
  <2>4. CASE ~(rows[s].st = "pending" /\ Free(s))
    BY <2>1, <2>2, <2>4
  <2> QED BY <2>3, <2>4
<1>2. m = [s \in Wf!Step |-> m[s]] BY DEF Wf!Promoted
<1> HIDE DEF m
<1> QED BY <1>1, <1>2 DEF m

LEMMA FrontierIs ==
  ASSUME NEW r, RunSound(r)
  PROVE  RunBecomes(r, [r EXCEPT !.step = Wf!Promoted(Wf!Skipped(r.step))])
<1> DEFINE mid == Wf!Skipped(r.step)
           rows == Wf!Promoted(mid)
           q == [r EXCEPT !.step = rows]
<1>1. r \in RunRow /\ r.step \in [Wf!Step -> StepRow] BY DEF RunSound, RunRow
<1>2. /\ mid \in [Wf!Step -> StepRow]
      /\ \A s \in Wf!Step :
           /\ \/ mid[s] = r.step[s]
              \/ r.step[s].st \in Wf!Unstarted /\ mid[s].st = "skipped"
           /\ mid[s].att = r.step[s].att
           /\ mid[s] # r.step[s] => \E b \in Wf!Step : Chose(r, b) /\ s \in Lost(r, b)
           /\ \A b \in Wf!Step :
                Chose(r, b) /\ s \in Lost(r, b) /\ r.step[s].st \in Wf!Unstarted
                  => mid[s].st = "skipped"
  <2>1. \A b : /\ Chose([step |-> r.step], b) <=> Chose(r, b)
               /\ Lost([step |-> r.step], b) = Lost(r, b)
    BY DEF Chose, Lost
  <2> HIDE DEF mid
  <2> QED BY <1>1, <2>1, SkippedIs DEF mid
<1> HIDE DEF mid
<1>3. /\ rows \in [Wf!Step -> StepRow]
      /\ \A s \in Wf!Step :
           /\ \/ rows[s] = mid[s]
              \/ /\ mid[s].st = "pending" /\ rows[s].st = "ready"
                 /\ \A p \in Wf!Predecessors[s] : Wf!Satisfies(p, mid[p])
           /\ rows[s].att = mid[s].att
  BY <1>2, PromotedIs
<1> HIDE DEF rows
<1>4. /\ q \in RunRow /\ q.step = rows /\ q.status = r.status /\ q.seq = r.seq
      /\ q.rev = r.rev
  BY <1>1, <1>3 DEF RunRow
<1> HIDE DEF q
<1>5. \A s \in Wf!Step : r.step[s].att \in Nat BY <1>1 DEF StepRow
<1>6. \A s \in Wf!Step : RowKeeps(s, r.step[s], mid[s])
  BY <1>2, <1>5 DEF RowKeeps, Wf!Satisfies, NotBegun, Wf!Unstarted
<1>7. \A s \in Wf!Step : RowKeeps(s, mid[s], rows[s])
  BY <1>2, <1>3, <1>5 DEF RowKeeps, Wf!Satisfies, NotBegun
<1>8. \A s \in Wf!Step : RowKeeps(s, r.step[s], rows[s])
  BY <1>2, <1>3, <1>5, <1>6, <1>7 DEF RowKeeps
<1>9. \A s \in Wf!Step : r.step[s].st \notin Wf!Unstarted => rows[s] = r.step[s]
  BY <1>2, <1>3 DEF Wf!Unstarted
<1>10. \A s \in Wf!Step : r.step[s].st \in Wf!Unstarted =>
         rows[s].st \in {"pending", "ready", "skipped"}
  BY <1>2, <1>3 DEF Wf!Unstarted
<1>11. Unblocked(q)
  <2> SUFFICES ASSUME NEW s \in Wf!Step, rows[s].st \notin {"pending", "skipped"},
                      NEW p \in Wf!Predecessors[s]
               PROVE  Wf!Satisfies(p, rows[p])
    BY <1>4 DEF Unblocked
  <2>1. p \in Wf!Step BY DEF Wf!Predecessors
  <2>2. CASE rows[s] = mid[s]
    <3>1. r.step[s].st \notin {"pending", "skipped"} BY <1>2, <2>2
    <3>2. Wf!Satisfies(p, r.step[p]) BY <3>1 DEF RunSound, Unblocked
    <3> QED BY <1>8, <2>1, <3>2 DEF RowKeeps
  <2>3. CASE rows[s] # mid[s]
    <3>1. Wf!Satisfies(p, mid[p]) BY <1>3, <2>3
    <3> QED BY <1>7, <2>1, <3>1 DEF RowKeeps
  <2> QED BY <2>2, <2>3
<1>12. /\ r.status \in Wf!TerminalStatuses =>
            \A s \in Wf!Step : rows[s].st \notin Wf!InFlight
       /\ r.status = "cancelling" =>
            \A s \in Wf!Step : rows[s].st \notin {"dispatching", "running"}
  BY <1>9, <1>10 DEF RunSound, Wf!InFlight, Wf!Unstarted
<1>13. /\ r.status = "completed" =>
            \A s \in Wf!Step : rows[s].st \in {"completed", "skipped"}
       /\ r.status = "partial_success" =>
            \A s \in Wf!Step :
              \/ rows[s].st \in {"completed", "skipped", "cancelled"}
              \/ rows[s].st = "failed" /\ Policy[s] = "continue"
  BY <1>9 DEF RunSound, Wf!Unstarted
<1>14. RunSound(q) BY <1>4, <1>11, <1>12, <1>13 DEF RunSound
<1>15. RunKeeps(r, q) BY <1>4, <1>8, <1>9 DEF RunKeeps
<1>16. StaysGoing(r, q) /\ StaysSettled(r, q) /\ SettlesOne(r, q) /\ OpensRetried(r, q)
  <2>1. StaysGoing(r, q) BY <1>4 DEF StaysGoing
  <2>2. StaysSettled(r, q) BY <1>4, <1>9 DEF StaysSettled, Wf!Unstarted
  <2>3. SettlesOne(r, q) BY <1>4, <1>9, <1>10 DEF SettlesOne
  <2>4. ASSUME NEW s \in Wf!Step
        PROVE  /\ rows[s].st \in Open => r.step[s].st \in Open
               /\ rows[s].st = "pending" => r.step[s].st = "pending"
               /\ rows[s].st \in Wf!Unstarted => r.step[s].st \in Wf!Unstarted
    BY <1>2, <1>3, <1>9 DEF Open, NotBegun, Wf!Unstarted
  <2>5. OpensRetried(r, q) BY <1>4, <2>4 DEF OpensRetried
  <2> QED BY <2>1, <2>2, <2>3, <2>5
<1>17. SkipsLost(r, q)
  <2> SUFFICES ASSUME NEW s \in Wf!Step, rows[s].st = "skipped", r.step[s].st # "skipped"
               PROVE  \E b \in Wf!Step :
                        /\ Chose(r, b) /\ s \in Lost(r, b)
                        /\ \A d \in Wf!Step :
                             d \in Lost(r, b) /\ r.step[d].st \in Wf!Unstarted
                               => rows[d].st = "skipped"
    BY <1>4 DEF SkipsLost
  <2>1. mid[s] # r.step[s] BY <1>3
  <2>2. PICK b \in Wf!Step : Chose(r, b) /\ s \in Lost(r, b) BY <1>2, <2>1
  <2>3. \A d \in Wf!Step : d \in Lost(r, b) /\ r.step[d].st \in Wf!Unstarted
                             => rows[d].st = "skipped"
    BY <1>2, <1>3, <2>2
  <2> QED BY <2>2, <2>3
<1>18. PromotesRightly(r, q)
  <2> SUFFICES ASSUME NEW s \in Wf!Step, rows[s].st \notin {"pending", "skipped"},
                      r.step[s].st \in {"pending", "skipped"}
               PROVE  /\ \A p \in Wf!Predecessors[s] : Wf!Satisfies(p, rows[p])
                      /\ \A b \in Wf!Step : Chose(q, b) => s \notin Lost(q, b)
    BY <1>4 DEF PromotesRightly
  <2>1. /\ mid[s].st = "pending" /\ r.step[s].st = "pending"
        /\ \A p \in Wf!Predecessors[s] : Wf!Satisfies(p, mid[p])
    BY <1>2, <1>3
  <2>2. \A p \in Wf!Predecessors[s] : Wf!Satisfies(p, rows[p])
    BY <1>7, <2>1 DEF RowKeeps, Wf!Predecessors
  <2>3. ASSUME NEW b \in Wf!Step, Chose(q, b) PROVE s \notin Lost(q, b)
    <3>1. rows[b] = r.step[b] BY <1>4, <1>9, <1>10, <2>3 DEF Chose
    <3>2. Chose(r, b) /\ Lost(r, b) = Lost(q, b) BY <1>4, <2>3, <3>1 DEF Chose, Lost
    <3> QED BY <1>2, <2>1, <3>2 DEF Wf!Unstarted
  <2> QED BY <2>2, <2>3
<1> QED BY <1>14, <1>15, <1>16, <1>17, <1>18 DEF RunBecomes, Moves, q, rows, mid

\* What the fibers and requests do to the row of a step: it goes on, ends, or is retried.
RowMoves(s, a, b) ==
  /\ a.st \notin {"pending", "skipped", "completed"} /\ b.st \notin {"pending", "skipped"}
  /\ a.st = "failed" => Policy[s] # "continue"
  /\ b.st = "completed" => a.st = "running" /\ b.arm \in Choices(s)
  /\ b.st \in Open => a.st \in Open \/ Wf!At(s, "retry")
  /\ b.st = "ready" => Wf!At(s, "retry")

\* One step's row changes, and possibly the revision, sequence and status of a run
\* that is not over.
LEMMA OneRowIs ==
  ASSUME NEW r, RunSound(r), r.status \notin Wf!TerminalStatuses,
         NEW q \in RunRow, q.status \notin Wf!TerminalStatuses,
         NEW s \in Wf!Step, NEW line \in StepRow, q.step = [r.step EXCEPT ![s] = line],
         q.status \in {"pending", "running"} => q.seq = q.rev,
         q.status = "cancelling" =>
           r.status = "cancelling" /\ line.st \notin {"dispatching", "running"},
         q.status \in {"pending", "running"} => r.status \in {"pending", "running"},
         RowKeeps(s, r.step[s], line), RowMoves(s, r.step[s], line)
  PROVE  RunBecomes(r, q)
<1>1. r.step \in [Wf!Step -> StepRow] BY DEF RunSound, RunRow
<1>2. \A t \in Wf!Step : q.step[t] = IF t = s THEN line ELSE r.step[t] BY <1>1
<1>3. \A t \in Wf!Step : r.step[t].att \in Nat BY <1>1 DEF StepRow
<1>4. \A t \in Wf!Step : RowKeeps(t, r.step[t], q.step[t]) BY <1>2, <1>3 DEF RowKeeps
<1>5. NoNewWork(r, q) BY <1>2 DEF NoNewWork, RowMoves
<1>6. Unblocked(q) BY <1>4, <1>5, Kept DEF RunSound
<1>7. q.status = "cancelling" =>
        \A t \in Wf!Step : q.step[t].st \notin {"dispatching", "running"}
  BY <1>2 DEF RunSound
<1>8. RunSound(q) BY <1>6, <1>7 DEF RunSound, Wf!TerminalStatuses
<1>9. Moves(r, q)
  <2>1. StaysGoing(r, q) /\ SkipsLost(r, q)
    BY <1>2 DEF StaysGoing, SkipsLost, Going, RowMoves, Wf!TerminalStatuses
  <2>2. StaysSettled(r, q) BY <1>2 DEF StaysSettled, RowMoves
  <2>3. SettlesOne(r, q) BY <1>2 DEF SettlesOne, RowMoves
  <2>4. PromotesRightly(r, q) BY <1>5 DEF PromotesRightly, NoNewWork
  <2>5. q.status \notin {"pending", "running"} => r.status \notin {"pending", "running"}
    BY <1>8 DEF RunSound, RunRow, Wf!RunStatuses
  <2>6. OpensRetried(r, q) BY <1>2, <2>5 DEF OpensRetried, RowMoves, Wf!Unstarted
  <2> QED BY <2>1, <2>2, <2>3, <2>4, <2>6 DEF Moves
<1> QED BY <1>4, <1>8, <1>9 DEF RunBecomes, RunKeeps

LEMMA FinishedIs ==
  ASSUME NEW r, RunSound(r), r.status \notin Wf!TerminalStatuses,
         NEW stat \in {"completed", "partial_success"},
         \A s \in Wf!Step : r.step[s].st \notin Wf!InFlight,
         stat = "completed" => \A s \in Wf!Step : r.step[s].st \in {"completed", "skipped"},
         stat = "partial_success" =>
           \A s \in Wf!Step : \/ r.step[s].st \in {"completed", "skipped", "cancelled"}
                              \/ r.step[s].st = "failed" /\ Policy[s] = "continue",
         stat = "completed" => r.status # "cancelling"
  PROVE  RunBecomes(r, Wf!Move(r, stat, r.step))
<1>1. r \in RunRow /\ r.step \in [Wf!Step -> StepRow] BY DEF RunSound, RunRow
<1>2. /\ Wf!Move(r, stat, r.step) \in RunRow
      /\ Wf!Move(r, stat, r.step).status = stat
      /\ Wf!Move(r, stat, r.step).step = r.step
  BY <1>1, MoveIs DEF Wf!RunStatuses, Wf!TerminalStatuses
<1>3. \A s \in Wf!Step : RowKeeps(s, r.step[s], r.step[s])
  BY <1>1 DEF RowKeeps, StepRow
<1>4. Unblocked(Wf!Move(r, stat, r.step)) BY <1>2 DEF RunSound, Unblocked
<1>5. Plain(r, Wf!Move(r, stat, r.step))
  <2>1. stat = "completed" => r.status \in Going
    BY <1>1 DEF RunRow, Wf!RunStatuses, Wf!TerminalStatuses, Going
  <2>2. \A s \in Wf!Step : r.step[s].st \notin Wf!Unstarted BY DEF Wf!Unstarted
  <2> QED BY <1>2, <2>1, <2>2 DEF Plain, StaysGoing, NoNewWork, Going
<1> QED BY <1>2, <1>3, <1>4, <1>5, PlainMoves
        DEF RunBecomes, RunSound, RunKeeps, Wf!TerminalStatuses

------------------------------------------------------------------------------
(* New runs.                                                               *)

LEMMA NewRunIs ==
  ASSUME NEW by \in {"submit", "owner", "retry"}, NEW req \in Request \cup {NoRequest},
         NEW rows \in [Wf!Step -> StepRow], Unblocked([step |-> rows])
  PROVE  /\ RunSound(Wf!NewRun(by, req, rows))
         /\ Wf!NewRun(by, req, rows).status = "pending" /\ Wf!NewRun(by, req, rows).step = rows
<1>1. /\ Wf!NewRun(by, req, rows) \in RunRow
      /\ Wf!NewRun(by, req, rows).status = "pending"
      /\ Wf!NewRun(by, req, rows).seq = Wf!NewRun(by, req, rows).rev
      /\ Wf!NewRun(by, req, rows).step = rows
  BY DEF Wf!NewRun, RunRow, Wf!RunStatuses
<1>2. Unblocked(Wf!NewRun(by, req, rows)) BY <1>1 DEF Unblocked
<1> QED BY <1>1, <1>2 DEF RunSound, Wf!TerminalStatuses

LEMMA FreshIs ==
  ASSUME NEW st \in Wf!StepStatuses, NEW att \in Nat
  PROVE  /\ Wf!Fresh(st, att) \in StepRow
         /\ Wf!Fresh(st, att).st = st /\ Wf!Fresh(st, att).att = att
BY DEF Wf!Fresh, StepRow, Wf!Target

LEMMA FirstRowsAre ==
  ASSUME WorkflowAssumption
  PROVE  /\ Wf!FirstRows \in [Wf!Step -> StepRow] /\ Unblocked([step |-> Wf!FirstRows])
         /\ \A s \in Wf!Step : Wf!FirstRows[s].st = IF s = 1 THEN "ready" ELSE "pending"
<1>1. "ready" \in Wf!StepStatuses /\ "pending" \in Wf!StepStatuses BY DEF Wf!StepStatuses
<1>2. ASSUME NEW s \in Wf!Step
      PROVE  /\ Wf!FirstRows[s] \in StepRow
             /\ Wf!FirstRows[s].st = IF s = 1 THEN "ready" ELSE "pending"
  <2>1. Wf!FirstRows[s] = Wf!Fresh(IF s = 1 THEN "ready" ELSE "pending", 1)
    BY DEF Wf!FirstRows
  <2>2. CASE s = 1 BY <1>1, <2>1, <2>2, FreshIs
  <2>3. CASE s # 1 BY <1>1, <2>1, <2>3, FreshIs
  <2> QED BY <2>2, <2>3
<1>3. Wf!FirstRows = [s \in Wf!Step |-> Wf!FirstRows[s]] BY DEF Wf!FirstRows
<1> QED BY <1>2, <1>3, EntryIsFirst DEF Unblocked

\* The rows of a retry of step s of run r: what it leads to is to be done again.
Retries(rows, r, s) ==
  \A t \in Wf!Step :
    /\ t = s => rows[t].st = "ready"
    /\ t # s /\ t \in Wf!Descendants[s] => rows[t].st = "pending"
    /\ t # s /\ t \notin Wf!Descendants[s] =>
         rows[t].st = r.step[t].st /\ rows[t].arm = r.step[t].arm

LEMMA RetryRowsAre ==
  ASSUME WorkflowAssumption, NEW r, RunSound(r), NEW s \in Wf!Step,
         r.step[s].st \in {"failed", "execution_unknown", "cancelled"}
  PROVE  /\ Wf!RetryRows(r, s) \in [Wf!Step -> StepRow]
         /\ Unblocked([step |-> Wf!RetryRows(r, s)])
         /\ Retries(Wf!RetryRows(r, s), r, s)
<1> DEFINE rows == Wf!RetryRows(r, s)
<1>1. r.step \in [Wf!Step -> StepRow] BY DEF RunSound, RunRow
<1>2. "ready" \in Wf!StepStatuses /\ "pending" \in Wf!StepStatuses BY DEF Wf!StepStatuses
<1>3. ASSUME NEW t \in Wf!Step
      PROVE  /\ rows[t] \in StepRow
             /\ t = s => rows[t].st = "ready"
             /\ t # s /\ t \in Wf!Descendants[s] => rows[t].st = "pending"
             /\ t # s /\ t \notin Wf!Descendants[s] =>
                  rows[t].st = r.step[t].st /\ rows[t].arm = r.step[t].arm
  <2>1. rows[t] = IF t = s THEN Wf!Fresh("ready", r.step[t].att + 1)
                  ELSE IF t \in Wf!Descendants[s] THEN Wf!Fresh("pending", 1)
                  ELSE [r.step[t] EXCEPT !.rev = 1]
    BY DEF Wf!RetryRows
  <2> HIDE DEF rows
  <2>2. r.step[t] \in StepRow /\ r.step[t].att + 1 \in Nat BY <1>1 DEF StepRow
  <2>3. CASE t = s BY <1>2, <2>1, <2>2, <2>3, FreshIs
  <2>4. CASE t # s /\ t \in Wf!Descendants[s] BY <1>2, <2>1, <2>4, FreshIs
  <2>5. CASE t # s /\ t \notin Wf!Descendants[s]
    <3>1. rows[t] = [r.step[t] EXCEPT !.rev = 1] BY <2>1, <2>5
    <3> DEFINE line == r.step[t]
    <3>2. line \in StepRow /\ rows[t] = [line EXCEPT !.rev = 1] BY <2>2, <3>1
    <3> HIDE DEF line
    <3>3. rows[t] \in StepRow /\ rows[t].st = line.st /\ rows[t].arm = line.arm
      BY <3>2 DEF StepRow
    <3> QED BY <2>5, <3>3 DEF line
  <2> QED BY <2>3, <2>4, <2>5
<1>4. rows = [t \in Wf!Step |-> rows[t]] BY DEF Wf!RetryRows
<1> HIDE DEF rows
<1>5. Unblocked([step |-> rows])
  <2> SUFFICES ASSUME NEW t \in Wf!Step, rows[t].st \notin {"pending", "skipped"},
                      NEW p \in Wf!Predecessors[t]
               PROVE  Wf!Satisfies(p, rows[p])
    BY DEF Unblocked
  <2>1. p \in Wf!Step /\ t \in Wf!Successors(p) /\ p \notin Wf!Descendants[t]
    BY NoCycle
  <2>2. r.step[t].st \notin {"pending", "skipped"} /\ (t = s \/ t \notin Wf!Descendants[s])
    BY <1>3
  <2>3. p # s /\ p \notin Wf!Descendants[s]
    <3>1. CASE t = s BY <2>1, <3>1, Reached
    <3>2. CASE t # s BY <2>1, <2>2, <3>2, Reached
    <3> QED BY <3>1, <3>2
  <2>4. rows[p].st = r.step[p].st BY <1>3, <2>1, <2>3
  <2>5. Wf!Satisfies(p, r.step[p]) BY <2>2 DEF RunSound, Unblocked
  <2> QED BY <2>4, <2>5 DEF Wf!Satisfies
<1>6. Retries(rows, r, s) BY <1>3 DEF Retries
<1> QED BY <1>3, <1>4, <1>5, <1>6 DEF rows

------------------------------------------------------------------------------
(* Changes of the runs.                                                    *)

\* The run is handed to the root Session after another change.
LEMMA ThenTold ==
  ASSUME NEW r, NEW q, RunSound(r), RunBecomes(r, q)
  PROVE  RunBecomes(r, Wf!Tell(q))
<1> DEFINE z == Wf!Tell(q)
<1>1. /\ RunSound(z) /\ RunKeeps(q, z) /\ z.status = q.status /\ z.step = q.step
      /\ RunSound(q) /\ RunKeeps(r, q) /\ Moves(r, q)
  BY TellIs DEF RunBecomes
<1> HIDE DEF z
<1>2. RunKeeps(r, z) BY <1>1 DEF RunKeeps
<1>3. StaysGoing(r, z) /\ StaysSettled(r, z) /\ SettlesOne(r, z)
  BY <1>1 DEF Moves, StaysGoing, StaysSettled, SettlesOne
<1>4. SkipsLost(r, z) /\ OpensRetried(r, z) BY <1>1 DEF Moves, SkipsLost, OpensRetried
<1>5. PromotesRightly(r, z) BY <1>1 DEF Moves, PromotesRightly, Chose, Lost
<1> QED BY <1>1, <1>2, <1>3, <1>4, <1>5 DEF RunBecomes, Moves, z

\* A run that is submitted, or that retries a step of one that is over.
Born(q) ==
  /\ q.status = "pending"
  /\ \/ q.step = Wf!FirstRows
     \/ /\ Wf!Use("retryRun")
        /\ \E j \in DOMAIN run, s \in Wf!Step :
             /\ run[j].status \in Wf!TerminalStatuses
             /\ run[j].step[s].st \in {"failed", "execution_unknown", "cancelled"}
             /\ q.step = Wf!RetryRows(run[j], s)

\* What a step does to the rows: runs are kept, and each is sound.  What an owner does
\* not work on, nobody retries steps of.
RunsEvolve ==
  /\ run' \in Seq(RunRow) /\ Len(run') <= MaxRuns
  /\ DOMAIN run \subseteq DOMAIN run'
  /\ \A i \in DOMAIN run : RunKeeps(run[i], run'[i]) /\ Moves(run[i], run'[i])
  /\ \A i \in DOMAIN run : i # owner.rid => Plain(run[i], run'[i])
  /\ \A i \in DOMAIN run' : RunSound(run'[i])
  /\ \A i \in DOMAIN run' : i \in DOMAIN run \/ Born(run'[i])

LEMMA OneRunChanges ==
  ASSUME WfTypes, RunsSound, NEW i \in DOMAIN run, NEW q, RunBecomes(run[i], q),
         i # owner.rid => Plain(run[i], q), run' = [run EXCEPT ![i] = q]
  PROVE  RunsEvolve
<1>1. q \in RunRow /\ RunSound(q) /\ RunKeeps(run[i], q) /\ Moves(run[i], q)
  BY DEF RunBecomes, RunSound
<1>2. run \in Seq(RunRow) /\ Len(run) <= MaxRuns BY DEF WfTypes
<1>3. /\ run' \in Seq(RunRow) /\ Len(run') = Len(run) /\ DOMAIN run' = DOMAIN run
      /\ \A j \in DOMAIN run : run'[j] = IF j = i THEN q ELSE run[j]
  BY <1>1, <1>2
<1>4. \A j \in DOMAIN run : RunSound(run[j]) BY DEF RunsSound
<1>5. \A j \in DOMAIN run : /\ RunKeeps(run[j], run[j]) /\ Moves(run[j], run[j])
                            /\ Plain(run[j], run[j])
  BY <1>4, SameIs DEF RunBecomes
<1> QED BY <1>1, <1>2, <1>3, <1>4, <1>5 DEF RunsEvolve

LEMMA NoRunChanges ==
  ASSUME WfTypes, RunsSound, run' = run
  PROVE  RunsEvolve
<1>1. \A j \in DOMAIN run : /\ RunKeeps(run[j], run[j]) /\ Moves(run[j], run[j])
                            /\ Plain(run[j], run[j])
  BY SameIs DEF RunsSound, RunBecomes
<1> QED BY <1>1 DEF WfTypes, RunsSound, RunsEvolve

LEMMA RunIsAdded ==
  ASSUME WorkflowAssumption, WfTypes, RunsSound, NEW q, RunSound(q), Born(q),
         Len(run) < MaxRuns, run' = Append(run, q)
  PROVE  RunsEvolve
<1>1. q \in RunRow /\ MaxRuns \in Nat
  BY DEF RunSound, WorkflowAssumption, Wf!RunAssumption
<1>2. run \in Seq(RunRow) BY DEF WfTypes
<1>3. /\ run' \in Seq(RunRow) /\ Len(run') = Len(run) + 1
      /\ DOMAIN run' = DOMAIN run \cup {Len(run) + 1}
      /\ \A j \in DOMAIN run' : run'[j] = IF j = Len(run) + 1 THEN q ELSE run[j]
      /\ \A j \in DOMAIN run : run'[j] = run[j]
  BY <1>1, <1>2
<1>4. \A j \in DOMAIN run : /\ RunKeeps(run[j], run[j]) /\ Moves(run[j], run[j])
                            /\ Plain(run[j], run[j])
  BY SameIs DEF RunsSound, RunBecomes
<1>5. \A j \in DOMAIN run : RunSound(run[j]) BY DEF RunsSound
<1>6. Len(run') <= MaxRuns BY <1>1, <1>2, <1>3
<1> QED BY <1>3, <1>4, <1>5, <1>6 DEF RunsEvolve

\* The writes of a batch: one step's row, with or without the run's revision.
LEMMA SaveRowIs ==
  ASSUME NEW r, RunSound(r), r.status \notin Wf!TerminalStatuses,
         NEW s \in Wf!Step, NEW line \in StepRow,
         RowKeeps(s, r.step[s], line), RowMoves(s, r.step[s], line),
         r.status = "cancelling" => line.st \notin {"dispatching", "running"}
  PROVE  RunBecomes(r, [r EXCEPT !.step[s] = line])
<1> DEFINE q == [r EXCEPT !.step[s] = line]
<1>1. r \in RunRow /\ r.step \in [Wf!Step -> StepRow] BY DEF RunSound, RunRow
<1>2. q \in RunRow /\ q.status = r.status /\ q.seq = r.seq /\ q.rev = r.rev
      /\ q.step = [r.step EXCEPT ![s] = line]
  BY <1>1 DEF RunRow
<1> HIDE DEF q
<1>3. RunBecomes(r, q) BY <1>2, OneRowIs DEF RunSound
<1> QED BY <1>3 DEF q

\* The rows as dispatchStep and startStep leave them.
NextRow(old, st) == [old EXCEPT !.st = st, !.rev = @ + 1]
StepTo(r, s, st) == [r EXCEPT !.step[s].st = st, !.step[s].rev = @ + 1]
Dispatched(r, s) ==
  StepTo([Wf!Published(r) EXCEPT !.status = "running"], s, "dispatching")
Launched(r, s) == StepTo(Wf!Published(r), s, "running")

LEMMA NextRowIs ==
  ASSUME NEW old \in StepRow, NEW st \in Wf!StepStatuses
  PROVE  /\ NextRow(old, st) \in StepRow /\ NextRow(old, st).st = st
         /\ NextRow(old, st).att = old.att
<1>1. old.rev + 1 \in Nat BY DEF StepRow
<1>2. NextRow(old, st) = [old EXCEPT !.st = st, !.rev = old.rev + 1]
  BY DEF StepRow, NextRow
<1> QED BY <1>1, <1>2 DEF StepRow

LEMMA StepsIs ==
  ASSUME NEW r \in RunRow, NEW s \in Wf!Step, NEW st \in Wf!StepStatuses
  PROVE  StepTo(r, s, st) =
           [r EXCEPT !.step = [r.step EXCEPT ![s] = NextRow(r.step[s], st)]]
<1> DEFINE new == [[r.step EXCEPT ![s].st = st] EXCEPT ![s].rev = @ + 1]
<1>1. r.step \in [Wf!Step -> StepRow] BY DEF RunRow
<1>2. new = [r.step EXCEPT ![s] = NextRow(r.step[s], st)] BY <1>1 DEF StepRow, NextRow
<1>3. StepTo(r, s, st) = [r EXCEPT !.step = new]
  BY <1>1 DEF RunRow, StepRow, StepTo
<1> QED BY <1>2, <1>3

LEMMA PublishedIs ==
  ASSUME NEW r \in RunRow, NEW s \in Wf!Step
  PROVE  /\ Dispatched(r, s) \in RunRow /\ Dispatched(r, s).status = "running"
         /\ Dispatched(r, s).seq = r.seq + 1 /\ Dispatched(r, s).rev = r.rev + 1
         /\ Dispatched(r, s).step =
              [r.step EXCEPT ![s] = NextRow(r.step[s], "dispatching")]
         /\ Launched(r, s) \in RunRow /\ Launched(r, s).status = r.status
         /\ Launched(r, s).seq = r.seq + 1 /\ Launched(r, s).rev = r.rev + 1
         /\ Launched(r, s).step = [r.step EXCEPT ![s] = NextRow(r.step[s], "running")]
<1> DEFINE pub == [r EXCEPT !.rev = r.rev + 1, !.seq = r.seq + 1]
           active == [pub EXCEPT !.status = "running"]
<1>1. r.step \in [Wf!Step -> StepRow] /\ r.rev + 1 \in Nat /\ r.seq + 1 \in Nat
  BY DEF RunRow
<1>2. Wf!Published(r) = pub BY DEF Wf!Published, RunRow
<1>3. /\ pub \in RunRow /\ pub.step = r.step /\ pub.status = r.status
      /\ pub.rev = r.rev + 1 /\ pub.seq = r.seq + 1
  BY <1>1 DEF RunRow
<1> HIDE DEF pub
<1>4. /\ active \in RunRow /\ active.step = r.step /\ active.status = "running"
      /\ active.rev = r.rev + 1 /\ active.seq = r.seq + 1
  BY <1>3 DEF RunRow, Wf!RunStatuses
<1>5. Dispatched(r, s) = StepTo(active, s, "dispatching")
  BY <1>2 DEF Dispatched
<1>6. Launched(r, s) = StepTo(pub, s, "running")
  BY <1>2 DEF Launched
<1> HIDE DEF active
<1> DEFINE d == [r.step EXCEPT ![s] = NextRow(r.step[s], "dispatching")]
           e == [r.step EXCEPT ![s] = NextRow(r.step[s], "running")]
<1>7. "running" \in Wf!StepStatuses /\ "dispatching" \in Wf!StepStatuses
  BY DEF Wf!StepStatuses
<1>8. d \in [Wf!Step -> StepRow] /\ e \in [Wf!Step -> StepRow]
  BY <1>1, <1>7, NextRowIs
<1>9. Dispatched(r, s) = [active EXCEPT !.step = d] 
  <2>1. StepTo(active, s, "dispatching") =
          [active EXCEPT !.step = [active.step EXCEPT ![s] = NextRow(active.step[s], "dispatching")]]
    BY <1>4, <1>7, StepsIs
  <2> QED BY <1>4, <1>5, <2>1
<1>10. Launched(r, s) = [pub EXCEPT !.step = e] 
  <2>1. StepTo(pub, s, "running") =
          [pub EXCEPT !.step = [pub.step EXCEPT ![s] = NextRow(pub.step[s], "running")]]
    BY <1>3, <1>7, StepsIs
  <2> QED BY <1>3, <1>6, <2>1
<1> HIDE DEF d, e
<1>11. /\ Dispatched(r, s) \in RunRow /\ Dispatched(r, s).status = "running"
       /\ Dispatched(r, s).seq = r.seq + 1 /\ Dispatched(r, s).rev = r.rev + 1
       /\ Dispatched(r, s).step = d
  BY <1>4, <1>8, <1>9 DEF RunRow
<1>12. /\ Launched(r, s) \in RunRow /\ Launched(r, s).status = r.status
       /\ Launched(r, s).seq = r.seq + 1 /\ Launched(r, s).rev = r.rev + 1
       /\ Launched(r, s).step = e
  BY <1>3, <1>8, <1>10 DEF RunRow
<1> QED BY <1>11, <1>12 DEF d, e

------------------------------------------------------------------------------
(* Every step keeps the runs sound.                                        *)

\* The run the owner works on is one of the rows.
LEMMA MineIsSound ==
  ASSUME RunsSound, owner.rid \in DOMAIN run
  PROVE  RunSound(Wf!Mine)
BY DEF RunsSound, Wf!Mine

LEMMA SavedIs ==
  ASSUME WfTypes, RunsSound, owner.rid \in DOMAIN run, NEW q, RunBecomes(Wf!Mine, q),
         Wf!Save(q)
  PROVE  RunsEvolve
BY OneRunChanges DEF Wf!Mine, Wf!Save

LEMMA OwnerRuns ==
  ASSUME WorkflowAssumption, WfTypes, Placed, RunsSound, Wf!OwnerStep
  PROVE  RunsEvolve
<1> USE DEF Wf!Empty
<1>1. CASE Wf!OwnerAdmit
  <2>1. CASE run' = run BY <2>1, NoRunChanges
  <2>2. CASE Len(run) < MaxRuns /\ run' = Append(run, Wf!NewRun("owner", NoRequest, Wf!FirstRows))
    <3>1. /\ RunSound(Wf!NewRun("owner", NoRequest, Wf!FirstRows))
          /\ Born(Wf!NewRun("owner", NoRequest, Wf!FirstRows))
      BY FirstRowsAre, NewRunIs DEF Born
    <3> QED BY <2>2, <3>1, RunIsAdded
  <2> QED BY <1>1, <2>1, <2>2 DEF Wf!OwnerAdmit
<1>2. CASE Wf!LoopRead
  <2>1. CASE run' = run BY <2>1, NoRunChanges
  <2>2. CASE Wf!Save(Wf!Tell(Wf!Mine))
    <3>1. owner.rid \in DOMAIN run BY <1>2 DEF Placed, Wf!LoopRead
    <3>2. RunBecomes(Wf!Mine, Wf!Tell(Wf!Mine)) BY <3>1, MineIsSound, SameIs, ThenTold
    <3> QED BY <2>2, <3>1, <3>2, SavedIs
  <2> QED BY <1>2, <2>1, <2>2 DEF Wf!LoopRead
<1>3. CASE Wf!Frontier
  <2>1. owner.rid \in DOMAIN run BY <1>3 DEF Placed, Wf!Frontier
  <2>2. Wf!Save([Wf!Mine EXCEPT !.step = Wf!Promoted(Wf!Skipped(Wf!Mine.step))])
    BY <1>3 DEF Wf!Frontier
  <2> QED BY <2>1, <2>2, MineIsSound, FrontierIs, SavedIs
<1>4. CASE Wf!EmptyDispatching
  <2>1. owner.rid \in DOMAIN run BY <1>4 DEF Placed, Wf!EmptyDispatching
  <2>2. CASE run' = run BY <2>2, NoRunChanges
  <2>3. CASE Wf!Save(IF Wf!Mine.status \in Wf!TerminalStatuses THEN Wf!Mine
                     ELSE Wf!Recovered(Wf!Mine))
    <3>1. CASE Wf!Mine.status \in Wf!TerminalStatuses
      BY <2>1, <2>3, <3>1, MineIsSound, SameIs, SavedIs
    <3>2. CASE Wf!Mine.status \notin Wf!TerminalStatuses
      BY <2>1, <2>3, <3>2, MineIsSound, RecoveredIs, SavedIs
    <3> QED BY <3>1, <3>2
  <2> QED BY <1>4, <2>2, <2>3 DEF Wf!EmptyDispatching
<1>5. CASE Wf!RecoverRunning
  <2>1. owner.rid \in DOMAIN run BY <1>5 DEF Placed, Wf!RecoverRunning
  <2> DEFINE q == IF Wf!Mine.status \in Wf!TerminalStatuses THEN Wf!Mine
                  ELSE Wf!Recovered(Wf!Mine)
  <2>2. RunBecomes(Wf!Mine, q)
    <3>1. CASE Wf!Mine.status \in Wf!TerminalStatuses
      BY <2>1, <3>1, MineIsSound, SameIs
    <3>2. CASE Wf!Mine.status \notin Wf!TerminalStatuses
      BY <2>1, <3>2, MineIsSound, RecoveredIs
    <3> QED BY <3>1, <3>2
  <2>3. Wf!Save(Wf!Tell(q)) BY <1>5 DEF Wf!RecoverRunning
  <2> HIDE DEF q
  <2>4. RunBecomes(Wf!Mine, Wf!Tell(q))
    BY <2>1, <2>2, MineIsSound, ThenTold
  <2> QED BY <2>1, <2>3, <2>4, SavedIs
<1>6. CASE Wf!EmptyFailed
  <2>1. owner.rid \in DOMAIN run BY <1>6 DEF Placed, Wf!EmptyFailed
  <2> DEFINE next == IF Wf!Mine.status \in Wf!TerminalStatuses THEN Wf!Mine
                     ELSE IF Wf!Tolerated THEN Wf!Move(Wf!Mine, "partial_success", Wf!Mine.step)
                     ELSE Wf!Failed(Wf!Mine)
             stays == \/ ~Wf!Current
                      \/ /\ Wf!Tolerated /\ Wf!Mine.status \notin Wf!TerminalStatuses
                         /\ Wf!Refused
  <2>2. CASE run' = run BY <2>2, NoRunChanges
  <2>3. CASE ~stays /\ Wf!Save(IF Wf!Tolerated THEN Wf!Tell(next) ELSE next)
    <3>1. RunBecomes(Wf!Mine, next)
      <4>1. CASE Wf!Mine.status \in Wf!TerminalStatuses
        BY <2>1, <4>1, MineIsSound, SameIs
      <4>2. CASE Wf!Mine.status \notin Wf!TerminalStatuses /\ ~Wf!Tolerated
        BY <2>1, <4>2, MineIsSound, FailedIs
      <4>3. CASE Wf!Mine.status \notin Wf!TerminalStatuses /\ Wf!Tolerated
        <5>1. ~Wf!Refused /\ next = Wf!Move(Wf!Mine, "partial_success", Wf!Mine.step)
          BY <2>3, <4>3
        <5>2. \A s \in Wf!Step : Wf!Mine.step[s].st \in Wf!StepStatuses
          BY <2>1, MineIsSound DEF RunSound, RunRow, StepRow
        <5>3. \A s \in Wf!Step :
                /\ Wf!Mine.step[s].st \notin Wf!InFlight
                /\ \/ Wf!Mine.step[s].st \in {"completed", "skipped", "cancelled"}
                   \/ Wf!Mine.step[s].st = "failed" /\ Policy[s] = "continue"
          BY <4>3, <5>1, <5>2 DEF Wf!Refused, Wf!StepStatuses, Wf!Unstarted, Wf!InFlight,
                                  Wf!Tolerated, Wf!Failures
        <5> HIDE DEF next
        <5> QED BY <2>1, <4>3, <5>1, <5>3, MineIsSound, FinishedIs
      <4> QED BY <4>1, <4>2, <4>3
    <3> HIDE DEF next
    <3>2. RunBecomes(Wf!Mine, Wf!Tell(next))
      BY <2>1, <3>1, MineIsSound, ThenTold
    <3>3. CASE Wf!Tolerated BY <2>1, <2>3, <3>2, <3>3, SavedIs
    <3>4. CASE ~Wf!Tolerated BY <2>1, <2>3, <3>1, <3>4, SavedIs
    <3> QED BY <3>3, <3>4
  <2> QED BY <1>6, <2>2, <2>3 DEF Wf!EmptyFailed
<1>7. CASE Wf!EmptyBlocked
  <2>1. owner.rid \in DOMAIN run BY <1>7 DEF Placed, Wf!EmptyBlocked
  <2>2. CASE run' = run BY <2>2, NoRunChanges
  <2>3. CASE Wf!Mine.status \notin Wf!TerminalStatuses /\ Wf!Save(Wf!Failed(Wf!Mine))
    BY <2>1, <2>3, MineIsSound, FailedIs, SavedIs
  <2> QED BY <1>7, <2>2, <2>3 DEF Wf!EmptyBlocked
<1>8. CASE Wf!EmptyCompletes
  <2>1. owner.rid \in DOMAIN run BY <1>8 DEF Placed, Wf!EmptyCompletes
  <2>2. CASE run' = run BY <2>2, NoRunChanges
  <2>3. CASE /\ Wf!Mine.status \notin Wf!TerminalStatuses /\ ~Wf!Refused
             /\ Wf!Save(Wf!Move(Wf!Mine, "completed", Wf!Mine.step))
    <3>1. \A s \in Wf!Step : Wf!Mine.step[s].st \in Wf!StepStatuses
      BY <2>1, MineIsSound DEF RunSound, RunRow, StepRow
    <3>2. \A s \in Wf!Step : /\ Wf!Mine.step[s].st \in {"completed", "skipped"}
                             /\ Wf!Mine.step[s].st \notin Wf!InFlight
      BY <1>8, <2>3, <3>1 DEF Wf!EmptyCompletes, Wf!Settled, Wf!Some, Wf!Refused,
                              Wf!StepStatuses, Wf!Unstarted, Wf!InFlight
    <3>3. RunBecomes(Wf!Mine, Wf!Move(Wf!Mine, "completed", Wf!Mine.step))
      BY <1>8, <2>1, <2>3, <3>2, MineIsSound, FinishedIs DEF Wf!EmptyCompletes, Wf!Settled
    <3> QED BY <2>1, <2>3, <3>3, SavedIs
  <2> QED BY <1>8, <2>2, <2>3 DEF Wf!EmptyCompletes
<1>9. CASE Wf!OwnerCancels
  <2>1. owner.rid \in DOMAIN run BY <1>9 DEF Placed, Wf!OwnerCancels
  <2>2. CASE run' = run BY <2>2, NoRunChanges
  <2>3. CASE Wf!Save(Wf!CancelRow(Wf!Mine))
    BY <2>1, <2>3, MineIsSound, CancelRowIs, SavedIs
  <2> QED BY <1>9, <2>2, <2>3 DEF Wf!OwnerCancels
<1>10. CASE Wf!OwnerFinalizes
  <2>1. owner.rid \in DOMAIN run BY <1>10 DEF Placed, Wf!OwnerFinalizes
  <2>2. CASE run' = run BY <2>2, NoRunChanges
  <2>3. CASE Wf!Mine.status = "cancelling" /\ Wf!Save(Wf!Cancelled(Wf!Mine))
    BY <2>1, <2>3, MineIsSound, CancelledIs, SavedIs
  <2> QED BY <1>10, <2>2, <2>3 DEF Wf!OwnerFinalizes
<1>11. CASE Wf!FailCommit
  <2>1. owner.rid \in DOMAIN run BY <1>11 DEF Placed, Wf!FailCommit
  <2> DEFINE q == IF Wf!Mine.status \in Wf!TerminalStatuses THEN Wf!Mine
                  ELSE Wf!Failed(Wf!Mine)
  <2>2. CASE run' = run BY <2>2, NoRunChanges
  <2>3. CASE Wf!Save(Wf!Tell(q))
    <3>1. RunBecomes(Wf!Mine, q)
      <4>1. CASE Wf!Mine.status \in Wf!TerminalStatuses
        BY <2>1, <4>1, MineIsSound, SameIs
      <4>2. CASE Wf!Mine.status \notin Wf!TerminalStatuses
        BY <2>1, <4>2, MineIsSound, FailedIs
      <4> QED BY <4>1, <4>2
    <3> HIDE DEF q
    <3>2. RunBecomes(Wf!Mine, Wf!Tell(q))
      BY <2>1, <3>1, MineIsSound, ThenTold
    <3> QED BY <2>1, <2>3, <3>2, SavedIs
  <2> QED BY <1>11, <2>2, <2>3 DEF Wf!FailCommit
<1>12. CASE \/ Wf!EmptyRunning \/ Wf!EmptyCancelled \/ Wf!EmptyCancelling \/ Wf!BatchOver \/ Wf!Unwound
            \/ Wf!FailRead
  BY <1>12, NoRunChanges DEF Wf!EmptyRunning, Wf!EmptyCancelled, Wf!EmptyCancelling,
                             Wf!BatchOver, Wf!Unwound, Wf!FailRead
<1> QED BY <1>1, <1>2, <1>3, <1>4, <1>5, <1>6, <1>7, <1>8, <1>9, <1>10, <1>11, <1>12
        DEF Wf!OwnerStep

LEMMA WorkerRuns ==
  ASSUME WorkflowAssumption, WfTypes, Placed, RunsSound, NEW s \in Wf!Step, Wf!WorkerStep(s)
  PROVE  RunsEvolve
<1>1. CASE run' = run BY <1>1, NoRunChanges
<1>2. CASE run' # run
  <2>1. worker[s].pc # "off" /\ owner.rid \in DOMAIN run
    BY <1>2 DEF Placed, Wf!WorkerStep, Wf!DispatchRead, Wf!DispatchCommit, Wf!StartRead,
                Wf!StartCommit, Wf!ExecuteEnds, Wf!SettleStep, Wf!TaskDies, Wf!RetryStep, Wf!BatchFails,
                Wf!Unwind, Wf!At
  <2> DEFINE r == Wf!Mine
             old == r.step[s]
  <2>2. RunSound(r) /\ r \in RunRow /\ r.step \in [Wf!Step -> StepRow] /\ old \in StepRow
    BY <2>1, MineIsSound DEF RunSound, RunRow
  <2>3. old.att \in Nat /\ old.rev + 1 \in Nat /\ old.att + 1 \in Nat BY <2>2 DEF StepRow
  <2>4. CASE Wf!DispatchCommit(s)
    <3> DEFINE line == NextRow(old, "dispatching")
               q == Dispatched(r, s)
    <3>1. /\ r.rev = r.seq /\ r.status \in {"pending", "running"} /\ old.st = "ready"
          /\ Wf!Save(q)
      BY <1>2, <2>4 DEF Wf!DispatchCommit, Wf!Publishable, Wf!Held, Wf!Row, Dispatched,
         StepTo
    <3>2. /\ q \in RunRow /\ q.status = "running" /\ q.seq = r.seq + 1 /\ q.rev = r.rev + 1
          /\ q.step = [r.step EXCEPT ![s] = line]
          /\ line \in StepRow /\ line.st = "dispatching" /\ line.att = old.att
      <4>1. "dispatching" \in Wf!StepStatuses BY DEF Wf!StepStatuses
      <4>2. line \in StepRow /\ line.st = "dispatching" /\ line.att = old.att
        <5> HIDE DEF old
        <5> QED BY <2>2, <4>1, NextRowIs
      <4> HIDE DEF r
      <4> QED BY <2>2, <4>2, PublishedIs
    <3> HIDE DEF q, line
    <3>3. RowKeeps(s, old, line) BY <2>3, <3>1, <3>2 DEF RowKeeps, Wf!Satisfies, NotBegun
    <3>4. RowMoves(s, old, line) BY <3>1, <3>2 DEF RowMoves, Open, NotBegun
    <3>5. RunBecomes(r, q)
      BY <2>2, <3>1, <3>2, <3>3, <3>4, OneRowIs DEF Wf!TerminalStatuses
    <3> QED BY <2>1, <3>1, <3>5, SavedIs
  <2>5. CASE Wf!StartCommit(s)
    <3> DEFINE line == NextRow(old, "running")
               q == Launched(r, s)
    <3>1. r.rev = r.seq /\ old.st = "dispatching" /\ Wf!Save(q)
      BY <1>2, <2>5 DEF Wf!StartCommit, Wf!Publishable, Wf!Held, Wf!Row, Launched,
         StepTo
    <3>2. /\ q \in RunRow /\ q.status = r.status /\ q.seq = r.seq + 1 /\ q.rev = r.rev + 1
          /\ q.step = [r.step EXCEPT ![s] = line]
          /\ line \in StepRow /\ line.st = "running" /\ line.att = old.att
      <4>1. "running" \in Wf!StepStatuses BY DEF Wf!StepStatuses
      <4>2. line \in StepRow /\ line.st = "running" /\ line.att = old.att
        <5> HIDE DEF old
        <5> QED BY <2>2, <4>1, NextRowIs
      <4> HIDE DEF r
      <4> QED BY <2>2, <4>2, PublishedIs
    <3>3. r.status \notin Wf!TerminalStatuses \cup {"cancelling"}
      BY <2>2, <3>1 DEF RunSound, Wf!InFlight
    <3> HIDE DEF q, line
    <3>4. RowKeeps(s, old, line) BY <2>3, <3>1, <3>2 DEF RowKeeps, Wf!Satisfies, NotBegun
    <3>5. RowMoves(s, old, line) BY <3>1, <3>2 DEF RowMoves, Open, NotBegun
    <3>6. RunBecomes(r, q)
      BY <2>2, <3>1, <3>2, <3>3, <3>4, <3>5, OneRowIs
    <3> QED BY <2>1, <3>1, <3>6, SavedIs
  <2>6. ASSUME old.st = "running", NEW line \in StepRow, Wf!SaveRow(s, line),
               line.st \in {"completed", "failed", "cancelled"}, line.att = old.att,
               line.st = "completed" => line.arm \in Choices(s)
        PROVE  RunsEvolve
    <3>1. r.status \notin Wf!TerminalStatuses \cup {"cancelling"}
      BY <2>2, <2>6 DEF RunSound, Wf!InFlight
    <3>2. /\ RowKeeps(s, old, line)
          /\ RowMoves(s, old, line)
      BY <2>3, <2>6 DEF RowKeeps, RowMoves, Wf!Satisfies, NotBegun, Open
    <3>3. RunBecomes(r, [r EXCEPT !.step[s] = line])
      <4> HIDE DEF r
      <4> QED BY <2>2, <2>6, <3>1, <3>2, SaveRowIs
    <3> QED BY <2>1, <2>6, <3>3, SavedIs DEF Wf!SaveRow
  <2>7. CASE Wf!SettleStep(s) \/ Wf!TaskDies(s)
    <3>1. CASE \E arm \in Choices(s) :
                 Wf!SaveRow(s, [Wf!Row(s) EXCEPT !.st = "completed", !.rev = @ + 1, !.arm = arm])
      <4>1. PICK arm \in Choices(s) :
                   Wf!SaveRow(s, [old EXCEPT !.st = "completed", !.rev = @ + 1, !.arm = arm])
        BY <3>1 DEF Wf!Row
      <4>2. arm \in Wf!Target
        BY DEF Choices, WorkflowAssumption, Wf!GraphAssumption, Wf!Target
      <4> DEFINE line == [old EXCEPT !.st = "completed", !.rev = @ + 1, !.arm = arm]
      <4>3. /\ line \in StepRow /\ line.st = "completed" /\ line.att = old.att
            /\ line.arm = arm
        <5> HIDE DEF old
        <5>1. line = [old EXCEPT !.st = "completed", !.rev = old.rev + 1, !.arm = arm]
          BY <2>2 DEF StepRow
        <5> QED BY <2>2, <2>3, <4>2, <5>1 DEF StepRow, Wf!StepStatuses
      <4>4. old.st = "running" BY <1>2, <2>7 DEF Wf!SettleStep, Wf!TaskDies, Wf!Held, Wf!Row
      <4> HIDE DEF line, old
      <4> QED BY <2>6, <4>1, <4>3, <4>4 DEF line
    <3>2. CASE Wf!SaveRow(s, [Wf!Row(s) EXCEPT !.st = "failed", !.rev = @ + 1])
      <4> DEFINE line == NextRow(old, "failed")
      <4>1. Wf!SaveRow(s, line) BY <3>2 DEF Wf!Row, NextRow
      <4>2. line \in StepRow /\ line.st = "failed" /\ line.att = old.att
        BY <2>2, NextRowIs DEF Wf!StepStatuses
      <4>3. old.st = "running" BY <1>2, <2>7 DEF Wf!SettleStep, Wf!TaskDies, Wf!Held, Wf!Row
      <4> HIDE DEF line, old
      <4> QED BY <2>6, <4>1, <4>2, <4>3
    <3> QED BY <1>2, <2>7, <3>1, <3>2 DEF Wf!SettleStep, Wf!TaskDies, Choices
  <2>8. CASE Wf!Unwind(s)
    <3> DEFINE line == NextRow(old, "cancelled")
    <3>1. Wf!SaveRow(s, line) /\ old.st = "running"
      BY <1>2, <2>8 DEF Wf!Unwind, Wf!Held, Wf!Row, NextRow
    <3>2. line \in StepRow /\ line.st = "cancelled" /\ line.att = old.att
      BY <2>2, NextRowIs DEF Wf!StepStatuses
    <3> HIDE DEF line, old
    <3> QED BY <2>6, <3>1, <3>2
  <2>9. CASE Wf!RetryStep(s)
    <3> DEFINE line == Wf!Fresh("ready", old.att + 1)
    <3>1. /\ r.status \notin Wf!TerminalStatuses /\ old.st = "failed" /\ Wf!SaveRow(s, line)
          /\ worker[s].pc = "retry" /\ Wf!At(s, "retry")
      BY <1>2, <2>9 DEF Wf!RetryStep, Wf!Held, Wf!Row, Wf!At
    <3>2. line \in StepRow /\ line.st = "ready" /\ line.att = old.att + 1
      BY <2>3, FreshIs DEF Wf!StepStatuses
    <3>3. Policy[s] = "retry" BY <3>1 DEF Placed
    <3> HIDE DEF line
    <3>4. /\ RowKeeps(s, old, line)
          /\ RowMoves(s, old, line)
      BY <2>3, <3>1, <3>2, <3>3 DEF RowKeeps, RowMoves, Wf!Satisfies, NotBegun
    <3>5. RunBecomes(r, [r EXCEPT !.step[s] = line])
      <4> HIDE DEF r
      <4> QED BY <2>2, <3>1, <3>2, <3>4, SaveRowIs
    <3> QED BY <2>1, <3>1, <3>5, SavedIs DEF Wf!SaveRow
  <2>10. CASE \/ Wf!DispatchRead(s) \/ Wf!StartRead(s) \/ Wf!ExecuteEnds(s) \/ Wf!BatchFails(s)
    BY <1>2, <2>10 DEF Wf!DispatchRead, Wf!StartRead, Wf!ExecuteEnds, Wf!BatchFails
  <2> QED BY <2>4, <2>5, <2>7, <2>8, <2>9, <2>10 DEF Wf!WorkerStep
<1> QED BY <1>1, <1>2

LEMMA ClientRuns ==
  ASSUME WorkflowAssumption, WfTypes, Placed, RunsSound, Wf!ClientStep
  PROVE  RunsEvolve
<1>1. CASE Wf!ClientWake \/ Wf!InterruptOwner
  BY <1>1, NoRunChanges DEF Wf!ClientWake, Wf!InterruptOwner
<1>2. CASE Wf!FinalizeCancel
  <2> DEFINE i == canceller.rid
             q == IF run[i].status = "cancelling" THEN Wf!Cancelled(run[i]) ELSE run[i]
  <2>1. i \in DOMAIN run BY <1>2 DEF Placed, Wf!FinalizeCancel
  <2>2. RunSound(run[i]) BY <2>1 DEF RunsSound
  <2>3. RunBecomes(run[i], q) /\ Plain(run[i], q)
    <3>1. CASE run[i].status = "cancelling" BY <2>2, <3>1, CancelledIs
    <3>2. CASE run[i].status # "cancelling" BY <2>2, <3>2, SameIs
    <3> QED BY <3>1, <3>2
  <2>4. run' = [run EXCEPT ![i] = q] BY <1>2, <2>1 DEF Wf!FinalizeCancel
  <2> HIDE DEF q, i
  <2> QED BY <2>1, <2>3, <2>4, OneRunChanges
<1> QED BY <1>1, <1>2 DEF Wf!ClientStep

LEMMA RequestRuns ==
  ASSUME WorkflowAssumption, WfTypes, Placed, RunsSound, Wf!Requests
  PROVE  RunsEvolve
<1>1. ASSUME NEW q \in Request \cup {NoRequest}, Wf!Submit(q)
      PROVE  RunsEvolve
  <2>1. CASE run' = run BY <2>1, NoRunChanges
  <2>2. CASE Len(run) < MaxRuns /\ run' = Append(run, Wf!NewRun("submit", q, Wf!FirstRows))
    <3>1. /\ RunSound(Wf!NewRun("submit", q, Wf!FirstRows))
          /\ Born(Wf!NewRun("submit", q, Wf!FirstRows))
      BY FirstRowsAre, NewRunIs DEF Born
    <3> QED BY <2>2, <3>1, RunIsAdded
  <2> QED BY <1>1, <2>1, <2>2 DEF Wf!Submit
<1>2. ASSUME NEW i \in DOMAIN run, Wf!CancelRun(i)
      PROVE  RunsEvolve
  <2>1. RunBecomes(run[i], Wf!CancelRow(run[i])) /\ Plain(run[i], Wf!CancelRow(run[i]))
    BY CancelRowIs DEF RunsSound
  <2>2. run' = [run EXCEPT ![i] = Wf!CancelRow(run[i])] BY <1>2 DEF Wf!CancelRun
  <2> QED BY <2>1, <2>2, OneRunChanges
<1>3. ASSUME NEW i \in DOMAIN run, NEW s \in Wf!Step, Wf!CancelStep(i, s)
      PROVE  RunsEvolve
  <2>1. CASE run' = run BY <2>1, NoRunChanges
  <2>2. CASE /\ run[i].step[s].st \in {"dispatching", "running"}
             /\ run' = [run EXCEPT ![i].step[s].st = "cancelled", ![i].step[s].rev = @ + 1]
    <3> DEFINE r == run[i]
               old == r.step[s]
               line == NextRow(old, "cancelled")
               q == [r EXCEPT !.step[s] = line]
    <3>1. RunSound(r) /\ r \in RunRow /\ r.step \in [Wf!Step -> StepRow] /\ old \in StepRow
      BY DEF RunsSound, RunSound, RunRow
    <3>2. old.att \in Nat /\ old.rev + 1 \in Nat BY <3>1 DEF StepRow
    <3>3. line \in StepRow /\ line.st = "cancelled" /\ line.att = old.att
      BY <3>1, NextRowIs DEF Wf!StepStatuses
    <3>4. run' = [run EXCEPT ![i] = q]
      <4>1. run \in Seq(RunRow) BY DEF WfTypes
      <4>2. run' = [run EXCEPT ![i] =
                      [r EXCEPT !.step = [[r.step EXCEPT ![s].st = "cancelled"]
                                            EXCEPT ![s].rev = @ + 1]]]
        BY <2>2, <3>1, <4>1 DEF RunRow, StepRow
      <4>3. [[r.step EXCEPT ![s].st = "cancelled"] EXCEPT ![s].rev = @ + 1] =
            [r.step EXCEPT ![s] = line]
        BY <3>1 DEF StepRow, NextRow
      <4> QED BY <4>2, <4>3
    <3>5. r.status \notin Wf!TerminalStatuses
      BY <2>2, <3>1 DEF RunSound, Wf!InFlight
    <3> HIDE DEF line
    <3>6. RowKeeps(s, old, line) BY <2>2, <3>2, <3>3 DEF RowKeeps, Wf!Satisfies, NotBegun
    <3>7. RowMoves(s, old, line) BY <2>2, <3>3 DEF RowMoves, Open, NotBegun
    <3>8. RunBecomes(r, q)
      <4> HIDE DEF r
      <4> QED BY <3>1, <3>3, <3>5, <3>6, <3>7, SaveRowIs
    <3>9. Plain(r, q)
      <4>1. q.status = r.status /\ q.step = [r.step EXCEPT ![s] = line]
        <5> HIDE DEF r
        <5> QED BY <3>1 DEF RunRow
      <4> HIDE DEF r, q
      <4> QED BY <2>2, <3>1, <3>3, <4>1
              DEF r, Plain, StaysGoing, NoNewWork, Open, NotBegun, Wf!Unstarted
    <3> HIDE DEF q
    <3> QED BY <3>4, <3>8, <3>9, OneRunChanges
  <2> QED BY <1>3, <2>1, <2>2 DEF Wf!CancelStep
<1>4. ASSUME NEW i \in DOMAIN run, NEW s \in Wf!Step, Wf!RetryRun(i, s)
      PROVE  RunsEvolve
  <2> DEFINE rows == Wf!RetryRows(run[i], s)
  <2>1. RunSound(run[i]) BY DEF RunsSound
  <2>2. /\ run[i].step[s].st \in {"failed", "execution_unknown", "cancelled"}
        /\ Len(run) < MaxRuns /\ run' = Append(run, Wf!NewRun("retry", NoRequest, rows))
        /\ Wf!Use("retryRun") /\ run[i].status \in Wf!TerminalStatuses
    BY <1>4 DEF Wf!RetryRun
  <2>3. rows \in [Wf!Step -> StepRow] /\ Unblocked([step |-> rows])
    BY <2>1, <2>2, RetryRowsAre
  <2>4. RunSound(Wf!NewRun("retry", NoRequest, rows))
    <3> HIDE DEF rows
    <3> QED BY <2>3, NewRunIs
  <2>5. Born(Wf!NewRun("retry", NoRequest, rows))
    <3>1. /\ Wf!NewRun("retry", NoRequest, rows).status = "pending"
          /\ Wf!NewRun("retry", NoRequest, rows).step = rows
      BY DEF Wf!NewRun
    <3> QED BY <2>2, <3>1 DEF Born
  <2> HIDE DEF rows
  <2> QED BY <2>2, <2>4, <2>5, RunIsAdded
<1>5. CASE Wf!Crash BY <1>5, NoRunChanges DEF Wf!Crash
<1> QED BY <1>1, <1>2, <1>3, <1>4, <1>5 DEF Wf!Requests

LEMMA NextRuns ==
  ASSUME WorkflowAssumption, WfTypes, Placed, RunsSound, [Wf!Next]_(Wf!vars)
  PROVE  RunsEvolve
<1>1. CASE Wf!Stopped \/ UNCHANGED Wf!vars
  BY <1>1, NoRunChanges DEF Wf!Stopped, Wf!vars
<1> QED BY <1>1, OwnerRuns, WorkerRuns, ClientRuns, RequestRuns DEF Wf!Next

------------------------------------------------------------------------------
(* The owner, its batch and the requests.                                  *)

OwnerRow == [pc : OwnerPlaces, rid : Nat, rev : Nat,
             why : {"none", "abort", "error", "stop"}, stop : BOOLEAN]
WorkerRow == [pc : WorkerPlaces, rev : Nat, seen : Nat]
CancelRow == [pc : {"idle", "interrupt", "waiting", "finalize"}, rid : Nat, rev : Nat]

OthersTyped ==
  /\ owner \in OwnerRow /\ worker \in [Wf!Step -> WorkerRow] /\ canceller \in CancelRow
  /\ pending \in BOOLEAN /\ owed \in Nat

\* What the revisions read are numbers.
LEMMA Revisions ==
  ASSUME WfTypes, RunsSound
  PROVE  /\ \A i \in DOMAIN run : i \in Nat /\ run[i].rev \in Nat
                                  /\ Wf!CancelRow(run[i]).rev \in Nat
         /\ owner.rid \in DOMAIN run =>
              /\ Wf!Mine.rev \in Nat /\ Wf!CancelRow(Wf!Mine).rev \in Nat
              /\ \A s \in Wf!Step :
                   /\ Wf!Promoted(Wf!Skipped(Wf!Mine.step))[s].rev \in Nat
                   /\ Wf!Mine.step[s].att \in Nat
<1>1. \A i \in DOMAIN run : i \in Nat BY DEF WfTypes
<1>2. \A i \in DOMAIN run : RunSound(run[i]) BY DEF RunsSound
<1>3. \A i \in DOMAIN run : RunSound(Wf!CancelRow(run[i]))
  BY <1>2, CancelRowIs DEF RunBecomes
<1>4. ASSUME owner.rid \in DOMAIN run, NEW s \in Wf!Step
      PROVE  /\ Wf!Promoted(Wf!Skipped(Wf!Mine.step))[s].rev \in Nat
             /\ Wf!Mine.step[s].att \in Nat
  <2>1. Wf!Mine.step \in [Wf!Step -> StepRow]
    BY <1>2, <1>4 DEF Wf!Mine, RunSound, RunRow
  <2>2. Wf!Promoted(Wf!Skipped(Wf!Mine.step)) \in [Wf!Step -> StepRow]
    BY <2>1, SkippedIs, PromotedIs
  <2> QED BY <2>1, <2>2 DEF StepRow
<1>5. \A r \in RunRow : r.rev \in Nat BY DEF RunRow
<1>6. \A i \in DOMAIN run : run[i] \in RunRow /\ Wf!CancelRow(run[i]) \in RunRow
  BY <1>2, <1>3 DEF RunSound
<1> QED BY <1>1, <1>4, <1>5, <1>6 DEF Wf!Mine

LEMMA LeaveKeeps ==
  ASSUME OthersTyped, Wf!Leave
  PROVE  /\ owner' \in OwnerRow /\ owner'.pc \in {"off", "admit"}
         /\ pending' \in BOOLEAN /\ canceller' \in CancelRow
         /\ canceller'.rid = canceller.rid
         /\ canceller'.pc = "idle" => canceller.pc = "idle"
         /\ canceller.pc = "idle" => canceller'.pc = "idle"
<1>1. owner' \in OwnerRow /\ owner'.pc \in {"off", "admit"} /\ pending' \in BOOLEAN
  BY DEF Wf!Leave, Wf!Off, OwnerRow, OwnerPlaces
<1>2. canceller' = IF canceller.pc = "waiting" THEN [canceller EXCEPT !.pc = "finalize"]
                   ELSE canceller
  BY DEF Wf!Leave
<1> QED BY <1>1, <1>2 DEF OthersTyped, CancelRow

\* What concerns the owner and the requests, and a batch that has no fibers.
OwnerPlaced ==
  /\ owner.pc \notin {"off", "admit", "unwind"} => owner.rid \in DOMAIN run
  /\ owner.pc = "unwind" /\ owner.why = "abort" => owner.rid \in DOMAIN run
  /\ canceller.pc # "idle" => canceller.rid \in DOMAIN run
BatchPlaced ==
  \A s \in Wf!Step :
    /\ worker[s].pc # "off" => owner.pc \in {"batch", "unwind"} /\ owner.rid \in DOMAIN run
    /\ worker[s].pc = "retry" => Policy[s] = "retry"

LEMMA OwnerPlaces1 ==
  ASSUME WorkflowAssumption, WfTypes, Placed, RunsSound, Wf!OwnerStep, RunsEvolve
  PROVE  OthersTyped' /\ OwnerPlaced' /\ BatchPlaced'
<1> USE DEF Wf!Empty
<1>a. OthersTyped /\ OwnerPlaced /\ BatchPlaced
  BY DEF WfTypes, Placed, OthersTyped, OwnerPlaced, BatchPlaced, OwnerRow, WorkerRow, CancelRow
<1>b. DOMAIN run \subseteq DOMAIN run' BY DEF RunsEvolve
<1>c. owner.pc \in OwnerPlaces /\ owner.rid \in Nat /\ owner.rev \in Nat
  BY <1>a DEF OthersTyped, OwnerRow
<1>1. CASE Wf!Leave /\ UNCHANGED <<worker, owed>> /\ owner.pc \notin {"batch"}
           /\ \A s \in Wf!Step : worker[s].pc = "off"
  BY <1>a, <1>b, <1>1, LeaveKeeps DEF OthersTyped, OwnerPlaced, BatchPlaced
\* The owner moves on with the run it has.
<1>2. ASSUME NEW pc \in OwnerPlaces \ {"off", "admit", "unwind"}, NEW rev \in Nat,
             owner.rid \in DOMAIN run, owner' = [owner EXCEPT !.pc = pc, !.rev = rev],
             UNCHANGED <<pending, worker, canceller, owed>>,
             \A s \in Wf!Step : worker[s].pc = "off"
      PROVE  OthersTyped' /\ OwnerPlaced' /\ BatchPlaced'
  <2>1. owner' \in OwnerRow /\ owner'.pc = pc /\ owner'.rid = owner.rid
    BY <1>a, <1>2 DEF OthersTyped, OwnerRow
  <2> QED BY <1>a, <1>b, <1>2, <2>1 DEF OthersTyped, OwnerPlaced, BatchPlaced
<1>3. ASSUME NEW pc \in OwnerPlaces \ {"off", "admit", "unwind"},
             owner.rid \in DOMAIN run, owner' = [owner EXCEPT !.pc = pc],
             UNCHANGED <<pending, worker, canceller, owed>>,
             \A s \in Wf!Step : worker[s].pc = "off"
      PROVE  OthersTyped' /\ OwnerPlaced' /\ BatchPlaced'
  <2>1. owner' \in OwnerRow /\ owner'.pc = pc /\ owner'.rid = owner.rid
    BY <1>a, <1>3 DEF OthersTyped, OwnerRow
  <2> QED BY <1>a, <1>b, <1>3, <2>1 DEF OthersTyped, OwnerPlaced, BatchPlaced
<1>4. owner.pc \notin {"batch", "unwind"} => \A s \in Wf!Step : worker[s].pc = "off"
  BY <1>a DEF BatchPlaced
<1>5. CASE Wf!OwnerAdmit
  <2>1. PICK i \in DOMAIN run' : owner' = [owner EXCEPT !.pc = "loop", !.rid = i]
    <3>1. CASE \E i \in Wf!Active : owner' = [owner EXCEPT !.pc = "loop", !.rid = i]
      BY <1>b, <3>1 DEF Wf!Active
    <3>2. CASE /\ run' = Append(run, Wf!NewRun("owner", NoRequest, Wf!FirstRows))
               /\ owner' = [owner EXCEPT !.pc = "loop", !.rid = Len(run) + 1]
      <4>1. Len(run) + 1 \in DOMAIN run' BY <3>2 DEF WfTypes
      <4> QED BY <3>2, <4>1
    <3> QED BY <1>5, <3>1, <3>2 DEF Wf!OwnerAdmit
  <2>2. i \in Nat BY DEF RunsEvolve
  <2>3. owner' \in OwnerRow /\ owner'.pc = "loop" /\ owner'.rid = i
    BY <1>a, <2>1, <2>2 DEF OthersTyped, OwnerRow, OwnerPlaces
  <2>4. UNCHANGED <<pending, worker, canceller, owed>> /\ owner.pc = "admit"
    BY <1>5 DEF Wf!OwnerAdmit
  <2> QED BY <1>a, <1>b, <1>4, <2>3, <2>4 DEF OthersTyped, OwnerPlaced, BatchPlaced
<1>6. CASE Wf!LoopRead
  <2>1. owner.pc = "loop" /\ owner.rid \in DOMAIN run /\ UNCHANGED <<worker, owed>>
    BY <1>6, <1>a DEF Wf!LoopRead, OwnerPlaced
  <2>2. CASE Wf!Leave BY <1>1, <1>4, <2>1, <2>2
  <2>3. CASE ~Wf!Leave
    <3>1. PICK pc \in {"frontier", "cancel"} :
            owner' = [owner EXCEPT !.pc = pc, !.rev = Wf!Mine.rev]
      BY <1>6, <2>3 DEF Wf!LoopRead
    <3>2. UNCHANGED <<pending, canceller>> BY <1>6, <2>3 DEF Wf!LoopRead
    <3>3. Wf!Mine.rev \in Nat BY <2>1, Revisions
    <3>4. pc \in OwnerPlaces \ {"off", "admit", "unwind"} BY DEF OwnerPlaces
    <3> QED BY <1>2, <1>4, <2>1, <3>1, <3>2, <3>3, <3>4
  <2> QED BY <2>2, <2>3
<1>7. CASE Wf!Frontier
  <2> DEFINE rows == Wf!Promoted(Wf!Skipped(Wf!Mine.step))
             ready == {s \in Wf!Step : rows[s].st = "ready"}
  <2>1. owner.pc = "frontier" /\ owner.rid \in DOMAIN run
        /\ UNCHANGED <<pending, canceller, owed>>
    BY <1>7, <1>a DEF Wf!Frontier, OwnerPlaced
  <2>2. /\ worker' = [s \in Wf!Step |->
              IF s \in ready THEN [Wf!Idle EXCEPT !.pc = "queued", !.rev = rows[s].rev]
              ELSE Wf!Idle]
        /\ owner' = [owner EXCEPT !.pc = IF ready = {} THEN "empty" ELSE "batch"]
    BY <1>7 DEF Wf!Frontier
  <2>3. \A s \in Wf!Step : rows[s].rev \in Nat BY <2>1, Revisions
  <2> HIDE DEF rows
  <2>4. \A s \in Wf!Step :
          /\ worker'[s] \in WorkerRow
          /\ s \in ready => worker'[s].pc = "queued"
          /\ s \notin ready => worker'[s].pc = "off"
    BY <2>2, <2>3 DEF Wf!Idle, WorkerRow, WorkerPlaces
  <2>5. worker' \in [Wf!Step -> WorkerRow] BY <2>2, <2>4
  <2>6. /\ owner' \in OwnerRow /\ owner'.rid = owner.rid
        /\ owner'.pc \in {"empty", "batch"} /\ (ready # {} => owner'.pc = "batch")
    BY <1>a, <2>2 DEF OthersTyped, OwnerRow, OwnerPlaces
  <2> HIDE DEF ready
  <2>7. OthersTyped' BY <1>a, <2>1, <2>5, <2>6 DEF OthersTyped
  <2>8. OwnerPlaced' BY <1>a, <1>b, <2>1, <2>6 DEF OwnerPlaced
  <2>9. BatchPlaced' BY <1>b, <2>1, <2>4, <2>6 DEF BatchPlaced
  <2> QED BY <2>7, <2>8, <2>9
<1>8. CASE Wf!EmptyDispatching
  <2>1. owner.pc = "empty" /\ owner.rid \in DOMAIN run /\ UNCHANGED <<worker, owed>>
    BY <1>8, <1>a DEF Wf!EmptyDispatching, OwnerPlaced
  <2>2. CASE Wf!Leave BY <1>1, <1>4, <2>1, <2>2
  <2>3. CASE ~Wf!Leave
    BY <1>3, <1>4, <1>8, <2>1, <2>3 DEF Wf!EmptyDispatching, OwnerPlaces
  <2> QED BY <2>2, <2>3
<1>9. CASE \/ Wf!RecoverRunning \/ Wf!EmptyFailed \/ Wf!EmptyBlocked \/ Wf!EmptyCompletes
  <2>1. owner.pc \in {"empty", "recover"} /\ UNCHANGED <<worker, owed>> /\ Wf!Leave
    BY <1>9 DEF Wf!RecoverRunning, Wf!EmptyFailed, Wf!EmptyBlocked, Wf!EmptyCompletes
  <2> QED BY <1>1, <1>4, <2>1
<1>10. CASE Wf!EmptyRunning \/ Wf!EmptyCancelled \/ Wf!EmptyCancelling
  <2>1. /\ owner.pc = "empty" /\ owner.rid \in DOMAIN run
        /\ UNCHANGED <<pending, worker, canceller, owed>>
    BY <1>10, <1>a DEF Wf!EmptyRunning, Wf!EmptyCancelled, Wf!EmptyCancelling, OwnerPlaced
  <2>2. PICK pc \in {"recover", "cancel", "finalize"} : owner' = [owner EXCEPT !.pc = pc]
    BY <1>10 DEF Wf!EmptyRunning, Wf!EmptyCancelled, Wf!EmptyCancelling
  <2>3. pc \in OwnerPlaces \ {"off", "admit", "unwind"} BY DEF OwnerPlaces
  <2> QED BY <1>3, <1>4, <2>1, <2>2, <2>3
<1>11. CASE Wf!OwnerCancels
  <2>1. owner.pc = "cancel" /\ owner.rid \in DOMAIN run /\ UNCHANGED <<worker, owed>>
    BY <1>11, <1>a DEF Wf!OwnerCancels, OwnerPlaced
  <2>2. CASE Wf!Leave BY <1>1, <1>4, <2>1, <2>2
  <2>3. CASE ~Wf!Leave
    <3>1. /\ owner' = [owner EXCEPT !.pc = "finalize", !.rev = Wf!CancelRow(Wf!Mine).rev]
          /\ UNCHANGED <<pending, canceller>>
      BY <1>11, <2>3 DEF Wf!OwnerCancels
    <3>2. Wf!CancelRow(Wf!Mine).rev \in Nat BY <2>1, Revisions
    <3>3. "finalize" \in OwnerPlaces \ {"off", "admit", "unwind"} BY DEF OwnerPlaces
    <3> QED BY <1>2, <1>4, <2>1, <3>1, <3>2, <3>3
  <2> QED BY <2>2, <2>3
<1>12. CASE Wf!OwnerFinalizes \/ Wf!FailCommit
  <2>1. owner.pc \in {"finalize", "failing"} /\ UNCHANGED <<worker, owed>> /\ Wf!Leave
    BY <1>12 DEF Wf!OwnerFinalizes, Wf!FailCommit
  <2> QED BY <1>1, <1>4, <2>1
<1>13. CASE Wf!BatchOver
  <2>1. /\ owner.rid \in DOMAIN run /\ owner' = [owner EXCEPT !.pc = "loop"]
        /\ UNCHANGED <<pending, worker, canceller, owed>>
        /\ \A s \in Wf!Step : worker[s].pc = "off"
    BY <1>13, <1>a DEF Wf!BatchOver, Wf!Live, OwnerPlaced
  <2>2. "loop" \in OwnerPlaces \ {"off", "admit", "unwind"} BY DEF OwnerPlaces
  <2> QED BY <1>3, <2>1, <2>2
<1>14. CASE Wf!Unwound
  <2>1. owner.pc = "unwind" /\ UNCHANGED <<worker, owed>>
        /\ \A s \in Wf!Step : worker[s].pc = "off"
    BY <1>14 DEF Wf!Unwound, Wf!Live
  <2>2. CASE Wf!Leave BY <1>1, <2>1, <2>2
  <2>3. CASE ~Wf!Leave
    <3>1. /\ owner.why = "abort" /\ owner' = [owner EXCEPT !.pc = "fail"]
          /\ UNCHANGED <<pending, canceller>>
      BY <1>14, <2>3 DEF Wf!Unwound
    <3>2. owner.rid \in DOMAIN run BY <1>a, <2>1, <3>1 DEF OwnerPlaced
    <3>3. "fail" \in OwnerPlaces \ {"off", "admit", "unwind"} BY DEF OwnerPlaces
    <3> QED BY <1>3, <2>1, <3>1, <3>2, <3>3
  <2> QED BY <2>2, <2>3
<1>15. CASE Wf!FailRead
  <2>1. /\ owner.pc = "fail" /\ owner.rid \in DOMAIN run
        /\ owner' = [owner EXCEPT !.pc = "failing", !.rev = Wf!Mine.rev]
        /\ UNCHANGED <<pending, worker, canceller, owed>>
    BY <1>15, <1>a DEF Wf!FailRead, OwnerPlaced
  <2>2. Wf!Mine.rev \in Nat BY <2>1, Revisions
  <2>3. "failing" \in OwnerPlaces \ {"off", "admit", "unwind"} BY DEF OwnerPlaces
  <2> QED BY <1>2, <1>4, <2>1, <2>2, <2>3
<1> QED BY <1>5, <1>6, <1>7, <1>8, <1>9, <1>10, <1>11, <1>12, <1>13, <1>14, <1>15
        DEF Wf!OwnerStep

LEMMA WorkerPlaces1 ==
  ASSUME WorkflowAssumption, WfTypes, Placed, RunsSound, NEW s \in Wf!Step,
         Wf!WorkerStep(s), RunsEvolve
  PROVE  OthersTyped' /\ OwnerPlaced' /\ BatchPlaced'
<1>a. OthersTyped /\ OwnerPlaced /\ BatchPlaced
  BY DEF WfTypes, Placed, OthersTyped, OwnerPlaced, BatchPlaced, OwnerRow, WorkerRow, CancelRow
<1>b. DOMAIN run \subseteq DOMAIN run' BY DEF RunsEvolve
<1>c. worker[s] \in WorkerRow /\ worker[s].rev + 1 \in Nat
  BY <1>a DEF OthersTyped, WorkerRow
<1>1. worker[s].pc # "off"
  BY DEF Wf!WorkerStep, Wf!DispatchRead, Wf!DispatchCommit, Wf!StartRead, Wf!StartCommit,
         Wf!ExecuteEnds, Wf!SettleStep, Wf!TaskDies, Wf!RetryStep, Wf!BatchFails, Wf!Unwind, Wf!At
<1>2. owner.pc \in {"batch", "unwind"} /\ owner.rid \in DOMAIN run
  BY <1>a, <1>1 DEF BatchPlaced
<1>3. PICK w \in WorkerRow : Wf!Becomes(s, w) /\ (w.pc = "retry" => Policy[s] = "retry")
  <2> DEFINE old == worker[s]
  <2>1. Wf!Idle \in WorkerRow /\ Wf!Idle.pc = "off" BY DEF Wf!Idle, WorkerRow, WorkerPlaces
  <2>2. \A pc \in WorkerPlaces, rev, seen \in Nat :
          /\ [old EXCEPT !.pc = pc] \in WorkerRow /\ [old EXCEPT !.pc = pc].pc = pc
          /\ [old EXCEPT !.pc = pc, !.seen = seen] \in WorkerRow
          /\ [old EXCEPT !.pc = pc, !.seen = seen].pc = pc
          /\ [old EXCEPT !.pc = pc, !.rev = rev] \in WorkerRow
          /\ [old EXCEPT !.pc = pc, !.rev = rev].pc = pc
    <3> HIDE DEF old
    <3> QED BY <1>c DEF WorkerRow, old
  <2>3. Wf!Mine.rev \in Nat BY <1>2, Revisions
  <2>4. \A pc \in WorkerPlaces :
          [old EXCEPT !.pc = pc, !.rev = @ + 1] = [old EXCEPT !.pc = pc, !.rev = old.rev + 1]
    BY <1>c DEF WorkerRow
  <2> DEFINE Ok(w) == w \in WorkerRow /\ (w.pc = "retry" => Policy[s] = "retry")
  <2>5. ASSUME NEW pc \in WorkerPlaces \ {"retry"}
        PROVE  /\ Ok([worker[s] EXCEPT !.pc = pc])
               /\ Ok([worker[s] EXCEPT !.pc = pc, !.seen = Wf!Mine.rev])
               /\ Ok([worker[s] EXCEPT !.pc = pc, !.rev = @ + 1])
    BY <1>c, <2>2, <2>3, <2>4
  <2>6. Policy[s] = "retry" => Ok([worker[s] EXCEPT !.pc = "retry", !.rev = @ + 1])
    BY <1>c, <2>2, <2>4 DEF WorkerPlaces
  <2>7. Ok(Wf!Idle) BY <2>1
  <2>8. Ok(Wf!AfterFailure(s))
    BY <2>5, <2>6, <2>7 DEF Wf!AfterFailure, WorkerPlaces
  <2> SUFFICES \E w : Ok(w) /\ Wf!Becomes(s, w)
    OBVIOUS
  <2> HIDE DEF Ok, old
  <2>9. CASE Wf!DispatchRead(s) BY <2>5, <2>7, <2>9 DEF Wf!DispatchRead, WorkerPlaces
  <2>10. CASE Wf!DispatchCommit(s) BY <2>5, <2>7, <2>10 DEF Wf!DispatchCommit, WorkerPlaces
  <2>11. CASE Wf!StartRead(s) BY <2>5, <2>7, <2>11 DEF Wf!StartRead, WorkerPlaces
  <2>12. CASE Wf!StartCommit(s) BY <2>5, <2>7, <2>12 DEF Wf!StartCommit, WorkerPlaces
  <2>13. CASE Wf!ExecuteEnds(s) BY <2>5, <2>13 DEF Wf!ExecuteEnds, WorkerPlaces
  <2>14. CASE Wf!SettleStep(s)
    BY <2>5, <2>7, <2>8, <2>14 DEF Wf!SettleStep, WorkerPlaces
  <2>18. CASE Wf!TaskDies(s) BY <2>5, <2>18 DEF Wf!TaskDies, WorkerPlaces
  <2>15. CASE Wf!RetryStep(s) BY <2>5, <2>7, <2>15 DEF Wf!RetryStep, WorkerPlaces
  <2>16. CASE Wf!BatchFails(s) BY <2>7, <2>16 DEF Wf!BatchFails
  <2>17. CASE Wf!Unwind(s) BY <2>7, <2>17 DEF Wf!Unwind
  <2> QED BY <2>9, <2>10, <2>11, <2>12, <2>13, <2>14, <2>15, <2>16, <2>17, <2>18
         DEF Wf!WorkerStep
<1>4. /\ worker' \in [Wf!Step -> WorkerRow] /\ worker'[s] = w
      /\ \A t \in Wf!Step : t # s => worker'[t] = worker[t]
  BY <1>a, <1>3 DEF Wf!Becomes, OthersTyped
<1>5. UNCHANGED <<pending, canceller, owed>>
  BY DEF Wf!WorkerStep, Wf!DispatchRead, Wf!DispatchCommit, Wf!StartRead, Wf!StartCommit,
         Wf!ExecuteEnds, Wf!SettleStep, Wf!TaskDies, Wf!RetryStep, Wf!BatchFails, Wf!Unwind, Wf!InBatch
<1>6. /\ owner' \in OwnerRow /\ owner'.rid = owner.rid
      /\ owner'.pc \in {"batch", "unwind"}
  <2>1. CASE owner' = owner BY <1>2, <1>a, <2>1 DEF OthersTyped
  <2>2. CASE Wf!BatchFails(s)
    <3>1. /\ owner' = [owner EXCEPT !.pc = "unwind", !.why = worker[s].pc]
          /\ worker[s].pc \in {"abort", "error"}
      BY <2>2 DEF Wf!BatchFails, Wf!At
    <3> QED BY <1>a, <3>1 DEF OthersTyped, OwnerRow, OwnerPlaces
  <2> QED BY <2>1, <2>2
          DEF Wf!WorkerStep, Wf!DispatchRead, Wf!DispatchCommit, Wf!StartRead, Wf!StartCommit,
              Wf!ExecuteEnds, Wf!SettleStep, Wf!TaskDies, Wf!RetryStep, Wf!Unwind, Wf!InBatch
<1>7. OthersTyped' BY <1>a, <1>4, <1>5, <1>6 DEF OthersTyped
<1>8. OwnerPlaced' BY <1>a, <1>b, <1>2, <1>5, <1>6 DEF OwnerPlaced
<1>9. BatchPlaced' BY <1>a, <1>b, <1>2, <1>3, <1>4, <1>6 DEF BatchPlaced
<1> QED BY <1>7, <1>8, <1>9

LEMMA RestPlaces1 ==
  ASSUME WorkflowAssumption, WfTypes, Placed, RunsSound, RunsEvolve,
         Wf!Stopped \/ Wf!ClientStep \/ Wf!Requests \/ UNCHANGED Wf!vars
  PROVE  OthersTyped' /\ OwnerPlaced' /\ BatchPlaced'
<1>a. OthersTyped /\ OwnerPlaced /\ BatchPlaced
  BY DEF WfTypes, Placed, OthersTyped, OwnerPlaced, BatchPlaced, OwnerRow, WorkerRow, CancelRow
<1>b. DOMAIN run \subseteq DOMAIN run' BY DEF RunsEvolve
<1>c. owner \in OwnerRow /\ canceller \in CancelRow BY <1>a DEF OthersTyped
<1>1. CASE Wf!Stopped
  <2>1. /\ owner' = [owner EXCEPT !.pc = "unwind", !.why = "stop"]
        /\ UNCHANGED <<pending, worker, canceller, owed>>
    BY <1>1 DEF Wf!Stopped
  <2>2. /\ owner' \in OwnerRow /\ owner'.rid = owner.rid /\ owner'.pc = "unwind"
        /\ owner'.why = "stop"
    BY <1>c, <2>1 DEF OwnerRow, OwnerPlaces
  <2> QED BY <1>a, <1>b, <2>1, <2>2 DEF OthersTyped, OwnerPlaced, BatchPlaced
<1>2. CASE Wf!ClientWake
  <2>1. owed' \in Nat /\ UNCHANGED <<worker, canceller>> /\ Wf!Wake
    BY <1>2, <1>a DEF Wf!ClientWake, OthersTyped
  <2>2. CASE owner.pc = "off"
    <3>1. owner' \in OwnerRow /\ owner'.pc = "admit" /\ UNCHANGED pending
      <4>1. owner' = [Wf!Off EXCEPT !.pc = "admit"] /\ UNCHANGED pending
        BY <2>1, <2>2 DEF Wf!Wake
      <4>2. Wf!Off \in OwnerRow BY DEF Wf!Off, OwnerRow, OwnerPlaces
      <4> QED BY <4>1, <4>2 DEF OwnerRow, OwnerPlaces
    <3>2. \A s \in Wf!Step : worker[s].pc = "off" BY <1>a, <2>2 DEF BatchPlaced
    <3> QED BY <1>a, <1>b, <2>1, <3>1, <3>2 DEF OthersTyped, OwnerPlaced, BatchPlaced
  <2>3. CASE owner.pc # "off"
    <3>1. pending' = TRUE /\ UNCHANGED owner BY <2>1, <2>3 DEF Wf!Wake
    <3> QED BY <1>a, <1>b, <2>1, <3>1 DEF OthersTyped, OwnerPlaced, BatchPlaced
  <2> QED BY <2>2, <2>3
<1>3. CASE Wf!InterruptOwner
  <2>1. UNCHANGED <<worker, owed>> /\ canceller.pc = "interrupt"
    BY <1>3 DEF Wf!InterruptOwner
  <2>2. canceller' \in CancelRow /\ canceller'.rid = canceller.rid
    BY <1>3, <1>c DEF Wf!InterruptOwner, CancelRow
  <2>3. /\ owner' \in OwnerRow /\ owner'.pc = owner.pc /\ owner'.rid = owner.rid
        /\ owner'.why = owner.why /\ pending' \in BOOLEAN
    <3>1. CASE owner' = owner /\ UNCHANGED pending BY <1>a, <3>1 DEF OthersTyped
    <3>2. CASE owner' = [owner EXCEPT !.stop = TRUE] /\ pending' = FALSE
      BY <1>c, <3>2 DEF OwnerRow
    <3> QED BY <1>3, <3>1, <3>2 DEF Wf!InterruptOwner
  <2> QED BY <1>a, <1>b, <2>1, <2>2, <2>3 DEF OthersTyped, OwnerPlaced, BatchPlaced
<1>4. CASE Wf!FinalizeCancel
  <2>1. /\ canceller' \in CancelRow /\ canceller'.pc = "idle"
        /\ UNCHANGED <<owner, pending, worker, owed>>
    BY <1>4 DEF Wf!FinalizeCancel, Wf!NoCancel, CancelRow
  <2> QED BY <1>a, <1>b, <2>1 DEF OthersTyped, OwnerPlaced, BatchPlaced
<1>5. ASSUME UNCHANGED <<owner, pending, worker, canceller>>, owed' \in {owed, owed + 1}
      PROVE  OthersTyped' /\ OwnerPlaced' /\ BatchPlaced'
  BY <1>a, <1>b, <1>5 DEF OthersTyped, OwnerPlaced, BatchPlaced
<1>6. ASSUME NEW i \in DOMAIN run, Wf!CancelRun(i)
      PROVE  OthersTyped' /\ OwnerPlaced' /\ BatchPlaced'
  <2>1. /\ canceller' = [pc |-> "interrupt", rid |-> i, rev |-> Wf!CancelRow(run[i]).rev]
        /\ UNCHANGED <<owner, pending, worker, owed>>
    BY <1>6 DEF Wf!CancelRun
  <2>2. canceller' \in CancelRow /\ canceller'.rid = i
    BY <2>1, Revisions DEF CancelRow
  <2> QED BY <1>a, <1>b, <2>1, <2>2 DEF OthersTyped, OwnerPlaced, BatchPlaced
<1>7. CASE Wf!Crash
  <2>1. /\ owner' \in OwnerRow /\ owner'.pc = "off" /\ pending' = FALSE /\ owed' = 0
        /\ worker' \in [Wf!Step -> WorkerRow] /\ \A s \in Wf!Step : worker'[s].pc = "off"
        /\ canceller' \in CancelRow /\ canceller'.pc = "idle"
    BY <1>7 DEF Wf!Crash, Wf!Off, Wf!Idle, Wf!NoCancel, OwnerRow, OwnerPlaces, WorkerRow,
                WorkerPlaces, CancelRow
  <2> QED BY <2>1 DEF OthersTyped, OwnerPlaced, BatchPlaced
<1>8. CASE Wf!Requests
  <2>1. ASSUME NEW q, Wf!Submit(q) PROVE OthersTyped' /\ OwnerPlaced' /\ BatchPlaced'
    BY <1>5, <2>1 DEF Wf!Submit
  <2>2. ASSUME NEW i, NEW s, Wf!CancelStep(i, s)
        PROVE  OthersTyped' /\ OwnerPlaced' /\ BatchPlaced'
    BY <1>5, <2>2 DEF Wf!CancelStep
  <2>3. ASSUME NEW i, NEW s, Wf!RetryRun(i, s)
        PROVE  OthersTyped' /\ OwnerPlaced' /\ BatchPlaced'
    BY <1>5, <2>3 DEF Wf!RetryRun
  <2> QED BY <1>6, <1>7, <1>8, <2>1, <2>2, <2>3 DEF Wf!Requests
<1>9. CASE UNCHANGED Wf!vars BY <1>5, <1>9 DEF Wf!vars
<1> QED BY <1>1, <1>2, <1>3, <1>4, <1>8, <1>9 DEF Wf!ClientStep

------------------------------------------------------------------------------
(* What has been started, and what it depends on.                          *)

\* An executor is started: startStep's transaction, when it wins.
Begins(s) ==
  /\ worker[s].pc # "off" /\ Wf!Held(s, "dispatching") /\ Wf!Save(Launched(Wf!Mine, s))
  /\ begun' = begun \cup {<<owner.rid, s, Wf!Row(s).att>>} /\ owner' = owner

LEMMA StartBegins ==
  ASSUME NEW s, Wf!StartCommit(s)
  PROVE  \/ UNCHANGED begun /\ Wf!Becomes(s, Wf!Idle)
         \/ Begins(s)
<1>1. CASE Wf!Publishable(Wf!Mine, worker[s].seen) /\ Wf!Held(s, "dispatching")
  BY <1>1 DEF Wf!StartCommit, Wf!InBatch, Wf!At, Begins, Launched, StepTo
<1>2. CASE ~(Wf!Publishable(Wf!Mine, worker[s].seen) /\ Wf!Held(s, "dispatching"))
  BY <1>2 DEF Wf!StartCommit
<1> QED BY <1>1, <1>2

LEMMA Starts ==
  ASSUME [Wf!Next]_(Wf!vars)
  PROVE  UNCHANGED begun \/ \E s \in Wf!Step : Begins(s)
<1>1. CASE Wf!OwnerStep
  BY <1>1 DEF Wf!OwnerStep, Wf!OwnerAdmit, Wf!LoopRead, Wf!Frontier, Wf!Empty,
     Wf!EmptyDispatching, Wf!EmptyRunning, Wf!RecoverRunning, Wf!EmptyFailed, Wf!EmptyCancelled,
     Wf!EmptyCancelling, Wf!EmptyBlocked, Wf!EmptyCompletes, Wf!OwnerCancels,
     Wf!OwnerFinalizes, Wf!BatchOver, Wf!Unwound, Wf!FailRead, Wf!FailCommit
<1>2. ASSUME NEW s \in Wf!Step, Wf!WorkerStep(s)
      PROVE  UNCHANGED begun \/ Begins(s)
  BY <1>2, StartBegins
     DEF Wf!WorkerStep, Wf!DispatchRead, Wf!DispatchCommit, Wf!StartRead,
         Wf!ExecuteEnds, Wf!SettleStep, Wf!TaskDies, Wf!RetryStep, Wf!BatchFails, Wf!Unwind
<1>3. CASE Wf!Stopped \/ Wf!ClientStep \/ Wf!Requests \/ UNCHANGED Wf!vars
  BY <1>3 DEF Wf!Stopped, Wf!ClientStep, Wf!Requests, Wf!ClientWake, Wf!InterruptOwner,
     Wf!FinalizeCancel, Wf!Submit, Wf!CancelRun, Wf!CancelStep, Wf!RetryRun, Wf!Crash, Wf!vars
<1> QED BY <1>1, <1>2, <1>3 DEF Wf!Next

\* Fibers that have an executor, or had one and wait to try again.
Execute == {"execute", "settle"}
Executor == {"execute", "settle", "retry"}

\* A fiber that executes, or did, was like that before, for the same run, or starts now.
Continues(s) ==
  /\ worker[s].pc \in Executor /\ owner'.rid = owner.rid
  /\ worker'[s].pc \in Execute => worker[s].pc \in Execute

LEMMA Executes ==
  ASSUME OthersTyped, BatchPlaced, [Wf!Next]_(Wf!vars), NEW s \in Wf!Step,
         worker'[s].pc \in Executor
  PROVE  Continues(s) \/ Begins(s)
<1> USE DEF Continues, Execute, Executor
<1>1. worker \in [Wf!Step -> WorkerRow] /\ worker[s] \in WorkerRow /\ owner \in OwnerRow
  BY DEF OthersTyped
<1>2. worker[s].pc # "off" => owner.pc \in {"batch", "unwind"}
  BY DEF BatchPlaced
<1>3. CASE Wf!OwnerStep
  <2>1. CASE Wf!Frontier
    <3>1. worker'[s].pc \in {"queued", "off"} BY <2>1 DEF Wf!Frontier, Wf!Idle
    <3> QED BY <3>1
  <2>2. CASE ~Wf!Frontier
    <3>1. worker' = worker
      BY <1>3, <2>2
         DEF Wf!OwnerStep, Wf!OwnerAdmit, Wf!LoopRead, Wf!Empty,
             Wf!EmptyDispatching, Wf!EmptyRunning, Wf!RecoverRunning, Wf!EmptyFailed, Wf!EmptyCancelled,
             Wf!EmptyCancelling, Wf!EmptyBlocked, Wf!EmptyCompletes, Wf!OwnerCancels,
             Wf!OwnerFinalizes, Wf!BatchOver, Wf!Unwound, Wf!FailRead, Wf!FailCommit
    <3>2. s \in Wf!Live /\ owner.pc \in {"batch", "unwind"} BY <1>2, <3>1 DEF Wf!Live
    <3> QED
      BY <1>3, <2>2, <3>2
         DEF Wf!OwnerStep, Wf!OwnerAdmit, Wf!LoopRead, Wf!Empty,
             Wf!EmptyDispatching, Wf!EmptyRunning, Wf!RecoverRunning, Wf!EmptyFailed, Wf!EmptyCancelled,
             Wf!EmptyCancelling, Wf!EmptyBlocked, Wf!EmptyCompletes, Wf!OwnerCancels,
             Wf!OwnerFinalizes, Wf!BatchOver, Wf!Unwound, Wf!FailRead, Wf!FailCommit
  <2> QED BY <2>1, <2>2
<1>4. ASSUME NEW t \in Wf!Step, Wf!WorkerStep(t)
      PROVE  Continues(s) \/ Begins(s)
  <2>1. owner'.rid = owner.rid
    <3>1. CASE owner' = owner BY <3>1
    <3>2. CASE Wf!BatchFails(t) BY <1>1, <3>2 DEF Wf!BatchFails, OwnerRow
    <3> QED BY <1>4, <3>1, <3>2
            DEF Wf!WorkerStep, Wf!DispatchRead, Wf!DispatchCommit, Wf!StartRead,
                Wf!StartCommit, Wf!ExecuteEnds, Wf!SettleStep, Wf!TaskDies, Wf!RetryStep, Wf!Unwind,
                Wf!InBatch
  <2>2. CASE worker'[s] = worker[s] BY <2>1, <2>2
  <2>3. CASE worker'[s] # worker[s]
    <3>1. PICK w : Wf!Becomes(t, w)
      BY <1>4 DEF Wf!WorkerStep, Wf!DispatchRead, Wf!DispatchCommit, Wf!StartRead,
                  Wf!StartCommit, Wf!ExecuteEnds, Wf!SettleStep, Wf!TaskDies, Wf!RetryStep, Wf!BatchFails,
                  Wf!Unwind
    <3>2. t = s BY <1>1, <2>3, <3>1 DEF Wf!Becomes
    <3>3. \A w1 : Wf!Becomes(s, w1) => worker'[s] = w1 BY <1>1 DEF Wf!Becomes
    <3>4. \A pc : [worker[s] EXCEPT !.pc = pc].pc = pc BY <1>1 DEF WorkerRow
    <3>5. \A pc : \A seen : [worker[s] EXCEPT !.pc = pc, !.seen = seen].pc = pc
      BY <1>1 DEF WorkerRow
    <3>6. \A pc : [worker[s] EXCEPT !.pc = pc, !.rev = @ + 1].pc = pc
      BY <1>1 DEF WorkerRow
    <3>7. Wf!Idle.pc = "off" BY DEF Wf!Idle
    <3>8. CASE Wf!ExecuteEnds(s) BY <2>1, <3>8 DEF Wf!ExecuteEnds, Wf!At
    <3>9. CASE Wf!StartCommit(s)
      BY <3>3, <3>7, <3>9, StartBegins
    <3>10. CASE Wf!DispatchRead(s)
      BY <3>3, <3>5, <3>7, <3>10 DEF Wf!DispatchRead
    <3>11. CASE Wf!DispatchCommit(s)
      BY <3>3, <3>6, <3>7, <3>11 DEF Wf!DispatchCommit
    <3>12. CASE Wf!StartRead(s) BY <3>3, <3>5, <3>7, <3>12 DEF Wf!StartRead
    <3>13. CASE Wf!SettleStep(s) \/ Wf!TaskDies(s) \/ Wf!RetryStep(s)
      <4>1. CASE Wf!SettleStep(s)
        <5>1. worker[s].pc = "settle" BY <4>1 DEF Wf!SettleStep, Wf!At
        <5>2. worker'[s].pc \notin Execute
          BY <3>3, <3>4, <3>6, <3>7, <4>1 DEF Wf!SettleStep, Wf!AfterFailure
        <5> QED BY <2>1, <5>1, <5>2
      <4>2. CASE Wf!RetryStep(s)
        BY <3>3, <3>4, <3>7, <4>2 DEF Wf!RetryStep
      <4>3. CASE Wf!TaskDies(s)
        BY <2>1, <3>3, <3>4, <4>3 DEF Wf!TaskDies, Wf!At
      <4> QED BY <3>13, <4>1, <4>2, <4>3
    <3>14. CASE Wf!BatchFails(s) \/ Wf!Unwind(s)
      BY <3>3, <3>7, <3>14 DEF Wf!BatchFails, Wf!Unwind
    <3> QED BY <1>4, <3>2, <3>8, <3>9, <3>10, <3>11, <3>12, <3>13, <3>14 DEF Wf!WorkerStep
  <2> QED BY <2>2, <2>3
<1>5. CASE Wf!Crash BY <1>5 DEF Wf!Crash, Wf!Idle
<1>6. CASE Wf!ClientWake
  <2>1. worker' = worker BY <1>6 DEF Wf!ClientWake
  <2>2. owner.pc # "off" BY <1>2, <2>1
  <2> QED BY <1>6, <2>1, <2>2 DEF Wf!ClientWake, Wf!Wake
<1>7. CASE Wf!Stopped \/ Wf!InterruptOwner
  <2>1. worker' = worker BY <1>7 DEF Wf!Stopped, Wf!InterruptOwner
  <2>2. owner'.rid = owner.rid BY <1>1, <1>7 DEF Wf!Stopped, Wf!InterruptOwner, OwnerRow
  <2> QED BY <2>1, <2>2
<1>8. CASE UNCHANGED <<owner, worker>> BY <1>8
<1>9. ASSUME Wf!FinalizeCancel \/ UNCHANGED Wf!vars \/ (Wf!Requests /\ ~Wf!Crash)
      PROVE  UNCHANGED <<owner, worker>>
  BY <1>9 DEF Wf!FinalizeCancel, Wf!vars, Wf!Requests, Wf!Submit, Wf!CancelRun, Wf!CancelStep,
              Wf!RetryRun
<1> QED BY <1>3, <1>4, <1>5, <1>6, <1>7, <1>8, <1>9 DEF Wf!Next, Wf!ClientStep

\* The row of a step that is started.
LEMMA BegunRow ==
  ASSUME WfTypes, RunsSound, owner.rid \in DOMAIN run, NEW s \in Wf!Step, Begins(s)
  PROVE  /\ run'[owner.rid].step[s].st = "running"
         /\ run'[owner.rid].step[s].att = Wf!Row(s).att
         /\ Wf!Row(s).st = "dispatching" /\ Wf!Row(s).att \in Nat
<1> DEFINE r == Wf!Mine
<1>1. RunSound(r) /\ r \in RunRow /\ r.step \in [Wf!Step -> StepRow] /\ r.step[s] \in StepRow
  BY MineIsSound DEF RunSound, RunRow
<1>2. run'[owner.rid] = Launched(r, s) BY DEF Begins, Wf!Save, WfTypes
<1>3. Launched(r, s).step = [r.step EXCEPT ![s] = NextRow(r.step[s], "running")]
  <2> HIDE DEF r
  <2> QED BY <1>1, PublishedIs
<1>4. "running" \in Wf!StepStatuses BY DEF Wf!StepStatuses
<1>5. NextRow(r.step[s], "running").st = "running"
      /\ NextRow(r.step[s], "running").att = r.step[s].att
  BY <1>1, <1>4, NextRowIs
<1>6. run'[owner.rid].step[s] = NextRow(r.step[s], "running") BY <1>1, <1>2, <1>3
<1>7. r.step[s].att \in Nat /\ r.step[s].st = "dispatching" BY <1>1 DEF StepRow, Begins, Wf!Held, Wf!Row
<1> QED BY <1>5, <1>6, <1>7 DEF Wf!Row

LEMMA BegunKept ==
  ASSUME WorkflowAssumption, WfTypes, Placed, RunsSound, BegunOnce, RunsEvolve,
         [Wf!Next]_(Wf!vars)
  PROVE  BegunOnce' /\ begun' \subseteq (1..MaxRuns) \X Wf!Step \X Nat
<1>1. begun \subseteq (1..MaxRuns) \X Wf!Step \X Nat BY DEF WfTypes
<1>2. ASSUME NEW i \in 1..MaxRuns, NEW s \in Wf!Step, NEW a \in Nat, <<i, s, a>> \in begun
      PROVE  /\ i \in DOMAIN run' /\ a <= run'[i].step[s].att
             /\ a = run'[i].step[s].att => run'[i].step[s].st \notin NotBegun
  <2>1. /\ i \in DOMAIN run /\ a <= run[i].step[s].att
        /\ a = run[i].step[s].att => run[i].step[s].st \notin NotBegun
    BY <1>2 DEF BegunOnce
  <2>2. i \in DOMAIN run' /\ RowKeeps(s, run[i].step[s], run'[i].step[s])
    BY <2>1 DEF RunsEvolve, RunKeeps
  <2>3. run[i].step[s].att \in Nat /\ run'[i].step[s].att \in Nat
    BY <2>1, <2>2 DEF RunsSound, RunsEvolve, RunSound, RunRow, StepRow
  <2> QED BY <2>1, <2>2, <2>3 DEF RowKeeps
<1>3. CASE UNCHANGED begun BY <1>1, <1>2, <1>3 DEF BegunOnce
<1>4. ASSUME NEW s \in Wf!Step, Begins(s)
      PROVE  BegunOnce' /\ begun' \subseteq (1..MaxRuns) \X Wf!Step \X Nat
  <2>1. owner.rid \in DOMAIN run /\ begun' = begun \cup {<<owner.rid, s, Wf!Row(s).att>>}
    BY <1>4 DEF Begins, Placed
  <2>2. owner.rid \in 1..MaxRuns
    BY <2>1 DEF WfTypes, WorkflowAssumption, Wf!RunAssumption
  <2>3. /\ run'[owner.rid].step[s].st = "running" /\ owner.rid \in DOMAIN run'
        /\ run'[owner.rid].step[s].att = Wf!Row(s).att /\ Wf!Row(s).att \in Nat
    BY <1>4, <2>1, BegunRow DEF RunsEvolve
  <2>4. begun' \subseteq (1..MaxRuns) \X Wf!Step \X Nat BY <1>1, <2>1, <2>2, <2>3
  <2>5. ASSUME NEW i \in 1..MaxRuns, NEW t \in Wf!Step, NEW a \in Nat, <<i, t, a>> \in begun'
        PROVE  /\ i \in DOMAIN run' /\ a <= run'[i].step[t].att
               /\ a = run'[i].step[t].att => run'[i].step[t].st \notin NotBegun
    <3>1. CASE <<i, t, a>> \in begun BY <1>2, <3>1
    <3>2. CASE <<i, t, a>> = <<owner.rid, s, Wf!Row(s).att>>
      <4>1. i = owner.rid /\ t = s /\ a = Wf!Row(s).att BY <3>2
      <4> QED BY <2>3, <4>1 DEF NotBegun
    <3> QED BY <2>1, <2>5, <3>1, <3>2
  <2> QED BY <2>4, <2>5 DEF BegunOnce
<1> QED BY <1>3, <1>4, Starts

LEMMA DependenciesKept ==
  ASSUME WfTypes, Placed, OthersTyped, BatchPlaced, RunsSound, Wf!DependenciesFirst,
         RunsEvolve, [Wf!Next]_(Wf!vars)
  PROVE  Wf!DependenciesFirst'
<1> SUFFICES ASSUME NEW s \in Wf!Step, worker'[s].pc \in {"execute", "settle"},
                    NEW p \in Wf!Predecessors[s]
             PROVE  Wf!Satisfies(p, run'[owner'.rid].step[p])
  BY DEF Wf!DependenciesFirst, Wf!Mine
<1> USE DEF Continues, Execute, Executor
<1>1. p \in Wf!Step BY DEF Wf!Predecessors
<1>2. /\ Wf!Satisfies(p, run[owner.rid].step[p]) /\ owner'.rid = owner.rid
      /\ owner.rid \in DOMAIN run
  <2>1. CASE worker[s].pc \in {"execute", "settle"} /\ owner'.rid = owner.rid
    BY <2>1 DEF Wf!DependenciesFirst, Wf!Mine, Placed
  <2>2. CASE Begins(s)
    <3>1. owner.rid \in DOMAIN run /\ owner' = owner BY <2>2 DEF Begins, Placed
    <3>2. Wf!Row(s).st = "dispatching" BY <2>2, <3>1, BegunRow
    <3>3. RunSound(Wf!Mine) BY <3>1, MineIsSound
    <3>4. Wf!Satisfies(p, Wf!Mine.step[p]) BY <3>2, <3>3 DEF RunSound, Unblocked, Wf!Row
    <3> QED BY <3>1, <3>4 DEF Wf!Mine
  <2> QED BY <2>1, <2>2, Executes
<1>3. RowKeeps(p, run[owner.rid].step[p], run'[owner.rid].step[p])
  BY <1>1, <1>2 DEF RunsEvolve, RunKeeps
<1> QED BY <1>2, <1>3 DEF RowKeeps

------------------------------------------------------------------------------
(* The theorems.                                                           *)

LEMMA WorkflowInvariance == WorkflowAssumption => (Wf!Spec => []WfInv)
<1> SUFFICES ASSUME WorkflowAssumption PROVE Wf!Spec => []WfInv
  OBVIOUS
<1>1. Wf!Init => WfInv
  <2> SUFFICES ASSUME Wf!Init PROVE WfInv
    OBVIOUS
  <2>1. run = <<>> /\ DOMAIN run = {} /\ Len(run) <= MaxRuns
    BY DEF Wf!Init, WorkflowAssumption, Wf!RunAssumption
  <2>2. WfTypes
    <3>1. owner \in OwnerRow BY DEF Wf!Init, Wf!Off, OwnerRow, OwnerPlaces
    <3>2. worker \in [Wf!Step -> WorkerRow]
      BY DEF Wf!Init, Wf!Idle, WorkerRow, WorkerPlaces
    <3>3. canceller \in CancelRow BY DEF Wf!Init, Wf!NoCancel, CancelRow
    <3>4. run \in Seq(RunRow) BY <2>1
    <3> QED BY <2>1, <3>1, <3>2, <3>3, <3>4
            DEF Wf!Init, WfTypes, OwnerRow, WorkerRow, CancelRow
  <2>3. Placed /\ Wf!DependenciesFirst
    BY DEF Wf!Init, Placed, Wf!Off, Wf!Idle, Wf!NoCancel, Wf!DependenciesFirst
  <2>4. RunsSound /\ BegunOnce BY <2>1 DEF Wf!Init, RunsSound, BegunOnce
  <2> QED BY <2>2, <2>3, <2>4 DEF WfInv
<1>2. WfInv /\ [Wf!Next]_(Wf!vars) => WfInv'
  <2> SUFFICES ASSUME WfInv, [Wf!Next]_(Wf!vars) PROVE WfInv'
    OBVIOUS
  <2>1. WfTypes /\ Placed /\ RunsSound /\ BegunOnce /\ Wf!DependenciesFirst BY DEF WfInv
  <2>2. RunsEvolve BY <2>1, NextRuns
  <2>3. OthersTyped /\ BatchPlaced
    BY <2>1 DEF WfTypes, Placed, OthersTyped, BatchPlaced, OwnerRow, WorkerRow, CancelRow
  <2>4. OthersTyped' /\ OwnerPlaced' /\ BatchPlaced'
    <3>1. CASE Wf!OwnerStep BY <2>1, <2>2, <3>1, OwnerPlaces1
    <3>2. CASE \E s \in Wf!Step : Wf!WorkerStep(s) BY <2>1, <2>2, <3>2, WorkerPlaces1
    <3>3. CASE Wf!Stopped \/ Wf!ClientStep \/ Wf!Requests \/ UNCHANGED Wf!vars
      BY <2>1, <2>2, <3>3, RestPlaces1
    <3> QED BY <3>1, <3>2, <3>3 DEF Wf!Next
  <2>5. BegunOnce' /\ begun' \subseteq (1..MaxRuns) \X Wf!Step \X Nat
    BY <2>1, <2>2, BegunKept
  <2>6. Wf!DependenciesFirst' BY <2>1, <2>2, <2>3, DependenciesKept
  <2>7. RunsSound' BY <2>2 DEF RunsEvolve, RunsSound
  <2>8. WfTypes'
    BY <2>2, <2>4, <2>5 DEF WfTypes, RunsEvolve, OthersTyped, OwnerRow, WorkerRow, CancelRow
  <2>9. Placed' BY <2>4 DEF Placed, OwnerPlaced, BatchPlaced
  <2> QED BY <2>5, <2>6, <2>7, <2>8, <2>9 DEF WfInv
<1> QED BY <1>1, <1>2, PTL DEF Wf!Spec

\* The variables of Workflow runs have their types.
THEOREM WorkflowTypeCorrect == WorkflowAssumption => (Wf!Spec => []Wf!TypeOK)
<1> SUFFICES ASSUME WorkflowAssumption PROVE Wf!Spec => []Wf!TypeOK
  OBVIOUS
<1>1. WfInv => Wf!TypeOK
  <2> SUFFICES ASSUME WfInv PROVE Wf!TypeOK
    OBVIOUS
  <2>1. \A i \in DOMAIN run : Wf!RunType(run[i])
    BY DEF WfInv, RunsSound, RunSound, RunRow, StepRow, Wf!RunType
  <2> QED BY <2>1 DEF WfInv, WfTypes, Placed, OwnerPlaces, WorkerPlaces, Wf!TypeOK
<1> QED BY <1>1, WorkflowInvariance, PTL

\* Under a run that is over, no step is left in flight: nothing would settle it
\* any more (failRun, finalizeCancelRun, recoverRunning and completeRun account
\* for every status a step may be in).
THEOREM NoOrphanStepAlways == WorkflowAssumption => (Wf!Spec => []Wf!NoOrphanStep)
<1> SUFFICES ASSUME WorkflowAssumption PROVE Wf!Spec => []Wf!NoOrphanStep
  OBVIOUS
<1>1. WfInv => Wf!NoOrphanStep BY DEF WfInv, RunsSound, RunSound, Wf!NoOrphanStep
<1> QED BY <1>1, WorkflowInvariance, PTL

\* A completed run has only completed and skipped steps, and a partly successful
\* one has no failure but those its author tolerates.
THEOREM HonestOutcomeAlways == WorkflowAssumption => (Wf!Spec => []Wf!HonestOutcome)
<1> SUFFICES ASSUME WorkflowAssumption PROVE Wf!Spec => []Wf!HonestOutcome
  OBVIOUS
<1>1. WfInv => Wf!HonestOutcome BY DEF WfInv, RunsSound, RunSound, Wf!HonestOutcome
<1> QED BY <1>1, WorkflowInvariance, PTL

\* As long as a step of a run can be dispatched, the run's revision is the number
\* of its events, which is what WorkflowEvent.publish compares: no interleaving
\* of fibers, requests and crashes makes a run impossible to dispatch.
THEOREM EventsMatchRevisionAlways == WorkflowAssumption => (Wf!Spec => []Wf!EventsMatchRevision)
<1> SUFFICES ASSUME WorkflowAssumption PROVE Wf!Spec => []Wf!EventsMatchRevision
  OBVIOUS
<1>1. WfInv => Wf!EventsMatchRevision BY DEF WfInv, RunsSound, RunSound, Wf!EventsMatchRevision
<1> QED BY <1>1, WorkflowInvariance, PTL

\* A step is executed only when all it depends on has settled in its favour, in
\* every graph, also in runs made by a retry and after recoveries.
THEOREM DependenciesFirstAlways == WorkflowAssumption => (Wf!Spec => []Wf!DependenciesFirst)
<1> SUFFICES ASSUME WorkflowAssumption PROVE Wf!Spec => []Wf!DependenciesFirst
  OBVIOUS
<1>1. WfInv => Wf!DependenciesFirst BY DEF WfInv
<1> QED BY <1>1, WorkflowInvariance, PTL

\* A terminal run keeps its status and the rows of all steps that were settled.
THEOREM TerminalIsFinalAlways == WorkflowAssumption => (Wf!Spec => Wf!TerminalIsFinal)
<1> SUFFICES ASSUME WorkflowAssumption PROVE Wf!Spec => Wf!TerminalIsFinal
  OBVIOUS
<1>1. WfInv /\ [Wf!Next]_(Wf!vars) =>
        \A i \in DOMAIN run : run[i].status \in Wf!TerminalStatuses =>
          /\ run'[i].status = run[i].status
          /\ \A s \in Wf!Step : run[i].step[s].st \notin Wf!Unstarted
                                  => run'[i].step[s] = run[i].step[s]
  BY NextRuns DEF WfInv, RunsEvolve, RunKeeps
<1> QED BY <1>1, WorkflowInvariance, PTL DEF Wf!Spec, Wf!TerminalIsFinal

\* No attempt's executor is started twice, across crashes, recoveries,
\* cancellations, retries and drains.
THEOREM NoReplayAlways == WorkflowAssumption => (Wf!Spec => Wf!NoReplay)
<1> SUFFICES ASSUME WorkflowAssumption PROVE Wf!Spec => Wf!NoReplay
  OBVIOUS
<1>1. WfInv /\ [Wf!Next]_(Wf!vars) =>
        \A s \in Wf!Step : worker[s].pc = "start" /\ worker'[s].pc = "execute" =>
          <<owner.rid, s, Wf!Row(s).att>> \notin begun
  <2> SUFFICES ASSUME WfInv, [Wf!Next]_(Wf!vars), NEW s \in Wf!Step,
                      worker[s].pc = "start", worker'[s].pc = "execute",
                      <<owner.rid, s, Wf!Row(s).att>> \in begun
               PROVE  FALSE
    OBVIOUS
  <2>1. WfTypes /\ Placed /\ RunsSound /\ BegunOnce BY DEF WfInv
  <2>2. OthersTyped /\ BatchPlaced
    BY <2>1 DEF WfTypes, Placed, OthersTyped, BatchPlaced, OwnerRow, WorkerRow, CancelRow
  <2>3. Begins(s) BY <2>2, Executes DEF Continues, Execute, Executor
  <2>4. owner.rid \in DOMAIN run BY <2>1 DEF Placed
  <2>5. Wf!Row(s).st = "dispatching" /\ Wf!Row(s).att \in Nat BY <2>1, <2>3, <2>4, BegunRow
  <2>6. owner.rid \in 1..MaxRuns
    BY <2>1, <2>4 DEF WfTypes, WorkflowAssumption, Wf!RunAssumption
  <2> QED BY <2>1, <2>5, <2>6 DEF BegunOnce, NotBegun, Wf!Row, Wf!Mine
<1> QED BY <1>1, WorkflowInvariance, PTL DEF Wf!Spec, Wf!NoReplay

\* A run that is over stays as it is and no attempt is executed twice, in every graph
\* and under any number of cancellations, retries and crashes.
THEOREM DoneIsFinalAlways == WorkflowAssumption => (Wf!Spec => Wf!DoneIsFinal)
BY TerminalIsFinalAlways, NoReplayAlways DEF Wf!DoneIsFinal

------------------------------------------------------------------------------
(* What may happen, and what has been executed.                            *)

\* How often each event has happened is a number.
UsesTyped == used \in [Wf!Events -> Nat]

LEMMA UsesKept ==
  ASSUME UsesTyped, [Wf!Next]_(Wf!vars)
  PROVE  UsesTyped'
<1>1. CASE UNCHANGED used BY <1>1 DEF UsesTyped
<1>2. ASSUME NEW e \in Wf!Events, Wf!Use(e) PROVE UsesTyped'
  <2>1. used[e] + 1 \in Nat BY <1>2 DEF UsesTyped
  <2>2. used' = [used EXCEPT ![e] = used[e] + 1] BY <1>2 DEF Wf!Use
  <2> QED BY <2>1, <2>2 DEF UsesTyped
<1>3. CASE Wf!OwnerStep
  <2>1. UNCHANGED used \/ Wf!Use("flagOff")
    BY <1>3 DEF Wf!OwnerStep, Wf!OwnerAdmit, Wf!LoopRead, Wf!Frontier, Wf!Empty,
       Wf!EmptyDispatching, Wf!EmptyRunning, Wf!RecoverRunning, Wf!EmptyFailed, Wf!EmptyCancelled,
       Wf!EmptyCancelling, Wf!EmptyBlocked, Wf!EmptyCompletes, Wf!OwnerCancels,
       Wf!OwnerFinalizes, Wf!BatchOver, Wf!Unwound, Wf!FailRead, Wf!FailCommit
  <2> QED BY <1>1, <1>2, <2>1 DEF Wf!Events
<1>4. CASE Wf!Stopped \/ (\E s \in Wf!Step : Wf!WorkerStep(s)) \/ Wf!ClientStep
           \/ UNCHANGED Wf!vars
  <2>1. UNCHANGED used \/ Wf!Use("taskDies")
    BY <1>4 DEF Wf!Stopped, Wf!ClientStep, Wf!ClientWake, Wf!InterruptOwner,
       Wf!FinalizeCancel, Wf!vars, Wf!WorkerStep, Wf!DispatchRead, Wf!DispatchCommit,
       Wf!StartRead, Wf!StartCommit, Wf!ExecuteEnds, Wf!SettleStep, Wf!TaskDies, Wf!RetryStep,
       Wf!BatchFails, Wf!Unwind, Wf!InBatch
  <2> QED BY <1>1, <1>2, <2>1 DEF Wf!Events
<1>5. CASE Wf!Requests
  <2>1. \E e \in Wf!Events : Wf!Use(e)
    BY <1>5 DEF Wf!Requests, Wf!Submit, Wf!CancelRun, Wf!CancelStep, Wf!RetryRun, Wf!Crash,
       Wf!Events
  <2> QED BY <1>2, <2>1
<1> QED BY <1>3, <1>4, <1>5 DEF Wf!Next

\* An event without a budget does not happen.
LEMMA NotUsed ==
  ASSUME UsesTyped, NEW e \in Wf!Events, Limit[e] = 0
  PROVE  ~Wf!Use(e)
<1>1. used[e] \in Nat BY DEF UsesTyped
<1> QED BY <1>1 DEF Wf!Use


\* Step s of run i was executed, as the attempts h tell; a fiber that has an executor
\* stands for one.
Ran(h, i, s) == \E b \in h : b[1] = i /\ b[2] = s

WorkersRan == \A s \in Wf!Step : worker[s].pc \in Executor => Ran(begun, owner.rid, s)

LEMMA RanBefore ==
  ASSUME [Wf!Next]_(Wf!vars), NEW i, NEW s, Ran(begun', i, s), ~Ran(begun, i, s)
  PROVE  i = owner.rid /\ s \in Wf!Step /\ Begins(s)
<1>1. PICK e \in begun' : e[1] = i /\ e[2] = s BY DEF Ran
<1>2. e \notin begun BY <1>1 DEF Ran
<1>3. PICK t \in Wf!Step : Begins(t) BY <1>1, <1>2, Starts
<1>4. e = <<owner.rid, t, Wf!Row(t).att>> BY <1>1, <1>2, <1>3 DEF Begins
<1> QED BY <1>1, <1>3, <1>4

LEMMA WorkersRanKept ==
  ASSUME WfInv, WorkersRan, [Wf!Next]_(Wf!vars)
  PROVE  WorkersRan'
<1> SUFFICES ASSUME NEW s \in Wf!Step, worker'[s].pc \in Executor
             PROVE  Ran(begun', owner'.rid, s)
  BY DEF WorkersRan
<1>1. OthersTyped /\ BatchPlaced
  BY DEF WfInv, WfTypes, Placed, OthersTyped, BatchPlaced, OwnerRow, WorkerRow, CancelRow
<1>2. CASE Continues(s)
  <2>1. Ran(begun, owner.rid, s) /\ owner'.rid = owner.rid
    BY <1>2 DEF Continues, WorkersRan
  <2>2. begun \subseteq begun' BY Starts DEF Begins
  <2> QED BY <2>1, <2>2 DEF Ran
<1>3. CASE Begins(s)
  <2>1. <<owner.rid, s, Wf!Row(s).att>> \in begun' /\ owner' = owner BY <1>3 DEF Begins
  <2> QED BY <2>1 DEF Ran
<1> QED BY <1>1, <1>2, <1>3, Executes

------------------------------------------------------------------------------
(* What a run that goes on has skipped, and what it has kept.              *)

\* A completed branch step has chosen an arm, and what it gives up was never begun.
Forgone(r) ==
  \A b \in Wf!Step : r.step[b].st = "completed" =>
    /\ r.step[b].arm \in Choices(b)
    /\ Arms[b] # {} => \A d \in Lost(r, b) : r.step[d].st \in {"pending", "skipped"}

\* Step s is one of those that some branch step gave up, all of which are skipped.
GivenUp(r, s) ==
  \E b \in Wf!Step :
    Chose(r, b) /\ s \in Lost(r, b) /\ \A d \in Lost(r, b) : r.step[d].st = "skipped"

\* A step that may still settle, or was executed.
Counts(i, r, h, p) == r.step[p].st \in Open \/ Ran(h, i, p)

\* In a run that goes on, what such a step leads to is skipped only as given up.
SkippedRightly(i, r, h) ==
  r.status \in Going =>
    \A p \in Wf!Step : Counts(i, r, h, p) =>
      \A s \in Wf!Successors(p) : r.step[s].st = "skipped" => GivenUp(r, s)

\* A run that stops has nothing that is still to start.
Tidy(r) ==
  r.status \notin {"pending", "running"} => \A s \in Wf!Step : r.step[s].st \notin Wf!Unstarted

\* The steps of a graph stay in the graph.
LEMMA SuccessorsAre ==
  ASSUME WorkflowAssumption, NEW p \in Wf!Step, NEW s \in Wf!Successors(p)
  PROVE  s \in Wf!Step /\ p \in Wf!Predecessors[s]
<1>1. s \in Wf!Step
  BY DEF WorkflowAssumption, Wf!GraphAssumption, Wf!Successors, Wf!Target
<1> QED BY <1>1 DEF Wf!Predecessors

LEMMA LostAre ==
  ASSUME WorkflowAssumption, NEW r, NEW b \in Wf!Step, r.step[b].arm \in Wf!Target
  PROVE  \A d \in Lost(r, b) : d \in Wf!Step
BY AbandonedIs DEF Lost

\* Ahead of a running step nothing has been decided.
LEMMA RunningAhead ==
  ASSUME WorkflowAssumption, NEW i, NEW r, NEW h, RunSound(r), SkippedRightly(i, r, h),
         NEW b \in Wf!Step, r.step[b].st = "running", NEW t \in Wf!Successors(b)
  PROVE  \A d \in Wf!Descendants[t] : r.step[d].st = "pending"
<1> DEFINE A == {d \in Wf!Step : r.step[d].st = "pending"}
<1>1. r.step \in [Wf!Step -> StepRow] /\ r.status \in Wf!RunStatuses
  BY DEF RunSound, RunRow
<1>2. r.status \in Going
  BY <1>1 DEF RunSound, Wf!RunStatuses, Wf!TerminalStatuses, Wf!InFlight, Going
<1>3. ASSUME NEW p \in Wf!Step, r.step[p].st \in {"pending", "running"},
             NEW s \in Wf!Successors(p)
      PROVE  s \in A
  <2>1. s \in Wf!Step /\ p \in Wf!Predecessors[s] BY SuccessorsAre
  <2>2. ~Wf!Satisfies(p, r.step[p]) BY <1>3 DEF Wf!Satisfies
  <2>3. r.step[s].st \in {"pending", "skipped"} BY <2>1, <2>2 DEF RunSound, Unblocked
  <2>4. ASSUME r.step[s].st = "skipped" PROVE FALSE
    <3>1. GivenUp(r, s)
      BY <1>2, <1>3, <2>4 DEF SkippedRightly, Counts, Open, NotBegun
    <3>2. PICK c \in Wf!Step :
            Chose(r, c) /\ s \in Lost(r, c) /\ \A d \in Lost(r, c) : r.step[d].st = "skipped"
      BY <3>1 DEF GivenUp
    <3>3. p # c BY <1>3, <3>2 DEF Chose
    <3>4. r.step[c].arm \in Wf!Target BY <1>1 DEF StepRow
    <3>5. p \in Lost(r, c) BY <2>1, <3>2, <3>3, <3>4, AbandonedIs DEF Lost
    <3> QED BY <1>3, <3>2, <3>5
  <2> QED BY <2>1, <2>3, <2>4
<1>4. t \in A BY <1>3
<1>5. \A p \in A : Wf!Successors(p) \subseteq A BY <1>3
<1>6. Wf!Descendants[t] \subseteq A
  <2>1. t \in Wf!Step /\ A \in SUBSET Wf!Step BY <1>4
  <2> HIDE DEF A
  <2> QED BY <1>4, <1>5, <2>1, ReachedIn
<1> QED BY <1>6

LEMMA ForgoneKept ==
  ASSUME WorkflowAssumption, NEW i, NEW r, NEW h, NEW q, RunSound(r), RunSound(q),
         SkippedRightly(i, r, h), Forgone(r), Moves(r, q)
  PROVE  Forgone(q)
<1> SUFFICES ASSUME NEW b \in Wf!Step, q.step[b].st = "completed"
             PROVE  /\ q.step[b].arm \in Choices(b)
                    /\ Arms[b] # {} => \A d \in Lost(q, b) :
                                         q.step[d].st \in {"pending", "skipped"}
  BY DEF Forgone
<1>1. /\ r.step \in [Wf!Step -> StepRow] /\ q.step \in [Wf!Step -> StepRow]
      /\ q.step[b].arm \in Wf!Target
  BY DEF RunSound, RunRow, StepRow
<1>2. CASE r.step[b].st = "completed"
  <2>1. q.step[b].arm = r.step[b].arm BY <1>2 DEF Moves, StaysSettled
  <2>2. Lost(q, b) = Lost(r, b) BY <2>1 DEF Lost
  <2>3. ASSUME Arms[b] # {}, NEW d \in Lost(q, b), q.step[d].st \notin {"pending", "skipped"}
        PROVE  FALSE
    <3>1. r.step[d].st \in {"pending", "skipped"} BY <1>2, <2>2, <2>3 DEF Forgone
    <3>2. d \in Wf!Step BY <1>1, <2>3, LostAre
    <3> QED BY <2>3, <3>1, <3>2 DEF Moves, PromotesRightly, Chose
  <2> QED BY <1>2, <2>1, <2>3 DEF Forgone
<1>3. CASE r.step[b].st # "completed"
  <2>1. /\ r.step[b].st = "running" /\ q.step[b].arm \in Choices(b)
        /\ \A t \in Wf!Step : t # b => q.step[t] = r.step[t]
    BY <1>3 DEF Moves, SettlesOne
  <2>2. ASSUME NEW d \in Lost(q, b) PROVE q.step[d].st = "pending"
    <3>1. PICK t \in Arms[b] : t \in Wf!Step /\ d \in Wf!Descendants[t]
      BY <1>1, <2>2, AbandonedIs DEF Lost
    <3>2. t \in Wf!Successors(b) BY <3>1 DEF Wf!Successors, Wf!Step, Wf!END
    <3>3. r.step[d].st = "pending" BY <2>1, <3>1, <3>2, RunningAhead
    <3>4. d \in Wf!Step /\ d # b BY <1>1, <2>1, <2>2, <3>3, LostAre
    <3> QED BY <2>1, <3>3, <3>4
  <2> QED BY <2>1, <2>2
<1> QED BY <1>2, <1>3

\* What was given up stays given up; and what is newly skipped is given up.
LEMMA GivenUpKept ==
  ASSUME WorkflowAssumption, NEW r, NEW q, RunSound(r), Forgone(r), Moves(r, q),
         q.status \in Going, NEW s \in Wf!Step, q.step[s].st = "skipped",
         r.step[s].st = "skipped" => GivenUp(r, s)
  PROVE  GivenUp(q, s)
<1>1. r.step \in [Wf!Step -> StepRow] BY DEF RunSound, RunRow
<1>2. \A b \in Wf!Step : r.step[b].arm \in Wf!Target BY <1>1 DEF StepRow
<1>3. PICK b \in Wf!Step :
        /\ Chose(r, b) /\ s \in Lost(r, b)
        /\ \A d \in Lost(r, b) : d \in Wf!Step /\ q.step[d].st = "skipped"
  <2>1. CASE r.step[s].st = "skipped"
    <3>1. PICK b \in Wf!Step :
            Chose(r, b) /\ s \in Lost(r, b) /\ \A d \in Lost(r, b) : r.step[d].st = "skipped"
      BY <2>1 DEF GivenUp
    <3>2. \A d \in Lost(r, b) : d \in Wf!Step BY <1>2, LostAre
    <3>3. \A d \in Lost(r, b) : q.step[d].st = "skipped"
      BY <3>1, <3>2 DEF Moves, StaysSettled
    <3> QED BY <3>1, <3>2, <3>3
  <2>2. CASE r.step[s].st # "skipped"
    <3>1. PICK b \in Wf!Step :
            /\ Chose(r, b) /\ s \in Lost(r, b)
            /\ \A d \in Wf!Step : d \in Lost(r, b) /\ r.step[d].st \in Wf!Unstarted
                                    => q.step[d].st = "skipped"
      BY <2>2 DEF Moves, SkipsLost
    <3>2. \A d \in Lost(r, b) : d \in Wf!Step BY <1>2, LostAre
    <3>3. \A d \in Lost(r, b) : r.step[d].st \in {"pending", "skipped"}
      BY <3>1 DEF Forgone, Chose
    <3>4. \A d \in Lost(r, b) : q.step[d].st = "skipped"
      BY <3>1, <3>2, <3>3 DEF Moves, StaysSettled, Wf!Unstarted
    <3> QED BY <3>1, <3>2, <3>4
  <2> QED BY <2>1, <2>2
<1>4. q.step[b].st = "completed" /\ q.step[b].arm = r.step[b].arm
  BY <1>3 DEF Chose, Moves, StaysSettled
<1>5. Chose(q, b) /\ Lost(q, b) = Lost(r, b) BY <1>3, <1>4 DEF Chose, Lost
<1> QED BY <1>3, <1>5 DEF GivenUp

------------------------------------------------------------------------------
(* Every step keeps what a run has skipped and kept.                       *)

RightOf(i, r, h) == Forgone(r) /\ SkippedRightly(i, r, h)
Righted == \A i \in DOMAIN run : RightOf(i, run[i], begun)

\* Without cancellations, or without retries by policy, what stops is tidy.
Orderly ==
  Limit["cancelRun"] = 0 \/ (\A s \in Wf!Step : Policy[s] # "retry") =>
    \A i \in DOMAIN run : Tidy(run[i])

\* Without cancellations, nothing is cancelled under a batch.
BatchGoes ==
  Limit["cancelRun"] = 0 /\ owner.pc = "batch" => Wf!Mine.status # "cancelling"

Accounted == UsesTyped /\ WorkersRan /\ Righted /\ Orderly /\ BatchGoes

\* What counts in a run that is there counted before.
LEMMA CountedBefore ==
  ASSUME WorkflowAssumption, WfInv, WorkersRan, [Wf!Next]_(Wf!vars), NEW i \in DOMAIN run,
         NEW p \in Wf!Step, Counts(i, run'[i], begun', p)
  PROVE  Counts(i, run[i], begun, p)
<1>1. WfTypes /\ Placed /\ RunsSound BY DEF WfInv
<1>2. CASE run'[i].step[p].st \in Open /\ run[i].step[p].st \notin Open
  <2>1. Plain(run[i], run'[i]) \/ i = owner.rid
    BY NextRuns DEF RunsEvolve, WfInv
  <2>2. i = owner.rid BY <1>2, <2>1 DEF Plain
  <2>3. Wf!At(p, "retry") BY <1>2, NextRuns DEF RunsEvolve, WfInv, Moves, OpensRetried
  <2>4. Ran(begun, owner.rid, p) BY <2>3 DEF WorkersRan, Wf!At, Executor
  <2> QED BY <2>2, <2>4 DEF Counts
<1>3. CASE Ran(begun', i, p) /\ ~Ran(begun, i, p)
  <2>1. i = owner.rid /\ Begins(p) BY <1>3, RanBefore
  <2>2. Wf!Row(p).st = "dispatching" BY <1>1, <2>1, BegunRow
  <2> QED BY <2>1, <2>2 DEF Counts, Wf!Row, Wf!Mine, Open, NotBegun
<1> QED BY <1>2, <1>3 DEF Counts

LEMMA RightKept ==
  ASSUME WorkflowAssumption, WfInv, WorkersRan, Righted, [Wf!Next]_(Wf!vars),
         NEW i \in DOMAIN run
  PROVE  RightOf(i, run'[i], begun')
<1> DEFINE r == run[i]
           q == run'[i]
<1>1. RunSound(r) /\ RunSound(q) /\ Moves(r, q)
  BY NextRuns DEF WfInv, RunsEvolve, RunsSound
<1>2. Forgone(r) /\ SkippedRightly(i, r, begun) BY DEF Righted, RightOf
<1>3. Forgone(q)
  <2> HIDE DEF r, q
  <2> QED BY <1>1, <1>2, ForgoneKept
<1>4. SkippedRightly(i, q, begun')
  <2> SUFFICES ASSUME q.status \in Going, NEW p \in Wf!Step, Counts(i, q, begun', p),
                      NEW s \in Wf!Successors(p), q.step[s].st = "skipped"
               PROVE  GivenUp(q, s)
    BY DEF SkippedRightly
  <2>1. Counts(i, r, begun, p) BY CountedBefore
  <2>2. r.status \in Going BY <1>1 DEF Moves, StaysGoing
  <2>3. r.step[s].st = "skipped" => GivenUp(r, s) BY <1>2, <2>1, <2>2 DEF SkippedRightly
  <2>4. s \in Wf!Step BY SuccessorsAre
  <2> HIDE DEF r, q
  <2> QED BY <1>1, <1>2, <2>3, <2>4, GivenUpKept
<1> QED BY <1>3, <1>4 DEF RightOf

\* A run that is submitted has nothing behind it.
LEMMA FirstRight ==
  ASSUME WorkflowAssumption, NEW i, NEW q, NEW h, q.step = Wf!FirstRows
  PROVE  RightOf(i, q, h)
<1>1. \A s \in Wf!Step : q.step[s].st \in {"ready", "pending"} BY FirstRowsAre
<1>2. \A p \in Wf!Step : \A s \in Wf!Successors(p) : s \in Wf!Step BY SuccessorsAre
<1> QED BY <1>1, <1>2 DEF RightOf, Forgone, SkippedRightly

\* A run that retries a step of a run that is over and tidy.
LEMMA RetryRight ==
  ASSUME WorkflowAssumption, NEW i, NEW r, NEW q, NEW h, NEW s \in Wf!Step,
         RunSound(r), Forgone(r), Tidy(r), r.status \in Wf!TerminalStatuses,
         r.step[s].st \in {"failed", "execution_unknown", "cancelled"},
         Retries(q.step, r, s), \A p \in Wf!Step : ~Ran(h, i, p)
  PROVE  RightOf(i, q, h)
<1>1. \A t \in Wf!Step :
        /\ t = s => q.step[t].st = "ready"
        /\ t # s /\ t \in Wf!Descendants[s] => q.step[t].st = "pending"
        /\ t # s /\ t \notin Wf!Descendants[s] =>
             q.step[t].st = r.step[t].st /\ q.step[t].arm = r.step[t].arm
  BY DEF Retries
<1>2. r.step \in [Wf!Step -> StepRow] BY DEF RunSound, RunRow
<1>3. \A t \in Wf!Step : r.step[t].st \notin Open
  BY DEF RunSound, Tidy, Open, NotBegun, Wf!TerminalStatuses, Wf!InFlight, Wf!Unstarted
<1>4. Forgone(q)
  <2> SUFFICES ASSUME NEW b \in Wf!Step, q.step[b].st = "completed"
               PROVE  /\ q.step[b].arm \in Choices(b)
                      /\ Arms[b] # {} => \A d \in Lost(q, b) :
                                           q.step[d].st \in {"pending", "skipped"}
    BY DEF Forgone
  <2>1. r.step[b].st = "completed" /\ q.step[b].arm = r.step[b].arm BY <1>1
  <2>2. Lost(q, b) = Lost(r, b) BY <2>1 DEF Lost
  <2>3. ASSUME Arms[b] # {}, NEW d \in Lost(q, b)
        PROVE  q.step[d].st \in {"pending", "skipped"}
    <3>1. r.step[d].st \in {"pending", "skipped"} BY <2>1, <2>2, <2>3 DEF Forgone
    <3>2. r.step[b].arm \in Wf!Target BY <1>2 DEF StepRow
    <3>3. d \in Wf!Step BY <2>2, <2>3, <3>2, LostAre
    <3> QED BY <1>1, <3>1, <3>3
  <2> QED BY <2>1, <2>3 DEF Forgone
<1>5. ASSUME NEW p \in Wf!Step, Counts(i, q, h, p), NEW t \in Wf!Successors(p)
      PROVE  q.step[t].st # "skipped"
  <2>1. p \in Wf!Descendants[s]
    <3>1. q.step[p].st \in Open BY <1>5 DEF Counts
    <3>2. s \in Wf!Descendants[s] BY Reached
    <3> QED BY <1>1, <1>3, <3>1, <3>2
  <2>2. t \in Wf!Descendants[s] BY <2>1, Reached
  <2>3. t \in Wf!Step /\ p \in Wf!Predecessors[t] BY SuccessorsAre
  <2> QED BY <1>1, <2>2, <2>3
<1>6. SkippedRightly(i, q, h) BY <1>5 DEF SkippedRightly
<1> QED BY <1>4, <1>6 DEF RightOf

LEMMA RightedKept ==
  ASSUME WorkflowAssumption, Wf!Untangled, WfInv, Accounted, [Wf!Next]_(Wf!vars)
  PROVE  Righted'
<1> SUFFICES ASSUME NEW i, i \in DOMAIN run' PROVE RightOf(i, run'[i], begun')
  BY DEF Righted
<1>1. CASE i \in DOMAIN run BY <1>1, RightKept DEF Accounted
<1>2. CASE i \notin DOMAIN run
  <2>1. Born(run'[i]) BY <1>2, NextRuns DEF WfInv, RunsEvolve
  <2>2. CASE run'[i].step = Wf!FirstRows BY <2>2, FirstRight
  <2>3. ASSUME Wf!Use("retryRun"), NEW j \in DOMAIN run, NEW s \in Wf!Step,
               run[j].status \in Wf!TerminalStatuses,
               run[j].step[s].st \in {"failed", "execution_unknown", "cancelled"},
               run'[i].step = Wf!RetryRows(run[j], s)
        PROVE  RightOf(i, run'[i], begun')
    <3>1. Limit["retryRun"] # 0
      BY <2>3, NotUsed DEF Accounted, Wf!Events
    <3>2. Tidy(run[j]) BY <3>1 DEF Wf!Untangled, Accounted, Orderly
    <3>3. RunSound(run[j]) /\ Forgone(run[j])
      BY DEF WfInv, RunsSound, Accounted, Righted, RightOf
    <3>4. ASSUME NEW p \in Wf!Step, Ran(begun', i, p) PROVE FALSE
      <4>1. CASE Ran(begun, i, p)
        <5>1. PICK e \in begun : e[1] = i /\ e[2] = p BY <4>1 DEF Ran
        <5>2. PICK x \in 1..MaxRuns, y \in Wf!Step, a \in Nat : e = <<x, y, a>>
          BY <5>1 DEF WfInv, WfTypes
        <5>3. x = i /\ <<x, y, a>> \in begun BY <5>1, <5>2
        <5> QED BY <1>2, <5>3 DEF WfInv, BegunOnce
      <4>2. CASE ~Ran(begun, i, p)
        <5>1. i = owner.rid /\ Begins(p) BY <3>4, <4>2, RanBefore
        <5> QED BY <1>2, <5>1 DEF WfInv, Placed, Begins
      <4> QED BY <4>1, <4>2
    <3>5. Retries(Wf!RetryRows(run[j], s), run[j], s) BY <2>3, <3>3, RetryRowsAre
    <3> QED BY <2>3, <3>2, <3>3, <3>4, <3>5, RetryRight
  <2> QED BY <2>1, <2>2, <2>3 DEF Born
<1> QED BY <1>1, <1>2

LEMMA OrderlyKept ==
  ASSUME WorkflowAssumption, WfInv, Accounted, [Wf!Next]_(Wf!vars)
  PROVE  Orderly'
<1> SUFFICES ASSUME Limit["cancelRun"] = 0 \/ (\A s \in Wf!Step : Policy[s] # "retry"),
                    NEW i, i \in DOMAIN run', run'[i].status \notin {"pending", "running"},
                    NEW s \in Wf!Step, run'[i].step[s].st \in Wf!Unstarted
             PROVE  FALSE
  BY DEF Orderly, Tidy
<1>1. RunsEvolve BY NextRuns DEF WfInv
<1>2. i \in DOMAIN run BY <1>1 DEF RunsEvolve, Born
<1> DEFINE r == run[i]
           q == run'[i]
<1>3. RunSound(r) /\ RunKeeps(r, q) /\ Moves(r, q) /\ (i # owner.rid => Plain(r, q))
  BY <1>1, <1>2 DEF RunsEvolve, WfInv, RunsSound
<1>4. /\ r.status \notin {"pending", "running"}
      /\ r.step[s].st \in Wf!Unstarted \/ Wf!At(s, "retry")
  BY <1>3 DEF Moves, OpensRetried
<1>5. r.step[s].st \notin Wf!Unstarted BY <1>2, <1>4 DEF Accounted, Orderly, Tidy
<1>6. Wf!At(s, "retry") /\ i = owner.rid BY <1>3, <1>4, <1>5 DEF Plain
<1>7. Limit["cancelRun"] = 0 /\ owner.pc = "batch" BY <1>6 DEF WfInv, Placed, Wf!At
<1>8. r.status # "cancelling" BY <1>6, <1>7 DEF Accounted, BatchGoes, Wf!Mine
<1>9. r.status \in Wf!TerminalStatuses
  BY <1>3, <1>4, <1>8 DEF RunSound, RunRow, Wf!RunStatuses
<1> QED BY <1>3, <1>5, <1>9 DEF RunKeeps

\* The fibers of a batch do not cancel its run.
LEMMA WorkersGo ==
  ASSUME WfInv, NEW s \in Wf!Step, Wf!WorkerStep(s), owner.rid \in DOMAIN run
  PROVE  run'[owner.rid].status \in {"running", Wf!Mine.status}
<1> DEFINE r == Wf!Mine
<1>1. r \in RunRow /\ RunSound(r) BY MineIsSound DEF WfInv, RunSound
<1>2. ASSUME NEW z, Wf!Save(z) PROVE run'[owner.rid] = z
  BY <1>2 DEF Wf!Save, WfInv, WfTypes
<1>3. \A x, y : [r EXCEPT !.step[x] = y].status = r.status
  <2> HIDE DEF r
  <2> QED BY <1>1 DEF RunRow
<1>4. Dispatched(r, s).status = "running" /\ Launched(r, s).status = r.status
  <2> HIDE DEF r
  <2> QED BY <1>1, PublishedIs
<1>5. CASE run' = run BY <1>5 DEF Wf!Mine
<1>6. ASSUME NEW line, Wf!SaveRow(s, line) PROVE run'[owner.rid].status = r.status
  <2>1. Wf!Save([r EXCEPT !.step[s] = line]) BY <1>6 DEF Wf!SaveRow
  <2>2. run'[owner.rid] = [r EXCEPT !.step[s] = line] BY <1>2, <2>1
  <2> QED BY <1>3, <2>2
<1>7. CASE Wf!Save(Dispatched(r, s)) BY <1>2, <1>4, <1>7
<1>8. CASE Wf!Save(Launched(r, s)) BY <1>2, <1>4, <1>8
<1>9. CASE Wf!DispatchCommit(s)
  BY <1>5, <1>7, <1>9 DEF Wf!DispatchCommit, Dispatched, StepTo
<1>10. CASE Wf!StartCommit(s)
  BY <1>5, <1>8, <1>10 DEF Wf!StartCommit, Launched, StepTo
<1>11. CASE Wf!SettleStep(s) \/ Wf!TaskDies(s) \/ Wf!RetryStep(s) \/ Wf!Unwind(s)
  BY <1>5, <1>6, <1>11 DEF Wf!SettleStep, Wf!TaskDies, Wf!RetryStep, Wf!Unwind
<1>12. CASE Wf!DispatchRead(s) \/ Wf!StartRead(s) \/ Wf!ExecuteEnds(s) \/ Wf!BatchFails(s)
  BY <1>5, <1>12 DEF Wf!DispatchRead, Wf!StartRead, Wf!ExecuteEnds, Wf!BatchFails
<1> QED BY <1>9, <1>10, <1>11, <1>12 DEF Wf!WorkerStep

\* A batch is new, with a step to run, or goes on.
LEMMA Batches ==
  ASSUME WfInv, [Wf!Next]_(Wf!vars), owner'.pc = "batch"
  PROVE  /\ owner'.rid = owner.rid
         /\ \/ Wf!Frontier
            \/ owner.pc = "batch" /\ ~Wf!OwnerStep /\ ~Wf!Stopped /\ ~Wf!Crash
<1>1. owner \in OwnerRow /\ OthersTyped
  BY DEF WfInv, WfTypes, OthersTyped, OwnerRow, WorkerRow, CancelRow
<1>2. CASE Wf!OwnerStep
  <2>1. ~Wf!Leave BY <1>1, LeaveKeeps
  <2>2. ~Wf!OwnerAdmit /\ ~Wf!LoopRead /\ ~Wf!OwnerCancels /\ ~Wf!FailRead
    BY <1>1, <2>1 DEF OwnerRow, Wf!OwnerAdmit, Wf!LoopRead, Wf!OwnerCancels, Wf!FailRead
  <2>3. ~Wf!EmptyDispatching /\ ~Wf!EmptyRunning /\ ~Wf!EmptyCancelled /\ ~Wf!EmptyCancelling
        /\ ~Wf!BatchOver /\ ~Wf!Unwound
    BY <1>1, <2>1 DEF OwnerRow, Wf!EmptyDispatching, Wf!EmptyRunning, Wf!EmptyCancelled, Wf!EmptyCancelling,
       Wf!BatchOver, Wf!Unwound
  <2>4. Wf!Frontier
    BY <1>2, <2>1, <2>2, <2>3
       DEF Wf!OwnerStep, Wf!RecoverRunning, Wf!EmptyFailed, Wf!EmptyBlocked, Wf!EmptyCompletes,
           Wf!OwnerFinalizes, Wf!FailCommit
  <2>5. owner'.rid = owner.rid BY <1>1, <2>4 DEF Wf!Frontier, OwnerRow
  <2> QED BY <2>4, <2>5
<1>3. ~Wf!Stopped BY <1>1 DEF Wf!Stopped, OwnerRow
<1>4. ~Wf!Crash BY DEF Wf!Crash, Wf!Off
<1>5. ASSUME ~Wf!OwnerStep
      PROVE  owner'.rid = owner.rid /\ owner.pc = "batch"
  <2>1. CASE owner' = owner BY <2>1
  <2>2. ASSUME NEW s \in Wf!Step, Wf!WorkerStep(s)
        PROVE  owner' = owner
    <3>1. ~Wf!BatchFails(s) BY <1>1 DEF Wf!BatchFails, OwnerRow
    <3> QED BY <2>2, <3>1
            DEF Wf!WorkerStep, Wf!DispatchRead, Wf!DispatchCommit, Wf!StartRead,
                Wf!StartCommit, Wf!ExecuteEnds, Wf!SettleStep, Wf!TaskDies, Wf!RetryStep, Wf!Unwind,
                Wf!InBatch
  <2>3. CASE Wf!ClientWake
    <3>1. owner' = owner BY <2>3 DEF Wf!ClientWake, Wf!Wake, Wf!Off
    <3> QED BY <3>1
  <2>4. CASE Wf!InterruptOwner
    <3>1. owner' = owner \/ owner' = [owner EXCEPT !.stop = TRUE]
      BY <2>4 DEF Wf!InterruptOwner
    <3>2. [owner EXCEPT !.stop = TRUE].pc = owner.pc
          /\ [owner EXCEPT !.stop = TRUE].rid = owner.rid
      BY <1>1 DEF OwnerRow
    <3> QED BY <3>1, <3>2
  <2>5. CASE Wf!FinalizeCancel \/ UNCHANGED Wf!vars \/ (Wf!Requests /\ ~Wf!Crash)
    <3>1. owner' = owner
      BY <2>5 DEF Wf!FinalizeCancel, Wf!vars, Wf!Requests, Wf!Submit, Wf!CancelRun,
         Wf!CancelStep, Wf!RetryRun
    <3> QED BY <3>1
  <2> QED BY <1>3, <1>4, <1>5, <2>1, <2>2, <2>3, <2>4, <2>5 DEF Wf!Next, Wf!ClientStep
<1> QED BY <1>2, <1>3, <1>4, <1>5

LEMMA BatchGoesKept ==
  ASSUME WorkflowAssumption, WfInv, WfInv', Accounted, Orderly', [Wf!Next]_(Wf!vars)
  PROVE  BatchGoes'
<1> SUFFICES ASSUME Limit["cancelRun"] = 0, owner'.pc = "batch",
                    run'[owner'.rid].status = "cancelling"
             PROVE  FALSE
  BY DEF BatchGoes, Wf!Mine
<1>1. owner'.rid = owner.rid BY Batches
<1>2. owner.rid \in DOMAIN run' BY <1>1 DEF WfInv, Placed
<1>3. CASE Wf!Frontier
  <2>1. owner.rid \in DOMAIN run BY <1>3 DEF Wf!Frontier, WfInv, Placed
  <2> DEFINE rows == Wf!Promoted(Wf!Skipped(Wf!Mine.step))
             ready == {s \in Wf!Step : rows[s].st = "ready"}
  <2>2. ready # {}
    <3>1. owner' = [owner EXCEPT !.pc = IF ready = {} THEN "empty" ELSE "batch"]
      BY <1>3 DEF Wf!Frontier
    <3>2. owner \in OwnerRow BY DEF WfInv, WfTypes, OwnerRow
    <3> HIDE DEF ready
    <3> QED BY <3>1, <3>2 DEF OwnerRow
  <2>3. run'[owner.rid].step = rows
    <3>1. Wf!Save([Wf!Mine EXCEPT !.step = rows]) BY <1>3 DEF Wf!Frontier
    <3>2. Wf!Mine \in RunRow BY <2>1, MineIsSound DEF WfInv, RunSound
    <3> HIDE DEF rows
    <3>3. run'[owner.rid] = [Wf!Mine EXCEPT !.step = rows]
      BY <2>1, <3>1 DEF Wf!Save, WfInv, WfTypes
    <3> QED BY <3>2, <3>3 DEF RunRow
  <2>4. PICK s \in Wf!Step : rows[s].st = "ready" BY <2>2
  <2>5. Tidy(run'[owner.rid]) BY <1>2 DEF Orderly
  <2> HIDE DEF rows
  <2> QED BY <1>1, <2>3, <2>4, <2>5 DEF Tidy, Wf!Unstarted
<1>4. CASE owner.pc = "batch" /\ ~Wf!OwnerStep /\ ~Wf!Stopped /\ ~Wf!Crash
  <2>1. owner.rid \in DOMAIN run BY <1>4 DEF WfInv, Placed
  <2>2. Wf!Mine.status # "cancelling" BY <1>4 DEF Accounted, BatchGoes
  <2>3. run'[owner.rid].status = "cancelling" BY <1>1
  <2>4. run \in Seq(RunRow) BY DEF WfInv, WfTypes
  <2>5. CASE run' = run BY <2>2, <2>3, <2>5 DEF Wf!Mine
  <2>6. ASSUME NEW s \in Wf!Step, Wf!WorkerStep(s) PROVE FALSE
    BY <2>1, <2>2, <2>3, <2>6, WorkersGo
  <2>7. ASSUME NEW q, run' = Append(run, q) PROVE FALSE
    BY <2>1, <2>2, <2>3, <2>4, <2>7 DEF Wf!Mine
  <2>8. CASE Wf!ClientWake \/ Wf!InterruptOwner
    BY <2>5, <2>8 DEF Wf!ClientWake, Wf!InterruptOwner
  <2>9. CASE Wf!FinalizeCancel
    <3>1. canceller.rid \in DOMAIN run BY <2>9 DEF Wf!FinalizeCancel, WfInv, Placed
    <3>2. run'[owner.rid] = run[owner.rid] \/ run'[owner.rid] = Wf!Cancelled(run[owner.rid])
      BY <2>1, <2>9, <3>1 DEF Wf!FinalizeCancel
    <3>3. run'[owner.rid].status \in {"cancelled", Wf!Mine.status}
      <4>1. RunSound(Wf!Mine) BY <2>1, MineIsSound DEF WfInv
      <4>2. Wf!Cancelled(Wf!Mine).status = "cancelled"
        BY <4>1 DEF Wf!Cancelled, Wf!Move, RunSound, RunRow
      <4> QED BY <3>2, <4>2 DEF Wf!Mine
    <3> QED BY <2>2, <2>3, <3>3
  <2>10. CASE Wf!Requests
    <3>1. ~Wf!Use("cancelRun") BY NotUsed DEF Accounted, Wf!Events
    <3>2. ASSUME NEW i \in DOMAIN run, NEW s \in Wf!Step, Wf!CancelStep(i, s) PROVE FALSE
      <4>1. run' = [run EXCEPT ![i].step[s].st = "cancelled", ![i].step[s].rev = @ + 1]
        BY <2>5, <3>2 DEF Wf!CancelStep
      <4>2. \A j \in DOMAIN run : run[j] \in RunRow BY <2>4
      <4>3. run'[owner.rid].status = run[owner.rid].status
        BY <2>1, <2>4, <4>1, <4>2 DEF RunRow
      <4> QED BY <2>2, <2>3, <4>3 DEF Wf!Mine
    <3> QED BY <1>4, <2>5, <2>7, <2>10, <3>1, <3>2
            DEF Wf!Requests, Wf!Submit, Wf!CancelRun, Wf!RetryRun
  <2>11. CASE UNCHANGED Wf!vars BY <2>5, <2>11 DEF Wf!vars
  <2> QED BY <1>4, <2>6, <2>8, <2>9, <2>10, <2>11 DEF Wf!Next, Wf!ClientStep
<1> QED BY <1>3, <1>4, Batches

LEMMA AccountedInvariance ==
  WorkflowAssumption /\ Wf!Untangled => (Wf!Spec => []Accounted)
<1> SUFFICES ASSUME WorkflowAssumption, Wf!Untangled PROVE Wf!Spec => []Accounted
  OBVIOUS
<1>1. Wf!Init => Accounted
  <2> SUFFICES ASSUME Wf!Init PROVE Accounted
    OBVIOUS
  <2>1. run = <<>> /\ DOMAIN run = {} BY DEF Wf!Init
  <2>2. UsesTyped BY DEF Wf!Init, UsesTyped
  <2>3. WorkersRan BY DEF Wf!Init, WorkersRan, Wf!Idle, Executor
  <2> QED BY <2>1, <2>2, <2>3
          DEF Accounted, Righted, Orderly, BatchGoes, Wf!Init, Wf!Off
<1>2. WfInv /\ WfInv' /\ Accounted /\ [Wf!Next]_(Wf!vars) => Accounted'
  <2> SUFFICES ASSUME WfInv, WfInv', Accounted, [Wf!Next]_(Wf!vars) PROVE Accounted'
    OBVIOUS
  <2>1. UsesTyped' BY UsesKept DEF Accounted
  <2>2. WorkersRan' BY WorkersRanKept DEF Accounted
  <2>3. Righted' BY RightedKept
  <2>4. Orderly' BY OrderlyKept
  <2>5. BatchGoes' BY <2>4, BatchGoesKept
  <2> QED BY <2>1, <2>2, <2>3, <2>4, <2>5 DEF Accounted
<1> QED BY <1>1, <1>2, WorkflowInvariance, PTL DEF Wf!Spec

\* A completed run has lost nothing: in every graph whose branch steps decide what
\* they lead to, and under every interleaving of fibers, requests, retries and crashes,
\* whatever an executed step leads to has been completed as well.
THEOREM NothingLostAlways ==
  WorkflowAssumption /\ Wf!BranchesDecide /\ Wf!Untangled => (Wf!Spec => []Wf!NothingLost)
<1> SUFFICES ASSUME WorkflowAssumption, Wf!BranchesDecide, Wf!Untangled
             PROVE  Wf!Spec => []Wf!NothingLost
  OBVIOUS
<1>1. WfInv /\ Accounted => Wf!NothingLost
  <2> SUFFICES ASSUME WfInv, Accounted, NEW i \in DOMAIN run, run[i].status = "completed",
                      NEW p \in Wf!Step, NEW s \in Wf!Step, Wf!Executed(i, p),
                      Wf!Leads(run[i], p, s), run[i].step[s].st # "completed"
               PROVE  FALSE
    BY DEF Wf!NothingLost
  <2> DEFINE r == run[i]
  <2>1. RunSound(r) /\ Forgone(r) /\ SkippedRightly(i, r, begun)
    BY DEF WfInv, RunsSound, Accounted, Righted, RightOf
  <2>2. \A t \in Wf!Step : r.step[t].st \in {"completed", "skipped"} /\ r.step[t].arm \in Wf!Target
    BY <2>1 DEF RunSound, RunRow, StepRow
  <2>3. r.step[p].st = "completed" /\ r.step[s].st = "skipped" BY <2>2 DEF Wf!Leads
  <2>4. r.step[p].arm \in Choices(p) BY <2>1, <2>3 DEF Forgone
  <2>5. s # Wf!END BY DEF Wf!Step, Wf!END
  <2>6. s \in Wf!Successors(p) BY <2>4, <2>5 DEF Wf!Leads, Wf!Successors, Choices
  <2>7. GivenUp(r, s)
    BY <2>1, <2>3, <2>6 DEF SkippedRightly, Going, Counts, Ran, Wf!Executed
  <2>8. PICK b \in Wf!Step :
          Chose(r, b) /\ s \in Lost(r, b) /\ \A d \in Lost(r, b) : r.step[d].st = "skipped"
    BY <2>7 DEF GivenUp
  <2>9. p \in Wf!Predecessors[s] BY <2>6 DEF Wf!Predecessors
  <2>10. /\ p # b => p \in Lost(r, b)
         /\ s \notin Wf!Descendants[r.step[b].arm]
    BY <2>2, <2>8, <2>9, AbandonedIs DEF Lost
  <2>11. p = b BY <2>3, <2>8, <2>10
  <2>12. s \notin Parallel[p] \cup {Following[p]}
    <3>1. r.step[p].arm \in Wf!Target /\ s \in Wf!Abandoned[p][r.step[p].arm]
      BY <2>2, <2>8, <2>11 DEF Lost
    <3> QED BY <3>1 DEF Wf!BranchesDecide
  <2>13. s = r.step[p].arm BY <2>12 DEF Wf!Leads
  <2> QED BY <2>10, <2>11, <2>13, Reached
<1> QED BY <1>1, WorkflowInvariance, AccountedInvariance, PTL

------------------------------------------------------------------------------
(* What leads to a step that is executed.                                  *)

\* The entry, or a step that some predecessor leads to that settled in its favour.
LedTo(r, s) ==
  s = 1 \/ \E p \in Wf!Predecessors[s] : Wf!Leads(r, p, s) /\ Wf!Satisfies(p, r.step[p])

\* All that a run that goes on has skipped was given up; what is past waiting was led
\* to; and in a run that stops nothing waits.
Taken(r) ==
  /\ r.status \in Going =>
       \A s \in Wf!Step : r.step[s].st = "skipped" => GivenUp(r, s)
  /\ \A s \in Wf!Step : r.step[s].st \notin {"pending", "skipped"} => LedTo(r, s)
  /\ r.status \notin {"pending", "running"} =>
       \A s \in Wf!Step : r.step[s].st # "pending"

RunsTaken == \A i \in DOMAIN run : Taken(run[i])
WorkersLed == \A s \in Wf!Step : worker[s].pc \in Execute => LedTo(Wf!Mine, s)

LEMMA LedToKept ==
  ASSUME NEW r, NEW q, Moves(r, q), NEW s \in Wf!Step, LedTo(r, s)
  PROVE  LedTo(q, s)
<1>1. CASE s = 1 BY <1>1 DEF LedTo
<1>2. ASSUME NEW p \in Wf!Predecessors[s], Wf!Leads(r, p, s), Wf!Satisfies(p, r.step[p])
      PROVE  LedTo(q, s)
  <2>1. p \in Wf!Step BY DEF Wf!Predecessors
  <2>2. q.step[p].st = r.step[p].st /\ q.step[p].arm = r.step[p].arm
    BY <1>2, <2>1 DEF Moves, StaysSettled, Wf!Satisfies
  <2>3. Wf!Leads(q, p, s) /\ Wf!Satisfies(p, q.step[p])
    BY <1>2, <2>2 DEF Wf!Leads, Wf!Satisfies
  <2> QED BY <2>3 DEF LedTo
<1> QED BY <1>1, <1>2 DEF LedTo

\* With a single branch step, what all predecessors allow and nothing gives up is led to.
LEMMA Leading ==
  ASSUME WorkflowAssumption, \A b, c \in Wf!Step : Arms[b] # {} /\ Arms[c] # {} => b = c,
         NEW r, r \in RunRow, Forgone(r), NEW s \in Wf!Step,
         \A t \in Wf!Step : r.step[t].st = "skipped" => GivenUp(r, t),
         \A p \in Wf!Predecessors[s] : Wf!Satisfies(p, r.step[p]),
         \A b \in Wf!Step : Chose(r, b) => s \notin Lost(r, b)
  PROVE  LedTo(r, s)
<1> SUFFICES ASSUME s # 1, \A p \in Wf!Predecessors[s] : ~Wf!Leads(r, p, s)
             PROVE  FALSE
  BY DEF LedTo
<1>1. \A b \in Wf!Step : r.step[b].arm \in Wf!Target BY DEF RunRow, StepRow
\* A predecessor that does not lead there is a branch step with another arm, or skipped.
<1>2. ASSUME NEW p \in Wf!Predecessors[s], r.step[p].st # "skipped"
      PROVE  Chose(r, p) /\ s \in Arms[p] /\ s # r.step[p].arm
  <2>1. p \in Wf!Step /\ s \in Wf!Successors(p) BY DEF Wf!Predecessors
  <2>2. s \in Arms[p] /\ s # r.step[p].arm
    BY <1>2, <2>1 DEF Wf!Leads, Wf!Successors
  <2>3. Policy[p] # "continue" BY <2>1, <2>2 DEF WorkflowAssumption, Wf!GraphAssumption
  <2>4. r.step[p].st = "completed" BY <1>2, <2>3 DEF Wf!Satisfies
  <2> QED BY <2>2, <2>4 DEF Chose
<1>3. ASSUME NEW p \in Wf!Predecessors[s], r.step[p].st = "skipped"
      PROVE  \E b \in Wf!Step : Chose(r, b) /\ p \in Lost(r, b)
  BY <1>3 DEF GivenUp, Wf!Predecessors
<1>4. PICK p0 \in Wf!Predecessors[s] : TRUE
  <2>1. 1 \in Wf!Step /\ s \in Wf!Descendants[1]
    BY EntryIsFirst DEF WorkflowAssumption, Wf!GraphAssumption
  <2> QED BY <2>1, Entered
<1>5. \A p \in Wf!Predecessors[s] : p \in Wf!Step BY DEF Wf!Predecessors
<1>6. PICK b \in Wf!Step : Chose(r, b) /\ (p0 # b => p0 \in Lost(r, b))
  BY <1>2, <1>3, <1>5
<1> DEFINE c == r.step[b].arm
<1>7. c \in Wf!Target /\ c \in Arms[b]
  BY <1>1, <1>6 DEF Forgone, Chose, Choices
<1>8. ASSUME NEW p \in Wf!Predecessors[s], p # b PROVE p \in Lost(r, b)
  BY <1>2, <1>3, <1>5, <1>6, <1>8 DEF Chose
<1>9. s \notin Wf!Descendants[c]
  <2> SUFFICES ASSUME s \in Wf!Descendants[c] PROVE FALSE
    OBVIOUS
  <2>1. c # Wf!END BY EndReached
  <2>2. c \in Wf!Step BY <1>7, <2>1 DEF Wf!Target
  <2>3. c \in Wf!Successors(b) BY <1>7, <2>1 DEF Wf!Successors
  <2>4. b \notin Wf!Descendants[c] BY <2>2, <2>3, SuccessorsAre, NoCycle
  <2>5. CASE s = c
    <3>1. b \in Wf!Predecessors[s] BY <2>3, <2>5, SuccessorsAre
    <3>2. r.step[b].st # "skipped" BY <1>6 DEF Chose
    <3> QED BY <1>2, <2>5, <3>1, <3>2
  <2>6. CASE s # c
    <3> HIDE DEF c
    <3>1. PICK p \in Wf!Predecessors[s] : p \in Wf!Descendants[c] BY <2>2, <2>6, Entered
    <3>2. p \in Lost(r, b) BY <1>8, <2>4, <3>1
    <3>3. p \notin Wf!Descendants[c] BY <1>7, <3>2, AbandonedIs DEF Lost, c
    <3> QED BY <3>1, <3>3
  <2> QED BY <2>5, <2>6
<1>10. \E t \in Arms[b] : t # c /\ t \in Wf!Step /\ s \in Wf!Descendants[t]
  <2>1. CASE p0 = b
    <3>1. r.step[p0].st # "skipped" BY <1>6, <2>1 DEF Chose
    <3>2. s \in Arms[b] /\ s # c BY <1>2, <2>1, <3>1
    <3>3. s \in Wf!Descendants[s] BY Reached
    <3> QED BY <3>2, <3>3
  <2>2. CASE p0 # b
    <3>1. p0 \in Wf!Abandoned[b][c] BY <1>6, <2>2 DEF Lost
    <3> HIDE DEF c
    <3>2. PICK t \in Arms[b] : t # c /\ t \in Wf!Step /\ p0 \in Wf!Descendants[t]
      BY <1>7, <3>1, AbandonedIs
    <3>3. s \in Wf!Successors(p0) BY DEF Wf!Predecessors
    <3>4. s \in Wf!Descendants[t] BY <3>2, <3>3, Reached
    <3> QED BY <3>2, <3>4
  <2> QED BY <2>1, <2>2
<1>11. \A p \in Wf!Predecessors[s] : p # b => p \in Wf!Abandoned[b][c]
  BY <1>8 DEF Lost
<1> HIDE DEF c
<1>12. s \in Wf!Abandoned[b][c] BY <1>7, <1>9, <1>10, <1>11, AbandonedIs
<1> QED BY <1>6, <1>12 DEF Lost, c

LEMMA TakenKept ==
  ASSUME WorkflowAssumption, \A b, c \in Wf!Step : Arms[b] # {} /\ Arms[c] # {} => b = c,
         NEW r, NEW q, RunSound(r), RunSound(q), Moves(r, q), Forgone(r), Forgone(q), Taken(r)
  PROVE  Taken(q)
<1>1. ASSUME q.status \in Going, NEW s \in Wf!Step, q.step[s].st = "skipped"
      PROVE  GivenUp(q, s)
  <2>1. r.status \in Going BY <1>1 DEF Moves, StaysGoing
  <2>2. r.step[s].st = "skipped" => GivenUp(r, s) BY <2>1 DEF Taken
  <2> QED BY <1>1, <2>2, GivenUpKept
<1>2. ASSUME q.status \notin {"pending", "running"}, NEW s \in Wf!Step,
             q.step[s].st = "pending"
      PROVE  FALSE
  BY <1>2 DEF Moves, OpensRetried, Taken, Wf!Unstarted
<1>3. ASSUME NEW s \in Wf!Step, q.step[s].st \notin {"pending", "skipped"}
      PROVE  LedTo(q, s)
  <2>1. CASE r.step[s].st \notin {"pending", "skipped"} BY <2>1, LedToKept DEF Taken
  <2>2. CASE r.step[s].st = "skipped" BY <1>3, <2>2 DEF Moves, StaysSettled
  <2>3. CASE r.step[s].st = "pending"
    <3>1. /\ q.status = r.status /\ \A p \in Wf!Predecessors[s] : Wf!Satisfies(p, q.step[p])
          /\ \A b \in Wf!Step : Chose(q, b) => s \notin Lost(q, b)
      BY <1>3, <2>3 DEF Moves, PromotesRightly
    <3>2. q.status \in Going BY <2>3, <3>1 DEF Taken, Going
    <3> QED BY <1>1, <3>1, <3>2, Leading DEF RunSound
  <2> QED BY <2>1, <2>2, <2>3
<1> QED BY <1>1, <1>2, <1>3 DEF Taken

LEMMA RunsTakenKept ==
  ASSUME WorkflowAssumption, Wf!OneCheck, WfInv, Accounted, Accounted', RunsTaken,
         [Wf!Next]_(Wf!vars)
  PROVE  RunsTaken'
<1> SUFFICES ASSUME NEW i, i \in DOMAIN run' PROVE Taken(run'[i])
  BY DEF RunsTaken
<1>1. RunsEvolve BY NextRuns DEF WfInv
<1>2. CASE i \in DOMAIN run
  <2>1. /\ RunSound(run[i]) /\ RunSound(run'[i]) /\ Moves(run[i], run'[i]) /\ Taken(run[i])
        /\ Forgone(run[i]) /\ Forgone(run'[i])
    BY <1>1, <1>2 DEF WfInv, RunsSound, RunsEvolve, RunsTaken, Accounted, Righted, RightOf
  <2> QED BY <2>1, TakenKept DEF Wf!OneCheck
<1>3. CASE i \notin DOMAIN run
  <2>1. ~Wf!Use("retryRun") BY NotUsed DEF Wf!OneCheck, Accounted, Wf!Events
  <2>2. run'[i].status = "pending" /\ run'[i].step = Wf!FirstRows
    BY <1>1, <1>3, <2>1 DEF RunsEvolve, Born
  <2>3. \A s \in Wf!Step : run'[i].step[s].st = IF s = 1 THEN "ready" ELSE "pending"
    BY <2>2, FirstRowsAre
  <2> QED BY <2>2, <2>3 DEF Taken, LedTo
<1> QED BY <1>2, <1>3

LEMMA WorkersLedKept ==
  ASSUME WorkflowAssumption, WfInv, RunsTaken, WorkersLed, [Wf!Next]_(Wf!vars)
  PROVE  WorkersLed'
<1> SUFFICES ASSUME NEW s \in Wf!Step, worker'[s].pc \in Execute
             PROVE  LedTo(run'[owner'.rid], s)
  BY DEF WorkersLed, Wf!Mine
<1>1. OthersTyped /\ BatchPlaced
  BY DEF WfInv, WfTypes, Placed, OthersTyped, BatchPlaced, OwnerRow, WorkerRow, CancelRow
<1>2. owner'.rid = owner.rid /\ owner.rid \in DOMAIN run /\ LedTo(run[owner.rid], s)
  <2>1. CASE Continues(s)
    BY <2>1 DEF Continues, WorkersLed, Wf!Mine, WfInv, Placed, Executor
  <2>2. CASE Begins(s)
    <3>1. owner.rid \in DOMAIN run /\ owner' = owner BY <2>2 DEF Begins, WfInv, Placed
    <3>2. run[owner.rid].step[s].st = "dispatching"
      BY <2>2 DEF Begins, Wf!Held, Wf!Row, Wf!Mine
    <3> QED BY <3>1, <3>2 DEF RunsTaken, Taken
  <2> QED BY <1>1, <2>1, <2>2, Executes DEF Execute, Executor
<1>3. Moves(run[owner.rid], run'[owner.rid]) BY <1>2, NextRuns DEF WfInv, RunsEvolve
<1> QED BY <1>2, <1>3, LedToKept

\* A step is executed only if it is the entry or some predecessor leads to it, in every
\* graph with a single branch step and without retries of whole runs.
THEOREM TakenArmsOnlyAlways ==
  WorkflowAssumption /\ Wf!OneCheck => (Wf!Spec => []Wf!TakenArmsOnly)
<1> SUFFICES ASSUME WorkflowAssumption, Wf!OneCheck
             PROVE  Wf!Spec => []Wf!TakenArmsOnly
  OBVIOUS
<1>1. Wf!Untangled BY DEF Wf!Untangled, Wf!OneCheck
<1>2. Wf!Spec => []Accounted BY <1>1, AccountedInvariance
<1>3. Wf!Init => RunsTaken /\ WorkersLed
  BY DEF Wf!Init, RunsTaken, WorkersLed, Wf!Idle, Execute
<1>4. /\ WfInv /\ Accounted /\ Accounted' /\ RunsTaken /\ WorkersLed /\ [Wf!Next]_(Wf!vars)
      => RunsTaken' /\ WorkersLed'
  BY RunsTakenKept, WorkersLedKept
<1>5. WorkersLed => Wf!TakenArmsOnly
  BY DEF WorkersLed, LedTo, Execute, Wf!TakenArmsOnly
<1> QED BY <1>2, <1>3, <1>4, <1>5, WorkflowInvariance, PTL DEF Wf!Spec

\* A run is called what its steps came to, in every graph and under every interleaving of
\* fibers, requests and crashes: nothing is executed too early and nothing left in flight,
\* and in the graphs of the two theorems above nothing is lost or taken wrongly.
THEOREM RunsAreHonestAlways == WorkflowAssumption => (Wf!Spec => []Wf!RunsAreHonest)
<1> SUFFICES ASSUME WorkflowAssumption PROVE Wf!Spec => []Wf!RunsAreHonest
  OBVIOUS
<1> DEFINE Sure == /\ Wf!TypeOK /\ Wf!NoOrphanStep /\ Wf!HonestOutcome
                   /\ Wf!EventsMatchRevision /\ Wf!DependenciesFirst
<1>1. Wf!Spec => []Sure
  BY WorkflowTypeCorrect, NoOrphanStepAlways, HonestOutcomeAlways,
     EventsMatchRevisionAlways, DependenciesFirstAlways, PTL
<1>2. Wf!Spec => [](Wf!BranchesDecide /\ Wf!Untangled => Wf!NothingLost)
  <2>1. CASE Wf!BranchesDecide /\ Wf!Untangled
    <3>1. Wf!NothingLost => (Wf!BranchesDecide /\ Wf!Untangled => Wf!NothingLost) OBVIOUS
    <3> QED BY <2>1, <3>1, NothingLostAlways, PTL
  <2>2. CASE ~(Wf!BranchesDecide /\ Wf!Untangled)
    <3>1. Wf!BranchesDecide /\ Wf!Untangled => Wf!NothingLost BY <2>2
    <3> QED BY <3>1, PTL
  <2> QED BY <2>1, <2>2
<1>3. Wf!Spec => [](Wf!OneCheck => Wf!TakenArmsOnly)
  <2>1. CASE Wf!OneCheck
    <3>1. Wf!TakenArmsOnly => (Wf!OneCheck => Wf!TakenArmsOnly) OBVIOUS
    <3> QED BY <2>1, <3>1, TakenArmsOnlyAlways, PTL
  <2>2. CASE ~Wf!OneCheck
    <3>1. Wf!OneCheck => Wf!TakenArmsOnly BY <2>2
    <3> QED BY <3>1, PTL
  <2> QED BY <2>1, <2>2
<1>4. /\ Sure /\ (Wf!BranchesDecide /\ Wf!Untangled => Wf!NothingLost)
      /\ (Wf!OneCheck => Wf!TakenArmsOnly)
      => Wf!RunsAreHonest
  BY DEF Wf!RunsAreHonest
<1> HIDE DEF Sure
<1> QED BY <1>1, <1>2, <1>3, <1>4, PTL

------------------------------------------------------------------------------
(* What the run checks of both schedulers.                                 *)

\* What is scheduled happens once.  For any rows, schedules, dependencies, edits,
\* deaths and crashes, no job is left in progress once the daemon is past its startup,
\* unless its trigger or its recovery has died; for any reminders, clocks, updates and
\* faults, each is delivered exactly once, and given up only after the limit.
THEOREM HappensOnceAlways ==
  /\ JobAssumption => (Spec => []HappensOnce)
  /\ Rem!ReminderAssumption => (Rem!Spec => []Rem!HappensOnce)
  <1>1. ASSUME JobAssumption PROVE Spec => []HappensOnce
    <2>1. TypeOK /\ NoOrphan => HappensOnce
      BY DEF HappensOnce
    <2> QED
      BY <1>1, <2>1, JobTypeCorrect, NoOrphanAlways, PTL
  <1>2. ASSUME Rem!ReminderAssumption PROVE Rem!Spec => []Rem!HappensOnce
    <2>1. Rem!TypeOK /\ Rem!ExactlyOnce /\ Rem!GivesUpLate => Rem!HappensOnce
      BY DEF Rem!HappensOnce
    <2> QED
      BY <1>2, <2>1, RemTypeCorrect, ExactlyOnceAlways, GivesUpLateAlways, PTL
  <1> QED
    BY <1>1, <1>2

=============================================================================
