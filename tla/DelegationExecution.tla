-------------------------- MODULE DelegationExecution --------------------------
(***************************************************************************)
(* How the turns of a delegation come to run (delegation/execution.ts,     *)
(* tool/task.ts, tool/task-driver.ts): one participant, whose child        *)
(* Session does the work, in the background.  The task tool appends a turn *)
(* and dispatches it.  The drain, one at a time and woken again whenever   *)
(* something settles, takes what it finds undone in the ledger, as it read *)
(* it when it began.  Both run a turn as a background job whose id is the  *)
(* child Session's, so that one job runs at a time; a job that is started  *)
(* while another one runs is dropped.  A process that restarts marks what  *)
(* was running as of unknown outcome, if its recovery is switched on       *)
(* (recovery.ts:67; off unless the environment says otherwise), and        *)
(* resumes when it is told to.  Persistent delegations themselves are on,  *)
(* in every process.                                                       *)
(*                                                                         *)
(* The job is that of BackgroundJob, the drain's coordinator that of       *)
(* RunCoordinator, each without its inner steps.  A run is by the drain,   *)
(* by a dispatch, or by a dispatch linked to a task of the parent's list:  *)
(* only the settlement of the task wakes the drain.  Interrupts, external  *)
(* participants and the foreground path are left out.                      *)
(***************************************************************************)
EXTENDS DelegationFold

CONSTANTS Outcome,     \* what work may come to: \subseteq {"completed", "failed"}
          MaxCrashes   \* bound: restarts of the process

ExecutionAssumption ==
  /\ Cardinality(Implementer) = 1 /\ Reviewer = {}
  /\ Outcome \subseteq {"completed", "failed"} /\ MaxCrashes \in Nat

Build == CHOOSE p \in Implementer : TRUE

VARIABLES d,       \* the folded ledger, durable
          inbox,   \* prompts in the child Session, durable: <<turn, attempt, by>>
          tool,    \* the task tool: where its call is
          drain,   \* the drain: where it is, what it read, what it has yet to do
          woken,   \* the coordinator has a wake for the drain
          watch,   \* a fiber waits for the job to end, to wake the drain
          job,     \* the job: its run, and the turns that queue behind it
          boot,    \* turns whose deliveries the scan has yet to mark
          crashes, \* history: number of restarts
          lost     \* history: <<turn, attempt, status, scans>>, runs a crash cut off,
                   \* and whether the process that came next has scanned

volatile == <<tool, drain, woken, watch, job>>
vars == <<d, inbox, tool, drain, woken, watch, job, boot, crashes, lost>>

NoTool  == [at |-> "idle", queue |-> FALSE, turn |-> 0, by |-> "nobody"]
NoDrain == [at |-> "idle", snap |-> Created, todo |-> <<>>]
NoRun   == [at |-> "none", turn |-> 0, attempt |-> 0, by |-> "nobody", out |-> "none"]
NoJob   == [run |-> NoRun, rest |-> <<>>]

Init ==
  /\ d = [Created EXCEPT !.phase[Build] = "provisioning"]
  /\ inbox = {}
  /\ tool = NoTool /\ drain = NoDrain /\ woken = FALSE /\ watch = FALSE /\ job = NoJob
  /\ boot = {} /\ crashes = 0 /\ lost = {}

isRunning == job.run.at # "none"

Delivery(t) == d.del[t][Build]

Event(type, t, a) == [type |-> type, turn |-> t, who |-> Build, attempt |-> a]

Up == boot = {}

------------------------------------------------------------------------------
(* Jobs. *)

RunOf(t, a, by, at) == [at |-> at, turn |-> t, attempt |-> a, by |-> by, out |-> "none"]

\* BackgroundJob.start
StartJob(run) == job' = IF isRunning THEN job ELSE [run |-> run, rest |-> <<>>]

\* The run of a dispatch puts the prompt itself.
RunPrompt ==
  /\ job.run.at = "prompt"
  /\ inbox' = inbox \cup {<<job.run.turn, job.run.attempt, job.run.by>>}
  /\ job' = [job EXCEPT !.run.at = "start"]
  /\ UNCHANGED <<d, tool, drain, woken, watch, boot, crashes, lost>>

\* Refused when the delivery is settled by now; so is the failure that follows.
RunStarted ==
  LET e == Event("DeliveryStarted", job.run.turn, job.run.attempt) IN
  /\ job.run.at = "start"
  /\ IF Accepts(d, e)
     THEN d' = foldDelegation(d, e) /\ job' = [job EXCEPT !.run.at = "work"]
     ELSE UNCHANGED d /\ job' = [job EXCEPT !.run.at = "end", !.run.out = "failed"]
  /\ UNCHANGED <<inbox, tool, drain, woken, watch, boot, crashes, lost>>

RunWork ==
  /\ job.run.at = "work"
  /\ \E out \in Outcome : job' = [job EXCEPT !.run.at = "tell", !.run.out = out]
  /\ UNCHANGED <<d, inbox, tool, drain, woken, watch, boot, crashes, lost>>

\* A refused outcome is a defect: the job fails, and the drain is not woken; nor
\* is it by a dispatch that no task is linked to.
RunTell ==
  LET e == Event(IF job.run.out = "completed" THEN "DeliveryCompleted" ELSE "DeliveryFailed",
                 job.run.turn, job.run.attempt)
  IN
  /\ job.run.at = "tell"
  /\ IF Accepts(d, e)
     THEN /\ d' = foldDelegation(d, e) /\ woken' = (woken \/ job.run.by # "dispatch")
          /\ job' = [job EXCEPT !.run.at = "end"]
     ELSE UNCHANGED <<d, woken>> /\ job' = [job EXCEPT !.run.at = "end", !.run.out = "refused"]
  /\ UNCHANGED <<inbox, tool, drain, watch, boot, crashes, lost>>

\* The next run of the queue; a dispatched run that failed fails its job, and so
\* does a refused outcome: what queued behind it never begins.  A run of the
\* drain whose outcome is taken succeeds either way.
RunEnd ==
  LET failed == \/ job.run.out = "failed" /\ job.run.by # "drain"
                \/ job.run.out = "refused"
  IN
  /\ job.run.at = "end"
  /\ job' = IF job.rest = <<>> \/ failed THEN NoJob
            ELSE [run |-> Head(job.rest), rest |-> Tail(job.rest)]
  /\ UNCHANGED <<d, inbox, tool, drain, woken, watch, boot, crashes, lost>>

\* wakeAfterJob: the job the fiber waits for has ended.
WatchEnds ==
  /\ watch /\ ~isRunning
  /\ watch' = FALSE /\ woken' = TRUE
  /\ UNCHANGED <<d, inbox, tool, drain, job, boot, crashes, lost>>

------------------------------------------------------------------------------
(* The task tool, and what callers of the service may do. *)

\* Whether to queue behind the running job is decided before the turn exists.
ToolChecks ==
  /\ Up /\ tool.at = "idle" /\ Len(d.turn) < MaxTurns
  /\ \E by \in {"dispatch", "task"} :
       tool' = [NoTool EXCEPT !.at = "append", !.queue = isRunning, !.by = by]
  /\ UNCHANGED <<d, inbox, drain, woken, watch, job, boot, crashes, lost>>

ToolAppends ==
  LET e == [type |-> "TurnAdmitted", who |-> {Build}, queue |-> tool.queue] IN
  /\ tool.at = "append"
  /\ IF Accepts(d, e)
     THEN /\ d' = foldDelegation(d, e)
          /\ tool' = [tool EXCEPT !.at = "dispatch", !.turn = Len(d'.turn)]
     ELSE UNCHANGED d /\ tool' = NoTool
  /\ UNCHANGED <<inbox, drain, woken, watch, job, boot, crashes, lost>>

\* extendBackground, or delegateBackground when there is nothing to extend.
dispatch ==
  LET run == RunOf(tool.turn, 1, tool.by, "prompt") IN
  /\ tool.at = "dispatch"
  /\ IF isRunning /\ tool.queue THEN job' = [job EXCEPT !.rest = Append(@, run)]
                               ELSE StartJob(run)
  /\ tool' = NoTool
  /\ UNCHANGED <<d, inbox, drain, woken, watch, boot, crashes, lost>>

\* HTTP: steer, and what ends with a wake.
Steer ==
  /\ Up /\ ~woken /\ d.turn # <<>>
  /\ woken' = TRUE
  /\ UNCHANGED <<d, inbox, tool, drain, watch, job, boot, crashes, lost>>

retry(t) ==
  LET e == [type |-> "DeliveryAdmitted", turn |-> t, who |-> Build,
            attempt |-> Delivery(t).attempt + 1,
            status |-> IF d.turn[t].queue THEN "queued" ELSE "admitted"]
  IN
  /\ Up /\ Delivery(t).status \in Retryable /\ Delivery(t).attempt < MaxAttempts
  /\ Accepts(d, e) /\ d' = foldDelegation(d, e)
  /\ woken' = TRUE
  /\ UNCHANGED <<inbox, tool, drain, watch, job, boot, crashes, lost>>

------------------------------------------------------------------------------
(* The drain. *)

Drain(at, todo) == [drain EXCEPT !.at = at, !.todo = todo]
Skip == Drain("next", Tail(drain.todo))

DrainBegins ==
  /\ woken /\ drain.at = "idle"
  /\ woken' = FALSE
  /\ drain' = IF d.status \in Ended THEN NoDrain
              ELSE [at |-> "next", snap |-> d, todo |-> [t \in DOMAIN d.turn |-> t]]
  /\ UNCHANGED <<d, inbox, tool, watch, job, boot, crashes, lost>>

\* What the drain read of the turn it is at.
Seen(t) == drain.snap.del[t][Build]

Undone(t) ==
  /\ drain.snap.turn[t].status \notin {"completed", "cancelled", "recovery_required"}
  /\ drain.snap.phase[Build] \notin {"closed", "failed"}
  /\ Seen(t).status \in Open

DrainEnds ==
  /\ drain.at = "next" /\ drain.todo = <<>>
  /\ drain' = NoDrain
  /\ UNCHANGED <<d, inbox, tool, woken, watch, job, boot, crashes, lost>>

DrainSkips ==
  /\ drain.at = "next" /\ drain.todo # <<>> /\ ~Undone(Head(drain.todo))
  /\ drain' = Skip
  /\ UNCHANGED <<d, inbox, tool, woken, watch, job, boot, crashes, lost>>

\* The job may be running by itself: an admitted turn steers it, the others
\* wait for its end.  Otherwise the turn is started and runs in a new job.
DrainLooks ==
  LET seen == Seen(Head(drain.todo)).status IN
  /\ drain.at = "next" /\ drain.todo # <<>> /\ Undone(Head(drain.todo))
  /\ drain' = [drain EXCEPT !.at =
       IF isRunning THEN IF seen = "admitted" THEN "steer" ELSE "watch"
       ELSE IF seen = "running" THEN "job" ELSE "started"]
  /\ UNCHANGED <<d, inbox, tool, woken, watch, job, boot, crashes, lost>>

\* A refused event is a defect and ends the drain.
DrainStarts ==
  LET t == Head(drain.todo)
      e == Event("DeliveryStarted", t, Seen(t).attempt)
  IN
  /\ drain.at \in {"started", "steered"}
  /\ IF Accepts(d, e)
     THEN /\ d' = foldDelegation(d, e)
          /\ drain' = [drain EXCEPT !.at = IF @ = "started" THEN "prompt" ELSE "watch"]
     ELSE UNCHANGED d /\ drain' = NoDrain
  /\ UNCHANGED <<inbox, tool, woken, watch, job, boot, crashes, lost>>

DrainPrompts ==
  LET t == Head(drain.todo) IN
  /\ drain.at \in {"prompt", "steer"}
  /\ inbox' = inbox \cup {<<t, Seen(t).attempt, "drain">>}
  /\ drain' = [drain EXCEPT !.at = IF @ = "prompt" THEN "job" ELSE "steered"]
  /\ UNCHANGED <<d, tool, woken, watch, job, boot, crashes, lost>>

DrainRuns ==
  LET t == Head(drain.todo) IN
  /\ drain.at = "job"
  /\ StartJob(RunOf(t, Seen(t).attempt, "drain", "work"))
  /\ drain' = Skip
  /\ UNCHANGED <<d, inbox, tool, woken, watch, boot, crashes, lost>>

DrainWatches ==
  /\ drain.at = "watch"
  /\ watch' = TRUE
  /\ drain' = Skip
  /\ UNCHANGED <<d, inbox, tool, woken, job, boot, crashes, lost>>

------------------------------------------------------------------------------
(* Restart. *)

Working == isRunning /\ job.run.at \in {"work", "tell"}

ScannedStatus == {"running", "waiting_review", "changes_requested", "failed",
                  "recovery_required"}

\* What a scan of the next process will mark.
Recover ==
  IF d.status \in ScannedStatus
  THEN {t \in DOMAIN d.turn : Delivery(t).status = "running"}
  ELSE {}

\* A run a crash cut off; a scan that a crash cut off, and the next process does
\* not take up, has not come to the turns it left.
Left(l, left) == <<l[1], l[2], l[3], l[4] /\ l[1] \notin left>>

\* The process ends; the next one scans, or its recovery is switched off.
Crash ==
  /\ crashes < MaxCrashes
  /\ crashes' = crashes + 1
  /\ tool' = NoTool /\ drain' = NoDrain /\ woken' = FALSE /\ watch' = FALSE /\ job' = NoJob
  /\ \E scans \in BOOLEAN :
       /\ boot' = IF scans THEN Recover ELSE {}
       /\ lost' = {Left(l, IF scans THEN {} ELSE boot) : l \in lost} \cup
                  IF Working THEN {<<job.run.turn, job.run.attempt, d.status, scans>>} ELSE {}
  /\ UNCHANGED <<d, inbox>>

\* One turn after the other.
ScanMarks ==
  /\ \E t \in boot :
       LET e == Event("DeliveryRecoveryRequired", t, Delivery(t).attempt) IN
       /\ \A u \in boot : t <= u
       /\ Accepts(d, e) /\ d' = foldDelegation(d, e)
       /\ boot' = boot \ {t}
  /\ UNCHANGED <<inbox, tool, drain, woken, watch, job, crashes, lost>>

------------------------------------------------------------------------------
JobSteps   == RunPrompt \/ RunStarted \/ RunWork \/ RunTell \/ RunEnd
ToolSteps  == ToolAppends \/ dispatch
DrainSteps == \/ DrainBegins \/ DrainEnds \/ DrainSkips \/ DrainLooks
              \/ DrainStarts \/ DrainPrompts \/ DrainRuns \/ DrainWatches

Step == JobSteps \/ WatchEnds \/ ToolSteps \/ DrainSteps \/ ScanMarks

Next ==
  \/ Step
  \/ ToolChecks
  \/ Steer
  \/ \E t \in DOMAIN d.turn : retry(t)
  \/ Crash

Spec == Init /\ [][Next]_vars

\* Fibers that can go on do: the job's, the watcher's, the tool's, the drain's.
FairSpec ==
  /\ Spec
  /\ WF_vars(JobSteps)
  /\ WF_vars(WatchEnds)
  /\ WF_vars(ToolSteps)
  /\ WF_vars(DrainSteps)
  /\ WF_vars(ScanMarks)

------------------------------------------------------------------------------
(* Properties. *)

At == {"idle", "next", "steer", "steered", "started", "prompt", "job", "watch"}

\* The state is well formed; the drain has read a ledger and is at a turn of it.
TypeOK ==
  /\ IsFoldState(d) /\ IsFoldState(drain.snap)
  /\ drain.at \in At
  /\ drain.at \notin {"idle", "next"} => drain.todo # <<>>
  /\ \A i \in DOMAIN drain.todo : drain.todo[i] \in DOMAIN drain.snap.turn
  /\ isRunning => job.run.turn \in DOMAIN d.turn
  /\ {watch, woken} \subseteq BOOLEAN

\* A dispatched run that works is the run of its delivery's current attempt, and
\* the delivery says so: nothing admits it anew, retries it or gives it up.
DispatchIsRecorded ==
  Working /\ job.run.by # "drain" =>
    Delivery(job.run.turn) = [attempt |-> job.run.attempt, status |-> "running"]

\* "A completed delivery is not run again in place": no run of its attempt begins.
NoRerun ==
  [][Working' /\ ~Working => Delivery(job'.run.turn).status # "completed"]_vars

\* No work of unknown outcome is repeated after a scan: a run that a crash cut off
\* is not run again, unless the next process did not scan or the delegation was
\* approved, which the scan leaves out.  (recovery.ts:56, 67)
RestartIsKnown ==
  Working => \A l \in lost :
    l[4] /\ l[3] # "approved" => <<l[1], l[2]>> # <<job.run.turn, job.run.attempt>>

\* A dispatched run is the one its delivery records, and what a crash cut off and
\* the next process's scan has marked is not run again.
CompletionIsTrue == TypeOK /\ DispatchIsRecorded /\ RestartIsKnown

\* No run that a crash cut off is run again, whatever the next process does.
\* (ADR-22, G9: a restart does not silently rerun unknown side effects.)
NoSilentRerun ==
  Working => \A l \in lost : <<l[1], l[2]>> # <<job.run.turn, job.run.attempt>>

\* "Persistent delegation execution has one owner": the prompt of an attempt is
\* put into the child Session once.
OneOwner ==
  \A x, y \in inbox : <<x[1], x[2]>> = <<y[1], y[2]>> => x = y

\* The turn is done in the end, when work succeeds and the process lives: whether
\* the dispatch or the drain is first, one of them runs it, and is not taken by
\* the other for having run it.
TurnSettles ==
  d.turn # <<>> ~> d.turn # <<>> /\ Delivery(1).status \in Settled

\* "retry advances the attempt and reuses the turn": a retried delivery is run.
RetryRuns ==
  \A t \in Turn :
    Delivery(t).attempt = 2 /\ Delivery(t).status = "admitted" ~> Delivery(t).status # "admitted"
==============================================================================
