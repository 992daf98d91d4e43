----------------------------- MODULE WorkflowRun -----------------------------
(***************************************************************************)
(* Workflow runs: the durable rows and their transactions                  *)
(* (workflow/workflow-run.ts), the runner that owns a Session's runs       *)
(* (workflow/workflow-runner.ts), its owner fiber                          *)
(* (workflow/workflow-execution.ts) and the HTTP operations on a run       *)
(* (handlers/session.ts), for one Session and one Workflow snapshot.       *)
(*                                                                         *)
(* A step of this module is one database transaction, or the work of one   *)
(* fiber between two of them.  A row carries the revision its writers      *)
(* compare and set; a writer that reads a row first keeps the revision it  *)
(* read.  Of the attempts of a step only the latest is kept: an older one  *)
(* is "failed" and nothing reads it.                                       *)
(***************************************************************************)
EXTENDS WorkflowGraph, Sequences

CONSTANTS Request,   \* request ids a client may submit with
          NoRequest, \* a submission without one
          MaxRuns,   \* bound on runs
          Limit      \* [Events -> how often each may happen]

Events == {"submit", "cancelRun", "cancelStep", "retryRun", "flagOff", "crash", "taskDies"}

RunAssumption ==
  /\ NoRequest \notin Request
  /\ MaxRuns \in Nat
  /\ Limit \in [Events -> Nat]

VARIABLES run,       \* the rows of workflow_run and workflow_step_run, by creation
          owner,     \* the Session's owner fiber, inside WorkflowRunner.run
          pending,   \* the owner's coalesced wake
          worker,    \* [Step -> the fiber of the current batch that drives it]
          canceller, \* an HTTP request that cancels a run
          owed,      \* HTTP requests that have committed and not yet called wake
          begun,     \* history: the attempts whose executor was started
          used       \* how often each event has happened

vars == <<run, owner, pending, worker, canceller, owed, begun, used>>

------------------------------------------------------------------------------
TerminalStatuses == {"completed", "partial_success", "failed", "cancelled",
                     "recovery_required"}
RunStatuses == {"pending", "running", "cancelling"} \union TerminalStatuses
StepStatuses == {"pending", "ready", "dispatching", "running", "cancelling", "completed",
                 "failed", "cancelled", "skipped", "execution_unknown"}

Unstarted == {"pending", "ready"}
InFlight == {"dispatching", "running", "cancelling"}

\* `seq` counts the run's durable workflow.run.updated events; `told` says that
\* a <workflow_result> was injected into the root Session; `by` is who created it.
RunType(r) ==
  /\ r.status \in RunStatuses /\ r.rev \in Nat /\ r.seq \in Nat /\ r.told \in BOOLEAN
  /\ r.by \in {"submit", "owner", "retry"} /\ r.req \in Request \union {NoRequest}
  /\ r.step \in [Step -> [st : StepStatuses, att : Nat, rev : Nat, arm : Target]]

Fresh(st, att) == [st |-> st, att |-> att, rev |-> 1, arm |-> END]

NewRun(by, req, rows) ==
  [status |-> "pending", rev |-> 1, seq |-> 1, told |-> FALSE, by |-> by, req |-> req,
   step |-> rows]

FirstRows == [s \in Step |-> Fresh(IF s = 1 THEN "ready" ELSE "pending", 1)]

Off == [pc |-> "off", rid |-> 0, rev |-> 0, why |-> "none", stop |-> FALSE]
Idle == [pc |-> "off", rev |-> 0, seen |-> 0]
NoCancel == [pc |-> "idle", rid |-> 0, rev |-> 0]

Active == {i \in DOMAIN run : run[i].status \notin TerminalStatuses}

Init ==
  /\ run = <<>> /\ owner = Off /\ pending = FALSE
  /\ worker = [s \in Step |-> Idle]
  /\ canceller = NoCancel /\ owed = 0 /\ begun = {}
  /\ used = [e \in Events |-> 0]

Use(e) == used[e] < Limit[e] /\ used' = [used EXCEPT ![e] = @ + 1]

------------------------------------------------------------------------------
(* Changes of rows.                                                        *)

\* Set the status of every step whose status is in `from`.
Mark(rows, from, to) ==
  [s \in Step |-> IF rows[s].st \in from THEN [rows[s] EXCEPT !.st = to, !.rev = @ + 1]
                                         ELSE rows[s]]

\* A run that moves to `status` without an event.
Move(r, status, rows) == [r EXCEPT !.status = status, !.rev = @ + 1, !.step = rows]

Failed(r) == Move(r, "failed",
  Mark(Mark(r.step, InFlight, "cancelled"), Unstarted, "skipped"))

Cancelling(r) == Move(r, "cancelling",
  Mark(Mark(r.step, {"running", "dispatching"}, "cancelling"), Unstarted, "skipped"))

Cancelled(r) == Move(r, "cancelled", Mark(r.step, {"cancelling"}, "cancelled"))

\* cancelRun at the current revision; a run already on its way out is left alone.
CancelRow(r) ==
  IF r.status \in TerminalStatuses \union {"cancelling"} THEN r ELSE Cancelling(r)

\* Mutant: an orphaned execution is put back and run again.
RecoveredByReplay(r) ==
  [r EXCEPT !.step = Mark(r.step, {"dispatching", "running"}, "ready")]

\* recoverRunning: what was only dispatched can be dispatched again; once the
\* provider may have been called, the run stops and nothing is replayed.
Recovered(r) ==
  IF \E s \in Step : r.step[s].st = "running"
  THEN Move(r, "recovery_required",
         Mark(Mark(r.step, {"running"}, "execution_unknown"),
              Unstarted \union {"dispatching", "cancelling"}, "skipped"))
  ELSE [r EXCEPT !.step = Mark(r.step, {"dispatching"}, "ready")]

\* A write that publishes workflow.run.updated: the parent must still be at the
\* revision read, and the event's sequence must agree with the new revision.
Publishable(r, seen) == r.rev = seen /\ r.seq = seen
Published(r) == [r EXCEPT !.rev = @ + 1, !.seq = @ + 1]

Tell(r) == [r EXCEPT !.told = r.status \notin {"pending", "running", "cancelled"} \/ @]

------------------------------------------------------------------------------
(* The owner fiber and its coalesced wake (RunCoordinator has the whole    *)
(* coordinator).                                                           *)

\* wake(sessionID)
Wake ==
  IF owner.pc = "off"
  THEN owner' = [Off EXCEPT !.pc = "admit"] /\ UNCHANGED pending
  ELSE pending' = TRUE /\ UNCHANGED owner

\* Mutant: a request that waits for the owner is not told that it has ended.
LeaveSilently ==
  /\ owner' = IF pending THEN [Off EXCEPT !.pc = "admit"] ELSE Off
  /\ pending' = FALSE
  /\ UNCHANGED canceller

\* The drain is over, with whatever Exit: a coalesced wake begins another, and a
\* request that interrupted this one goes on.
Leave ==
  /\ owner' = IF pending THEN [Off EXCEPT !.pc = "admit"] ELSE Off
  /\ pending' = FALSE
  /\ canceller' = IF canceller.pc = "waiting" THEN [canceller EXCEPT !.pc = "finalize"]
                                              ELSE canceller

\* WorkflowRunner.run begins with admit(sessionID), without a request id: the
\* Session's active run if it has one, and a new run if it has none.
OwnerAdmit ==
  /\ owner.pc = "admit"
  /\ \/ \E i \in Active :
          /\ owner' = [owner EXCEPT !.pc = "loop", !.rid = i]
          /\ UNCHANGED run
     \/ /\ Active = {} /\ Len(run) < MaxRuns
        /\ run' = Append(run, NewRun("owner", NoRequest, FirstRows))
        /\ owner' = [owner EXCEPT !.pc = "loop", !.rid = Len(run) + 1]
  /\ UNCHANGED <<pending, worker, canceller, owed, begun, used>>

Mine == run[owner.rid]
Save(r) == run' = [run EXCEPT ![owner.rid] = r]

\* The head of the loop: a terminal run is handed to the root Session; with the
\* kill switch off the run is cancelled; otherwise the frontier is next.
LoopRead ==
  /\ owner.pc = "loop"
  /\ \/ /\ Mine.status \in TerminalStatuses
        /\ Save(Tell(Mine)) /\ Leave /\ UNCHANGED used
     \/ /\ Mine.status \notin TerminalStatuses
        /\ owner' = [owner EXCEPT !.pc = "frontier", !.rev = Mine.rev]
        /\ UNCHANGED <<run, pending, canceller, used>>
     \/ /\ Mine.status \notin TerminalStatuses
        /\ Use("flagOff")
        /\ owner' = [owner EXCEPT !.pc = "cancel", !.rev = Mine.rev]
        /\ UNCHANGED <<run, pending, canceller>>
  /\ UNCHANGED <<worker, owed, begun>>

\* Mutant: the arms that were not taken are left in the frontier.
SkipsNothing(rows) == rows

\* findReadySteps, first half: steps that only arms not taken lead to.
Skipped(rows) ==
  LET branched == {b \in Step : Arms[b] # {} /\ rows[b].st = "completed"}
      given == UNION {Abandoned[b][rows[b].arm] : b \in branched}
  IN [s \in Step |-> IF s \in given /\ rows[s].st \in Unstarted
                     THEN [rows[s] EXCEPT !.st = "skipped", !.rev = @ + 1] ELSE rows[s]]

\* A predecessor in this state does not hold a step back.
Satisfies(p, row) ==
  \/ row.st \in {"completed", "skipped"}
  \/ row.st = "failed" /\ Policy[p] = "continue"

\* findReadySteps, second half: pending steps whose predecessors all allow it.
Promoted(rows) ==
  [s \in Step |->
     IF rows[s].st = "pending" /\ \A p \in Predecessors[s] : Satisfies(p, rows[p])
     THEN [rows[s] EXCEPT !.st = "ready", !.rev = @ + 1] ELSE rows[s]]

\* findReadySteps, and the batch it starts.  The batch runs what was found, at
\* the revision it was found at.
Frontier ==
  /\ owner.pc = "frontier"
  /\ LET rows == Promoted(Skipped(Mine.step))
         ready == {s \in Step : rows[s].st = "ready"}
     IN /\ Save([Mine EXCEPT !.step = rows])
        /\ worker' = [s \in Step |->
             IF s \in ready THEN [Idle EXCEPT !.pc = "queued", !.rev = rows[s].rev] ELSE Idle]
        /\ owner' = [owner EXCEPT !.pc = IF ready = {} THEN "empty" ELSE "batch"]
  /\ UNCHANGED <<pending, canceller, owed, begun, used>>

------------------------------------------------------------------------------
(* An empty frontier: the first case that applies decides.  A transaction  *)
(* that expects the revision read at the head of the loop and misses it    *)
(* ends the drain with an error.                                           *)

Some(st) == \E s \in Step : Mine.step[s].st = st
Current == Mine.rev = owner.rev
Failures == {s \in Step : Mine.step[s].st = "failed"}
Tolerated == \A s \in Failures : Policy[s] = "continue"

Empty == owner.pc = "empty" /\ UNCHANGED <<worker, owed, begun, used>>

\* Recovery of dispatched steps, then another round.  A run that has meanwhile
\* become terminal is left alone before its revision is compared.
EmptyDispatching ==
  /\ Empty /\ Some("dispatching")
  /\ IF Current \/ Mine.status \in TerminalStatuses
     THEN /\ Save(IF Mine.status \in TerminalStatuses THEN Mine ELSE Recovered(Mine))
          /\ owner' = [owner EXCEPT !.pc = "loop"] /\ UNCHANGED <<pending, canceller>>
     ELSE Leave /\ UNCHANGED run

EmptyRunning ==
  /\ Empty /\ ~Some("dispatching") /\ Some("running")
  /\ owner' = [owner EXCEPT !.pc = "recover"]
  /\ UNCHANGED <<run, pending, canceller>>

\* recoverRunning expects no revision here: it acts on the rows as they are by
\* now, and the run is then handed to the root Session if it is over.
RecoverRunning ==
  /\ owner.pc = "recover"
  /\ Save(Tell(IF Mine.status \in TerminalStatuses THEN Mine ELSE Recovered(Mine)))
  /\ Leave /\ UNCHANGED <<worker, owed, begun, used>>

\* completeRun(partial) refuses a run that still has open steps.
Refused == \E s \in Step : Mine.step[s].st \in Unstarted \union InFlight
                                                \union {"execution_unknown"}

EmptyFailed ==
  /\ Empty /\ ~Some("dispatching") /\ ~Some("running") /\ Some("failed")
  /\ LET next == IF Mine.status \in TerminalStatuses THEN Mine
                 ELSE IF Tolerated THEN Move(Mine, "partial_success", Mine.step)
                 ELSE Failed(Mine)
     IN IF ~Current \/ (Tolerated /\ Mine.status \notin TerminalStatuses /\ Refused)
        THEN UNCHANGED run
        ELSE Save(IF Tolerated THEN Tell(next) ELSE next)
  /\ Leave

\* cancelRun and then finalizeCancelRun.
EmptyCancelled ==
  /\ Empty /\ ~Some("dispatching") /\ ~Some("running") /\ ~Some("failed")
  /\ Some("cancelled")
  /\ owner' = [owner EXCEPT !.pc = "cancel"]
  /\ UNCHANGED <<run, pending, canceller>>

EmptyCancelling ==
  /\ Empty /\ ~Some("dispatching") /\ ~Some("running") /\ ~Some("failed")
  /\ ~Some("cancelled") /\ (Mine.status = "cancelling" \/ Some("cancelling"))
  /\ owner' = [owner EXCEPT !.pc = "finalize"]
  /\ UNCHANGED <<run, pending, canceller>>

Settled ==
  /\ ~Some("dispatching") /\ ~Some("running") /\ ~Some("failed") /\ ~Some("cancelled")
  /\ ~(Mine.status = "cancelling" \/ Some("cancelling"))

EmptyBlocked ==
  /\ Empty /\ Settled /\ (Some("pending") \/ Some("ready"))
  /\ IF Current /\ Mine.status \notin TerminalStatuses THEN Save(Failed(Mine)) ELSE UNCHANGED run
  /\ Leave

EmptyCompletes ==
  /\ Empty /\ Settled /\ ~Some("pending") /\ ~Some("ready")
  /\ IF Current /\ Mine.status \notin TerminalStatuses /\ ~Refused
     THEN Save(Move(Mine, "completed", Mine.step)) ELSE UNCHANGED run
  /\ Leave

\* cancelRun by the owner, for the kill switch or for a cancelled step.
OwnerCancels ==
  /\ owner.pc = "cancel"
  /\ IF Current THEN /\ Save(CancelRow(Mine))
                     /\ owner' = [owner EXCEPT !.pc = "finalize", !.rev = CancelRow(Mine).rev]
                     /\ UNCHANGED <<pending, canceller>>
     ELSE Leave /\ UNCHANGED run
  /\ UNCHANGED <<worker, owed, begun, used>>

OwnerFinalizes ==
  /\ owner.pc = "finalize"
  /\ IF Current /\ Mine.status = "cancelling" THEN Save(Cancelled(Mine)) ELSE UNCHANGED run
  /\ Leave
  /\ UNCHANGED <<worker, owed, begun, used>>

------------------------------------------------------------------------------
(* The batch: one fiber per ready step, at most Width at a time, started   *)
(* in the author's order.                                                  *)

Live == {s \in Step : worker[s].pc # "off"}
Started == {s \in Live : worker[s].pc # "queued"}

At(s, pc) == owner.pc = "batch" /\ worker[s].pc = pc
Row(s) == Mine.step[s]
Held(s, st) == Row(s).st = st /\ Row(s).rev = worker[s].rev
Becomes(s, w) == worker' = [worker EXCEPT ![s] = w]
SaveRow(s, row) == Save([Mine EXCEPT !.step[s] = row])

InBatch == UNCHANGED <<owner, pending, canceller, owed, used>>

\* dispatchStep up to its event: both rows are read and the step must be ready.
DispatchRead(s) ==
  /\ At(s, "queued")
  /\ Cardinality(Started) < Width /\ \A t \in Live \ Started : s <= t
  /\ Becomes(s, IF Held(s, "ready") /\ Mine.status \notin TerminalStatuses
                THEN [worker[s] EXCEPT !.pc = "dispatch", !.seen = Mine.rev] ELSE Idle)
  /\ InBatch /\ UNCHANGED <<run, begun>>

\* dispatchStep's transaction.  The loser of a race for the run's revision drops
\* the step, which stays ready for the next round.
DispatchCommit(s) ==
  /\ At(s, "dispatch")
  /\ IF /\ Publishable(Mine, worker[s].seen) /\ Mine.status \in {"pending", "running"}
        /\ Held(s, "ready")
     THEN /\ Save([Published(Mine) EXCEPT !.status = "running",
                     !.step[s].st = "dispatching", !.step[s].rev = @ + 1])
          /\ Becomes(s, [worker[s] EXCEPT !.pc = "prepare", !.rev = @ + 1])
     ELSE Becomes(s, Idle) /\ UNCHANGED run
  /\ InBatch /\ UNCHANGED begun

\* The child Session is made, or is not; startStep reads both rows.
StartRead(s) ==
  /\ At(s, "prepare")
  /\ Becomes(s, IF Held(s, "dispatching") /\ Mine.status \notin TerminalStatuses
                THEN [worker[s] EXCEPT !.pc = "start", !.seen = Mine.rev] ELSE Idle)
  /\ InBatch /\ UNCHANGED <<run, begun>>

\* startStep's transaction.  The loser leaves the step dispatching.  The executor
\* runs only after it.
StartCommit(s) ==
  /\ At(s, "start")
  /\ IF Publishable(Mine, worker[s].seen) /\ Held(s, "dispatching")
     THEN /\ Save([Published(Mine) EXCEPT !.step[s].st = "running", !.step[s].rev = @ + 1])
          /\ Becomes(s, [worker[s] EXCEPT !.pc = "execute", !.rev = @ + 1])
          /\ begun' = begun \union {<<owner.rid, s, Row(s).att>>}
     ELSE Becomes(s, Idle) /\ UNCHANGED <<run, begun>>
  /\ InBatch

\* The executor returns: a result, an error, a timeout or a cancelled child.
ExecuteEnds(s) ==
  /\ At(s, "execute")
  /\ Becomes(s, [worker[s] EXCEPT !.pc = "settle"])
  /\ InBatch /\ UNCHANGED <<run, begun>>

\* What the fiber does after it has settled the step as failed.
AfterFailure(s) ==
  IF Policy[s] = "retry" /\ Row(s).att < MaxAttempts[s]
  THEN [worker[s] EXCEPT !.pc = "retry", !.rev = @ + 1]
  ELSE IF Policy[s] = "continue" THEN Idle ELSE [worker[s] EXCEPT !.pc = "abort"]

\* settleStep: only a running step at the revision the fiber holds.  A branch
\* step that names none of its arms has failed.
SettleStep(s) ==
  /\ At(s, "settle")
  /\ \/ /\ Held(s, "running")
        /\ \E arm \in (IF Arms[s] = {} THEN {END} ELSE Arms[s]) :
             SaveRow(s, [Row(s) EXCEPT !.st = "completed", !.rev = @ + 1, !.arm = arm])
        /\ Becomes(s, Idle)
     \/ /\ Held(s, "running")
        /\ SaveRow(s, [Row(s) EXCEPT !.st = "failed", !.rev = @ + 1])
        /\ Becomes(s, AfterFailure(s))
     \/ /\ ~Held(s, "running")
        /\ Becomes(s, [worker[s] EXCEPT !.pc = "error"])
        /\ UNCHANGED run
  /\ InBatch /\ UNCHANGED begun

\* The step is settled and the patch of its task dies (orDie): the batch ends
\* with a defect, which no failRun follows.
TaskDies(s) ==
  /\ At(s, "settle") /\ Held(s, "running") /\ Use("taskDies")
  /\ \/ \E arm \in (IF Arms[s] = {} THEN {END} ELSE Arms[s]) :
          SaveRow(s, [Row(s) EXCEPT !.st = "completed", !.rev = @ + 1, !.arm = arm])
     \/ SaveRow(s, [Row(s) EXCEPT !.st = "failed", !.rev = @ + 1])
  /\ Becomes(s, [worker[s] EXCEPT !.pc = "error"])
  /\ UNCHANGED <<owner, pending, canceller, owed, begun>>

\* retryStep: the failed attempt gets a successor that is ready at once.
RetryStep(s) ==
  /\ At(s, "retry")
  /\ IF Mine.status \notin TerminalStatuses /\ Held(s, "failed")
     THEN SaveRow(s, Fresh("ready", Row(s).att + 1)) /\ Becomes(s, Idle)
     ELSE Becomes(s, [worker[s] EXCEPT !.pc = "error"]) /\ UNCHANGED run
  /\ InBatch /\ UNCHANGED begun

BatchOver ==
  /\ owner.pc = "batch" /\ Live = {}
  /\ owner' = [owner EXCEPT !.pc = "loop"]
  /\ UNCHANGED <<run, pending, worker, canceller, owed, begun, used>>

\* One fiber of the batch fails: Effect.forEach interrupts the others.
BatchFails(s) ==
  /\ At(s, "abort") \/ At(s, "error")
  /\ owner' = [owner EXCEPT !.pc = "unwind", !.why = worker[s].pc]
  /\ Becomes(s, Idle)
  /\ UNCHANGED <<run, pending, canceller, owed, begun, used>>

\* interrupt(sessionID) reaches the owner at any point.
Stopped ==
  /\ owner.stop /\ owner.pc \notin {"off", "unwind"}
  /\ owner' = [owner EXCEPT !.pc = "unwind", !.why = "stop"]
  /\ UNCHANGED <<run, pending, worker, canceller, owed, begun, used>>

\* A fiber of the batch is interrupted: settleInterrupted cancels the step whose
\* executor was running.  A fiber caught just before or after leaves its step.
Unwind(s) ==
  /\ owner.pc = "unwind" /\ worker[s].pc # "off"
  /\ \/ /\ worker[s].pc = "execute" /\ Held(s, "running")
        /\ SaveRow(s, [Row(s) EXCEPT !.st = "cancelled", !.rev = @ + 1])
     \/ UNCHANGED run
  /\ Becomes(s, Idle)
  /\ UNCHANGED <<owner, pending, canceller, owed, begun, used>>

\* All fibers are gone: an aborted batch fails the run, any other drain is over.
Unwound ==
  /\ owner.pc = "unwind" /\ Live = {}
  /\ IF owner.why = "abort" /\ ~owner.stop
     THEN owner' = [owner EXCEPT !.pc = "fail"] /\ UNCHANGED <<pending, canceller>>
     ELSE Leave
  /\ UNCHANGED <<run, worker, owed, begun, used>>

\* The revision is read afresh, because the batch has moved it, and failRun
\* expects that one.
FailRead ==
  /\ owner.pc = "fail"
  /\ owner' = [owner EXCEPT !.pc = "failing", !.rev = Mine.rev]
  /\ UNCHANGED <<run, pending, worker, canceller, owed, begun, used>>

FailCommit ==
  /\ owner.pc = "failing"
  /\ IF Current THEN Save(Tell(IF Mine.status \in TerminalStatuses THEN Mine ELSE Failed(Mine)))
                ELSE UNCHANGED run
  /\ Leave
  /\ UNCHANGED <<worker, owed, begun, used>>

------------------------------------------------------------------------------
(* The HTTP operations.  A request with a stale revision is refused and    *)
(* changes nothing, so a request carries the revisions of the moment.      *)

\* POST workflow/run: getOrCreate, and then wake.
Submit(q) ==
  /\ Use("submit")
  /\ \/ /\ (q # NoRequest /\ \E i \in DOMAIN run : run[i].req = q) \/ Active # {}
        /\ UNCHANGED run
     \/ /\ \A i \in DOMAIN run : q # NoRequest => run[i].req # q
        /\ Active = {} /\ Len(run) < MaxRuns
        /\ run' = Append(run, NewRun("submit", q, FirstRows))
  /\ owed' = owed + 1
  /\ UNCHANGED <<owner, pending, worker, canceller, begun>>

ClientWake ==
  /\ owed > 0 /\ owed' = owed - 1
  /\ Wake
  /\ UNCHANGED <<run, worker, canceller, begun, used>>

\* POST cancel: cancelRun; then the owner is interrupted and waited for; then
\* finalizeCancelRun.  A run that is terminal already is answered with success.
CancelRun(i) ==
  /\ Use("cancelRun") /\ canceller.pc = "idle"
  /\ run' = [run EXCEPT ![i] = CancelRow(@)]
  /\ canceller' = [pc |-> "interrupt", rid |-> i, rev |-> CancelRow(run[i]).rev]
  /\ UNCHANGED <<owner, pending, worker, owed, begun>>

InterruptOwner ==
  /\ canceller.pc = "interrupt"
  /\ IF owner.pc = "off"
     THEN canceller' = [canceller EXCEPT !.pc = "finalize"] /\ UNCHANGED <<owner, pending>>
     ELSE /\ owner' = [owner EXCEPT !.stop = TRUE] /\ pending' = FALSE
          /\ canceller' = [canceller EXCEPT !.pc = "waiting"]
  /\ UNCHANGED <<run, worker, owed, begun, used>>

\* With a second attempt at the revision it finds, should the first one miss.
FinalizeCancel ==
  /\ canceller.pc = "finalize"
  /\ run' = [run EXCEPT ![canceller.rid] = IF @.status = "cancelling" THEN Cancelled(@) ELSE @]
  /\ canceller' = NoCancel
  /\ UNCHANGED <<owner, pending, worker, owed, begun, used>>

\* POST step cancel: an active step is cancelled, a cancelled one is accepted as
\* it is; the owner is woken.  The run's row does not change.
CancelStep(i, s) ==
  /\ Use("cancelStep")
  /\ \/ /\ run[i].step[s].st \in {"dispatching", "running"}
        /\ run' = [run EXCEPT ![i].step[s].st = "cancelled", ![i].step[s].rev = @ + 1]
     \/ run[i].step[s].st \in {"cancelled", "cancelling"} /\ UNCHANGED run
  /\ owed' = owed + 1
  /\ UNCHANGED <<owner, pending, worker, canceller, begun>>

\* The rows of a retry: the step and all it leads to anew, the others as settled.
RetryRows(r, s) ==
  [t \in Step |-> IF t = s THEN Fresh("ready", r.step[t].att + 1)
                  ELSE IF t \in Descendants[s] THEN Fresh("pending", 1)
                  ELSE [r.step[t] EXCEPT !.rev = 1]]

\* POST step retry on a terminal run: a new run of the same lineage, then wake.
RetryRun(i, s) ==
  /\ Use("retryRun") /\ Len(run) < MaxRuns
  /\ run[i].status \in TerminalStatuses
  /\ run[i].step[s].st \in {"failed", "execution_unknown", "cancelled"}
  /\ run' = Append(run, NewRun("retry", NoRequest, RetryRows(run[i], s)))
  /\ owed' = owed + 1
  /\ UNCHANGED <<owner, pending, worker, canceller, begun>>

\* The process dies: the rows stay, every fiber and request is gone.
Crash ==
  /\ Use("crash")
  /\ owner' = Off /\ pending' = FALSE /\ worker' = [s \in Step |-> Idle]
  /\ canceller' = NoCancel /\ owed' = 0
  /\ UNCHANGED <<run, begun>>

------------------------------------------------------------------------------
OwnerStep ==
  \/ OwnerAdmit \/ LoopRead \/ Frontier \/ EmptyDispatching \/ EmptyRunning \/ RecoverRunning
  \/ EmptyFailed \/ EmptyCancelled \/ EmptyCancelling \/ EmptyBlocked \/ EmptyCompletes
  \/ OwnerCancels \/ OwnerFinalizes \/ BatchOver \/ Unwound \/ FailRead \/ FailCommit

WorkerStep(s) ==
  \/ DispatchRead(s) \/ DispatchCommit(s) \/ StartRead(s) \/ StartCommit(s)
  \/ ExecuteEnds(s) \/ SettleStep(s) \/ TaskDies(s) \/ RetryStep(s) \/ BatchFails(s) \/ Unwind(s)

ClientStep == ClientWake \/ InterruptOwner \/ FinalizeCancel

Requests ==
  \/ \E q \in Request \union {NoRequest} : Submit(q)
  \/ \E i \in DOMAIN run : CancelRun(i)
  \/ \E i \in DOMAIN run, s \in Step : CancelStep(i, s) \/ RetryRun(i, s)
  \/ Crash

Next == OwnerStep \/ Stopped \/ (\E s \in Step : WorkerStep(s)) \/ ClientStep \/ Requests

Spec == Init /\ [][Next]_vars

\* Fibers and requests go on; executors end (a step may have a timeout, and a
\* child Session ends or is cancelled).  An interrupt reaches its fiber.  Nobody
\* has to send a request, and a process need not survive.
FairSpec ==
  /\ Spec
  /\ WF_vars(OwnerStep) /\ WF_vars(Stopped) /\ WF_vars(ClientWake) /\ WF_vars(InterruptOwner \/ FinalizeCancel)
  /\ \A s \in Step : WF_vars(WorkerStep(s))

------------------------------------------------------------------------------
(* Properties.                                                             *)

\* Types of the variables.
TypeOK ==
  /\ \A i \in DOMAIN run : RunType(run[i])
  /\ Len(run) <= MaxRuns
  /\ owner.pc \in {"off", "admit", "loop", "frontier", "empty", "batch", "unwind", "fail",
                   "failing", "cancel", "finalize", "recover"}
  /\ owner.pc \notin {"off", "admit", "unwind"} => owner.rid \in DOMAIN run
  /\ pending \in BOOLEAN /\ owed \in Nat
  /\ \A s \in Step : worker[s].pc \in {"off", "queued", "dispatch", "prepare", "start",
                                       "execute", "settle", "retry", "abort", "error"}
  /\ canceller.pc \in {"idle", "interrupt", "waiting", "finalize"}
  /\ begun \subseteq (1..MaxRuns) \X Step \X Nat

\* No step is left in flight under a run that is over: nothing would ever settle
\* it, because recovery leaves terminal runs alone (failRun, finalizeCancelRun,
\* recoverRunning and completeRun each have to account for every status).
NoOrphanStep ==
  \A i \in DOMAIN run : run[i].status \in TerminalStatuses =>
    \A s \in Step : run[i].step[s].st \notin InFlight

\* A run is called completed only if every step ran or was skipped, and partly
\* successful only if each failure was one its author tolerates.
HonestOutcome ==
  \A i \in DOMAIN run :
    /\ run[i].status = "completed" =>
         \A s \in Step : run[i].step[s].st \in {"completed", "skipped"}
    /\ run[i].status = "partial_success" =>
         \A s \in Step : \/ run[i].step[s].st \in {"completed", "skipped", "cancelled"}
                         \/ run[i].step[s].st = "failed" /\ Policy[s] = "continue"

\* The events of a run and its revision advance together for as long as a step
\* can be dispatched: otherwise every dispatch would be rejected for ever
\* (WorkflowEvent.publish compares the event's sequence with the revision).
EventsMatchRevision ==
  \A i \in DOMAIN run : run[i].status \in {"pending", "running"} => run[i].seq = run[i].rev

\* A step is executed only when everything it depends on has settled in its favour.
DependenciesFirst ==
  \A s \in Step : worker[s].pc \in {"execute", "settle"} =>
    \A p \in Predecessors[s] : Satisfies(p, Mine.step[p])

\* A terminal run is immutable: its status, and the rows of its steps.
TerminalIsFinal ==
  [][\A i \in DOMAIN run : run[i].status \in TerminalStatuses =>
       /\ run'[i].status = run[i].status
       /\ \A s \in Step : run[i].step[s].st \notin Unstarted
                            => run'[i].step[s] = run[i].step[s]]_vars

\* The executor of an attempt is started at most once, across crashes, recoveries,
\* cancellations and drains: provider work whose outcome is unknown is not replayed.
NoReplay ==
  [][\A s \in Step : worker[s].pc = "start" /\ worker'[s].pc = "execute" =>
       <<owner.rid, s, Row(s).att>> \notin begun]_vars

\* A run that is over stays as it is, and no attempt is executed twice.
DoneIsFinal == TerminalIsFinal /\ NoReplay

Over(i) == i \in DOMAIN run /\ run[i].status \in TerminalStatuses

\* Every run ends, whoever cancels or retries what meanwhile (without a crash or
\* a dying task patch: nothing wakes an owner after either).
RunEnds == \A i \in 1..MaxRuns : (i \in DOMAIN run) ~> Over(i)

\* A run that an owner has taken up, in a process that does not die again, ends.
\* Otherwise it stays active for ever and every later wake fails the same way.
OwnedRunEnds ==
  \A i \in 1..MaxRuns :
    (owner.pc = "loop" /\ owner.rid = i /\ used["crash"] = Limit["crash"]) ~> Over(i)

\* A request that repeats an earlier one creates no further run: runs are made
\* by submissions and retries, never by the owner (ADR-18 2.4).
OnlyRequestedRuns == \A i \in DOMAIN run : run[i].by # "owner"

\* When all steps of a completed run have settled and its owner has left, the
\* result has been handed to the root Session (ADR-18 2.1).
ResultIsHandedOff ==
  owner.pc = "off" => \A i \in DOMAIN run : run[i].status = "completed" => run[i].told

\* A recovery comes before new work: no executor is started while a step that was
\* running when the process died is still unresolved (ADR-18 2.2).
RecoveryComesFirst ==
  [][\A s \in Step : worker[s].pc = "start" /\ worker'[s].pc = "execute" =>
       \A t \in Step : Row(t).st = "running" => worker[t].pc # "off"]_vars

\* A cancelled run has no step that is still to start (ADR-18 2.2).
CancelSkipsTheRest ==
  \A i \in DOMAIN run : run[i].status = "cancelled" =>
    \A s \in Step : run[i].step[s].st \notin Unstarted

\* Does step p, as settled in r, lead to step s?
Leads(r, p, s) ==
  r.step[p].st # "skipped" /\ s \in Parallel[p] \union {Following[p], r.step[p].arm}

\* A completed run has lost nothing: whatever a step executed in it leads to has
\* been completed as well, across merges, arms not taken and retried lineages.
\* (A retry may inherit "skipped" from a step that an abort kept from starting.)
Executed(i, s) == \E b \in begun : b[1] = i /\ b[2] = s

NothingLost ==
  \A i \in DOMAIN run : run[i].status = "completed" =>
    \A p, s \in Step :
      Executed(i, p) /\ Leads(run[i], p, s) => run[i].step[s].st = "completed"

\* A step is executed only if it is the entry or some predecessor leads to it: a
\* settled step by its `next` or `parallel`, or a branch step that chose it (ADR-18
\* 2.5).  Checked under OneCheck only: with two branch steps, or in the retry of a
\* run that inherits skipped steps, the README shows how it fails.
TakenArmsOnly ==
  \A s \in Step : worker[s].pc \in {"execute", "settle"} =>
    s = 1 \/ \E p \in Predecessors[s] : Leads(Mine, p, s)

\* Graphs in which no branch step also leads on by itself to what it may give up.
BranchesDecide ==
  \A b \in Step, c \in Target :
    Abandoned[b][c] \intersect (Parallel[b] \union {Following[b]}) = {}

\* No step is put back, by the retry of its policy, into a run that is being
\* cancelled and is then retried: what the cancellation skipped would stay skipped.
Untangled ==
  \/ Limit["cancelRun"] = 0 \/ Limit["retryRun"] = 0
  \/ \A s \in Step : Policy[s] # "retry"

\* A single branch step, and no run that inherits what another one skipped.
OneCheck ==
  /\ Limit["retryRun"] = 0
  /\ \A b, c \in Step : Arms[b] # {} /\ Arms[c] # {} => b = c

\* A run is called what its steps came to: nothing executed too early, on an arm
\* not taken or not at all, and no step left in flight, whatever is cancelled,
\* retried or cut off by a crash.  An arm not taken is checked for graphs with one
\* branch step and runs that are not retried (OneCheck).
RunsAreHonest ==
  /\ TypeOK /\ NoOrphanStep /\ HonestOutcome /\ EventsMatchRevision /\ DependenciesFirst
  /\ ~NothingLost => ~BranchesDecide \/ ~Untangled
  /\ OneCheck => TakenArmsOnly

=============================================================================
