----------------------------- MODULE BackgroundJob -----------------------------
(***************************************************************************)
(* One id of the registry of background jobs (background-job.ts).  A job   *)
(* runs in a scope of its own, and runs that are added while it is running *)
(* queue up behind each other.  When it has ended, another job may take    *)
(* its id: what is left of the old one must not touch the new one.  The    *)
(* foreground caller of a job waits for its end or for its promotion to    *)
(* the background, whichever comes first (the V1 task tool).               *)
(*                                                                         *)
(* Each update of the registry is one step; what an operation does after   *)
(* it, with Deferreds, scopes and forks, are steps of their own.           *)
(***************************************************************************)
EXTENDS Naturals, FiniteSets

CONSTANTS MaxJobs,   \* bound: jobs that have the id, one after the other
          MaxRuns,   \* bound: runs of a job
          Waiter     \* foreground callers

BackgroundJobAssumption == MaxJobs \in Nat \ {0} /\ MaxRuns \in Nat \ {0}

VARIABLES cur,       \* the job that holds the id; 0 before the first
          job,       \* [Job -> its entry in the registry]
          done,      \* [Job -> value of the Deferred done]
          promoted,  \* [Job -> the Deferred promoted is resolved]
          closed,    \* the jobs whose scope is closed
          run,       \* [Job -> [RunSeq -> stage of the run's fiber]]
          owed,      \* [Job -> SUBSET of what operations have yet to do]
          waiter     \* [Waiter -> what it waits for and got]

vars == <<cur, job, done, promoted, closed, run, owed, waiter>>

Job == 1..MaxJobs
RunSeq == 0..(MaxRuns - 1)

Status == {"running", "completed", "error", "cancelled"}

NoJob == [status |-> "none", pending |-> 0, next |-> 0, output |-> 0,
          background |-> FALSE]

Init ==
  /\ cur = 0
  /\ job = [j \in Job |-> NoJob]
  /\ done = [j \in Job |-> "none"]
  /\ promoted = [j \in Job |-> FALSE]
  /\ closed = {}
  /\ run = [j \in Job |-> [s \in RunSeq |-> "none"]]
  /\ owed = [j \in Job |-> {}]
  /\ waiter = [w \in Waiter |-> [job |-> 0, answer |-> "none"]]

Running == cur # 0 /\ job[cur].status = "running"

------------------------------------------------------------------------------
(* Stages of a run.                                                        *)
(*   "accepted"   in the registry, its fiber is not forked yet             *)
(*   "queued"     its fiber waits for the run before it                    *)
(*   "working"    executing                                                *)
(*   "succeeded", "failed"   its Exit, and the tail is released            *)
(*   "settled", "faulted"    the same, and the registry has been told      *)
(*   "stopped"    interrupted                                              *)

Released(j, s) == run[j][s] \in {"succeeded", "failed", "settled", "faulted", "stopped"}

\* start: a running job is left as it is, and the caller's run is dropped.
Start ==
  /\ ~Running /\ cur < MaxJobs
  /\ cur' = cur + 1
  /\ job' = [job EXCEPT ![cur'] = [NoJob EXCEPT !.status = "running", !.pending = 1, !.next = 1]]
  /\ run' = [run EXCEPT ![cur'][0] = "accepted"]
  /\ UNCHANGED <<done, promoted, closed, owed, waiter>>

Extend ==
  /\ Running /\ job[cur].next < MaxRuns
  /\ job' = [job EXCEPT ![cur].pending = @ + 1, ![cur].next = @ + 1]
  /\ run' = [run EXCEPT ![cur][job[cur].next] = "accepted"]
  /\ UNCHANGED <<cur, done, promoted, closed, owed, waiter>>

\* Into the job's scope, also when it has been closed meanwhile.
Fork(j, s) ==
  /\ run[j][s] = "accepted"
  /\ run' = [run EXCEPT ![j][s] = "queued"]
  /\ UNCHANGED <<cur, job, done, promoted, closed, owed, waiter>>

Work(j, s) ==
  /\ run[j][s] = "queued" /\ (s # 0 => Released(j, s - 1))
  /\ run' = [run EXCEPT ![j][s] = "working"]
  /\ UNCHANGED <<cur, job, done, promoted, closed, owed, waiter>>

EndWork(j, s, exit) ==
  /\ run[j][s] = "working"
  /\ run' = [run EXCEPT ![j][s] = exit]
  /\ UNCHANGED <<cur, job, done, promoted, closed, owed, waiter>>

\* Mutant: work runs in the uninterruptible region that forked it.
StopQueued(j, s) ==
  /\ j \in closed /\ run[j][s] \in {"queued", "succeeded", "failed"}
  /\ run' = [run EXCEPT ![j][s] = "stopped"]
  /\ UNCHANGED <<cur, job, done, promoted, closed, owed, waiter>>

\* A closed scope interrupts the fibers in it, and those forked into it later.
\* An interrupted fiber settles nothing.
StopWork(j, s) ==
  /\ j \in closed /\ run[j][s] \in {"queued", "working", "succeeded", "failed"}
  /\ run' = [run EXCEPT ![j][s] = "stopped"]
  /\ UNCHANGED <<cur, job, done, promoted, closed, owed, waiter>>

------------------------------------------------------------------------------
(* settle.                                                                 *)

\* The registry's entry after the end of run s, of a job that is running.  A run
\* that only interrupts have ended makes the job cancelled.
Failure == {"error", "cancelled"}

AfterRun(entry, s, exit, failure) ==
  LET pending == entry.pending - 1
      output == IF exit = "succeeded" /\ s + 1 > entry.output THEN s + 1 ELSE entry.output
  IN  IF exit = "succeeded" /\ pending > 0
        THEN [entry EXCEPT !.pending = pending, !.output = output]
        ELSE [entry EXCEPT !.pending = 0, !.output = output,
                           !.status = IF exit = "succeeded" THEN "completed" ELSE failure]

\* Only the job that still holds the id, and only while it is running.
Settle(j, s) ==
  /\ run[j][s] \in {"succeeded", "failed"}
  /\ run' = [run EXCEPT ![j][s] = IF @ = "succeeded" THEN "settled" ELSE "faulted"]
  /\ IF j = cur /\ Running
       THEN /\ \E failure \in Failure : job' = [job EXCEPT ![j] = AfterRun(@, s, run[j][s], failure)]
            /\ owed' = [owed EXCEPT ![j] = IF job'[j].status = "running" THEN @ ELSE @ \union {"done"}]
       ELSE UNCHANGED <<job, owed>>
  /\ UNCHANGED <<cur, done, promoted, closed, waiter>>

\* cancel.
Cancel ==
  /\ Running
  /\ job' = [job EXCEPT ![cur].status = "cancelled", ![cur].pending = 0]
  /\ owed' = [owed EXCEPT ![cur] = @ \union {"done"}]
  /\ UNCHANGED <<cur, done, promoted, closed, run, waiter>>

\* After either of them: resolve done and close the scope.
ResolveDone(j) ==
  /\ "done" \in owed[j]
  /\ done' = [done EXCEPT ![j] = job[j].status]
  /\ closed' = closed \union {j}
  /\ owed' = [owed EXCEPT ![j] = @ \ {"done"}]
  /\ UNCHANGED <<cur, job, promoted, run, waiter>>

------------------------------------------------------------------------------
(* promote, and the foreground caller.                                     *)

Promote ==
  /\ Running /\ ~job[cur].background
  /\ job' = [job EXCEPT ![cur].background = TRUE]
  /\ owed' = [owed EXCEPT ![cur] = @ \union {"promoted"}]
  /\ UNCHANGED <<cur, done, promoted, closed, run, waiter>>

\* Resolve promoted and run the hook that has the result notified later.
ResolvePromoted(j) ==
  /\ "promoted" \in owed[j]
  /\ promoted' = [promoted EXCEPT ![j] = TRUE]
  /\ owed' = [owed EXCEPT ![j] = @ \ {"promoted"}]
  /\ UNCHANGED <<cur, job, done, closed, run, waiter>>

\* raceFirst(wait, waitForPromotion): the answer tells the caller that the job is
\* in the background, or how it has ended.
Answer(j) == IF job[j].background THEN "background" ELSE job[j].status

Wait(w) ==
  /\ waiter[w].job = 0 /\ cur # 0
  /\ waiter' = [waiter EXCEPT ![w] = [job |-> cur,
       answer |-> IF Running /\ ~job[cur].background THEN "none" ELSE Answer(cur)]]
  /\ UNCHANGED <<cur, job, done, promoted, closed, run, owed>>

Return(w) ==
  LET j == waiter[w].job
  IN  /\ j # 0 /\ waiter[w].answer = "none"
      /\ done[j] # "none" \/ promoted[j]
      /\ waiter' = [waiter EXCEPT ![w].answer = IF promoted[j] THEN "background" ELSE Answer(j)]
      /\ UNCHANGED <<cur, job, done, promoted, closed, run, owed>>

------------------------------------------------------------------------------

Operation ==
  \/ Start \/ Extend \/ Cancel \/ Promote
  \/ \E w \in Waiter : Wait(w)

FiberStep(j, s) == Fork(j, s) \/ Work(j, s) \/ Settle(j, s)

RunStep(j, s) ==
  \/ FiberStep(j, s) \/ StopWork(j, s)
  \/ \E exit \in {"succeeded", "failed"} : EndWork(j, s, exit)

JobStep(j) == ResolveDone(j) \/ ResolvePromoted(j)

Next ==
  \/ Operation
  \/ \E j \in Job : JobStep(j) \/ \E s \in RunSeq : RunStep(j, s)
  \/ \E w \in Waiter : Return(w)

Spec == Init /\ [][Next]_vars

\* Fibers run, interrupts arrive and waiters are resumed.  Work may go on for
\* ever, and nobody has to call anything.
FairSpec ==
  /\ Spec
  /\ \A j \in Job :
       /\ WF_vars(JobStep(j))
       /\ \A s \in RunSeq : WF_vars(FiberStep(j, s)) /\ WF_vars(StopWork(j, s))
  /\ \A w \in Waiter : WF_vars(Return(w))

------------------------------------------------------------------------------
(* Properties.                                                             *)

TypeOK ==
  /\ cur \in 0..MaxJobs
  /\ job \in [Job -> [status : Status \union {"none"}, pending : 0..MaxRuns, next : 0..MaxRuns,
                      output : 0..MaxRuns, background : BOOLEAN]]
  /\ done \in [Job -> (Status \ {"running"}) \union {"none"}]
  /\ promoted \in [Job -> BOOLEAN]
  /\ closed \subseteq Job
  /\ run \in [Job -> [RunSeq -> {"none", "accepted", "queued", "working", "succeeded", "failed",
                              "settled", "faulted", "stopped"}]]
  /\ owed \in [Job -> SUBSET {"done", "promoted"}]
  /\ waiter \in [Waiter -> [job : 0..MaxJobs,
                            answer : Status \union {"none", "background"}]]

\* A job is reported completed only when every run that was accepted, also by an
\* extend that raced with its end, has succeeded, with the output of the last.
CompletedMeansAll ==
  \A j \in Job : done[j] = "completed" =>
    /\ \A s \in RunSeq : s < job[j].next => run[j][s] = "settled"
    /\ job[j].output = job[j].next

\* A job fails only by a run of its own, never by one of the job before it.
ErrorIsOwn ==
  \A j \in Job : job[j].status = "error" => \E s \in RunSeq : run[j][s] = "faulted"

\* As long as a job is running, its runs are executed one after the other.
OneAtATime ==
  Running => \A s, t \in RunSeq : run[cur][s] = "working" /\ run[cur][t] = "working" => s = t

\* The result of a job is delivered once: a foreground caller gets it if and only
\* if the job was not promoted, for then the hook has it notified.
DeliveredOnce ==
  \A w \in Waiter : waiter[w].answer # "none" =>
    (waiter[w].answer = "background" <=> job[waiter[w].job].background)

\* A job is completed by all of its runs, executed one after the other, fails by its
\* own, and its result is told once.
CompletionIsTrue ==
  TypeOK /\ CompletedMeansAll /\ ErrorIsOwn /\ OneAtATime /\ DeliveredOnce

\* Whoever waits for a job gets an answer, unless work of the job never ends.
WaitersReturn ==
  \A w \in Waiter : \A j \in Job :
    waiter[w].job = j ~> (waiter[w].answer # "none" \/ [](\E s \in RunSeq : run[j][s] = "working"))

AllEnded(j) == \A s \in RunSeq : run[j][s] \in {"none", "settled", "faulted", "stopped"}

\* Nothing of a job that has ended goes on: neither a run that was accepted and
\* forked while its scope was being closed, nor one that was queued.
StopsWork == \A j \in Job : done[j] # "none" ~> []AllEnded(j)

=============================================================================
