---------------------------- MODULE MCDelegations ----------------------------
(* Delegation and what carries it, on small instances: the ledger and its
   services (DelegationLedger), its execution (DelegationExecution) and the
   registry of background jobs that runs it (BackgroundJob). The run checks the
   disjoint union of the instances, one of which is chosen at the start. *)
CONSTANT Instances  \* the instances to check

VARIABLES instance,
          d, ops,
          inbox, tool, drain, woken, watch, boot, crashes, lost,
          cur, job, done, promoted, closed, run, owed, waiter

executionVars == <<inbox, tool, drain, woken, watch, boot, crashes, lost>>
jobVars == <<cur, done, promoted, closed, run, owed, waiter>>
vars == <<instance, d, ops, job, executionVars, jobVars>>

-----------------------------------------------------------------------------
(* The instances. *)

\* Two turns, two attempts of each delivery; two operations in flight.
Ledger == INSTANCE DelegationLedger WITH
            Implementer <- {"build"}, Reviewer <- {},
            MaxTurns <- 2, MaxAttempts <- 2, MaxRevisions <- 0, Op <- {"o1"}
Race == INSTANCE DelegationLedger WITH
          Implementer <- {"build"}, Reviewer <- {},
          MaxTurns <- 1, MaxAttempts <- 2, MaxRevisions <- 0, Op <- {"o1", "o2"}

\* A reviewer and two revisions.
Review == INSTANCE DelegationLedger WITH
            Implementer <- {"build"}, Reviewer <- {"critic"},
            MaxTurns <- 1, MaxAttempts <- 1, MaxRevisions <- 2, Op <- {}

\* An external reviewer, whose result and review are two events.
Settle == INSTANCE DelegationLedger WITH
            Implementer <- {"build"}, Reviewer <- {"critic"},
            MaxTurns <- 1, MaxAttempts <- 1, MaxRevisions <- 0, Op <- {"o1"}

\* Two turns, two attempts and one restart, with or without a scan.
Execution == INSTANCE DelegationExecution WITH
               Implementer <- {"build"}, Reviewer <- {},
               MaxTurns <- 2, MaxAttempts <- 2, MaxRevisions <- 0,
               Outcome <- {"completed"}, MaxCrashes <- 1

\* One turn, whose work succeeds, in a process that lives.
Drain == INSTANCE DelegationExecution WITH
           Implementer <- {"build"}, Reviewer <- {},
           MaxTurns <- 1, MaxAttempts <- 1, MaxRevisions <- 0,
           Outcome <- {"completed"}, MaxCrashes <- 0

\* Two jobs that take the same id, two runs of each; one job of three runs, and
\* its foreground caller.
Jobs     == INSTANCE BackgroundJob WITH MaxJobs <- 2, MaxRuns <- 2, Waiter <- {}
Stopping == INSTANCE BackgroundJob WITH MaxJobs <- 1, MaxRuns <- 3, Waiter <- {"w1"}

ASSUME DelegationsAssumption ==
  /\ Instances \subseteq {"ledger", "race", "review", "settle", "execution", "drain",
                         "jobs", "stopping"}
  /\ Ledger!DelegationAssumption /\ Race!DelegationAssumption
  /\ Review!DelegationAssumption /\ Settle!DelegationAssumption
  /\ Execution!DelegationAssumption /\ Execution!ExecutionAssumption
  /\ Drain!DelegationAssumption /\ Drain!ExecutionAssumption
  /\ Jobs!BackgroundJobAssumption /\ Stopping!BackgroundJobAssumption

-----------------------------------------------------------------------------
(* What is not of the chosen instance is off. *)

ExecutionOff == /\ inbox = "off" /\ tool = "off" /\ drain = "off" /\ woken = "off"
                /\ watch = "off" /\ boot = "off" /\ crashes = "off" /\ lost = "off"
JobsOff == /\ cur = "off" /\ done = "off" /\ promoted = "off" /\ closed = "off"
           /\ run = "off" /\ owed = "off" /\ waiter = "off"

Init ==
  /\ instance \in Instances
  /\ \/ /\ \/ instance = "ledger" /\ Ledger!Init
           \/ instance = "race" /\ Race!Init
           \/ instance = "review" /\ Review!Init
           \/ instance = "settle" /\ Settle!Init
        /\ job = "off" /\ ExecutionOff /\ JobsOff
     \/ /\ \/ instance = "execution" /\ Execution!Init
           \/ instance = "drain" /\ Drain!Init
        /\ ops = "off" /\ JobsOff
     \/ /\ \/ instance = "jobs" /\ Jobs!Init
           \/ instance = "stopping" /\ Stopping!Init
        /\ d = "off" /\ ops = "off" /\ ExecutionOff

InLedger(i)    == instance = i /\ UNCHANGED <<instance, job, executionVars, jobVars>>
InExecution(i) == instance = i /\ UNCHANGED <<instance, ops, jobVars>>
InJobs(i)      == instance = i /\ UNCHANGED <<instance, d, ops, executionVars>>

Next ==
  \/ InLedger("ledger") /\ Ledger!Next
  \/ InLedger("race") /\ Race!Next
  \/ InLedger("review") /\ Review!Next
  \/ InLedger("settle") /\ Settle!Next
  \/ InExecution("execution") /\ Execution!Step
  \/ InExecution("execution") /\ Execution!ToolChecks
  \/ InExecution("execution") /\ Execution!Steer
  \/ InExecution("execution") /\ \E t \in DOMAIN d.turn : Execution!retry(t)
  \/ InExecution("execution") /\ Execution!Crash
  \/ InExecution("drain") /\ Drain!Next
  \/ InJobs("jobs") /\ Jobs!Start
  \/ InJobs("jobs") /\ Jobs!Extend
  \/ InJobs("jobs") /\ Jobs!Cancel
  \/ InJobs("jobs") /\ Jobs!Promote
  \/ \E j \in Jobs!Job : InJobs("jobs") /\ Jobs!JobStep(j)
  \/ \E j \in Jobs!Job, s \in Jobs!RunSeq : InJobs("jobs") /\ Jobs!RunStep(j, s)
  \/ InJobs("stopping") /\ Stopping!Next

\* The fairness of DelegationExecution and BackgroundJob, for the instances
\* WorkEnds is about.
Fairness ==
  /\ WF_vars(InExecution("drain") /\ Drain!JobSteps)
  /\ WF_vars(InExecution("drain") /\ Drain!WatchEnds)
  /\ WF_vars(InExecution("drain") /\ Drain!ToolSteps)
  /\ WF_vars(InExecution("drain") /\ Drain!DrainSteps)
  /\ WF_vars(InJobs("stopping") /\ Stopping!JobStep(1))
  /\ \A s \in Stopping!RunSeq : /\ WF_vars(InJobs("stopping") /\ Stopping!FiberStep(1, s))
                                /\ WF_vars(InJobs("stopping") /\ Stopping!StopWork(1, s))
  /\ WF_vars(InJobs("stopping") /\ Stopping!Return("w1"))

Spec == Init /\ [][Next]_vars /\ Fairness

-----------------------------------------------------------------------------
(* Properties; each part is stated and explained in its component's module. *)

\* What is reported done is done, whatever retries, scans, late reports, restarts
\* and ends of runs race: a completed delegation has completed all its work and an
\* approval is of what there is now; a dispatched run is the one its delivery
\* records, and what a crash cut off and the next process's scan has marked is not
\* run again; a job is completed by all of its runs, fails by its own, and its
\* result is told once.
CompletionIsTrue ==
  /\ instance = "ledger" => Ledger!CompletionIsTrue
  /\ instance = "race" => Race!CompletionIsTrue
  /\ instance = "review" => Review!CompletionIsTrue
  /\ instance = "settle" => Settle!CompletionIsTrue
  /\ instance = "execution" => Execution!CompletionIsTrue
  /\ instance = "drain" => Drain!CompletionIsTrue
  /\ instance = "jobs" => Jobs!CompletionIsTrue
  /\ instance = "stopping" => Stopping!CompletionIsTrue

\* The outcome of an attempt is final, and attempts follow one another, however
\* many operations, late reports, dispatches, drains and restarts race.
OutcomeFinal ==
  [][/\ instance = "ledger" => Ledger!KeepsOutcomes
     /\ instance = "race" => Race!KeepsOutcomes
     /\ instance = "execution" => Ledger!KeepsOutcomes]_vars

\* Work comes to its end: the one turn of a delegation is settled, whether its
\* dispatch or the drain is first to run it, and nothing of a job that has ended
\* goes on, neither a queued run nor one that was forked while its scope closed, and
\* whoever waits for it is answered.
WorkEnds ==
  (\/ instance = "drain" /\ d.turn # <<>>
   \/ instance = "stopping" /\ done[1] # "none")
  ~>
  (\/ instance = "drain" /\ d.turn # <<>> /\ Drain!Delivery(1).status \in Drain!Settled
   \/ /\ instance = "stopping" /\ Stopping!AllEnded(1)
      /\ waiter["w1"].job = 1 => waiter["w1"].answer # "none")
=============================================================================
