----------------------------- MODULE MCWorkflows -----------------------------
(* WorkflowRun on small graphs with different requests and faults. The run
   checks the disjoint union of the instances, one of which is chosen at the
   start. *)
EXTENDS Integers

CONSTANT Instances  \* the instances to check

VARIABLES instance, run, owner, pending, worker, canceller, owed, begun, used

vars == <<instance, run, owner, pending, worker, canceller, owed, begun, used>>

-----------------------------------------------------------------------------
(* Graphs and bounds. *)

Events == {"submit", "cancelRun", "cancelStep", "retryRun", "flagOff", "crash",
           "taskDies"}
NoneUsed == [e \in Events |-> 0]

\* Two steps in parallel and one that merges them.
ForkNext == <<0, 4, 4, 0>>
ForkParallel == <<{2, 3}, {}, {}, {}>>
ForkArms == <<{}, {}, {}, {}>>
ForkPolicy == <<"abort", "retry", "continue", "abort">>
ForkAttempts == <<1, 2, 1, 1>>
ForkPolicyStrict == <<"abort", "retry", "abort", "abort">>
ForkPolicyAbort == <<"retry", "abort", "continue", "abort">>
ForkAttemptsAbort == <<2, 1, 1, 1>>

\* A branch beside a plain step; both lead to one of the branch's arms.
MergeNext == <<0, 0, 4, 0, 0>>
MergeParallel == <<{2, 3}, {}, {}, {}, {}>>
MergeArms == <<{}, {4, 5}, {}, {}, {}>>
MergePolicy == <<"abort", "abort", "continue", "abort", "abort">>
MergeAttempts == <<1, 1, 1, 1, 1>>

AllLimit == [NoneUsed EXCEPT !["submit"] = 2, !["flagOff"] = 1, !["cancelStep"] = 2,
                             !["taskDies"] = 1]
CrashLimit == [NoneUsed EXCEPT !["submit"] = 1, !["crash"] = 1, !["cancelRun"] = 1,
                               !["cancelStep"] = 1]
RetryLimit == [NoneUsed EXCEPT !["submit"] = 2, !["crash"] = 1, !["retryRun"] = 1]
KillLimit == [NoneUsed EXCEPT !["submit"] = 1, !["flagOff"] = 1, !["cancelStep"] = 1,
                              !["cancelRun"] = 1]
DieLimit == [NoneUsed EXCEPT !["submit"] = 2, !["crash"] = 1, !["taskDies"] = 1]

-----------------------------------------------------------------------------
(* The instances. *)

\* Two steps in parallel, one retried and one tolerated, and a merge; a request
\* sent twice, the flag switched off and the patch of a step's task that dies.
Fork == INSTANCE WorkflowRun WITH
        N <- 4, Following <- ForkNext, Parallel <- ForkParallel, Arms <- ForkArms,
        Policy <- ForkPolicy, MaxAttempts <- ForkAttempts,
        Request <- {"q"}, NoRequest <- "none", MaxRuns <- 1, Limit <- AllLimit

\* The same with a crash anywhere and a cancellation.
Crashed == INSTANCE WorkflowRun WITH
           N <- 4, Following <- ForkNext, Parallel <- ForkParallel, Arms <- ForkArms,
           Policy <- ForkPolicyAbort, MaxAttempts <- ForkAttemptsAbort,
           Request <- {"q"}, NoRequest <- "none", MaxRuns <- 1, Limit <- CrashLimit

\* A crash, two submissions and the retry of a terminal run.
Retried == INSTANCE WorkflowRun WITH
           N <- 4, Following <- ForkNext, Parallel <- ForkParallel, Arms <- ForkArms,
           Policy <- ForkPolicyAbort, MaxAttempts <- ForkAttemptsAbort,
           Request <- {"q"}, NoRequest <- "none", MaxRuns <- 2, Limit <- RetryLimit

\* A branch beside a plain step that also leads to one of its arms; a crash and a
\* dying patch.
Branch == INSTANCE WorkflowRun WITH
          N <- 5, Following <- MergeNext, Parallel <- MergeParallel, Arms <- MergeArms,
          Policy <- MergePolicy, MaxAttempts <- MergeAttempts,
          Request <- {"q"}, NoRequest <- "none", MaxRuns <- 1, Limit <- DieLimit

\* The first graph without toleration, in a process that lives; every request.
Live == INSTANCE WorkflowRun WITH
        N <- 4, Following <- ForkNext, Parallel <- ForkParallel, Arms <- ForkArms,
        Policy <- ForkPolicyStrict, MaxAttempts <- ForkAttempts,
        Request <- {"q"}, NoRequest <- "none", MaxRuns <- 1, Limit <- KillLimit

ASSUME WorkflowsAssumption ==
  /\ Instances \subseteq {"fork", "crashed", "retried", "branch", "live"}
  /\ Fork!GraphAssumption /\ Fork!RunAssumption
  /\ Crashed!GraphAssumption /\ Crashed!RunAssumption
  /\ Retried!GraphAssumption /\ Retried!RunAssumption
  /\ Branch!GraphAssumption /\ Branch!RunAssumption
  /\ Live!GraphAssumption /\ Live!RunAssumption
  /\ Retried!BranchesDecide /\ Retried!Untangled
  /\ Branch!BranchesDecide /\ Branch!Untangled /\ Branch!OneCheck

-----------------------------------------------------------------------------

Init ==
  /\ instance \in Instances
  /\ \/ instance = "fork" /\ Fork!Init
     \/ instance = "crashed" /\ Crashed!Init
     \/ instance = "retried" /\ Retried!Init
     \/ instance = "branch" /\ Branch!Init
     \/ instance = "live" /\ Live!Init

In(i) == instance = i /\ UNCHANGED instance

Next ==
  \/ In("fork") /\ Fork!Next
  \/ In("crashed") /\ Crashed!OwnerStep
  \/ In("crashed") /\ Crashed!Stopped
  \/ In("crashed") /\ Crashed!ClientStep
  \/ In("crashed") /\ Crashed!Requests
  \/ \E s \in Crashed!Step : In("crashed") /\ Crashed!WorkerStep(s)
  \/ In("retried") /\ Retried!Next
  \/ In("branch") /\ Branch!Next
  \/ In("live") /\ Live!Next

\* The fairness of WorkflowRun, for the instance RunEnds is about.
Fairness ==
  /\ WF_vars(In("live") /\ Live!OwnerStep)
  /\ WF_vars(In("live") /\ Live!Stopped)
  /\ WF_vars(In("live") /\ Live!ClientWake)
  /\ WF_vars(In("live") /\ (Live!InterruptOwner \/ Live!FinalizeCancel))
  /\ \A s \in Live!Step : WF_vars(In("live") /\ Live!WorkerStep(s))

Spec == Init /\ [][Next]_vars /\ Fairness

-----------------------------------------------------------------------------
(* Properties; each part is stated and explained in WorkflowRun. *)

\* A run is called what its steps came to: nothing executed too early, on an arm
\* not taken or not at all, and no step left in flight, whatever is cancelled,
\* retried or cut off by a crash.  An arm not taken is checked in the instance
\* with its one branch step, whose run nobody retries.
RunsAreHonest ==
  /\ instance = "fork" => Fork!RunsAreHonest
  /\ instance = "crashed" => Crashed!RunsAreHonest
  /\ instance = "retried" => Retried!RunsAreHonest
  /\ instance = "branch" => Branch!RunsAreHonest
  /\ instance = "live" => Live!RunsAreHonest

\* A run that is over stays as it is, and no attempt is executed twice, across
\* crashes, recoveries, cancellations and retries.
DoneIsFinal == Retried!DoneIsFinal

\* A run whose steps tolerate no failure ends, whoever cancels what meanwhile, in a
\* process that lives and whose task patches succeed.
RunEnds == (instance = "live" /\ run # <<>>) ~> (instance = "live" /\ Live!Over(1))
=============================================================================
