-------------------------- MODULE Delegations_proofs --------------------------
(***************************************************************************)
(* Proofs about delegations and what carries them.                         *)
(*                                                                         *)
(* BackgroundJob, for any number of jobs, runs and callers: a job is       *)
(* completed only with all its runs, fails only by a run of its own,       *)
(* executes one run at a time, is resolved once, and its result goes to    *)
(* its foreground caller or to the hook, never to both or neither.         *)
(*                                                                         *)
(* DelegationLedger (here Led), for any number of participants, turns,     *)
(* attempts, revisions and operations in flight: a completed delegation    *)
(* has completed all its work, an approval is of what there is now, and    *)
(* the outcome of an attempt is final.                                     *)
(*                                                                         *)
(* DelegationExecution (here Exec), for any number of turns, attempts and  *)
(* restarts: a dispatched run is the one its delivery records, and what a  *)
(* crash cut off is not run again without a decision, unless it was of an  *)
(* approved delegation.  The variable job is that of the component a       *)
(* theorem is about.                                                       *)
(***************************************************************************)
EXTENDS BackgroundJob, FiniteSetTheorems, SequenceTheorems, TLAPS

CONSTANTS Implementer, Reviewer, MaxTurns, MaxAttempts, MaxRevisions, Op, Outcome, MaxCrashes
VARIABLES d, ops, inbox, tool, drain, woken, watch, boot, crashes, lost

Led  == INSTANCE DelegationLedger
Exec == INSTANCE DelegationExecution

------------------------------------------------------------------------------
(* Background jobs.                                                        *)

Stage == {"none", "accepted", "queued", "working", "succeeded", "failed", "settled",
          "faulted", "stopped"}
Entry == [status : Status \union {"none"}, pending : 0..MaxRuns, next : 0..MaxRuns,
          output : 0..MaxRuns, background : BOOLEAN]
Terminal == Status \ {"running"}

\* The runs of job j that have not settled.
Unsettled(j) == {s \in RunSeq : s < job[j].next /\ run[j][s] # "settled"}

\* Jobs take the id one after the other; only the last can be running, and the runs
\* that were accepted are the first ones.
Begun(j) ==
  /\ IF j > cur
     THEN job[j] = NoJob /\ done[j] = "none" /\ owed[j] = {} /\ ~promoted[j] /\ j \notin closed
     ELSE job[j].status # "none"
  /\ j < cur => job[j].status # "running"
  /\ \A s \in RunSeq : run[j][s] # "none" <=> s < job[j].next

\* While a job is running, pending counts its runs, nothing of it has failed or been
\* stopped, and its output is that of the last run that settled, or of one later.
Counts(j) ==
  job[j].status = "running" =>
    /\ job[j].pending = Cardinality(Unsettled(j))
    /\ \A s \in RunSeq : /\ run[j][s] \notin {"faulted", "stopped"}
                         /\ run[j][s] = "settled" => s < job[j].output
    /\ job[j].output <= job[j].next

\* How a job ended has its reason in its runs.
Ended(j) ==
  /\ job[j].status = "completed" =>
       /\ \A s \in RunSeq : s < job[j].next => run[j][s] = "settled"
       /\ job[j].output = job[j].next
  /\ job[j].status = "error" => \E s \in RunSeq : run[j][s] = "faulted"

\* done is resolved once, with how the job ended, and then the scope is closed.
Resolves(j) ==
  /\ "done" \in owed[j] => job[j].status \in Terminal /\ done[j] = "none"
  /\ done[j] # "none" => job[j].status = done[j] /\ job[j].status # "running"
  /\ j \in closed => job[j].status # "running"
  /\ "promoted" \in owed[j] \/ promoted[j] => job[j].background

\* Until the scope is closed, a run is reached only when those before it are over.
Ordered(j) ==
  j \notin closed =>
    \A s \in RunSeq :
      /\ run[j][s] # "stopped"
      /\ run[j][s] \in {"working", "succeeded", "failed", "settled", "faulted"} =>
           \A t \in RunSeq : t < s => Released(j, t)

\* A caller that got a result knows whether the hook gets it too.
Informed(w) ==
  /\ waiter[w].job <= cur
  /\ waiter[w].answer # "none" =>
       /\ waiter[w].job # 0
       /\ waiter[w].answer = "background" <=> job[waiter[w].job].background
       /\ waiter[w].answer # "background" => job[waiter[w].job].status # "running"

IInv ==
  /\ TypeOK
  /\ \A j \in Job : Begun(j) /\ Counts(j) /\ Ended(j) /\ Resolves(j) /\ Ordered(j)
  /\ \A w \in Waiter : Informed(w)

------------------------------------------------------------------------------
(* Steps of one job.                                                       *)

\* A set of runs is finite.
LEMMA RunsFinite ==
  ASSUME BackgroundJobAssumption, NEW S \in SUBSET RunSeq
  PROVE  IsFiniteSet(S) /\ Cardinality(S) \in Nat
  <1>1. IsFiniteSet(RunSeq)
    BY FS_Interval DEF RunSeq, BackgroundJobAssumption
  <1> QED
    BY <1>1, FS_Subset, FS_CardinalityType

\* The types of the parts.
LEMMA Types ==
  ASSUME TypeOK
  PROVE  /\ cur \in 0..MaxJobs /\ job \in [Job -> Entry]
         /\ done \in [Job -> Terminal \union {"none"}] /\ promoted \in [Job -> BOOLEAN]
         /\ closed \subseteq Job /\ run \in [Job -> [RunSeq -> Stage]]
         /\ owed \in [Job -> SUBSET {"done", "promoted"}]
         /\ waiter \in [Waiter -> [job : 0..MaxJobs, answer : Status \union {"none", "background"}]]
  BY DEF TypeOK, Entry, Terminal, Stage

\* What holds of a job follows from the job alone.
LEMMA OtherJob ==
  ASSUME NEW i \in Job, Begun(i) /\ Counts(i) /\ Ended(i) /\ Resolves(i) /\ Ordered(i),
         cur' = cur \/ (cur' >= cur /\ i <= cur /\ i <= cur' /\ job[i].status # "running")
                    \/ (cur' >= cur /\ i > cur /\ i > cur'),
         job'[i] = job[i], done'[i] = done[i], promoted'[i] = promoted[i], owed'[i] = owed[i],
         run'[i] = run[i], i \in closed' <=> i \in closed,
         cur \in Nat, cur' \in Nat, i \in Nat
  PROVE  Begun(i)' /\ Counts(i)' /\ Ended(i)' /\ Resolves(i)' /\ Ordered(i)'
  <1>1. Unsettled(i)' = Unsettled(i)
    BY DEF Unsettled
  <1>2. \A t \in RunSeq : Released(i, t)' <=> Released(i, t)
    BY DEF Released
  <1>3. Begun(i)'
    BY DEF Begun
  <1>4. Counts(i)'
    BY <1>1 DEF Counts
  <1>5. Ended(i)' /\ Resolves(i)'
    BY DEF Ended, Resolves
  <1>6. Ordered(i)'
    BY <1>2 DEF Ordered
  <1> QED
    BY <1>3, <1>4, <1>5, <1>6

\* A step of one job that takes nothing back from those who were informed of it.
LEMMA OneJobInv ==
  ASSUME BackgroundJobAssumption, IInv, NEW j \in Job, UNCHANGED <<cur, waiter>>,
         job' \in [Job -> Entry], done' \in [Job -> Terminal \union {"none"}],
         promoted' \in [Job -> BOOLEAN], closed' \subseteq Job,
         run' \in [Job -> [RunSeq -> Stage]], owed' \in [Job -> SUBSET {"done", "promoted"}],
         \A i \in Job \ {j} : /\ job'[i] = job[i] /\ done'[i] = done[i]
                              /\ promoted'[i] = promoted[i] /\ owed'[i] = owed[i]
                              /\ run'[i] = run[i] /\ (i \in closed' <=> i \in closed),
         Begun(j)', Counts(j)', Ended(j)', Resolves(j)', Ordered(j)',
         job[j].background => job'[j].background,
         job[j].status # "running" =>
           job'[j].status # "running" /\ job'[j].background = job[j].background
  PROVE  IInv'
  <1>1. cur \in 0..MaxJobs /\ job \in [Job -> Entry]
        /\ waiter \in [Waiter -> [job : 0..MaxJobs, answer : Status \union {"none", "background"}]]
    BY Types DEF IInv
  <1>2. TypeOK'
    BY <1>1 DEF TypeOK, Entry, Terminal, Stage
  <1>3. ASSUME NEW i \in Job, i # j
        PROVE  Begun(i)' /\ Counts(i)' /\ Ended(i)' /\ Resolves(i)' /\ Ordered(i)'
    <2>1. i \in Nat /\ cur \in Nat
      BY <1>1 DEF Job, BackgroundJobAssumption
    <2> QED
      BY <1>3, <2>1, OtherJob DEF IInv
  <1>4. ASSUME NEW w \in Waiter PROVE Informed(w)'
    <2>1. Informed(w) /\ waiter[w].job \in 0..MaxJobs
      BY <1>1 DEF IInv
    <2>2. CASE waiter[w].answer = "none"
      BY <2>1, <2>2 DEF Informed
    <2>3. CASE waiter[w].answer # "none"
      <3>1. waiter[w].job \in Job
        BY <2>1, <2>3 DEF Informed, Job, BackgroundJobAssumption
      <3>2. CASE waiter[w].job # j
        BY <2>1, <2>3, <3>1, <3>2 DEF Informed
      <3>3. CASE waiter[w].job = j
        <4>1. job'[j].background \in BOOLEAN /\ job[j].background \in BOOLEAN
          BY <1>1 DEF Entry
        <4> QED
          BY <2>1, <2>3, <3>3, <4>1 DEF Informed
      <3> QED
        BY <3>2, <3>3
    <2> QED
      BY <2>2, <2>3
  <1> QED
    BY <1>2, <1>3, <1>4 DEF IInv

\* A run goes on, or is stopped.
LEMMA RunMovesInv ==
  ASSUME BackgroundJobAssumption, IInv, NEW j \in Job, NEW s \in RunSeq,
         NEW new \in {"queued", "working", "succeeded", "failed", "stopped"},
         run[j][s] \in {"accepted", "queued", "working", "succeeded", "failed"},
         run' = [run EXCEPT ![j][s] = new],
         UNCHANGED <<cur, job, done, promoted, closed, owed, waiter>>,
         new = "stopped" => j \in closed,
         new # "stopped" => run[j][s] \in {"accepted", "queued", "working"},
         new \in {"working", "succeeded", "failed"} =>
           j \in closed \/ \A t \in RunSeq : t < s => Released(j, t)
  PROVE  IInv'
  <1>1. /\ cur \in 0..MaxJobs /\ job \in [Job -> Entry]
        /\ done \in [Job -> Terminal \union {"none"}] /\ promoted \in [Job -> BOOLEAN]
        /\ closed \subseteq Job /\ run \in [Job -> [RunSeq -> Stage]]
        /\ owed \in [Job -> SUBSET {"done", "promoted"}]
    BY Types DEF IInv
  <1>2. /\ run' \in [Job -> [RunSeq -> Stage]] /\ run'[j][s] = new
        /\ \A t \in RunSeq \ {s} : run'[j][t] = run[j][t]
        /\ \A i \in Job \ {j} : run'[i] = run[i]
    BY <1>1 DEF Stage
  <1>3. Begun(j) /\ Counts(j) /\ Ended(j) /\ Resolves(j) /\ Ordered(j)
    BY DEF IInv
  <1>4. s < job[j].next
    BY <1>3 DEF Begun
  <1>5. Begun(j)'
    BY <1>2, <1>3 DEF Begun
  <1>6. Unsettled(j)' = Unsettled(j)
    BY <1>2 DEF Unsettled
  <1>7. Counts(j)'
    BY <1>2, <1>3, <1>6 DEF Counts, Resolves
  <1>8. Ended(j)'
    BY <1>2, <1>3, <1>4 DEF Ended
  <1>9. Resolves(j)'
    BY <1>3 DEF Resolves
  <1>10. j \notin closed => \A t \in RunSeq : Released(j, t) => Released(j, t)'
    BY <1>2 DEF Released
  <1>11. Ordered(j)'
    BY <1>2, <1>3, <1>10 DEF Ordered
  <1> QED
    BY <1>1, <1>2, <1>5, <1>7, <1>8, <1>9, <1>11, OneJobInv
LEMMA RunInv ==
  ASSUME BackgroundJobAssumption, IInv, NEW j \in Job, NEW s \in RunSeq,
         \/ Fork(j, s) \/ Work(j, s) \/ StopWork(j, s)
         \/ \E exit \in {"succeeded", "failed"} : EndWork(j, s, exit)
  PROVE  IInv'
  <1>1. Ordered(j)
    BY DEF IInv
  <1>2. CASE Fork(j, s)
    BY <1>2, RunMovesInv DEF Fork
  <1>3. CASE Work(j, s)
    <2>1. ASSUME j \notin closed, NEW t \in RunSeq, t < s PROVE Released(j, t)
      <3>1. s # 0 /\ s - 1 \in RunSeq /\ (t = s - 1 \/ t < s - 1)
        BY <2>1 DEF RunSeq, BackgroundJobAssumption
      <3>2. Released(j, s - 1)
        BY <1>3, <3>1 DEF Work
      <3>3. run[j][s - 1] \in {"working", "succeeded", "failed", "settled", "faulted"}
        BY <1>1, <2>1, <3>1, <3>2 DEF Released, Ordered
      <3>4. t < s - 1 => Released(j, t)
        BY <1>1, <2>1, <3>1, <3>3 DEF Ordered
      <3> QED
        BY <3>1, <3>2, <3>4
    <2> QED
      BY <1>3, <2>1, RunMovesInv DEF Work
  <1>4. CASE StopWork(j, s)
    BY <1>4, RunMovesInv DEF StopWork
  <1>5. CASE \E exit \in {"succeeded", "failed"} : EndWork(j, s, exit)
    <2>1. PICK exit \in {"succeeded", "failed"} : EndWork(j, s, exit)
      BY <1>5
    <2>2. j \notin closed => \A t \in RunSeq : t < s => Released(j, t)
      BY <1>1, <2>1 DEF EndWork, Ordered
    <2> QED
      BY <2>1, <2>2, RunMovesInv DEF EndWork
  <1> QED
    BY <1>2, <1>3, <1>4, <1>5

\* The entry of a running job after one of its runs.
LEMMA AfterRunIs ==
  ASSUME BackgroundJobAssumption, NEW e \in Entry, NEW s \in RunSeq, e.pending > 0,
         e.status = "running",
         NEW exit \in {"succeeded", "failed"}, NEW failure \in Failure
  PROVE  LET f == AfterRun(e, s, exit, failure) IN
         /\ f \in Entry /\ f.next = e.next /\ f.background = e.background
         /\ exit = "failed" => f.status \in Failure
         /\ exit = "succeeded" =>
              /\ f.output = IF s + 1 > e.output THEN s + 1 ELSE e.output
              /\ f.pending = e.pending - 1
              /\ f.status = IF e.pending - 1 > 0 THEN "running" ELSE "completed"
  <1> DEFINE p == e.pending - 1
             o == IF exit = "succeeded" /\ s + 1 > e.output THEN s + 1 ELSE e.output
  <1>1. p \in 0..MaxRuns /\ o \in 0..MaxRuns
    BY DEF Entry, RunSeq, BackgroundJobAssumption
  <1> HIDE DEF p, o
  <1>2. CASE exit = "succeeded" /\ p > 0
    <2> DEFINE f == [e EXCEPT !.pending = p, !.output = o]
    <2>1. AfterRun(e, s, exit, failure) = f
      BY <1>2 DEF AfterRun, p, o
    <2>2. f \in Entry /\ f.next = e.next /\ f.background = e.background /\ f.output = o
          /\ f.pending = p /\ f.status = e.status
      BY <1>1 DEF Entry
    <2> HIDE DEF f
    <2> QED
      BY <1>2, <2>1, <2>2 DEF p, o
  <1>3. CASE ~(exit = "succeeded" /\ p > 0)
    <2> DEFINE st == IF exit = "succeeded" THEN "completed" ELSE failure
               f == [e EXCEPT !.pending = 0, !.output = o, !.status = st]
    <2>1. AfterRun(e, s, exit, failure) = f
      BY <1>3 DEF AfterRun, p, o
    <2>2. st \in Status \union {"none"} /\ 0 \in 0..MaxRuns
      BY DEF Status, Failure, BackgroundJobAssumption
    <2> HIDE DEF st
    <2>3. f \in Entry /\ f.next = e.next /\ f.background = e.background /\ f.output = o
          /\ f.pending = 0 /\ f.status = st
      BY <1>1, <2>2 DEF Entry
    <2> HIDE DEF f
    <2>4. exit = "succeeded" => p = 0
      BY <1>1, <1>3
    <2> QED
      BY <2>1, <2>3, <2>4, <1>3 DEF p, o, st
  <1> QED
    BY <1>2, <1>3

\* The end of a run is told to the registry.
LEMMA SettleInv ==
  ASSUME BackgroundJobAssumption, IInv, NEW j \in Job, NEW s \in RunSeq, Settle(j, s)
  PROVE  IInv'
  <1> DEFINE exit == run[j][s]
             new == IF exit = "succeeded" THEN "settled" ELSE "faulted"
  <1>1. /\ cur \in 0..MaxJobs /\ job \in [Job -> Entry]
        /\ done \in [Job -> Terminal \union {"none"}] /\ promoted \in [Job -> BOOLEAN]
        /\ closed \subseteq Job /\ run \in [Job -> [RunSeq -> Stage]]
        /\ owed \in [Job -> SUBSET {"done", "promoted"}]
    BY Types DEF IInv
  <1>2. exit \in {"succeeded", "failed"} /\ UNCHANGED <<cur, done, promoted, closed, waiter>>
    BY DEF Settle
  <1>3. run' = [run EXCEPT ![j][s] = new]
    BY DEF Settle
  <1>4. /\ run' \in [Job -> [RunSeq -> Stage]] /\ run'[j][s] = new
        /\ \A t \in RunSeq \ {s} : run'[j][t] = run[j][t]
        /\ \A i \in Job \ {j} : run'[i] = run[i]
    BY <1>1, <1>3 DEF Stage
  <1>5. Begun(j) /\ Counts(j) /\ Ended(j) /\ Resolves(j) /\ Ordered(j)
    BY DEF IInv
  <1>6. s < job[j].next /\ job[j].status # "completed" /\ j \in Nat /\ cur \in Nat /\ j # 0
    BY <1>1, <1>2, <1>5 DEF Begun, Ended, Job, BackgroundJobAssumption
  <1>7. j <= cur /\ job[j].status # "none"
    BY <1>1, <1>5, <1>6 DEF Begun, NoJob, RunSeq, BackgroundJobAssumption
  <1>8. (\A t \in RunSeq : Released(j, t) => Released(j, t)') /\ new \in {"settled", "faulted"}
    BY <1>2, <1>4 DEF Released
  <1>9. Ordered(j)'
    BY <1>2, <1>4, <1>5, <1>8 DEF Ordered
  <1>10. CASE ~(j = cur /\ Running)
    <2>1. UNCHANGED <<job, owed>> /\ job[j].status # "running"
      <3>1. UNCHANGED <<job, owed>>
        BY <1>10 DEF Settle
      <3>2. j < cur \/ (j = cur /\ ~Running)
        BY <1>6, <1>7, <1>10
      <3> QED
        BY <1>5, <1>6, <3>1, <3>2 DEF Running, Begun
    <2>2. Begun(j)' /\ Counts(j)' /\ Resolves(j)'
      BY <1>2, <1>4, <1>5, <1>8, <2>1 DEF Begun, Counts, Resolves
    <2>3. Ended(j)'
      BY <1>2, <1>4, <1>5, <1>6, <2>1 DEF Ended
    <2> QED
      BY <1>1, <1>2, <1>4, <1>9, <2>1, <2>2, <2>3, OneJobInv
  <1>11. CASE j = cur /\ Running
    <2>0. PICK failure \in Failure :
            job' = [job EXCEPT ![j] = AfterRun(job[j], s, exit, failure)]
      BY <1>11 DEF Settle
    <2> DEFINE e == job[j]
               f == AfterRun(e, s, exit, failure)
    <2>1. /\ job' = [job EXCEPT ![j] = f]
          /\ owed' = [owed EXCEPT ![j] = IF job'[j].status = "running" THEN owed[j]
                                         ELSE owed[j] \union {"done"}]
          /\ e.status = "running" /\ e \in Entry
      BY <1>1, <1>11, <2>0 DEF Settle, Running
    <2>2. /\ e.pending = Cardinality(Unsettled(j))
          /\ \A t \in RunSeq : /\ run[j][t] \notin {"faulted", "stopped"}
                               /\ run[j][t] = "settled" => t < e.output
          /\ e.output <= e.next
      BY <1>5, <2>1 DEF Counts
    <2>3. s \in Unsettled(j) /\ IsFiniteSet(Unsettled(j))
          /\ Cardinality(Unsettled(j) \ {s}) = Cardinality(Unsettled(j)) - 1
          /\ Cardinality(Unsettled(j)) \in Nat \ {0}
      <3>1. s \in Unsettled(j)
        BY <1>2, <1>6 DEF Unsettled
      <3>2. IsFiniteSet(Unsettled(j)) /\ Cardinality(Unsettled(j)) \in Nat
        BY RunsFinite DEF Unsettled
      <3> QED
        BY <3>1, <3>2, FS_RemoveElement, FS_EmptySet
    <2>4. e.pending > 0
      BY <2>2, <2>3
    <2>5. /\ f \in Entry /\ f.next = e.next /\ f.background = e.background
          /\ exit = "failed" => f.status \in Failure
          /\ exit = "succeeded" =>
               /\ f.output = IF s + 1 > e.output THEN s + 1 ELSE e.output
               /\ f.pending = e.pending - 1
               /\ f.status = IF e.pending - 1 > 0 THEN "running" ELSE "completed"
      BY <1>2, <2>1, <2>4, AfterRunIs
    <2> HIDE DEF f
    <2>6. /\ job' \in [Job -> Entry] /\ job'[j] = f /\ \A i \in Job \ {j} : job'[i] = job[i]
          /\ owed' \in [Job -> SUBSET {"done", "promoted"}]
          /\ \A i \in Job \ {j} : owed'[i] = owed[i]
          /\ owed'[j] = IF f.status = "running" THEN owed[j] ELSE owed[j] \union {"done"}
      BY <1>1, <2>1, <2>5
    <2>7. f.status \in {"running", "completed", "error", "cancelled"}
      BY <1>2, <2>5 DEF Failure
    <2>8. done[j] = "none" /\ j \notin closed
      BY <1>5, <2>1 DEF Resolves
    <2>9. Begun(j)'
      <3>1. \A t \in RunSeq : run'[j][t] # "none" <=> run[j][t] # "none"
        BY <1>2, <1>4
      <3>2. ~(j > cur) /\ ~(j < cur)
        BY <1>6, <1>11
      <3> QED
        BY <1>2, <1>5, <2>5, <2>6, <2>7, <3>1, <3>2 DEF Begun
    <2>10. Resolves(j)'
      <3>1. "done" \notin owed[j] /\ ("promoted" \in owed[j] \/ promoted[j] => f.background)
        BY <1>5, <2>1, <2>5 DEF Resolves, Terminal
      <3>2. "done" \in owed'[j] => f.status \in Terminal
        BY <2>6, <2>7, <3>1 DEF Terminal, Status
      <3>3. "promoted" \in owed'[j] => "promoted" \in owed[j]
        BY <2>6
      <3> QED
        BY <1>2, <2>6, <2>8, <3>1, <3>2, <3>3 DEF Resolves
    <2>11. exit = "succeeded" => Unsettled(j)' = Unsettled(j) \ {s}
      BY <1>4, <2>5, <2>6 DEF Unsettled
    <2>12. exit = "succeeded" =>
             /\ f.output <= f.next /\ \A t \in RunSeq : /\ run'[j][t] \notin {"faulted", "stopped"}
                                                        /\ run'[j][t] = "settled" => t < f.output
      <3> SUFFICES ASSUME exit = "succeeded", NEW t \in RunSeq
                   PROVE  /\ f.output <= f.next
                          /\ run'[j][t] \notin {"faulted", "stopped"}
                          /\ run'[j][t] = "settled" => t < f.output
        BY 0 \in RunSeq DEF RunSeq, BackgroundJobAssumption
      <3>1. e.output \in Nat /\ e.next \in Nat /\ s \in Nat /\ t \in Nat
        BY <2>1 DEF Entry, RunSeq, BackgroundJobAssumption
      <3>2. f.output <= f.next /\ e.output <= f.output /\ s < f.output
        BY <1>6, <2>2, <2>5, <3>1
      <3>3. f.output \in Nat
        BY <2>5 DEF Entry, BackgroundJobAssumption
      <3>4. CASE t = s
        BY <1>4, <3>1, <3>2, <3>3, <3>4
      <3>5. CASE t # s
        <4>1. run'[j][t] = run[j][t]
          BY <1>4, <3>5
        <4>2. run[j][t] \notin {"faulted", "stopped"} /\ (run[j][t] = "settled" => t < e.output)
          BY <2>2
        <4> QED
          BY <3>1, <3>2, <3>3, <4>1, <4>2
      <3> QED
        BY <3>4, <3>5
    <2>13. Counts(j)'
      <3> SUFFICES ASSUME f.status = "running"
                   PROVE  /\ f.pending = Cardinality(Unsettled(j)')
                          /\ \A t \in RunSeq : /\ run'[j][t] \notin {"faulted", "stopped"}
                                               /\ run'[j][t] = "settled" => t < f.output
                          /\ f.output <= f.next
        BY <2>6 DEF Counts
      <3>1. exit = "succeeded"
        BY <1>2, <2>5 DEF Failure
      <3> QED
        BY <2>2, <2>3, <2>5, <2>11, <2>12, <3>1
    <2>14. Ended(j)'
      <3>1. CASE exit = "failed"
        BY <1>4, <2>5, <2>6, <3>1 DEF Ended, Failure
      <3>2. CASE exit = "succeeded"
        <4> SUFFICES ASSUME f.status = "completed"
                     PROVE  /\ \A t \in RunSeq : t < f.next => run'[j][t] = "settled"
                            /\ f.output = f.next
          BY <2>5, <2>6, <3>2 DEF Ended
        <4>1. Cardinality(Unsettled(j) \ {s}) = 0
          BY <2>2, <2>3, <2>5, <3>2
        <4>2. Unsettled(j) \ {s} = {}
          BY <2>3, <4>1, FS_EmptySet, FS_Subset
        <4>3. \A t \in RunSeq : t < f.next => run'[j][t] = "settled"
          BY <1>4, <2>5, <3>2, <4>2 DEF Unsettled
        <4>4. f.next - 1 \in RunSeq /\ f.next - 1 < f.next /\ f.next \in Nat /\ f.output \in Nat
          BY <1>6, <2>5 DEF RunSeq, Entry, BackgroundJobAssumption
        <4>5. f.next - 1 < f.output /\ f.output <= f.next
          BY <2>12, <3>2, <4>3, <4>4
        <4> QED
          BY <4>3, <4>4, <4>5
      <3> QED
        BY <1>2, <3>1, <3>2
    <2> QED
      BY <1>1, <1>2, <1>4, <1>9, <2>1, <2>5, <2>6, <2>9, <2>10, <2>13, <2>14, OneJobInv
  <1> QED
    BY <1>10, <1>11
\* cancel, promote, and what they and settle leave to be done.
LEMMA OperationInv ==
  ASSUME BackgroundJobAssumption, IInv, Cancel \/ Promote
  PROVE  IInv'
  <1>1. /\ cur \in 0..MaxJobs /\ job \in [Job -> Entry]
        /\ done \in [Job -> Terminal \union {"none"}] /\ promoted \in [Job -> BOOLEAN]
        /\ closed \subseteq Job /\ run \in [Job -> [RunSeq -> Stage]]
        /\ owed \in [Job -> SUBSET {"done", "promoted"}]
    BY Types DEF IInv
  <1>2. cur \in Job /\ cur \in Nat /\ job[cur].status = "running"
        /\ UNCHANGED <<cur, done, promoted, closed, run, waiter>>
    BY <1>1 DEF Cancel, Promote, Running, Job
  <1>3. Begun(cur) /\ Counts(cur) /\ Ended(cur) /\ Resolves(cur) /\ Ordered(cur)
    BY <1>2 DEF IInv
  <1>4. done[cur] = "none" /\ "done" \notin owed[cur] /\ cur \notin closed
    BY <1>2, <1>3 DEF Resolves, Terminal
  <1>5. PICK e \in Entry, due \in {"done", "promoted"} :
          /\ job' = [job EXCEPT ![cur] = e]
          /\ owed' = [owed EXCEPT ![cur] = owed[cur] \union {due}]
          /\ e.next = job[cur].next /\ e.output = job[cur].output
          /\ \/ due = "done" /\ e.status = "cancelled" /\ e.background = job[cur].background
             \/ due = "promoted" /\ e.status = "running" /\ e.background
                /\ e.pending = job[cur].pending
    <2>1. CASE Cancel
      <3> DEFINE e == [job[cur] EXCEPT !.status = "cancelled", !.pending = 0]
      <3>1. e \in Entry /\ e.next = job[cur].next /\ e.output = job[cur].output
            /\ e.status = "cancelled" /\ e.background = job[cur].background
        <4>1. "cancelled" \in Status \union {"none"} /\ 0 \in 0..MaxRuns
          BY DEF Status, BackgroundJobAssumption
        <4> QED
          BY <1>1, <1>2, <4>1 DEF Entry
      <3>2. job' = [job EXCEPT ![cur] = e] /\ owed' = [owed EXCEPT ![cur] = owed[cur] \union {"done"}]
        BY <2>1 DEF Cancel
      <3> QED
        BY <3>1, <3>2
    <2>2. CASE Promote
      <3> DEFINE e == [job[cur] EXCEPT !.background = TRUE]
      <3>1. e \in Entry /\ e.next = job[cur].next /\ e.output = job[cur].output
            /\ e.status = "running" /\ e.background /\ e.pending = job[cur].pending
        BY <1>1, <1>2 DEF Entry
      <3>2. job' = [job EXCEPT ![cur] = e]
            /\ owed' = [owed EXCEPT ![cur] = owed[cur] \union {"promoted"}]
        BY <2>2 DEF Promote
      <3> QED
        BY <3>1, <3>2
    <2> QED
      BY <2>1, <2>2
  <1>6. /\ job' \in [Job -> Entry] /\ job'[cur] = e
        /\ owed' \in [Job -> SUBSET {"done", "promoted"}] /\ owed'[cur] = owed[cur] \union {due}
        /\ \A i \in Job \ {cur} : job'[i] = job[i] /\ owed'[i] = owed[i]
    BY <1>1, <1>2, <1>5
  <1>7. PICK c \in Job : c = cur
    BY <1>2
  <1>8. Begun(c)' /\ Ended(c)'
    BY <1>2, <1>3, <1>5, <1>6, <1>7 DEF Begun, Ended
  <1>9. Counts(c)'
    <2>1. Unsettled(c)' = Unsettled(c)
      BY <1>2, <1>5, <1>6, <1>7 DEF Unsettled
    <2> QED
      BY <1>2, <1>3, <1>5, <1>6, <1>7, <2>1 DEF Counts
  <1>10. Resolves(c)'
    BY <1>2, <1>3, <1>4, <1>5, <1>6, <1>7 DEF Resolves, Terminal, Status
  <1>11. Ordered(c)'
    BY <1>2, <1>3, <1>7 DEF Ordered, Released
  <1> QED
    BY <1>1, <1>2, <1>5, <1>6, <1>7, <1>8, <1>9, <1>10, <1>11, OneJobInv

LEMMA ResolveInv ==
  ASSUME BackgroundJobAssumption, IInv, NEW j \in Job, JobStep(j)
  PROVE  IInv'
  <1>1. /\ cur \in 0..MaxJobs /\ job \in [Job -> Entry]
        /\ done \in [Job -> Terminal \union {"none"}] /\ promoted \in [Job -> BOOLEAN]
        /\ closed \subseteq Job /\ run \in [Job -> [RunSeq -> Stage]]
        /\ owed \in [Job -> SUBSET {"done", "promoted"}]
    BY Types DEF IInv
  <1>2. Begun(j) /\ Counts(j) /\ Ended(j) /\ Resolves(j) /\ Ordered(j)
    BY DEF IInv
  <1>3. UNCHANGED <<cur, job, run, waiter>>
    BY DEF JobStep, ResolveDone, ResolvePromoted
  <1>4. Unsettled(j)' = Unsettled(j) /\ Ended(j)' /\ Counts(j)'
    <2>1. Unsettled(j)' = Unsettled(j)
      BY <1>3 DEF Unsettled
    <2> QED
      BY <1>2, <1>3, <2>1 DEF Ended, Counts
  <1>5. CASE ResolveDone(j)
    <2>1. /\ "done" \in owed[j] /\ job[j].status \in Terminal /\ promoted' = promoted
          /\ done' = [done EXCEPT ![j] = job[j].status]
          /\ closed' = closed \union {j} /\ owed' = [owed EXCEPT ![j] = owed[j] \ {"done"}]
      BY <1>2, <1>5 DEF ResolveDone, Resolves
    <2>2. /\ done' \in [Job -> Terminal \union {"none"}] /\ done'[j] = job[j].status
          /\ owed' \in [Job -> SUBSET {"done", "promoted"}] /\ owed'[j] = owed[j] \ {"done"}
          /\ \A i \in Job \ {j} : done'[i] = done[i] /\ owed'[i] = owed[i]
          /\ closed' \subseteq Job
      BY <1>1, <2>1
    <2>3. j <= cur
      BY <1>1, <1>2, <2>1 DEF Begun, Job
    <2>4. Begun(j)'
      BY <1>1, <1>2, <1>3, <2>3 DEF Begun, Job
    <2>5. Resolves(j)'
      BY <1>2, <1>3, <2>1, <2>2 DEF Resolves, Terminal
    <2>6. Ordered(j)'
      BY <2>1 DEF Ordered
    <2> QED
      BY <1>1, <1>3, <1>4, <2>1, <2>2, <2>4, <2>5, <2>6, OneJobInv
  <1>6. CASE ResolvePromoted(j)
    <2>1. /\ "promoted" \in owed[j] /\ UNCHANGED <<done, closed>>
          /\ promoted' = [promoted EXCEPT ![j] = TRUE]
          /\ owed' = [owed EXCEPT ![j] = owed[j] \ {"promoted"}]
      BY <1>6 DEF ResolvePromoted
    <2>2. /\ promoted' \in [Job -> BOOLEAN] /\ owed'[j] = owed[j] \ {"promoted"}
          /\ owed' \in [Job -> SUBSET {"done", "promoted"}]
          /\ \A i \in Job \ {j} : promoted'[i] = promoted[i] /\ owed'[i] = owed[i]
      BY <1>1, <2>1
    <2>3. j <= cur
      BY <1>1, <1>2, <2>1 DEF Begun, Job
    <2>4. Begun(j)'
      BY <1>1, <1>2, <1>3, <2>3 DEF Begun, Job
    <2>5. Resolves(j)'
      BY <1>2, <1>3, <2>1, <2>2 DEF Resolves
    <2>6. Ordered(j)'
      BY <1>2, <1>3, <2>1 DEF Ordered, Released
    <2> QED
      BY <1>1, <1>3, <1>4, <2>1, <2>2, <2>4, <2>5, <2>6, OneJobInv
  <1> QED
    BY <1>5, <1>6 DEF JobStep

\* One more run of the running job.
LEMMA ExtendInv ==
  ASSUME BackgroundJobAssumption, IInv, Extend
  PROVE  IInv'
  <1>1. /\ cur \in 0..MaxJobs /\ job \in [Job -> Entry]
        /\ done \in [Job -> Terminal \union {"none"}] /\ promoted \in [Job -> BOOLEAN]
        /\ closed \subseteq Job /\ run \in [Job -> [RunSeq -> Stage]]
        /\ owed \in [Job -> SUBSET {"done", "promoted"}]
    BY Types DEF IInv
  <1>2. cur \in Job /\ job[cur].status = "running" /\ job[cur].next < MaxRuns
        /\ UNCHANGED <<cur, done, promoted, closed, owed, waiter>>
    BY <1>1 DEF Extend, Running, Job
  <1>3. PICK c \in Job : c = cur
    BY <1>2
  <1>4. Begun(c) /\ Counts(c) /\ Ended(c) /\ Resolves(c) /\ Ordered(c)
    BY DEF IInv
  <1> DEFINE n == job[c].next
  <1>5. PICK m \in RunSeq : m = job[c].next
    BY <1>1, <1>2, <1>3 DEF Entry, RunSeq, BackgroundJobAssumption
  <1>6. job[c].pending = Cardinality(Unsettled(c)) /\ IsFiniteSet(Unsettled(c))
        /\ Unsettled(c) \subseteq 0..(m - 1) /\ Cardinality(Unsettled(c)) \in Nat
        /\ m \notin Unsettled(c)
    BY <1>2, <1>3, <1>4, <1>5, RunsFinite DEF Counts, Unsettled, RunSeq, BackgroundJobAssumption
  <1>7. Cardinality(Unsettled(c)) <= m
    <2>1. m - 1 \in Int /\ 0 \in Int /\ m \in Nat
      BY DEF RunSeq, BackgroundJobAssumption
    <2>2. IsFiniteSet(0..(m - 1)) /\ Cardinality(0..(m - 1)) = m
      BY <2>1, FS_Interval
    <2> QED
      BY <1>6, <2>2, FS_Subset
  <1> DEFINE e == [job[c] EXCEPT !.pending = job[c].pending + 1, !.next = job[c].next + 1]
  <1>8. /\ e \in Entry /\ e.next = m + 1 /\ e.pending = job[c].pending + 1
        /\ e.status = "running" /\ e.output = job[c].output /\ e.background = job[c].background
    <2>1. job[c].pending + 1 \in 0..MaxRuns /\ job[c].next + 1 \in 0..MaxRuns
      BY <1>5, <1>6, <1>7 DEF RunSeq, BackgroundJobAssumption
    <2> QED
      BY <1>1, <1>2, <1>3, <1>5, <2>1 DEF Entry
  <1>9. job' = [job EXCEPT ![c] = e] /\ run' = [run EXCEPT ![c][m] = "accepted"]
    BY <1>3, <1>5 DEF Extend
  <1> HIDE DEF e
  <1>10. /\ job' \in [Job -> Entry] /\ job'[c] = e /\ \A i \in Job \ {c} : job'[i] = job[i]
         /\ run' \in [Job -> [RunSeq -> Stage]] /\ run'[c][m] = "accepted"
         /\ \A t \in RunSeq \ {m} : run'[c][t] = run[c][t]
         /\ \A i \in Job \ {c} : run'[i] = run[i]
    BY <1>1, <1>5, <1>8, <1>9 DEF Stage
  <1>11. m \in Nat /\ \A t \in RunSeq : t \in Nat
    BY DEF RunSeq, BackgroundJobAssumption
  <1>12. Begun(c)'
    <2>1. \A t \in RunSeq : run'[c][t] # "none" <=> t < m + 1
      <3>1. \A t \in RunSeq \ {m} : t < m + 1 <=> t < m
        BY <1>11
      <3>2. \A t \in RunSeq : run[c][t] # "none" <=> t < m
        BY <1>4, <1>5 DEF Begun
      <3>3. \A t \in RunSeq \ {m} : run'[c][t] # "none" <=> t < m + 1
        BY <1>10, <3>1, <3>2
      <3>4. run'[c][m] # "none" /\ m < m + 1
        BY <1>10, <1>11
      <3> QED
        BY <3>3, <3>4
    <2>2. ~(c > cur) /\ ~(c < cur)
      BY <1>1, <1>3
    <2> QED
      BY <1>2, <1>8, <1>10, <2>1, <2>2 DEF Begun
  <1>13. Counts(c)'
    <2>1. Unsettled(c)' = Unsettled(c) \union {m}
      <3>1. \A t \in RunSeq : t < m + 1 <=> t < m \/ t = m
        BY <1>11
      <3>2. \A t \in RunSeq \ {m} :
              t < m + 1 /\ run'[c][t] # "settled" <=> t < m /\ run[c][t] # "settled"
        BY <1>10, <3>1
      <3>3. m < m + 1 /\ run'[c][m] # "settled"
        BY <1>10, <1>11
      <3>4. Unsettled(c)' = {t \in RunSeq : t < m + 1 /\ run'[c][t] # "settled"}
        BY <1>8, <1>10 DEF Unsettled
      <3>5. Unsettled(c) = {t \in RunSeq : t < m /\ run[c][t] # "settled"}
        BY <1>5 DEF Unsettled
      <3> QED
        BY <3>2, <3>3, <3>4, <3>5
    <2>2. Cardinality(Unsettled(c)') = Cardinality(Unsettled(c)) + 1
      BY <1>6, <2>1, FS_AddElement
    <2>3. job[c].output \in Nat /\ job[c].output <= m
      BY <1>1, <1>2, <1>3, <1>4, <1>5 DEF Entry, Counts, BackgroundJobAssumption
    <2> QED
      BY <1>2, <1>3, <1>4, <1>6, <1>8, <1>10, <1>11, <2>2, <2>3 DEF Counts
  <1>14. Ended(c)' /\ Resolves(c)'
    BY <1>2, <1>3, <1>4, <1>8, <1>10 DEF Ended, Resolves, Terminal
  <1>15. run[c][m] = "none"
    BY <1>1, <1>4, <1>5, <1>11 DEF Begun
  <1>16. Ordered(c)'
    BY <1>2, <1>4, <1>10, <1>15 DEF Ordered, Released
  <1> QED
    BY <1>1, <1>2, <1>3, <1>8, <1>10, <1>12, <1>13, <1>14, <1>16, OneJobInv
\* A job takes the id after one that has ended.
LEMMA StartInv ==
  ASSUME BackgroundJobAssumption, IInv, Start
  PROVE  IInv'
  <1>1. /\ cur \in 0..MaxJobs /\ job \in [Job -> Entry]
        /\ done \in [Job -> Terminal \union {"none"}] /\ promoted \in [Job -> BOOLEAN]
        /\ closed \subseteq Job /\ run \in [Job -> [RunSeq -> Stage]]
        /\ owed \in [Job -> SUBSET {"done", "promoted"}]
        /\ waiter \in [Waiter -> [job : 0..MaxJobs, answer : Status \union {"none", "background"}]]
    BY Types DEF IInv
  <1>2. cur + 1 \in Job /\ cur' = cur + 1 /\ cur \in Nat /\ cur' \in 0..MaxJobs
        /\ UNCHANGED <<done, promoted, closed, owed, waiter>> /\ 0 \in RunSeq
    BY <1>1 DEF Start, Job, RunSeq, BackgroundJobAssumption
  <1>3. PICK c \in Job : c = cur + 1
    BY <1>2
  <1>4. Begun(c) /\ Counts(c) /\ Ended(c) /\ Resolves(c) /\ Ordered(c)
    BY DEF IInv
  <1>5. /\ job[c] = NoJob /\ done[c] = "none" /\ owed[c] = {} /\ ~promoted[c] /\ c \notin closed
        /\ c > cur
    BY <1>1, <1>2, <1>3, <1>4 DEF Begun
  <1>6. \A s \in RunSeq : s \in Nat /\ run[c][s] = "none"
    BY <1>4, <1>5 DEF Begun, NoJob, RunSeq, BackgroundJobAssumption
  <1> DEFINE e == [NoJob EXCEPT !.status = "running", !.pending = 1, !.next = 1]
  <1>7. /\ e \in Entry /\ e.status = "running" /\ e.pending = 1 /\ e.next = 1 /\ e.output = 0
        /\ ~e.background
    <2>1. "running" \in Status /\ 1 \in 0..MaxRuns /\ 0 \in 0..MaxRuns
      BY DEF Status, BackgroundJobAssumption
    <2>2. NoJob \in Entry /\ NoJob.output = 0 /\ ~NoJob.background
      BY <2>1 DEF NoJob, Entry
    <2> QED
      BY <2>1, <2>2 DEF Entry
  <1>8. job' = [job EXCEPT ![c] = e] /\ run' = [run EXCEPT ![c][0] = "accepted"]
    BY <1>2, <1>3 DEF Start
  <1> HIDE DEF e
  <1>9. /\ job' \in [Job -> Entry] /\ job'[c] = e /\ \A i \in Job \ {c} : job'[i] = job[i]
        /\ run' \in [Job -> [RunSeq -> Stage]] /\ run'[c][0] = "accepted"
        /\ \A t \in RunSeq \ {0} : run'[c][t] = "none"
        /\ \A i \in Job \ {c} : run'[i] = run[i]
    BY <1>1, <1>2, <1>6, <1>7, <1>8 DEF Stage
  <1>10. TypeOK'
    BY <1>1, <1>2, <1>9 DEF TypeOK, Entry, Terminal, Stage
  <1>11. Begun(c)'
    <2>1. \A t \in RunSeq : run'[c][t] # "none" <=> t < 1
      BY <1>6, <1>9
    <2>2. ~(c > cur') /\ ~(c < cur')
      BY <1>2, <1>3
    <2> QED
      BY <1>7, <1>9, <2>1, <2>2 DEF Begun
  <1>12. Counts(c)'
    <2>1. Unsettled(c)' = {0}
      BY <1>2, <1>6, <1>7, <1>9 DEF Unsettled
    <2>2. Cardinality({0}) = 1
      BY FS_Singleton
    <2>3. \A t \in RunSeq : run'[c][t] \in {"none", "accepted"}
      BY <1>9
    <2> QED
      BY <1>7, <1>9, <2>1, <2>2, <2>3 DEF Counts
  <1>13. Ended(c)' /\ Resolves(c)'
    BY <1>2, <1>5, <1>7, <1>9 DEF Ended, Resolves
  <1>14. Ordered(c)'
    <2>1. \A t \in RunSeq : run'[c][t] \in {"none", "accepted"}
      BY <1>9
    <2> QED
      BY <2>1 DEF Ordered
  <1>15. ASSUME NEW i \in Job, i # c
         PROVE  Begun(i)' /\ Counts(i)' /\ Ended(i)' /\ Resolves(i)' /\ Ordered(i)'
    <2>1. i \in Nat /\ i # 0 /\ cur' \in Nat /\ cur' >= cur
      BY <1>2 DEF Job, BackgroundJobAssumption
    <2>2. (i <= cur /\ i <= cur') \/ (i > cur /\ i > cur')
      BY <1>2, <1>3, <1>15, <2>1
    <2>3. i <= cur => job[i].status # "running"
      <3>1. i < cur \/ i > cur \/ i = cur
        BY <1>2, <2>1
      <3>2. Begun(i)
        BY DEF IInv
      <3> QED
        BY <1>2, <2>1, <3>1, <3>2 DEF Begun, Start, Running
    <2> QED
      BY <1>2, <1>9, <1>15, <2>1, <2>2, <2>3, OtherJob DEF IInv
  <1>16. ASSUME NEW w \in Waiter PROVE Informed(w)'
    <2>1. Informed(w) /\ waiter[w].job \in 0..MaxJobs
      BY <1>1 DEF IInv
    <2>2. waiter[w].job <= cur' /\ waiter[w].job # c
      BY <1>2, <1>3, <2>1 DEF Informed
    <2>3. waiter[w].job # 0 => job'[waiter[w].job] = job[waiter[w].job]
      BY <1>9, <2>1, <2>2 DEF Job, BackgroundJobAssumption
    <2> QED
      BY <1>2, <2>1, <2>2, <2>3 DEF Informed
  <1> QED
    BY <1>10, <1>11, <1>12, <1>13, <1>14, <1>15, <1>16 DEF IInv

\* A caller waits, or is told.
LEMMA WaiterInv ==
  ASSUME BackgroundJobAssumption, IInv, NEW w \in Waiter, Wait(w) \/ Return(w)
  PROVE  IInv'
  <1>1. /\ cur \in 0..MaxJobs /\ job \in [Job -> Entry]
        /\ done \in [Job -> Terminal \union {"none"}]
        /\ waiter \in [Waiter -> [job : 0..MaxJobs, answer : Status \union {"none", "background"}]]
    BY Types DEF IInv
  <1>2. UNCHANGED <<cur, job, done, promoted, closed, run, owed>>
    BY DEF Wait, Return
  <1>3. PICK i \in Job, a \in Status \union {"none", "background"} :
          /\ waiter' = [waiter EXCEPT ![w] = [job |-> i, answer |-> a]]
          /\ i <= cur
          /\ a # "none" => /\ a = "background" <=> job[i].background
                           /\ a # "background" => job[i].status # "running"
    <2>1. CASE Wait(w)
      <3>1. cur \in Job /\ job[cur] \in Entry /\ Begun(cur)
        BY <1>1, <2>1 DEF Wait, Job, IInv
      <3> DEFINE a == IF Running /\ ~job[cur].background THEN "none" ELSE Answer(cur)
      <3>2. waiter' = [waiter EXCEPT ![w] = [job |-> cur, answer |-> a]] /\ cur <= cur
        BY <1>1, <2>1 DEF Wait
      <3>3. job[cur].status \in Status \union {"none"} /\ job[cur].background \in BOOLEAN
        BY <3>1 DEF Entry
      <3>4. Running <=> job[cur].status = "running"
        BY <2>1 DEF Running, Wait
      <3>5. a \in Status \union {"none", "background"}
        BY <3>3 DEF Answer
      <3>6. job[cur].status # "background"
        BY <3>3 DEF Status
      <3>7. a # "none" => /\ a = "background" <=> job[cur].background
                          /\ a # "background" => job[cur].status # "running"
        BY <3>3, <3>4, <3>6 DEF Answer
      <3> HIDE DEF a
      <3> QED
        BY <3>1, <3>2, <3>5, <3>7
    <2>2. CASE Return(w)
      <3> DEFINE i == waiter[w].job
                 a == IF promoted[i] THEN "background" ELSE Answer(i)
      <3>1. Informed(w) /\ i \in Job /\ i <= cur
        BY <1>1, <2>2 DEF Return, IInv, Informed, Job, BackgroundJobAssumption
      <3>2. Resolves(i) /\ job[i] \in Entry
        BY <1>1, <3>1 DEF IInv
      <3>3. done[i] # "none" \/ promoted[i]
        BY <2>2 DEF Return
      <3>4. job[i].status \in Status \union {"none"} /\ job[i].background \in BOOLEAN
            /\ job[i].status # "background"
        BY <3>2 DEF Entry, Status
      <3>5. a \in Status \union {"none", "background"}
        BY <3>4 DEF Answer
      <3>6. /\ a = "background" <=> job[i].background
            /\ a # "background" => job[i].status # "running"
        BY <3>2, <3>3, <3>4 DEF Answer, Resolves
      <3>7. waiter' = [waiter EXCEPT ![w] = [job |-> i, answer |-> a]]
        <4>1. waiter' = [waiter EXCEPT ![w] = [waiter[w] EXCEPT !.answer = a]]
          BY <2>2 DEF Return
        <4>2. [waiter[w] EXCEPT !.answer = a] = [job |-> i, answer |-> a]
          BY <1>1
        <4> QED
          BY <4>1, <4>2
      <3> HIDE DEF a
      <3> QED
        BY <3>1, <3>5, <3>6, <3>7
    <2> QED
      BY <2>1, <2>2
  <1>4. /\ waiter' \in [Waiter -> [job : 0..MaxJobs, answer : Status \union {"none", "background"}]]
        /\ waiter'[w] = [job |-> i, answer |-> a] /\ i # 0
        /\ \A v \in Waiter \ {w} : waiter'[v] = waiter[v]
    BY <1>1, <1>3 DEF Job, BackgroundJobAssumption
  <1>5. TypeOK'
    BY <1>2, <1>4 DEF IInv, TypeOK
  <1>6. \A v \in Waiter : Informed(v)'
    BY <1>2, <1>3, <1>4 DEF IInv, Informed
  <1>7. ASSUME NEW k \in Job
        PROVE  Begun(k)' /\ Counts(k)' /\ Ended(k)' /\ Resolves(k)' /\ Ordered(k)'
    BY <1>1, <1>2, OtherJob DEF IInv, Job, BackgroundJobAssumption
  <1> QED
    BY <1>5, <1>6, <1>7 DEF IInv

------------------------------------------------------------------------------
(* The theorems.                                                           *)

LEMMA InitInv == BackgroundJobAssumption /\ Init => IInv
  <1> SUFFICES ASSUME BackgroundJobAssumption, Init
               PROVE  IInv
    OBVIOUS
  <1>1. TypeOK
    <2>1. NoJob \in Entry
      BY DEF NoJob, Entry, BackgroundJobAssumption
    <2>2. 0 \in 0..MaxJobs
      BY DEF BackgroundJobAssumption
    <2> QED
      BY <2>1, <2>2 DEF Init, TypeOK, Entry
  <1>2. ASSUME NEW j \in Job
        PROVE  Begun(j) /\ Counts(j) /\ Ended(j) /\ Resolves(j) /\ Ordered(j)
    <2>1. /\ job[j] = NoJob /\ done[j] = "none" /\ owed[j] = {} /\ ~promoted[j] /\ closed = {}
          /\ cur = 0 /\ j > cur /\ ~(j < cur)
          /\ \A s \in RunSeq : run[j][s] = "none" /\ ~(s < 0)
      BY DEF Init, Job, RunSeq, BackgroundJobAssumption
    <2> QED
      BY <2>1 DEF Begun, Counts, Ended, Resolves, Ordered, NoJob
  <1>3. \A w \in Waiter : Informed(w)
    BY DEF Init, Informed
  <1> QED
    BY <1>1, <1>2, <1>3 DEF IInv

LEMMA NextInv == BackgroundJobAssumption /\ IInv /\ [Next]_vars => IInv'
  <1> SUFFICES ASSUME BackgroundJobAssumption, IInv, [Next]_vars
               PROVE  IInv'
    OBVIOUS
  <1>1. CASE Operation
    BY <1>1, StartInv, ExtendInv, OperationInv, WaiterInv DEF Operation
  <1>2. ASSUME NEW j \in Job, NEW s \in RunSeq, RunStep(j, s) PROVE IInv'
    BY <1>2, RunInv, SettleInv DEF RunStep, FiberStep
  <1>3. CASE UNCHANGED vars
    <2>1. UNCHANGED <<cur, job, done, promoted, closed, run, owed, waiter>>
      BY <1>3 DEF vars
    <2>2. cur \in Nat /\ \A j \in Job : j \in Nat
      BY Types DEF IInv, Job, BackgroundJobAssumption
    <2>3. TypeOK'
      BY <2>1 DEF IInv, TypeOK
    <2>4. \A j \in Job : Begun(j)' /\ Counts(j)' /\ Ended(j)' /\ Resolves(j)' /\ Ordered(j)'
      BY <2>1, <2>2, OtherJob DEF IInv
    <2>5. \A w \in Waiter : Informed(w)'
      BY <2>1 DEF IInv, Informed
    <2> QED
      BY <2>3, <2>4, <2>5 DEF IInv
  <1> QED
    BY <1>1, <1>2, <1>3, ResolveInv, WaiterInv DEF Next

\* The inductive invariant holds of every behaviour.
THEOREM Invariance == BackgroundJobAssumption => (Spec => []IInv)
  <1> SUFFICES ASSUME BackgroundJobAssumption PROVE Spec => []IInv
    OBVIOUS
  <1>1. Init => IInv
    BY InitInv
  <1>2. IInv /\ [Next]_vars => IInv'
    BY NextInv
  <1> QED
    BY <1>1, <1>2, PTL DEF Spec

\* The registry's entries, runs and Deferreds stay what background-job.ts declares.
THEOREM TypeCorrect == BackgroundJobAssumption => (Spec => []TypeOK)
  <1> SUFFICES ASSUME BackgroundJobAssumption PROVE Spec => []TypeOK
    OBVIOUS
  <1>1. IInv => TypeOK
    BY DEF IInv
  <1> QED
    BY <1>1, Invariance, PTL

\* A job is reported completed only when every run that was accepted has settled,
\* also one accepted while the others ended, with the output of the last.
THEOREM CompletedMeansAllAlways == BackgroundJobAssumption => (Spec => []CompletedMeansAll)
  <1> SUFFICES ASSUME BackgroundJobAssumption PROVE Spec => []CompletedMeansAll
    OBVIOUS
  <1>1. IInv => CompletedMeansAll
    BY DEF IInv, Ended, Resolves, CompletedMeansAll
  <1> QED
    BY <1>1, Invariance, PTL

\* A job fails only by a run of its own, whatever is left of the job before it.
THEOREM ErrorIsOwnAlways == BackgroundJobAssumption => (Spec => []ErrorIsOwn)
  <1> SUFFICES ASSUME BackgroundJobAssumption PROVE Spec => []ErrorIsOwn
    OBVIOUS
  <1>1. IInv => ErrorIsOwn
    BY DEF IInv, Ended, ErrorIsOwn
  <1> QED
    BY <1>1, Invariance, PTL

\* The runs of a running job never execute side by side.
THEOREM OneAtATimeAlways == BackgroundJobAssumption => (Spec => []OneAtATime)
  <1> SUFFICES ASSUME BackgroundJobAssumption PROVE Spec => []OneAtATime
    OBVIOUS
  <1>1. IInv => OneAtATime
    <2> SUFFICES ASSUME IInv, Running, NEW s \in RunSeq, NEW t \in RunSeq,
                        run[cur][s] = "working", run[cur][t] = "working"
                 PROVE  s = t
      BY DEF OneAtATime
    <2>1. cur \in Job /\ s \in Nat /\ t \in Nat
      BY Types DEF IInv, Running, Job, RunSeq, BackgroundJobAssumption
    <2>2. cur \notin closed /\ Ordered(cur)
      BY <2>1 DEF IInv, Resolves, Running
    <2>3. ~(s < t) /\ ~(t < s)
      BY <2>2 DEF Ordered, Released
    <2> QED
      BY <2>1, <2>3
  <1> QED
    BY <1>1, Invariance, PTL

\* The result of a job goes to its foreground caller or to the promotion's hook:
\* the caller is told "background" exactly when the hook was registered.
THEOREM DeliveredOnceAlways == BackgroundJobAssumption => (Spec => []DeliveredOnce)
  <1> SUFFICES ASSUME BackgroundJobAssumption PROVE Spec => []DeliveredOnce
    OBVIOUS
  <1>1. IInv => DeliveredOnce
    BY DEF IInv, Informed, DeliveredOnce
  <1> QED
    BY <1>1, Invariance, PTL

\* Once resolved, done keeps its value, and the job never runs or changes its end.
ResolvedStays ==
  \A j \in Job : done[j] # "none" => done'[j] = done[j] /\ job'[j].status = job[j].status

LEMMA StepResolvesOnce == BackgroundJobAssumption /\ IInv /\ [Next]_vars => ResolvedStays
  <1> SUFFICES ASSUME BackgroundJobAssumption, IInv, [Next]_vars, NEW j \in Job, done[j] # "none"
               PROVE  done'[j] = done[j] /\ job'[j].status = job[j].status
    BY DEF ResolvedStays
  <1>1. /\ cur \in 0..MaxJobs /\ job \in [Job -> Entry] /\ cur \in Nat /\ j \in Nat /\ j # 0
        /\ done \in [Job -> Terminal \union {"none"}]
    BY Types DEF IInv, Job, BackgroundJobAssumption
  <1>2. "done" \notin owed[j] /\ job[j].status # "running" /\ job[j].status # "none"
    BY DEF IInv, Resolves, Begun, NoJob
  <1>3. j <= cur
    BY <1>1 DEF IInv, Begun
  <1>4. CASE UNCHANGED job \/ \E i \in Job \ {j} : \E e : job' = [job EXCEPT ![i] = e]
    <2>1. job'[j] = job[j]
      BY <1>1, <1>4
    <2>2. done'[j] = done[j]
      BY <1>1, <1>2 DEF Next, Operation, Start, Extend, Cancel, Promote, Wait, JobStep, ResolveDone,
         ResolvePromoted, RunStep, FiberStep, Fork, Work, Settle, StopWork, EndWork, Return, vars
    <2> QED
      BY <2>1, <2>2
  <1>5. UNCHANGED job \/ \E i \in Job \ {j} : \E e : job' = [job EXCEPT ![i] = e]
    <2>1. CASE Start
      <3>1. cur + 1 \in Job \ {j}
        BY <1>1, <1>3, <2>1 DEF Start, Job, BackgroundJobAssumption
      <3>2. \E e : job' = [job EXCEPT ![cur + 1] = e]
        BY <2>1 DEF Start
      <3> QED
        BY <3>1, <3>2
    <2>2. CASE Extend \/ Cancel \/ Promote
      <3>1. cur \in Job \ {j}
        BY <1>1, <1>2, <2>2 DEF Extend, Cancel, Promote, Running, Job
      <3>2. \E e : job' = [job EXCEPT ![cur] = e]
        BY <2>2 DEF Extend, Cancel, Promote
      <3> QED
        BY <3>1, <3>2
    <2>3. ASSUME NEW i \in Job, NEW s \in RunSeq, Settle(i, s)
          PROVE  UNCHANGED job \/ \E k \in Job \ {j} : \E e : job' = [job EXCEPT ![k] = e]
      BY <1>2, <2>3 DEF Settle, Running
    <2> QED
      BY <2>1, <2>2, <2>3 DEF Next, Operation, Wait, JobStep, ResolveDone,
         ResolvePromoted, RunStep, FiberStep, Fork, Work, StopWork, EndWork, Return, vars
  <1> QED
    BY <1>4, <1>5

\* A job ends once: neither a late run, a cancel nor the next job under the same id
\* changes how it ended or what its Deferred was resolved with.
THEOREM ResolvedOnceAlways == BackgroundJobAssumption => (Spec => [][ResolvedStays]_vars)
  <1> SUFFICES ASSUME BackgroundJobAssumption PROVE Spec => [][ResolvedStays]_vars
    OBVIOUS
  <1>1. IInv /\ [Next]_vars => ResolvedStays
    BY StepResolvesOnce
  <1> QED
    BY <1>1, Invariance, PTL DEF Spec

------------------------------------------------------------------------------
(* Delegations: what the fold is about.                                    *)

TurnRow == [who : (SUBSET Led!Participant) \ {{}}, queue : BOOLEAN,
            status : Led!DeliveryStatus \cup {"partially_completed"}]
DeliveryRow == [attempt : 0..MaxAttempts, status : Led!DeliveryStatus]
FoldState ==
  [status : Led!DelegationStatus, blocker : Reviewer \cup {Led!NoOne},
   phase : [Led!Participant -> Led!Phase], turn : Seq(TurnRow),
   del : [Led!Turn -> [Led!Participant -> DeliveryRow]],
   review : [Reviewer -> [rev : 0..MaxRevisions, verdict : Led!Verdict \cup {"none"}]],
   revs : Seq(Led!ChangeKind)]

OfDelegation == [type : {"Closing", "Completed", "Archived"}]
OfParticipant ==
  [type : {"ParticipantAdded", "ParticipantBound", "ParticipantClosed"}, who : Led!Participant]
OfBlocker == [type : {"RejectionRetracted"}, who : Reviewer \cup {Led!NoOne}]
OfTurn == [type : {"TurnAdmitted"}, who : SUBSET Led!Participant, queue : BOOLEAN]
OfRevision == [type : {"RevisionRecorded"}, turn : Led!Turn, who : Implementer,
               kind : Led!ChangeKind]
OfReview == [type : {"Review"}, turn : Led!Turn, who : Reviewer, rev : 0..MaxRevisions,
             verdict : Led!Verdict]
OfReport == [type : Led!DeliveryEvent \ {"DeliveryAdmitted"}, turn : Led!Turn,
             who : Led!Participant, attempt : 0..MaxAttempts]
OfRetry == [type : {"DeliveryAdmitted"}, turn : Led!Turn, who : Led!Participant,
            attempt : 0..MaxAttempts, status : {"admitted", "queued"}]
OfDelivery == OfReport \cup OfRetry
LedgerEvent == OfDelegation \cup OfParticipant \cup OfBlocker \cup OfTurn \cup OfRevision
               \cup OfReview \cup OfDelivery

\* Lists have room for what the event adds, and an attempt is not skipped.
Fits(s, e) ==
  /\ e.type = "TurnAdmitted" => Len(s.turn) < MaxTurns
  /\ e.type = "RevisionRecorded" => Len(s.revs) < MaxRevisions
  /\ e \in OfDelivery => e.attempt <= s.del[e.turn][e.who].attempt + 1
Bounded(s) == Len(s.turn) <= MaxTurns /\ Len(s.revs) <= MaxRevisions

\* Who is in a turn has a delivery there; a turn that counts as completed is.
Worked(s) ==
  \A t \in DOMAIN s.turn : \A p \in s.turn[t].who :
    /\ s.del[t][p].attempt >= 1
    /\ s.turn[t].status = "completed" => s.del[t][p].status = "completed"

\* Nothing is cancelled, and what is completed has completed deliveries.
Finished(s) ==
  /\ s.status # "cancelled"
  /\ s.status \in {"completed", "archived"} =>
       \A t \in DOMAIN s.turn : \A p \in s.turn[t].who : s.del[t][p].status = "completed"

FoldOK(s) == s \in FoldState /\ Bounded(s) /\ Worked(s) /\ Finished(s)

\* The outcomes of s stand in a.
Stands(old, new) ==
  /\ new.attempt \in old.attempt..(old.attempt + 1)
  /\ new.attempt > old.attempt => old.status \in Led!Retryable \cup {"none"}
  /\ new.attempt = old.attempt /\ old.status \in Led!Settled =>
       \/ new = old
       \/ old.status = "recovery_required" /\ new.status \in {"failed", "cancelled"}
  /\ new.attempt = old.attempt /\ old.status = "running" =>
       new.status \in Led!Settled \cup {"running"}

Later(s, a) ==
  /\ DOMAIN s.turn \subseteq DOMAIN a.turn
  /\ \A t \in DOMAIN s.turn : a.turn[t].who = s.turn[t].who
  /\ \A t \in DOMAIN s.turn, p \in Led!Participant : Stands(s.del[t][p], a.del[t][p])

LEMMA Names ==
  /\ Led!DelegationStatus = {"draft", "running", "waiting_review", "changes_requested",
       "approved", "failed", "recovery_required", "closing", "completed", "cancelled", "archived"}
  /\ Led!Phase = {"absent", "provisioning", "active", "failed", "closed"}
  /\ Led!DeliveryStatus = {"none", "admitted", "queued", "running", "completed", "failed",
       "cancelled", "recovery_required"}
  BY DEF Led!DelegationStatus, Led!Phase, Led!DeliveryStatus, Led!canTransition,
     Led!canAdvancePhase, Led!allowedNextStatuses

\* Derivation changes the status only, and leaves no approval without its reasons.
LEMMA Derives ==
  ASSUME NEW s \in FoldState
  PROVE  LET a == Led!deriveApprovalStatus(s) IN
         /\ a \in FoldState
         /\ a.turn = s.turn /\ a.del = s.del /\ a.revs = s.revs /\ a.review = s.review
         /\ a.phase = s.phase /\ a.blocker = s.blocker
         /\ a.status = s.status \/ (s.status \notin Led!Ended
                                    /\ a.status \in {"approved", "waiting_review", "running"})
         /\ a.status = "approved" /\ s.revs # <<>> => Led!canComplete(s)
  <1> DEFINE to == IF Led!canComplete(s) THEN "approved"
                   ELSE IF s.revs # <<>> THEN "waiting_review" ELSE "running"
             a == Led!deriveApprovalStatus(s)
  <1>1. a = s \/ (a = [s EXCEPT !.status = to] /\ s.status \notin Led!Ended)
    BY DEF Led!deriveApprovalStatus
  <1>2. to \in {"approved", "waiting_review", "running"} /\ to \in Led!DelegationStatus
    BY Names
  <1>3. a.status = "approved" /\ s.revs # <<>> => Led!canComplete(s)
    <2> SUFFICES ASSUME a.status = "approved", s.revs # <<>>, ~Led!canComplete(s) PROVE FALSE
      OBVIOUS
    <2>1. to = "waiting_review"
      OBVIOUS
    <2>2. CASE s.status = "approved"
      <3>1. "waiting_review" \in Led!canTransition[s.status] /\ s.status \notin Led!Ended
        BY <2>2 DEF Led!canTransition, Led!Ended
      <3>2. a = [s EXCEPT !.status = "waiting_review"]
        BY <2>1, <2>2, <3>1, Names DEF Led!deriveApprovalStatus
      <3> QED
        BY <3>2 DEF FoldState
    <2>3. CASE s.status # "approved"
      <3>1. a = s
        BY <2>3 DEF Led!deriveApprovalStatus
      <3> QED
        BY <2>3, <3>1
    <2> QED
      BY <2>2, <2>3
  <1> HIDE DEF to
  <1>4. CASE a = s
    BY <1>3, <1>4
  <1>5. CASE a = [s EXCEPT !.status = to] /\ s.status \notin Led!Ended
    <2>1. a \in FoldState /\ a.status = to
      BY <1>2, <1>5 DEF FoldState
    <2>2. /\ a.turn = s.turn /\ a.del = s.del /\ a.revs = s.revs /\ a.review = s.review
          /\ a.phase = s.phase /\ a.blocker = s.blocker
      BY <1>5 DEF FoldState
    <2> QED
      BY <1>2, <1>3, <1>5, <2>1, <2>2
  <1> QED
    BY <1>1, <1>4, <1>5
LEMMA RefreshType ==
  ASSUME NEW row \in TurnRow, NEW del
  PROVE  LET r == Led!refreshTurnStatus(row, del) IN
         /\ r \in TurnRow /\ r.who = row.who
         /\ r.status = "completed" => row.status = "completed" \/ \A p \in row.who : del[p].status = "completed"
         /\ row.status = "completed" /\ (\A p \in row.who : del[p].status = "completed") => r.status = "completed"
  BY Names DEF Led!refreshTurnStatus, TurnRow

LEMMA RecordedType == \A e \in OfDelivery : Led!Recorded(e) \in Led!DeliveryStatus \ {"none"}
  <1> SUFFICES ASSUME NEW e \in OfDelivery PROVE Led!Recorded(e) \in Led!DeliveryStatus \ {"none"}
    OBVIOUS
  <1>1. CASE e \in OfRetry
    BY <1>1, Names DEF OfRetry, Led!Recorded
  <1>2. CASE e \in OfReport
    BY <1>2, Names DEF OfReport, Led!Recorded, Led!DeliveryEvent
  <1> QED
    BY <1>1, <1>2 DEF OfDelivery

LEMMA DeliveryFields ==
  ASSUME NEW e \in OfDelivery
  PROVE  /\ e.turn \in Led!Turn /\ e.who \in Led!Participant /\ e.attempt \in 0..MaxAttempts
         /\ e.type \in Led!DeliveryEvent
  BY DEF OfDelivery, OfReport, OfRetry, Led!DeliveryEvent

\* What a delivery's event records.
RowOf(e, st) == [attempt |-> e.attempt, status |-> st]
DelOf(s, e, st) == [s.del[e.turn] EXCEPT ![e.who] = RowOf(e, st)]
TurnOf(s, e, st) == Led!refreshTurnStatus(s.turn[e.turn], DelOf(s, e, st))

Redelivered(s, e, st, a) ==
  /\ a \in FoldState
  /\ a.status = s.status /\ a.phase = s.phase /\ a.revs = s.revs /\ a.review = s.review
  /\ a.blocker = s.blocker
  /\ Len(a.turn) = Len(s.turn) /\ DOMAIN a.turn = DOMAIN s.turn
  /\ a.del = [s.del EXCEPT ![e.turn] = DelOf(s, e, st)]
  /\ a.turn = [s.turn EXCEPT ![e.turn] = TurnOf(s, e, st)]
  /\ DelOf(s, e, st) \in [Led!Participant -> DeliveryRow]

LEMMA WithDeliveryType ==
  ASSUME NEW s \in FoldState, NEW e \in OfDelivery, e.turn \in DOMAIN s.turn,
         NEW st \in Led!DeliveryStatus
  PROVE  Redelivered(s, e, st, Led!WithDelivery(s, e, st))
  <1> DEFINE a == Led!WithDelivery(s, e, st)
  <1>1. e.turn \in Led!Turn /\ e.who \in Led!Participant /\ RowOf(e, st) \in DeliveryRow
    BY DeliveryFields DEF DeliveryRow, RowOf
  <1>2. DelOf(s, e, st) \in [Led!Participant -> DeliveryRow]
    BY <1>1 DEF FoldState, DelOf
  <1>3. s.turn \in Seq(TurnRow) /\ s.turn[e.turn] \in TurnRow
    BY DEF FoldState
  <1>4. TurnOf(s, e, st) \in TurnRow
    BY <1>3, RefreshType DEF TurnOf
  <1>5. a = [s EXCEPT !.del[e.turn] = DelOf(s, e, st), !.turn[e.turn] = TurnOf(s, e, st)]
    BY DEF Led!WithDelivery, DelOf, RowOf, TurnOf
  <1> HIDE DEF a
  <1>6. /\ [s.turn EXCEPT ![e.turn] = TurnOf(s, e, st)] \in Seq(TurnRow)
        /\ Len([s.turn EXCEPT ![e.turn] = TurnOf(s, e, st)]) = Len(s.turn)
        /\ DOMAIN [s.turn EXCEPT ![e.turn] = TurnOf(s, e, st)] = DOMAIN s.turn
    BY <1>3, <1>4, ExceptSeq
  <1>7. [s.del EXCEPT ![e.turn] = DelOf(s, e, st)] \in [Led!Turn -> [Led!Participant -> DeliveryRow]]
    BY <1>1, <1>2 DEF FoldState
  <1>8. /\ a.del = [s.del EXCEPT ![e.turn] = DelOf(s, e, st)]
        /\ a.turn = [s.turn EXCEPT ![e.turn] = TurnOf(s, e, st)]
        /\ a.status = s.status /\ a.phase = s.phase /\ a.revs = s.revs /\ a.review = s.review
        /\ a.blocker = s.blocker
    BY <1>5 DEF FoldState
  <1>9. a \in FoldState
    BY <1>5, <1>6, <1>7 DEF FoldState
  <1> HIDE DEF a
  <1>10. Redelivered(s, e, st, a)
    BY <1>2, <1>6, <1>8, <1>9 DEF Redelivered
  <1> QED
    BY <1>10 DEF a

\* An event about a delivery changes that delivery, its turn, the phase of its
\* participant and the status.
Reported(s, e, w, a) ==
  /\ a \in FoldState
  /\ a.turn = w.turn /\ a.del = w.del /\ a.revs = s.revs /\ a.review = s.review
  /\ a.blocker = s.blocker
  /\ \A p \in Led!Participant : a.phase[p] = "absent" <=> s.phase[p] = "absent"
  /\ a.status = s.status \/ a.status \in {"running", "failed", "recovery_required"}

LEMMA ApplyDeliveryType ==
  ASSUME NEW s \in FoldState, NEW e \in OfDelivery, Led!AcceptsDelivery(s, e)
  PROVE  Reported(s, e, Led!WithDelivery(s, e, Led!Recorded(e)), Led!ApplyDelivery(s, e))
  <1> DEFINE a == Led!ApplyDelivery(s, e)
             w == Led!WithDelivery(s, e, Led!Recorded(e))
             again == e.type = "DeliveryStarted" /\ e.attempt > 1
             fails == e.type = "DeliveryFailed"
             phase == IF again /\ w.phase[e.who] = "failed" THEN "active"
                      ELSE IF fails /\ "failed" \in Led!canAdvancePhase[w.phase[e.who]]
                           THEN "failed" ELSE w.phase[e.who]
             status == IF again /\ w.status = "failed" THEN "running"
                       ELSE IF fails /\ w.turn[e.turn].status = "failed" THEN "failed"
                       ELSE IF e.type = "DeliveryRecoveryRequired" /\ w.status # "archived"
                            THEN "recovery_required" ELSE w.status
  <1>1. a = [w EXCEPT !.phase[e.who] = phase, !.status = status]
    BY DEF Led!ApplyDelivery
  <1>2. e.turn \in DOMAIN s.turn /\ Led!Recorded(e) \in Led!DeliveryStatus
    BY RecordedType DEF Led!AcceptsDelivery
  <1>3. /\ w \in FoldState /\ w.status = s.status /\ w.phase = s.phase /\ w.revs = s.revs
        /\ w.review = s.review /\ w.blocker = s.blocker
    <2>1. Redelivered(s, e, Led!Recorded(e), w)
      BY <1>2, WithDeliveryType
    <2> HIDE DEF w
    <2> QED
      BY <2>1 DEF Redelivered
  <1>4. e.who \in Led!Participant
    BY DeliveryFields
  <1>5. w.status \in Led!DelegationStatus /\ w.phase \in [Led!Participant -> Led!Phase]
    BY <1>3 DEF FoldState
  <1>6. /\ phase \in Led!Phase /\ (phase = "absent" <=> s.phase[e.who] = "absent")
    BY <1>3, <1>4, <1>5, Names DEF Led!canAdvancePhase
  <1>7. /\ status \in Led!DelegationStatus
        /\ status = s.status \/ status \in {"running", "failed", "recovery_required"}
    BY <1>3, <1>5, Names
  <1> HIDE DEF phase, status, w, a
  <1>9. a.status = status /\ a.phase = [w.phase EXCEPT ![e.who] = phase]
    BY <1>1, <1>3 DEF FoldState
  <1>10. /\ a.turn = w.turn /\ a.del = w.del /\ a.revs = w.revs /\ a.review = w.review
         /\ a.blocker = w.blocker
    BY <1>1, <1>3 DEF FoldState
  <1>11. a \in FoldState
    <2>1. [w.phase EXCEPT ![e.who] = phase] \in [Led!Participant -> Led!Phase]
      BY <1>4, <1>5, <1>6
    <2> QED
      BY <1>1, <1>3, <1>7, <2>1 DEF FoldState
  <1>12. \A p \in Led!Participant : a.phase[p] = "absent" <=> s.phase[p] = "absent"
    BY <1>3, <1>4, <1>5, <1>6, <1>9
  <1>13. Reported(s, e, w, a)
    BY <1>3, <1>7, <1>9, <1>10, <1>11, <1>12 DEF Reported
  <1> QED
    BY <1>13 DEF a, w

\* What the admission of a turn adds: the turn, and a delivery to each of its
\* participants.
First(e) == IF e.queue THEN "queued" ELSE "admitted"
Admitted(e) == [who |-> e.who, queue |-> e.queue, status |-> First(e)]
FirstDel(del, e) ==
  [p \in Led!Participant |-> IF p \in e.who THEN [attempt |-> 1, status |-> First(e)] ELSE del[p]]

AdmittedTo(s, e, t, a) ==
  /\ a \in FoldState
  /\ a.turn = Append(s.turn, Admitted(e)) /\ Len(a.turn) = t
  /\ a.del = [s.del EXCEPT ![t] = FirstDel(s.del[t], e)]
  /\ a.phase = s.phase /\ a.revs = s.revs /\ a.review = s.review /\ a.blocker = s.blocker
  /\ a.status = s.status \/ (a.status = "running" /\ s.status \notin Led!Ended)
  /\ t \in Led!Turn

LEMMA AdmissionType ==
  ASSUME NEW s \in FoldState, NEW e \in OfTurn, e.who # {}, Len(s.turn) < MaxTurns,
         Led!DelegationAssumption
  PROVE  AdmittedTo(s, e, Len(s.turn) + 1, Led!Admission(s, e))
  <1> DEFINE t == Len(s.turn) + 1
             a == Led!Admission(s, e)
             to == IF s.status \in {"draft", "changes_requested"} THEN "running" ELSE s.status
  <1>1. a = [s EXCEPT !.turn = Append(@, Admitted(e)), !.del[t] = FirstDel(s.del[t], e),
                      !.status = to]
    BY DEF Led!Admission, Admitted, First, FirstDel
  <1>2. t \in Led!Turn
    <2>1. Len(s.turn) \in Nat /\ MaxTurns \in Nat
      BY DEF FoldState, Led!DelegationAssumption
    <2> QED
      BY <2>1 DEF Led!Turn
  <1>3. First(e) \in Led!DeliveryStatus
    BY Names DEF First
  <1>4. e.who \in (SUBSET Led!Participant) \ {{}} /\ e.queue \in BOOLEAN
    BY DEF OfTurn
  <1>5. Admitted(e) \in TurnRow
    BY <1>3, <1>4 DEF TurnRow, Admitted
  <1>6. FirstDel(s.del[t], e) \in [Led!Participant -> DeliveryRow]
    <2>1. s.del[t] \in [Led!Participant -> DeliveryRow]
      BY <1>2 DEF FoldState
    <2>2. 1 \in 0..MaxAttempts
      BY DEF Led!DelegationAssumption
    <2>3. [attempt |-> 1, status |-> First(e)] \in DeliveryRow
      BY <1>3, <2>2 DEF DeliveryRow
    <2> QED
      BY <2>1, <2>3 DEF FirstDel
  <1>7. to \in Led!DelegationStatus /\ (to = s.status \/ (to = "running" /\ s.status \notin Led!Ended))
    BY Names DEF FoldState, Led!Ended
  <1> HIDE DEF to, a
  <1>8. Append(s.turn, Admitted(e)) \in Seq(TurnRow)
    BY <1>5 DEF FoldState
  <1>9. [s.del EXCEPT ![t] = FirstDel(s.del[t], e)] \in [Led!Turn -> [Led!Participant -> DeliveryRow]]
    BY <1>2, <1>6 DEF FoldState
  <1>10. /\ a.turn = Append(s.turn, Admitted(e)) /\ a.del = [s.del EXCEPT ![t] = FirstDel(s.del[t], e)]
         /\ a.status = to
         /\ a.phase = s.phase /\ a.revs = s.revs /\ a.review = s.review /\ a.blocker = s.blocker
    BY <1>1 DEF FoldState
  <1>11. a \in FoldState
    BY <1>1, <1>7, <1>8, <1>9 DEF FoldState
  <1>12. Len(a.turn) = t
    BY <1>5, <1>10 DEF FoldState
  <1> HIDE DEF t
  <1>13. AdmittedTo(s, e, t, a)
    BY <1>2, <1>7, <1>10, <1>11, <1>12 DEF AdmittedTo
  <1> QED
    BY <1>13 DEF a, t

------------------------------------------------------------------------------
(* Delegations: what an accepted event does.                               *)

\* The kinds of events are told apart by their types.
LEMMA Kinds ==
  ASSUME NEW e
  PROVE  /\ e \in OfTurn => e \notin OfDelivery
         /\ e \in OfDelegation \cup OfParticipant \cup OfBlocker \cup OfRevision \cup OfReview =>
              e \notin OfTurn \cup OfDelivery
  BY DEF OfTurn, OfDelivery, OfReport, OfRetry, OfDelegation, OfParticipant, OfBlocker,
     OfRevision, OfReview, Led!DeliveryEvent

LEMMA StandsStill ==
  ASSUME NEW x \in DeliveryRow
  PROVE  Stands(x, x)
  BY DEF Stands, DeliveryRow

\* An event that is not about turns leaves them as they are.
Aside(s, a) ==
  /\ a \in FoldState /\ Bounded(a)
  /\ a.turn = s.turn /\ a.del = s.del
  /\ a.status # "cancelled"
  /\ a.status \in {"completed", "archived"} =>
       s.status \in {"completed", "archived"} \/ Led!canComplete(s)

LEMMA OfDelegationAside ==
  ASSUME NEW s, FoldOK(s), NEW e \in OfDelegation, Led!Accepts(s, e)
  PROVE  Aside(s, Led!Apply(s, e))
  <1> DEFINE a == Led!Apply(s, e)
  <1>0. s \in FoldState /\ Bounded(s) /\ s.status \in Led!DelegationStatus \ {"cancelled"}
    BY DEF FoldOK, Finished, FoldState
  <1>1. PICK to \in {"closing", "completed", "archived"} : a = [s EXCEPT !.status = to]
    BY DEF OfDelegation, Led!Apply, Led!DeliveryEvent
  <1>2. /\ a \in FoldState /\ a.status = to /\ a.turn = s.turn /\ a.del = s.del
        /\ a.revs = s.revs
    BY <1>0, <1>1, Names DEF FoldState
  <1>3. CASE e.type = "Closing"
    <2>1. a = [s EXCEPT !.status = "closing"]
      BY <1>3 DEF Led!Apply, Led!DeliveryEvent
    <2>2. a.status = "closing"
      BY <1>0, <2>1 DEF FoldState
    <2> QED
      BY <1>0, <1>2, <2>2 DEF Aside, Bounded
  <1>4. CASE e.type = "Completed"
    <2>1. Led!canComplete(s)
      BY <1>4 DEF Led!Accepts, Led!DeliveryEvent
    <2> QED
      BY <1>0, <1>2, <2>1 DEF Aside, Bounded
  <1>5. CASE e.type = "Archived"
    <2>1. "archived" \in Led!canTransition[s.status]
      BY <1>5 DEF Led!Accepts, Led!DeliveryEvent
    <2>2. s.status = "completed"
      BY <1>0, <2>1, Names DEF Led!canTransition
    <2> QED
      BY <1>0, <1>2, <2>2 DEF Aside, Bounded
  <1> QED
    BY <1>3, <1>4, <1>5 DEF OfDelegation

LEMMA OfParticipantAside ==
  ASSUME NEW s, FoldOK(s), NEW e \in OfParticipant
  PROVE  Aside(s, Led!Apply(s, e))
  <1> DEFINE a == Led!Apply(s, e)
  <1>0. s \in FoldState /\ Bounded(s) /\ s.status # "cancelled"
    BY DEF FoldOK, Finished
  <1>1. e.who \in Led!Participant
    BY DEF OfParticipant
  <1>2. PICK ph \in Led!Phase : a = [s EXCEPT !.phase[e.who] = ph]
    <2>1. s.phase[e.who] \in Led!Phase
      BY <1>0, <1>1 DEF FoldState
    <2> QED
      BY <1>1, <2>1, Names DEF OfParticipant, Led!Apply, Led!DeliveryEvent
  <1> HIDE DEF a
  <1>3. [s.phase EXCEPT ![e.who] = ph] \in [Led!Participant -> Led!Phase]
    BY <1>0, <1>1 DEF FoldState
  <1>4. /\ a \in FoldState /\ a.turn = s.turn /\ a.del = s.del /\ a.revs = s.revs
        /\ a.status = s.status
    BY <1>0, <1>2, <1>3 DEF FoldState
  <1>5. Aside(s, a)
    BY <1>0, <1>4 DEF Aside, Bounded
  <1> QED
    BY <1>5 DEF a

LEMMA OfBlockerAside ==
  ASSUME NEW s, FoldOK(s), NEW e \in OfBlocker
  PROVE  Aside(s, Led!Apply(s, e))
  <1> DEFINE a == Led!Apply(s, e)
  <1>0. s \in FoldState /\ Bounded(s) /\ s.status # "cancelled"
    BY DEF FoldOK, Finished
  <1>1. a = [s EXCEPT !.blocker = Led!NoOne]
    BY DEF OfBlocker, Led!Apply, Led!DeliveryEvent
  <1> HIDE DEF a
  <1>2. /\ a \in FoldState /\ a.turn = s.turn /\ a.del = s.del /\ a.revs = s.revs
        /\ a.status = s.status
    BY <1>0, <1>1 DEF FoldState
  <1>3. Aside(s, a)
    BY <1>0, <1>2 DEF Aside, Bounded
  <1> QED
    BY <1>3 DEF a

LEMMA OfRevisionAside ==
  ASSUME Led!DelegationAssumption, NEW s, FoldOK(s), NEW e \in OfRevision, Fits(s, e)
  PROVE  Aside(s, Led!Apply(s, e))
  <1> DEFINE a == Led!Apply(s, e)
  <1>0. s \in FoldState /\ Bounded(s) /\ s.status # "cancelled"
    BY DEF FoldOK, Finished
  <1>1. a = Led!Revised(s, e) /\ e.kind \in Led!ChangeKind
    BY DEF OfRevision, Led!Apply, Led!DeliveryEvent
  <1>2. PICK to \in {s.status, "waiting_review", "running"} :
          a = [s EXCEPT !.revs = Append(@, e.kind), !.status = to]
    BY <1>1 DEF Led!Revised
  <1> HIDE DEF a
  <1>3. /\ Append(s.revs, e.kind) \in Seq(Led!ChangeKind)
        /\ Len(Append(s.revs, e.kind)) = Len(s.revs) + 1
    BY <1>0, <1>1 DEF FoldState
  <1>4. to \in Led!DelegationStatus
    BY <1>0, Names DEF FoldState
  <1>5. /\ a \in FoldState /\ a.revs = Append(s.revs, e.kind) /\ a.turn = s.turn
        /\ a.del = s.del /\ a.status = to
    BY <1>0, <1>2, <1>3, <1>4 DEF FoldState
  <1>6. Len(s.revs) < MaxRevisions /\ Len(s.revs) \in Nat /\ MaxRevisions \in Nat
    BY <1>0 DEF OfRevision, Fits, FoldState, Led!DelegationAssumption
  <1>7. Bounded(a)
    BY <1>0, <1>3, <1>5, <1>6 DEF Bounded
  <1>8. Aside(s, a)
    BY <1>0, <1>5, <1>7 DEF Aside
  <1> QED
    BY <1>8 DEF a

LEMMA OfReviewAside ==
  ASSUME NEW s, FoldOK(s), NEW e \in OfReview
  PROVE  Aside(s, Led!Apply(s, e))
  <1> DEFINE a == Led!Apply(s, e)
             row == [rev |-> e.rev, verdict |-> e.verdict]
  <1>0. s \in FoldState /\ Bounded(s) /\ s.status # "cancelled"
    BY DEF FoldOK, Finished
  <1>1. /\ a = Led!Reviewed(s, e)
        /\ e.who \in Reviewer /\ e.rev \in 0..MaxRevisions /\ e.verdict \in Led!Verdict
    BY DEF OfReview, Led!Apply, Led!DeliveryEvent
  <1>2. PICK to \in {s.status, "changes_requested"}, b \in Reviewer \cup {Led!NoOne} :
          a = [s EXCEPT !.review[e.who] = row, !.blocker = b, !.status = to]
    BY <1>0, <1>1 DEF Led!Reviewed, FoldState
  <1>3. row \in [rev : 0..MaxRevisions, verdict : Led!Verdict \cup {"none"}]
    BY <1>1
  <1> HIDE DEF a, row
  <1>4. [s.review EXCEPT ![e.who] = row]
          \in [Reviewer -> [rev : 0..MaxRevisions, verdict : Led!Verdict \cup {"none"}]]
    BY <1>0, <1>1, <1>3 DEF FoldState
  <1>5. to \in Led!DelegationStatus
    BY <1>0, Names DEF FoldState
  <1>6. /\ a \in FoldState /\ a.revs = s.revs /\ a.turn = s.turn /\ a.del = s.del
        /\ a.status = to
    BY <1>0, <1>2, <1>4, <1>5 DEF FoldState
  <1>7. Aside(s, a)
    BY <1>0, <1>6 DEF Aside, Bounded
  <1> QED
    BY <1>7 DEF a

LEMMA AsideKeeps ==
  ASSUME Led!DelegationAssumption, NEW s, FoldOK(s), NEW a, Aside(s, a)
  PROVE  FoldOK(a) /\ Later(s, a)
  <1>0. s \in FoldState /\ Worked(s) /\ Finished(s)
    BY DEF FoldOK
  <1>1. Led!canComplete(s) =>
          \A t \in DOMAIN s.turn : \A p \in s.turn[t].who : s.del[t][p].status = "completed"
    BY <1>0 DEF Led!canComplete, Worked
  <1>2. a.turn = s.turn /\ a.del = s.del
    BY DEF Aside
  <1>3. Finished(a)
    BY <1>0, <1>1, <1>2 DEF Finished, Aside
  <1>4. Worked(a)
    BY <1>0, <1>2 DEF Worked
  <1>5. DOMAIN s.turn \subseteq Led!Turn
    BY <1>0 DEF FoldOK, FoldState, Bounded, Led!Turn, Led!DelegationAssumption
  <1>6. \A t \in DOMAIN s.turn, p \in Led!Participant : s.del[t][p] \in DeliveryRow
    BY <1>0, <1>5 DEF FoldState
  <1>7. Later(s, a)
    BY <1>2, <1>6, StandsStill DEF Later
  <1> QED
    BY <1>3, <1>4, <1>7 DEF FoldOK, Aside

\* The rows that an event leaves alone.
LEMMA AdmissionKeeps ==
  ASSUME NEW s, FoldOK(s), NEW e \in OfTurn, NEW t, t = Len(s.turn) + 1, NEW a,
         AdmittedTo(s, e, t, a), s.status \notin Led!Ended, Len(s.turn) < MaxTurns,
         Led!DelegationAssumption
  PROVE  FoldOK(a) /\ Later(s, a)
  <1>0. s \in FoldState /\ Worked(s) /\ Finished(s) /\ Bounded(s) /\ a \in FoldState
    BY DEF FoldOK, AdmittedTo
  <1>1. /\ DOMAIN s.turn = 1..Len(s.turn) /\ DOMAIN a.turn = 1..t /\ Len(s.turn) \in Nat
        /\ Len(a.turn) = t
    BY <1>0 DEF FoldState, AdmittedTo
  <1>2. \A u \in DOMAIN s.turn : u # t /\ u \in Led!Turn /\ a.turn[u] = s.turn[u]
                                 /\ a.del[u] = s.del[u]
    <2> SUFFICES ASSUME NEW u \in DOMAIN s.turn
                 PROVE  u # t /\ u \in Led!Turn /\ a.turn[u] = s.turn[u] /\ a.del[u] = s.del[u]
      OBVIOUS
    <2>1. u # t /\ u \in 1..Len(s.turn) /\ u \in Led!Turn
      BY <1>0, <1>1 DEF Bounded, Led!Turn, Led!DelegationAssumption
    <2>2. a.turn[u] = s.turn[u]
      BY <1>0, <2>1 DEF AdmittedTo, FoldState
    <2>3. a.del[u] = s.del[u]
      BY <1>0, <2>1 DEF AdmittedTo, FoldState
    <2> QED
      BY <2>1, <2>2, <2>3
  <1>3. \A p \in a.turn[t].who : a.del[t][p].attempt = 1
    <2>1. a.turn[t] = Admitted(e)
      BY <1>0, <1>1 DEF AdmittedTo, FoldState
    <2>2. a.del[t] = FirstDel(s.del[t], e)
      BY <1>0 DEF AdmittedTo, FoldState
    <2> QED
      BY <2>1, <2>2 DEF Admitted, FirstDel, OfTurn
  <1>4. a.turn[t].status # "completed"
    BY <1>0, <1>1 DEF AdmittedTo, FoldState, Admitted, First
  <1>5. \A u \in DOMAIN a.turn : u \in DOMAIN s.turn \/ u = t
    BY <1>1
  <1>6. Worked(a)
    BY <1>0, <1>2, <1>3, <1>4, <1>5 DEF Worked
  <1>7. Bounded(a)
    BY <1>0, <1>1 DEF Bounded, AdmittedTo, Led!DelegationAssumption
  <1>8. Finished(a)
    BY <1>0 DEF Finished, AdmittedTo, Led!Ended
  <1>9. Later(s, a)
    <2>1. \A u \in DOMAIN s.turn, p \in Led!Participant : s.del[u][p] \in DeliveryRow
      BY <1>0, <1>2 DEF FoldState
    <2>2. DOMAIN s.turn \subseteq DOMAIN a.turn
      BY <1>1
    <2> QED
      BY <1>2, <2>1, <2>2, StandsStill DEF Later
  <1> QED
    BY <1>0, <1>6, <1>7, <1>8, <1>9 DEF FoldOK

\* A report of an attempt, or the next attempt, leaves the outcome standing.
LEMMA ReportStands ==
  ASSUME NEW old \in DeliveryRow, NEW new \in DeliveryRow, old.attempt >= 1,
         new.status # "none", new.attempt <= old.attempt + 1,
         Led!requireDeliveryAttempt(old, new.attempt, new.status)
  PROVE  /\ Stands(old, new) /\ new.attempt >= 1
         /\ old.status = "completed" => new.status = "completed"
  <1>1. old.attempt \in Nat /\ new.attempt \in Nat
    BY DEF DeliveryRow
  <1>2. CASE new.attempt = old.attempt
    <2>1. new.status = old.status \/ new.status \in Led!allowedNextStatuses[old.status]
      BY <1>1, <1>2 DEF Led!requireDeliveryAttempt
    <2>2. new.status = old.status => new = old
      BY <1>2 DEF DeliveryRow
    <2>3. old.status \in Led!Settled /\ new.status # old.status =>
            old.status = "recovery_required" /\ new.status \in {"failed", "cancelled"}
      BY <2>1 DEF Led!Settled, Led!Retryable, Led!allowedNextStatuses
    <2>4. old.status = "completed" => new.status = "completed"
      BY <2>3 DEF Led!Settled
    <2>5. old.status = "running" => new.status \in Led!Settled \cup {"running"}
      BY <2>1 DEF Led!allowedNextStatuses
    <2> QED
      BY <1>1, <1>2, <2>2, <2>3, <2>4, <2>5 DEF Stands
  <1>3. CASE new.attempt # old.attempt
    <2>1. new.attempt > old.attempt /\ old.status \in Led!Retryable
      BY <1>1, <1>3 DEF Led!requireDeliveryAttempt
    <2>2. old.status # "completed" /\ new.attempt = old.attempt + 1
      BY <1>1, <2>1 DEF Led!Retryable
    <2> QED
      BY <1>1, <2>1, <2>2 DEF Stands
  <1> QED
    BY <1>2, <1>3

\* An event about a delivery changes that delivery and the status of its turn.
LEMMA DeliveryKeeps ==
  ASSUME Led!DelegationAssumption, NEW s, FoldOK(s), NEW e \in OfDelivery,
         Led!AcceptsDelivery(s, e), Fits(s, e)
  PROVE  LET a == Led!ApplyDelivery(s, e) IN FoldOK(a) /\ Later(s, a)
  <1> DEFINE a == Led!ApplyDelivery(s, e)
             w == Led!WithDelivery(s, e, Led!Recorded(e))
             new == RowOf(e, Led!Recorded(e))
             t == e.turn
             p == e.who
  <1>0. s \in FoldState /\ Worked(s) /\ Finished(s) /\ Bounded(s)
    BY DEF FoldOK
  <1>1. /\ t \in DOMAIN s.turn /\ p \in s.turn[t].who
        /\ Led!requireDeliveryAttempt(s.del[t][p], e.attempt, Led!Recorded(e))
    BY DEF Led!AcceptsDelivery
  <1>2. Led!Recorded(e) \in Led!DeliveryStatus \ {"none"}
    BY RecordedType
  <1>3. t \in Led!Turn /\ p \in Led!Participant /\ e.attempt \in 0..MaxAttempts
    BY DeliveryFields
  <1>4. Redelivered(s, e, Led!Recorded(e), w)
    BY <1>0, <1>1, <1>2, WithDeliveryType
  <1>5. Reported(s, e, w, a)
    BY <1>0, ApplyDeliveryType
  <1>6. s.del[t][p] \in DeliveryRow /\ s.turn[t] \in TurnRow /\ s.del[t] \in [Led!Participant -> DeliveryRow]
    BY <1>0, <1>1, <1>3 DEF FoldState
  <1>7. new \in DeliveryRow /\ new.attempt = e.attempt /\ new.status = Led!Recorded(e)
    BY <1>2, <1>3 DEF RowOf, DeliveryRow
  <1>8. s.del[t][p].attempt >= 1
    BY <1>0, <1>1 DEF Worked
  <1>9. e.attempt <= s.del[t][p].attempt + 1
    BY DEF Fits
  <1>10. /\ Stands(s.del[t][p], new) /\ new.attempt >= 1
         /\ s.del[t][p].status = "completed" => new.status = "completed"
    BY <1>1, <1>2, <1>6, <1>7, <1>8, <1>9, ReportStands
  <1> HIDE DEF a, w, new
  <1>11. /\ a \in FoldState /\ DOMAIN a.turn = DOMAIN s.turn
         /\ a.del = [s.del EXCEPT ![t] = DelOf(s, e, Led!Recorded(e))]
         /\ a.turn = [s.turn EXCEPT ![t] = TurnOf(s, e, Led!Recorded(e))]
    BY <1>4, <1>5 DEF Redelivered, Reported
  <1>12. /\ DelOf(s, e, Led!Recorded(e))[p] = new
         /\ \A q \in Led!Participant \ {p} : DelOf(s, e, Led!Recorded(e))[q] = s.del[t][q]
    BY <1>3, <1>6 DEF DelOf, new
  <1>13. /\ TurnOf(s, e, Led!Recorded(e)).who = s.turn[t].who
         /\ TurnOf(s, e, Led!Recorded(e)).status = "completed" =>
              \/ s.turn[t].status = "completed"
              \/ \A q \in s.turn[t].who : DelOf(s, e, Led!Recorded(e))[q].status = "completed"
    BY <1>6, RefreshType DEF TurnOf
  <1>14. \A u \in DOMAIN s.turn \ {t} : a.turn[u] = s.turn[u]
    BY <1>0, <1>11 DEF FoldState
  <1>15. \A u \in Led!Turn \ {t} : a.del[u] = s.del[u]
    BY <1>0, <1>11 DEF FoldState
  <1>16. a.turn[t] = TurnOf(s, e, Led!Recorded(e)) /\ a.del[t] = DelOf(s, e, Led!Recorded(e))
    BY <1>0, <1>1, <1>3, <1>11 DEF FoldState
  <1>17. DOMAIN s.turn \subseteq Led!Turn
    BY <1>0 DEF FoldState, Bounded, Led!Turn, Led!DelegationAssumption
  <1>18. \A q \in s.turn[t].who : q \in Led!Participant
    BY <1>6 DEF TurnRow
  <1>19. ASSUME NEW q \in s.turn[t].who
         PROVE  /\ a.del[t][q].attempt >= 1
                /\ s.del[t][q].status = "completed" => a.del[t][q].status = "completed"
                /\ Stands(s.del[t][q], a.del[t][q])
    <2>1. CASE q = p
      BY <1>10, <1>12, <1>16, <2>1
    <2>2. CASE q # p
      <3>1. a.del[t][q] = s.del[t][q] /\ s.del[t][q] \in DeliveryRow
        BY <1>6, <1>12, <1>16, <1>18, <2>2
      <3> QED
        BY <1>0, <1>1, <3>1, StandsStill DEF Worked
    <2> QED
      BY <2>1, <2>2
  <1>20. Worked(a)
    <2> SUFFICES ASSUME NEW u \in DOMAIN a.turn, NEW q \in a.turn[u].who
                 PROVE  /\ a.del[u][q].attempt >= 1
                        /\ a.turn[u].status = "completed" => a.del[u][q].status = "completed"
      BY DEF Worked
    <2>1. CASE u # t
      BY <1>0, <1>11, <1>14, <1>15, <1>17, <2>1 DEF Worked
    <2>2. CASE u = t
      <3>1. q \in s.turn[t].who
        BY <1>13, <1>16, <2>2
      <3>2. s.turn[t].status = "completed" => s.del[t][q].status = "completed"
        BY <1>0, <1>1, <3>1 DEF Worked
      <3> QED
        BY <1>13, <1>16, <1>19, <2>2, <3>1, <3>2
    <2> QED
      BY <2>1, <2>2
  <1>21. a.status = s.status \/ a.status \in {"running", "failed", "recovery_required"}
    BY <1>5 DEF Reported
  <1>22. Finished(a)
    <2>1. a.status # "cancelled"
      BY <1>0, <1>21 DEF Finished
    <2>2. ASSUME a.status \in {"completed", "archived"}, NEW u \in DOMAIN a.turn,
                 NEW q \in a.turn[u].who
          PROVE  a.del[u][q].status = "completed"
      <3>1. \A v \in DOMAIN s.turn : \A r \in s.turn[v].who : s.del[v][r].status = "completed"
        BY <1>0, <1>21, <2>2 DEF Finished
      <3>2. CASE u # t
        BY <1>11, <1>14, <1>15, <1>17, <2>2, <3>1, <3>2
      <3>3. CASE u = t
        BY <1>1, <1>13, <1>16, <1>19, <2>2, <3>1, <3>3
      <3> QED
        BY <3>2, <3>3
    <2> QED
      BY <2>1, <2>2 DEF Finished
  <1>23. Bounded(a)
    BY <1>0, <1>4, <1>5 DEF Bounded, Redelivered, Reported
  <1>24. Later(s, a)
    <2>1. \A u \in DOMAIN s.turn : a.turn[u].who = s.turn[u].who
      BY <1>13, <1>14, <1>16
    <2>2. ASSUME NEW u \in DOMAIN s.turn, NEW q \in Led!Participant
          PROVE  Stands(s.del[u][q], a.del[u][q])
      <3>1. s.del[u][q] \in DeliveryRow
        BY <1>0, <1>17 DEF FoldState
      <3>2. CASE u # t
        BY <1>15, <1>17, <3>1, <3>2, StandsStill
      <3>3. CASE u = t /\ q # p
        BY <1>12, <1>16, <3>1, <3>3, StandsStill
      <3>4. CASE u = t /\ q = p
        BY <1>10, <1>12, <1>16, <3>4
      <3> QED
        BY <3>2, <3>3, <3>4
    <2> QED
      BY <1>11, <2>1, <2>2 DEF Later
  <1> QED
    BY <1>11, <1>20, <1>22, <1>23, <1>24 DEF FoldOK, a

\* Every event.
LEMMA ApplyKeeps ==
  ASSUME Led!DelegationAssumption, NEW s, FoldOK(s), NEW e \in LedgerEvent,
         Led!Accepts(s, e), Fits(s, e)
  PROVE  FoldOK(Led!Apply(s, e)) /\ Later(s, Led!Apply(s, e))
  <1>1. CASE e \in OfDelegation \cup OfParticipant \cup OfBlocker \cup OfRevision \cup OfReview
    <2>1. Aside(s, Led!Apply(s, e))
      BY <1>1, OfDelegationAside, OfParticipantAside, OfBlockerAside, OfRevisionAside,
         OfReviewAside
    <2> QED
      BY <2>1, AsideKeeps
  <1>2. CASE e \in OfTurn
    <2>1. Led!Apply(s, e) = Led!Admission(s, e) /\ s.status \notin Led!Ended /\ e.who # {}
      BY <1>2 DEF OfTurn, Led!Apply, Led!DeliveryEvent, Led!Accepts
    <2>2. Len(s.turn) < MaxTurns /\ s \in FoldState
      BY <1>2 DEF OfTurn, Fits, FoldOK
    <2>3. AdmittedTo(s, e, Len(s.turn) + 1, Led!Admission(s, e))
      BY <1>2, <2>1, <2>2, AdmissionType
    <2> QED
      BY <1>2, <2>1, <2>2, <2>3, AdmissionKeeps
  <1>3. CASE e \in OfDelivery
    <2>1. e.type \in Led!DeliveryEvent
      BY <1>3, DeliveryFields
    <2>2. Led!Apply(s, e) = Led!ApplyDelivery(s, e) /\ Led!AcceptsDelivery(s, e)
      BY <2>1 DEF Led!Apply, Led!Accepts, Led!DeliveryEvent
    <2> QED
      BY <1>3, <2>2, DeliveryKeeps
  <1> QED
    BY <1>1, <1>2, <1>3 DEF LedgerEvent

LEMMA FoldKeeps ==
  ASSUME Led!DelegationAssumption, NEW s, FoldOK(s), NEW e \in LedgerEvent,
         Led!Accepts(s, e), Fits(s, e)
  PROVE  FoldOK(Led!foldDelegation(s, e)) /\ Later(s, Led!foldDelegation(s, e))
  <1> DEFINE b == Led!Apply(s, e)
             a == Led!deriveApprovalStatus(b)
  <1>1. FoldOK(b) /\ Later(s, b)
    BY ApplyKeeps
  <1> HIDE DEF b
  <1>2. /\ a \in FoldState
        /\ a.turn = b.turn /\ a.del = b.del /\ a.revs = b.revs
        /\ a.status = b.status \/ (b.status \notin Led!Ended
                                   /\ a.status \in {"approved", "waiting_review", "running"})
    BY <1>1, Derives DEF FoldOK
  <1> HIDE DEF a
  <1>3. Later(s, a)
    BY <1>1, <1>2 DEF Later
  <1>4. Worked(a) /\ Bounded(a)
    BY <1>1, <1>2 DEF FoldOK, Worked, Bounded
  <1>5. Finished(a)
    BY <1>1, <1>2 DEF FoldOK, Finished
  <1> QED
    BY <1>2, <1>3, <1>4, <1>5 DEF FoldOK, a, b, Led!foldDelegation

------------------------------------------------------------------------------
(* Delegations: what operations hold.                                      *)

Plannable == OfDelegation \cup OfParticipant \cup OfReview \cup OfDelivery

\* A plan is about turns that there are, and about attempts that were read.
PlanFits(s, e) ==
  e \in OfDelivery =>
    /\ e.turn \in DOMAIN s.turn
    /\ e.attempt <= s.del[e.turn][e.who].attempt + 1

Planned(s, events) ==
  /\ events \in Seq(Plannable)
  /\ \A i \in DOMAIN events : PlanFits(s, events[i])

\* Finite sets and their sizes are the same there and here.
LEMMA SameSets ==
  ASSUME NEW S
  PROVE  (Led!IsFiniteSet(S) <=> IsFiniteSet(S)) /\ Led!Cardinality(S) = Cardinality(S)
  <1>1. Led!IsFiniteSet(S) <=> IsFiniteSet(S)
    BY DEF Led!IsFiniteSet, IsFiniteSet
  <1>2. Led!Cardinality(S) = Cardinality(S)
    BY DEF Led!Cardinality, Cardinality
  <1> QED
    BY <1>1, <1>2

LEMMA SeqOfSet ==
  ASSUME NEW S, IsFiniteSet(S)
  PROVE  /\ Cardinality(S) \in Nat
         /\ Led!SetToSeq(S) \in [1..Cardinality(S) -> S]
  <1>1. Cardinality(S) \in Nat /\ ExistsBijection(1..Cardinality(S), S)
    BY FS_CardinalityType
  <1>2. \E f \in [1..Cardinality(S) -> S] : Led!IsInjective(f)
    BY <1>1 DEF ExistsBijection, Bijection, Injection, IsInjective, Led!IsInjective
  <1>3. Led!SetToSeq(S) = CHOOSE f \in [1..Cardinality(S) -> S] : Led!IsInjective(f)
    BY SameSets DEF Led!SetToSeq
  <1> QED
    BY <1>1, <1>2, <1>3

LEMMA TurnNumbers ==
  ASSUME Led!DelegationAssumption, NEW s, FoldOK(s)
  PROVE  /\ DOMAIN s.turn = 1..Len(s.turn) /\ Len(s.turn) \in Nat
         /\ DOMAIN s.turn \subseteq Led!Turn
         /\ \A t \in DOMAIN s.turn, p \in Led!Participant : s.del[t][p] \in DeliveryRow
  <1>1. DOMAIN s.turn = 1..Len(s.turn) /\ Len(s.turn) \in Nat
    BY DEF FoldOK, FoldState
  <1>2. DOMAIN s.turn \subseteq Led!Turn
    BY <1>1 DEF FoldOK, Bounded, Led!Turn, Led!DelegationAssumption
  <1> QED
    BY <1>1, <1>2 DEF FoldOK, FoldState

\* What a list of deliveries is about.
LEMMA DeliveriesAreDeliveries ==
  ASSUME Led!DelegationAssumption, FoldOK(d), NEW st
  PROVE  LET list == Led!Deliveries(st) IN
         /\ list \in Seq((DOMAIN d.turn) \X Led!Participant)
         /\ \A i \in DOMAIN list : list[i][1] \in DOMAIN d.turn /\ list[i][2] \in Led!Participant
  <1> DEFINE S == {x \in (DOMAIN d.turn) \X Led!Participant : Led!Delivery(x[1], x[2]).status \in st}
             list == Led!SetToSeq(S)
  <1>1. IsFiniteSet((DOMAIN d.turn) \X Led!Participant)
    <2>1. IsFiniteSet(DOMAIN d.turn)
      BY TurnNumbers, FS_Interval
    <2>2. IsFiniteSet(Led!Participant)
      BY SameSets DEF Led!Participant, Led!DelegationAssumption
    <2> QED
      BY <2>1, <2>2, FS_Product
  <1>2. IsFiniteSet(S)
    BY <1>1, FS_Subset
  <1>3. Cardinality(S) \in Nat /\ list \in [1..Cardinality(S) -> S]
    BY <1>2, SeqOfSet
  <1>4. Led!Deliveries(st) = list
    BY DEF Led!Deliveries
  <1> HIDE DEF list
  <1>5. \A i \in DOMAIN list : list[i] \in (DOMAIN d.turn) \X Led!Participant
    BY <1>3
  <1>6. list \in Seq((DOMAIN d.turn) \X Led!Participant)
    BY <1>3, <1>5
  <1> QED
    BY <1>4, <1>5, <1>6

\* A plan stays one while attempts go on.
LEMMA PlansStand ==
  ASSUME Led!DelegationAssumption, NEW s, FoldOK(s), NEW a, Later(s, a), FoldOK(a),
         NEW events, Planned(s, events)
  PROVE  Planned(a, events)
  <1> SUFFICES ASSUME NEW i \in DOMAIN events, events[i] \in OfDelivery
               PROVE  /\ events[i].turn \in DOMAIN a.turn
                      /\ events[i].attempt <= a.del[events[i].turn][events[i].who].attempt + 1
    BY DEF Planned, PlanFits
  <1> DEFINE e == events[i]
  <1>1. e.who \in Led!Participant /\ e.attempt \in Nat
    BY DeliveryFields
  <1>2. e.turn \in DOMAIN s.turn /\ e.attempt <= s.del[e.turn][e.who].attempt + 1
    BY DEF Planned, PlanFits
  <1>3. e.turn \in DOMAIN a.turn
    BY <1>2 DEF Later
  <1>4. Stands(s.del[e.turn][e.who], a.del[e.turn][e.who])
    BY <1>1, <1>2 DEF Later
  <1>5. s.del[e.turn][e.who] \in DeliveryRow /\ a.del[e.turn][e.who] \in DeliveryRow
    BY <1>1, <1>2, <1>3, TurnNumbers
  <1>6. s.del[e.turn][e.who].attempt \in Nat /\ a.del[e.turn][e.who].attempt \in Nat
        /\ a.del[e.turn][e.who].attempt >= s.del[e.turn][e.who].attempt
    BY <1>4, <1>5 DEF Stands, DeliveryRow
  <1> HIDE DEF e
  <1>7. e.attempt <= a.del[e.turn][e.who].attempt + 1
    BY <1>1, <1>2, <1>6
  <1> QED
    BY <1>3, <1>7 DEF e

\* The approval that a fold derives is current.
LEMMA FoldApproves ==
  ASSUME Led!DelegationAssumption, FoldOK(d), NEW e \in LedgerEvent, Led!Accepts(d, e),
         Fits(d, e), d' = Led!foldDelegation(d, e)
  PROVE  Led!ApprovalIsCurrent'
  <1> DEFINE b == Led!Apply(d, e)
  <1>1. b \in FoldState
    BY ApplyKeeps DEF FoldOK
  <1>2. d' = Led!deriveApprovalStatus(b)
    BY DEF Led!foldDelegation
  <1> HIDE DEF b
  <1>3. /\ d'.revs = b.revs /\ d'.review = b.review /\ d'.phase = b.phase
        /\ d'.status = "approved" /\ b.revs # <<>> => Led!canComplete(b)
    BY <1>1, <1>2, Derives
  <1>4. Led!canComplete(b) =>
          \A p \in Led!Present(b, Reviewer) :
            /\ b.review[p].verdict = "approved"
            /\ \A i \in DOMAIN b.revs : i > b.review[p].rev => b.revs[i] = "no_change"
    BY DEF Led!canComplete, Led!evaluateReviewBarrier, Led!isReviewEffective, Led!copyable
  <1>5. ASSUME NEW p \in Reviewer, NEW i \in DOMAIN b.revs
        PROVE  ~(i > b.review[p].rev) => b.review[p].rev >= i
    BY <1>1 DEF FoldState
  <1>6. Led!Present(d, Reviewer)' = Led!Present(b, Reviewer) /\ Led!Present(b, Reviewer) \subseteq Reviewer
    BY <1>3 DEF Led!Present
  <1> QED
    BY <1>3, <1>4, <1>5, <1>6 DEF Led!ApprovalIsCurrent

LedInv ==
  /\ FoldOK(d)
  /\ Led!ApprovalIsCurrent
  /\ ops \in [Op -> Seq(Plannable)]
  /\ \A o \in Op : Planned(d, ops[o])

\* A step of the ledger publishes an event the fold accepts, or only plans.
LEMMA LedPublish ==
  ASSUME Led!DelegationAssumption, LedInv, NEW e \in LedgerEvent, Fits(d, e), Led!Publish(e)
  PROVE  FoldOK(d') /\ Later(d, d') /\ Led!ApprovalIsCurrent'
  <1>1. Led!Accepts(d, e) /\ d' = Led!foldDelegation(d, e) /\ FoldOK(d)
    BY DEF Led!Publish, LedInv
  <1>2. FoldOK(Led!foldDelegation(d, e)) /\ Later(d, Led!foldDelegation(d, e))
    BY <1>1, FoldKeeps
  <1> QED
    BY <1>1, <1>2, FoldApproves

\* What a step may do.
LedStep ==
  /\ FoldOK(d') /\ Later(d, d') /\ Led!ApprovalIsCurrent'
  /\ ops' \in [Op -> Seq(Plannable)]
  /\ \A o \in Op : Planned(d, ops'[o])

LEMMA LedStays ==
  ASSUME Led!DelegationAssumption, LedInv, UNCHANGED d
  PROVE  FoldOK(d') /\ Later(d, d') /\ Led!ApprovalIsCurrent'
  <1>1. FoldOK(d') /\ Led!ApprovalIsCurrent'
    BY DEF LedInv, Led!ApprovalIsCurrent, Led!Present
  <1>2. Later(d, d)
    BY TurnNumbers, StandsStill DEF Later, LedInv
  <1> QED
    BY <1>1, <1>2

LEMMA LedPlans ==
  ASSUME Led!DelegationAssumption, LedInv, NEW o \in Op, NEW events, Planned(d, events), Led!Plan(o, events)
  PROVE  LedStep
  <1>1. /\ events \in Seq(Plannable) /\ ops' = [ops EXCEPT ![o] = events] /\ UNCHANGED d
        /\ ops \in [Op -> Seq(Plannable)] /\ \A q \in Op : Planned(d, ops[q])
    BY DEF Planned, Led!Plan, LedInv
  <1>2. ops' \in [Op -> Seq(Plannable)] /\ \A q \in Op : Planned(d, ops'[q])
    BY <1>1
  <1> QED
    BY <1>1, <1>2, LedStays DEF LedStep

\* A report of an attempt that was read.
LEMMA Reports ==
  ASSUME Led!DelegationAssumption, FoldOK(d), NEW t \in DOMAIN d.turn,
         NEW p \in Led!Participant, NEW a \in 0..MaxAttempts, a <= d.del[t][p].attempt + 1,
         NEW type \in Led!DeliveryEvent \ {"DeliveryAdmitted"}
  PROVE  /\ Led!Event(type, t, p, a) \in OfDelivery
         /\ PlanFits(d, Led!Event(type, t, p, a)) /\ Fits(d, Led!Event(type, t, p, a))
  <1>1. t \in Led!Turn
    BY TurnNumbers
  <1>2. Led!Event(type, t, p, a) \in OfReport
    BY <1>1 DEF Led!Event, OfReport
  <1> QED
    BY <1>2 DEF OfDelivery, PlanFits, Fits, Led!Event, Led!DeliveryEvent

\* The attempt that a delivery is at.
LEMMA Attempts ==
  ASSUME Led!DelegationAssumption, FoldOK(d), NEW t \in DOMAIN d.turn, NEW p \in Led!Participant
  PROVE  /\ d.del[t][p].attempt \in 0..MaxAttempts
         /\ d.del[t][p].attempt \in Nat /\ d.del[t][p].attempt <= d.del[t][p].attempt + 1
  BY TurnNumbers DEF DeliveryRow, Led!DelegationAssumption

\* Reports about a list of deliveries are a plan.
LEMMA ReportsOfList ==
  ASSUME Led!DelegationAssumption, FoldOK(d), NEW st,
         NEW type \in Led!DeliveryEvent \ {"DeliveryAdmitted"}
  PROVE  LET list == Led!Deliveries(st) IN
         Planned(d, [i \in DOMAIN list |->
                       Led!Event(type, list[i][1], list[i][2],
                                 Led!Delivery(list[i][1], list[i][2]).attempt)])
  <1> DEFINE list == Led!Deliveries(st)
             event(i) == Led!Event(type, list[i][1], list[i][2],
                                   Led!Delivery(list[i][1], list[i][2]).attempt)
             plan == [i \in DOMAIN list |-> event(i)]
  <1>1. list \in Seq((DOMAIN d.turn) \X Led!Participant)
        /\ \A i \in DOMAIN list : list[i][1] \in DOMAIN d.turn /\ list[i][2] \in Led!Participant
    BY DeliveriesAreDeliveries
  <1> HIDE DEF list
  <1>2. ASSUME NEW i \in DOMAIN list
        PROVE  event(i) \in Plannable /\ PlanFits(d, event(i))
    <2> DEFINE t == list[i][1]
               p == list[i][2]
    <2>1. t \in DOMAIN d.turn /\ p \in Led!Participant
      BY <1>1
    <2>2. event(i) = Led!Event(type, t, p, d.del[t][p].attempt)
      BY DEF Led!Delivery
    <2> HIDE DEF t, p
    <2>3. event(i) \in OfDelivery /\ PlanFits(d, event(i))
      BY <2>1, <2>2, Attempts, Reports
    <2> QED
      BY <2>3 DEF Plannable
  <1> HIDE DEF event
  <1>3. DOMAIN list = 1..Len(list) /\ Len(list) \in Nat
    BY <1>1
  <1>4. plan \in Seq(Plannable) /\ DOMAIN plan = DOMAIN list
    BY <1>2, <1>3
  <1>5. \A i \in DOMAIN plan : PlanFits(d, plan[i])
    BY <1>2, <1>4
  <1>6. Planned(d, plan)
    BY <1>4, <1>5 DEF Planned
  <1> QED
    BY <1>6 DEF event, list

\* Events that are about no attempt are plans at any time.
LEMMA OtherPlans ==
  ASSUME NEW s, NEW e \in OfDelegation \cup OfParticipant \cup OfReview
  PROVE  e \in Plannable /\ PlanFits(s, e)
  BY Kinds DEF Plannable, PlanFits

\* What is planned is published as it fits.
LEMMA PlansFit ==
  ASSUME NEW s, NEW e \in Plannable, PlanFits(s, e)
  PROVE  e \in LedgerEvent /\ Fits(s, e)
  BY DEF Plannable, LedgerEvent, Fits, PlanFits, OfDelegation, OfParticipant, OfReview,
     OfDelivery, OfReport, OfRetry, Led!DeliveryEvent

LEMMA ClosingPlan ==
  ASSUME Led!DelegationAssumption, LedInv, NEW o \in Op, Led!close(o)
  PROVE  LedStep
  <1> DEFINE open == {p \in Led!Participant : "closed" \in Led!canAdvancePhase[d.phase[p]]}
             first == [type |-> "Closing"]
             rest == [i \in 1..Cardinality(open) |->
                        [type |-> "ParticipantClosed", who |-> Led!SetToSeq(open)[i]]]
             plan == <<first>> \o rest
  <1>1. IsFiniteSet(open)
    BY SameSets, FS_Subset DEF Led!Participant, Led!DelegationAssumption
  <1>2. Cardinality(open) \in Nat /\ Led!SetToSeq(open) \in [1..Cardinality(open) -> open]
    BY <1>1, SeqOfSet
  <1>3. Led!Plan(o, plan)
    BY SameSets DEF Led!close
  <1>4. first \in OfDelegation
    BY DEF OfDelegation
  <1>5. \A i \in 1..Cardinality(open) : Led!SetToSeq(open)[i] \in Led!Participant
    BY <1>2
  <1>6. rest \in Seq(OfParticipant)
    <2>1. \A i \in 1..Cardinality(open) :
            [type |-> "ParticipantClosed", who |-> Led!SetToSeq(open)[i]] \in OfParticipant
      BY <1>5 DEF OfParticipant
    <2>2. rest \in [1..Cardinality(open) -> OfParticipant]
      BY <2>1
    <2> HIDE DEF open, rest
    <2> QED
      BY <1>2, <2>2
  <1> HIDE DEF first, rest
  <1>7. plan \in Seq(OfDelegation \cup OfParticipant)
    BY <1>4, <1>6
  <1> HIDE DEF plan
  <1>8. Planned(d, plan)
    <2>1. \A i \in DOMAIN plan : plan[i] \in OfDelegation \cup OfParticipant
      BY <1>7
    <2>2. \A i \in DOMAIN plan : plan[i] \in Plannable /\ PlanFits(d, plan[i])
      BY <2>1, OtherPlans
    <2>3. plan \in Seq(Plannable)
      BY <1>7, <2>2
    <2> QED
      BY <2>2, <2>3 DEF Planned
  <1> QED
    BY <1>3, <1>8, LedPlans

\* Operations of one event.
LEMMA OneEvent ==
  ASSUME Led!DelegationAssumption, LedInv, NEW e \in LedgerEvent, Fits(d, e), Led!Publish(e),
         UNCHANGED ops
  PROVE  LedStep
  BY LedPublish DEF LedStep, LedInv

LEMMA SmallEvents ==
  ASSUME Led!DelegationAssumption, LedInv
  PROVE  /\ \A p \in Led!Participant : Led!addParticipant(p) \/ Led!bindParticipant(p) => LedStep
         /\ \A p \in Reviewer \cup {Led!NoOne} : Led!retractRejection(p) => LedStep
         /\ Led!unarchive \/ Led!archive => LedStep
  <1>1. ASSUME NEW p \in Led!Participant, Led!addParticipant(p) \/ Led!bindParticipant(p)
        PROVE  LedStep
    <2>1. PICK type \in {"ParticipantAdded", "ParticipantBound"} :
             Led!Publish([type |-> type, who |-> p]) /\ UNCHANGED ops
      BY <1>1 DEF Led!addParticipant, Led!bindParticipant
    <2>2. [type |-> type, who |-> p] \in OfParticipant
      BY DEF OfParticipant
    <2> QED
      BY <2>1, <2>2, OneEvent, OtherPlans, PlansFit
  <1>2. ASSUME NEW p \in Reviewer \cup {Led!NoOne}, Led!retractRejection(p) PROVE LedStep
    <2> DEFINE e == [type |-> "RejectionRetracted", who |-> p]
    <2>1. Led!Publish(e) /\ UNCHANGED ops
      BY <1>2 DEF Led!retractRejection
    <2>2. e \in OfBlocker
      BY DEF OfBlocker
    <2>3. e \in LedgerEvent /\ Fits(d, e)
      BY <2>2, Kinds DEF LedgerEvent, Fits
    <2> QED
      BY <2>1, <2>3, OneEvent
  <1>3. ASSUME Led!unarchive \/ Led!archive PROVE LedStep
    <2>1. PICK type \in {"Completed", "Archived"} :
             Led!Publish([type |-> type]) /\ UNCHANGED ops
      BY <1>3 DEF Led!unarchive, Led!archive
    <2>2. [type |-> type] \in OfDelegation
      BY DEF OfDelegation
    <2> QED
      BY <2>1, <2>2, OneEvent, OtherPlans, PlansFit
  <1> QED
    BY <1>1, <1>2, <1>3

LEMMA TurnEvents ==
  ASSUME Led!DelegationAssumption, LedInv, NEW ps \in SUBSET Led!Participant,
         NEW queue \in BOOLEAN, Led!appendTurn(ps, queue)
  PROVE  LedStep
  <1> DEFINE e == [type |-> "TurnAdmitted", who |-> ps, queue |-> queue]
  <1>1. Len(d.turn) < MaxTurns /\ Led!Publish(e) /\ UNCHANGED ops
    BY DEF Led!appendTurn
  <1>2. e \in OfTurn
    BY DEF OfTurn
  <1>3. e \in LedgerEvent /\ Fits(d, e)
    BY <1>1, <1>2, Kinds DEF LedgerEvent, Fits
  <1> QED
    BY <1>1, <1>3, OneEvent

LEMMA DeliveryEvents ==
  ASSUME Led!DelegationAssumption, LedInv, NEW t \in DOMAIN d.turn, NEW p \in Led!Participant,
         NEW a \in 1..MaxAttempts, NEW type \in Led!DeliveryEvent \ {"DeliveryAdmitted"},
         Led!recordDelivery(t, p, a, type)
  PROVE  LedStep
  <1>1. a <= d.del[t][p].attempt + 1 /\ FoldOK(d)
    BY Attempts DEF Led!recordDelivery, Led!Delivery, LedInv
  <1>2. a \in 0..MaxAttempts
    BY DEF Led!DelegationAssumption
  <1>3. Led!Event(type, t, p, a) \in OfDelivery /\ Fits(d, Led!Event(type, t, p, a))
    BY <1>1, <1>2, Reports
  <1>4. Led!Event(type, t, p, a) \in LedgerEvent
    BY <1>3 DEF LedgerEvent
  <1>5. Led!Publish(Led!Event(type, t, p, a)) /\ UNCHANGED ops
    BY DEF Led!recordDelivery
  <1> QED
    BY <1>3, <1>4, <1>5, OneEvent

LEMMA RevisionEvents ==
  ASSUME Led!DelegationAssumption, LedInv, NEW t \in DOMAIN d.turn, NEW p \in Implementer,
         NEW kind \in Led!ChangeKind, Led!recordRevision(t, p, kind)
  PROVE  LedStep
  <1> DEFINE e == [type |-> "RevisionRecorded", turn |-> t, who |-> p, kind |-> kind]
  <1>1. Len(d.revs) < MaxRevisions /\ Led!Publish(e) /\ UNCHANGED ops
    BY DEF Led!recordRevision
  <1>2. t \in Led!Turn
    BY TurnNumbers DEF LedInv
  <1>3. e \in OfRevision
    BY <1>2 DEF OfRevision
  <1>4. e \in LedgerEvent /\ Fits(d, e)
    BY <1>1, <1>3, Kinds DEF LedgerEvent, Fits
  <1> QED
    BY <1>1, <1>4, OneEvent

LEMMA ReviewEvents ==
  ASSUME Led!DelegationAssumption, LedInv, NEW t \in DOMAIN d.turn, NEW p \in Reviewer,
         NEW rev \in 0..MaxRevisions, NEW verdict \in Led!Verdict,
         Led!recordReview(t, p, rev, verdict)
  PROVE  LedStep
  <1>1. Led!Publish(Led!ReviewOf(t, p, rev, verdict)) /\ UNCHANGED ops
    BY DEF Led!recordReview
  <1>2. t \in Led!Turn
    BY TurnNumbers DEF LedInv
  <1>3. Led!ReviewOf(t, p, rev, verdict) \in OfReview
    BY <1>2 DEF OfReview, Led!ReviewOf
  <1> QED
    BY <1>1, <1>3, OneEvent, OtherPlans, PlansFit

------------------------------------------------------------------------------
(* Delegations: operations of several events.                              *)

LEMMA Retries ==
  ASSUME Led!DelegationAssumption, LedInv, NEW o \in Op, NEW t \in DOMAIN d.turn,
         NEW p \in Led!Participant, Led!retry(o, t, p)
  PROVE  LedStep
  <1> DEFINE e == Led!Again(t, p)
  <1>1. FoldOK(d) /\ d.del[t][p].attempt < MaxAttempts /\ Led!Plan(o, <<e>>)
    BY DEF Led!retry, Led!Delivery, LedInv
  <1>2. d.del[t][p].attempt \in Nat
    BY <1>1, Attempts
  <1>3. d.del[t][p].attempt + 1 \in 0..MaxAttempts /\ t \in Led!Turn
    BY <1>1, <1>2, TurnNumbers DEF Led!DelegationAssumption
  <1>4. e \in OfRetry /\ e.turn = t /\ e.who = p /\ e.attempt = d.del[t][p].attempt + 1
    BY <1>3 DEF Led!Again, Led!Delivery, OfRetry
  <1> HIDE DEF e
  <1>5. e \in Plannable /\ PlanFits(d, e)
    BY <1>2, <1>4 DEF Plannable, PlanFits, OfDelivery
  <1>6. Planned(d, <<e>>)
    BY <1>5 DEF Planned
  <1> QED
    BY <1>1, <1>6, LedPlans

LEMMA Settles ==
  ASSUME Led!DelegationAssumption, LedInv, NEW o \in Op, NEW t \in DOMAIN d.turn,
         NEW p \in Reviewer, NEW rev \in 0..MaxRevisions, NEW verdict \in Led!Verdict,
         Led!settleExternalDelivery(o, t, p, rev, verdict)
  PROVE  LedStep
  <1> DEFINE e == Led!Event("DeliveryCompleted", t, p, d.del[t][p].attempt)
             r == Led!ReviewOf(t, p, rev, verdict)
  <1>1. FoldOK(d) /\ Led!Plan(o, <<e, r>>)
    BY DEF Led!settleExternalDelivery, Led!Delivery, LedInv
  <1>2. p \in Led!Participant /\ t \in Led!Turn
    BY <1>1, TurnNumbers DEF Led!Participant
  <1>3. e \in OfDelivery /\ PlanFits(d, e)
    BY <1>1, <1>2, Attempts, Reports DEF Led!DeliveryEvent
  <1>4. r \in OfReview
    BY <1>2 DEF OfReview, Led!ReviewOf
  <1>5. r \in Plannable /\ PlanFits(d, r)
    BY <1>4, OtherPlans
  <1> HIDE DEF e, r
  <1>6. e \in Plannable
    BY <1>3 DEF Plannable
  <1>7. Planned(d, <<e, r>>)
    BY <1>3, <1>5, <1>6 DEF Planned
  <1> QED
    BY <1>1, <1>7, LedPlans

LEMMA Scans ==
  ASSUME Led!DelegationAssumption, LedInv, NEW o \in Op, Led!reconcile(o) \/ Led!scan(o)
  PROVE  LedStep
  <1>0. FoldOK(d)
    BY DEF LedInv
  <1>1. CASE Led!reconcile(o)
    BY <1>0, <1>1, ReportsOfList, LedPlans DEF Led!reconcile, Led!DeliveryEvent
  <1>2. CASE Led!scan(o)
    BY <1>0, <1>2, ReportsOfList, LedPlans DEF Led!scan, Led!DeliveryEvent
  <1> QED
    BY <1>1, <1>2

LEMMA Completes ==
  ASSUME Led!DelegationAssumption, LedInv, NEW o \in Op, Led!complete(o)
  PROVE  LedStep
  <1> DEFINE e == [type |-> "Completed"]
             f == [type |-> "Archived"]
  <1>1. Led!Plan(o, <<e, f>>)
    BY DEF Led!complete
  <1>2. e \in OfDelegation /\ f \in OfDelegation
    BY DEF OfDelegation
  <1> HIDE DEF e, f
  <1>3. Planned(d, <<e, f>>)
    BY <1>2, OtherPlans DEF Planned
  <1> QED
    BY <1>1, <1>3, LedPlans

LEMMA Publishes ==
  ASSUME Led!DelegationAssumption, LedInv, NEW o \in Op, Led!PublishNext(o)
  PROVE  LedStep
  <1>1. ops[o] \in Seq(Plannable) /\ ops[o] # <<>> /\ Planned(d, ops[o])
    BY DEF LedInv, Led!PublishNext
  <1>2. Head(ops[o]) \in Plannable /\ Tail(ops[o]) \in Seq(Plannable)
        /\ Head(ops[o]) = ops[o][1] /\ 1 \in DOMAIN ops[o]
    BY <1>1
  <1>3. PlanFits(d, Head(ops[o]))
    BY <1>1, <1>2 DEF Planned
  <1>4. \A i \in DOMAIN Tail(ops[o]) : i + 1 \in DOMAIN ops[o] /\ Tail(ops[o])[i] = ops[o][i + 1]
    BY <1>1
  <1>5. Planned(d, Tail(ops[o])) /\ Planned(d, <<>>)
    BY <1>1, <1>2, <1>4 DEF Planned
  <1>6. CASE Led!Accepts(d, Head(ops[o]))
    <2>1. Led!Publish(Head(ops[o])) /\ ops' = [ops EXCEPT ![o] = Tail(@)]
      BY <1>6 DEF Led!PublishNext, Led!Publish
    <2>2. Head(ops[o]) \in LedgerEvent /\ Fits(d, Head(ops[o]))
      BY <1>2, <1>3, PlansFit
    <2>3. FoldOK(d') /\ Later(d, d') /\ Led!ApprovalIsCurrent'
      BY <2>1, <2>2, LedPublish
    <2>4. ops' \in [Op -> Seq(Plannable)] /\ \A q \in Op : Planned(d, ops'[q])
      BY <1>2, <1>5, <2>1 DEF LedInv
    <2> QED
      BY <2>3, <2>4 DEF LedStep
  <1>7. CASE ~Led!Accepts(d, Head(ops[o]))
    <2>1. UNCHANGED d /\ ops' = [ops EXCEPT ![o] = <<>>]
      BY <1>7 DEF Led!PublishNext
    <2>2. ops' \in [Op -> Seq(Plannable)] /\ \A q \in Op : Planned(d, ops'[q])
      BY <1>5, <2>1 DEF LedInv
    <2> QED
      BY <2>1, <2>2, LedStays DEF LedStep
  <1> QED
    BY <1>6, <1>7

LEMMA LedSteps ==
  ASSUME Led!DelegationAssumption, LedInv, [Led!Next]_(Led!vars)
  PROVE  LedStep
  <1>1. CASE UNCHANGED Led!vars
    BY <1>1, LedStays DEF LedStep, LedInv, Led!vars
  <1>2. CASE Led!Crash
    <2>1. UNCHANGED d /\ ops' = [o \in Op |-> <<>>]
      BY <1>2 DEF Led!Crash
    <2>2. ops' \in [Op -> Seq(Plannable)] /\ \A o \in Op : Planned(d, ops'[o])
      BY <2>1 DEF Planned
    <2> QED
      BY <2>1, <2>2, LedStays DEF LedStep
  <1>3. CASE Led!Next
    BY <1>2, <1>3, SmallEvents, TurnEvents, DeliveryEvents, RevisionEvents, ReviewEvents,
       Retries, Settles, Scans, Completes, Publishes, ClosingPlan DEF Led!Next
  <1> QED
    BY <1>1, <1>3

LEMMA LedStepInv ==
  ASSUME Led!DelegationAssumption, LedInv, LedStep
  PROVE  LedInv'
  BY PlansStand DEF LedInv, LedStep

LEMMA CreatedOK ==
  ASSUME Led!DelegationAssumption
  PROVE  FoldOK(Led!Created) /\ Led!Created.turn = <<>> /\ Led!Created.status = "draft"
  <1>1. Led!Created \in FoldState
    <2>1. 0 \in 0..MaxAttempts /\ 0 \in 0..MaxRevisions
      BY DEF Led!DelegationAssumption
    <2>2. Led!NoDelivery \in DeliveryRow
      BY <2>1, Names DEF DeliveryRow, Led!NoDelivery
    <2>3. [rev |-> 0, verdict |-> "none"] \in [rev : 0..MaxRevisions, verdict : Led!Verdict \cup {"none"}]
      BY <2>1
    <2> QED
      BY <2>2, <2>3, Names DEF Led!Created, FoldState
  <1>2. Bounded(Led!Created) /\ Worked(Led!Created) /\ Finished(Led!Created)
    BY DEF Led!Created, Bounded, Worked, Finished, Led!DelegationAssumption
  <1> QED
    BY <1>1, <1>2 DEF FoldOK, Led!Created

LEMMA LedInit ==
  ASSUME Led!DelegationAssumption, Led!Init
  PROVE  LedInv
  <1>1. d = Led!Created /\ ops = [o \in Op |-> <<>>]
    BY DEF Led!Init
  <1>2. Led!ApprovalIsCurrent
    BY <1>1 DEF Led!Created, Led!ApprovalIsCurrent
  <1>3. ops \in [Op -> Seq(Plannable)] /\ \A o \in Op : Planned(d, ops[o])
    BY <1>1 DEF Planned
  <1> QED
    BY <1>1, <1>2, <1>3, CreatedOK DEF LedInv

\* The invariant the theorems about delegations rest on.
THEOREM LedgerInvariance == Led!DelegationAssumption => (Led!Spec => []LedInv)
  <1> SUFFICES ASSUME Led!DelegationAssumption PROVE Led!Spec => []LedInv
    OBVIOUS
  <1>1. Led!Init => LedInv
    BY LedInit
  <1>2. LedInv /\ [Led!Next]_(Led!vars) => LedInv'
    BY LedSteps, LedStepInv
  <1> QED
    BY <1>1, <1>2, PTL DEF Led!Spec

LEMMA FoldStateType ==
  ASSUME NEW s, FoldOK(s)
  PROVE  Led!IsFoldState(s)
  <1>1. s \in FoldState /\ Bounded(s)
    BY DEF FoldOK
  <1>2. \A t \in DOMAIN s.turn : s.turn[t] \in TurnRow
    BY <1>1 DEF FoldState
  <1>3. \A i \in DOMAIN s.revs : s.revs[i] \in Led!ChangeKind
    BY <1>1 DEF FoldState
  <1>4. s.del \in [Led!Turn -> [Led!Participant -> DeliveryRow]]
    BY <1>1 DEF FoldState
  <1>5. /\ s.status \in Led!DelegationStatus /\ s.blocker \in Reviewer \cup {Led!NoOne}
        /\ s.phase \in [Led!Participant -> Led!Phase]
        /\ s.review \in [Reviewer -> [rev : 0..MaxRevisions, verdict : Led!Verdict \cup {"none"}]]
    BY <1>1 DEF FoldState
  <1> QED
    BY <1>1, <1>2, <1>3, <1>4, <1>5 DEF Led!IsFoldState, Bounded, TurnRow, DeliveryRow

\* The folded state is well formed, within its bounds.
THEOREM LedgerTypeCorrect == Led!DelegationAssumption => (Led!Spec => []Led!TypeOK)
  <1> SUFFICES ASSUME Led!DelegationAssumption PROVE Led!Spec => []Led!TypeOK
    OBVIOUS
  <1>1. LedInv => Led!TypeOK
    <2> SUFFICES ASSUME LedInv PROVE Led!TypeOK
      OBVIOUS
    <2>2. Led!IsFoldState(d)
      BY FoldStateType DEF LedInv
    <2>3. \A e \in Plannable : "type" \in DOMAIN e
      BY DEF Plannable, OfDelegation, OfParticipant, OfReview, OfDelivery, OfReport, OfRetry
    <2> QED
      BY <2>2, <2>3 DEF LedInv, Led!TypeOK
  <1> QED
    BY <1>1, LedgerInvariance, PTL

\* A delegation that counts as completed holds no unfinished work, whatever is
\* reported late, retried, reconciled or found by the scan.
THEOREM CompletedWorkAlways == Led!DelegationAssumption => (Led!Spec => []Led!CompletedWork)
  <1> SUFFICES ASSUME Led!DelegationAssumption PROVE Led!Spec => []Led!CompletedWork
    OBVIOUS
  <1>1. LedInv => Led!CompletedWork
    BY DEF LedInv, FoldOK, Finished, Led!CompletedWork, Led!Delivery
  <1> QED
    BY <1>1, LedgerInvariance, PTL

\* No reviewer whose approval counts has seen less than the last rework.
THEOREM ApprovalIsCurrentAlways ==
  Led!DelegationAssumption => (Led!Spec => []Led!ApprovalIsCurrent)
  <1> SUFFICES ASSUME Led!DelegationAssumption PROVE Led!Spec => []Led!ApprovalIsCurrent
    OBVIOUS
  <1>1. LedInv => Led!ApprovalIsCurrent
    BY DEF LedInv
  <1> QED
    BY <1>1, LedgerInvariance, PTL

\* However many retries and late reports race, attempts are neither skipped nor
\* taken back, and the outcome of an attempt is final.
THEOREM LedgerKeepsOutcomes == Led!DelegationAssumption => (Led!Spec => Led!OutcomeFinal)
  <1> SUFFICES ASSUME Led!DelegationAssumption PROVE Led!Spec => Led!OutcomeFinal
    OBVIOUS
  <1>1. LedInv /\ [Led!Next]_(Led!vars) => [Led!KeepsOutcomes]_(Led!vars)
    BY LedSteps DEF LedStep, Later, Stands, Led!KeepsOutcomes
  <1> QED
    BY <1>1, LedgerInvariance, PTL DEF Led!Spec, Led!OutcomeFinal
------------------------------------------------------------------------------
(* How turns come to run.                                                  *)

\* The fold is the same there.
LEMMA SameConstants ==
  /\ Exec!canTransition = Led!canTransition /\ Exec!canAdvancePhase = Led!canAdvancePhase
  /\ Exec!allowedNextStatuses = Led!allowedNextStatuses /\ Exec!Ended = Led!Ended
  /\ Exec!Participant = Led!Participant /\ Exec!DelegationStatus = Led!DelegationStatus
  /\ Exec!DeliveryEvent = Led!DeliveryEvent /\ Exec!Open = Led!Open
  /\ Exec!Retryable = Led!Retryable /\ Exec!NoOne = Led!NoOne /\ Exec!Turn = Led!Turn
  /\ Exec!Settled = Led!Settled /\ Exec!Phase = Led!Phase /\ Exec!DeliveryStatus = Led!DeliveryStatus
  /\ Exec!Verdict = Led!Verdict /\ Exec!ChangeKind = Led!ChangeKind
  /\ Exec!NoDelivery = Led!NoDelivery /\ Exec!Created = Led!Created
  BY DEF Exec!canTransition, Led!canTransition, Exec!canAdvancePhase, Led!canAdvancePhase,
     Exec!allowedNextStatuses, Led!allowedNextStatuses, Exec!Ended, Led!Ended,
     Exec!Participant, Led!Participant, Exec!DelegationStatus, Led!DelegationStatus,
     Exec!DeliveryEvent, Led!DeliveryEvent, Exec!Open, Led!Open, Exec!Retryable, Led!Retryable,
     Exec!NoOne, Led!NoOne, Exec!Turn, Led!Turn, Exec!Settled, Led!Settled, Exec!Phase, Led!Phase,
     Exec!DeliveryStatus, Led!DeliveryStatus, Exec!Verdict, Led!Verdict, Exec!ChangeKind,
     Led!ChangeKind, Exec!NoDelivery, Led!NoDelivery, Exec!Created, Led!Created

LEMMA SameComplete == \A s : Exec!canComplete(s) <=> Led!canComplete(s)
  <1> SUFFICES ASSUME NEW s PROVE Exec!canComplete(s) <=> Led!canComplete(s)
    OBVIOUS
  <1>1. \A p : Exec!latestDelivery(s, p) = Led!latestDelivery(s, p)
    BY DEF Exec!latestDelivery, Led!latestDelivery
  <1>2. \A role : Exec!Present(s, role) = Led!Present(s, role)
    BY DEF Exec!Present, Led!Present
  <1>3. Exec!evaluateReviewBarrier(s) <=> Led!evaluateReviewBarrier(s)
    BY <1>2, SameConstants DEF Exec!evaluateReviewBarrier, Led!evaluateReviewBarrier,
       Exec!isReviewEffective, Led!isReviewEffective, Exec!copyable, Led!copyable
  <1> QED
    BY <1>1, <1>2, <1>3, SameConstants DEF Exec!canComplete, Led!canComplete

LEMMA SameDerive == \A s : Exec!deriveApprovalStatus(s) = Led!deriveApprovalStatus(s)
  BY SameComplete, SameConstants DEF Exec!deriveApprovalStatus, Led!deriveApprovalStatus

LEMMA SameWith == \A s, e, st : Exec!WithDelivery(s, e, st) = Led!WithDelivery(s, e, st)
  BY DEF Exec!WithDelivery, Led!WithDelivery, Exec!refreshTurnStatus, Led!refreshTurnStatus

LEMMA SameRecorded == \A e : Exec!Recorded(e) = Led!Recorded(e)
  BY DEF Exec!Recorded, Led!Recorded

LEMMA SameDeliveries ==
  \A s, e : /\ Exec!AcceptsDelivery(s, e) <=> Led!AcceptsDelivery(s, e)
            /\ Exec!ApplyDelivery(s, e) = Led!ApplyDelivery(s, e)
  <1> SUFFICES ASSUME NEW s, NEW e
               PROVE  /\ Exec!AcceptsDelivery(s, e) <=> Led!AcceptsDelivery(s, e)
                      /\ Exec!ApplyDelivery(s, e) = Led!ApplyDelivery(s, e)
    OBVIOUS
  <1>1. Exec!AcceptsDelivery(s, e) <=> Led!AcceptsDelivery(s, e)
    BY SameWith, SameRecorded, SameConstants
    DEF Exec!AcceptsDelivery, Led!AcceptsDelivery, Exec!requireDeliveryAttempt,
        Led!requireDeliveryAttempt
  <1>2. Exec!ApplyDelivery(s, e) = Led!ApplyDelivery(s, e)
    BY SameWith, SameRecorded, SameConstants DEF Exec!ApplyDelivery, Led!ApplyDelivery
  <1> QED
    BY <1>1, <1>2

LEMMA SameFold ==
  ASSUME NEW s, NEW e \in OfTurn \cup OfDelivery
  PROVE  /\ Exec!Accepts(s, e) <=> Led!Accepts(s, e)
         /\ Exec!foldDelegation(s, e) = Led!foldDelegation(s, e)
  <1>1. CASE e \in OfTurn
    <2>1. Exec!Accepts(s, e) <=> Led!Accepts(s, e)
      BY <1>1, SameConstants DEF OfTurn, Exec!Accepts, Led!Accepts, Led!DeliveryEvent,
         Exec!Present, Led!Present
    <2>2. Exec!Admission(s, e) = Led!Admission(s, e)
      BY SameConstants DEF Exec!Admission, Led!Admission
    <2>3. Exec!Apply(s, e) = Led!Apply(s, e)
      BY <1>1, <2>2, SameConstants DEF OfTurn, Exec!Apply, Led!Apply, Led!DeliveryEvent
    <2> QED
      BY <2>1, <2>3, SameDerive DEF Exec!foldDelegation, Led!foldDelegation
  <1>2. CASE e \in OfDelivery
    <2>1. e.type \in Led!DeliveryEvent
      BY <1>2, DeliveryFields
    <2>2. Exec!Accepts(s, e) <=> Led!Accepts(s, e)
      BY <2>1, SameDeliveries, SameConstants DEF Exec!Accepts, Led!Accepts, Led!DeliveryEvent
    <2>3. Exec!Apply(s, e) = Led!Apply(s, e)
      BY <2>1, SameDeliveries, SameConstants DEF Exec!Apply, Led!Apply, Led!DeliveryEvent
    <2> QED
      BY <2>2, <2>3, SameDerive DEF Exec!foldDelegation, Led!foldDelegation
  <1> QED
    BY <1>1, <1>2

\* What an event about a delivery moves, and what the admission of a turn does.
Moved(s, e, a) ==
  /\ DOMAIN a.turn = DOMAIN s.turn
  /\ a.del[e.turn][e.who] = RowOf(e, Led!Recorded(e))
  /\ \A t \in DOMAIN s.turn, p \in Led!Participant :
       t # e.turn \/ p # e.who => a.del[t][p] = s.del[t][p]

LEMMA DeliveryMoves ==
  ASSUME Led!DelegationAssumption, NEW s, FoldOK(s), NEW e \in OfDelivery, Led!Accepts(s, e),
         Fits(s, e)
  PROVE  /\ Moved(s, e, Led!foldDelegation(s, e))
         /\ e.turn \in DOMAIN s.turn
         /\ Led!requireDeliveryAttempt(s.del[e.turn][e.who], e.attempt, Led!Recorded(e))
  <1> DEFINE b == Led!ApplyDelivery(s, e)
             a == Led!deriveApprovalStatus(b)
             w == Led!WithDelivery(s, e, Led!Recorded(e))
  <1>1. e.type \in Led!DeliveryEvent /\ e.turn \in Led!Turn /\ e.who \in Led!Participant
    BY DeliveryFields
  <1>2. Led!Apply(s, e) = b /\ Led!AcceptsDelivery(s, e)
    BY <1>1 DEF Led!Apply, Led!Accepts, Led!DeliveryEvent
  <1>3. s \in FoldState
    BY DEF FoldOK
  <1>4. /\ e.turn \in DOMAIN s.turn
        /\ Led!requireDeliveryAttempt(s.del[e.turn][e.who], e.attempt, Led!Recorded(e))
    BY <1>2 DEF Led!AcceptsDelivery
  <1>5. Redelivered(s, e, Led!Recorded(e), w)
    BY <1>3, <1>4, RecordedType, WithDeliveryType
  <1>6. Reported(s, e, w, b)
    BY <1>2, <1>3, ApplyDeliveryType
  <1>7. Led!foldDelegation(s, e) = a
    BY <1>2 DEF Led!foldDelegation
  <1> HIDE DEF b, w
  <1>8. b \in FoldState /\ b.turn = w.turn /\ b.del = w.del
    BY <1>6 DEF Reported
  <1>9. a.turn = b.turn /\ a.del = b.del
    BY <1>8, Derives
  <1> HIDE DEF a
  <1>10. /\ DOMAIN a.turn = DOMAIN s.turn
         /\ a.del = [s.del EXCEPT ![e.turn] = DelOf(s, e, Led!Recorded(e))]
    BY <1>5, <1>8, <1>9 DEF Redelivered
  <1>11. s.del[e.turn] \in [Led!Participant -> DeliveryRow] /\ DOMAIN s.turn \subseteq Led!Turn
    BY <1>1, <1>3, TurnNumbers DEF FoldState
  <1>12. a.del[e.turn] = DelOf(s, e, Led!Recorded(e))
    BY <1>1, <1>3, <1>10 DEF FoldState
  <1>13. a.del[e.turn][e.who] = RowOf(e, Led!Recorded(e))
    BY <1>1, <1>11, <1>12 DEF DelOf
  <1>14. ASSUME NEW t \in DOMAIN s.turn, NEW p \in Led!Participant, t # e.turn \/ p # e.who
         PROVE  a.del[t][p] = s.del[t][p]
    <2>1. CASE t # e.turn
      BY <1>3, <1>10, <1>11, <2>1 DEF FoldState
    <2>2. CASE t = e.turn
      BY <1>11, <1>12, <1>14, <2>2 DEF DelOf
    <2> QED
      BY <2>1, <2>2
  <1> QED
    BY <1>4, <1>7, <1>10, <1>13, <1>14 DEF Moved

LEMMA TurnMoves ==
  ASSUME Led!DelegationAssumption, NEW s, FoldOK(s), NEW e \in OfTurn, Led!Accepts(s, e),
         Fits(s, e), NEW a, a = Led!foldDelegation(s, e)
  PROVE  /\ Len(a.turn) = Len(s.turn) + 1 /\ DOMAIN s.turn \subseteq DOMAIN a.turn
         /\ \A t \in DOMAIN s.turn, p \in Led!Participant : a.del[t][p] = s.del[t][p]
  <1> DEFINE b == Led!Admission(s, e)
             n == Len(s.turn) + 1
  <1>1. Led!Apply(s, e) = b /\ e.who # {} /\ Len(s.turn) < MaxTurns /\ s \in FoldState
    BY DEF OfTurn, Led!Apply, Led!DeliveryEvent, Led!Accepts, Fits, FoldOK
  <1>2. AdmittedTo(s, e, n, b)
    BY <1>1, AdmissionType
  <1>3. a = Led!deriveApprovalStatus(b)
    BY <1>1 DEF Led!foldDelegation
  <1> HIDE DEF b
  <1>4. a.turn = b.turn /\ a.del = b.del
    BY <1>2, <1>3, Derives DEF AdmittedTo
  <1>5. Len(a.turn) = n /\ a.del = [s.del EXCEPT ![n] = FirstDel(s.del[n], e)]
    BY <1>2, <1>4 DEF AdmittedTo
  <1>6. /\ DOMAIN s.turn = 1..Len(s.turn) /\ Len(s.turn) \in Nat
        /\ DOMAIN s.turn \subseteq Led!Turn
    BY TurnNumbers
  <1>7. DOMAIN s.turn \subseteq DOMAIN a.turn
    BY <1>1, FoldKeeps DEF Later, LedgerEvent
  <1>8. \A t \in DOMAIN s.turn : a.del[t] = s.del[t]
    BY <1>1, <1>5, <1>6 DEF FoldState
  <1> QED
    BY <1>5, <1>7, <1>8

\* Work keeps a delegation alive: what is not closed is not over, and what waits
\* for recovery is not approved.
Scanned == {"running", "waiting_review", "changes_requested", "failed", "recovery_required"}
Alive(s) ==
  \/ s.status \in Scanned \cup {"approved"}
  \/ s.status = "draft" /\ s.turn = <<>>

LEMMA AliveKeeps ==
  ASSUME Led!DelegationAssumption, NEW s, FoldOK(s), Alive(s), NEW e \in OfTurn \cup OfDelivery,
         Led!Accepts(s, e), Fits(s, e), NEW a, a = Led!foldDelegation(s, e)
  PROVE  Alive(a) /\ (e.type = "DeliveryRecoveryRequired" => a.status = "recovery_required")
  <1> DEFINE b == Led!Apply(s, e)
  <1>0. s \in FoldState
    BY DEF FoldOK
  <1>1. a = Led!deriveApprovalStatus(b)
    BY DEF Led!foldDelegation
  <1>2. b \in FoldState
    BY ApplyKeeps DEF FoldOK, LedgerEvent
  <1>3. b.status \in Scanned \cup {"approved"}
    <2>1. CASE e \in OfTurn
      <3>1. b = Led!Admission(s, e)
        BY <2>1 DEF OfTurn, Led!Apply, Led!DeliveryEvent
      <3>2. b.status = IF s.status \in {"draft", "changes_requested"} THEN "running" ELSE s.status
        BY <1>0, <3>1 DEF Led!Admission, FoldState
      <3> QED
        BY <3>2 DEF Alive, Scanned
    <2>2. CASE e \in OfDelivery
      <3>1. b = Led!ApplyDelivery(s, e) /\ Led!AcceptsDelivery(s, e) /\ e.turn \in DOMAIN s.turn
        BY <2>2, DeliveryFields DEF Led!Apply, Led!Accepts, Led!DeliveryEvent, Led!AcceptsDelivery
      <3>2. b.status = s.status \/ b.status \in {"running", "failed", "recovery_required"}
        BY <1>0, <2>2, <3>1, ApplyDeliveryType DEF Reported
      <3>3. s.turn # <<>>
        BY <3>1
      <3> QED
        BY <3>2, <3>3 DEF Alive, Scanned
    <2> QED
      BY <2>1, <2>2
  <1>4. ASSUME e.type = "DeliveryRecoveryRequired" PROVE a.status = "recovery_required"
    <2>1. e \in OfDelivery
      BY <1>4 DEF OfTurn
    <2>2. /\ b = Led!ApplyDelivery(s, e) /\ Led!AcceptsDelivery(s, e) /\ e.turn \in DOMAIN s.turn
          /\ e.turn \in Led!Turn /\ e.who \in Led!Participant
      BY <2>1, DeliveryFields DEF Led!Apply, Led!Accepts, Led!DeliveryEvent, Led!AcceptsDelivery
    <2> DEFINE w == Led!WithDelivery(s, e, Led!Recorded(e))
    <2>3. w \in FoldState /\ w.status = s.status
      <3>1. Led!Recorded(e) \in Led!DeliveryStatus
        BY <2>1, RecordedType
      <3>2. Redelivered(s, e, Led!Recorded(e), w)
        BY <1>0, <2>1, <2>2, <3>1, WithDeliveryType
      <3> HIDE DEF w
      <3> QED
        BY <3>2 DEF Redelivered
    <2>4. s.status # "archived"
      BY DEF Alive, Scanned
    <2>5. b.status = "recovery_required"
      <3> HIDE DEF b
      <3>1. b = Led!ApplyDelivery(s, e)
        BY <2>2
      <3> HIDE DEF w
      <3>2. \E ph : b = [w EXCEPT !.phase[e.who] = ph, !.status = "recovery_required"]
        BY <1>4, <2>3, <2>4, <3>1 DEF Led!ApplyDelivery, w
      <3> QED
        BY <2>3, <3>2 DEF FoldState
    <2>6. ~Led!canComplete(b)
      <3>1. Moved(s, e, a)
        BY <2>1, DeliveryMoves
      <3>2. b.del = a.del
        BY <1>1, <1>2, Derives
      <3>3. b.del[e.turn][e.who].status = "recovery_required"
        BY <1>4, <3>1, <3>2 DEF Moved, RowOf, Led!Recorded
      <3> QED
        BY <2>2, <3>3 DEF Led!canComplete
    <2> HIDE DEF b
    <2>7. a = b
      BY <1>1, <2>5, <2>6 DEF Led!deriveApprovalStatus
    <2> QED
      BY <2>5, <2>7
  <1> HIDE DEF b
  <1>5. a.status = b.status \/ a.status \in {"approved", "waiting_review", "running"}
    BY <1>1, <1>2, Derives
  <1> QED
    BY <1>3, <1>4, <1>5 DEF Alive, Scanned

------------------------------------------------------------------------------
(* How turns come to run: the invariant.                                   *)

ExecAssumption == Exec!DelegationAssumption /\ Exec!ExecutionAssumption

LEMMA SameSetsExec ==
  ASSUME NEW S
  PROVE  (Exec!IsFiniteSet(S) <=> Led!IsFiniteSet(S)) /\ Exec!Cardinality(S) = Cardinality(S)
  <1>1. Exec!IsFiniteSet(S) <=> Led!IsFiniteSet(S)
    BY DEF Exec!IsFiniteSet, Led!IsFiniteSet
  <1>2. Exec!Cardinality(S) = Cardinality(S)
    BY DEF Exec!Cardinality, Cardinality
  <1> QED
    BY <1>1, <1>2

LEMMA OneBuild ==
  ASSUME ExecAssumption
  PROVE  Led!DelegationAssumption /\ Led!Participant = {Exec!Build} /\ Exec!Build \in Implementer
         /\ Reviewer = {}
  <1>1. Led!DelegationAssumption
    BY SameSetsExec DEF ExecAssumption, Exec!DelegationAssumption, Led!DelegationAssumption
  <1>2. Reviewer = {} /\ Cardinality(Implementer) = 1
    BY SameSetsExec DEF ExecAssumption, Exec!ExecutionAssumption
  <1>3. IsFiniteSet(Implementer)
    BY <1>1, <1>2, SameSets DEF Led!DelegationAssumption
  <1>4. PICK x : Implementer = {x}
    BY <1>2, <1>3, FS_Singleton
  <1>5. Exec!Build = x
    BY <1>4 DEF Exec!Build
  <1> QED
    BY <1>1, <1>2, <1>4, <1>5 DEF Led!Participant

\* What a delivery has come to, from old to new, over any number of steps.
After(old, new) ==
  \/ new.attempt > old.attempt
  \/ /\ new.attempt = old.attempt
     /\ old.status \in Led!Settled => new.status \in Led!Settled
     /\ old.status = "running" => new.status \in Led!Settled \cup {"running"}

Goes(s, a) ==
  /\ DOMAIN s.turn \subseteq DOMAIN a.turn
  /\ \A t \in DOMAIN s.turn : After(s.del[t][Exec!Build], a.del[t][Exec!Build])

\* Attempt a has run, or is running; attempt a is over.
Ran(row, a) ==
  row.attempt > a \/ (row.attempt = a /\ row.status \in Led!Settled \cup {"running"})
Over(row, a) ==
  row.attempt > a \/ (row.attempt = a /\ row.status \in Led!Settled)

LEMMA AfterKeeps ==
  ASSUME NEW old \in DeliveryRow, NEW new \in DeliveryRow, After(old, new), NEW a \in Nat
  PROVE  /\ Ran(old, a) => Ran(new, a)
         /\ Over(old, a) => Over(new, a)
  BY DEF DeliveryRow, After, Ran, Over

LEMMA AfterTrans ==
  ASSUME NEW x \in DeliveryRow, NEW y \in DeliveryRow, NEW z \in DeliveryRow,
         After(x, y), After(y, z)
  PROVE  After(x, z)
  BY DEF DeliveryRow, After

LEMMA StandsAfter ==
  ASSUME NEW x \in DeliveryRow, NEW y \in DeliveryRow, Stands(x, y)
  PROVE  After(x, y)
  <1>1. x.attempt \in Nat /\ y.attempt \in Nat
    BY DEF DeliveryRow
  <1>2. y.attempt > x.attempt \/ y.attempt = x.attempt
    BY <1>1 DEF Stands
  <1>3. y.attempt = x.attempt /\ x.status \in Led!Settled => y.status \in Led!Settled
    BY DEF Stands, Led!Settled, Led!Retryable
  <1>4. y.attempt = x.attempt /\ x.status = "running" => y.status \in Led!Settled \cup {"running"}
    BY DEF Stands
  <1> QED
    BY <1>2, <1>3, <1>4 DEF After

LEMMA GoesLater ==
  ASSUME ExecAssumption, NEW s, NEW a, FoldOK(s), FoldOK(a), Later(s, a)
  PROVE  Goes(s, a)
  <1>1. Exec!Build \in Led!Participant /\ Led!DelegationAssumption
    BY OneBuild
  <1>2. DOMAIN s.turn \subseteq DOMAIN a.turn
    BY DEF Later
  <1>3. ASSUME NEW t \in DOMAIN s.turn PROVE After(s.del[t][Exec!Build], a.del[t][Exec!Build])
    <2>1. Stands(s.del[t][Exec!Build], a.del[t][Exec!Build])
      BY <1>1 DEF Later
    <2>2. s.del[t][Exec!Build] \in DeliveryRow /\ a.del[t][Exec!Build] \in DeliveryRow
      BY <1>1, <1>2, TurnNumbers
    <2> QED
      BY <2>1, <2>2, StandsAfter
  <1> QED
    BY <1>2, <1>3 DEF Goes

LEMMA GoesTrans ==
  ASSUME ExecAssumption, NEW s, NEW a, NEW b, FoldOK(s), FoldOK(a), FoldOK(b),
         Goes(s, a), Goes(a, b)
  PROVE  Goes(s, b)
  <1>1. Exec!Build \in Led!Participant /\ Led!DelegationAssumption
    BY OneBuild
  <1>2. DOMAIN s.turn \subseteq DOMAIN a.turn /\ DOMAIN a.turn \subseteq DOMAIN b.turn
    BY DEF Goes
  <1>3. ASSUME NEW t \in DOMAIN s.turn PROVE After(s.del[t][Exec!Build], b.del[t][Exec!Build])
    <2>1. /\ s.del[t][Exec!Build] \in DeliveryRow /\ a.del[t][Exec!Build] \in DeliveryRow
          /\ b.del[t][Exec!Build] \in DeliveryRow
      BY <1>1, <1>2, TurnNumbers
    <2>2. /\ After(s.del[t][Exec!Build], a.del[t][Exec!Build])
          /\ After(a.del[t][Exec!Build], b.del[t][Exec!Build])
      BY <1>2 DEF Goes
    <2> QED
      BY <2>1, <2>2, AfterTrans
  <1> QED
    BY <1>2, <1>3 DEF Goes

LEMMA GoesSame ==
  ASSUME NEW s
  PROVE  Goes(s, s)
  BY DEF Goes, After

Row(s, t) == s.del[t][Exec!Build]
Del(t) == Row(d, t)
Seen(t) == Row(drain.snap, t)

RunType ==
  [at : {"none", "prompt", "start", "work", "tell", "end"}, turn : Nat, attempt : 0..MaxAttempts,
   by : {"nobody", "drain", "dispatch", "task"}, out : {"none", "completed", "failed", "refused"}]

\* A run that has yet to begin is the first attempt of a dispatched turn.
RunOK(s, r) ==
  r.at # "none" =>
    /\ r.turn \in DOMAIN s.turn /\ r.by # "nobody"
    /\ r.at \in {"prompt", "start"} => r.by # "drain" /\ r.attempt = 1

JobOK ==
  /\ job \in [run : RunType, rest : Seq(RunType)]
  /\ RunOK(d, job.run)
  /\ \A i \in DOMAIN job.rest : job.rest[i].at = "prompt" /\ RunOK(d, job.rest[i])

ToolOK ==
  /\ tool \in [at : {"idle", "append", "dispatch"}, queue : BOOLEAN, turn : Nat,
               by : {"nobody", "dispatch", "task"}]
  /\ tool.at # "idle" => tool.by # "nobody"
  /\ tool.at = "append" => Len(d.turn) < MaxTurns
  /\ tool.at = "dispatch" => tool.turn \in DOMAIN d.turn

\* The drain has read an earlier ledger, and is at a turn that was undone there.
DrainOK ==
  /\ drain \in [at : Exec!At, snap : FoldState, todo : Seq(Nat)]
  /\ FoldOK(drain.snap) /\ Goes(drain.snap, d)
  /\ \A i \in DOMAIN drain.todo : drain.todo[i] \in DOMAIN drain.snap.turn
  /\ drain.at \notin {"idle", "next"} =>
       drain.todo # <<>> /\ Seen(Head(drain.todo)).status \in Led!Open
  /\ drain.at \in {"prompt", "job"} =>
       Ran(Del(Head(drain.todo)), Seen(Head(drain.todo)).attempt)

\* While the scan marks, nothing runs.
BootOK ==
  /\ boot \subseteq DOMAIN d.turn
  /\ {watch, woken} \subseteq BOOLEAN
  /\ boot # {} =>
       /\ tool.at = "idle" /\ drain.at = "idle" /\ woken = FALSE /\ watch = FALSE
       /\ job.run.at = "none"
       /\ d.status \in Scanned

\* What works has begun in the ledger.
WorkOK ==
  /\ Exec!Working => Ran(Del(job.run.turn), job.run.attempt)
  /\ Exec!DispatchIsRecorded

\* What a crash cut off is over, or will be marked, if the next process scans; no
\* drain and no run of a drain takes it up.
Known(l) == l[4] /\ l[3] # "approved"
LostOK ==
  \A l \in lost : Known(l) =>
    /\ l[1] \in DOMAIN d.turn /\ l[2] \in Nat
    /\ \/ Over(Del(l[1]), l[2])
       \/ l[1] \in boot /\ Ran(Del(l[1]), l[2])
    /\ drain.at # "idle" => l[1] \in DOMAIN drain.snap.turn /\ Over(Seen(l[1]), l[2])
    /\ job.run.at # "none" /\ job.run.by = "drain" =>
         <<l[1], l[2]>> # <<job.run.turn, job.run.attempt>>

ExInv ==
  /\ FoldOK(d) /\ Alive(d)
  /\ JobOK /\ ToolOK /\ DrainOK /\ BootOK /\ WorkOK /\ LostOK

------------------------------------------------------------------------------
(* How turns come to run: what happens to the ledger.                      *)

Moves == FoldOK(d)' /\ Alive(d)' /\ Goes(d, d') /\ Later(d, d')

\* Attempt a of turn t comes to st, and nothing else does.
Marks(t, a, st) ==
  /\ Moves /\ DOMAIN d'.turn = DOMAIN d.turn
  /\ t \in DOMAIN d.turn /\ Row(d', t) = [attempt |-> a, status |-> st]
  /\ \A u \in DOMAIN d.turn \ {t} : Row(d', u) = Del(u)

LEMMA Rows ==
  ASSUME ExecAssumption, FoldOK(d), NEW t \in DOMAIN d.turn
  PROVE  /\ Del(t) \in DeliveryRow /\ t \in Led!Turn /\ t \in Nat
         /\ Del(t).attempt \in 1..MaxAttempts
  <1>1. Exec!Build \in Led!Participant /\ Led!Participant = {Exec!Build}
        /\ Led!DelegationAssumption
    BY OneBuild
  <1>2. Del(t) \in DeliveryRow /\ t \in Led!Turn /\ t \in Nat
    BY <1>1, TurnNumbers DEF Del, Row
  <1>3. d.turn[t].who \in (SUBSET Led!Participant) \ {{}}
    <2>1. d.turn \in Seq(TurnRow)
      BY DEF FoldOK, FoldState
    <2>2. d.turn[t] \in TurnRow
      BY <2>1
    <2> QED
      BY <2>2 DEF TurnRow
  <1>4. Exec!Build \in d.turn[t].who
    BY <1>1, <1>3
  <1>5. Del(t).attempt >= 1
    BY <1>4 DEF FoldOK, Worked, Del, Row
  <1> QED
    BY <1>2, <1>5 DEF DeliveryRow

LEMMA ExMarks ==
  ASSUME ExecAssumption, FoldOK(d), Alive(d), NEW e \in OfDelivery, e.who = Exec!Build,
         Exec!Accepts(d, e), d' = Exec!foldDelegation(d, e),
         e.attempt <= Del(e.turn).attempt + 1
  PROVE  /\ Marks(e.turn, e.attempt, Led!Recorded(e))
         /\ e.type = "DeliveryRecoveryRequired" => d'.status = "recovery_required"
  <1>1. Led!DelegationAssumption /\ Exec!Build \in Led!Participant
    BY OneBuild
  <1>2. Led!Accepts(d, e) /\ d' = Led!foldDelegation(d, e)
    BY SameFold
  <1>3. Fits(d, e) /\ e \in LedgerEvent
    BY DEF Fits, Del, Row, LedgerEvent, OfDelivery, OfReport, OfRetry, Led!DeliveryEvent
  <1>4. FoldOK(d') /\ Later(d, d')
    BY <1>1, <1>2, <1>3, FoldKeeps
  <1>5. Alive(d') /\ (e.type = "DeliveryRecoveryRequired" => d'.status = "recovery_required")
    BY <1>1, <1>2, <1>3, AliveKeeps
  <1>6. Moved(d, e, d') /\ e.turn \in DOMAIN d.turn
    BY <1>1, <1>2, <1>3, DeliveryMoves
  <1>7. Goes(d, d')
    BY <1>4, GoesLater
  <1>8. Row(d', e.turn) = [attempt |-> e.attempt, status |-> Led!Recorded(e)]
    BY <1>6 DEF Moved, RowOf, Del, Row
  <1>9. \A u \in DOMAIN d.turn \ {e.turn} : Row(d', u) = Del(u)
    BY <1>1, <1>6 DEF Moved, Del, Row
  <1> QED
    BY <1>4, <1>5, <1>6, <1>7, <1>8, <1>9 DEF Marks, Moves, Moved

LEMMA ExAdmits ==
  ASSUME ExecAssumption, FoldOK(d), Alive(d), NEW e \in OfTurn, Len(d.turn) < MaxTurns,
         Exec!Accepts(d, e), d' = Exec!foldDelegation(d, e)
  PROVE  /\ Moves /\ Len(d'.turn) = Len(d.turn) + 1 /\ DOMAIN d.turn \subseteq DOMAIN d'.turn
         /\ Len(d'.turn) \in DOMAIN d'.turn
         /\ \A u \in DOMAIN d.turn : Row(d', u) = Del(u)
  <1>1. Led!DelegationAssumption /\ Exec!Build \in Led!Participant
    BY OneBuild
  <1>2. Led!Accepts(d, e) /\ d' = Led!foldDelegation(d, e)
    BY SameFold
  <1>3. Fits(d, e) /\ e \in LedgerEvent
    BY Kinds DEF Fits, LedgerEvent, OfTurn
  <1>4. FoldOK(d') /\ Later(d, d')
    BY <1>1, <1>2, <1>3, FoldKeeps
  <1>5. Alive(d')
    BY <1>1, <1>2, <1>3, AliveKeeps
  <1>6. /\ Len(d'.turn) = Len(d.turn) + 1 /\ DOMAIN d.turn \subseteq DOMAIN d'.turn
        /\ \A t \in DOMAIN d.turn, p \in Led!Participant : d'.del[t][p] = d.del[t][p]
    BY <1>1, <1>2, <1>3, TurnMoves
  <1>7. Goes(d, d')
    BY <1>4, GoesLater
  <1>8. Len(d'.turn) \in DOMAIN d'.turn
    <2>1. Len(d.turn) \in Nat
      BY <1>1, TurnNumbers
    <2>2. DOMAIN d'.turn = 1..Len(d'.turn)
      BY <1>1, <1>4, TurnNumbers
    <2> QED
      BY <1>6, <2>1, <2>2
  <1> QED
    BY <1>1, <1>4, <1>5, <1>6, <1>7, <1>8 DEF Moves, Del, Row

LEMMA ExStays ==
  ASSUME ExecAssumption, FoldOK(d), Alive(d), UNCHANGED d
  PROVE  Moves /\ (\A u : Row(d', u) = Del(u))
  <1>1. Later(d, d)
    BY OneBuild, TurnNumbers, StandsStill DEF Later
  <1> QED
    BY <1>1, GoesSame DEF Moves, Del, Row

\* What the steps that report a delivery record.
LEMMA ReportMarks ==
  ASSUME ExecAssumption, FoldOK(d), Alive(d),
         NEW type \in Led!DeliveryEvent \ {"DeliveryAdmitted"}, NEW t \in DOMAIN d.turn,
         NEW a \in 0..MaxAttempts, a <= Del(t).attempt + 1,
         Exec!Accepts(d, Exec!Event(type, t, a)),
         d' = Exec!foldDelegation(d, Exec!Event(type, t, a))
  PROVE  /\ Marks(t, a, Led!Recorded([type |-> type]))
         /\ type = "DeliveryRecoveryRequired" => d'.status = "recovery_required"
  <1> DEFINE e == [type |-> type, turn |-> t, who |-> Exec!Build, attempt |-> a]
  <1>1. e = Exec!Event(type, t, a)
    BY DEF Exec!Event
  <1>2. e \in OfDelivery
    BY Rows, OneBuild DEF OfDelivery, OfReport
  <1>3. e.who = Exec!Build /\ e.turn = t /\ e.attempt = a /\ e.type = type
    OBVIOUS
  <1>4. Led!Recorded(e) = Led!Recorded([type |-> type])
    BY DEF Led!Recorded, Led!DeliveryEvent
  <1> HIDE DEF e
  <1>5. /\ Marks(e.turn, e.attempt, Led!Recorded(e))
        /\ e.type = "DeliveryRecoveryRequired" => d'.status = "recovery_required"
    BY <1>1, <1>2, <1>3, ExMarks
  <1> QED
    BY <1>3, <1>4, <1>5


\* Which steps there are, for each variable the ones that change it.
LEMMA Steps ==
  ASSUME Exec!Next
  PROVE  \/ Exec!RunPrompt \/ Exec!RunStarted \/ Exec!RunWork \/ Exec!RunTell \/ Exec!RunEnd
         \/ Exec!WatchEnds \/ Exec!ToolChecks \/ Exec!ToolAppends \/ Exec!dispatch
         \/ Exec!Steer \/ (\E t \in DOMAIN d.turn : Exec!retry(t))
         \/ Exec!DrainBegins \/ Exec!DrainEnds \/ Exec!DrainSkips \/ Exec!DrainLooks
         \/ Exec!DrainStarts \/ Exec!DrainPrompts \/ Exec!DrainRuns \/ Exec!DrainWatches
         \/ Exec!Crash \/ Exec!ScanMarks
  BY DEF Exec!Next, Exec!Step, Exec!JobSteps, Exec!ToolSteps, Exec!DrainSteps

LEMMA Touches ==
  ASSUME Exec!Next
  PROVE  /\ \/ UNCHANGED d
            \/ Exec!RunStarted \/ Exec!RunTell \/ Exec!ToolAppends \/ Exec!DrainStarts
            \/ Exec!ScanMarks \/ (\E t \in DOMAIN d.turn : Exec!retry(t))
         /\ \/ UNCHANGED job
            \/ Exec!RunPrompt \/ Exec!RunStarted \/ Exec!RunWork \/ Exec!RunTell \/ Exec!RunEnd
            \/ Exec!dispatch \/ Exec!DrainRuns \/ Exec!Crash
         /\ UNCHANGED tool \/ Exec!ToolChecks \/ Exec!ToolAppends \/ Exec!dispatch \/ Exec!Crash
         /\ \/ UNCHANGED drain
            \/ Exec!DrainBegins \/ Exec!DrainEnds \/ Exec!DrainSkips \/ Exec!DrainLooks
            \/ Exec!DrainStarts \/ Exec!DrainPrompts \/ Exec!DrainRuns \/ Exec!DrainWatches
            \/ Exec!Crash
         /\ UNCHANGED <<boot, lost>> \/ Exec!Crash \/ Exec!ScanMarks
         /\ UNCHANGED lost \/ Exec!Crash
         /\ \/ UNCHANGED watch \/ Exec!WatchEnds \/ Exec!DrainWatches \/ Exec!Crash
         /\ \/ UNCHANGED woken \/ Exec!RunTell \/ Exec!WatchEnds \/ Exec!Steer
            \/ (\E t \in DOMAIN d.turn : Exec!retry(t)) \/ Exec!DrainBegins \/ Exec!Crash
  BY Steps
  DEF Exec!RunPrompt, Exec!RunStarted, Exec!RunWork, Exec!RunTell, Exec!RunEnd, Exec!WatchEnds,
      Exec!ToolChecks, Exec!ToolAppends, Exec!dispatch, Exec!Steer, Exec!retry, Exec!DrainBegins,
      Exec!DrainEnds, Exec!DrainSkips, Exec!DrainLooks, Exec!DrainStarts, Exec!DrainPrompts,
      Exec!DrainRuns, Exec!DrainWatches, Exec!Crash, Exec!ScanMarks

LEMMA RunFacts ==
  ASSUME ExecAssumption, ExInv, job.run.at # "none"
  PROVE  /\ job.run.turn \in DOMAIN d.turn /\ job.run.attempt \in 0..MaxAttempts
         /\ job.run \in RunType /\ job.rest \in Seq(RunType)
         /\ boot = {}
  BY DEF ExInv, JobOK, RunOK, RunType, BootOK

LEMMA RunStartedMarks ==
  ASSUME ExecAssumption, ExInv, Exec!RunStarted
  PROVE  /\ UNCHANGED <<inbox, tool, drain, woken, watch, boot, crashes, lost>>
         /\ \/ UNCHANGED d /\ job' = [job EXCEPT !.run.at = "end", !.run.out = "failed"]
            \/ /\ Marks(job.run.turn, job.run.attempt, "running")
               /\ job' = [job EXCEPT !.run.at = "work"]
  <1> DEFINE t == job.run.turn
             a == job.run.attempt
             e == Exec!Event("DeliveryStarted", t, a)
  <1>1. job.run.at = "start" /\ UNCHANGED <<inbox, tool, drain, woken, watch, boot, crashes, lost>>
    BY DEF Exec!RunStarted
  <1>2. IF Exec!Accepts(d, e)
        THEN d' = Exec!foldDelegation(d, e) /\ job' = [job EXCEPT !.run.at = "work"]
        ELSE UNCHANGED d /\ job' = [job EXCEPT !.run.at = "end", !.run.out = "failed"]
    BY DEF Exec!RunStarted
  <1>3. t \in DOMAIN d.turn /\ a \in 0..MaxAttempts /\ a = 1
    BY <1>1, RunFacts DEF ExInv, JobOK, RunOK
  <1>4. a <= Del(t).attempt + 1 /\ FoldOK(d) /\ Alive(d)
    BY <1>3, Rows DEF ExInv
  <1>5. ASSUME Exec!Accepts(d, e), d' = Exec!foldDelegation(d, e) PROVE Marks(t, a, "running")
    <2>1. Marks(t, a, Led!Recorded([type |-> "DeliveryStarted"]))
      BY <1>3, <1>4, <1>5, ReportMarks DEF Led!DeliveryEvent
    <2> QED
      BY <2>1 DEF Led!Recorded
  <1> QED
    BY <1>1, <1>2, <1>5

LEMMA RunTellMarks ==
  ASSUME ExecAssumption, ExInv, Exec!RunTell
  PROVE  /\ UNCHANGED <<inbox, tool, drain, watch, boot, crashes, lost>>
         /\ \/ job' = [job EXCEPT !.run.at = "end"]
            \/ job' = [job EXCEPT !.run.at = "end", !.run.out = "refused"]
         /\ UNCHANGED woken \/ woken' = (woken \/ job.run.by # "dispatch")
         /\ \/ UNCHANGED d
            \/ \E st \in {"completed", "failed"} : Marks(job.run.turn, job.run.attempt, st)
  <1> DEFINE t == job.run.turn
             a == job.run.attempt
             type == IF job.run.out = "completed" THEN "DeliveryCompleted" ELSE "DeliveryFailed"
             e == Exec!Event(type, t, a)
  <1>1. job.run.at = "tell" /\ UNCHANGED <<inbox, tool, drain, watch, boot, crashes, lost>>
    BY DEF Exec!RunTell
  <1>2. IF Exec!Accepts(d, e)
        THEN /\ d' = Exec!foldDelegation(d, e) /\ woken' = (woken \/ job.run.by # "dispatch")
             /\ job' = [job EXCEPT !.run.at = "end"]
        ELSE UNCHANGED <<d, woken>> /\ job' = [job EXCEPT !.run.at = "end", !.run.out = "refused"]
    BY DEF Exec!RunTell
  <1>3. t \in DOMAIN d.turn /\ a \in 0..MaxAttempts
    BY <1>1, RunFacts
  <1>4. a <= Del(t).attempt + 1 /\ FoldOK(d) /\ Alive(d)
    <2>1. Ran(Del(t), a)
      BY <1>1 DEF ExInv, WorkOK, Exec!Working, Exec!isRunning
    <2>2. Del(t).attempt \in Nat
      BY <1>3, Rows DEF ExInv
    <2> QED
      BY <1>3, <2>1, <2>2 DEF Ran, ExInv
  <1>5. ASSUME Exec!Accepts(d, e), d' = Exec!foldDelegation(d, e)
        PROVE  Marks(t, a, "completed") \/ Marks(t, a, "failed")
    <2>1. Marks(t, a, Led!Recorded([type |-> type]))
      BY <1>3, <1>4, <1>5, ReportMarks DEF Led!DeliveryEvent
    <2>2. Led!Recorded([type |-> type]) \in {"completed", "failed"}
      BY DEF Led!Recorded
    <2> QED
      BY <2>1, <2>2
  <1> QED
    BY <1>1, <1>2, <1>5


\* What the drain read of the turn it is at, and what became of it.
LEMMA SeenFacts ==
  ASSUME ExecAssumption, ExInv, NEW t \in DOMAIN drain.snap.turn
  PROVE  /\ t \in DOMAIN d.turn /\ Seen(t) \in DeliveryRow /\ Del(t) \in DeliveryRow
         /\ After(Seen(t), Del(t)) /\ Seen(t) = Exec!Seen(t)
         /\ Seen(t).attempt \in 0..MaxAttempts /\ Seen(t).attempt <= Del(t).attempt
  <1>1. Goes(drain.snap, d) /\ FoldOK(drain.snap) /\ FoldOK(d)
    BY DEF ExInv, DrainOK
  <1>2. t \in DOMAIN d.turn /\ After(Seen(t), Del(t))
    BY <1>1 DEF Goes, Seen, Row, Del
  <1>3. Seen(t) \in DeliveryRow
    BY <1>1, OneBuild, TurnNumbers DEF Seen, Row
  <1>4. Del(t) \in DeliveryRow
    BY <1>1, <1>2, Rows
  <1> QED
    BY <1>2, <1>3, <1>4 DEF After, DeliveryRow, Seen, Row, Exec!Seen

LEMMA AtTurn ==
  ASSUME ExecAssumption, ExInv, drain.todo # <<>>
  PROVE  /\ Head(drain.todo) \in DOMAIN drain.snap.turn
         /\ drain.todo \in Seq(Nat) /\ Tail(drain.todo) \in Seq(Nat)
         /\ \A i \in DOMAIN Tail(drain.todo) : Tail(drain.todo)[i] \in DOMAIN drain.snap.turn
  <1>1. drain.todo \in Seq(Nat) /\ \A i \in DOMAIN drain.todo : drain.todo[i] \in DOMAIN drain.snap.turn
    BY DEF ExInv, DrainOK
  <1>2. Head(drain.todo) = drain.todo[1] /\ 1 \in DOMAIN drain.todo
    BY <1>1
  <1>3. ASSUME NEW i \in DOMAIN Tail(drain.todo)
        PROVE  Tail(drain.todo)[i] \in DOMAIN drain.snap.turn
    <2>1. i + 1 \in DOMAIN drain.todo /\ Tail(drain.todo)[i] = drain.todo[i + 1]
      BY <1>1
    <2> QED
      BY <1>1, <2>1
  <1> QED
    BY <1>1, <1>2, <1>3

LEMMA DrainStartsMarks ==
  ASSUME ExecAssumption, ExInv, Exec!DrainStarts
  PROVE  LET t == Head(drain.todo) IN
         /\ UNCHANGED <<inbox, tool, woken, watch, job, boot, crashes, lost>>
         /\ t \in DOMAIN drain.snap.turn /\ drain.todo # <<>> /\ boot = {}
         /\ \/ UNCHANGED d /\ drain' = Exec!NoDrain
            \/ /\ Marks(t, Seen(t).attempt, "running")
               /\ drain.at \in {"started", "steered"}
               /\ drain' = [drain EXCEPT !.at = IF @ = "started" THEN "prompt" ELSE "watch"]
  <1> DEFINE t == Head(drain.todo)
             a == Seen(t).attempt
             e == Exec!Event("DeliveryStarted", t, a)
  <1>1. /\ drain.at \in {"started", "steered"}
        /\ UNCHANGED <<inbox, tool, woken, watch, job, boot, crashes, lost>>
    BY DEF Exec!DrainStarts
  <1>2. IF Exec!Accepts(d, e)
        THEN /\ d' = Exec!foldDelegation(d, e)
             /\ drain' = [drain EXCEPT !.at = IF @ = "started" THEN "prompt" ELSE "watch"]
        ELSE UNCHANGED d /\ drain' = Exec!NoDrain
    BY DEF Exec!DrainStarts, Seen, Row, Exec!Seen
  <1>3. drain.todo # <<>> /\ boot = {}
    BY <1>1 DEF ExInv, DrainOK, BootOK
  <1>4. t \in DOMAIN drain.snap.turn
    BY <1>3, AtTurn
  <1>5. t \in DOMAIN d.turn /\ a \in 0..MaxAttempts /\ a <= Del(t).attempt /\ Del(t) \in DeliveryRow
    BY <1>4, SeenFacts
  <1>6. a <= Del(t).attempt + 1 /\ FoldOK(d) /\ Alive(d)
    BY <1>5 DEF ExInv, DeliveryRow
  <1>7. ASSUME Exec!Accepts(d, e), d' = Exec!foldDelegation(d, e) PROVE Marks(t, a, "running")
    <2>1. Marks(t, a, Led!Recorded([type |-> "DeliveryStarted"]))
      BY <1>5, <1>6, <1>7, ReportMarks DEF Led!DeliveryEvent
    <2> QED
      BY <2>1 DEF Led!Recorded
  <1> QED
    BY <1>1, <1>2, <1>3, <1>4, <1>7

LEMMA ScanMarksMarks ==
  ASSUME ExecAssumption, ExInv, Exec!ScanMarks
  PROVE  /\ UNCHANGED <<inbox, tool, drain, woken, watch, job, crashes, lost>>
         /\ \E t \in boot : /\ Marks(t, Del(t).attempt, "recovery_required")
                            /\ d'.status = "recovery_required" /\ boot' = boot \ {t}
  <1>1. UNCHANGED <<inbox, tool, drain, woken, watch, job, crashes, lost>>
    BY DEF Exec!ScanMarks
  <1>2. PICK t \in boot :
          /\ Exec!Accepts(d, Exec!Event("DeliveryRecoveryRequired", t, Del(t).attempt))
          /\ d' = Exec!foldDelegation(d, Exec!Event("DeliveryRecoveryRequired", t, Del(t).attempt))
          /\ boot' = boot \ {t}
    BY DEF Exec!ScanMarks, Exec!Delivery, Del, Row
  <1>3. t \in DOMAIN d.turn /\ FoldOK(d) /\ Alive(d)
    BY <1>2 DEF ExInv, BootOK
  <1>4. Del(t).attempt \in 0..MaxAttempts /\ Del(t).attempt <= Del(t).attempt + 1
    BY <1>3, Rows DEF DeliveryRow
  <1>5. /\ Marks(t, Del(t).attempt, Led!Recorded([type |-> "DeliveryRecoveryRequired"]))
        /\ d'.status = "recovery_required"
    BY <1>2, <1>3, <1>4, ReportMarks DEF Led!DeliveryEvent
  <1>6. Marks(t, Del(t).attempt, "recovery_required")
    BY <1>5 DEF Led!Recorded
  <1> QED
    BY <1>1, <1>2, <1>5, <1>6

LEMMA RetryMarks ==
  ASSUME ExecAssumption, ExInv, NEW t \in DOMAIN d.turn, Exec!retry(t)
  PROVE  /\ UNCHANGED <<inbox, tool, drain, watch, job, boot, crashes, lost>>
         /\ boot = {} /\ woken' = TRUE /\ Del(t).status \in Led!Retryable
         /\ \E st \in {"admitted", "queued"} : Marks(t, Del(t).attempt + 1, st)
  <1> DEFINE st == IF d.turn[t].queue THEN "queued" ELSE "admitted"
             e == [type |-> "DeliveryAdmitted", turn |-> t, who |-> Exec!Build,
                   attempt |-> Del(t).attempt + 1, status |-> st]
  <1>1. /\ UNCHANGED <<inbox, tool, drain, watch, job, boot, crashes, lost>>
        /\ boot = {} /\ woken' = TRUE /\ Del(t).status \in Led!Retryable
        /\ Del(t).attempt < MaxAttempts
        /\ Exec!Accepts(d, e) /\ d' = Exec!foldDelegation(d, e)
    BY SameConstants DEF Exec!retry, Exec!Delivery, Del, Row, Exec!Up
  <1>2. FoldOK(d) /\ Alive(d)
    BY DEF ExInv
  <1>3. Del(t) \in DeliveryRow /\ t \in Led!Turn /\ MaxAttempts \in Nat
    BY <1>2, Rows, OneBuild DEF Led!DelegationAssumption
  <1>4. Del(t).attempt + 1 \in 0..MaxAttempts
    BY <1>1, <1>3 DEF DeliveryRow
  <1>5. e \in OfDelivery /\ Led!Recorded(e) = st
    BY <1>3, <1>4, OneBuild DEF OfDelivery, OfRetry, Led!Recorded
  <1>6. e.who = Exec!Build /\ e.turn = t /\ e.attempt = Del(t).attempt + 1
    OBVIOUS
  <1>7. st \in {"admitted", "queued"}
    OBVIOUS
  <1> HIDE DEF e, st
  <1>8. e.attempt <= Del(e.turn).attempt + 1
    BY <1>3, <1>6 DEF DeliveryRow
  <1>9. Marks(e.turn, e.attempt, Led!Recorded(e))
    BY <1>1, <1>2, <1>5, <1>6, <1>8, ExMarks
  <1> QED
    BY <1>1, <1>5, <1>6, <1>7, <1>9

LEMMA ToolAppendsAdmits ==
  ASSUME ExecAssumption, ExInv, Exec!ToolAppends
  PROVE  /\ UNCHANGED <<inbox, drain, woken, watch, job, boot, crashes, lost>>
         /\ boot = {} /\ tool.at = "append"
         /\ \/ UNCHANGED d /\ tool' = Exec!NoTool
            \/ /\ Moves /\ DOMAIN d.turn \subseteq DOMAIN d'.turn
               /\ Len(d'.turn) \in DOMAIN d'.turn
               /\ tool' = [tool EXCEPT !.at = "dispatch", !.turn = Len(d'.turn)]
               /\ \A u \in DOMAIN d.turn : Row(d', u) = Del(u)
  <1> DEFINE e == [type |-> "TurnAdmitted", who |-> {Exec!Build}, queue |-> tool.queue]
  <1>1. /\ tool.at = "append" /\ UNCHANGED <<inbox, drain, woken, watch, job, boot, crashes, lost>>
        /\ IF Exec!Accepts(d, e)
           THEN /\ d' = Exec!foldDelegation(d, e)
                /\ tool' = [tool EXCEPT !.at = "dispatch", !.turn = Len(d'.turn)]
           ELSE UNCHANGED d /\ tool' = Exec!NoTool
    BY DEF Exec!ToolAppends
  <1>2. Len(d.turn) < MaxTurns /\ tool.queue \in BOOLEAN /\ FoldOK(d) /\ Alive(d) /\ boot = {}
    BY <1>1 DEF ExInv, ToolOK, BootOK
  <1>3. e \in OfTurn
    BY <1>2, OneBuild DEF OfTurn
  <1> HIDE DEF e
  <1>4. ASSUME Exec!Accepts(d, e), d' = Exec!foldDelegation(d, e)
        PROVE  /\ Moves /\ DOMAIN d.turn \subseteq DOMAIN d'.turn
               /\ Len(d'.turn) \in DOMAIN d'.turn
               /\ \A u \in DOMAIN d.turn : Row(d', u) = Del(u)
    BY <1>2, <1>3, <1>4, ExAdmits
  <1> QED
    BY <1>1, <1>2, <1>4

\* Whatever the step, what deliveries have come to stands.
LEMMA ExMoves ==
  ASSUME ExecAssumption, ExInv, [Exec!Next]_(Exec!vars)
  PROVE  /\ Moves /\ DOMAIN d.turn \subseteq DOMAIN d'.turn
         /\ Exec!ToolAppends \/ DOMAIN d'.turn = DOMAIN d.turn
  <1>1. CASE UNCHANGED d
    BY <1>1, ExStays DEF ExInv
  <1>2. CASE Exec!Next
    <2>1. CASE Exec!RunStarted
      BY <1>1, <2>1, RunStartedMarks DEF Marks
    <2>2. CASE Exec!RunTell
      BY <1>1, <2>2, RunTellMarks DEF Marks
    <2>3. CASE Exec!ToolAppends
      BY <1>1, <2>3, ToolAppendsAdmits
    <2>4. CASE Exec!DrainStarts
      BY <1>1, <2>4, DrainStartsMarks DEF Marks
    <2>5. CASE Exec!ScanMarks
      BY <2>5, ScanMarksMarks DEF Marks
    <2>6. CASE \E t \in DOMAIN d.turn : Exec!retry(t)
      BY <2>6, RetryMarks DEF Marks
    <2> QED
      BY <1>1, <1>2, <2>1, <2>2, <2>3, <2>4, <2>5, <2>6, Touches
  <1> QED
    BY <1>1, <1>2 DEF Exec!vars

------------------------------------------------------------------------------
(* How turns come to run: the invariant is kept.                           *)

LEMMA NoJobType ==
  ASSUME ExecAssumption
  PROVE  /\ Exec!NoJob \in [run : RunType, rest : Seq(RunType)]
         /\ Exec!NoJob.run.at = "none" /\ Exec!NoJob.rest = <<>>
  BY OneBuild DEF Exec!NoJob, Exec!NoRun, RunType, Led!DelegationAssumption

LEMMA JobSame ==
  ASSUME JobOK, DOMAIN d.turn \subseteq DOMAIN d'.turn, UNCHANGED job
  PROVE  JobOK'
  BY DEF JobOK, RunOK

\* The run goes on, in its job.
LEMMA JobGoesOn ==
  ASSUME JobOK, DOMAIN d.turn \subseteq DOMAIN d'.turn, job.run.at # "none",
         NEW at \in {"start", "work", "tell", "end"},
         NEW out \in {"none", "completed", "failed", "refused"}, at = "start" => job.run.at = "prompt",
         job'.run = [job.run EXCEPT !.at = at, !.out = out], job'.rest = job.rest,
         job' \in [run : RunType, rest : Seq(RunType)]
  PROVE  JobOK'
  <1>1. job.run \in RunType /\ RunOK(d, job.run)
    BY DEF JobOK
  <1>2. /\ job'.run.at = at /\ job'.run.turn = job.run.turn /\ job'.run.by = job.run.by
        /\ job'.run.attempt = job.run.attempt
    BY <1>1 DEF RunType
  <1>3. RunOK(d', job'.run)
    BY <1>1, <1>2 DEF RunOK
  <1>4. \A i \in DOMAIN job'.rest : job'.rest[i].at = "prompt" /\ RunOK(d', job'.rest[i])
    BY DEF JobOK, RunOK
  <1> QED
    BY <1>3, <1>4 DEF JobOK

LEMMA RunUpdates ==
  ASSUME JobOK
  PROVE  /\ \A at \in {"start", "work", "tell", "end"} :
              /\ [job EXCEPT !.run.at = at] \in [run : RunType, rest : Seq(RunType)]
              /\ [job EXCEPT !.run.at = at].rest = job.rest
              /\ [job EXCEPT !.run.at = at].run = [job.run EXCEPT !.at = at, !.out = job.run.out]
         /\ \A at \in {"tell", "end"}, out \in {"completed", "failed", "refused"} :
              /\ [job EXCEPT !.run.at = at, !.run.out = out] \in [run : RunType, rest : Seq(RunType)]
              /\ [job EXCEPT !.run.at = at, !.run.out = out].rest = job.rest
              /\ [job EXCEPT !.run.at = at, !.run.out = out].run
                   = [job.run EXCEPT !.at = at, !.out = out]
  <1>1. job \in [run : RunType, rest : Seq(RunType)]
    BY DEF JobOK
  <1> QED
    BY <1>1 DEF RunType

\* A run begins: the next of the queue, or that of a new job.
LEMMA JobBegins ==
  ASSUME NEW r \in RunType, NEW q \in Seq(RunType), RunOK(d', r), job' = [run |-> r, rest |-> q],
         \A i \in DOMAIN q : q[i].at = "prompt" /\ RunOK(d', q[i])
  PROVE  JobOK'
  BY DEF JobOK

LEMMA JobStarts ==
  ASSUME NEW r \in RunType, RunOK(d', r), job' = [run |-> r, rest |-> <<>>]
  PROVE  JobOK'
  <1>1. job'.run = r /\ job'.rest = <<>>
    OBVIOUS
  <1> QED
    BY <1>1 DEF JobOK

LEMMA DispatchedRun ==
  ASSUME ExecAssumption, ExInv, Exec!dispatch
  PROVE  LET r == Exec!RunOf(tool.turn, 1, tool.by, "prompt") IN
         /\ r \in RunType /\ RunOK(d, r) /\ r.at = "prompt" /\ r.by # "drain"
         /\ \/ job.run.at # "none" /\ job' = [job EXCEPT !.rest = Append(@, r)]
            \/ UNCHANGED job
            \/ job.run.at = "none" /\ job' = [run |-> r, rest |-> <<>>]
  <1>1. tool.at = "dispatch" /\ tool.turn \in DOMAIN d.turn /\ tool.by \in {"dispatch", "task"}
        /\ tool.turn \in Nat
    BY DEF Exec!dispatch, ExInv, ToolOK
  <1>2. 1 \in 0..MaxAttempts
    BY OneBuild DEF Led!DelegationAssumption
  <1> QED
    BY <1>1, <1>2 DEF Exec!RunOf, RunType, RunOK, Exec!dispatch, Exec!StartJob, Exec!isRunning

LEMMA DrainedRun ==
  ASSUME ExecAssumption, ExInv, Exec!DrainRuns
  PROVE  LET t == Head(drain.todo)
             r == Exec!RunOf(t, Seen(t).attempt, "drain", "work")
         IN
         /\ r \in RunType /\ RunOK(d, r) /\ r.at = "work" /\ r.by = "drain"
         /\ drain.at = "job" /\ drain.todo # <<>> /\ t \in DOMAIN drain.snap.turn
         /\ r.turn = t /\ r.attempt = Seen(t).attempt
         /\ Ran(Del(t), Seen(t).attempt) /\ Seen(t).status \in Led!Open
         /\ \/ job.run.at # "none" /\ UNCHANGED job
            \/ job.run.at = "none" /\ job' = [run |-> r, rest |-> <<>>]
  <1> DEFINE t == Head(drain.todo)
  <1>1. drain.at = "job" /\ drain.todo # <<>> /\ Ran(Del(t), Seen(t).attempt)
        /\ Seen(t).status \in Led!Open
    BY DEF Exec!DrainRuns, ExInv, DrainOK
  <1>2. t \in DOMAIN drain.snap.turn
    BY <1>1, AtTurn
  <1>3. t \in DOMAIN d.turn /\ Seen(t) = Exec!Seen(t) /\ Seen(t).attempt \in 0..MaxAttempts
    BY <1>2, SeenFacts
  <1>4. t \in Nat
    BY <1>3, Rows DEF ExInv
  <1>5. Exec!StartJob(Exec!RunOf(t, Seen(t).attempt, "drain", "work"))
    BY <1>3 DEF Exec!DrainRuns
  <1> HIDE DEF t
  <1>6. Exec!RunOf(t, Seen(t).attempt, "drain", "work") \in RunType
    BY <1>3, <1>4 DEF Exec!RunOf, RunType
  <1>7. RunOK(d, Exec!RunOf(t, Seen(t).attempt, "drain", "work"))
    BY <1>3 DEF Exec!RunOf, RunOK
  <1> QED
    BY <1>1, <1>2, <1>5, <1>6, <1>7 DEF Exec!RunOf, Exec!StartJob, Exec!isRunning, t

LEMMA JobKeeps ==
  ASSUME ExecAssumption, ExInv, [Exec!Next]_(Exec!vars)
  PROVE  JobOK'
  <1>1. JobOK /\ DOMAIN d.turn \subseteq DOMAIN d'.turn
    BY ExMoves DEF ExInv
  <1>2. job.run \in RunType /\ job.rest \in Seq(RunType)
        /\ job \in [run : RunType, rest : Seq(RunType)]
    BY <1>1 DEF JobOK
  <1>3. \A r : RunOK(d, r) => RunOK(d', r)
    BY <1>1 DEF RunOK
  <1>4. CASE UNCHANGED job
    BY <1>1, <1>4, JobSame
  <1>5. CASE Exec!RunPrompt
    <2>1. job.run.at = "prompt" /\ job' = [job EXCEPT !.run.at = "start"]
      BY <1>5 DEF Exec!RunPrompt
    <2>2. job.run.out \in {"none", "completed", "failed", "refused"}
      BY <1>2 DEF RunType
    <2> QED
      BY <1>1, <2>1, <2>2, RunUpdates, JobGoesOn
  <1>6. CASE Exec!RunStarted
    <2>1. job.run.at = "start"
      BY <1>6 DEF Exec!RunStarted
    <2>2. job.run.out \in {"none", "completed", "failed", "refused"}
      BY <1>2 DEF RunType
    <2>3. CASE job' = [job EXCEPT !.run.at = "end", !.run.out = "failed"]
      BY <1>1, <2>1, <2>3, RunUpdates, JobGoesOn
    <2>4. CASE job' = [job EXCEPT !.run.at = "work"]
      BY <1>1, <2>1, <2>2, <2>4, RunUpdates, JobGoesOn
    <2> QED
      BY <1>6, <2>3, <2>4, RunStartedMarks
  <1>7. CASE Exec!RunWork
    <2>1. job.run.at = "work" /\ \E out \in Outcome : job' = [job EXCEPT !.run.at = "tell", !.run.out = out]
      BY <1>7 DEF Exec!RunWork
    <2>2. PICK out \in {"completed", "failed"} : job' = [job EXCEPT !.run.at = "tell", !.run.out = out]
      BY <2>1 DEF ExecAssumption, Exec!ExecutionAssumption
    <2> QED
      BY <1>1, <2>1, <2>2, RunUpdates, JobGoesOn
  <1>8. CASE Exec!RunTell
    <2>1. job.run.at = "tell"
      BY <1>8 DEF Exec!RunTell
    <2>2. job.run.out \in {"none", "completed", "failed", "refused"}
      BY <1>2 DEF RunType
    <2>3. CASE job' = [job EXCEPT !.run.at = "end"]
      BY <1>1, <2>1, <2>2, <2>3, RunUpdates, JobGoesOn
    <2>4. CASE job' = [job EXCEPT !.run.at = "end", !.run.out = "refused"]
      BY <1>1, <2>1, <2>4, RunUpdates, JobGoesOn
    <2> QED
      BY <1>8, <2>3, <2>4, RunTellMarks
  <1>9. CASE Exec!RunEnd
    <2>1. CASE job' = Exec!NoJob
      BY <2>1, NoJobType DEF JobOK, RunOK, Exec!NoJob, Exec!NoRun
    <2>2. CASE job.rest # <<>> /\ job' = [run |-> Head(job.rest), rest |-> Tail(job.rest)]
      <3>1. Head(job.rest) = job.rest[1] /\ 1 \in DOMAIN job.rest /\ Head(job.rest) \in RunType
            /\ Tail(job.rest) \in Seq(RunType)
        BY <1>2, <2>2
      <3>2. RunOK(d', Head(job.rest))
        BY <1>1, <1>3, <3>1 DEF JobOK
      <3>3. ASSUME NEW i \in DOMAIN Tail(job.rest)
            PROVE  Tail(job.rest)[i].at = "prompt" /\ RunOK(d', Tail(job.rest)[i])
        <4>1. i + 1 \in DOMAIN job.rest /\ Tail(job.rest)[i] = job.rest[i + 1]
          BY <1>2, <2>2, <3>3
        <4> QED
          BY <1>1, <1>3, <4>1 DEF JobOK
      <3> QED
        BY <2>2, <3>1, <3>2, <3>3, JobBegins
    <2> QED
      BY <1>9, <2>1, <2>2 DEF Exec!RunEnd
  <1>10. CASE Exec!dispatch
    <2> DEFINE r == Exec!RunOf(tool.turn, 1, tool.by, "prompt")
    <2>1. /\ r \in RunType /\ RunOK(d, r) /\ r.at = "prompt"
          /\ \/ job.run.at # "none" /\ job' = [job EXCEPT !.rest = Append(@, r)]
             \/ UNCHANGED job
             \/ job.run.at = "none" /\ job' = [run |-> r, rest |-> <<>>]
      BY <1>10, DispatchedRun
    <2> HIDE DEF r
    <2>2. CASE job' = [job EXCEPT !.rest = Append(@, r)]
      <3>1. job' = [run |-> job.run, rest |-> Append(job.rest, r)]
        BY <1>2, <2>2
      <3>2. Append(job.rest, r) \in Seq(RunType)
        BY <1>2, <2>1
      <3>3. ASSUME NEW i \in DOMAIN Append(job.rest, r)
            PROVE  Append(job.rest, r)[i].at = "prompt" /\ RunOK(d', Append(job.rest, r)[i])
        <4>1. \/ i \in DOMAIN job.rest /\ Append(job.rest, r)[i] = job.rest[i]
              \/ Append(job.rest, r)[i] = r
          BY <1>2, <2>1
        <4> QED
          BY <1>1, <1>3, <2>1, <4>1 DEF JobOK
      <3>4. RunOK(d', job'.run)
        BY <1>1, <3>1 DEF JobOK, RunOK
      <3>5. \A i \in DOMAIN job'.rest : job'.rest[i].at = "prompt" /\ RunOK(d', job'.rest[i])
        BY <3>1, <3>3 DEF RunOK
      <3> QED
        BY <1>2, <3>1, <3>2, <3>4, <3>5 DEF JobOK
    <2>3. CASE job' = [run |-> r, rest |-> <<>>]
      BY <1>3, <2>1, <2>3, JobStarts
    <2> QED
      BY <1>4, <2>1, <2>2, <2>3
  <1>11. CASE Exec!DrainRuns
    <2> DEFINE r == Exec!RunOf(Head(drain.todo), Seen(Head(drain.todo)).attempt, "drain", "work")
    <2>1. /\ r \in RunType /\ RunOK(d, r)
          /\ UNCHANGED job \/ job' = [run |-> r, rest |-> <<>>]
      BY <1>11, DrainedRun
    <2> HIDE DEF r
    <2>2. CASE job' = [run |-> r, rest |-> <<>>]
      BY <1>3, <2>1, <2>2, JobStarts
    <2> QED
      BY <1>4, <2>1, <2>2
  <1>12. CASE Exec!Crash
    <2>1. job' = Exec!NoJob
      BY <1>12 DEF Exec!Crash
    <2> QED
      BY <2>1, NoJobType DEF JobOK, RunOK, Exec!NoJob, Exec!NoRun
  <1>13. CASE Exec!Next
    BY <1>4, <1>5, <1>6, <1>7, <1>8, <1>9, <1>10, <1>11, <1>12, <1>13, Touches
  <1> QED
    BY <1>4, <1>13 DEF Exec!vars


LEMMA ToolKeeps ==
  ASSUME ExecAssumption, ExInv, [Exec!Next]_(Exec!vars)
  PROVE  ToolOK'
  <1>1. ToolOK /\ Moves /\ DOMAIN d.turn \subseteq DOMAIN d'.turn
        /\ (Exec!ToolAppends \/ DOMAIN d'.turn = DOMAIN d.turn)
    BY ExMoves DEF ExInv
  <1>2. Len(d.turn) \in Nat /\ Len(d'.turn) \in Nat
        /\ DOMAIN d.turn = 1..Len(d.turn) /\ DOMAIN d'.turn = 1..Len(d'.turn)
    BY <1>1, OneBuild, TurnNumbers DEF ExInv, Moves
  <1>3. DOMAIN d'.turn = DOMAIN d.turn => Len(d'.turn) = Len(d.turn)
    BY <1>2
  <1>4. CASE UNCHANGED tool /\ DOMAIN d'.turn = DOMAIN d.turn
    BY <1>1, <1>3, <1>4 DEF ToolOK
  <1>5. CASE tool' = Exec!NoTool
    BY <1>5 DEF ToolOK, Exec!NoTool
  <1>6. CASE Exec!ToolAppends
    <2>1. CASE UNCHANGED d /\ tool' = Exec!NoTool
      BY <1>5, <2>1
    <2>2. CASE /\ tool.at = "append" /\ Len(d'.turn) \in DOMAIN d'.turn
               /\ tool' = [tool EXCEPT !.at = "dispatch", !.turn = Len(d'.turn)]
      <3>1. /\ tool' \in [at : {"idle", "append", "dispatch"}, queue : BOOLEAN, turn : Nat,
                          by : {"nobody", "dispatch", "task"}]
            /\ tool'.at = "dispatch" /\ tool'.turn = Len(d'.turn) /\ tool'.by = tool.by
        BY <1>1, <1>2, <2>2 DEF ToolOK
      <3> QED
        BY <1>1, <2>2, <3>1 DEF ToolOK
    <2> QED
      BY <1>6, <2>1, <2>2, ToolAppendsAdmits
  <1>7. CASE Exec!ToolChecks
    <2>1. PICK by \in {"dispatch", "task"} :
            tool' = [Exec!NoTool EXCEPT !.at = "append", !.queue = Exec!isRunning, !.by = by]
      BY <1>7 DEF Exec!ToolChecks
    <2>2. Exec!isRunning \in BOOLEAN
      BY DEF Exec!isRunning
    <2>3. tool' = [at |-> "append", queue |-> Exec!isRunning, turn |-> 0, by |-> by]
      BY <2>1 DEF Exec!NoTool
    <2>4. Len(d'.turn) < MaxTurns
      BY <1>7 DEF Exec!ToolChecks
    <2> HIDE DEF Exec!isRunning
    <2> QED
      BY <2>2, <2>3, <2>4 DEF ToolOK
  <1>8. CASE Exec!dispatch \/ Exec!Crash
    BY <1>5, <1>8 DEF Exec!dispatch, Exec!Crash
  <1>9. CASE UNCHANGED tool /\ ~Exec!ToolAppends
    BY <1>1, <1>4, <1>9
  <1>10. CASE Exec!Next
    BY <1>6, <1>7, <1>8, <1>9, <1>10, Touches
  <1>11. CASE UNCHANGED Exec!vars
    BY <1>4, <1>11 DEF Exec!vars
  <1> QED
    BY <1>10, <1>11

LEMMA RecoverFacts ==
  ASSUME ExecAssumption, FoldOK(d)
  PROVE  /\ Exec!Recover \subseteq DOMAIN d.turn
         /\ Exec!Recover # {} => d.status \in Scanned
         /\ \A t \in DOMAIN d.turn :
              d.status \in Scanned /\ Del(t).status = "running" => t \in Exec!Recover
  BY DEF Exec!Recover, Exec!ScannedStatus, Scanned, Exec!Delivery, Del, Row

\* While turns are to be marked, the other fibers are not there.
LEMMA Alone ==
  ASSUME ExecAssumption, ExInv, boot # {}, Exec!Next
  PROVE  Exec!ScanMarks \/ Exec!Crash
  <1>1. /\ tool.at = "idle" /\ drain.at = "idle" /\ woken = FALSE /\ watch = FALSE
        /\ job.run.at = "none"
    BY DEF ExInv, BootOK
  <1>2. ~(Exec!RunPrompt \/ Exec!RunStarted \/ Exec!RunWork \/ Exec!RunTell \/ Exec!RunEnd)
    BY <1>1 DEF Exec!RunPrompt, Exec!RunStarted, Exec!RunWork, Exec!RunTell, Exec!RunEnd
  <1>3. ~(Exec!WatchEnds \/ Exec!ToolChecks \/ Exec!ToolAppends \/ Exec!dispatch \/ Exec!Steer)
    BY <1>1 DEF Exec!WatchEnds, Exec!ToolChecks, Exec!ToolAppends, Exec!dispatch, Exec!Steer,
       Exec!Up
  <1>4. \A t \in DOMAIN d.turn : ~Exec!retry(t)
    BY DEF Exec!retry, Exec!Up
  <1>5. ~(Exec!DrainBegins \/ Exec!DrainEnds \/ Exec!DrainSkips \/ Exec!DrainLooks)
    BY <1>1 DEF Exec!DrainBegins, Exec!DrainEnds, Exec!DrainSkips, Exec!DrainLooks
  <1>6. ~(Exec!DrainStarts \/ Exec!DrainPrompts \/ Exec!DrainRuns \/ Exec!DrainWatches)
    BY <1>1 DEF Exec!DrainStarts, Exec!DrainPrompts, Exec!DrainRuns, Exec!DrainWatches
  <1> QED
    BY <1>2, <1>3, <1>4, <1>5, <1>6, Steps

LEMMA BootKeeps ==
  ASSUME ExecAssumption, ExInv, [Exec!Next]_(Exec!vars)
  PROVE  BootOK'
  <1>1. BootOK /\ FoldOK(d) /\ DOMAIN d.turn \subseteq DOMAIN d'.turn
    BY ExMoves DEF ExInv
  <1>2. {watch', woken'} \subseteq BOOLEAN
    <2>1. {watch, woken} \subseteq BOOLEAN
      BY <1>1 DEF BootOK
    <2>2. CASE Exec!Next
      <3>1. watch' \in BOOLEAN
        BY <2>1, <2>2, Touches DEF Exec!WatchEnds, Exec!DrainWatches, Exec!Crash
      <3>2. Exec!RunTell => woken' \in BOOLEAN
        <4> HIDE DEF ExInv
        <4> DEFINE yes == woken \/ job.run.by # "dispatch"
        <4>1. yes \in BOOLEAN
          OBVIOUS
        <4>2. Exec!RunTell => woken' = woken \/ woken' = yes
          BY RunTellMarks
        <4> HIDE DEF yes
        <4> QED
          BY <2>1, <4>1, <4>2
      <3>3. (\E t \in DOMAIN d.turn : Exec!retry(t)) => woken' = TRUE
        BY RetryMarks
      <3> QED
        BY <2>1, <2>2, <3>1, <3>2, <3>3, Touches
        DEF Exec!WatchEnds, Exec!Steer, Exec!DrainBegins, Exec!Crash
    <2> QED
      BY <2>1, <2>2 DEF Exec!vars
  <1>3. CASE Exec!Crash
    <2>1. /\ boot' = Exec!Recover \/ boot' = {}
          /\ tool' = Exec!NoTool /\ drain' = Exec!NoDrain
          /\ woken' = FALSE /\ watch' = FALSE /\ job' = Exec!NoJob /\ d' = d
      BY <1>3 DEF Exec!Crash
    <2>2. tool'.at = "idle" /\ drain'.at = "idle" /\ job'.run.at = "none"
      BY <2>1 DEF Exec!NoTool, Exec!NoDrain, Exec!NoJob, Exec!NoRun
    <2> QED
      BY <1>1, <1>2, <2>1, <2>2, RecoverFacts DEF BootOK
  <1>4. CASE Exec!ScanMarks
    <2>1. UNCHANGED <<tool, drain, woken, watch, job>> /\ d'.status = "recovery_required"
          /\ boot' \subseteq boot /\ boot # {}
      BY <1>4, ScanMarksMarks
    <2> QED
      BY <1>1, <2>1 DEF BootOK, Scanned
  <1>5. CASE boot = {} /\ UNCHANGED boot
    BY <1>1, <1>2, <1>5 DEF BootOK
  <1>6. CASE Exec!Next
    BY <1>3, <1>4, <1>5, <1>6, Alone, Touches
  <1>7. CASE UNCHANGED Exec!vars
    BY <1>1, <1>7 DEF Exec!vars, BootOK
  <1> QED
    BY <1>6, <1>7


\* What steps leave of the drain and of the run.
LEMMA NoDrainType ==
  ASSUME ExecAssumption
  PROVE  /\ Exec!NoDrain \in [at : Exec!At, snap : FoldState, todo : Seq(Nat)]
         /\ Exec!NoDrain.at = "idle" /\ Exec!NoDrain.todo = <<>>
         /\ FoldOK(Exec!NoDrain.snap) /\ DOMAIN Exec!NoDrain.snap.turn = {}
  <1>1. Exec!NoDrain = [at |-> "idle", snap |-> Led!Created, todo |-> <<>>]
    BY SameConstants DEF Exec!NoDrain
  <1>2. FoldOK(Led!Created)
    BY OneBuild, CreatedOK
  <1>3. Led!Created.turn = <<>>
    BY DEF Led!Created
  <1>4. Led!Created \in FoldState
    BY <1>2 DEF FoldOK
  <1>5. "idle" \in Exec!At
    BY DEF Exec!At
  <1> QED
    BY <1>1, <1>2, <1>3, <1>4, <1>5

LEMMA DrainUpdates ==
  ASSUME drain \in [at : Exec!At, snap : FoldState, todo : Seq(Nat)]
  PROVE  /\ \A at \in Exec!At :
              /\ [drain EXCEPT !.at = at] \in [at : Exec!At, snap : FoldState, todo : Seq(Nat)]
              /\ [drain EXCEPT !.at = at].at = at
              /\ [drain EXCEPT !.at = at].snap = drain.snap
              /\ [drain EXCEPT !.at = at].todo = drain.todo
         /\ Tail(drain.todo) \in Seq(Nat) =>
              /\ Exec!Skip \in [at : Exec!At, snap : FoldState, todo : Seq(Nat)]
              /\ Exec!Skip.at = "next" /\ Exec!Skip.snap = drain.snap
              /\ Exec!Skip.todo = Tail(drain.todo)
  <1>1. "next" \in Exec!At
    BY DEF Exec!At
  <1> QED
    BY <1>1 DEF Exec!Skip, Exec!Drain

LEMMA DrainGoesOn ==
  ASSUME ExecAssumption, ExInv, Moves, DOMAIN d.turn \subseteq DOMAIN d'.turn,
         drain' \in [at : Exec!At, snap : FoldState, todo : Seq(Nat)],
         drain'.snap = drain.snap,
         \A i \in DOMAIN drain'.todo : drain'.todo[i] \in DOMAIN drain.snap.turn,
         drain'.at \notin {"idle", "next"} =>
           drain'.todo # <<>> /\ Seen(Head(drain'.todo)).status \in Led!Open,
         drain'.at \in {"prompt", "job"} =>
           Ran(Row(d', Head(drain'.todo)), Seen(Head(drain'.todo)).attempt)
  PROVE  DrainOK'
  <1>1. FoldOK(drain.snap) /\ FoldOK(d) /\ FoldOK(d') /\ Goes(drain.snap, d) /\ Goes(d, d')
    BY DEF ExInv, DrainOK, Moves
  <1>2. Goes(drain.snap, d')
    BY <1>1, GoesTrans
  <1> QED
    BY <1>1, <1>2 DEF DrainOK, Seen, Del

LEMMA DrainIdles ==
  ASSUME ExecAssumption, drain' = Exec!NoDrain
  PROVE  DrainOK'
  <1>1. Goes(drain'.snap, d')
    BY NoDrainType DEF Goes
  <1> QED
    BY <1>1, NoDrainType DEF DrainOK

LEMMA DrainReads ==
  ASSUME ExecAssumption, FoldOK(d), UNCHANGED d,
         drain' = [at |-> "next", snap |-> d, todo |-> [t \in DOMAIN d.turn |-> t]]
  PROVE  DrainOK'
  <1>1. DOMAIN d.turn = 1..Len(d.turn) /\ Len(d.turn) \in Nat /\ d \in FoldState
    BY OneBuild, TurnNumbers DEF FoldOK
  <1>2. [t \in DOMAIN d.turn |-> t] \in Seq(Nat)
    BY <1>1
  <1>3. Goes(d, d)
    BY GoesSame
  <1>4. "next" \in Exec!At
    BY DEF Exec!At
  <1> QED
    BY <1>1, <1>2, <1>3, <1>4 DEF DrainOK

LEMMA DrainKeeps ==
  ASSUME ExecAssumption, ExInv, [Exec!Next]_(Exec!vars)
  PROVE  DrainOK'
  <1> DEFINE t == Head(drain.todo)
  <1>1. /\ DrainOK /\ Moves /\ DOMAIN d.turn \subseteq DOMAIN d'.turn /\ FoldOK(d)
        /\ drain \in [at : Exec!At, snap : FoldState, todo : Seq(Nat)]
        /\ \A i \in DOMAIN drain.todo : drain.todo[i] \in DOMAIN drain.snap.turn
        /\ drain.at \notin {"idle", "next"} => drain.todo # <<>> /\ Seen(t).status \in Led!Open
        /\ drain.at \in {"prompt", "job"} => Ran(Del(t), Seen(t).attempt)
    BY ExMoves DEF ExInv, DrainOK
  <1>2. ASSUME drain.todo # <<>>, Ran(Del(t), Seen(t).attempt)
        PROVE  Ran(Row(d', t), Seen(t).attempt)
    <2>1. t \in DOMAIN drain.snap.turn
      BY <1>2, AtTurn
    <2>2. t \in DOMAIN d.turn /\ Del(t) \in DeliveryRow /\ Seen(t).attempt \in Nat
      BY <2>1, SeenFacts
    <2>3. After(Del(t), Row(d', t)) /\ FoldOK(d')
      BY <1>1, <2>2 DEF Moves, Goes, Del, Row
    <2>4. Row(d', t) \in DeliveryRow
      BY <1>1, <2>2, <2>3, OneBuild, TurnNumbers DEF Row
    <2> QED
      BY <1>2, <2>2, <2>3, <2>4, AfterKeeps
  <1> HIDE DEF t
  <1>3. CASE UNCHANGED drain
    BY <1>1, <1>2, <1>3, DrainGoesOn DEF t
  <1>4. CASE Exec!DrainBegins
    <2>1. UNCHANGED d
      BY <1>4 DEF Exec!DrainBegins
    <2>2. \/ drain' = Exec!NoDrain
          \/ drain' = [at |-> "next", snap |-> d, todo |-> [u \in DOMAIN d.turn |-> u]]
      BY <1>4 DEF Exec!DrainBegins
    <2> QED
      BY <1>1, <2>1, <2>2, DrainIdles, DrainReads
  <1>5. CASE Exec!DrainEnds \/ Exec!Crash
    BY <1>5, DrainIdles DEF Exec!DrainEnds, Exec!Crash
  <1>6. CASE Exec!DrainSkips \/ Exec!DrainRuns \/ Exec!DrainWatches
    <2>1. drain' = Exec!Skip /\ drain.todo # <<>>
      BY <1>1, <1>6 DEF Exec!DrainSkips, Exec!DrainRuns, Exec!DrainWatches
    <2>2. /\ Tail(drain.todo) \in Seq(Nat)
          /\ \A i \in DOMAIN Tail(drain.todo) : Tail(drain.todo)[i] \in DOMAIN drain.snap.turn
      BY <2>1, AtTurn
    <2>3. /\ drain' \in [at : Exec!At, snap : FoldState, todo : Seq(Nat)]
          /\ drain'.at = "next" /\ drain'.snap = drain.snap /\ drain'.todo = Tail(drain.todo)
      BY <1>1, <2>1, <2>2, DrainUpdates
    <2> QED
      BY <1>1, <2>2, <2>3, DrainGoesOn
  <1>7. CASE Exec!DrainLooks
    <2>1. drain.at = "next" /\ drain.todo # <<>> /\ Exec!Undone(t)
      BY <1>7 DEF Exec!DrainLooks, t
    <2>2. t \in DOMAIN drain.snap.turn
      BY <2>1, AtTurn DEF t
    <2>3. /\ After(Seen(t), Del(t)) /\ Seen(t) = Exec!Seen(t) /\ Seen(t) \in DeliveryRow
          /\ Del(t) \in DeliveryRow
      BY <2>2, SeenFacts
    <2>4. Seen(t).status \in Led!Open
      BY <2>1, <2>3, SameConstants DEF Exec!Undone
    <2>5. /\ drain' = [drain EXCEPT !.at = drain'.at]
          /\ drain'.at \in {"steer", "watch", "job", "started"}
          /\ drain'.at = "job" => Seen(t).status = "running"
      <3> DEFINE at == IF Exec!isRunning THEN IF Seen(t).status = "admitted" THEN "steer" ELSE "watch"
                       ELSE IF Seen(t).status = "running" THEN "job" ELSE "started"
      <3>1. drain' = [drain EXCEPT !.at = at]
        BY <1>7, <2>3 DEF Exec!DrainLooks, t
      <3>2. at \in {"steer", "watch", "job", "started"} /\ (at = "job" => Seen(t).status = "running")
        OBVIOUS
      <3> HIDE DEF at
      <3>3. at \in Exec!At
        BY <3>2 DEF Exec!At
      <3>4. drain'.at = at
        BY <1>1, <3>1, <3>3, DrainUpdates
      <3> QED
        BY <3>1, <3>2, <3>4
    <2>6. drain'.at \in Exec!At
      BY <2>5 DEF Exec!At
    <2>7. /\ drain' \in [at : Exec!At, snap : FoldState, todo : Seq(Nat)]
          /\ drain'.snap = drain.snap /\ drain'.todo = drain.todo
      BY <1>1, <2>5, <2>6, DrainUpdates
    <2>8. drain'.at \in {"prompt", "job"} => Ran(Row(d', t), Seen(t).attempt)
      <3>1. Seen(t).status = "running" => Ran(Del(t), Seen(t).attempt)
        BY <2>3 DEF After, Ran, DeliveryRow
      <3> QED
        BY <1>2, <2>1, <2>5, <3>1
    <2> QED
      BY <1>1, <2>1, <2>4, <2>7, <2>8, DrainGoesOn DEF t
  <1>8. CASE Exec!DrainStarts
    <2>1. CASE drain' = Exec!NoDrain
      BY <2>1, DrainIdles
    <2>2. CASE /\ Marks(t, Seen(t).attempt, "running") /\ drain.at \in {"started", "steered"}
               /\ drain' = [drain EXCEPT !.at = IF @ = "started" THEN "prompt" ELSE "watch"]
      <3> DEFINE at == IF drain.at = "started" THEN "prompt" ELSE "watch"
      <3>1. drain' = [drain EXCEPT !.at = at]
        BY <2>2
      <3>2. at \in Exec!At
        BY DEF Exec!At
      <3> HIDE DEF at
      <3>3. /\ drain' \in [at : Exec!At, snap : FoldState, todo : Seq(Nat)]
            /\ drain'.snap = drain.snap /\ drain'.todo = drain.todo
        BY <1>1, <3>1, <3>2, DrainUpdates
      <3>4. Ran(Row(d', t), Seen(t).attempt)
        BY <2>2 DEF Marks, Ran
      <3> QED
        BY <1>1, <2>2, <3>3, <3>4, DrainGoesOn DEF t
    <2> QED
      BY <1>8, <2>1, <2>2, DrainStartsMarks DEF t
  <1>9. CASE Exec!DrainPrompts
    <2> DEFINE at == IF drain.at = "prompt" THEN "job" ELSE "steered"
    <2>1. drain' = [drain EXCEPT !.at = at] /\ drain.at \in {"prompt", "steer"}
      BY <1>9 DEF Exec!DrainPrompts
    <2>2. at \in Exec!At /\ (at \in {"prompt", "job"} => drain.at = "prompt")
      BY DEF Exec!At
    <2> HIDE DEF at
    <2>3. /\ drain' \in [at : Exec!At, snap : FoldState, todo : Seq(Nat)]
          /\ drain'.snap = drain.snap /\ drain'.todo = drain.todo /\ drain'.at = at
      BY <1>1, <2>1, <2>2, DrainUpdates
    <2> QED
      BY <1>1, <1>2, <2>1, <2>2, <2>3, DrainGoesOn DEF t
  <1>10. CASE Exec!Next
    BY <1>3, <1>4, <1>5, <1>6, <1>7, <1>8, <1>9, <1>10, Touches
  <1> QED
    BY <1>3, <1>10 DEF Exec!vars


\* A run that goes on is that of the same attempt, and works already if it works
\* after the step; another one has begun in the ledger, or does not work.
LEMMA WorkSteps ==
  ASSUME ExecAssumption, ExInv, Exec!Next, Exec!Working'
  PROVE  \/ /\ Exec!Working
            /\ job'.run.turn = job.run.turn /\ job'.run.attempt = job.run.attempt
            /\ job'.run.by = job.run.by
            /\ UNCHANGED d \/ UNCHANGED job
         \/ /\ job'.run.by # "drain"
            /\ Row(d', job'.run.turn) = [attempt |-> job'.run.attempt, status |-> "running"]
         \/ /\ Exec!DrainRuns /\ UNCHANGED d /\ job'.run.by = "drain"
            /\ job'.run.turn = Head(drain.todo)
            /\ job'.run.attempt = Seen(Head(drain.todo)).attempt
  <1>1. job'.run.at \in {"work", "tell"} /\ JobOK
    BY DEF Exec!Working, ExInv
  <1>2. /\ job \in [run : RunType, rest : Seq(RunType)] /\ job.run \in RunType
        /\ \A i \in DOMAIN job.rest : job.rest[i].at = "prompt"
    BY <1>1 DEF JobOK
  <1>3. CASE UNCHANGED job
    BY <1>3 DEF Exec!Working, Exec!isRunning
  <1>4. CASE Exec!RunPrompt
    <2>1. job'.run.at = "start"
      BY <1>2, <1>4 DEF Exec!RunPrompt, RunType
    <2> QED
      BY <1>1, <2>1
  <1>5. CASE Exec!RunStarted
    <2>1. CASE job' = [job EXCEPT !.run.at = "end", !.run.out = "failed"]
      <3>1. job'.run.at = "end"
        BY <1>2, <2>1 DEF RunType
      <3> QED
        BY <1>1, <3>1
    <2>2. CASE /\ Marks(job.run.turn, job.run.attempt, "running")
               /\ job' = [job EXCEPT !.run.at = "work"]
      <3>1. /\ job'.run.turn = job.run.turn /\ job'.run.attempt = job.run.attempt
            /\ job'.run.by = job.run.by
        BY <1>2, <2>2 DEF RunType
      <3>2. job.run.by # "drain"
        BY <1>1, <1>5 DEF Exec!RunStarted, JobOK, RunOK
      <3>3. Row(d', job.run.turn) = [attempt |-> job.run.attempt, status |-> "running"]
        BY <2>2 DEF Marks
      <3> QED
        BY <3>1, <3>2, <3>3
    <2> QED
      BY <1>5, <2>1, <2>2, RunStartedMarks
  <1>6. CASE Exec!RunWork
    <2>1. PICK out \in Outcome : job' = [job EXCEPT !.run.at = "tell", !.run.out = out]
      BY <1>6 DEF Exec!RunWork
    <2>2. /\ job'.run.turn = job.run.turn /\ job'.run.attempt = job.run.attempt
          /\ job'.run.by = job.run.by
      BY <1>2, <2>1 DEF RunType
    <2> QED
      BY <1>6, <2>2 DEF Exec!RunWork, Exec!Working, Exec!isRunning
  <1>7. CASE Exec!RunTell
    <2>1. CASE job' = [job EXCEPT !.run.at = "end"]
      BY <1>1, <1>2, <2>1 DEF RunType
    <2>2. CASE job' = [job EXCEPT !.run.at = "end", !.run.out = "refused"]
      BY <1>1, <1>2, <2>2 DEF RunType
    <2> QED
      BY <1>7, <2>1, <2>2, RunTellMarks
  <1>8. CASE Exec!RunEnd
    <2>1. CASE job' = Exec!NoJob
      BY <1>1, <2>1 DEF Exec!NoJob, Exec!NoRun
    <2>2. CASE job.rest # <<>> /\ job' = [run |-> Head(job.rest), rest |-> Tail(job.rest)]
      <3>1. job.rest \in Seq(RunType)
        BY <1>2
      <3>2. Head(job.rest) = job.rest[1] /\ 1 \in DOMAIN job.rest
        BY <2>2, <3>1
      <3>3. job'.run.at = "prompt"
        BY <1>2, <2>2, <3>2
      <3> QED
        BY <1>1, <3>3
    <2> QED
      BY <1>8, <2>1, <2>2 DEF Exec!RunEnd
  <1>9. CASE Exec!dispatch
    <2> DEFINE r == Exec!RunOf(tool.turn, 1, tool.by, "prompt")
    <2>1. /\ r.at = "prompt"
          /\ \/ job.run.at # "none" /\ job' = [job EXCEPT !.rest = Append(@, r)]
             \/ UNCHANGED job
             \/ job.run.at = "none" /\ job' = [run |-> r, rest |-> <<>>]
      BY <1>9, DispatchedRun
    <2> HIDE DEF r
    <2>2. CASE job' = [job EXCEPT !.rest = Append(@, r)]
      <3>1. job'.run = job.run
        BY <1>2, <2>2
      <3> QED
        BY <1>9, <3>1 DEF Exec!dispatch, Exec!Working, Exec!isRunning
    <2>3. CASE job' = [run |-> r, rest |-> <<>>]
      BY <1>1, <2>1, <2>3
    <2> QED
      BY <1>3, <2>1, <2>2, <2>3
  <1>10. CASE Exec!DrainRuns
    <2> DEFINE r == Exec!RunOf(Head(drain.todo), Seen(Head(drain.todo)).attempt, "drain", "work")
    <2>1. /\ UNCHANGED job \/ job' = [run |-> r, rest |-> <<>>]
          /\ r.by = "drain" /\ r.turn = Head(drain.todo)
          /\ r.attempt = Seen(Head(drain.todo)).attempt
      BY <1>10, DrainedRun
    <2> HIDE DEF r
    <2>2. UNCHANGED d
      BY <1>10 DEF Exec!DrainRuns
    <2> QED
      BY <1>3, <1>10, <2>1, <2>2
  <1>11. CASE Exec!Crash
    BY <1>1, <1>11 DEF Exec!Crash, Exec!NoJob, Exec!NoRun
  <1> QED
    BY <1>3, <1>4, <1>5, <1>6, <1>7, <1>8, <1>9, <1>10, <1>11, Touches

\* What runs is left to the run.
LEMMA RunningKept ==
  ASSUME ExecAssumption, ExInv, Exec!Next, boot = {}, UNCHANGED job, NEW t \in DOMAIN d.turn,
         Del(t).status = "running"
  PROVE  Row(d', t) = Del(t)
  <1>0. Del(t) = Row(d, t) /\ FoldOK(d)
    BY DEF Del, ExInv
  <1>1. CASE UNCHANGED d
    BY <1>0, <1>1
  <1>2. job.run.at = "start" => ~Exec!RunStarted
    <2>1. ASSUME Exec!RunStarted PROVE job'.run.at # "start"
      <3>1. job \in [run : RunType, rest : Seq(RunType)] /\ job.run \in RunType
        BY DEF ExInv, JobOK
      <3>2. CASE job' = [job EXCEPT !.run.at = "end", !.run.out = "failed"]
        BY <3>1, <3>2 DEF RunType
      <3>3. CASE job' = [job EXCEPT !.run.at = "work"]
        BY <3>1, <3>3 DEF RunType
      <3> QED
        BY <2>1, <3>2, <3>3, RunStartedMarks
    <2> QED
      BY <2>1
  <1>3. ~Exec!RunStarted
    BY <1>2 DEF Exec!RunStarted
  <1>4. ~Exec!RunTell
    <2>1. ASSUME Exec!RunTell PROVE job'.run.at = "end" /\ job.run.at = "tell"
      <3>1. job \in [run : RunType, rest : Seq(RunType)] /\ job.run \in RunType
        BY DEF ExInv, JobOK
      <3>2. job.run.at = "tell"
        BY <2>1 DEF Exec!RunTell
      <3>3. CASE job' = [job EXCEPT !.run.at = "end"]
        BY <3>1, <3>2, <3>3 DEF RunType
      <3>4. CASE job' = [job EXCEPT !.run.at = "end", !.run.out = "refused"]
        BY <3>1, <3>2, <3>4 DEF RunType
      <3> QED
        BY <2>1, <3>3, <3>4, RunTellMarks
    <2> QED
      BY <2>1
  <1>5. CASE Exec!ToolAppends
    BY <1>1, <1>5, ToolAppendsAdmits
  <1>6. CASE Exec!DrainStarts
    <2> DEFINE u == Head(drain.todo)
    <2>1. u \in DOMAIN drain.snap.turn /\ (UNCHANGED d \/ Marks(u, Seen(u).attempt, "running"))
      BY <1>6, DrainStartsMarks
    <2> HIDE DEF u
    <2>2. CASE Marks(u, Seen(u).attempt, "running")
      <3>1. CASE u = t
        <4>1. Seen(t).attempt <= Del(t).attempt /\ Del(t) \in DeliveryRow /\ Seen(t) \in DeliveryRow
          BY <2>1, <3>1, SeenFacts
        <4>2. Row(d', t) = [attempt |-> Seen(t).attempt, status |-> "running"]
          BY <2>2, <3>1 DEF Marks
        <4>3. After(Del(t), Row(d', t))
          BY <2>2 DEF Marks, Moves, Goes, Del, Row
        <4>4. Del(t).attempt <= Row(d', t).attempt
          BY <4>1, <4>2, <4>3 DEF After, DeliveryRow
        <4>5. Seen(t).attempt = Del(t).attempt
          BY <4>1, <4>2, <4>4 DEF DeliveryRow
        <4> QED
          BY <4>1, <4>2, <4>5 DEF DeliveryRow
      <3>2. CASE u # t
        BY <2>2, <3>2 DEF Marks
      <3> QED
        BY <3>1, <3>2
    <2> QED
      BY <1>1, <2>1, <2>2
  <1>7. ~Exec!ScanMarks
    BY DEF Exec!ScanMarks
  <1>8. CASE \E u \in DOMAIN d.turn : Exec!retry(u)
    <2>1. PICK u \in DOMAIN d.turn : Exec!retry(u)
      BY <1>8
    <2>2. Del(u).status \in Led!Retryable
      BY <2>1, RetryMarks
    <2>3. u # t
      BY <2>2 DEF Led!Retryable
    <2>4. PICK st \in {"admitted", "queued"} : Marks(u, Del(u).attempt + 1, st)
      BY <2>1, RetryMarks
    <2> QED
      BY <2>3, <2>4 DEF Marks
  <1> QED
    BY <1>1, <1>3, <1>4, <1>5, <1>6, <1>7, <1>8, Touches

LEMMA WorkKeeps ==
  ASSUME ExecAssumption, ExInv, [Exec!Next]_(Exec!vars)
  PROVE  WorkOK'
  <1>1. WorkOK /\ Moves /\ FoldOK(d) /\ FoldOK(d') /\ DOMAIN d.turn \subseteq DOMAIN d'.turn
    BY ExMoves DEF ExInv, Moves
  <1>2. CASE Exec!Next
    <2> SUFFICES ASSUME Exec!Working'
                 PROVE  /\ Ran(Row(d', job'.run.turn), job'.run.attempt)
                        /\ job'.run.by # "drain" =>
                             Row(d', job'.run.turn) = [attempt |-> job'.run.attempt, status |-> "running"]
      BY DEF WorkOK, Exec!DispatchIsRecorded, Exec!Delivery, Del, Row
    <2>1. CASE /\ Exec!Working
               /\ job'.run.turn = job.run.turn /\ job'.run.attempt = job.run.attempt
               /\ job'.run.by = job.run.by
               /\ UNCHANGED d \/ UNCHANGED job
      <3> DEFINE t == job.run.turn
                 a == job.run.attempt
      <3>1. /\ job.run.at # "none" /\ Ran(Del(t), a)
            /\ job.run.by # "drain" => Del(t) = [attempt |-> a, status |-> "running"]
        BY <1>1, <2>1 DEF Exec!Working, Exec!isRunning, WorkOK, Exec!DispatchIsRecorded,
           Exec!Delivery, Del, Row
      <3>2. t \in DOMAIN d.turn /\ a \in 0..MaxAttempts /\ a \in Nat /\ boot = {}
        BY <3>1, RunFacts
      <3> HIDE DEF t, a
      <3>3. Del(t) \in DeliveryRow /\ After(Del(t), Row(d', t)) /\ Row(d', t) \in DeliveryRow
        <4>1. Del(t) \in DeliveryRow
          BY <1>1, <3>2, Rows
        <4>2. After(Del(t), Row(d', t))
          BY <1>1, <3>2 DEF Moves, Goes, Del, Row
        <4>3. Row(d', t) \in DeliveryRow
          BY <1>1, <3>2, OneBuild, TurnNumbers DEF Row
        <4> QED
          BY <4>1, <4>2, <4>3
      <3>4. Ran(Row(d', t), a)
        BY <3>1, <3>2, <3>3, AfterKeeps
      <3>5. ASSUME job.run.by # "drain" PROVE Row(d', t) = [attempt |-> a, status |-> "running"]
        <4>1. Del(t) = [attempt |-> a, status |-> "running"]
          BY <3>1, <3>5
        <4>2. Row(d', t) = Del(t)
          <5>1. CASE UNCHANGED d
            BY <5>1 DEF Del
          <5>2. CASE UNCHANGED job
            BY <1>2, <3>2, <4>1, <5>2, RunningKept
          <5> QED
            BY <2>1, <5>1, <5>2
        <4> QED
          BY <4>1, <4>2
      <3> QED
        BY <2>1, <3>4, <3>5 DEF t, a
    <2>2. CASE /\ job'.run.by # "drain"
               /\ Row(d', job'.run.turn) = [attempt |-> job'.run.attempt, status |-> "running"]
      BY <2>2 DEF Ran
    <2>3. CASE /\ Exec!DrainRuns /\ UNCHANGED d /\ job'.run.by = "drain"
               /\ job'.run.turn = Head(drain.todo)
               /\ job'.run.attempt = Seen(Head(drain.todo)).attempt
      BY <2>3, DrainedRun DEF Del
    <2> QED
      BY <1>2, <2>1, <2>2, <2>3, WorkSteps
  <1>3. CASE UNCHANGED Exec!vars
    BY <1>1, <1>3 DEF Exec!vars, WorkOK, Exec!DispatchIsRecorded, Exec!Working, Exec!isRunning,
       Exec!Delivery, Del, Row
  <1> QED
    BY <1>2, <1>3


\* What a drain reads, and what a drain's run is of, over a step.
LEMMA DrainSnaps ==
  ASSUME ExecAssumption, ExInv, Exec!Next
  PROVE  \/ drain'.at = "idle"
         \/ drain.at # "idle" /\ drain'.snap = drain.snap
         \/ boot = {} /\ UNCHANGED d /\ drain'.snap = d
  <1>1. drain \in [at : Exec!At, snap : FoldState, todo : Seq(Nat)]
    BY DEF ExInv, DrainOK
  <1>2. CASE UNCHANGED drain
    BY <1>2
  <1>3. CASE Exec!DrainBegins
    <2>1. boot = {} /\ UNCHANGED d
      BY <1>3 DEF Exec!DrainBegins, ExInv, BootOK
    <2>2. drain' = Exec!NoDrain \/ drain'.snap = d
      BY <1>3 DEF Exec!DrainBegins
    <2> QED
      BY <2>1, <2>2 DEF Exec!NoDrain
  <1>4. CASE Exec!DrainEnds \/ Exec!Crash
    BY <1>4 DEF Exec!DrainEnds, Exec!Crash, Exec!NoDrain
  <1>5. CASE Exec!DrainSkips \/ Exec!DrainRuns \/ Exec!DrainWatches
    BY <1>1, <1>5 DEF Exec!DrainSkips, Exec!DrainRuns, Exec!DrainWatches, Exec!Skip, Exec!Drain
  <1>6. CASE Exec!DrainLooks
    BY <1>1, <1>6 DEF Exec!DrainLooks
  <1>7. CASE Exec!DrainPrompts
    BY <1>1, <1>7 DEF Exec!DrainPrompts
  <1>8. CASE Exec!DrainStarts
    <2>1. drain.at # "idle"
      BY <1>8 DEF Exec!DrainStarts
    <2> DEFINE at == IF drain.at = "started" THEN "prompt" ELSE "watch"
    <2>2. drain' = Exec!NoDrain \/ drain' = [drain EXCEPT !.at = at]
      BY <1>8 DEF Exec!DrainStarts
    <2> HIDE DEF at
    <2> QED
      BY <1>1, <2>1, <2>2 DEF Exec!NoDrain
  <1> QED
    BY <1>2, <1>3, <1>4, <1>5, <1>6, <1>7, <1>8, Touches

LEMMA RunsOn ==
  ASSUME ExecAssumption, ExInv, Exec!Next, job'.run.at # "none", job'.run.by = "drain"
  PROVE  \/ /\ job.run.at # "none" /\ job.run.by = "drain"
            /\ job'.run.turn = job.run.turn /\ job'.run.attempt = job.run.attempt
         \/ /\ Exec!DrainRuns
            /\ job'.run.turn = Head(drain.todo)
            /\ job'.run.attempt = Seen(Head(drain.todo)).attempt
  <1>1. /\ job \in [run : RunType, rest : Seq(RunType)] /\ job.run \in RunType
        /\ \A i \in DOMAIN job.rest : job.rest[i].at = "prompt" /\ RunOK(d, job.rest[i])
    BY DEF ExInv, JobOK
  <1>2. CASE UNCHANGED job
    BY <1>2
  <1>3. CASE Exec!RunPrompt \/ Exec!RunStarted \/ Exec!RunWork \/ Exec!RunTell
    <2>1. job.run.at # "none"
      BY <1>3 DEF Exec!RunPrompt, Exec!RunStarted, Exec!RunWork, Exec!RunTell
    <2>2. CASE Exec!RunPrompt
      <3>1. job' = [job EXCEPT !.run.at = "start"]
        BY <2>2 DEF Exec!RunPrompt
      <3> QED
        BY <1>1, <2>1, <3>1 DEF RunType
    <2>3. CASE Exec!RunStarted
      <3>1. CASE job' = [job EXCEPT !.run.at = "work"]
        BY <1>1, <2>1, <3>1 DEF RunType
      <3>2. CASE job' = [job EXCEPT !.run.at = "end", !.run.out = "failed"]
        BY <1>1, <2>1, <3>2 DEF RunType
      <3> QED
        BY <2>3, <3>1, <3>2, RunStartedMarks
    <2>4. CASE Exec!RunWork
      <3>1. PICK out \in Outcome : job' = [job EXCEPT !.run.at = "tell", !.run.out = out]
        BY <2>4 DEF Exec!RunWork
      <3> QED
        BY <1>1, <2>1, <3>1 DEF RunType
    <2>5. CASE Exec!RunTell
      <3>1. CASE job' = [job EXCEPT !.run.at = "end"]
        BY <1>1, <2>1, <3>1 DEF RunType
      <3>2. CASE job' = [job EXCEPT !.run.at = "end", !.run.out = "refused"]
        BY <1>1, <2>1, <3>2 DEF RunType
      <3> QED
        BY <2>5, <3>1, <3>2, RunTellMarks
    <2> QED
      BY <1>3, <2>2, <2>3, <2>4, <2>5
  <1>4. CASE Exec!RunEnd
    <2>1. CASE job' = Exec!NoJob
      BY <2>1 DEF Exec!NoJob, Exec!NoRun
    <2>2. CASE job.rest # <<>> /\ job' = [run |-> Head(job.rest), rest |-> Tail(job.rest)]
      <3>1. job.rest \in Seq(RunType)
        BY <1>1
      <3>2. Head(job.rest) = job.rest[1] /\ 1 \in DOMAIN job.rest
        BY <2>2, <3>1
      <3>3. job'.run.at = "prompt" /\ RunOK(d, job'.run)
        BY <1>1, <2>2, <3>2
      <3> QED
        BY <3>3 DEF RunOK
    <2> QED
      BY <1>4, <2>1, <2>2 DEF Exec!RunEnd
  <1>5. CASE Exec!dispatch
    <2> DEFINE r == Exec!RunOf(tool.turn, 1, tool.by, "prompt")
    <2>1. /\ r.by # "drain"
          /\ \/ job.run.at # "none" /\ job' = [job EXCEPT !.rest = Append(@, r)]
             \/ UNCHANGED job
             \/ job.run.at = "none" /\ job' = [run |-> r, rest |-> <<>>]
      BY <1>5, DispatchedRun
    <2> HIDE DEF r
    <2>2. CASE job.run.at # "none" /\ job' = [job EXCEPT !.rest = Append(@, r)]
      <3>1. job'.run = job.run
        BY <1>1, <2>2
      <3> QED
        BY <2>2, <3>1
    <2>3. CASE job' = [run |-> r, rest |-> <<>>]
      BY <2>1, <2>3
    <2> QED
      BY <1>2, <2>1, <2>2, <2>3
  <1>6. CASE Exec!DrainRuns
    <2> DEFINE r == Exec!RunOf(Head(drain.todo), Seen(Head(drain.todo)).attempt, "drain", "work")
    <2>1. /\ UNCHANGED job \/ job' = [run |-> r, rest |-> <<>>]
          /\ r.turn = Head(drain.todo)
          /\ r.attempt = Seen(Head(drain.todo)).attempt
      BY <1>6, DrainedRun
    <2> HIDE DEF r
    <2> QED
      BY <1>2, <1>6, <2>1
  <1>7. CASE Exec!Crash
    BY <1>7 DEF Exec!Crash, Exec!NoJob, Exec!NoRun
  <1> QED
    BY <1>2, <1>3, <1>4, <1>5, <1>6, <1>7, Touches

\* What LostOK says of one of them.
Sunk(l) ==
  /\ l[1] \in DOMAIN d.turn /\ l[2] \in Nat
  /\ \/ Over(Del(l[1]), l[2])
     \/ l[1] \in boot /\ Ran(Del(l[1]), l[2])
Avoided(l) ==
  /\ drain.at # "idle" => l[1] \in DOMAIN drain.snap.turn /\ Over(Seen(l[1]), l[2])
  /\ job.run.at # "none" /\ job.run.by = "drain" =>
       <<l[1], l[2]>> # <<job.run.turn, job.run.attempt>>

LEMMA SunkKeeps ==
  ASSUME ExecAssumption, ExInv, Exec!Next, NEW l, Sunk(l),
         Exec!Crash => boot' = Exec!Recover \/ l[1] \notin boot
  PROVE  /\ l[1] \in DOMAIN d'.turn
         /\ \/ Over(Row(d', l[1]), l[2])
            \/ l[1] \in boot' /\ Ran(Row(d', l[1]), l[2])
  <1> DEFINE t == l[1]
             a == l[2]
  <1>1. /\ t \in DOMAIN d.turn /\ a \in Nat /\ Moves /\ FoldOK(d) /\ FoldOK(d')
        /\ DOMAIN d.turn \subseteq DOMAIN d'.turn
        /\ Over(Del(t), a) \/ (t \in boot /\ Ran(Del(t), a))
    <2>1. Moves /\ DOMAIN d.turn \subseteq DOMAIN d'.turn
      BY ExMoves
    <2>2. /\ t \in DOMAIN d.turn /\ a \in Nat
          /\ Over(Del(t), a) \/ (t \in boot /\ Ran(Del(t), a))
      BY DEF Sunk
    <2>3. FoldOK(d) /\ FoldOK(d')
      BY <2>1 DEF ExInv, Moves
    <2> QED
      BY <2>1, <2>2, <2>3
  <1> HIDE DEF t, a
  <1>2. Del(t) \in DeliveryRow /\ Row(d', t) \in DeliveryRow /\ After(Del(t), Row(d', t))
    <2>1. Del(t) \in DeliveryRow
      BY <1>1, Rows
    <2>2. Row(d', t) \in DeliveryRow
      BY <1>1, OneBuild, TurnNumbers DEF Row
    <2>3. After(Del(t), Row(d', t))
      BY <1>1 DEF Moves, Goes, Del, Row
    <2> QED
      BY <2>1, <2>2, <2>3
  <1>3. CASE Over(Del(t), a)
    BY <1>1, <1>2, <1>3, AfterKeeps DEF t, a
  <1>4. CASE t \in boot /\ Ran(Del(t), a) /\ ~Over(Del(t), a)
    <2>1. Del(t).attempt = a /\ Del(t).status = "running"
      BY <1>4 DEF Ran, Over
    <2>2. CASE Exec!ScanMarks
      <3>1. PICK u \in boot : /\ Marks(u, Del(u).attempt, "recovery_required")
                              /\ boot' = boot \ {u}
        BY <2>2, ScanMarksMarks
      <3>2. CASE u = t
        <4>1. Row(d', t) = [attempt |-> a, status |-> "recovery_required"]
          BY <2>1, <3>1, <3>2 DEF Marks
        <4> QED
          BY <1>1, <4>1 DEF Over, Led!Settled, Led!Retryable, t, a
      <3>3. CASE u # t
        <4>1. Row(d', t) = Del(t) /\ t \in boot'
          BY <1>1, <1>4, <3>1, <3>3 DEF Marks
        <4> QED
          BY <1>1, <1>4, <4>1 DEF t, a
      <3> QED
        BY <3>2, <3>3
    <2>3. CASE Exec!Crash
      <3>1. boot' = Exec!Recover /\ UNCHANGED d
        BY <1>4, <2>3 DEF Exec!Crash, t
      <3>2. d.status \in Scanned
        BY <1>4 DEF ExInv, BootOK
      <3>3. t \in boot'
        BY <1>1, <2>1, <3>1, <3>2, RecoverFacts
      <3>4. Row(d', t) = Del(t)
        BY <3>1 DEF Del
      <3> QED
        BY <1>1, <1>4, <3>3, <3>4 DEF t, a
    <2> QED
      BY <1>4, <2>2, <2>3, Alone
  <1> QED
    BY <1>1, <1>3, <1>4

LEMMA LostKeeps ==
  ASSUME ExecAssumption, ExInv, [Exec!Next]_(Exec!vars)
  PROVE  LostOK'
  <1>1. \A l \in lost : Known(l) => Sunk(l) /\ Avoided(l)
    BY DEF ExInv, LostOK, Sunk, Avoided
  <1>2. CASE Exec!Crash
    <2>1. /\ drain'.at = "idle" /\ job'.run.at = "none" /\ UNCHANGED d
      BY <1>2 DEF Exec!Crash, Exec!NoDrain, Exec!NoJob, Exec!NoRun
    <2>2. PICK scans \in BOOLEAN :
            /\ boot' = IF scans THEN Exec!Recover ELSE {}
            /\ lost' = {Exec!Left(l, IF scans THEN {} ELSE boot) : l \in lost} \cup
                       IF Exec!Working
                       THEN {<<job.run.turn, job.run.attempt, d.status, scans>>} ELSE {}
      BY <1>2 DEF Exec!Crash
    <2> SUFFICES ASSUME NEW l \in lost', Known(l)
                 PROVE  /\ l[1] \in DOMAIN d'.turn /\ l[2] \in Nat
                        /\ \/ Over(Row(d', l[1]), l[2])
                           \/ l[1] \in boot' /\ Ran(Row(d', l[1]), l[2])
      BY <2>1 DEF LostOK, Known, Del
    <2>3. CASE \E k \in lost : l = Exec!Left(k, IF scans THEN {} ELSE boot)
      <3>1. PICK k \in lost : l = Exec!Left(k, IF scans THEN {} ELSE boot)
        BY <2>3
      <3>2. /\ l[1] = k[1] /\ l[2] = k[2] /\ Known(k)
            /\ scans \/ k[1] \notin boot
        BY <3>1 DEF Exec!Left, Known
      <3>3. Sunk(k) /\ Exec!Next
        BY <1>1, <1>2, <3>2 DEF Exec!Next
      <3>4. boot' = Exec!Recover \/ k[1] \notin boot
        BY <2>2, <3>2
      <3>5. /\ k[1] \in DOMAIN d'.turn
            /\ \/ Over(Row(d', k[1]), k[2])
               \/ k[1] \in boot' /\ Ran(Row(d', k[1]), k[2])
        BY <3>3, <3>4, SunkKeeps
      <3> QED
        BY <3>2, <3>3, <3>5 DEF Sunk
    <2>4. CASE Exec!Working /\ l = <<job.run.turn, job.run.attempt, d.status, scans>>
      <3>1. job.run.at # "none" /\ Ran(Del(job.run.turn), job.run.attempt)
        BY <2>4 DEF Exec!Working, Exec!isRunning, ExInv, WorkOK
      <3>2. job.run.turn \in DOMAIN d.turn /\ job.run.attempt \in 0..MaxAttempts
        BY <3>1, RunFacts
      <3>3. d.status \in Scanned /\ scans
        BY <2>4, <3>2 DEF Known, ExInv, Alive
      <3>4. l[1] = job.run.turn /\ l[2] = job.run.attempt
        BY <2>4
      <3>5. l[1] \in DOMAIN d.turn /\ l[2] \in Nat /\ Ran(Del(l[1]), l[2])
        BY <3>1, <3>2, <3>4
      <3>6. Over(Del(l[1]), l[2]) \/ Del(l[1]).status = "running"
        BY <3>5 DEF Ran, Over
      <3>7. Over(Del(l[1]), l[2]) \/ l[1] \in boot'
        BY <2>2, <3>3, <3>5, <3>6, RecoverFacts DEF ExInv
      <3> QED
        BY <2>1, <3>5, <3>7 DEF Del
    <2> QED
      BY <2>2, <2>3, <2>4
  <1>3. CASE Exec!Next /\ ~Exec!Crash
    <2>1. UNCHANGED lost
      BY <1>3, Touches
    <2> SUFFICES ASSUME NEW l \in lost, Known(l)
                 PROVE  /\ l[1] \in DOMAIN d'.turn /\ l[2] \in Nat
                        /\ \/ Over(Row(d', l[1]), l[2])
                           \/ l[1] \in boot' /\ Ran(Row(d', l[1]), l[2])
                        /\ drain'.at # "idle" =>
                             l[1] \in DOMAIN drain'.snap.turn /\ Over(Row(drain'.snap, l[1]), l[2])
                        /\ job'.run.at # "none" /\ job'.run.by = "drain" =>
                             <<l[1], l[2]>> # <<job'.run.turn, job'.run.attempt>>
      BY <2>1 DEF LostOK, Known, Del, Seen
    <2>2. Sunk(l) /\ Avoided(l)
      BY <1>1
    <2>3. /\ l[1] \in DOMAIN d'.turn /\ l[2] \in Nat
          /\ \/ Over(Row(d', l[1]), l[2])
             \/ l[1] \in boot' /\ Ran(Row(d', l[1]), l[2])
      BY <1>3, <2>2, SunkKeeps DEF Sunk
    <2>4. ASSUME drain'.at # "idle"
          PROVE  l[1] \in DOMAIN drain'.snap.turn /\ Over(Row(drain'.snap, l[1]), l[2])
      <3>1. CASE drain.at # "idle" /\ drain'.snap = drain.snap
        BY <2>2, <3>1 DEF Avoided, Seen
      <3>2. CASE boot = {} /\ UNCHANGED d /\ drain'.snap = d
        BY <2>2, <3>2 DEF Sunk, Del
      <3> QED
        BY <1>3, <2>4, <3>1, <3>2, DrainSnaps
    <2>5. ASSUME job'.run.at # "none", job'.run.by = "drain"
          PROVE  <<l[1], l[2]>> # <<job'.run.turn, job'.run.attempt>>
      <3>1. CASE /\ job.run.at # "none" /\ job.run.by = "drain"
                 /\ job'.run.turn = job.run.turn /\ job'.run.attempt = job.run.attempt
        BY <2>2, <3>1 DEF Avoided
      <3>2. CASE /\ Exec!DrainRuns
                 /\ job'.run.turn = Head(drain.todo)
                 /\ job'.run.attempt = Seen(Head(drain.todo)).attempt
        <4> DEFINE t == Head(drain.todo)
        <4>1. drain.at = "job" /\ t \in DOMAIN drain.snap.turn /\ Seen(t).status \in Led!Open
          BY <3>2, DrainedRun
        <4>2. Seen(t) \in DeliveryRow
          BY <4>1, SeenFacts
        <4>3. Over(Seen(l[1]), l[2])
          BY <2>2, <4>1 DEF Avoided
        <4> HIDE DEF t
        <4>4. ~(l[1] = t /\ l[2] = Seen(t).attempt)
          BY <4>1, <4>2, <4>3 DEF Over, DeliveryRow, Led!Open, Led!Settled, Led!Retryable
        <4> QED
          BY <3>2, <4>4 DEF t
      <3> QED
        BY <1>3, <2>5, <3>1, <3>2, RunsOn
    <2> QED
      BY <2>3, <2>4, <2>5
  <1>4. CASE UNCHANGED Exec!vars
    BY <1>4 DEF Exec!vars, ExInv, LostOK, Known, Over, Ran, Del, Seen, Row
  <1> QED
    BY <1>2, <1>3, <1>4

LEMMA ExInit ==
  ASSUME ExecAssumption, Exec!Init
  PROVE  ExInv
  <1>1. /\ d = [Led!Created EXCEPT !.phase[Exec!Build] = "provisioning"]
        /\ tool = Exec!NoTool /\ drain = Exec!NoDrain /\ woken = FALSE /\ watch = FALSE
        /\ job = Exec!NoJob /\ boot = {} /\ lost = {}
    BY SameConstants DEF Exec!Init
  <1>2. FoldOK(Led!Created) /\ Led!Created.turn = <<>> /\ Led!Created.status = "draft"
    BY OneBuild, CreatedOK
  <1>3. /\ d \in FoldState /\ d.turn = Led!Created.turn /\ d.status = Led!Created.status
        /\ d.revs = Led!Created.revs /\ d.del = Led!Created.del
    BY <1>1, <1>2, Names DEF FoldOK, FoldState
  <1>4. FoldOK(d) /\ Alive(d)
    BY <1>2, <1>3 DEF FoldOK, Bounded, Worked, Finished, Alive
  <1>5. JobOK
    BY <1>1, NoJobType DEF JobOK, RunOK
  <1>6. ToolOK
    BY <1>1 DEF ToolOK, Exec!NoTool
  <1>7. DrainOK
    <2>1. Goes(drain.snap, d)
      BY <1>1, NoDrainType DEF Goes
    <2> QED
      BY <1>1, <2>1, NoDrainType DEF DrainOK
  <1>8. BootOK
    BY <1>1 DEF BootOK
  <1>9. WorkOK
    BY <1>1 DEF WorkOK, Exec!DispatchIsRecorded, Exec!Working, Exec!isRunning, Exec!NoJob, Exec!NoRun
  <1>10. LostOK
    BY <1>1 DEF LostOK
  <1> QED
    BY <1>4, <1>5, <1>6, <1>7, <1>8, <1>9, <1>10 DEF ExInv

LEMMA ExSteps ==
  ASSUME ExecAssumption, ExInv, [Exec!Next]_(Exec!vars)
  PROVE  ExInv'
  BY ExMoves, JobKeeps, ToolKeeps, DrainKeeps, BootKeeps, WorkKeeps, LostKeeps DEF ExInv, Moves

\* The invariant the theorems about the execution of delegations rest on.
THEOREM ExecutionInvariance == ExecAssumption => (Exec!Spec => []ExInv)
  <1> SUFFICES ASSUME ExecAssumption PROVE Exec!Spec => []ExInv
    OBVIOUS
  <1>1. Exec!Init => ExInv
    BY ExInit
  <1>2. ExInv /\ [Exec!Next]_(Exec!vars) => ExInv'
    BY ExSteps
  <1> QED
    BY <1>1, <1>2, PTL DEF Exec!Spec

\* The ledger, what the drain read of it, and who refers to it, are well formed.
THEOREM ExecutionTypeCorrect == ExecAssumption => (Exec!Spec => []Exec!TypeOK)
  <1> SUFFICES ASSUME ExecAssumption PROVE Exec!Spec => []Exec!TypeOK
    OBVIOUS
  <1>1. ExInv => Exec!TypeOK
    <2> SUFFICES ASSUME ExInv PROVE Exec!TypeOK
      OBVIOUS
    <2>1. FoldOK(d) /\ FoldOK(drain.snap)
      BY DEF ExInv, DrainOK
    <2>2. \A s : Led!IsFoldState(s) => Exec!IsFoldState(s)
      BY SameConstants DEF Led!IsFoldState, Exec!IsFoldState
    <2>3. Exec!IsFoldState(d) /\ Exec!IsFoldState(drain.snap)
      BY <2>1, <2>2, FoldStateType
    <2>4. /\ drain.at \in Exec!At
          /\ drain.at \notin {"idle", "next"} => drain.todo # <<>>
          /\ \A i \in DOMAIN drain.todo : drain.todo[i] \in DOMAIN drain.snap.turn
      BY DEF ExInv, DrainOK
    <2>5. Exec!isRunning => job.run.turn \in DOMAIN d.turn
      BY DEF ExInv, JobOK, RunOK, Exec!isRunning
    <2>6. {watch, woken} \subseteq BOOLEAN
      BY DEF ExInv, BootOK
    <2> QED
      BY <2>3, <2>4, <2>5, <2>6 DEF Exec!TypeOK
  <1> QED
    BY <1>1, ExecutionInvariance, PTL

\* A dispatched run that works is the run of its delivery's current attempt, and
\* the delivery says so, whatever the drain, a retry or a second dispatch does.
THEOREM DispatchIsRecordedAlways == ExecAssumption => (Exec!Spec => []Exec!DispatchIsRecorded)
  <1> SUFFICES ASSUME ExecAssumption PROVE Exec!Spec => []Exec!DispatchIsRecorded
    OBVIOUS
  <1>1. ExInv => Exec!DispatchIsRecorded
    BY DEF ExInv, WorkOK
  <1> QED
    BY <1>1, ExecutionInvariance, PTL

\* After any number of restarts, a run that a crash cut off and the scan of the next
\* process has come to is not run again, unless its delegation counted as approved.
\* A process whose recovery is switched off does not scan; nothing is said of what
\* it finds.
THEOREM RestartIsKnownAlways == ExecAssumption => (Exec!Spec => []Exec!RestartIsKnown)
  <1> SUFFICES ASSUME ExecAssumption PROVE Exec!Spec => []Exec!RestartIsKnown
    OBVIOUS
  <1>1. ExInv => Exec!RestartIsKnown
    <2> SUFFICES ASSUME ExInv, Exec!Working, NEW l \in lost, l[4] /\ l[3] # "approved"
                 PROVE  <<l[1], l[2]>> # <<job.run.turn, job.run.attempt>>
      BY DEF Exec!RestartIsKnown
    <2>1. job.run.at # "none"
      BY DEF Exec!Working, Exec!isRunning
    <2>2. boot = {} /\ job.run.turn \in DOMAIN d.turn
      BY <2>1, RunFacts
    <2>3. l[2] \in Nat /\ Over(Del(l[1]), l[2])
      BY <2>2 DEF ExInv, LostOK, Known
    <2>4. CASE job.run.by = "drain"
      BY <2>1, <2>4 DEF ExInv, LostOK, Known
    <2>5. CASE job.run.by # "drain"
      <3>1. Del(job.run.turn) = [attempt |-> job.run.attempt, status |-> "running"]
        BY <2>5 DEF ExInv, WorkOK, Exec!DispatchIsRecorded, Exec!Delivery, Del, Row
      <3> QED
        BY <2>3, <3>1 DEF Over, Led!Settled, Led!Retryable
    <2> QED
      BY <2>4, <2>5
  <1> QED
    BY <1>1, ExecutionInvariance, PTL

\* The outcome of an attempt is final, and attempts follow one another, however
\* runs, drains, dispatches, retries and restarts race.
THEOREM ExecutionKeepsOutcomes ==
  ExecAssumption => (Exec!Spec => [][Led!KeepsOutcomes]_(Exec!vars))
  <1> SUFFICES ASSUME ExecAssumption PROVE Exec!Spec => [][Led!KeepsOutcomes]_(Exec!vars)
    OBVIOUS
  <1>1. ExInv /\ [Exec!Next]_(Exec!vars) => [Led!KeepsOutcomes]_(Exec!vars)
    BY ExMoves DEF Moves, Later, Stands, Led!KeepsOutcomes
  <1> QED
    BY <1>1, ExecutionInvariance, PTL DEF Exec!Spec

------------------------------------------------------------------------------
(* What the run checks of all three.                                       *)

\* What is reported done is done.  For any participants, turns, attempts, revisions and
\* operations in flight, a completed delegation has completed all its work and an
\* approval is of what there is now; for any restarts, a dispatched run is the one its
\* delivery records and what a crash cut off and a scan has marked is not run again; for
\* any jobs, runs and callers, a job is completed by all of its runs, fails by its own,
\* and its result is told once.
THEOREM CompletionIsTrueAlways ==
  /\ Led!DelegationAssumption => (Led!Spec => []Led!CompletionIsTrue)
  /\ ExecAssumption => (Exec!Spec => []Exec!CompletionIsTrue)
  /\ BackgroundJobAssumption => (Spec => []CompletionIsTrue)
  <1>1. ASSUME Led!DelegationAssumption PROVE Led!Spec => []Led!CompletionIsTrue
    <2>1. Led!TypeOK /\ Led!CompletedWork /\ Led!ApprovalIsCurrent => Led!CompletionIsTrue
      BY DEF Led!CompletionIsTrue
    <2> QED
      BY <1>1, <2>1, LedgerTypeCorrect, CompletedWorkAlways, ApprovalIsCurrentAlways, PTL
  <1>2. ASSUME ExecAssumption PROVE Exec!Spec => []Exec!CompletionIsTrue
    <2>1. Exec!TypeOK /\ Exec!DispatchIsRecorded /\ Exec!RestartIsKnown
            => Exec!CompletionIsTrue
      BY DEF Exec!CompletionIsTrue
    <2> QED
      BY <1>2, <2>1, ExecutionTypeCorrect, DispatchIsRecordedAlways, RestartIsKnownAlways, PTL
  <1>3. ASSUME BackgroundJobAssumption PROVE Spec => []CompletionIsTrue
    <2>1. TypeOK /\ CompletedMeansAll /\ ErrorIsOwn /\ OneAtATime /\ DeliveredOnce
            => CompletionIsTrue
      BY DEF CompletionIsTrue
    <2> QED
      BY <1>3, <2>1, TypeCorrect, CompletedMeansAllAlways, ErrorIsOwnAlways, OneAtATimeAlways,
         DeliveredOnceAlways, PTL
  <1> QED
    BY <1>1, <1>2, <1>3

\* The outcome of an attempt is final, and attempts follow one another, both where only
\* the ledger's operations race and where its runs, drains and restarts do.
THEOREM OutcomeFinalAlways ==
  /\ Led!DelegationAssumption => (Led!Spec => Led!OutcomeFinal)
  /\ ExecAssumption => (Exec!Spec => [][Led!KeepsOutcomes]_(Exec!vars))
  BY LedgerKeepsOutcomes, ExecutionKeepsOutcomes

==============================================================================
