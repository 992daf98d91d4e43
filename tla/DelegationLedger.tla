--------------------------- MODULE DelegationLedger ---------------------------
(***************************************************************************)
(* The operations of DelegationService (delegation/service.ts) and of the  *)
(* recovery scan on one delegation.  An operation reads the folded state,  *)
(* decides which events to publish, and publishes them one by one; other   *)
(* operations come in between, and a crash forgets what was not published. *)
(* An event the fold refuses ends its operation.                           *)
(*                                                                         *)
(* An operation that publishes one event, and decides nothing that the     *)
(* fold does not decide again, is one step.  The others hold their events  *)
(* in ops.                                                                 *)
(***************************************************************************)
EXTENDS DelegationFold, SequencesExt

CONSTANTS Op   \* operations that may be in flight

VARIABLES d,   \* the folded state
          ops  \* [Op -> events it has yet to publish]

vars == <<d, ops>>

Init ==
  /\ d = Created
  /\ ops = [o \in Op |-> <<>>]

Publish(e) == Accepts(d, e) /\ d' = foldDelegation(d, e)

Event(type, t, p, a) == [type |-> type, turn |-> t, who |-> p, attempt |-> a]

Delivery(t, p) == d.del[t][p]

------------------------------------------------------------------------------
(* Operations of one event. *)

addParticipant(p) ==
  /\ Publish([type |-> "ParticipantAdded", who |-> p])
  /\ UNCHANGED ops

bindParticipant(p) ==
  /\ Publish([type |-> "ParticipantBound", who |-> p])
  /\ UNCHANGED ops

\* Turns are admitted under a lock, so their numbers do not race.
appendTurn(ps, queue) ==
  /\ Len(d.turn) < MaxTurns
  /\ Publish([type |-> "TurnAdmitted", who |-> ps, queue |-> queue])
  /\ UNCHANGED ops

\* What executors report: about the attempt they were given, which may be an
\* old one by now.  The task tool of V1 begins attempts of its own.
recordDelivery(t, p, a, type) ==
  /\ a <= MaxAttempts
  /\ a <= Delivery(t, p).attempt + (IF type = "DeliveryStarted" THEN 1 ELSE 0)
  /\ Publish(Event(type, t, p, a))
  /\ UNCHANGED ops

recordRevision(t, p, kind) ==
  /\ Len(d.revs) < MaxRevisions
  /\ Publish([type |-> "RevisionRecorded", turn |-> t, who |-> p, kind |-> kind])
  /\ UNCHANGED ops

ReviewOf(t, p, rev, verdict) ==
  [type |-> "Review", turn |-> t, who |-> p, rev |-> rev, verdict |-> verdict]

recordReview(t, p, rev, verdict) ==
  /\ rev \in 0..Len(d.revs)
  /\ Publish(ReviewOf(t, p, rev, verdict))
  /\ UNCHANGED ops

retractRejection(p) ==
  /\ Publish([type |-> "RejectionRetracted", who |-> p])
  /\ UNCHANGED ops

unarchive ==
  /\ d.status = "archived"
  /\ Publish([type |-> "Completed"])
  /\ UNCHANGED ops

archive ==
  /\ Publish([type |-> "Archived"])
  /\ UNCHANGED ops

------------------------------------------------------------------------------
(* Operations that act on what they have read. *)

Plan(o, events) ==
  /\ ops[o] = <<>> /\ events # <<>>
  /\ ops' = [ops EXCEPT ![o] = events]
  /\ UNCHANGED d

Again(t, p) ==
  [type |-> "DeliveryAdmitted", turn |-> t, who |-> p, attempt |-> Delivery(t, p).attempt + 1,
   status |-> IF d.turn[t].queue THEN "queued" ELSE "admitted"]

retry(o, t, p) ==
  /\ p \in d.turn[t].who /\ Delivery(t, p).attempt < MaxAttempts
  /\ Delivery(t, p).status \in Retryable
  /\ Plan(o, <<Again(t, p)>>)

\* The fence, then the participants that could be closed when it was decided.
close(o) ==
  LET open == {p \in Participant : "closed" \in canAdvancePhase[d.phase[p]]} IN
  /\ "closing" \in canTransition[d.status]
  /\ Plan(o, <<[type |-> "Closing"]>>
               \o [i \in 1..Cardinality(open) |->
                     [type |-> "ParticipantClosed", who |-> SetToSeq(open)[i]]])

complete(o) ==
  /\ d.status = "closing" /\ canComplete(d)
  /\ Plan(o, <<[type |-> "Completed"], [type |-> "Archived"]>>)

\* The deliveries in a status, in the order of their turns.
Deliveries(statuses) ==
  SetToSeq({x \in (DOMAIN d.turn) \X Participant : Delivery(x[1], x[2]).status \in statuses})

\* reconcile gives the unknown outcomes up.
reconcile(o) ==
  LET unknown == Deliveries({"recovery_required"}) IN
  Plan(o, [i \in DOMAIN unknown |->
             LET x == unknown[i] IN
             Event("DeliveryFailed", x[1], x[2], Delivery(x[1], x[2]).attempt)])

\* What an external executor does with a result that holds a review (that of
\* an older attempt is refused).
settleExternalDelivery(o, t, p, rev, verdict) ==
  /\ p \in d.turn[t].who /\ Delivery(t, p).status \notin Settled
  /\ rev \in 0..Len(d.revs)
  /\ Plan(o, <<Event("DeliveryCompleted", t, p, Delivery(t, p).attempt),
               ReviewOf(t, p, rev, verdict)>>)

\* Startup: what runs in no process any more may have had its effects.
scan(o) ==
  LET running == Deliveries({"running"}) IN
  /\ d.status \in {"running", "waiting_review", "changes_requested", "failed", "recovery_required"}
  /\ Plan(o, [i \in DOMAIN running |->
                LET x == running[i] IN
                Event("DeliveryRecoveryRequired", x[1], x[2], Delivery(x[1], x[2]).attempt)])

PublishNext(o) ==
  /\ ops[o] # <<>>
  /\ IF Accepts(d, Head(ops[o]))
     THEN /\ d' = foldDelegation(d, Head(ops[o]))
          /\ ops' = [ops EXCEPT ![o] = Tail(@)]
     ELSE /\ ops' = [ops EXCEPT ![o] = <<>>]
          /\ UNCHANGED d

Crash ==
  /\ \E o \in Op : ops[o] # <<>>
  /\ ops' = [o \in Op |-> <<>>]
  /\ UNCHANGED d

------------------------------------------------------------------------------
Next ==
  \/ \E p \in Participant : addParticipant(p) \/ bindParticipant(p)
  \/ \E ps \in SUBSET Participant, queue \in BOOLEAN : appendTurn(ps, queue)
  \/ \E t \in DOMAIN d.turn, p \in Participant, a \in 1..MaxAttempts,
        type \in DeliveryEvent \ {"DeliveryAdmitted"} : recordDelivery(t, p, a, type)
  \/ \E t \in DOMAIN d.turn, p \in Implementer, kind \in ChangeKind : recordRevision(t, p, kind)
  \/ \E t \in DOMAIN d.turn, p \in Reviewer, rev \in 0..MaxRevisions, verdict \in Verdict :
        recordReview(t, p, rev, verdict)
  \/ \E p \in Reviewer \cup {NoOne} : retractRejection(p)
  \/ unarchive
  \/ archive
  \/ \E o \in Op, t \in DOMAIN d.turn, p \in Participant : retry(o, t, p)
  \/ \E o \in Op : close(o) \/ complete(o) \/ reconcile(o) \/ scan(o) \/ PublishNext(o)
  \/ \E o \in Op, t \in DOMAIN d.turn, p \in Reviewer, rev \in 0..MaxRevisions,
        verdict \in Verdict : settleExternalDelivery(o, t, p, rev, verdict)
  \/ Crash

Spec == Init /\ [][Next]_vars

\* An operation that has begun goes on, unless the process crashes for ever.
FairSpec == Spec /\ \A o \in Op : SF_vars(PublishNext(o))
------------------------------------------------------------------------------
(* Properties. *)

\* The folded state is well formed, attempts and turns within their bounds.
TypeOK ==
  /\ IsFoldState(d)
  /\ \A o \in Op : \A i \in DOMAIN ops[o] : "type" \in DOMAIN ops[o][i]

\* A delegation that counts as completed holds no unfinished work: whatever
\* executors, retries, reconciliations and the scan report late, each delivery
\* of each turn is completed and stays so.
CompletedWork ==
  d.status \in {"completed", "archived"} =>
    \A t \in DOMAIN d.turn : \A p \in d.turn[t].who : Delivery(t, p).status = "completed"

\* The approval of a revision is the approval of what there is now: no reviewer
\* has seen less than the last revision that changed anything.
ApprovalIsCurrent ==
  d.status = "approved" /\ d.revs # <<>> =>
    \A p \in Present(d, Reviewer) :
      /\ d.review[p].verdict = "approved"
      /\ \A i \in DOMAIN d.revs : d.revs[i] = "rework" => d.review[p].rev >= i

\* The outcome of an attempt is final.  A completed delivery is never run
\* again, a failed or cancelled one only as the next attempt, and attempts are
\* neither skipped nor taken back, however many retries and late reports race.
KeepsOutcomes ==
  \A t \in DOMAIN d.turn, p \in Participant :
    LET old == d.del[t][p]
        new == d'.del[t][p]
    IN /\ new.attempt \in old.attempt..(old.attempt + 1)
       /\ new.attempt > old.attempt => old.status \in Retryable \cup {"none"}
       /\ new.attempt = old.attempt /\ old.status \in Settled =>
            \/ new = old
            \/ old.status = "recovery_required" /\ new.status \in {"failed", "cancelled"}

OutcomeFinal == [][KeepsOutcomes]_vars

\* What a delegation is called is what there is of it: completed has completed all
\* its work, approved is approved as it is now.
CompletionIsTrue == TypeOK /\ CompletedWork /\ ApprovalIsCurrent

\* "close closes admission": once a delegation has been closed, no turn is
\* admitted any more.
AdmissionFence ==
  \A n \in 0..MaxTurns :
    []((d.status = "closing" /\ Len(d.turn) = n) => [](Len(d.turn) = n))

\* "recovery_required -> running (after reconciliation)": a delegation does not
\* wait for recovery when all its work is done.
RecoveryEnds ==
  ~ (/\ d.status = "recovery_required"
     /\ \A t \in DOMAIN d.turn : d.turn[t].status = "completed")
==============================================================================
