---------------------------- MODULE DelegationFold ----------------------------
(***************************************************************************)
(* A delegation is what its events fold to (delegation/fold.ts).  The      *)
(* projector folds the stream again for each event, inside the transaction *)
(* that appends it, so an event the fold refuses is never stored.  This    *)
(* module has the folded state, the events, which of them are accepted and *)
(* what they do.                                                           *)
(*                                                                         *)
(* Left out: timestamps, summaries and digests.  A revision is its place   *)
(* in the list, of each reviewer the latest receipt is kept, a participant *)
(* has one delivery in a turn, and no service publishes the events         *)
(* Cancelled and ParticipantInterrupted.                                   *)
(***************************************************************************)
EXTENDS Naturals, Sequences, FiniteSets

CONSTANTS Implementer,  \* participants whose role is implementer
          Reviewer,     \* participants whose role is reviewer or approver
          MaxTurns,     \* bound: turns
          MaxAttempts,  \* bound: attempts of a delivery
          MaxRevisions  \* bound: revisions

DelegationAssumption ==
  /\ Implementer \cap Reviewer = {}
  /\ IsFiniteSet(Implementer \cup Reviewer)
  /\ {MaxTurns, MaxAttempts, MaxRevisions} \subseteq Nat /\ MaxAttempts # 0

Participant == Implementer \cup Reviewer
Turn == 1..MaxTurns

NoOne == "nobody"

(* Statuses. *)
Ended == {"closing", "completed", "cancelled", "archived"}

canTransition ==
  [draft             |-> {"running", "cancelled"},
   running           |-> {"waiting_review", "changes_requested", "approved", "failed",
                          "closing", "cancelled"},
   waiting_review    |-> {"changes_requested", "approved", "failed", "closing"},
   changes_requested |-> {"running", "closing", "cancelled"},
   approved          |-> {"waiting_review", "closing"},
   failed            |-> {"running", "recovery_required", "closing"},
   recovery_required |-> {"running", "failed", "closing"},
   closing           |-> {"completed", "cancelled", "failed"},
   completed         |-> {"archived"},
   cancelled         |-> {"archived"},
   archived          |-> {"completed"}]

DelegationStatus == DOMAIN canTransition

canAdvancePhase ==
  [absent       |-> {},
   provisioning |-> {"active", "failed"},
   active       |-> {"failed", "closed"},
   failed       |-> {"active", "closed"},
   closed       |-> {}]

Phase == DOMAIN canAdvancePhase

Open      == {"admitted", "queued", "running"}
Retryable == {"failed", "cancelled", "recovery_required"}
Settled   == Retryable \cup {"completed"}

allowedNextStatuses ==
  [none              |-> {},
   admitted          |-> {"running"} \cup Settled,
   queued            |-> {"running"} \cup Settled,
   running           |-> Settled,
   completed         |-> {},
   failed            |-> {},
   cancelled         |-> {},
   recovery_required |-> {"failed", "cancelled"}]

DeliveryStatus == DOMAIN allowedNextStatuses

ChangeKind == {"rework", "no_change"}
Verdict == {"approved", "changes_requested", "rejected"}

NoDelivery == [attempt |-> 0, status |-> "none"]

\* What delegation.created folds to.
Created ==
  [status  |-> "draft",
   blocker |-> NoOne,
   phase   |-> [p \in Participant |-> "absent"],
   turn    |-> <<>>,
   del     |-> [t \in Turn |-> [p \in Participant |-> NoDelivery]],
   review  |-> [p \in Reviewer |-> [rev |-> 0, verdict |-> "none"]],
   revs    |-> <<>>]

------------------------------------------------------------------------------
(* The barrier. *)

copyable(kind) == kind = "no_change"

\* Only the latest receipt of a reviewer counts; it may be about an earlier
\* revision when no later one changes what was reviewed.
isReviewEffective(s, p) ==
  LET r == s.review[p] IN
  /\ r.verdict = "approved"
  /\ r.rev \in DOMAIN s.revs
  /\ \A i \in DOMAIN s.revs : i > r.rev => copyable(s.revs[i])

Present(s, role) == {p \in role : s.phase[p] # "absent"}

evaluateReviewBarrier(s) ==
  /\ s.blocker = NoOne
  /\ \A p \in Present(s, Reviewer) : s.revs # <<>> /\ isReviewEffective(s, p)

\* The status of the participant's delivery in the last turn that has one.
latestDelivery(s, p) ==
  LET ts == {t \in DOMAIN s.turn : p \in s.turn[t].who} IN
  IF ts = {} THEN "none"
  ELSE s.del[CHOOSE t \in ts : \A u \in ts : u <= t][p].status

\* Mutant: the last delivery of each implementer is all that counts.
canCompleteLast(s) ==
  /\ evaluateReviewBarrier(s)
  /\ Present(s, Implementer) # {}
  /\ \A p \in Present(s, Implementer) : latestDelivery(s, p) = "completed"

canComplete(s) ==
  /\ evaluateReviewBarrier(s)
  /\ Present(s, Implementer) # {}
  /\ s.turn # <<>>
  /\ \A t \in DOMAIN s.turn : s.turn[t].status = "completed"
  /\ \A t \in Turn, p \in Participant :
       s.del[t][p].status \notin Open \cup {"recovery_required"}
  /\ \A p \in Present(s, Participant) : latestDelivery(s, p) = "completed"

\* Approval is derived, after each event.
deriveApprovalStatus(s) ==
  LET to == IF canComplete(s) THEN "approved"
            ELSE IF s.revs # <<>> THEN "waiting_review" ELSE "running"
      from == IF canComplete(s) THEN DelegationStatus ELSE {"approved"}
  IN IF s.status \in from \ Ended /\ to \in canTransition[s.status]
     THEN [s EXCEPT !.status = to] ELSE s

------------------------------------------------------------------------------
(* Turns and deliveries. *)

\* A turn whose latest deliveries say nothing new, because they are admitted,
\* keeps the status it has.
refreshTurnStatus(turn, del) ==
  LET has(st) == \E p \in turn.who : del[p].status = st IN
  [turn EXCEPT !.status =
    IF has("recovery_required") THEN "recovery_required"
    ELSE IF \A p \in turn.who : del[p].status = "completed" THEN "completed"
    ELSE IF has("completed") THEN "partially_completed"
    ELSE IF has("running") THEN "running"
    ELSE IF has("failed") THEN "failed"
    ELSE IF has("cancelled") THEN "cancelled"
    ELSE IF has("queued") THEN "queued"
    ELSE @]

\* Mutant: an outcome can be replaced by a late report of the same attempt.
requireDeliveryLenient(cur, attempt, status) ==
  \/ cur.attempt = 0
  \/ attempt = cur.attempt
  \/ /\ attempt > cur.attempt
     /\ cur.status \in Retryable /\ status \in Open

requireDeliveryAttempt(cur, attempt, status) ==
  \/ cur.attempt = 0
  \/ /\ attempt = cur.attempt
     /\ status = cur.status \/ status \in allowedNextStatuses[cur.status]
  \/ /\ attempt > cur.attempt
     /\ cur.status \in Retryable /\ status \in Open

WithDelivery(s, e, status) ==
  LET del == [s.del[e.turn] EXCEPT ![e.who] = [attempt |-> e.attempt, status |-> status]] IN
  [s EXCEPT !.del[e.turn] = del, !.turn[e.turn] = refreshTurnStatus(@, del)]

\* Delivery of an event's type, and the status it records.
Recorded(e) ==
  CASE e.type = "DeliveryAdmitted" -> e.status
    [] e.type = "DeliveryStarted" -> "running"
    [] e.type = "DeliveryCompleted" -> "completed"
    [] e.type = "DeliveryFailed" -> "failed"
    [] e.type = "DeliveryCancelled" -> "cancelled"
    [] e.type = "DeliveryRecoveryRequired" -> "recovery_required"

DeliveryEvent == {"DeliveryAdmitted", "DeliveryStarted", "DeliveryCompleted",
                  "DeliveryFailed", "DeliveryCancelled", "DeliveryRecoveryRequired"}

AcceptsDelivery(s, e) ==
  LET after == WithDelivery(s, e, Recorded(e)) IN
  /\ e.turn \in DOMAIN s.turn /\ e.who \in s.turn[e.turn].who
  /\ requireDeliveryAttempt(s.del[e.turn][e.who], e.attempt, Recorded(e))
  /\ e.type = "DeliveryFailed" =>
       /\ s.status \notin Ended \ {"closing"}
       /\ after.turn[e.turn].status = "failed" /\ s.status # "failed" =>
            "failed" \in canTransition[s.status]

\* A failed delivery fails its participant, and the delegation when the turn
\* has failed; a later attempt that starts takes both back.
ApplyDelivery(s, e) ==
  LET after == WithDelivery(s, e, Recorded(e))
      again == e.type = "DeliveryStarted" /\ e.attempt > 1
      fails == e.type = "DeliveryFailed"
  IN [after EXCEPT
        !.phase[e.who] =
           IF again /\ @ = "failed" THEN "active"
           ELSE IF fails /\ "failed" \in canAdvancePhase[@] THEN "failed" ELSE @,
        !.status =
           IF again /\ @ = "failed" THEN "running"
           ELSE IF fails /\ after.turn[e.turn].status = "failed" THEN "failed"
           ELSE IF e.type = "DeliveryRecoveryRequired" /\ @ # "archived"
                THEN "recovery_required" ELSE @]

------------------------------------------------------------------------------
(* Events, other than those of deliveries. *)

Accepts(s, e) ==
  CASE e.type = "ParticipantAdded"  -> s.status \notin Ended /\ s.phase[e.who] = "absent"
    [] e.type = "ParticipantBound"  -> s.phase[e.who] # "absent"
    [] e.type = "ParticipantClosed" -> "closed" \in canAdvancePhase[s.phase[e.who]]
    [] e.type = "TurnAdmitted"      -> /\ s.status \notin Ended
                                       /\ e.who # {} /\ e.who \subseteq Present(s, Participant)
    [] e.type = "RevisionRecorded"  -> /\ s.status \notin Ended
                                       /\ e.who \in s.turn[e.turn].who \cap Implementer
    [] e.type = "Review"            -> e.who \in s.turn[e.turn].who \cap Reviewer
    [] e.type = "RejectionRetracted" -> e.who = NoOne \/ s.blocker \in {NoOne, e.who}
    [] e.type = "Closing"           -> "closing" \in canTransition[s.status]
    [] e.type = "Completed"         -> "completed" \in canTransition[s.status] /\ canComplete(s)
    [] e.type = "Archived"          -> "archived" \in canTransition[s.status]
    [] e.type \in DeliveryEvent     -> AcceptsDelivery(s, e)

\* TurnAdmitted stands for the batch that also admits a delivery to each
\* participant: one transaction, and no other event comes between.
Admission(s, e) ==
  LET t == Len(s.turn) + 1
      status == IF e.queue THEN "queued" ELSE "admitted"
  IN [s EXCEPT
        !.turn = Append(@, [who |-> e.who, queue |-> e.queue, status |-> status]),
        !.del[t] = [p \in Participant |->
                      IF p \in e.who THEN [attempt |-> 1, status |-> status] ELSE @[p]],
        !.status = IF @ \in {"draft", "changes_requested"} THEN "running" ELSE @]

Revised(s, e) ==
  [s EXCEPT
     !.revs = Append(@, e.kind),
     !.status = IF @ = "approved" /\ ~copyable(e.kind) THEN "waiting_review"
                ELSE IF @ = "changes_requested" THEN "running" ELSE @]

Reviewed(s, e) ==
  [s EXCEPT
     !.review[e.who] = [rev |-> e.rev, verdict |-> e.verdict],
     !.blocker = IF e.verdict = "rejected" THEN e.who ELSE @,
     !.status = IF e.verdict = "changes_requested" /\ @ \in {"running", "waiting_review"}
                THEN "changes_requested" ELSE @]

Apply(s, e) ==
  CASE e.type = "ParticipantAdded"  -> [s EXCEPT !.phase[e.who] = "provisioning"]
    [] e.type = "ParticipantBound"  -> [s EXCEPT !.phase[e.who] =
                                          IF "active" \in canAdvancePhase[@] THEN "active" ELSE @]
    [] e.type = "ParticipantClosed" -> [s EXCEPT !.phase[e.who] = "closed"]
    [] e.type = "TurnAdmitted"      -> Admission(s, e)
    [] e.type = "RevisionRecorded"  -> Revised(s, e)
    [] e.type = "Review"            -> Reviewed(s, e)
    [] e.type = "RejectionRetracted" -> [s EXCEPT !.blocker = NoOne]
    [] e.type = "Closing"           -> [s EXCEPT !.status = "closing"]
    [] e.type = "Completed"         -> [s EXCEPT !.status = "completed"]
    [] e.type = "Archived"          -> [s EXCEPT !.status = "archived"]
    [] e.type \in DeliveryEvent     -> ApplyDelivery(s, e)

foldDelegation(s, e) == deriveApprovalStatus(Apply(s, e))

IsFoldState(s) ==
  /\ s.status \in DelegationStatus
  /\ s.blocker \in Reviewer \cup {NoOne}
  /\ s.phase \in [Participant -> Phase]
  /\ Len(s.turn) <= MaxTurns
  /\ \A t \in DOMAIN s.turn :
       s.turn[t] \in [who : (SUBSET Participant) \ {{}}, queue : BOOLEAN,
                      status : DeliveryStatus \cup {"partially_completed"}]
  /\ s.del \in [Turn -> [Participant -> [attempt : 0..MaxAttempts, status : DeliveryStatus]]]
  /\ s.review \in [Reviewer -> [rev : 0..MaxRevisions, verdict : Verdict \cup {"none"}]]
  /\ Len(s.revs) <= MaxRevisions /\ \A i \in DOMAIN s.revs : s.revs[i] \in ChangeKind
==============================================================================
