----------------------------- MODULE SessionInbox ----------------------------
(***************************************************************************)
(* The durable inbox of one Session (session/input.ts and its projectors). *)
(* Clients admit inputs under a message id they choose: look the id up,    *)
(* publish an admission event, and look again when the event's projector   *)
(* dies.  The Session's one drain promotes inputs at turn boundaries: it   *)
(* reads a cutoff, then one kind after the other selects the rows and      *)
(* publishes them one by one.  Replays and the V1 bridge promote, too.     *)
(*                                                                         *)
(* An event, its projection of the inbox row and of the visible message,   *)
(* and its sequence are one transaction (EventLog), hence one step.        *)
(***************************************************************************)
EXTENDS Integers, Sequences

CONSTANTS Id,        \* message ids, chosen by clients
          Client,    \* calls in flight
          Content,   \* prompt, command, skill or synthetic text
          Kind       \* the kinds of input in use

ASSUME SessionInboxAssumption == Kind \subseteq {"prompt", "shell", "skill", "synthetic", "command"}

VARIABLES seq,       \* the Session aggregate's last event sequence
          inbox,     \* [Id -> the session_input row]
          message,   \* [Id -> sequence of the session_message row, 0 without one]
          client,    \* admission calls
          drain      \* the drain's promotion

vars == <<seq, inbox, message, client, drain>>

------------------------------------------------------------------------------

\* What a caller wants to admit.  Callers choose the delivery of a prompt only.
Payload == [kind : Kind, delivery : {"steer", "queue"}, content : Content]
Admissible(w) ==
  \/ w.kind = "prompt"
  \/ w.kind = "shell" /\ w.delivery = "queue"
  \/ w.kind \in {"skill", "synthetic", "command"} /\ w.delivery = "steer"

\* A row: its payload, admitted_seq and promoted_seq (0 for null).
RowType == [want : Payload, admitted : Nat, promoted : Nat]
NoRow == [absent |-> TRUE]
Has(id) == inbox[id] # NoRow
Pending(id) == Has(id) /\ inbox[id].promoted = 0

\* "batch" is admitWithSelection, which admits a prompt with publishBatch.
Idle == [pc |-> "idle"]
ClientType ==
  {Idle} \union
  [pc : {"find", "publish", "recover", "admitted", "rejected"}, id : Id, want : Payload,
   batch : BOOLEAN]

\* The drain is about to select the rows of Head(stages) ("select"), or has
\* selected `todo` and publishes them ("publish").
Steers == <<"prompt", "skill", "synthetic", "command">>
DrainType ==
  [pc : {"idle", "select", "publish"}, stages : Seq({"queued", "prompt", "shell", "skill", "synthetic", "command"}),
   cutoff : Nat, todo : SUBSET Id]
Quiet == [pc |-> "idle", stages |-> <<>>, cutoff |-> 0, todo |-> {}]

Init ==
  /\ seq = 0
  /\ inbox = [id \in Id |-> NoRow]
  /\ message = [id \in Id |-> 0]
  /\ client = [c \in Client |-> Idle]
  /\ drain = Quiet

------------------------------------------------------------------------------
(* Admission.                                                              *)

Call(c) ==
  /\ client[c].pc = "idle"
  /\ \E id \in Id, w \in Payload, b \in BOOLEAN :
       /\ Admissible(w) /\ (b => w.kind = "prompt")
       /\ client' = [client EXCEPT ![c] = [pc |-> "find", id |-> id, want |-> w, batch |-> b]]
  /\ UNCHANGED <<seq, inbox, message, drain>>

\* equivalent*: a receipt for the stored row, or a conflict error.
Answer(c) == IF inbox[client[c].id].want = client[c].want THEN "admitted" ELSE "rejected"

\* find: an id that is stored is only compared.
Find(c) ==
  /\ client[c].pc = "find"
  /\ client' = [client EXCEPT ![c].pc = IF Has(client[c].id) THEN Answer(c) ELSE "publish"]
  /\ UNCHANGED <<seq, inbox, message, drain>>

\* Mutant: the projector upserts the row instead of doing nothing on conflict.
PublishOverwrites(c) ==
  /\ client[c].pc = "publish"
  /\ seq' = seq + 1
  /\ inbox' = [inbox EXCEPT ![client[c].id] =
       [want |-> client[c].want, admitted |-> seq + 1, promoted |-> 0]]
  /\ client' = [client EXCEPT ![c].pc = "admitted"]
  /\ UNCHANGED <<message, drain>>

\* The admission event.  Its projector dies with LifecycleConflict when a
\* message or a row with the id exists, and nothing is stored: admit* then
\* look the id up again, admitWithSelection does not.
Publish(c) ==
  LET id == client[c].id
      free == ~Has(id) /\ message[id] = 0
  IN  /\ client[c].pc = "publish"
      /\ \/ /\ free
            /\ seq' = seq + 1
            /\ inbox' = [inbox EXCEPT ![id] =
                 [want |-> client[c].want, admitted |-> seq + 1, promoted |-> 0]]
            /\ client' = [client EXCEPT ![c].pc = "admitted"]
         \/ /\ ~free
            /\ client' = [client EXCEPT ![c].pc = IF client[c].batch THEN "rejected" ELSE "recover"]
            /\ UNCHANGED <<seq, inbox>>
      /\ UNCHANGED <<message, drain>>

\* Mutant: whatever the lost race left under the id is taken for the receipt.
RecoverBlindly(c) ==
  /\ client[c].pc = "recover"
  /\ client' = [client EXCEPT ![c].pc = IF Has(client[c].id) THEN "admitted" ELSE "rejected"]
  /\ UNCHANGED <<seq, inbox, message, drain>>

\* After the conflict: a row admitted meanwhile is compared like any other.
Recover(c) ==
  /\ client[c].pc = "recover"
  /\ client' = [client EXCEPT ![c].pc = IF Has(client[c].id) THEN Answer(c) ELSE "rejected"]
  /\ UNCHANGED <<seq, inbox, message, drain>>

Return(c) ==
  /\ client[c].pc \in {"admitted", "rejected"}
  /\ client' = [client EXCEPT ![c] = Idle]
  /\ UNCHANGED <<seq, inbox, message, drain>>

------------------------------------------------------------------------------
(* Promotion.                                                              *)

\* A turn boundary reads its cutoff.  A "queue" boundary promotes the next
\* queued prompt before the steers.
BeginBoundary ==
  /\ drain.pc = "idle"
  /\ \E stages \in {Steers, <<"queued">> \o Steers} :
       drain' = [pc |-> "select", stages |-> stages, cutoff |-> seq, todo |-> {}]
  /\ UNCHANGED <<seq, inbox, message, client>>

\* An idle boundary drains shell inputs, one by one.
BeginShell ==
  /\ drain.pc = "idle"
  /\ drain' = [pc |-> "select", stages |-> <<"shell">>, cutoff |-> seq, todo |-> {}]
  /\ UNCHANGED <<seq, inbox, message, client>>

PendingOf(kind, delivery) ==
  {id \in Id : Pending(id) /\ inbox[id].want.kind = kind /\ inbox[id].want.delivery = delivery}

\* Mutant: rows are ordered by descending admission.
NewestOf(S) == {id \in S : \A i \in S : inbox[i].admitted <= inbox[id].admitted}

\* ORDER BY admitted_seq: the first of some rows, as a singleton.
OldestOf(S) == {id \in S : \A i \in S : inbox[id].admitted <= inbox[i].admitted}

\* promoteSteers, pending*Steers: all steers of a kind up to the cutoff.
\* promoteNextQueued, nextPendingShell: the oldest one, without a cutoff.
Rows(stage) ==
  IF stage \in {"queued", "shell"}
  THEN OldestOf(PendingOf(IF stage = "shell" THEN "shell" ELSE "prompt", "queue"))
  ELSE {id \in PendingOf(stage, "steer") : inbox[id].admitted <= drain.cutoff}

Select ==
  /\ drain.pc = "select"
  /\ drain' = [drain EXCEPT !.pc = "publish", !.todo = Rows(Head(drain.stages))]
  /\ UNCHANGED <<seq, inbox, message, client>>

\* Mutant: the projector appends the message without markPromoted.
PromotedUnmarked(id) ==
  /\ seq' = seq + 1
  /\ message' = [message EXCEPT ![id] = seq + 1]
  /\ UNCHANGED inbox

\* The projectors of Prompted, Synthetic and Shell.Started: mark the row
\* promoted and append the visible message, at the event's sequence.
Promoted(id) ==
  /\ seq' = seq + 1
  /\ inbox' = [inbox EXCEPT ![id].promoted = seq + 1]
  /\ message' = [message EXCEPT ![id] = seq + 1]

\* The next selected row, if nobody has promoted it since.
Promote(id) ==
  /\ drain.pc = "publish" /\ id \in OldestOf(drain.todo)
  /\ Pending(id) /\ message[id] = 0
  /\ Promoted(id)
  /\ drain' = [drain EXCEPT !.todo = @ \ {id}]
  /\ UNCHANGED client

\* Somebody has: a prompt is skipped, and the drain dies for any other kind.
PromoteLate(id) ==
  /\ drain.pc = "publish" /\ id \in OldestOf(drain.todo)
  /\ ~Pending(id)
  /\ drain' = IF inbox[id].want.kind = "prompt" THEN [drain EXCEPT !.todo = @ \ {id}] ELSE Quiet
  /\ UNCHANGED <<seq, inbox, message, client>>

\* Mutant: the drain looks for another stage after the last one.
EndStageForever ==
  /\ drain.pc = "publish" /\ drain.todo = {}
  /\ drain' = [drain EXCEPT !.pc = "select", !.stages = Tail(@)]
  /\ UNCHANGED <<seq, inbox, message, client>>

EndStage ==
  /\ drain.pc = "publish" /\ drain.todo = {}
  /\ drain' = IF Len(drain.stages) = 1 THEN Quiet
              ELSE [drain EXCEPT !.pc = "select", !.stages = Tail(@)]
  /\ UNCHANGED <<seq, inbox, message, client>>

\* An interrupt, or a failure of the runner (a drifted snapshot, the database).
StopDrain ==
  /\ drain.pc # "idle"
  /\ drain' = Quiet
  /\ UNCHANGED <<seq, inbox, message, client>>

------------------------------------------------------------------------------
(* Everything else that writes the same tables.                            *)

\* Another process's promotion of a pending row is replayed here.
PromotedElsewhere(id) ==
  /\ Pending(id) /\ message[id] = 0
  /\ Promoted(id)
  /\ UNCHANGED <<client, drain>>

\* The V1 bridge publishes Prompted without an admission: projectPrompted
\* inserts a row that is promoted already.
BridgePrompt(id) ==
  /\ ~Has(id) /\ message[id] = 0
  /\ seq' = seq + 1
  /\ \E w \in Payload :
       /\ w.kind = "prompt" /\ w.delivery = "steer"
       /\ inbox' = [inbox EXCEPT ![id] = [want |-> w, admitted |-> seq + 1, promoted |-> seq + 1]]
  /\ message' = [message EXCEPT ![id] = seq + 1]
  /\ UNCHANGED <<client, drain>>

\* The projection of an assistant, system or imported message takes an id.  That
\* no input has it is an assumption: insertMessage does not look at session_input,
\* but writers draw these ids afresh.
OtherMessage(id) ==
  /\ ~Has(id) /\ message[id] = 0
  /\ seq' = seq + 1
  /\ message' = [message EXCEPT ![id] = seq + 1]
  /\ UNCHANGED <<inbox, client, drain>>

\* The process ends.
Crash ==
  /\ client' = [c \in Client |-> Idle]
  /\ drain' = Quiet
  /\ UNCHANGED <<seq, inbox, message>>

------------------------------------------------------------------------------

ClientStep(c) == Call(c) \/ Find(c) \/ Publish(c) \/ Recover(c) \/ Return(c)

DrainStep ==
  \/ BeginBoundary \/ BeginShell \/ Select \/ EndStage \/ StopDrain
  \/ \E id \in Id : Promote(id) \/ PromoteLate(id)

Next ==
  \/ \E c \in Client : ClientStep(c)
  \/ DrainStep
  \/ \E id \in Id : PromotedElsewhere(id) \/ BridgePrompt(id) \/ OtherMessage(id)
  \/ Crash

Spec == Init /\ [][Next]_vars

------------------------------------------------------------------------------
(* Correctness.                                                            *)

TypeOK ==
  /\ seq \in Nat
  /\ inbox \in [Id -> RowType \union {NoRow}]
  /\ message \in [Id -> Nat]
  /\ client \in [Client -> ClientType]
  /\ drain \in DrainType
  /\ drain.pc = "idle" <=> drain.stages = <<>>

\* An input is visible in the Session's history exactly when its row is
\* promoted, at the sequence the row names, and never before its admission.
\* What is pending is in no message the model sees.
VisibleIffPromoted ==
  \A id \in Id : Has(id) =>
    /\ message[id] = inbox[id].promoted
    /\ inbox[id].promoted # 0 => inbox[id].admitted <= inbox[id].promoted

\* Inputs are never changed by a retry, a race or a replay: what was admitted
\* stays as it was, is promoted at most once and keeps its place in history.
WrittenOnce ==
  [][\A id \in Id :
       /\ Has(id) => inbox'[id].want = inbox[id].want /\ inbox'[id].admitted = inbox[id].admitted
       /\ Has(id) /\ inbox[id].promoted # 0 => inbox'[id] = inbox[id]
       /\ message[id] # 0 => message'[id] = message[id]]_vars

\* The drain never promotes an input past an older pending one of the same kind
\* and delivery, even though it works on a snapshot that admissions, replays
\* and crashes outdate.
NoOvertaking ==
  [][\A id \in Id : Promote(id) =>
       \A i \in PendingOf(inbox[id].want.kind, inbox[id].want.delivery) :
         inbox[i].admitted >= inbox[id].admitted]_vars

\* A receipt means that the id is durably admitted with what the caller wants,
\* also when two callers raced for the id; and admit* reject only an id that is
\* taken by something else.
HonestAnswers ==
  \A c \in Client :
    LET id == client[c].id
    IN  /\ client[c].pc = "admitted" => Has(id) /\ inbox[id].want = client[c].want
        /\ client[c].pc = "rejected" /\ ~client[c].batch
             => IF Has(id) THEN inbox[id].want # client[c].want ELSE message[id] # 0

\* specs/v2/session.md:210: "Inbox promotion coalesces pending steers in durable
\* admission order."  The steers of one boundary become visible in the order in
\* which they were admitted.
SteersInAdmissionOrder ==
  [][\A id \in Id : Promote(id) /\ inbox[id].want.delivery = "steer" =>
       \A i \in Id : Pending(i) /\ inbox[i].want.delivery = "steer"
                       => inbox[i].admitted >= inbox[id].admitted]_vars

==============================================================================
