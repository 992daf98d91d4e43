-------------------------- MODULE SessionInbox_proofs --------------------------
(***************************************************************************)
(* Proofs about SessionInbox, for any ids, clients, contents and kinds of  *)
(* input: its type invariant, that an input is visible exactly when it is  *)
(* promoted, that receipts and rejections are honest, that nothing stored  *)
(* is ever written again, and that the drain promotes no input past an     *)
(* older one.                                                              *)
(***************************************************************************)
EXTENDS SessionInbox, SequenceTheorems, TLAPS

\* A row's sequences are those of events that were stored.
Numbered ==
  \A id \in Id : Has(id) => inbox[id].admitted \in 1..seq /\ inbox[id].promoted \in 0..seq

\* Only admit* looks an id up again, and then the id is taken.
ConflictIsReal ==
  \A c \in Client : client[c].pc = "recover" =>
    ~client[c].batch /\ (Has(client[c].id) \/ message[client[c].id] # 0)

\* What the drain has selected is the oldest of what is still pending: a row of
\* the same kind and delivery that it did not select was admitted later.
SelectionIsOldest ==
  drain.pc = "publish" =>
    \A id \in drain.todo :
      /\ Has(id)
      /\ \A i \in PendingOf(inbox[id].want.kind, inbox[id].want.delivery) \ drain.todo :
           inbox[id].admitted <= inbox[i].admitted

IInv ==
  /\ TypeOK
  /\ Numbered
  /\ VisibleIffPromoted
  /\ ConflictIsReal
  /\ HonestAnswers
  /\ SelectionIsOldest

------------------------------------------------------------------------------
(* Records.                                                                *)

\* A row is a record, and no record is the absent row.
LEMMA RowTypes ==
  ASSUME TypeOK, NEW id \in Id
  PROVE  /\ inbox[id] \in RowType \union {NoRow}
         /\ Has(id) => inbox[id] \in RowType
         /\ \A r \in RowType : r # NoRow
  BY DEF TypeOK, RowType, NoRow, Has

\* A call that is under way has its id, its payload and its kind of admission.
LEMMA CallTypes ==
  ASSUME TypeOK, NEW c \in Client, client[c].pc # "idle"
  PROVE  /\ client[c] \in [pc : {"find", "publish", "recover", "admitted", "rejected"},
                           id : Id, want : Payload, batch : BOOLEAN]
         /\ client[c].id \in Id /\ client[c].want \in Payload /\ client[c].batch \in BOOLEAN
  BY DEF TypeOK, ClientType, Idle

\* Stages remain after the first one is done, unless it is the only one.
LEMMA StagesLeft ==
  ASSUME NEW S, NEW s \in Seq(S), s # <<>>, Len(s) # 1
  PROVE  Tail(s) \in Seq(S) /\ Tail(s) # <<>>
  <1>1. Tail(s) \in Seq(S) /\ Len(Tail(s)) = Len(s) - 1
    BY HeadTailProperties
  <1>2. Len(s) # 0
    BY EmptySeq
  <1>3. Len(Tail(s)) # 0
    BY <1>1, <1>2
  <1> QED
    BY <1>1, <1>3, EmptySeq

\* A stage in front of others.
LEMMA StageBefore ==
  ASSUME NEW S, NEW p \in Seq(S), NEW s \in Seq(S), s # <<>>
  PROVE  p \o s \in Seq(S) /\ p \o s # <<>>
  <1>1. p \o s \in Seq(S)
    BY ConcatProperties
  <1>2. p \o s # <<>>
    BY ConcatEmptySeq, ConcatProperties, EmptySeq
  <1> QED
    BY <1>1, <1>2

\* Both sequences of stages of a turn boundary.
LEMMA SteersType ==
  LET S == {"queued", "prompt", "shell", "skill", "synthetic", "command"}
  IN  /\ Steers \in Seq(S) /\ Steers # <<>>
      /\ <<"queued">> \o Steers \in Seq(S) /\ <<"queued">> \o Steers # <<>>
  <1> DEFINE S == {"queued", "prompt", "shell", "skill", "synthetic", "command"}
  <1>1. Steers \in Seq(S) /\ Steers # <<>>
    BY DEF Steers
  <1>2. <<"queued">> \in Seq(S)
    OBVIOUS
  <1> HIDE DEF S
  <1>3. <<"queued">> \o Steers \in Seq(S) /\ <<"queued">> \o Steers # <<>>
    BY <1>1, <1>2, StageBefore
  <1> QED
    BY <1>1, <1>3 DEF S

\* No drain is a drain.
LEMMA QuietType == Quiet \in DrainType /\ Quiet.pc = "idle" /\ Quiet.stages = <<>>
  BY DEF Quiet, DrainType

------------------------------------------------------------------------------
(* The two ways in which the table is written.                             *)

\* What is true of the inbox in each step: rows are inserted where no row and no
\* message is, with fresh sequences, or promoted once; messages appear with them
\* or under an id without a row.
Inserted(id, w) ==
  /\ ~Has(id) /\ message[id] = 0 /\ w \in Payload
  /\ seq' = seq + 1
  /\ \/ /\ inbox' = [inbox EXCEPT ![id] = [want |-> w, admitted |-> seq + 1, promoted |-> 0]]
        /\ UNCHANGED message
     \/ /\ inbox' = [inbox EXCEPT ![id] =
              [want |-> w, admitted |-> seq + 1, promoted |-> seq + 1]]
        /\ message' = [message EXCEPT ![id] = seq + 1]
PromotedOnce(id) == Pending(id) /\ message[id] = 0 /\ Promoted(id)
Occupied(id) ==
  /\ ~Has(id) /\ message[id] = 0
  /\ seq' = seq + 1 /\ UNCHANGED inbox
  /\ message' = [message EXCEPT ![id] = seq + 1]

Written ==
  \/ UNCHANGED <<seq, inbox, message>>
  \/ \E id \in Id : (\E w \in Payload : Inserted(id, w)) \/ PromotedOnce(id) \/ Occupied(id)

LEMMA EveryStepWrites ==
  ASSUME TypeOK, [Next]_vars
  PROVE  Written
  <1>1. ASSUME NEW c \in Client, ClientStep(c) PROVE Written
    <2>1. CASE Publish(c)
      <3>1. client[c].id \in Id /\ client[c].want \in Payload
        BY <2>1, CallTypes DEF Publish
      <3> QED
        BY <2>1, <3>1 DEF Publish, Written, Inserted
    <2> QED
      BY <1>1, <2>1 DEF ClientStep, Call, Find, Recover, Return, Written
  <1>2. CASE DrainStep
    BY <1>2 DEF DrainStep, BeginBoundary, BeginShell, Select, EndStage, StopDrain, Promote,
                PromoteLate, Written, PromotedOnce
  <1>3. ASSUME NEW id \in Id, PromotedElsewhere(id) PROVE Written
    BY <1>3 DEF PromotedElsewhere, Written, PromotedOnce
  <1>4. ASSUME NEW id \in Id, BridgePrompt(id) PROVE Written
    BY <1>4 DEF BridgePrompt, Written, Inserted
  <1>5. ASSUME NEW id \in Id, OtherMessage(id) PROVE Written
    BY <1>5 DEF OtherMessage, Written, Occupied
  <1>6. CASE Crash
    BY <1>6 DEF Crash, Written
  <1>7. CASE UNCHANGED vars
    BY <1>7 DEF vars, Written
  <1> QED
    BY <1>1, <1>2, <1>3, <1>4, <1>5, <1>6, <1>7 DEF Next

------------------------------------------------------------------------------
(* Type correctness.                                                       *)

\* The types of the tables after a step.
TablesOK == seq \in Nat /\ inbox \in [Id -> RowType \union {NoRow}] /\ message \in [Id -> Nat]

LEMMA TableTypes ==
  ASSUME TypeOK, Written
  PROVE  TablesOK'
  <1>0. TablesOK
    BY DEF TypeOK, TablesOK
  <1>1. CASE UNCHANGED <<seq, inbox, message>>
    BY <1>0, <1>1 DEF TablesOK
  <1>2. ASSUME NEW id \in Id, NEW w \in Payload, Inserted(id, w) PROVE TablesOK'
    <2>1. [want |-> w, admitted |-> seq + 1, promoted |-> 0] \in RowType
      BY DEF TypeOK, RowType
    <2>2. [want |-> w, admitted |-> seq + 1, promoted |-> seq + 1] \in RowType
      BY DEF TypeOK, RowType
    <2> QED
      BY <1>0, <1>2, <2>1, <2>2 DEF TablesOK, Inserted
  <1>3. ASSUME NEW id \in Id, PromotedOnce(id) PROVE TablesOK'
    <2>1. inbox[id] \in RowType
      BY <1>3, RowTypes DEF PromotedOnce, Pending
    <2>2. [inbox[id] EXCEPT !.promoted = seq + 1] \in RowType
      BY <2>1 DEF TypeOK, RowType
    <2> QED
      BY <1>0, <1>3, <2>2 DEF TablesOK, PromotedOnce, Promoted
  <1>4. ASSUME NEW id \in Id, Occupied(id) PROVE TablesOK'
    BY <1>0, <1>4 DEF TablesOK, Occupied
  <1> QED
    BY <1>1, <1>2, <1>3, <1>4 DEF Written

\* The types of the calls after a step.
LEMMA CallsType ==
  ASSUME TypeOK, [Next]_vars
  PROVE  client' \in [Client -> ClientType]
  <1> DEFINE Busy == [pc : {"find", "publish", "recover", "admitted", "rejected"}, id : Id,
                      want : Payload, batch : BOOLEAN]
  <1>1. ASSUME NEW c \in Client, ClientStep(c) PROVE client' \in [Client -> ClientType]
    <2>1. CASE Call(c)
      BY <2>1 DEF Call, TypeOK, ClientType
    <2>2. CASE client[c].pc # "idle" /\ \E p \in {"publish", "recover", "admitted", "rejected"} :
                 client' = [client EXCEPT ![c].pc = p]
      <3>1. client[c] \in Busy
        BY <2>2, CallTypes
      <3>2. PICK p \in {"publish", "recover", "admitted", "rejected"} :
              client' = [client EXCEPT ![c].pc = p]
        BY <2>2
      <3>3. [client[c] EXCEPT !.pc = p] \in Busy
        BY <3>1, <3>2
      <3> QED
        BY <3>2, <3>3 DEF TypeOK, ClientType
    <2>3. CASE client' = [client EXCEPT ![c] = Idle]
      BY <2>3 DEF TypeOK, ClientType
    <2> QED
      BY <1>1, <2>1, <2>2, <2>3 DEF ClientStep, Find, Publish, Recover, Return, Answer
  <1>2. CASE UNCHANGED client
    BY <1>2 DEF TypeOK
  <1>3. CASE Crash
    BY <1>3 DEF Crash, ClientType
  <1> QED
    BY <1>1, <1>2, <1>3
    DEF Next, vars, DrainStep, BeginBoundary, BeginShell, Select, EndStage, StopDrain, Promote,
        PromoteLate, PromotedElsewhere, BridgePrompt, OtherMessage

\* The drain's stages are known, and there is one as long as it runs.
DrainOK == drain \in DrainType /\ (drain.pc = "idle" <=> drain.stages = <<>>)

LEMMA DrainTypes ==
  ASSUME TypeOK, [Next]_vars
  PROVE  DrainOK'
  <1>0. DrainOK
    BY DEF TypeOK, DrainOK
  <1>1. CASE BeginBoundary
    <2>1. ASSUME NEW st \in {Steers, <<"queued">> \o Steers}
          PROVE  /\ st \in Seq({"queued", "prompt", "shell", "skill", "synthetic", "command"})
                 /\ st # <<>>
      BY SteersType
    <2>2. PICK st \in {Steers, <<"queued">> \o Steers} :
            drain' = [pc |-> "select", stages |-> st, cutoff |-> seq, todo |-> {}]
      BY <1>1 DEF BeginBoundary
    <2>3. st \in Seq({"queued", "prompt", "shell", "skill", "synthetic", "command"})
          /\ st # <<>>
      BY <2>1
    <2>4. drain' \in DrainType
      BY <2>2, <2>3 DEF DrainType, TypeOK
    <2> QED
      BY <2>2, <2>3, <2>4 DEF DrainOK
  <1>2. CASE BeginShell
    BY <1>2 DEF BeginShell, DrainOK, DrainType, TypeOK
  <1>3. CASE Select
    <2>1. Rows(Head(drain.stages)) \in SUBSET Id
      BY DEF Rows, OldestOf, PendingOf
    <2> QED
      BY <1>0, <1>3, <2>1 DEF Select, DrainOK, DrainType
  <1>4. CASE drain' = Quiet
    BY <1>4, QuietType DEF DrainOK
  <1>5. ASSUME NEW id \in Id, drain' = [drain EXCEPT !.todo = @ \ {id}] PROVE DrainOK'
    BY <1>0, <1>5 DEF DrainOK, DrainType
  <1>6. CASE EndStage /\ Len(drain.stages) # 1
    <2>1. drain.stages # <<>>
          /\ drain.stages \in Seq({"queued", "prompt", "shell", "skill", "synthetic", "command"})
      BY <1>0, <1>6 DEF EndStage, DrainOK, DrainType
    <2>2. Tail(drain.stages) # <<>>
          /\ Tail(drain.stages)
               \in Seq({"queued", "prompt", "shell", "skill", "synthetic", "command"})
      BY <1>6, <2>1, StagesLeft
    <2> QED
      BY <1>0, <1>6, <2>2 DEF EndStage, DrainOK, DrainType
  <1>7. CASE UNCHANGED drain
    BY <1>0, <1>7 DEF DrainOK
  <1> QED
    BY <1>1, <1>2, <1>3, <1>4, <1>5, <1>6, <1>7
    DEF Next, vars, ClientStep, Call, Find, Publish, Recover, Return, DrainStep, EndStage,
        StopDrain, Promote, PromoteLate, PromotedElsewhere, BridgePrompt, OtherMessage, Crash

LEMMA TypeStep ==
  ASSUME TypeOK, [Next]_vars
  PROVE  TypeOK'
  BY EveryStepWrites, TableTypes, CallsType, DrainTypes DEF TypeOK, TablesOK, DrainOK

------------------------------------------------------------------------------
(* What is stored stays stored.                                            *)

\* Rows stay, with their payload and their admission; so do messages, and rows
\* that are promoted.  A new row has the next sequence.
Stored ==
  \A id \in Id :
    /\ Has(id) => /\ Has(id)' /\ inbox'[id].want = inbox[id].want
                  /\ inbox'[id].admitted = inbox[id].admitted
                  /\ inbox[id].promoted # 0 => inbox'[id] = inbox[id]
    /\ message[id] # 0 => message'[id] = message[id] /\ (Has(id)' => Has(id))
    /\ ~Has(id) /\ Has(id)' => inbox'[id].admitted = seq + 1 /\ seq' = seq + 1

LEMMA WritesKeep ==
  ASSUME TypeOK, Written
  PROVE  Stored
  <1>1. CASE UNCHANGED <<seq, inbox, message>>
    BY <1>1 DEF Stored, Has
  <1>2. ASSUME NEW id \in Id, NEW w \in Payload, Inserted(id, w) PROVE Stored
    <2>1. \A i \in Id \ {id} : inbox'[i] = inbox[i] /\ message'[i] = message[i]
      BY <1>2 DEF Inserted, TypeOK
    <2>2. inbox'[id].admitted = seq + 1 /\ seq' = seq + 1
      BY <1>2 DEF Inserted, TypeOK
    <2> QED
      BY <1>2, <2>1, <2>2 DEF Stored, Inserted, Has
  <1>3. ASSUME NEW id \in Id, PromotedOnce(id) PROVE Stored
    <2>1. inbox[id] \in RowType
      BY <1>3, RowTypes DEF PromotedOnce, Pending
    <2>2. inbox' = [inbox EXCEPT ![id] = [inbox[id] EXCEPT !.promoted = seq + 1]]
      BY <1>3 DEF PromotedOnce, Promoted
    <2>3. [inbox[id] EXCEPT !.promoted = seq + 1] \in RowType
      BY <2>1 DEF TypeOK, RowType
    <2>4. [inbox[id] EXCEPT !.promoted = seq + 1] # NoRow
      BY <2>3, RowTypes
    <2>5. Has(id)' /\ inbox'[id].want = inbox[id].want /\ inbox'[id].admitted = inbox[id].admitted
      BY <2>1, <2>2, <2>4 DEF Has, TypeOK, RowType, NoRow
    <2>6. \A i \in Id \ {id} : inbox'[i] = inbox[i] /\ message'[i] = message[i]
      BY <1>3 DEF PromotedOnce, Promoted, TypeOK
    <2> QED
      BY <1>3, <2>5, <2>6 DEF Stored, PromotedOnce, Pending, Has
  <1>4. ASSUME NEW id \in Id, Occupied(id) PROVE Stored
    BY <1>4 DEF Stored, Occupied, Has, TypeOK
  <1> QED
    BY <1>1, <1>2, <1>3, <1>4 DEF Written

\* The sequences of rows, and of messages beside them, after a step.
LEMMA WritesNumber ==
  ASSUME TypeOK, Numbered, VisibleIffPromoted, Written
  PROVE  Numbered' /\ VisibleIffPromoted'
  <1>1. CASE UNCHANGED <<seq, inbox, message>>
    BY <1>1 DEF Numbered, VisibleIffPromoted, Has
  <1>2. ASSUME NEW id \in Id, NEW w \in Payload, Inserted(id, w)
        PROVE  Numbered' /\ VisibleIffPromoted'
    BY <1>2 DEF Numbered, VisibleIffPromoted, Inserted, Has, TypeOK
  <1>3. ASSUME NEW id \in Id, PromotedOnce(id) PROVE Numbered' /\ VisibleIffPromoted'
    <2>1. inbox[id] \in RowType /\ Has(id)
      BY <1>3, RowTypes DEF PromotedOnce, Pending
    <2>2. inbox' = [inbox EXCEPT ![id] = [inbox[id] EXCEPT !.promoted = seq + 1]]
      BY <1>3 DEF PromotedOnce, Promoted
    <2>3. inbox'[id].admitted = inbox[id].admitted /\ inbox'[id].promoted = seq + 1
      BY <2>1, <2>2 DEF TypeOK, RowType
    <2>4. seq' = seq + 1 /\ message'[id] = seq + 1
      BY <1>3 DEF PromotedOnce, Promoted, TypeOK
    <2>5. \A i \in Id \ {id} : inbox'[i] = inbox[i] /\ message'[i] = message[i]
      BY <1>3 DEF PromotedOnce, Promoted, TypeOK
    <2>6. inbox[id].admitted \in 1..seq
      BY <2>1 DEF Numbered
    <2>7. seq \in Nat /\ inbox'[id].admitted \in 1..seq'
      BY <2>3, <2>4, <2>6 DEF TypeOK
    <2>8. inbox'[id].promoted \in 0..seq' /\ message'[id] = inbox'[id].promoted
      BY <2>3, <2>4, <2>7
    <2>9. inbox'[id].admitted < inbox'[id].promoted
      BY <2>3, <2>4, <2>6, <2>7
    <2> QED
      BY <2>4, <2>5, <2>7, <2>8, <2>9 DEF Numbered, VisibleIffPromoted, Has
  <1>4. ASSUME NEW id \in Id, Occupied(id) PROVE Numbered' /\ VisibleIffPromoted'
    BY <1>4 DEF Numbered, VisibleIffPromoted, Occupied, Has, TypeOK
  <1> QED
    BY <1>1, <1>2, <1>3, <1>4 DEF Written

------------------------------------------------------------------------------
(* What callers are told.                                                  *)

\* What an answer says, and what a conflict means, of one call.
Told(c) ==
  LET id == client[c].id
  IN  /\ client[c].pc = "admitted" => Has(id) /\ inbox[id].want = client[c].want
      /\ client[c].pc = "rejected" /\ ~client[c].batch
           => IF Has(id) THEN inbox[id].want # client[c].want ELSE message[id] # 0
      /\ client[c].pc = "recover" => ~client[c].batch /\ (Has(id) \/ message[id] # 0)

LEMMA ToldIsHonest == (ConflictIsReal /\ HonestAnswers) <=> \A c \in Client : Told(c)
  BY DEF ConflictIsReal, HonestAnswers, Told

\* A step of others does not make it wrong.
LEMMA ToldStays ==
  ASSUME TypeOK, Stored, NEW c \in Client, Told(c), client'[c] = client[c]
  PROVE  Told(c)'
  <1>1. CASE client[c].pc = "idle"
    BY <1>1 DEF Told
  <1>2. CASE client[c].pc # "idle"
    <2>1. client[c].id \in Id
      BY <1>2, CallTypes
    <2> QED
      BY <2>1 DEF Told, Stored, Has
  <1> QED
    BY <1>1, <1>2

\* A step of the call itself tells the truth.
LEMMA ToldByStep ==
  ASSUME TypeOK, NEW c \in Client, Told(c), ClientStep(c)
  PROVE  Told(c)'
  <1> DEFINE Busy == [pc : {"find", "publish", "recover", "admitted", "rejected"}, id : Id,
                      want : Payload, batch : BOOLEAN]
  <1>1. CASE Call(c)
    BY <1>1 DEF Call, Told, TypeOK
  <1>2. CASE Find(c)
    <2>1. client[c] \in Busy
      BY <1>2, CallTypes DEF Find
    <2>2. client'[c] = [client[c] EXCEPT !.pc =
            IF Has(client[c].id) THEN Answer(c) ELSE "publish"]
      BY <1>2 DEF Find, TypeOK
    <2>3. client'[c].id = client[c].id /\ client'[c].want = client[c].want
          /\ client'[c].pc = IF Has(client[c].id) THEN Answer(c) ELSE "publish"
      BY <2>1, <2>2
    <2> QED
      BY <1>2, <2>3 DEF Find, Answer, Told, Has
  <1>3. CASE Publish(c)
    <2>1. client[c] \in Busy /\ client[c].id \in Id
      BY <1>3, CallTypes DEF Publish
    <2>2. CASE ~Has(client[c].id) /\ message[client[c].id] = 0
      <3>1. client'[c] = [client[c] EXCEPT !.pc = "admitted"]
        BY <1>3, <2>2 DEF Publish, TypeOK
      <3>2. client'[c].id = client[c].id /\ client'[c].want = client[c].want
            /\ client'[c].pc = "admitted"
        BY <2>1, <3>1
      <3>3. inbox'[client[c].id] = [want |-> client[c].want, admitted |-> seq + 1, promoted |-> 0]
        BY <1>3, <2>1, <2>2 DEF Publish, TypeOK
      <3> QED
        BY <3>2, <3>3 DEF Told, Has, NoRow
    <2>3. CASE ~(~Has(client[c].id) /\ message[client[c].id] = 0)
      <3>1. client'[c] = [client[c] EXCEPT !.pc =
              IF client[c].batch THEN "rejected" ELSE "recover"]
        BY <1>3, <2>3 DEF Publish, TypeOK
      <3>2. client'[c].id = client[c].id /\ client'[c].batch = client[c].batch
            /\ client'[c].pc = IF client[c].batch THEN "rejected" ELSE "recover"
        BY <2>1, <3>1
      <3>3. UNCHANGED <<inbox, message>>
        BY <1>3, <2>3 DEF Publish
      <3> QED
        BY <2>1, <2>3, <3>2, <3>3 DEF Told, Has
    <2> QED
      BY <2>2, <2>3
  <1>4. CASE Recover(c)
    <2>1. client[c] \in Busy
      BY <1>4, CallTypes DEF Recover
    <2>2. client'[c] = [client[c] EXCEPT !.pc =
            IF Has(client[c].id) THEN Answer(c) ELSE "rejected"]
      BY <1>4 DEF Recover, TypeOK
    <2>3. client'[c].id = client[c].id /\ client'[c].want = client[c].want
          /\ client'[c].batch = client[c].batch
          /\ client'[c].pc = IF Has(client[c].id) THEN Answer(c) ELSE "rejected"
      BY <2>1, <2>2
    <2> QED
      BY <1>4, <2>3 DEF Recover, Answer, Told, Has
  <1>5. CASE Return(c)
    BY <1>5 DEF Return, Told, TypeOK, Idle
  <1> QED
    BY <1>1, <1>2, <1>3, <1>4, <1>5 DEF ClientStep

\* Only a call's own steps and a crash change it.
LEMMA CallsAreOwn ==
  ASSUME TypeOK, [Next]_vars, NEW c \in Client
  PROVE  ClientStep(c) \/ client'[c] = client[c] \/ client'[c] = Idle
  <1>1. ASSUME NEW o \in Client, ClientStep(o), o # c PROVE client'[c] = client[c]
    BY <1>1 DEF ClientStep, Call, Find, Publish, Recover, Return, TypeOK
  <1> QED
    BY <1>1 DEF Next, vars, DrainStep, BeginBoundary, BeginShell, Select, EndStage, StopDrain,
                Promote, PromoteLate, PromotedElsewhere, BridgePrompt, OtherMessage, Crash

LEMMA ToldStep ==
  ASSUME TypeOK, [Next]_vars, Stored, \A c \in Client : Told(c)
  PROVE  \A c \in Client : Told(c)'
  <1>1. ASSUME NEW c \in Client, client'[c] = Idle PROVE Told(c)'
    BY <1>1 DEF Told, Idle
  <1> QED
    BY <1>1, ToldStays, ToldByStep, CallsAreOwn

------------------------------------------------------------------------------
(* What the drain has selected.                                            *)

\* Among pending rows of one kind and delivery, those selected come first.
Before(S, id) ==
  \A i \in PendingOf(inbox[id].want.kind, inbox[id].want.delivery) \ S :
    inbox[id].admitted <= inbox[i].admitted

\* A selection stays the oldest when the table is written, except for a selected
\* row that is no longer pending.
LEMMA SelectionStays ==
  ASSUME TypeOK, Numbered, Written, Stored,
         NEW S \in SUBSET Id, NEW T \in SUBSET Id,
         \A id \in S : Has(id) /\ Before(S, id),
         T \subseteq S, \A id \in S \ T : ~Pending(id)'
  PROVE  \A id \in T : Has(id)' /\ Before(T, id)'
  <1> SUFFICES ASSUME NEW id \in T
               PROVE  Has(id)' /\ Before(T, id)'
    OBVIOUS
  <1>1. Has(id) /\ Has(id)' /\ inbox'[id].want = inbox[id].want
        /\ inbox'[id].admitted = inbox[id].admitted /\ inbox[id].admitted <= seq
        /\ inbox[id].admitted \in Nat
    BY DEF Stored, Numbered, TypeOK
  <1>2. ASSUME NEW i \in Id, Pending(i)', i \notin T,
               inbox'[i].want.kind = inbox'[id].want.kind,
               inbox'[i].want.delivery = inbox'[id].want.delivery
        PROVE  inbox'[id].admitted <= inbox'[i].admitted
    <2>1. i \notin S
      BY <1>2
    <2>2. CASE Has(i)
      <3>1. inbox'[i].want = inbox[i].want /\ inbox'[i].admitted = inbox[i].admitted
        BY <2>2 DEF Stored
      <3>2. inbox[i].promoted = 0
        BY <1>2, <2>2 DEF Stored, Pending
      <3>3. i \in PendingOf(inbox[id].want.kind, inbox[id].want.delivery) \ S
        BY <1>1, <1>2, <2>1, <2>2, <3>1, <3>2 DEF PendingOf, Pending
      <3>4. inbox[id].admitted <= inbox[i].admitted
        BY <3>3 DEF Before
      <3> QED
        BY <1>1, <3>1, <3>4
    <2>3. CASE ~Has(i)
      <3>1. inbox'[i].admitted = seq + 1
        BY <1>2, <2>3 DEF Stored, Pending
      <3> QED
        BY <1>1, <3>1 DEF TypeOK
    <2> QED
      BY <2>2, <2>3
  <1> QED
    BY <1>1, <1>2 DEF Before, PendingOf

\* What the drain selects is the oldest of what is pending.
LEMMA RowsAreOldest ==
  ASSUME TypeOK, NEW stage
  PROVE  /\ Rows(stage) \in SUBSET Id
         /\ \A id \in Rows(stage) : Has(id) /\ Before(Rows(stage), id)
  <1>1. Rows(stage) \in SUBSET Id
    BY DEF Rows, OldestOf, PendingOf
  <1>2. ASSUME NEW id \in Rows(stage) PROVE Has(id)
    BY <1>2 DEF Rows, OldestOf, PendingOf, Pending
  <1>3. ASSUME NEW id \in Rows(stage) PROVE Before(Rows(stage), id)
    <2> DEFINE k == IF stage = "shell" THEN "shell" ELSE "prompt"
    <2>1. CASE stage \in {"queued", "shell"}
      <3>1. id \in OldestOf(PendingOf(k, "queue"))
        BY <1>3, <2>1 DEF Rows
      <3>2. inbox[id].want.kind = k /\ inbox[id].want.delivery = "queue"
        BY <3>1 DEF OldestOf, PendingOf
      <3> QED
        BY <3>1, <3>2 DEF OldestOf, Before
    <2>2. CASE stage \notin {"queued", "shell"}
      <3>1. id \in PendingOf(stage, "steer") /\ inbox[id].admitted <= drain.cutoff
        BY <1>3, <2>2 DEF Rows
      <3>2. inbox[id].want.kind = stage /\ inbox[id].want.delivery = "steer"
        BY <3>1 DEF PendingOf
      <3>3. ASSUME NEW i \in PendingOf(stage, "steer") \ Rows(stage)
            PROVE  inbox[id].admitted <= inbox[i].admitted
        <4>1. ~(inbox[i].admitted <= drain.cutoff)
          BY <2>2, <3>3 DEF Rows
        <4>2. inbox[id] \in RowType /\ inbox[i] \in RowType
          BY <3>1, <3>3, RowTypes DEF PendingOf, Pending
        <4>3. inbox[id].admitted \in Nat /\ inbox[i].admitted \in Nat /\ drain.cutoff \in Nat
          BY <4>2 DEF RowType, TypeOK, DrainType
        <4> QED
          BY <3>1, <4>1, <4>3
      <3> QED
        BY <3>2, <3>3 DEF Before
    <2> QED
      BY <2>1, <2>2
  <1> QED
    BY <1>1, <1>2, <1>3

LEMMA SelectionStep ==
  ASSUME TypeOK, Numbered, SelectionIsOldest, [Next]_vars, Written, Stored
  PROVE  SelectionIsOldest'
  <1>0. SelectionIsOldest <=>
          (drain.pc = "publish" => \A id \in drain.todo : Has(id) /\ Before(drain.todo, id))
    BY DEF SelectionIsOldest, Before
  <1>1. drain.todo \in SUBSET Id
    BY DEF TypeOK, DrainType
  <1>2. CASE drain'.pc # "publish"
    BY <1>2 DEF SelectionIsOldest
  <1>3. CASE UNCHANGED drain
    <2>1. CASE drain.pc = "publish"
      <3>1. \A id \in drain'.todo : Has(id)' /\ Before(drain.todo, id)'
        BY <1>0, <1>1, <1>3, <2>1, SelectionStays
      <3> QED
        BY <3>1 DEF SelectionIsOldest, Before
    <2> QED
      BY <1>2, <1>3, <2>1
  <1>4. CASE Select
    <2>1. UNCHANGED <<seq, inbox, message>> /\ drain'.todo = Rows(Head(drain.stages))
      BY <1>4 DEF Select, TypeOK, DrainType
    <2>2. \A id \in Rows(Head(drain.stages)) : Has(id) /\ Before(Rows(Head(drain.stages)), id)
      BY RowsAreOldest
    <2> QED
      BY <2>1, <2>2 DEF SelectionIsOldest, Before, Has, PendingOf, Pending
  <1>5. ASSUME NEW id \in Id, drain.pc = "publish", ~Pending(id)',
               drain' = [drain EXCEPT !.todo = @ \ {id}]
        PROVE  SelectionIsOldest'
    <2>1. drain'.todo = drain.todo \ {id}
      BY <1>5 DEF TypeOK, DrainType
    <2>2. \A i \in drain'.todo : Has(i)' /\ Before(drain.todo, i)'
      BY <1>0, <1>1, <1>5, <2>1, SelectionStays
    <2> QED
      BY <2>1, <2>2 DEF SelectionIsOldest, Before
  <1>6. ASSUME NEW id \in Id, Promote(id) PROVE SelectionIsOldest'
    <2>1. inbox'[id].promoted = seq + 1
      <3>1. inbox[id] \in RowType
        BY <1>6, RowTypes DEF Promote, Pending
      <3> QED
        BY <1>6, <3>1 DEF Promote, Promoted, TypeOK, RowType
    <2> QED
      BY <1>5, <1>6, <2>1 DEF Promote, Pending, TypeOK
  <1>7. ASSUME NEW id \in Id, PromoteLate(id) PROVE SelectionIsOldest'
    BY <1>2, <1>5, <1>7 DEF PromoteLate, Pending, Has, Quiet
  <1>8. CASE EndStage
    BY <1>2, <1>8 DEF EndStage, Quiet, TypeOK, DrainType
  <1>9. CASE BeginBoundary \/ BeginShell \/ StopDrain \/ Crash
    BY <1>2, <1>9 DEF BeginBoundary, BeginShell, StopDrain, Crash, Quiet
  <1>10. ASSUME NEW c \in Client, ClientStep(c) PROVE UNCHANGED drain
    BY <1>10 DEF ClientStep, Call, Find, Publish, Recover, Return
  <1> QED
    BY <1>3, <1>4, <1>6, <1>7, <1>8, <1>9, <1>10
    DEF Next, vars, DrainStep, PromotedElsewhere, BridgePrompt, OtherMessage

------------------------------------------------------------------------------
(* The theorems.                                                           *)

LEMMA InitInv == Init => IInv
  <1> SUFFICES ASSUME Init
               PROVE  IInv
    OBVIOUS
  <1>1. TypeOK
    BY QuietType DEF Init, TypeOK, ClientType
  <1>2. \A id \in Id : ~Has(id)
    BY DEF Init, Has
  <1>3. \A c \in Client : client[c].pc = "idle"
    BY DEF Init, Idle
  <1>4. drain.pc # "publish"
    BY DEF Init, Quiet
  <1> QED
    BY <1>1, <1>2, <1>3, <1>4
    DEF IInv, Numbered, VisibleIffPromoted, ConflictIsReal, HonestAnswers, SelectionIsOldest

LEMMA NextInv == IInv /\ [Next]_vars => IInv'
  <1> SUFFICES ASSUME IInv, [Next]_vars
               PROVE  IInv'
    OBVIOUS
  <1>1. Written /\ TypeOK'
    BY EveryStepWrites, TypeStep DEF IInv
  <1>2. Stored /\ Numbered' /\ VisibleIffPromoted'
    BY <1>1, WritesKeep, WritesNumber DEF IInv
  <1>3. \A c \in Client : Told(c)'
    BY <1>2, ToldIsHonest, ToldStep DEF IInv
  <1>4. ConflictIsReal' /\ HonestAnswers'
    BY <1>3 DEF ConflictIsReal, HonestAnswers, Told
  <1>5. SelectionIsOldest'
    BY <1>1, <1>2, SelectionStep DEF IInv
  <1> QED
    BY <1>1, <1>2, <1>4, <1>5 DEF IInv

\* The inductive invariant holds in every behaviour of the inbox.
THEOREM Invariance == Spec => []IInv
  BY InitInv, NextInv, PTL DEF Spec

\* The tables, the calls and the drain of session/input.ts keep their shape.
THEOREM TypeCorrect == Spec => []TypeOK
  <1>1. IInv => TypeOK
    BY DEF IInv
  <1> QED
    BY <1>1, Invariance, PTL

\* An input is visible in the history exactly when its row is promoted.
THEOREM VisibleIffPromotedAlways == Spec => []VisibleIffPromoted
  <1>1. IInv => VisibleIffPromoted
    BY DEF IInv
  <1> QED
    BY <1>1, Invariance, PTL

\* Receipts and rejections of admissions are honest, whatever races for an id.
THEOREM HonestAnswersAlways == Spec => []HonestAnswers
  <1>1. IInv => HonestAnswers
    BY DEF IInv
  <1> QED
    BY <1>1, Invariance, PTL

\* What is admitted, promoted or visible is never written again.
THEOREM WrittenOnceAlways == Spec => WrittenOnce
  <1>1. IInv /\ [Next]_vars =>
          [\A id \in Id :
            /\ Has(id) => inbox'[id].want = inbox[id].want /\ inbox'[id].admitted = inbox[id].admitted
            /\ Has(id) /\ inbox[id].promoted # 0 => inbox'[id] = inbox[id]
            /\ message[id] # 0 => message'[id] = message[id]]_vars
    <2> SUFFICES ASSUME IInv, [Next]_vars
                 PROVE  Stored
      BY DEF Stored
    <2> QED
      BY EveryStepWrites, WritesKeep DEF IInv
  <1> QED
    BY <1>1, Invariance, PTL DEF Spec, WrittenOnce

\* The drain promotes no input past an older pending one of its kind and delivery.
THEOREM NoOvertakingAlways == Spec => NoOvertaking
  <1>1. IInv /\ [Next]_vars =>
          [\A id \in Id : Promote(id) =>
             \A i \in PendingOf(inbox[id].want.kind, inbox[id].want.delivery) :
               inbox[i].admitted >= inbox[id].admitted]_vars
    <2> SUFFICES ASSUME IInv, NEW id \in Id, Promote(id),
                        NEW i \in PendingOf(inbox[id].want.kind, inbox[id].want.delivery)
                 PROVE  inbox[i].admitted >= inbox[id].admitted
      OBVIOUS
    <2>1. inbox[i] \in RowType /\ inbox[id] \in RowType
      BY RowTypes DEF IInv, PendingOf, Pending, Promote
    <2>2. inbox[id].admitted <= inbox[i].admitted
      BY DEF IInv, SelectionIsOldest, Promote, OldestOf
    <2> QED
      BY <2>1, <2>2 DEF RowType
  <1> QED
    BY <1>1, Invariance, PTL DEF Spec, NoOvertaking

==============================================================================
