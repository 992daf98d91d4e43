------------------------------- MODULE EventLog ------------------------------
(***************************************************************************)
(* EventV2 (event.ts): the durable event log every other component writes. *)
(* Each aggregate has a row in event_sequence (its last sequence and the   *)
(* owner that may replay into it) and rows in event.  Publishers append    *)
(* locally, replayers copy events of another process with their sequences, *)
(* and durable tails follow one aggregate through a one-slot dirty signal. *)
(*                                                                         *)
(* The database connection hands out one permit: while a publisher's       *)
(* transaction is open no other statement runs.  A replay, a read, a claim *)
(* and a removal are one transaction or statement each, hence one step.    *)
(***************************************************************************)
EXTENDS Integers, Sequences, FiniteSets

CONSTANTS Aggregate, EventId, Data,
          Owner,       \* replay owners (workspace or project ids)
          NoOwner,     \* the null owner_id
          Publisher, Replayer, Follower,
          MaxSeq,      \* bound: no aggregate grows past this sequence
          BatchSize    \* bound: events of one publishBatch

ASSUME EventLogAssumption ==
  /\ Aggregate # {}
  /\ NoOwner \notin Owner
  /\ MaxSeq \in Nat
  /\ BatchSize \in Nat

VARIABLES seq,         \* [Aggregate -> last sequence, -1 without a row]
          owner,       \* [Aggregate -> owner_id]
          events,      \* the rows of the event table
          publisher,   \* publish and publishBatch in flight
          replayer,    \* replay and replayAll in flight
          follower     \* open durable streams

store == <<seq, owner, events>>
vars == <<seq, owner, events, publisher, replayer, follower>>

------------------------------------------------------------------------------

Row == [id : EventId, agg : Aggregate, seq : Nat, data : Data]

\* A publisher opens a transaction ("tx"), stages the `left` events of its call
\* one by one, and after the commit wakes the tails of each staged row
\* ("wake").  `view` is the event_sequence table as the transaction sees it.
PublisherType ==
  [phase : {"idle", "tx", "wake"}, left : Nat, staged : Seq(Row),
   view : [Aggregate -> -1 .. MaxSeq]]
IdlePublisher ==
  [phase |-> "idle", left |-> 0, staged |-> <<>>, view |-> [a \in Aggregate |-> -1]]

\* A replayer has appended the event at `seq` of `agg` and still has to wake
\* its tails ("wake"), or is about to replay the event at `seq` ("next").
ReplayerType ==
  [phase : {"idle", "wake", "next"}, agg : Aggregate, seq : Nat,
   owner : Owner \union {NoOwner}, strict : BOOLEAN]
IdleReplayer ==
  [phase |-> "idle", agg |-> CHOOSE a \in Aggregate : TRUE, seq |-> 0, owner |-> NoOwner,
   strict |-> FALSE]

\* A tail has registered its signal ("history"), hands the rows of a query to
\* its reader ("emitting"), waits for a wake ("live"), or has taken one and is
\* about to query ("reading").  `start` is the sequence after the caller's
\* cursor; `seen` is the sequences of the rows the stream has read.
FollowerType ==
  [phase : {"closed", "history", "emitting", "live", "reading"}, agg : Aggregate, start : Nat,
   cursor : Nat \union {-1}, dirty : BOOLEAN, seen : Seq(Nat)]
Closed ==
  [phase |-> "closed", agg |-> CHOOSE a \in Aggregate : TRUE, start |-> 0, cursor |-> -1,
   dirty |-> FALSE, seen |-> <<>>]

Elements(s) == {s[i] : i \in DOMAIN s}
IdsOf(rows) == {e.id : e \in rows}

DatabaseFree == \A p \in Publisher : publisher[p].phase # "tx"

Init ==
  /\ seq = [a \in Aggregate |-> -1]
  /\ owner = [a \in Aggregate |-> NoOwner]
  /\ events = {}
  /\ publisher = [p \in Publisher |-> IdlePublisher]
  /\ replayer = [r \in Replayer |-> IdleReplayer]
  /\ follower = [f \in Follower |-> Closed]

------------------------------------------------------------------------------
(* Publishing.                                                             *)

\* publish writes one event, publishBatch up to BatchSize.
BeginPublish(p) ==
  /\ publisher[p].phase = "idle" /\ DatabaseFree
  /\ \E n \in 1 .. BatchSize :
       publisher' = [publisher EXCEPT ![p] =
         [phase |-> "tx", left |-> n, staged |-> <<>>, view |-> seq]]
  /\ UNCHANGED <<store, replayer, follower>>

\* Mutant: each event of a batch is written in a transaction of its own.
StageDirectly(p) ==
  /\ publisher[p].phase = "tx" /\ publisher[p].left > 0
  /\ \E id \in EventId, a \in Aggregate, d \in Data :
       LET row == [id |-> id, agg |-> a, seq |-> publisher[p].view[a] + 1, data |-> d]
       IN  /\ row.seq <= MaxSeq
           /\ id \notin IdsOf(events)
           /\ events' = events \union {row}
           /\ seq' = [seq EXCEPT ![a] = row.seq]
           /\ publisher' = [publisher EXCEPT
                ![p].left = @ - 1, ![p].staged = Append(@, row), ![p].view[a] = row.seq]
  /\ UNCHANGED <<owner, replayer, follower>>

\* commitDurableEvent without a replay input: the next sequence, no owner
\* check, an id that is stored nowhere, and projectors that succeed.
Stage(p) ==
  /\ publisher[p].phase = "tx" /\ publisher[p].left > 0
  /\ \E id \in EventId, a \in Aggregate, d \in Data :
       LET n == publisher[p].view[a] + 1
       IN  /\ n <= MaxSeq
           /\ id \notin IdsOf(events \union Elements(publisher[p].staged))
           /\ publisher' = [publisher EXCEPT ![p] =
                [phase |-> "tx", left |-> publisher[p].left - 1,
                 staged |-> Append(publisher[p].staged,
                                   [id |-> id, agg |-> a, seq |-> n, data |-> d]),
                 view |-> [publisher[p].view EXCEPT ![a] = n]]]
  /\ UNCHANGED <<store, replayer, follower>>

\* A used id, a projector or a commit hook dies: the whole transaction rolls back.
RollBack(p) ==
  /\ publisher[p].phase = "tx" /\ publisher[p].left > 0
  /\ publisher' = [publisher EXCEPT ![p] = IdlePublisher]
  /\ UNCHANGED <<store, replayer, follower>>

\* Mutant: the transaction ends before the batch is complete.
CommitEarly(p) ==
  /\ publisher[p].phase = "tx"
  /\ events' = events \union Elements(publisher[p].staged)
  /\ seq' = publisher[p].view
  /\ publisher' = [publisher EXCEPT ![p] =
       [IdlePublisher EXCEPT !.phase = "wake", !.staged = publisher[p].staged]]
  /\ UNCHANGED <<owner, replayer, follower>>

Commit(p) ==
  /\ publisher[p].phase = "tx" /\ publisher[p].left = 0
  /\ events' = events \union Elements(publisher[p].staged)
  /\ seq' = publisher[p].view
  /\ publisher' = [publisher EXCEPT ![p] =
       [IdlePublisher EXCEPT !.phase = "wake", !.staged = publisher[p].staged]]
  /\ UNCHANGED <<owner, replayer, follower>>

\* Mutant: a tail listens for wakes only while it waits for one, and not yet
\* while its historical rows are being emitted.
SignalledLive(a) ==
  [f \in Follower |-> IF follower[f].phase = "live" /\ follower[f].agg = a
                      THEN [follower[f] EXCEPT !.dirty = TRUE] ELSE follower[f]]

\* Fill the one-slot signal of every tail registered for aggregate a.
Signalled(a) ==
  [f \in Follower |-> IF follower[f].phase # "closed" /\ follower[f].agg = a
                      THEN [follower[f] EXCEPT !.dirty = TRUE] ELSE follower[f]]

\* After the commit, and not interruptible: one wake per committed event.
WakeTails(p) ==
  /\ publisher[p].phase = "wake"
  /\ follower' = Signalled(Head(publisher[p].staged).agg)
  /\ publisher' = [publisher EXCEPT ![p] =
       IF Len(publisher[p].staged) = 1 THEN IdlePublisher
       ELSE [IdlePublisher EXCEPT !.phase = "wake", !.staged = Tail(publisher[p].staged)]]
  /\ UNCHANGED <<store, replayer>>

------------------------------------------------------------------------------
(* Replaying events of another process.                                    *)

\* What r may replay now: a first event of any kind, or the next one of its
\* replayAll, which accepts only one aggregate's consecutive sequences.
Replaying(r, w, o, strict) ==
  /\ DatabaseFree
  /\ \/ replayer[r].phase = "idle"
     \/ replayer[r] = [phase |-> "next", agg |-> w.agg, seq |-> w.seq, owner |-> o, strict |-> strict]

\* After w: the call returns, or goes on with the following sequence.
Continue(r, w, o, strict) ==
  \E s \in ({w.seq + 1} \intersect 0 .. MaxSeq) \union {0} :
    replayer' = [replayer EXCEPT ![r] =
      IF s = 0 THEN IdleReplayer
      ELSE [phase |-> "next", agg |-> w.agg, seq |-> s, owner |-> o, strict |-> strict]]

Foreign(o, a) == owner[a] # NoOwner /\ owner[a] # o

\* Mutant: a replay takes the aggregate over.
AdoptedAlways(o, a) == [owner EXCEPT ![a] = o]

\* An unowned aggregate is adopted by a replay that names an owner.
Adopted(o, a) == IF owner[a] = NoOwner THEN [owner EXCEPT ![a] = o] ELSE owner

\* Mutant: a diverging event replaces the stored one.
ReplayOverwrites(r, w, o, strict) ==
  /\ Replaying(r, w, o, strict)
  /\ ~(strict /\ Foreign(o, w.agg))
  /\ w.seq <= seq[w.agg]
  /\ events' = {e \in events : ~(e.agg = w.agg /\ e.seq = w.seq)} \union {w}
  /\ owner' = Adopted(o, w.agg)
  /\ Continue(r, w, o, strict)
  /\ UNCHANGED <<seq, publisher, follower>>

\* The event is the one stored at its sequence: only ownership may change.
ReplayExact(r, w, o, strict) ==
  /\ Replaying(r, w, o, strict)
  /\ ~(strict /\ Foreign(o, w.agg))
  /\ w.seq <= seq[w.agg] /\ w \in events
  /\ owner' = Adopted(o, w.agg)
  /\ Continue(r, w, o, strict)
  /\ UNCHANGED <<seq, events, publisher, follower>>

\* A new event of an aggregate someone else owns is skipped without an error.
ReplayFenced(r, w, o, strict) ==
  /\ Replaying(r, w, o, strict)
  /\ ~strict /\ Foreign(o, w.agg) /\ w.seq > seq[w.agg]
  /\ Continue(r, w, o, strict)
  /\ UNCHANGED <<store, publisher, follower>>

\* Mutant: any later event is appended, not only the next one.
ReplayAppendAhead(r, w, o, strict) ==
  /\ Replaying(r, w, o, strict)
  /\ ~Foreign(o, w.agg)
  /\ w.seq > seq[w.agg]
  /\ w.id \notin IdsOf(events)
  /\ events' = events \union {w}
  /\ seq' = [seq EXCEPT ![w.agg] = w.seq]
  /\ owner' = Adopted(o, w.agg)
  /\ replayer' = [replayer EXCEPT ![r] =
       [phase |-> "wake", agg |-> w.agg, seq |-> w.seq, owner |-> o, strict |-> strict]]
  /\ UNCHANGED <<publisher, follower>>

\* The next event of the aggregate is projected and appended.
ReplayAppend(r, w, o, strict) ==
  /\ Replaying(r, w, o, strict)
  /\ ~Foreign(o, w.agg)
  /\ w.seq = seq[w.agg] + 1
  /\ w.id \notin IdsOf(events)
  /\ events' = events \union {w}
  /\ seq' = [seq EXCEPT ![w.agg] = w.seq]
  /\ owner' = Adopted(o, w.agg)
  /\ replayer' = [replayer EXCEPT ![r] =
       [phase |-> "wake", agg |-> w.agg, seq |-> w.seq, owner |-> o, strict |-> strict]]
  /\ UNCHANGED <<publisher, follower>>

\* Everything else dies, and so may a projector: a strict owner mismatch, a
\* divergence, a gap, an id stored elsewhere.  replayAll stops there; what it
\* has appended stays.
ReplayDies(r) ==
  /\ replayer[r].phase = "next" /\ DatabaseFree
  /\ replayer' = [replayer EXCEPT ![r] = IdleReplayer]
  /\ UNCHANGED <<store, publisher, follower>>

ReplayWake(r) ==
  /\ replayer[r].phase = "wake"
  /\ follower' = Signalled(replayer[r].agg)
  /\ Continue(r, replayer[r], replayer[r].owner, replayer[r].strict)
  /\ UNCHANGED <<store, publisher>>

------------------------------------------------------------------------------
(* Ownership and removal.                                                  *)

\* claim updates the row unconditionally; without a row it does nothing.
Claim(a, o) ==
  /\ DatabaseFree /\ seq[a] >= 0
  /\ owner' = [owner EXCEPT ![a] = o]
  /\ UNCHANGED <<seq, events, publisher, replayer, follower>>

Remove(a) ==
  /\ DatabaseFree
  /\ seq' = [seq EXCEPT ![a] = -1]
  /\ owner' = [owner EXCEPT ![a] = NoOwner]
  /\ events' = {e \in events : e.agg # a}
  /\ UNCHANGED <<publisher, replayer, follower>>

------------------------------------------------------------------------------
(* Durable tails.                                                          *)

\* subscribeDurable registers the signal before anything is read.
OpenTail(f) ==
  /\ follower[f].phase = "closed"
  /\ \E a \in Aggregate, s \in 0 .. MaxSeq :
       follower' = [follower EXCEPT ![f] =
         [phase |-> "history", agg |-> a, start |-> s, cursor |-> s - 1, dirty |-> FALSE,
          seen |-> <<>>]]
  /\ UNCHANGED <<store, publisher, replayer>>

\* A finite set of numbers in ascending order: each one at its rank.
Ascending(S) ==
  [i \in 1 .. Cardinality(S) |-> CHOOSE x \in S : Cardinality({y \in S : y <= x}) = i]

\* readAfter: the rows past the cursor, in sequence order.
ReadAfter(f) ==
  Ascending({e.seq : e \in {d \in events :
                               d.agg = follower[f].agg /\ d.seq > follower[f].cursor}})

\* Mutant: the stream emits what it read without moving its cursor.
ReadKeepsCursor(f) ==
  /\ follower[f].phase \in {"history", "reading"} /\ DatabaseFree
  /\ follower' = [follower EXCEPT ![f].phase = "emitting", ![f].seen = @ \o ReadAfter(f)]
  /\ UNCHANGED <<store, publisher, replayer>>

\* `sequence` moves to the last row read, and stays when there is none.
Read(f) ==
  /\ follower[f].phase \in {"history", "reading"} /\ DatabaseFree
  /\ LET rows == ReadAfter(f)
     IN  follower' = [follower EXCEPT
           ![f].phase = "emitting",
           ![f].seen = @ \o rows,
           ![f].cursor = IF rows = <<>> THEN @ ELSE rows[Len(rows)]]
  /\ UNCHANGED <<store, publisher, replayer>>

\* The reader has taken the rows; the stream goes back to its signal.
Emitted(f) ==
  /\ follower[f].phase = "emitting"
  /\ follower' = [follower EXCEPT ![f].phase = "live"]
  /\ UNCHANGED <<store, publisher, replayer>>

TakeWake(f) ==
  /\ follower[f].phase = "live" /\ follower[f].dirty
  /\ follower' = [follower EXCEPT ![f].phase = "reading", ![f].dirty = FALSE]
  /\ UNCHANGED <<store, publisher, replayer>>

CloseTail(f) ==
  /\ follower[f].phase # "closed"
  /\ follower' = [follower EXCEPT ![f] = Closed]
  /\ UNCHANGED <<store, publisher, replayer>>

\* The process ends.  The database keeps what was committed.
Crash ==
  /\ publisher' = [p \in Publisher |-> IdlePublisher]
  /\ replayer' = [r \in Replayer |-> IdleReplayer]
  /\ follower' = [f \in Follower |-> Closed]
  /\ UNCHANGED store

------------------------------------------------------------------------------

PublisherStep(p) == BeginPublish(p) \/ Stage(p) \/ RollBack(p) \/ Commit(p) \/ WakeTails(p)

ReplayerStep(r) ==
  \/ \E w \in [id : EventId, agg : Aggregate, seq : 0 .. MaxSeq, data : Data],
        o \in Owner \union {NoOwner}, strict \in BOOLEAN :
       ReplayExact(r, w, o, strict) \/ ReplayFenced(r, w, o, strict) \/ ReplayAppend(r, w, o, strict)
  \/ ReplayDies(r) \/ ReplayWake(r)

FollowerStep(f) == OpenTail(f) \/ Read(f) \/ Emitted(f) \/ TakeWake(f) \/ CloseTail(f)

Next ==
  \/ \E p \in Publisher : PublisherStep(p)
  \/ \E r \in Replayer : ReplayerStep(r)
  \/ \E f \in Follower : FollowerStep(f)
  \/ \E a \in Aggregate : Remove(a) \/ \E o \in Owner : Claim(a, o)
  \/ Crash

Spec == Init /\ [][Next]_vars

\* Fibers that can run do run: a transaction ends, the wakes after a commit
\* are published, and a tail that is being consumed takes its signal and reads.
Fairness ==
  /\ \A p \in Publisher : WF_vars(Stage(p) \/ RollBack(p) \/ Commit(p) \/ WakeTails(p))
  /\ \A r \in Replayer : WF_vars(ReplayWake(r))
  /\ \A f \in Follower : SF_vars(Read(f)) /\ WF_vars(Emitted(f) \/ TakeWake(f))

FairSpec == Spec /\ Fairness

------------------------------------------------------------------------------
(* Correctness.                                                            *)

TypeOK ==
  /\ seq \in [Aggregate -> -1 .. MaxSeq]
  /\ owner \in [Aggregate -> Owner \union {NoOwner}]
  /\ events \subseteq Row
  /\ publisher \in [Publisher -> PublisherType]
  /\ \A p \in Publisher : publisher[p].phase = "wake" => publisher[p].staged # <<>>
  /\ replayer \in [Replayer -> ReplayerType]
  /\ follower \in [Follower -> FollowerType]

\* `rows` hold, for every aggregate, exactly the sequences 0 .. last[a], one
\* event each, and no event id twice.
IsLog(rows, last) ==
  /\ \A a \in Aggregate : {e.seq : e \in {d \in rows : d.agg = a}} = 0 .. last[a]
  /\ \A d, e \in rows : (d.agg = e.agg /\ d.seq = e.seq) \/ d.id = e.id => d = e

\* The stored history of every aggregate has neither gaps nor duplicates and
\* ends at its event_sequence row, whoever appended: local publishers, batches
\* and replays in any interleaving with removals and crashes.
Contiguous == IsLog(events, seq)

\* Stored history is immutable: a row disappears only with its aggregate.
AppendOnly ==
  [][events \subseteq events' \/ \E a \in Aggregate : Remove(a)]_vars

\* A replay never writes into an aggregate that another owner holds, and an
\* owner is replaced only by claim or by removing the aggregate.
OwnerFence ==
  [][/\ \A r \in Replayer : replayer[r] # replayer'[r] /\ events # events'
            => ~Foreign(replayer'[r].owner, replayer'[r].agg)
     /\ \A a \in Aggregate : owner[a] # NoOwner /\ owner'[a] # owner[a]
            => Remove(a) \/ \E o \in Owner : Claim(a, o)]_vars

\* A batch becomes visible whole, with one commit, or not at all.
AllOrNothing ==
  [][\A p \in Publisher :
       publisher[p].phase = "tx" /\ events' # events
         => /\ publisher[p].left = 0
            /\ events' \ events = Elements(publisher[p].staged)]_vars

\* What a durable stream emits starts after the caller's cursor and has neither
\* gaps nor repetitions, whatever wakes coalesced or arrived twice.
EmitsInOrder ==
  \A f \in Follower : \A i \in DOMAIN follower[f].seen :
    follower[f].seen[i] = follower[f].start + i - 1

\* The events of aggregate a in the order of their sequences.
History(a) ==
  [i \in 1 .. seq[a] + 1 |->
     LET row == CHOOSE e \in events : e.agg = a /\ e.seq = i - 1
     IN  [id |-> row.id, data |-> row.data]]

Log == INSTANCE DurableLog WITH log <- [a \in Aggregate |-> History(a)]

\* The tables, transactions and replays implement the abstract log: publishing
\* and replaying only extend histories, with unused ids, a batch at once and a
\* replay by its owner, and nothing else but removal changes them.
ImplementsLog == Log!Spec

\* Every committed event reaches every open tail of its aggregate, unless the
\* tail is closed (by its reader or by a crash) or the history is removed.
TailCatchesUp ==
  \A f \in Follower, a \in Aggregate, s \in 0 .. MaxSeq :
    (follower[f].phase # "closed" /\ follower[f].agg = a /\ seq[a] >= s)
      ~> (\/ follower[f].phase = "closed" \/ follower[f].agg # a
          \/ seq[a] < s \/ follower[f].cursor >= s)

=============================================================================
