--------------------------- MODULE EventLog_proofs ---------------------------
(***************************************************************************)
(* Proofs about EventLog, for any sets of aggregates, ids, owners and      *)
(* processes and any bounds: types, the contiguous log, what a durable     *)
(* stream emits, and the action properties of the store.                   *)
(***************************************************************************)
EXTENDS EventLog, FiniteSetTheorems, TLAPS

------------------------------------------------------------------------------
(* What appending and removing do to a log.                                *)

\* Appending the next sequence of one aggregate with a fresh id keeps a log.
LEMMA AppendRow ==
  ASSUME NEW rows \in SUBSET Row, NEW last \in [Aggregate -> -1 .. MaxSeq],
         IsLog(rows, last),
         NEW w \in Row, w.seq = last[w.agg] + 1, w.id \notin IdsOf(rows)
  PROVE  IsLog(rows \union {w}, [last EXCEPT ![w.agg] = w.seq])
  <1> DEFINE Of(R, a) == {e.seq : e \in {d \in R : d.agg = a}}
             new == [last EXCEPT ![w.agg] = w.seq]
  <1>1. w.agg \in Aggregate /\ w.seq \in Nat /\ MaxSeq \in Nat
    BY EventLogAssumption DEF Row
  <1>2. ASSUME NEW a \in Aggregate PROVE Of(rows \union {w}, a) = 0 .. new[a]
    <2>1. Of(rows, a) = 0 .. last[a] /\ last[a] \in Int
      BY <1>1 DEF IsLog
    <2>2. CASE a = w.agg
      <3>1. Of(rows \union {w}, a) = Of(rows, a) \union {w.seq}
        BY <2>2
      <3>2. (0 .. last[a]) \union {w.seq} = 0 .. w.seq
        BY <2>1, <2>2, <1>1
      <3> QED
        BY <3>1, <3>2, <2>1, <2>2
    <2>3. CASE a # w.agg
      <3>1. Of(rows \union {w}, a) = Of(rows, a)
        BY <2>3
      <3> QED
        BY <3>1, <2>1, <2>3
    <2> QED
      BY <2>2, <2>3
  <1>3. ASSUME NEW d \in rows \union {w}, NEW e \in rows \union {w},
               (d.agg = e.agg /\ d.seq = e.seq) \/ d.id = e.id
        PROVE  d = e
    <2>1. \A r \in rows : r.id # w.id
      BY DEF IdsOf
    <2>2. \A r \in rows : ~(r.agg = w.agg /\ r.seq = w.seq)
      <3> SUFFICES ASSUME NEW r \in rows, r.agg = w.agg, r.seq = w.seq PROVE FALSE
        OBVIOUS
      <3>1. r.seq \in Of(rows, w.agg)
        OBVIOUS
      <3>2. Of(rows, w.agg) = 0 .. last[w.agg] /\ last[w.agg] \in Int
        BY <1>1 DEF IsLog
      <3> QED
        BY <3>1, <3>2, <1>1
    <2>3. CASE d \in rows /\ e \in rows
      BY <2>3, <1>3 DEF IsLog
    <2> QED
      BY <2>1, <2>2, <2>3, <1>3
  <1> QED
    BY <1>2, <1>3 DEF IsLog

\* Removing every row of one aggregate keeps a log.
LEMMA RemoveRows ==
  ASSUME NEW rows \in SUBSET Row, NEW last \in [Aggregate -> -1 .. MaxSeq],
         IsLog(rows, last), NEW a \in Aggregate
  PROVE  IsLog({e \in rows : e.agg # a}, [last EXCEPT ![a] = -1])
  <1> DEFINE kept == {e \in rows : e.agg # a}
             Of(R, b) == {e.seq : e \in {d \in R : d.agg = b}}
  <1>1. ASSUME NEW b \in Aggregate
        PROVE  Of(kept, b) = 0 .. [last EXCEPT ![a] = -1][b]
    <2>1. CASE b = a
      <3>1. Of(kept, b) = {}
        BY <2>1
      <3>2. 0 .. -1 = {}
        OBVIOUS
      <3> QED
        BY <3>1, <3>2, <2>1
    <2>2. CASE b # a
      <3>1. Of(kept, b) = Of(rows, b)
        BY <2>2
      <3> QED
        BY <3>1, <2>2 DEF IsLog
    <2> QED
      BY <2>1, <2>2
  <1>2. \A d, e \in kept : (d.agg = e.agg /\ d.seq = e.seq) \/ d.id = e.id => d = e
    BY DEF IsLog
  <1> QED
    BY <1>1, <1>2 DEF IsLog

\* The elements of a sequence extended by one.
LEMMA ElementsAppend ==
  ASSUME NEW S, NEW s \in Seq(S), NEW x \in S
  PROVE  Elements(Append(s, x)) = Elements(s) \union {x}
  <1>1. DOMAIN Append(s, x) = 1 .. Len(s) + 1 /\ DOMAIN s = 1 .. Len(s) /\ Len(s) \in Nat
    OBVIOUS
  <1>2. \A i \in 1 .. Len(s) : Append(s, x)[i] = s[i]
    OBVIOUS
  <1>3. Append(s, x)[Len(s) + 1] = x
    OBVIOUS
  <1>4. 1 .. Len(s) + 1 = (1 .. Len(s)) \union {Len(s) + 1}
    BY <1>1
  <1> QED
    BY <1>1, <1>2, <1>3, <1>4 DEF Elements

LEMMA ElementsOfRows ==
  ASSUME NEW s \in Seq(Row)
  PROVE  Elements(s) \in SUBSET Row
  BY DEF Elements

------------------------------------------------------------------------------
(* What readAfter returns from a log.                                      *)

\* An interval in ascending order is that interval, counted from its start.
LEMMA AscendingInterval ==
  ASSUME NEW c \in Int, NEW m \in Int
  PROVE  /\ Ascending((c + 1) .. m) = [i \in 1 .. IF m > c THEN m - c ELSE 0 |-> c + i]
  <1> DEFINE S == (c + 1) .. m
  <1>1. Cardinality(S) = IF m > c THEN m - c ELSE 0
    <2>1. c + 1 \in Int
      OBVIOUS
    <2>2. Cardinality(S) = IF c + 1 > m THEN 0 ELSE m - (c + 1) + 1
      BY <2>1, FS_Interval
    <2> QED
      BY <2>2
  <1>2. ASSUME NEW i \in 1 .. Cardinality(S)
        PROVE  (CHOOSE x \in S : Cardinality({y \in S : y <= x}) = i) = c + i
    <2>1. ASSUME NEW x \in S PROVE Cardinality({y \in S : y <= x}) = x - c
      <3>1. {y \in S : y <= x} = (c + 1) .. x
        OBVIOUS
      <3>2. c + 1 \in Int /\ x \in Int /\ x >= c + 1
        OBVIOUS
      <3>3. Cardinality((c + 1) .. x) = IF c + 1 > x THEN 0 ELSE x - (c + 1) + 1
        BY <3>2, FS_Interval
      <3>4. Cardinality({y \in S : y <= x}) = Cardinality((c + 1) .. x)
        BY <3>1
      <3>5. Cardinality((c + 1) .. x) = x - c
        BY <3>2, <3>3
      <3> QED
        BY <3>4, <3>5
    <2> DEFINE Ranked(x) == Cardinality({y \in S : y <= x}) = i
    <2>2. i \in Int /\ c + i \in S
      BY <1>1
    <2>3. ASSUME NEW x \in S PROVE Ranked(x) <=> x = c + i
      <3>1. x \in Int /\ Cardinality({y \in S : y <= x}) = x - c
        BY <2>1
      <3> QED
        BY <3>1, <2>2
    <2> HIDE DEF S, Ranked
    <2>4. (CHOOSE x \in S : Ranked(x)) = c + i
      BY <2>2, <2>3
    <2> QED
      BY <2>4 DEF Ranked
  <1>3. Ascending(S) = [i \in 1 .. Cardinality(S) |-> c + i]
    BY <1>2, Zenon DEF Ascending
  <1> QED
    BY <1>1, <1>3, Zenon

\* The rows past a cursor are the following sequences, up to the last one.
LEMMA ReadsNext ==
  ASSUME TypeOK, Contiguous, NEW f \in Follower
  PROVE  LET c == follower[f].cursor
             m == seq[follower[f].agg]
         IN  ReadAfter(f) = [i \in 1 .. IF m > c THEN m - c ELSE 0 |-> c + i]
  <1> DEFINE a == follower[f].agg
             c == follower[f].cursor
             m == seq[a]
  <1>1. a \in Aggregate /\ c \in Nat \union {-1}
    BY DEF TypeOK, FollowerType
  <1>2. m \in Int
    BY <1>1, EventLogAssumption DEF TypeOK
  <1>3. {e.seq : e \in {d \in events : d.agg = a}} = 0 .. m
    BY <1>1 DEF Contiguous, IsLog
  <1>4. {e.seq : e \in {d \in events : d.agg = a /\ d.seq > c}}
          = {n \in {e.seq : e \in {d \in events : d.agg = a}} : n > c}
    OBVIOUS
  <1>5. {n \in 0 .. m : n > c} = (c + 1) .. m
    BY <1>1, <1>2
  <1>6. ReadAfter(f) = Ascending((c + 1) .. m)
    BY <1>3, <1>4, <1>5 DEF ReadAfter
  <1>7. c \in Int
    BY <1>1
  <1>8. Ascending((c + 1) .. m) = [i \in 1 .. IF m > c THEN m - c ELSE 0 |-> c + i]
    BY <1>2, <1>7, AscendingInterval
  <1> QED
    BY <1>6, <1>8

------------------------------------------------------------------------------
(* The inductive invariant.                                                *)

\* At most one transaction is open; the rows it has staged extend the stored
\* log to the log that its own view of event_sequence describes.
OneTransaction ==
  \A p \in Publisher : publisher[p].phase = "tx" =>
    /\ \A q \in Publisher : publisher[q].phase = "tx" => q = p
    /\ publisher[p].left + Len(publisher[p].staged) > 0
    /\ IsLog(events \union Elements(publisher[p].staged), publisher[p].view)
    /\ events \intersect Elements(publisher[p].staged) = {}

\* A tail's cursor is the last sequence it has read.
CursorAtEnd ==
  \A f \in Follower :
    follower[f].cursor = follower[f].start + Len(follower[f].seen) - 1

IInv == TypeOK /\ Contiguous /\ OneTransaction /\ CursorAtEnd /\ EmitsInOrder

LEMMA IdleTypes ==
  /\ IdlePublisher \in PublisherType
  /\ IdleReplayer \in ReplayerType
  /\ Closed \in FollowerType
  <1>1. -1 \in -1 .. MaxSeq
    BY EventLogAssumption
  <1>2. IdlePublisher \in PublisherType
    BY <1>1 DEF IdlePublisher, PublisherType
  <1>3. (CHOOSE a \in Aggregate : TRUE) \in Aggregate
    BY EventLogAssumption
  <1> QED
    BY <1>2, <1>3 DEF IdleReplayer, ReplayerType, Closed, FollowerType

\* Waking tails changes their signals only.
LEMMA SignalledTails ==
  ASSUME TypeOK, NEW a \in Aggregate, follower' = Signalled(a)
  PROVE  /\ follower' \in [Follower -> FollowerType]
         /\ \A f \in Follower : /\ follower'[f].start = follower[f].start
                                /\ follower'[f].cursor = follower[f].cursor
                                /\ follower'[f].seen = follower[f].seen
  <1> SUFFICES ASSUME NEW f \in Follower
               PROVE  /\ follower'[f] \in FollowerType
                      /\ follower'[f].start = follower[f].start
                      /\ follower'[f].cursor = follower[f].cursor
                      /\ follower'[f].seen = follower[f].seen
    BY DEF Signalled
  <1>1. follower[f] \in FollowerType
    BY DEF TypeOK
  <1>2. follower'[f] = follower[f] \/ follower'[f] = [follower[f] EXCEPT !.dirty = TRUE]
    BY DEF Signalled
  <1> QED
    BY <1>1, <1>2 DEF FollowerType

LEMMA SameTails ==
  ASSUME CursorAtEnd, EmitsInOrder,
         \A f \in Follower : /\ follower'[f].start = follower[f].start
                             /\ follower'[f].cursor = follower[f].cursor
                             /\ follower'[f].seen = follower[f].seen
  PROVE  CursorAtEnd' /\ EmitsInOrder'
  BY DEF CursorAtEnd, EmitsInOrder

\* A replayer goes on with a replay of its own arguments or becomes idle.
LEMMA ContinueType ==
  ASSUME TypeOK, NEW r \in Replayer, NEW w, w.agg \in Aggregate,
         NEW o \in Owner \union {NoOwner}, NEW strict \in BOOLEAN,
         Continue(r, w, o, strict)
  PROVE  replayer' \in [Replayer -> ReplayerType]
  <1>1. PICK s \in ({w.seq + 1} \intersect 0 .. MaxSeq) \union {0} :
          replayer' = [replayer EXCEPT ![r] =
            IF s = 0 THEN IdleReplayer
            ELSE [phase |-> "next", agg |-> w.agg, seq |-> s, owner |-> o, strict |-> strict]]
    BY DEF Continue
  <1>2. s \in Nat
    BY <1>1, EventLogAssumption
  <1>3. [phase |-> "next", agg |-> w.agg, seq |-> s, owner |-> o, strict |-> strict]
          \in ReplayerType
    BY <1>2 DEF ReplayerType
  <1> QED
    BY <1>1, <1>3, IdleTypes DEF TypeOK

\* With no transaction open and no publisher moving, none is open afterwards.
LEMMA NoTransaction ==
  ASSUME DatabaseFree, UNCHANGED publisher
  PROVE  OneTransaction'
  BY DEF DatabaseFree, OneTransaction

LEMMA InitInv ==
  ASSUME Init
  PROVE  IInv
  <1>1. TypeOK
    <2>1. -1 \in -1 .. MaxSeq
      BY EventLogAssumption
    <2>2. \A p \in Publisher : publisher[p].phase = "idle"
      BY DEF Init, IdlePublisher
    <2> QED
      BY <2>1, <2>2, IdleTypes DEF Init, TypeOK
  <1>2. Contiguous
    <2>1. 0 .. -1 = {}
      OBVIOUS
    <2> QED
      BY <2>1 DEF Init, Contiguous, IsLog
  <1>3. OneTransaction
    BY DEF Init, OneTransaction, IdlePublisher
  <1>4. CursorAtEnd /\ EmitsInOrder
    BY DEF Init, CursorAtEnd, EmitsInOrder, Closed
  <1> QED
    BY <1>1, <1>2, <1>3, <1>4 DEF IInv

------------------------------------------------------------------------------
(* Publishing keeps the invariant.                                         *)

LEMMA BeginPublishInv ==
  ASSUME IInv, NEW p \in Publisher, BeginPublish(p)
  PROVE  IInv'
  <1> USE DEF IInv
  <1>1. PICK n \in 1 .. BatchSize :
          publisher' = [publisher EXCEPT ![p] =
            [phase |-> "tx", left |-> n, staged |-> <<>>, view |-> seq]]
    BY DEF BeginPublish
  <1>2. n \in Nat /\ n > 0
    BY <1>1, EventLogAssumption
  <1> DEFINE new == [phase |-> "tx", left |-> n, staged |-> <<>>, view |-> seq]
  <1>3. /\ new \in PublisherType /\ new.phase = "tx"
        /\ new.left = n /\ new.staged = <<>> /\ new.view = seq
    BY <1>2 DEF PublisherType, TypeOK
  <1> HIDE DEF new
  <1>4. TypeOK'
    BY <1>1, <1>3 DEF BeginPublish, TypeOK, store, new
  <1>5. OneTransaction'
    <2>1. \A q \in Publisher : publisher'[q].phase = "tx" => q = p
      BY <1>1 DEF BeginPublish, DatabaseFree, TypeOK
    <2>2. publisher'[p] = new
      BY <1>1 DEF TypeOK, new
    <2>3. new.left + Len(new.staged) > 0
      <3>1. Len(<<>>) = 0
        OBVIOUS
      <3> QED
        BY <1>2, <1>3, <3>1
    <2>4. events \union Elements(new.staged) = events
      <3>1. Elements(<<>>) = {}
        BY DEF Elements
      <3> QED
        BY <1>3, <3>1
    <2>5. /\ IsLog(events \union Elements(new.staged), new.view)
          /\ events \intersect Elements(new.staged) = {}
      <3>1. Elements(<<>>) = {}
        BY DEF Elements
      <3> QED
        BY <1>3, <2>4, <3>1 DEF Contiguous
    <2>6. events' = events
      BY DEF BeginPublish, store
    <2> QED
      BY <2>1, <2>2, <2>3, <2>5, <2>6 DEF OneTransaction
  <1> QED
    BY <1>4, <1>5 DEF BeginPublish, store, Contiguous, CursorAtEnd, EmitsInOrder

LEMMA StageInv ==
  ASSUME IInv, NEW p \in Publisher, Stage(p)
  PROVE  IInv'
  <1> USE DEF IInv
  <1>1. PICK id \in EventId, a \in Aggregate, d \in Data :
          /\ publisher[p].view[a] + 1 <= MaxSeq
          /\ id \notin IdsOf(events \union Elements(publisher[p].staged))
          /\ publisher' = [publisher EXCEPT ![p] =
               [phase |-> "tx", left |-> publisher[p].left - 1,
                staged |-> Append(publisher[p].staged,
                                  [id |-> id, agg |-> a,
                                   seq |-> publisher[p].view[a] + 1, data |-> d]),
                view |-> [publisher[p].view EXCEPT ![a] = publisher[p].view[a] + 1]]]
    BY DEF Stage
  <1> DEFINE staged == publisher[p].staged
             view == publisher[p].view
             row == [id |-> id, agg |-> a, seq |-> view[a] + 1, data |-> d]
             new == [phase |-> "tx", left |-> publisher[p].left - 1,
                     staged |-> Append(staged, row), view |-> [view EXCEPT ![a] = row.seq]]
  <1>2. /\ publisher[p] \in PublisherType /\ publisher[p].phase = "tx"
        /\ publisher[p].left > 0
    BY DEF Stage, TypeOK
  <1>3. staged \in Seq(Row) /\ view \in [Aggregate -> -1 .. MaxSeq] /\ publisher[p].left \in Nat
    BY <1>2 DEF PublisherType
  <1>4. row \in Row /\ row.seq = view[a] + 1 /\ row.agg = a /\ row.id = id
    BY <1>3, EventLogAssumption DEF Row
  <1>5. publisher' = [publisher EXCEPT ![p] = new]
    BY <1>1, <1>2 DEF PublisherType, TypeOK
  <1>6. row.seq \in -1 .. MaxSeq
    BY <1>1, <1>3, <1>4, EventLogAssumption
  <1>7. [view EXCEPT ![a] = row.seq] \in [Aggregate -> -1 .. MaxSeq]
    BY <1>3, <1>6
  <1>8. Append(staged, row) \in Seq(Row) /\ Len(Append(staged, row)) > 0
    BY <1>3, <1>4
  <1>9. /\ new \in PublisherType /\ new.phase = "tx"
        /\ new.left = publisher[p].left - 1 /\ new.left \in Nat
        /\ new.staged = Append(staged, row) /\ new.view = [view EXCEPT ![a] = row.seq]
    BY <1>2, <1>3, <1>7, <1>8 DEF PublisherType
  <1> HIDE DEF new
  <1>10. TypeOK'
    BY <1>5, <1>9 DEF Stage, TypeOK, store
  <1>11. OneTransaction'
    <2>1. \A q \in Publisher : publisher'[q].phase = "tx" => q = p
      BY <1>2, <1>5 DEF OneTransaction, TypeOK
    <2>2. publisher'[p] = new
      BY <1>5 DEF TypeOK
    <2>3. new.left + Len(new.staged) > 0
      BY <1>8, <1>9
    <2>4. IsLog(events \union Elements(staged), view)
      BY <1>2 DEF OneTransaction
    <2>5. events \union Elements(staged) \in SUBSET Row
      BY <1>3, ElementsOfRows DEF TypeOK
    <2>6. IsLog((events \union Elements(staged)) \union {row}, [view EXCEPT ![row.agg] = row.seq])
      BY <1>1, <1>3, <1>4, <2>4, <2>5, AppendRow
    <2>7. Elements(Append(staged, row)) = Elements(staged) \union {row}
      BY <1>3, <1>4, ElementsAppend
    <2>8. (events \union Elements(staged)) \union {row} = events \union Elements(new.staged)
      BY <1>9, <2>7
    <2>9. IsLog(events \union Elements(new.staged), new.view)
      BY <1>4, <1>9, <2>6, <2>8
    <2>10. events \intersect Elements(new.staged) = {}
      <3>1. row \notin events
        BY <1>1, <1>4 DEF IdsOf
      <3>2. events \intersect Elements(staged) = {}
        BY <1>2 DEF OneTransaction
      <3> QED
        BY <1>9, <2>7, <3>1, <3>2
    <2>11. events' = events
      BY DEF Stage, store
    <2> QED
      BY <2>1, <2>2, <2>3, <2>9, <2>10, <2>11, <1>9 DEF OneTransaction
  <1> QED
    BY <1>10, <1>11 DEF Stage, store, Contiguous, CursorAtEnd, EmitsInOrder

LEMMA RollBackInv ==
  ASSUME IInv, NEW p \in Publisher, RollBack(p)
  PROVE  IInv'
  <1> USE DEF IInv
  <1>1. publisher' = [publisher EXCEPT ![p] = IdlePublisher] /\ publisher[p].phase = "tx"
    BY DEF RollBack
  <1>2. \A q \in Publisher : publisher'[q].phase # "tx"
    BY <1>1 DEF OneTransaction, TypeOK, IdlePublisher
  <1>3. TypeOK'
    BY <1>1, IdleTypes DEF RollBack, TypeOK, store, IdlePublisher
  <1> QED
    BY <1>2, <1>3 DEF RollBack, store, OneTransaction, Contiguous, CursorAtEnd, EmitsInOrder

LEMMA CommitInv ==
  ASSUME IInv, NEW p \in Publisher, Commit(p)
  PROVE  IInv'
  <1> USE DEF IInv
  <1> DEFINE new == [IdlePublisher EXCEPT !.phase = "wake", !.staged = publisher[p].staged]
  <1>1. /\ publisher[p].phase = "tx" /\ publisher[p].left = 0
        /\ events' = events \union Elements(publisher[p].staged)
        /\ seq' = publisher[p].view
        /\ publisher' = [publisher EXCEPT ![p] = new]
        /\ UNCHANGED <<owner, replayer, follower>>
    BY DEF Commit
  <1>2. publisher[p] \in PublisherType
    BY DEF TypeOK
  <1>3. publisher[p].staged \in Seq(Row) /\ publisher[p].view \in [Aggregate -> -1 .. MaxSeq]
    BY <1>2 DEF PublisherType
  <1>4. new \in PublisherType /\ new.phase = "wake" /\ new.staged = publisher[p].staged
    BY <1>3, IdleTypes DEF PublisherType, IdlePublisher
  <1>5. publisher[p].staged # <<>>
    <2>1. Len(publisher[p].staged) > 0
      <3>1. publisher[p].left + Len(publisher[p].staged) > 0
        BY <1>1 DEF OneTransaction
      <3> QED
        BY <1>1, <1>3, <3>1
    <2> QED
      BY <2>1
  <1> HIDE DEF new
  <1>6. TypeOK'
    BY <1>1, <1>3, <1>4, <1>5, ElementsOfRows DEF TypeOK
  <1>7. Contiguous'
    BY <1>1 DEF Contiguous, OneTransaction
  <1>8. OneTransaction'
    BY <1>1, <1>4 DEF OneTransaction, TypeOK
  <1> QED
    BY <1>1, <1>6, <1>7, <1>8 DEF CursorAtEnd, EmitsInOrder

LEMMA WakeTailsInv ==
  ASSUME IInv, NEW p \in Publisher, WakeTails(p)
  PROVE  IInv'
  <1> USE DEF IInv
  <1> DEFINE st == publisher[p].staged
             new == IF Len(st) = 1 THEN IdlePublisher
                    ELSE [IdlePublisher EXCEPT !.phase = "wake", !.staged = Tail(st)]
  <1>1. /\ publisher[p].phase = "wake"
        /\ follower' = Signalled(Head(st).agg)
        /\ publisher' = [publisher EXCEPT ![p] = new]
        /\ UNCHANGED <<store, replayer>>
    BY DEF WakeTails
  <1>2. publisher[p] \in PublisherType /\ st \in Seq(Row) /\ st # <<>>
    BY <1>1 DEF TypeOK, PublisherType
  <1>3. Head(st).agg \in Aggregate
    <2>1. Head(st) \in Row
      BY <1>2
    <2> QED
      BY <2>1 DEF Row
  <1>4. Tail(st) \in Seq(Row) /\ (Len(st) # 1 => Tail(st) # <<>>)
    <2>1. Tail(st) \in Seq(Row) /\ Len(Tail(st)) = Len(st) - 1 /\ Len(st) \in Nat
      BY <1>2
    <2>2. ASSUME Tail(st) = <<>> PROVE Len(st) = 1
      <3>1. Len(Tail(st)) = Len(<<>>)
        BY <2>2, Zenon
      <3>2. Len(<<>>) = 0
        OBVIOUS
      <3>3. Len(st) - 1 = 0
        BY <2>1, <3>1, <3>2, Zenon
      <3> QED
        BY <2>1, <3>3
    <2> QED
      BY <2>1, <2>2, Zenon
  <1>5. /\ new \in PublisherType /\ new.phase # "tx"
        /\ new.phase = "wake" => new.staged # <<>>
    <2>1. CASE Len(st) = 1
      BY <2>1, IdleTypes DEF IdlePublisher
    <2>2. CASE Len(st) # 1
      BY <2>2, <1>4, IdleTypes DEF PublisherType, IdlePublisher
    <2> QED
      BY <2>1, <2>2
  <1> HIDE DEF new
  <1>6. TypeOK'
    BY <1>1, <1>3, <1>5, SignalledTails DEF TypeOK, store
  <1>7. OneTransaction'
    BY <1>1, <1>5 DEF OneTransaction, TypeOK, store
  <1>8. CursorAtEnd' /\ EmitsInOrder'
    BY <1>1, <1>3, SignalledTails, SameTails
  <1> QED
    BY <1>1, <1>6, <1>7, <1>8 DEF store, Contiguous

------------------------------------------------------------------------------
(* Replays, ownership and removal keep the invariant.                      *)

LEMMA AdoptedType ==
  ASSUME TypeOK, NEW a \in Aggregate, NEW o \in Owner \union {NoOwner}
  PROVE  Adopted(o, a) \in [Aggregate -> Owner \union {NoOwner}]
  BY DEF Adopted, TypeOK

\* An exact replay and a fenced one leave the log alone.
LEMMA ReplayNothingInv ==
  ASSUME IInv, NEW r \in Replayer,
         NEW w \in [id : EventId, agg : Aggregate, seq : 0 .. MaxSeq, data : Data],
         NEW o \in Owner \union {NoOwner}, NEW strict \in BOOLEAN,
         ReplayExact(r, w, o, strict) \/ ReplayFenced(r, w, o, strict)
  PROVE  IInv'
  <1> USE DEF IInv
  <1>1. DatabaseFree /\ Continue(r, w, o, strict) /\ UNCHANGED <<seq, events, publisher, follower>>
    BY DEF ReplayExact, ReplayFenced, Replaying, store
  <1>2. owner' = owner \/ owner' = Adopted(o, w.agg)
    BY DEF ReplayExact, ReplayFenced, store
  <1>3. w.agg \in Aggregate
    OBVIOUS
  <1>4. replayer' \in [Replayer -> ReplayerType]
    BY <1>1, <1>3, ContinueType
  <1>5. TypeOK'
    BY <1>1, <1>2, <1>3, <1>4, AdoptedType DEF TypeOK
  <1>6. OneTransaction'
    BY <1>1, NoTransaction
  <1> QED
    BY <1>1, <1>5, <1>6 DEF Contiguous, CursorAtEnd, EmitsInOrder

LEMMA ReplayAppendInv ==
  ASSUME IInv, NEW r \in Replayer,
         NEW w \in [id : EventId, agg : Aggregate, seq : 0 .. MaxSeq, data : Data],
         NEW o \in Owner \union {NoOwner}, NEW strict \in BOOLEAN,
         ReplayAppend(r, w, o, strict)
  PROVE  IInv'
  <1> USE DEF IInv
  <1> DEFINE new == [phase |-> "wake", agg |-> w.agg, seq |-> w.seq, owner |-> o, strict |-> strict]
  <1>1. /\ DatabaseFree
        /\ w.seq = seq[w.agg] + 1 /\ w.id \notin IdsOf(events)
        /\ events' = events \union {w}
        /\ seq' = [seq EXCEPT ![w.agg] = w.seq]
        /\ owner' = Adopted(o, w.agg)
        /\ replayer' = [replayer EXCEPT ![r] = new]
        /\ UNCHANGED <<publisher, follower>>
    BY DEF ReplayAppend, Replaying
  <1>2. w \in Row /\ w.agg \in Aggregate /\ w.seq \in -1 .. MaxSeq /\ w.seq \in Nat
    BY EventLogAssumption DEF Row
  <1>3. new \in ReplayerType
    BY <1>2 DEF ReplayerType
  <1>4. TypeOK'
    BY <1>1, <1>2, <1>3, AdoptedType DEF TypeOK
  <1>5. Contiguous'
    BY <1>1, <1>2, AppendRow DEF Contiguous, TypeOK
  <1>6. OneTransaction'
    BY <1>1, NoTransaction
  <1> QED
    BY <1>1, <1>4, <1>5, <1>6 DEF CursorAtEnd, EmitsInOrder

LEMMA ReplayDiesInv ==
  ASSUME IInv, NEW r \in Replayer, ReplayDies(r)
  PROVE  IInv'
  <1> USE DEF IInv
  <1>1. TypeOK'
    BY IdleTypes DEF ReplayDies, TypeOK, store
  <1> QED
    BY <1>1, NoTransaction DEF ReplayDies, store, Contiguous, CursorAtEnd, EmitsInOrder

LEMMA ReplayWakeInv ==
  ASSUME IInv, NEW r \in Replayer, ReplayWake(r)
  PROVE  IInv'
  <1> USE DEF IInv
  <1>1. replayer[r] \in ReplayerType
    BY DEF TypeOK
  <1>2. /\ replayer[r].agg \in Aggregate /\ replayer[r].owner \in Owner \union {NoOwner}
        /\ replayer[r].strict \in BOOLEAN
    BY <1>1 DEF ReplayerType
  <1>3. /\ follower' = Signalled(replayer[r].agg)
        /\ Continue(r, replayer[r], replayer[r].owner, replayer[r].strict)
        /\ UNCHANGED <<seq, owner, events, publisher>>
    BY DEF ReplayWake, store
  <1>4. replayer' \in [Replayer -> ReplayerType]
    BY <1>2, <1>3, ContinueType
  <1>5. TypeOK'
    BY <1>2, <1>3, <1>4, SignalledTails DEF TypeOK
  <1>6. CursorAtEnd' /\ EmitsInOrder'
    BY <1>2, <1>3, SignalledTails, SameTails
  <1>7. OneTransaction'
    BY <1>3 DEF OneTransaction
  <1> QED
    BY <1>3, <1>5, <1>6, <1>7 DEF Contiguous

LEMMA ClaimInv ==
  ASSUME IInv, NEW a \in Aggregate, NEW o \in Owner, Claim(a, o)
  PROVE  IInv'
  <1> USE DEF IInv
  <1>1. TypeOK'
    BY DEF Claim, TypeOK
  <1> QED
    BY <1>1, NoTransaction DEF Claim, Contiguous, CursorAtEnd, EmitsInOrder

LEMMA RemoveInv ==
  ASSUME IInv, NEW a \in Aggregate, Remove(a)
  PROVE  IInv'
  <1> USE DEF IInv
  <1>1. -1 \in -1 .. MaxSeq
    BY EventLogAssumption
  <1>2. TypeOK'
    BY <1>1 DEF Remove, TypeOK
  <1>3. Contiguous'
    BY RemoveRows DEF Remove, Contiguous, TypeOK
  <1> QED
    BY <1>2, <1>3, NoTransaction DEF Remove, CursorAtEnd, EmitsInOrder

LEMMA CrashInv ==
  ASSUME IInv, Crash
  PROVE  IInv'
  <1> USE DEF IInv
  <1>1. \A p \in Publisher : publisher'[p].phase = "idle"
    BY DEF Crash, IdlePublisher
  <1>2. TypeOK'
    BY <1>1, IdleTypes DEF Crash, TypeOK, store
  <1>3. OneTransaction'
    BY <1>1 DEF OneTransaction
  <1>4. CursorAtEnd' /\ EmitsInOrder'
    BY DEF Crash, Closed, CursorAtEnd, EmitsInOrder
  <1> QED
    BY <1>2, <1>3, <1>4 DEF Crash, store, Contiguous

------------------------------------------------------------------------------
(* Durable tails keep the invariant.                                       *)

LEMMA OpenTailInv ==
  ASSUME IInv, NEW f \in Follower, OpenTail(f)
  PROVE  IInv'
  <1> USE DEF IInv
  <1>1. PICK a \in Aggregate, s \in 0 .. MaxSeq :
          follower' = [follower EXCEPT ![f] =
            [phase |-> "history", agg |-> a, start |-> s, cursor |-> s - 1, dirty |-> FALSE,
             seen |-> <<>>]]
    BY DEF OpenTail
  <1> DEFINE new == [phase |-> "history", agg |-> a, start |-> s, cursor |-> s - 1,
                     dirty |-> FALSE, seen |-> <<>>]
  <1>2. s \in Nat /\ s - 1 \in Nat \union {-1}
    BY <1>1, EventLogAssumption
  <1>3. new \in FollowerType /\ new.seen = <<>> /\ new.start = s /\ new.cursor = s - 1
    BY <1>2 DEF FollowerType
  <1>4. new.cursor = new.start + Len(new.seen) - 1 /\ DOMAIN new.seen = {}
    <2>1. Len(<<>>) = 0 /\ DOMAIN <<>> = {}
      OBVIOUS
    <2> QED
      BY <1>2, <1>3, <2>1
  <1> HIDE DEF new
  <1>5. follower' = [follower EXCEPT ![f] = new]
    BY <1>1 DEF new
  <1>6. TypeOK'
    BY <1>3, <1>5 DEF OpenTail, TypeOK, store
  <1>7. CursorAtEnd' /\ EmitsInOrder'
    BY <1>4, <1>5 DEF CursorAtEnd, EmitsInOrder, TypeOK
  <1> QED
    BY <1>6, <1>7 DEF OpenTail, store, Contiguous, OneTransaction

\* Reading extends what the tail has seen by the sequences that follow it.
LEMMA ReadInv ==
  ASSUME IInv, NEW f \in Follower, Read(f)
  PROVE  IInv'
  <1> USE DEF IInv
  <1> DEFINE c == follower[f].cursor
             m == seq[follower[f].agg]
             k == IF m > c THEN m - c ELSE 0
             rows == ReadAfter(f)
             seen == follower[f].seen
             new == [follower[f] EXCEPT !.phase = "emitting", !.seen = seen \o rows,
                                        !.cursor = IF rows = <<>> THEN c ELSE rows[Len(rows)]]
  <1>1. /\ follower' = [follower EXCEPT ![f] = new]
        /\ UNCHANGED <<store, publisher, replayer>>
    BY DEF Read, TypeOK, FollowerType
  <1>2. /\ follower[f] \in FollowerType /\ follower[f].agg \in Aggregate
        /\ c \in Nat \union {-1} /\ follower[f].start \in Nat /\ seen \in Seq(Nat)
    BY DEF TypeOK, FollowerType
  <1>3. m \in -1 .. MaxSeq /\ m \in Int
    BY <1>2, EventLogAssumption DEF TypeOK
  <1>4. rows = [i \in 1 .. k |-> c + i]
    BY ReadsNext
  <1>5. k \in Nat /\ c \in Int /\ (k > 0 => c + k = m)
    BY <1>2, <1>3
  <1> HIDE DEF c, k, m, rows, seen
  <1>6. rows \in Seq(Nat) /\ Len(rows) = k /\ \A i \in 1 .. k : rows[i] = c + i
    <2>1. \A i \in 1 .. k : c + i \in Nat
      BY <1>2, <1>5
    <2> QED
      BY <1>4, <1>5, <2>1
  <1>7. /\ seen \o rows \in Seq(Nat) /\ Len(seen \o rows) = Len(seen) + k
        /\ \A i \in 1 .. Len(seen) : (seen \o rows)[i] = seen[i]
        /\ \A i \in 1 .. k : (seen \o rows)[Len(seen) + i] = c + i
    BY <1>2, <1>5, <1>6
  <1>8. (IF rows = <<>> THEN c ELSE rows[Len(rows)]) = c + k
    <2>1. CASE k = 0
      <3>1. rows = <<>>
        BY <1>6, <2>1
      <3> QED
        BY <2>1, <3>1, <1>5
    <2>2. CASE k > 0
      <3>1. rows # <<>>
        <4>1. Len(<<>>) = 0
          OBVIOUS
        <4> QED
          BY <1>6, <2>2, <4>1
      <3>2. k \in 1 .. k
        BY <1>5, <2>2
      <3> QED
        BY <1>6, <3>1, <3>2
    <2> QED
      BY <1>5, <2>1, <2>2
  <1>9. c + k \in Nat \union {-1}
    BY <1>2, <1>5
  <1>10. /\ new \in FollowerType /\ new.start = follower[f].start
         /\ new.seen = seen \o rows /\ new.cursor = c + k
    BY <1>2, <1>7, <1>8, <1>9 DEF FollowerType
  <1> HIDE DEF new
  <1>11. /\ c = follower[f].start + Len(seen) - 1
         /\ \A i \in DOMAIN seen : seen[i] = follower[f].start + i - 1
    BY DEF CursorAtEnd, EmitsInOrder, c, seen
  <1>12. new.cursor = new.start + Len(new.seen) - 1
    BY <1>2, <1>5, <1>7, <1>10, <1>11
  <1>13. ASSUME NEW i \in DOMAIN new.seen PROVE new.seen[i] = new.start + i - 1
    <2>1. i \in 1 .. Len(seen) + k /\ Len(seen) \in Nat
      BY <1>2, <1>7, <1>10
    <2>2. CASE i \in 1 .. Len(seen)
      BY <2>2, <1>2, <1>7, <1>10, <1>11
    <2>3. CASE i > Len(seen)
      <3>1. i - Len(seen) \in 1 .. k
        BY <2>1, <2>3, <1>5
      <3>2. (seen \o rows)[Len(seen) + (i - Len(seen))] = c + (i - Len(seen))
        BY <3>1, <1>7
      <3>3. Len(seen) + (i - Len(seen)) = i
        BY <2>1
      <3>4. (seen \o rows)[i] = c + (i - Len(seen))
        BY <3>2, <3>3
      <3>5. c + (i - Len(seen)) = follower[f].start + i - 1
        <4>1. c = follower[f].start + Len(seen) - 1 /\ i \in Int /\ follower[f].start \in Nat
          BY <1>2, <1>11, <2>1
        <4> QED
          BY <4>1, <2>1
      <3> QED
        BY <3>4, <3>5, <1>10
    <2> QED
      BY <2>1, <2>2, <2>3
  <1>14. TypeOK'
    BY <1>1, <1>10 DEF TypeOK, store
  <1>15. CursorAtEnd' /\ EmitsInOrder'
    BY <1>1, <1>12, <1>13 DEF CursorAtEnd, EmitsInOrder, TypeOK
  <1> QED
    BY <1>1, <1>14, <1>15 DEF store, Contiguous, OneTransaction

LEMMA TailSignalInv ==
  ASSUME IInv, NEW f \in Follower, Emitted(f) \/ TakeWake(f) \/ CloseTail(f)
  PROVE  IInv'
  <1> USE DEF IInv
  <1>1. follower[f] \in FollowerType
    BY DEF TypeOK
  <1>2. UNCHANGED <<store, publisher, replayer>>
    BY DEF Emitted, TakeWake, CloseTail
  <1>3. CASE Emitted(f) \/ TakeWake(f)
    <2>1. /\ follower' \in [Follower -> FollowerType]
          /\ \A g \in Follower : /\ follower'[g].start = follower[g].start
                                 /\ follower'[g].cursor = follower[g].cursor
                                 /\ follower'[g].seen = follower[g].seen
      <3>1. PICK new \in FollowerType :
              /\ follower' = [follower EXCEPT ![f] = new]
              /\ new.start = follower[f].start /\ new.cursor = follower[f].cursor
              /\ new.seen = follower[f].seen
        <4>1. CASE Emitted(f)
          <5>1. [follower[f] EXCEPT !.phase = "live"] \in FollowerType
            BY <1>1 DEF FollowerType
          <5> QED
            BY <1>1, <4>1, <5>1 DEF Emitted, TypeOK, FollowerType
        <4>2. CASE TakeWake(f)
          <5>1. [follower[f] EXCEPT !.phase = "reading", !.dirty = FALSE] \in FollowerType
            BY <1>1 DEF FollowerType
          <5> QED
            BY <1>1, <4>2, <5>1 DEF TakeWake, TypeOK, FollowerType
        <4> QED
          BY <1>3, <4>1, <4>2
      <3> QED
        BY <3>1 DEF TypeOK
    <2>2. CursorAtEnd' /\ EmitsInOrder'
      BY <2>1, SameTails
    <2> QED
      BY <1>2, <2>1, <2>2 DEF store, TypeOK, Contiguous, OneTransaction
  <1>4. CASE CloseTail(f)
    <2>1. follower' = [follower EXCEPT ![f] = Closed]
      BY <1>4 DEF CloseTail
    <2>2. Closed \in FollowerType
      BY IdleTypes
    <2>3. Closed.cursor = Closed.start + Len(Closed.seen) - 1 /\ DOMAIN Closed.seen = {}
      BY DEF Closed
    <2>4. CursorAtEnd' /\ EmitsInOrder'
      BY <2>1, <2>3 DEF CursorAtEnd, EmitsInOrder, TypeOK
    <2> QED
      BY <1>2, <2>1, <2>2, <2>4 DEF store, TypeOK, Contiguous, OneTransaction
  <1> QED
    BY <1>3, <1>4

------------------------------------------------------------------------------

LEMMA NextInv ==
  ASSUME IInv, [Next]_vars
  PROVE  IInv'
  <1>1. CASE UNCHANGED vars
    BY <1>1 DEF vars, IInv, TypeOK, Contiguous, OneTransaction, CursorAtEnd, EmitsInOrder
  <1>2. CASE \E p \in Publisher : PublisherStep(p)
    BY <1>2, BeginPublishInv, StageInv, RollBackInv, CommitInv, WakeTailsInv DEF PublisherStep
  <1>3. CASE \E r \in Replayer : ReplayerStep(r)
    BY <1>3, ReplayNothingInv, ReplayAppendInv, ReplayDiesInv, ReplayWakeInv DEF ReplayerStep
  <1>4. CASE \E f \in Follower : FollowerStep(f)
    BY <1>4, OpenTailInv, ReadInv, TailSignalInv DEF FollowerStep
  <1>5. CASE \E a \in Aggregate : Remove(a) \/ \E o \in Owner : Claim(a, o)
    BY <1>5, RemoveInv, ClaimInv
  <1>6. CASE Crash
    BY <1>6, CrashInv
  <1> QED
    BY <1>1, <1>2, <1>3, <1>4, <1>5, <1>6 DEF Next

\* The strengthening of the type invariant, Contiguous and EmitsInOrder holds in
\* every state that publishing, replaying, claiming, removing and tailing reach.
THEOREM Invariance == Spec => []IInv
  BY InitInv, NextInv, PTL DEF Spec

\* Every reachable state is well typed.
THEOREM TypeCorrect == Spec => []TypeOK
  BY Invariance, PTL DEF IInv

\* commitDurableEvent, publishBatch, replay and remove keep every aggregate's
\* history gapless, free of duplicates and consistent with event_sequence.
THEOREM ContiguousAlways == Spec => []Contiguous
  BY Invariance, PTL DEF IInv

\* A durable stream emits every sequence after its start once and in order,
\* across removals and coalesced wakes.
THEOREM EmitsInOrderAlways == Spec => []EmitsInOrder
  BY Invariance, PTL DEF IInv

------------------------------------------------------------------------------
(* Action properties of the store.                                         *)

\* The steps that write the event table.
LEMMA WritesEvents ==
  ASSUME IInv, [Next]_vars, events' # events
  PROVE  \/ \E p \in Publisher : Commit(p)
         \/ \E r \in Replayer,
               w \in [id : EventId, agg : Aggregate, seq : 0 .. MaxSeq, data : Data],
               o \in Owner \union {NoOwner}, strict \in BOOLEAN : ReplayAppend(r, w, o, strict)
         \/ \E a \in Aggregate : Remove(a)
  <1>1. CASE \E p \in Publisher : PublisherStep(p)
    BY <1>1 DEF PublisherStep, BeginPublish, Stage, RollBack, WakeTails, store
  <1>2. CASE \E r \in Replayer : ReplayerStep(r)
    <2>1. PICK r \in Replayer : ReplayerStep(r)
      BY <1>2
    <2>2. ~ReplayDies(r) /\ ~ReplayWake(r)
      BY DEF ReplayDies, ReplayWake, store
    <2>3. PICK w \in [id : EventId, agg : Aggregate, seq : 0 .. MaxSeq, data : Data],
               o \in Owner \union {NoOwner}, strict \in BOOLEAN :
            \/ ReplayExact(r, w, o, strict) \/ ReplayFenced(r, w, o, strict)
            \/ ReplayAppend(r, w, o, strict)
      BY <2>1, <2>2 DEF ReplayerStep
    <2>4. ~ReplayExact(r, w, o, strict) /\ ~ReplayFenced(r, w, o, strict)
      BY DEF ReplayExact, ReplayFenced, store
    <2> QED
      BY <2>3, <2>4
  <1>3. ~(\E f \in Follower : FollowerStep(f))
    BY DEF FollowerStep, OpenTail, Read, Emitted, TakeWake, CloseTail, store
  <1>4. ~Crash /\ ~UNCHANGED vars /\ ~(\E a \in Aggregate, o \in Owner : Claim(a, o))
    BY DEF Crash, vars, store, Claim
  <1> QED
    BY <1>1, <1>2, <1>3, <1>4 DEF Next

\* Stored events are never rewritten and disappear only with their aggregate.
THEOREM AppendOnlyAlways == Spec => AppendOnly
  <1>1. IInv /\ [Next]_vars => [events \subseteq events' \/ \E a \in Aggregate : Remove(a)]_vars
    <2> SUFFICES ASSUME IInv, [Next]_vars, events' # events
                 PROVE  events \subseteq events' \/ \E a \in Aggregate : Remove(a)
      OBVIOUS
    <2> QED
      BY WritesEvents DEF Commit, ReplayAppend
  <1> QED
    BY <1>1, Invariance, PTL DEF Spec, AppendOnly

\* publishBatch stores all of its events in one step or none of them.
THEOREM AllOrNothingAlways == Spec => AllOrNothing
  <1> DEFINE Whole == \A p \in Publisher :
               publisher[p].phase = "tx" /\ events' # events
                 => /\ publisher[p].left = 0
                    /\ events' \ events = Elements(publisher[p].staged)
  <1>1. IInv /\ [Next]_vars => [Whole]_vars
    <2> SUFFICES ASSUME IInv, [Next]_vars, NEW p \in Publisher,
                        publisher[p].phase = "tx", events' # events
                 PROVE  /\ publisher[p].left = 0
                        /\ events' \ events = Elements(publisher[p].staged)
      OBVIOUS
    <2>1. PICK q \in Publisher : Commit(q)
      BY WritesEvents DEF ReplayAppend, Replaying, Remove, DatabaseFree
    <2>2. q = p
      BY <2>1 DEF Commit, IInv, OneTransaction
    <2>3. events \intersect Elements(publisher[p].staged) = {}
      BY DEF IInv, OneTransaction
    <2> QED
      BY <2>1, <2>2, <2>3 DEF Commit
  <1> QED
    BY <1>1, Invariance, PTL DEF Spec, AllOrNothing

\* Replays write only where no other owner holds the aggregate, and never take
\* an owned aggregate over.
THEOREM OwnerFenceAlways == Spec => OwnerFence
  <1> DEFINE Fenced ==
        /\ \A r \in Replayer : replayer[r] # replayer'[r] /\ events # events'
             => ~Foreign(replayer'[r].owner, replayer'[r].agg)
        /\ \A a \in Aggregate : owner[a] # NoOwner /\ owner'[a] # owner[a]
             => Remove(a) \/ \E o \in Owner : Claim(a, o)
  <1>1. IInv /\ [Next]_vars => [Fenced]_vars
    <2> SUFFICES ASSUME IInv, [Next]_vars PROVE Fenced
      OBVIOUS
    <2>1. ASSUME NEW r \in Replayer, replayer[r] # replayer'[r], events # events'
          PROVE  ~Foreign(replayer'[r].owner, replayer'[r].agg)
      <3>1. PICK q \in Replayer, w \in [id : EventId, agg : Aggregate, seq : 0 .. MaxSeq, data : Data],
               o \in Owner \union {NoOwner}, strict \in BOOLEAN : ReplayAppend(q, w, o, strict)
        BY <2>1, WritesEvents DEF Commit, Remove
      <3>2. q = r
        BY <2>1, <3>1 DEF ReplayAppend, IInv, TypeOK
      <3>3. replayer'[r] = [phase |-> "wake", agg |-> w.agg, seq |-> w.seq, owner |-> o,
                            strict |-> strict]
        BY <3>1, <3>2 DEF ReplayAppend, IInv, TypeOK
      <3> QED
        BY <3>1, <3>3 DEF ReplayAppend
    <2>2. ASSUME NEW a \in Aggregate, owner[a] # NoOwner, owner'[a] # owner[a]
          PROVE  Remove(a) \/ \E o \in Owner : Claim(a, o)
      <3>1. owner' # owner
        BY <2>2
      <3>2. \A b \in Aggregate : \A o : Adopted(o, b)[a] = owner[a]
        BY <2>2 DEF Adopted, IInv, TypeOK
      <3>3. PICK b \in Aggregate : Remove(b) \/ \E o \in Owner : Claim(b, o)
        <4>1. ~(\E p \in Publisher : PublisherStep(p))
          BY <3>1 DEF PublisherStep, BeginPublish, Stage, RollBack, Commit, WakeTails, store
        <4>2. ~(\E r \in Replayer : ReplayerStep(r))
          BY <3>1, <3>2, <2>2
          DEF ReplayerStep, ReplayExact, ReplayFenced, ReplayAppend, ReplayDies, ReplayWake, store
        <4>3. ~(\E f \in Follower : FollowerStep(f)) /\ ~Crash /\ ~UNCHANGED vars
          BY <3>1
          DEF FollowerStep, OpenTail, Read, Emitted, TakeWake, CloseTail, Crash, vars, store
        <4> QED
          BY <4>1, <4>2, <4>3 DEF Next
      <3>4. b = a
        BY <2>2, <3>3 DEF Remove, Claim, IInv, TypeOK
      <3> QED
        BY <3>3, <3>4
    <2> QED
      BY <2>1, <2>2
  <1> QED
    BY <1>1, Invariance, PTL DEF Spec, OwnerFence

------------------------------------------------------------------------------
(* The tables implement the abstract log.                                  *)

\* The events of aggregate a in `rows`, a log that ends at `last`.
Entries(rows, last, a) ==
  [i \in 1 .. last[a] + 1 |->
     LET row == CHOOSE e \in rows : e.agg = a /\ e.seq = i - 1
     IN  [id |-> row.id, data |-> row.data]]

\* Position i of a history is the one row with sequence i - 1.
LEMMA EntryAt ==
  ASSUME NEW rows \in SUBSET Row, NEW last \in [Aggregate -> -1 .. MaxSeq],
         IsLog(rows, last), NEW a \in Aggregate, NEW i \in 1 .. last[a] + 1
  PROVE  \E e \in rows : /\ e.agg = a /\ e.seq = i - 1
                         /\ Entries(rows, last, a)[i] = [id |-> e.id, data |-> e.data]
  <1>1. last[a] \in Int
    BY EventLogAssumption
  <1>2. i - 1 \in {e.seq : e \in {d \in rows : d.agg = a}}
    <2>1. i - 1 \in 0 .. last[a]
      BY <1>1
    <2> QED
      BY <2>1, Zenon DEF IsLog
  <1>3. PICK e \in rows : e.agg = a /\ e.seq = i - 1
    BY <1>2
  <1>4. \A d \in rows : d.agg = a /\ d.seq = i - 1 => d = e
    BY <1>3 DEF IsLog
  <1>5. (CHOOSE d \in rows : d.agg = a /\ d.seq = i - 1) = e
    BY <1>3, <1>4
  <1> QED
    BY <1>3, <1>5 DEF Entries

\* A history is a sequence as long as its event_sequence row says.
LEMMA EntriesType ==
  ASSUME NEW rows \in SUBSET Row, NEW last \in [Aggregate -> -1 .. MaxSeq],
         IsLog(rows, last), NEW a \in Aggregate
  PROVE  /\ Entries(rows, last, a) \in Seq(Log!Event)
         /\ Len(Entries(rows, last, a)) = last[a] + 1
         /\ DOMAIN Entries(rows, last, a) = 1 .. last[a] + 1
  <1> DEFINE h == Entries(rows, last, a)
  <1>1. last[a] + 1 \in Nat
    BY EventLogAssumption
  <1>2. DOMAIN h = 1 .. last[a] + 1
    BY DEF Entries
  <1>3. ASSUME NEW i, i \in 1 .. last[a] + 1 PROVE h[i] \in Log!Event
    <2>1. PICK e \in rows : /\ e.agg = a /\ e.seq = i - 1
                            /\ Entries(rows, last, a)[i] = [id |-> e.id, data |-> e.data]
      BY <1>3, EntryAt
    <2> QED
      BY <2>1 DEF Row, Log!Event
  <1>4. h = [i \in 1 .. last[a] + 1 |-> h[i]]
    BY DEF Entries
  <1> HIDE DEF h
  <1>5. h \in [1 .. last[a] + 1 -> Log!Event]
    BY <1>3, <1>4
  <1> QED
    BY <1>1, <1>2, <1>5 DEF h

\* No two positions of the histories of a log hold the same id.
LEMMA EntriesDistinct ==
  ASSUME NEW rows \in SUBSET Row, NEW last \in [Aggregate -> -1 .. MaxSeq],
         IsLog(rows, last)
  PROVE  Log!Distinct([a \in Aggregate |-> Entries(rows, last, a)])
  <1> DEFINE h == [a \in Aggregate |-> Entries(rows, last, a)]
  <1> SUFFICES ASSUME NEW a \in Aggregate, NEW b \in Aggregate,
                      NEW i \in DOMAIN Entries(rows, last, a),
                      NEW j \in DOMAIN Entries(rows, last, b),
                      Entries(rows, last, a)[i].id = Entries(rows, last, b)[j].id
               PROVE  a = b /\ i = j
    BY DEF Log!Distinct
  <1>1. i \in 1 .. last[a] + 1 /\ j \in 1 .. last[b] + 1
    BY EntriesType
  <1>2. PICK d \in rows : /\ d.agg = a /\ d.seq = i - 1
                          /\ Entries(rows, last, a)[i] = [id |-> d.id, data |-> d.data]
    BY <1>1, EntryAt
  <1>3. PICK e \in rows : /\ e.agg = b /\ e.seq = j - 1
                          /\ Entries(rows, last, b)[j] = [id |-> e.id, data |-> e.data]
    BY <1>1, EntryAt
  <1>4. d.id = e.id
    BY <1>2, <1>3
  <1>5. d = e
    BY <1>4 DEF IsLog
  <1>6. last[a] \in Int /\ last[b] \in Int
    BY EventLogAssumption
  <1> QED
    BY <1>1, <1>2, <1>3, <1>5, <1>6

\* Where rows are only added, a history is extended at its end.
LEMMA EntriesGrow ==
  ASSUME NEW rows \in SUBSET Row, NEW last \in [Aggregate -> -1 .. MaxSeq], IsLog(rows, last),
         NEW more \in SUBSET Row, NEW next \in [Aggregate -> -1 .. MaxSeq], IsLog(more, next),
         NEW a \in Aggregate, {e \in rows : e.agg = a} \subseteq more
  PROVE  Log!Extends(Entries(more, next, a), Entries(rows, last, a))
  <1>1. last[a] \in Int /\ next[a] \in Int /\ last[a] >= -1 /\ next[a] >= -1
    BY EventLogAssumption
  <1>2. last[a] <= next[a]
    <2>1. {e.seq : e \in {d \in rows : d.agg = a}} \subseteq {e.seq : e \in {d \in more : d.agg = a}}
      OBVIOUS
    <2>2. 0 .. last[a] \subseteq 0 .. next[a]
      BY <2>1 DEF IsLog
    <2>3. CASE last[a] >= 0
      <3>1. last[a] \in 0 .. last[a]
        BY <2>3, <1>1
      <3> QED
        BY <2>2, <3>1, <1>1
    <2> QED
      BY <2>3, <1>1
  <1>3. ASSUME NEW i, i \in 1 .. last[a] + 1
        PROVE  Entries(more, next, a)[i] = Entries(rows, last, a)[i]
    <2>1. i \in 1 .. next[a] + 1
      BY <1>1, <1>2, <1>3
    <2>2. PICK d \in rows : /\ d.agg = a /\ d.seq = i - 1
                            /\ Entries(rows, last, a)[i] = [id |-> d.id, data |-> d.data]
      BY <1>3, EntryAt
    <2>3. PICK e \in more : /\ e.agg = a /\ e.seq = i - 1
                            /\ Entries(more, next, a)[i] = [id |-> e.id, data |-> e.data]
      BY <2>1, EntryAt
    <2>4. d \in more
      BY <2>2
    <2>5. d = e
      BY <2>2, <2>3, <2>4 DEF IsLog
    <2> QED
      BY <2>2, <2>3, <2>5
  <1>4. /\ Len(Entries(more, next, a)) = next[a] + 1
        /\ Len(Entries(rows, last, a)) = last[a] + 1
    BY EntriesType
  <1>5. Len(Entries(rows, last, a)) <= Len(Entries(more, next, a))
    BY <1>1, <1>2, <1>4
  <1>6. \A i \in 1 .. Len(Entries(rows, last, a)) :
          Entries(more, next, a)[i] = Entries(rows, last, a)[i]
    BY <1>3, <1>4
  <1> QED
    BY <1>5, <1>6 DEF Log!Extends

\* Where an aggregate's rows stay, its history stays.
LEMMA EntriesSame ==
  ASSUME NEW rows, NEW last, NEW more, NEW next, NEW a \in Aggregate,
         {e \in rows : e.agg = a} = {e \in more : e.agg = a}, last[a] = next[a]
  PROVE  Entries(rows, last, a) = Entries(more, next, a)
  <1>1. ASSUME NEW n
        PROVE  (CHOOSE e \in rows : e.agg = a /\ e.seq = n) = (CHOOSE e \in more : e.agg = a /\ e.seq = n)
    <2>1. \A e : (e \in rows /\ e.agg = a /\ e.seq = n) <=> (e \in more /\ e.agg = a /\ e.seq = n)
      OBVIOUS
    <2> QED
      BY <2>1
  <1> QED
    BY <1>1 DEF Entries

\* What the tables show as the abstract log in a state of the invariant.
LEMMA LogOfTables ==
  ASSUME TypeOK, Contiguous
  PROVE  /\ [a \in Aggregate |-> History(a)] = [a \in Aggregate |-> Entries(events, seq, a)]
         /\ \A a \in Aggregate : /\ History(a) \in Seq(Log!Event)
                                 /\ Len(History(a)) = seq[a] + 1
                                 /\ History(a) # <<>> <=> seq[a] >= 0
         /\ Log!Distinct([a \in Aggregate |-> History(a)])
  <1>1. \A a \in Aggregate : History(a) = Entries(events, seq, a)
    BY DEF History, Entries
  <1>2. events \in SUBSET Row /\ seq \in [Aggregate -> -1 .. MaxSeq] /\ IsLog(events, seq)
    BY DEF TypeOK, Contiguous
  <1>3. ASSUME NEW a \in Aggregate
        PROVE  /\ History(a) \in Seq(Log!Event)
               /\ Len(History(a)) = seq[a] + 1
               /\ History(a) # <<>> <=> seq[a] >= 0
    <2>1. History(a) \in Seq(Log!Event) /\ Len(History(a)) = seq[a] + 1
      BY <1>1, <1>2, EntriesType
    <2>2. seq[a] \in Int /\ seq[a] >= -1
      BY <1>2, EventLogAssumption
    <2>3. History(a) # <<>> <=> Len(History(a)) # 0
      BY <2>1
    <2> QED
      BY <2>1, <2>2, <2>3
  <1>4. [a \in Aggregate |-> History(a)] = [a \in Aggregate |-> Entries(events, seq, a)]
    BY <1>1
  <1>5. Log!Distinct([a \in Aggregate |-> Entries(events, seq, a)])
    BY <1>2, EntriesDistinct
  <1> QED
    BY <1>3, <1>4, <1>5

LogFacts ==
  /\ \A a \in Aggregate : /\ History(a) \in Seq(Log!Event)
                          /\ Len(History(a)) = seq[a] + 1
                          /\ History(a) # <<>> <=> seq[a] >= 0
  /\ Log!Distinct([a \in Aggregate |-> History(a)])

LEMMA TablesAreLog == TypeOK /\ Contiguous => LogFacts
  BY LogOfTables DEF LogFacts

\* The initial tables are the empty log.
LEMMA InitImplementsLog ==
  ASSUME Init
  PROVE  Log!Init
  <1>1. \A a \in Aggregate : History(a) = <<>>
    <2> TAKE a \in Aggregate
    <2>1. seq[a] + 1 = 0
      BY DEF Init
    <2>2. 1 .. seq[a] + 1 = {}
      BY <2>1
    <2>3. \A f : f = [i \in {} |-> f[i]] => f = <<>>
      OBVIOUS
    <2> QED
      BY <2>2 DEF History
  <1> QED
    BY <1>1 DEF Init, Log!Init

\* A step that leaves the tables alone is no step of the abstract log.
LEMMA TablesStay ==
  ASSUME seq' = seq, events' = events
  PROVE  [a \in Aggregate |-> History(a)]' = [a \in Aggregate |-> History(a)]
  BY DEF History

\* A commit publishes the whole call.
LEMMA CommitImplements ==
  ASSUME IInv, IInv', NEW p \in Publisher, Commit(p)
  PROVE  [Log!Next]_(Log!vars)
  <1> USE DEF IInv
  <1> DEFINE old == [a \in Aggregate |-> History(a)]
  <1>1. UNCHANGED owner /\ events \subseteq events'
    BY DEF Commit
  <1>2. /\ events \in SUBSET Row /\ seq \in [Aggregate -> -1 .. MaxSeq] /\ IsLog(events, seq)
        /\ events' \in SUBSET Row /\ seq' \in [Aggregate -> -1 .. MaxSeq] /\ IsLog(events', seq')
    BY DEF TypeOK, Contiguous
  <1>3. ASSUME NEW a \in Aggregate PROVE Log!Extends(History(a)', History(a))
    <2>1. History(a) = Entries(events, seq, a) /\ History(a)' = Entries(events', seq', a)
      BY DEF History, Entries
    <2>2. {e \in events : e.agg = a} \subseteq events'
      BY <1>1
    <2>3. Log!Extends(Entries(events', seq', a), Entries(events, seq, a))
      BY <1>2, <2>2, EntriesGrow
    <2> QED
      BY <2>1, <2>3
  <1>4. LogFacts'
    BY TablesAreLog, PTL
  <1>5. \/ old' = old
        \/ Log!Publish
    BY <1>1, <1>3, <1>4 DEF Log!Publish, LogFacts
  <1> QED
    BY <1>1, <1>5 DEF Log!Next, Log!vars

\* Appending a replayed event extends one history, under its owner.
LEMMA ReplayAppendImplements ==
  ASSUME IInv, IInv', NEW r \in Replayer,
         NEW w \in [id : EventId, agg : Aggregate, seq : 0 .. MaxSeq, data : Data],
         NEW o \in Owner \union {NoOwner}, NEW strict \in BOOLEAN,
         ReplayAppend(r, w, o, strict)
  PROVE  Log!Next
  <1> USE DEF IInv
  <1> DEFINE c == w.agg
             old == [a \in Aggregate |-> History(a)]
  <1>1. /\ c \in Aggregate /\ ~Foreign(o, c) /\ w.seq = seq[c] + 1
        /\ events' = events \union {w} /\ seq' = [seq EXCEPT ![c] = w.seq]
        /\ owner' = Adopted(o, c)
    BY DEF ReplayAppend
  <1>2. /\ events \in SUBSET Row /\ seq \in [Aggregate -> -1 .. MaxSeq] /\ IsLog(events, seq)
        /\ events' \in SUBSET Row /\ seq' \in [Aggregate -> -1 .. MaxSeq] /\ IsLog(events', seq')
    BY DEF TypeOK, Contiguous
  <1>3. \A a \in Aggregate : /\ History(a) = Entries(events, seq, a)
                             /\ History(a)' = Entries(events', seq', a)
    BY DEF History, Entries
  <1>4. Log!Extends(History(c)', History(c))
    <2>1. {e \in events : e.agg = c} \subseteq events'
      BY <1>1
    <2>2. Log!Extends(Entries(events', seq', c), Entries(events, seq, c))
      BY <1>1, <1>2, <2>1, EntriesGrow
    <2> QED
      BY <1>1, <1>3, <2>2
  <1>5. Len(History(c)') = Len(History(c)) + 1
    <2>1. Len(History(c)) = seq[c] + 1
      BY <1>1, LogOfTables
    <2>2. LogFacts'
      BY TablesAreLog, PTL
    <2>3. Len(History(c)') = seq'[c] + 1
      BY <1>1, <2>2 DEF LogFacts
    <2> QED
      BY <1>1, <1>2, <2>1, <2>3
  <1>6. ASSUME NEW a \in Aggregate, a # c PROVE History(a)' = History(a)
    <2>1. {e \in events : e.agg = a} = {e \in events' : e.agg = a} /\ seq[a] = seq'[a]
      BY <1>1, <1>2, <1>6
    <2>2. Entries(events, seq, a) = Entries(events', seq', a)
      BY <2>1, EntriesSame
    <2> QED
      BY <1>3, <2>2
  <1>7. old' = [old EXCEPT ![c] = old'[c]]
    BY <1>1, <1>6
  <1>8. LogFacts'
    BY TablesAreLog, PTL
  <1>9. owner[c] \in {NoOwner, o} /\ owner' = [owner EXCEPT ![c] = o]
    BY <1>1 DEF Foreign, Adopted, TypeOK
  <1>10. Log!Replay(c, o)
    BY <1>1, <1>4, <1>5, <1>7, <1>8, <1>9 DEF Log!Replay, LogFacts
  <1> QED
    BY <1>1, <1>10 DEF Log!Next

\* Replaying a known event may adopt its aggregate, and does nothing else.
LEMMA ReplayExactImplements ==
  ASSUME IInv, IInv', NEW r \in Replayer,
         NEW w \in [id : EventId, agg : Aggregate, seq : 0 .. MaxSeq, data : Data],
         NEW o \in Owner \union {NoOwner}, NEW strict \in BOOLEAN,
         ReplayExact(r, w, o, strict)
  PROVE  [Log!Next]_(Log!vars)
  <1> USE DEF IInv
  <1> DEFINE c == w.agg
             old == [a \in Aggregate |-> History(a)]
  <1>1. c \in Aggregate /\ w.seq <= seq[c] /\ owner' = Adopted(o, c) /\ seq' = seq /\ events' = events
    BY DEF ReplayExact
  <1>2. old' = old
    BY <1>1, TablesStay
  <1>3. CASE owner[c] = NoOwner /\ o # NoOwner
    <2>1. seq[c] >= 0
      BY <1>1, EventLogAssumption DEF TypeOK
    <2>2. old[c] # <<>>
      BY <1>1, <2>1, LogOfTables
    <2>3. Log!Adopt(c, o)
      BY <1>1, <1>2, <1>3, <2>2 DEF Log!Adopt, Adopted
    <2> QED
      BY <1>1, <1>3, <2>3 DEF Log!Next
  <1>4. CASE ~(owner[c] = NoOwner /\ o # NoOwner)
    BY <1>1, <1>2, <1>4 DEF Adopted, TypeOK, Log!vars
  <1> QED
    BY <1>3, <1>4

LEMMA RemoveImplements ==
  ASSUME IInv, IInv', NEW c \in Aggregate, Remove(c)
  PROVE  Log!Next
  <1> USE DEF IInv
  <1> DEFINE old == [a \in Aggregate |-> History(a)]
  <1>1. /\ seq' = [seq EXCEPT ![c] = -1] /\ owner' = [owner EXCEPT ![c] = NoOwner]
        /\ events' = {e \in events : e.agg # c}
    BY DEF Remove
  <1>2. seq \in [Aggregate -> -1 .. MaxSeq]
    BY DEF TypeOK
  <1>3. \A a \in Aggregate : /\ History(a) = Entries(events, seq, a)
                             /\ History(a)' = Entries(events', seq', a)
    BY DEF History, Entries
  <1>4. History(c)' = <<>>
    <2>1. LogFacts'
      BY TablesAreLog, PTL
    <2> QED
      BY <1>1, <1>2, <2>1 DEF LogFacts
  <1>5. ASSUME NEW a \in Aggregate, a # c PROVE History(a)' = History(a)
    <2>1. {e \in events : e.agg = a} = {e \in events' : e.agg = a} /\ seq[a] = seq'[a]
      BY <1>1, <1>2, <1>5
    <2>2. Entries(events, seq, a) = Entries(events', seq', a)
      BY <2>1, EntriesSame
    <2> QED
      BY <1>3, <2>2
  <1>6. old' = [old EXCEPT ![c] = <<>>]
    BY <1>4, <1>5
  <1> QED
    BY <1>1, <1>6 DEF Log!Next, Log!Remove

LEMMA ClaimImplements ==
  ASSUME IInv, NEW c \in Aggregate, NEW o \in Owner, Claim(c, o)
  PROVE  Log!Next
  <1> DEFINE old == [a \in Aggregate |-> History(a)]
  <1>1. seq[c] >= 0 /\ owner' = [owner EXCEPT ![c] = o] /\ seq' = seq /\ events' = events
    BY DEF Claim
  <1>2. old' = old
    BY <1>1, TablesStay
  <1>3. old[c] # <<>>
    BY <1>1, LogOfTables DEF IInv
  <1>4. Log!Claim(c, o)
    BY <1>1, <1>2, <1>3 DEF Log!Claim
  <1> QED
    BY <1>4 DEF Log!Next

\* Every other step leaves the tables alone.
LEMMA StoreSteps ==
  ASSUME [Next]_vars
  PROVE  \/ UNCHANGED store
         \/ \E p \in Publisher : Commit(p)
         \/ \E r \in Replayer,
               w \in [id : EventId, agg : Aggregate, seq : 0 .. MaxSeq, data : Data],
               o \in Owner \union {NoOwner}, strict \in BOOLEAN :
              ReplayExact(r, w, o, strict) \/ ReplayAppend(r, w, o, strict)
         \/ \E a \in Aggregate : Remove(a) \/ \E o \in Owner : Claim(a, o)
  <1>1. CASE \E p \in Publisher : PublisherStep(p)
    BY <1>1 DEF PublisherStep, BeginPublish, Stage, RollBack, WakeTails
  <1>2. CASE \E r \in Replayer : ReplayerStep(r)
    <2>1. \A r \in Replayer : ReplayDies(r) \/ ReplayWake(r) => UNCHANGED store
      BY DEF ReplayDies, ReplayWake
    <2>2. \A r, w, o, strict : ReplayFenced(r, w, o, strict) => UNCHANGED store
      BY DEF ReplayFenced
    <2> QED
      BY <1>2, <2>1, <2>2 DEF ReplayerStep
  <1>3. CASE \E f \in Follower : FollowerStep(f)
    BY <1>3 DEF FollowerStep, OpenTail, Read, Emitted, TakeWake, CloseTail
  <1>4. CASE Crash \/ UNCHANGED vars
    BY <1>4 DEF Crash, vars, store
  <1> QED
    BY <1>1, <1>2, <1>3, <1>4 DEF Next

LEMMA StepImplementsLog ==
  ASSUME IInv, IInv', [Next]_vars
  PROVE  [Log!Next]_(Log!vars)
  <1>1. CASE UNCHANGED store
    BY <1>1, TablesStay DEF store, Log!vars
  <1> QED
    BY <1>1, StoreSteps, CommitImplements, ReplayExactImplements, ReplayAppendImplements,
       RemoveImplements, ClaimImplements

\* publish, publishBatch, replay, claim and remove over the two tables implement
\* the abstract log of histories and owners.
THEOREM ImplementsLogAlways == Spec => ImplementsLog
  <1>1. IInv /\ IInv' /\ [Next]_vars => [Log!Next]_(Log!vars)
    BY StepImplementsLog
  <1> QED
    BY <1>1, InitImplementsLog, Invariance, PTL DEF Spec, ImplementsLog, Log!Spec

------------------------------------------------------------------------------
(* What the abstract log promises therefore holds of the tables.           *)

LEMMA PromiseInit ==
  ASSUME Log!Init
  PROVE  Log!Promise
  <1> DEFINE log == [a \in Aggregate |-> History(a)]
  <1>1. log = [a \in Aggregate |-> <<>>] /\ owner = [a \in Aggregate |-> NoOwner]
    BY DEF Log!Init
  <1>2. DOMAIN <<>> = {} /\ <<>> \in Seq(Log!Event)
    OBVIOUS
  <1> HIDE DEF log
  <1>3. Log!Distinct(log)
    BY <1>1, <1>2 DEF Log!Distinct
  <1> QED
    BY <1>1, <1>2, <1>3 DEF Log!Promise, Log!TypeOK, Log!OwnedIsWritten, log

\* A removed or an extended history keeps the promise.
LEMMA PromiseStep ==
  ASSUME Log!Promise, [Log!Next]_(Log!vars)
  PROVE  Log!Promise'
  <1> DEFINE log == [a \in Aggregate |-> History(a)]
  <1> USE DEF Log!Promise, Log!TypeOK, Log!OwnedIsWritten
  <1>1. ASSUME NEW s, NEW t, Log!Extends(t, s), s \in Seq(Log!Event), t \in Seq(Log!Event), s # <<>>
        PROVE  t # <<>>
    <2>1. Len(s) # 0 /\ Len(s) \in Nat
      BY <1>1
    <2>2. Len(t) # 0
      BY <1>1, <2>1 DEF Log!Extends
    <2>3. Len(<<>>) = 0
      OBVIOUS
    <2> QED
      BY <2>2, <2>3
  <1>2. CASE UNCHANGED Log!vars
    BY <1>2 DEF Log!vars, Log!Distinct
  <1>3. CASE Log!Publish
    <2>1. \A a \in Aggregate : log[a] # <<>> => log'[a] # <<>>
      BY <1>1, <1>3 DEF Log!Publish
    <2> HIDE DEF log
    <2> QED
      BY <1>3, <2>1 DEF Log!Publish, log
  <1>4. ASSUME NEW c \in Aggregate, Log!Remove(c) PROVE Log!Promise'
    <2>1. log' = [log EXCEPT ![c] = <<>>] /\ owner' = [owner EXCEPT ![c] = NoOwner]
      BY <1>4 DEF Log!Remove
    <2>2. log \in [Aggregate -> Seq(Log!Event)] /\ Log!Distinct(log)
      OBVIOUS
    <2> HIDE DEF log
    <2>3. log' \in [Aggregate -> Seq(Log!Event)]
      BY <2>1, <2>2
    <2>4. Log!Distinct(log')
      <3>1. DOMAIN log'[c] = {}
        BY <2>1, <2>2
      <3>2. \A a \in Aggregate : a # c => log'[a] = log[a]
        BY <2>1, <2>2
      <3> SUFFICES ASSUME NEW a \in Aggregate, NEW b \in Aggregate,
                          NEW i \in DOMAIN log'[a], NEW j \in DOMAIN log'[b],
                          log'[a][i].id = log'[b][j].id
                   PROVE  a = b /\ i = j
        BY DEF Log!Distinct
      <3>3. a # c /\ b # c
        BY <3>1
      <3>4. i \in DOMAIN log[a] /\ j \in DOMAIN log[b] /\ log[a][i].id = log[b][j].id
        BY <3>2, <3>3
      <3> QED
        BY <2>2, <3>4 DEF Log!Distinct
    <2> QED
      BY <2>1, <2>2, <2>3, <2>4 DEF log
  <1>5. ASSUME NEW c \in Aggregate, NEW o \in Owner \union {NoOwner}, Log!Replay(c, o)
        PROVE  Log!Promise'
    <2>1. /\ log' = [log EXCEPT ![c] = log'[c]] /\ owner' = [owner EXCEPT ![c] = o]
          /\ log'[c] \in Seq(Log!Event) /\ Len(log'[c]) = Len(log[c]) + 1 /\ Log!Distinct(log')
      BY <1>5 DEF Log!Replay
    <2>2. log \in [Aggregate -> Seq(Log!Event)]
      OBVIOUS
    <2> HIDE DEF log
    <2>3. log' \in [Aggregate -> Seq(Log!Event)]
      BY <2>1, <2>2
    <2>4. log'[c] # <<>>
      <3>1. Len(log[c]) \in Nat /\ Len(<<>>) = 0
        BY <2>2
      <3> QED
        BY <2>1, <3>1
    <2>5. \A a \in Aggregate : a # c => log'[a] = log[a] /\ owner'[a] = owner[a]
      BY <2>1, <2>2 DEF log
    <2> QED
      BY <2>1, <2>2, <2>3, <2>4, <2>5 DEF log
  <1>6. ASSUME NEW c \in Aggregate, NEW o \in Owner, Log!Adopt(c, o) \/ Log!Claim(c, o)
        PROVE  Log!Promise'
    <2>1. log' = log /\ log[c] # <<>> /\ owner' = [owner EXCEPT ![c] = o]
      BY <1>6 DEF Log!Adopt, Log!Claim
    <2> HIDE DEF log
    <2> QED
      BY <2>1 DEF log
  <1> QED
    BY <1>2, <1>3, <1>4, <1>5, <1>6 DEF Log!Next

\* Event ids are unique over all aggregates and only an aggregate with a
\* history has an owner, whatever publishers, replayers and claims do.
THEOREM PromiseKept == Spec => []Log!Promise
  <1>1. Log!Spec => []Log!Promise
    <2>1. Log!Promise /\ [Log!Next]_(Log!vars) => Log!Promise'
      BY PromiseStep
    <2>2. Log!Init => Log!Promise
      BY PromiseInit
    <2> QED
      BY <2>1, <2>2, PTL DEF Log!Spec
  <1> QED
    BY <1>1, ImplementsLogAlways, PTL DEF ImplementsLog

=============================================================================
