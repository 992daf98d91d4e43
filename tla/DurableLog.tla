------------------------------ MODULE DurableLog ------------------------------
(***************************************************************************)
(* What the durable event log promises, without rows, transactions,        *)
(* processes or tails: every aggregate has one history, a sequence of       *)
(* events, and at most one owner that may replay into it.  Histories only  *)
(* grow at their end or are removed whole; no event id is used twice.      *)
(* EventLog implements this specification.                                 *)
(***************************************************************************)
EXTENDS Integers, Sequences

CONSTANTS Aggregate, EventId, Data, Owner, NoOwner

VARIABLES log,     \* [Aggregate -> the events of its history]
          owner    \* [Aggregate -> who may replay into it, or NoOwner]

vars == <<log, owner>>

Event == [id : EventId, data : Data]

TypeOK ==
  /\ log \in [Aggregate -> Seq(Event)]
  /\ owner \in [Aggregate -> Owner \union {NoOwner}]

Init ==
  /\ log = [a \in Aggregate |-> <<>>]
  /\ owner = [a \in Aggregate |-> NoOwner]

\* Event i of history a is event j of history b only if it is the same one.
Distinct(h) ==
  \A a, b \in Aggregate : \A i \in DOMAIN h[a], j \in DOMAIN h[b] :
    h[a][i].id = h[b][j].id => a = b /\ i = j

\* t begins with s.
Extends(t, s) == Len(s) <= Len(t) /\ \A i \in 1 .. Len(s) : t[i] = s[i]

\* The events of one publish or publishBatch, of any aggregates, at once.
Publish ==
  /\ UNCHANGED owner
  /\ log' # log
  /\ \A a \in Aggregate : Extends(log'[a], log[a])
  /\ log' \in [Aggregate -> Seq(Event)] /\ Distinct(log')

\* The next event of an aggregate, copied from another process: only by its
\* owner, or by anyone, who then owns it, while it has none.
Replay(a, o) ==
  /\ owner[a] \in {NoOwner, o}
  /\ Len(log'[a]) = Len(log[a]) + 1
  /\ Extends(log'[a], log[a])
  /\ log' = [log EXCEPT ![a] = log'[a]]
  /\ log'[a] \in Seq(Event) /\ Distinct(log')
  /\ owner' = [owner EXCEPT ![a] = o]

\* A known event of an aggregate without owner, replayed again.
Adopt(a, o) ==
  /\ log[a] # <<>> /\ owner[a] = NoOwner
  /\ owner' = [owner EXCEPT ![a] = o]
  /\ UNCHANGED log

Claim(a, o) ==
  /\ log[a] # <<>>
  /\ owner' = [owner EXCEPT ![a] = o]
  /\ UNCHANGED log

Remove(a) ==
  /\ log' = [log EXCEPT ![a] = <<>>]
  /\ owner' = [owner EXCEPT ![a] = NoOwner]

Next ==
  \/ Publish
  \/ \E a \in Aggregate : \/ Remove(a)
                          \/ \E o \in Owner \union {NoOwner} : Replay(a, o)
                          \/ \E o \in Owner : Adopt(a, o) \/ Claim(a, o)

Spec == Init /\ [][Next]_vars

\* Only an aggregate with a history has an owner.
OwnedIsWritten == \A a \in Aggregate : owner[a] # NoOwner => log[a] # <<>>

\* What every user of the log relies on.
Promise == TypeOK /\ Distinct(log) /\ OwnedIsWritten

=============================================================================
