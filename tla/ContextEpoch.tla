---------------------------- MODULE ContextEpoch ----------------------------
(* The Context Epoch of one Session: session/context-epoch.ts as the turns of
   session/runner/llm.ts use it, with the history selection of
   session/history.ts, compactions, moves of the Session to another Location
   and restarts.

   A turn observes its Location's sources, initializes a missing epoch,
   promotes, reconciles an existing epoch, selects the history and makes its
   request. Between these steps sources change and the Session may be moved. *)
EXTENDS Naturals, Sequences, FiniteSets

CONSTANTS Sources, Removable, Unavailable, Removed,
          Locations, Values,
          NoEpoch, NoSystem,
          MaxSeq    \* bounds the events of the Session's aggregate

INSTANCE SystemContext

ContextEpochAssumption ==
  /\ Removable \subseteq Sources
  /\ MaxSeq \in Nat

VARIABLES world,     \* what each Location's sources can be observed to be
          location,  \* the Location in the Session's row
          log,       \* the Session's events, as the history shows them
          epoch,     \* the row of session_context_epoch
          turn       \* the provider turn of the Session's one drain

vars == <<world, location, log, epoch, turn>>

\* The same text at two Locations is still two sources.
Observed(l) == {<<l, v>> : v \in Values} \cup {Unavailable}

Snapshots == UNION {[D -> [value : UNION {Observed(l) : l \in Locations},
                           removable : BOOLEAN, stale : BOOLEAN]] : D \in SUBSET Sources}

TypeOK ==
  /\ \A l \in Locations : DOMAIN world[l] \subseteq Sources
                          /\ \A s \in DOMAIN world[l] : world[l][s] \in Observed(l)
  /\ location \in Locations
  /\ Len(log) <= MaxSeq
  /\ \A i \in 1..Len(log) : log[i].type \in {"system", "compaction", "other"}
  /\ epoch # NoEpoch => /\ epoch.baseline \in Snapshots /\ epoch.snapshot \in Snapshots
                        /\ epoch.seq \in 0..MaxSeq
  /\ turn.at \in {"idle", "insert", "promote", "prepare", "write", "request"}

Idle == [at |-> "idle", loc |-> location, seen |-> <<>>, stored |-> NoEpoch,
         compaction |-> 0, system |-> NoSystem]

Init ==
  /\ \E l \in Locations, v \in Values :
       /\ location = l
       /\ world = [m \in Locations |-> [s \in Sources |-> <<m, v>>]]
  /\ log = <<>> /\ epoch = NoEpoch
  /\ turn = Idle

-----------------------------------------------------------------------------
(* The history. *)

Happens(type, text) == log' = Append(log, [type |-> type, text |-> text])
Plain(type) == Happens(type, <<>>)

LatestOf(S) == IF S = {} THEN 0 ELSE CHOOSE i \in S : \A j \in S : j <= i

\* latestCompaction, or 0.
LatestCompaction == LatestOf({i \in 1..Len(log) : log[i].type = "compaction"})

\* What the model is shown of each source: the baseline, and the chronological
\* updates that the history selects, those past the baseline.
Shown(system) ==
  [s \in Sources |->
     LET i == LatestOf({j \in system.seq + 1 .. Len(log) :
                          log[j].type = "system" /\ s \in DOMAIN log[j].text})
     IN IF i = 0 THEN Admitted(system.baseline)[s] ELSE log[i].text[s]]

SystemOf(row) == [baseline |-> row.baseline, seq |-> row.seq]

-----------------------------------------------------------------------------
(* The environment. *)

\* A file, the date, the agent: a source changes, fails to load, or is or is no
\* longer part of the context (Removed).
Change(l, s) ==
  /\ \E o \in Observed(l) \cup {Removed} :
       world' = [world EXCEPT ![l] =
         [t \in (DOMAIN @ \ {s}) \cup (IF o = Removed THEN {} ELSE {s}) |->
            IF t = s THEN o ELSE @[t]]]
  /\ UNCHANGED <<location, log, epoch, turn>>

\* The Session is moved, whatever its drain is doing; the projector clears the
\* epoch in the same transaction.
Move(l) ==
  /\ l # location /\ Len(log) < MaxSeq
  /\ location' = l /\ Plain("other") /\ epoch' = NoEpoch
  /\ UNCHANGED <<world, turn>>

Crash == /\ turn.at # "idle"
         /\ turn' = Idle
         /\ UNCHANGED <<world, location, log, epoch>>

\* A restart with a version that cannot decode what a source stored.
Upgrade(s) ==
  /\ epoch # NoEpoch /\ s \in DOMAIN epoch.snapshot
  /\ turn' = Idle
  /\ epoch' = [epoch EXCEPT !.snapshot[s].stale = TRUE]
  /\ UNCHANGED <<world, location, log>>

-----------------------------------------------------------------------------
(* A turn. *)

Stops == turn' = Idle

\* Begins at the Session's Location; if there is no epoch, the context is
\* observed, and a source that is unavailable ends the turn before it promotes.
Begin ==
  /\ turn.at = "idle"
  /\ \/ /\ epoch # NoEpoch
        /\ turn' = [Idle EXCEPT !.at = "promote"]
     \/ /\ epoch = NoEpoch /\ ~InitializationBlocked(world[location])
        /\ turn' = [Idle EXCEPT !.at = "insert", !.seen = world[location]]
  /\ UNCHANGED <<world, location, log, epoch>>

\* insert: the epoch starts at the latest event.
Starts(generation) ==
  LET row == [baseline |-> generation, snapshot |-> generation, seq |-> Len(log)]
  IN /\ epoch' = row
     /\ turn' = [turn EXCEPT !.at = IF turn.at = "insert" THEN "promote" ELSE "request",
                             !.system = SystemOf(row)]
     /\ UNCHANGED log

Initialize ==
  /\ turn.at = "insert" /\ epoch = NoEpoch
  /\ Starts(Generation(turn.seen))
  /\ UNCHANGED <<world, location>>

\* Eligible input, if there is any, becomes part of the history.
Promote ==
  /\ turn.at = "promote"
  /\ \/ UNCHANGED log
     \/ Len(log) < MaxSeq /\ Plain("other")
  /\ turn' = [turn EXCEPT !.at = IF turn.system = NoSystem THEN "prepare" ELSE "request"]
  /\ UNCHANGED <<world, location, epoch>>

\* prepare reads the epoch and the latest compaction and observes the context,
\* of the Location the turn began at.
Prepare ==
  /\ turn.at = "prepare"
  /\ LET seen == world[turn.loc]
     IN IF epoch = NoEpoch /\ InitializationBlocked(seen) THEN Stops
        ELSE turn' = [turn EXCEPT !.at = "write", !.seen = seen, !.stored = epoch,
                                  !.compaction = LatestCompaction]
  /\ UNCHANGED <<world, location, log, epoch>>

Keeps == /\ turn' = [turn EXCEPT !.at = "request", !.system = SystemOf(turn.stored)]
         /\ UNCHANGED <<log, epoch>>

\* The row was deleted after it was read: the write dies and with it the drain.
Dies == epoch = NoEpoch /\ Stops /\ UNCHANGED <<log, epoch>>

\* A completed compaction that the epoch does not cover.
Compacted == turn.compaction > turn.stored.seq

\* A fresh baseline, from the compaction or from the latest event on.
Replace ==
  LET row == [baseline |-> Generation(turn.seen), snapshot |-> Generation(turn.seen),
              seq |-> IF Compacted THEN turn.compaction ELSE Len(log)]
  IN /\ epoch # NoEpoch
     /\ epoch' = row
     /\ turn' = [turn EXCEPT !.at = "request", !.system = SystemOf(row)]
     /\ UNCHANGED log

\* The update's event and the new snapshot are one commit.
Advance ==
  /\ epoch # NoEpoch /\ Len(log) < MaxSeq
  /\ Happens("system", Update(turn.seen, turn.stored.snapshot))
  /\ epoch' = [epoch EXCEPT !.snapshot = Advanced(turn.seen, turn.stored.snapshot)]
  /\ turn' = [turn EXCEPT !.at = "request", !.system = SystemOf(turn.stored)]

\* Mutant: a compaction does not ask for a fresh baseline.
ReplacesUnlessCompacted == AsksReplacement(turn.seen, turn.stored.snapshot)

Replaces == Compacted \/ AsksReplacement(turn.seen, turn.stored.snapshot)

\* prepare, after its reads.
Reconcile ==
  /\ turn.at = "write"
  /\ UNCHANGED <<world, location>>
  /\ IF turn.stored = NoEpoch THEN Starts(Generation(turn.seen))
     ELSE LET old == turn.stored.snapshot
          IN IF Replaces
             THEN IF ReplacementBlocked(turn.seen, old) THEN Keeps ELSE Replace \/ Dies
             ELSE IF Update(turn.seen, old) = <<>> THEN Keeps ELSE Advance \/ Dies

\* The request is made, with whatever comes of it; the next turn begins anew.
Request == /\ turn.at = "request"
           /\ Stops
           /\ UNCHANGED <<world, location, log, epoch>>

\* Instead of the request, or after it overflowed, the history is compacted; the
\* attempt begins anew.
Compact == /\ turn.at = "request" /\ Len(log) < MaxSeq
           /\ Plain("compaction")
           /\ Stops
           /\ UNCHANGED <<world, location, epoch>>

-----------------------------------------------------------------------------

Next ==
  \/ \E l \in Locations, s \in Sources : Change(l, s)
  \/ \E l \in Locations : Move(l)
  \/ \E s \in Sources : Upgrade(s)
  \/ Crash
  \/ Begin \/ Initialize \/ Promote \/ Prepare \/ Reconcile \/ Request \/ Compact

Spec == Init /\ [][Next]_vars

-----------------------------------------------------------------------------
(* Properties. *)

InForce == turn.at = "request" /\ epoch # NoEpoch

\* What a request shows the model, its baseline and the updates the history
\* selects, adds up to the snapshot that later changes are compared with,
\* through updates, removals, compactions, replacements and restarts: otherwise
\* the model would be left with a value that no update ever corrects.
ShownIsAdmitted == InForce => Shown(turn.system) = Admitted(epoch.snapshot)

\* If every source could be observed when the turn prepared, the model is shown
\* exactly what was observed: no source it still has to be told, none that is
\* gone.
ShownIsCurrent ==
  turn.at = "request" /\ DOMAIN turn.seen # {} /\ ~InitializationBlocked(turn.seen) =>
    \A s \in Sources : Shown(turn.system)[s] =
      IF s \in DOMAIN turn.seen THEN turn.seen[s] ELSE Removed

\* A completed compaction is followed by a fresh baseline as soon as the context
\* is complete, even if the process ends in between: history that the compaction
\* summarised is not paired with the old epoch (session.md:119).
FreshAfterCompaction ==
  turn.at = "request" /\ turn.stored # NoEpoch /\ ~InitializationBlocked(turn.seen) =>
    turn.system.seq >= turn.compaction

\* The context shown to the model is the one later changes are compared with, and
\* is current, through updates, compactions, replacements, moves and restarts.
ContextIsShown == TypeOK /\ ShownIsAdmitted /\ ShownIsCurrent /\ FreshAfterCompaction

\* "Moving a Session clears its active Context Epoch, so the destination must
\* initialize a complete baseline before another prompt can promote": what a
\* turn shows of a source was observed at the Location it runs at.
BaselineIsLocal ==
  turn.at = "request" /\ turn.loc = location =>
    \A s \in Sources : LET v == Admitted(turn.system.baseline)[s]
                       IN v # Removed => v[1] = location
=============================================================================
