--------------------------- MODULE SystemContext ---------------------------
(* The algebra of system-context/index.ts over one observation. An observation
   maps the sources that are part of the context to their values, or to
   Unavailable where one could not be loaded; a snapshot maps the sources that
   were admitted to what was. The text of a baseline or an update is the values
   it renders: a function from sources, with Removed for a removal. *)
CONSTANTS Sources,
          Removable,   \* the sources that can render their removal
          Unavailable, Removed

Available(seen) == {s \in DOMAIN seen : seen[s] # Unavailable}

\* A source's entry in a snapshot. A later version of the source may not be able
\* to decode it (stale).
Entry(s, value) == [value |-> value, removable |-> s \in Removable, stale |-> FALSE]

\* initializeObservation.
Generation(seen) == [s \in Available(seen) |-> Entry(s, seen[s])]

\* initialize is blocked by any source that is unavailable, replace only by one
\* that was admitted before.
InitializationBlocked(seen) == Available(seen) # DOMAIN seen
ReplacementBlocked(seen, old) == (DOMAIN seen \ Available(seen)) \cap DOMAIN old # {}

\* reconcileObservation asks for a replacement: an entry cannot be compared, or
\* a source is gone and cannot say so.
AsksReplacement(seen, old) ==
  \/ \E s \in Available(seen) \cap DOMAIN old : old[s].stale
  \/ \E s \in DOMAIN old \ DOMAIN seen : ~old[s].removable

Changed(seen, old) ==
  {s \in Available(seen) : s \in DOMAIN old => old[s].value # seen[s]}

\* The snapshot after an update: an unavailable source keeps its entry.
Advanced(seen, old) ==
  [s \in Available(seen) \cup (DOMAIN seen \cap DOMAIN old) |->
     IF s \in Changed(seen, old) THEN Entry(s, seen[s]) ELSE old[s]]

\* The text of an update, empty when nothing has changed.
Update(seen, old) ==
  [s \in Changed(seen, old) \cup (DOMAIN old \ DOMAIN seen) |->
     IF s \in DOMAIN seen THEN seen[s] ELSE Removed]

\* What a snapshot says of each source.
Admitted(snapshot) ==
  [s \in Sources |-> IF s \in DOMAIN snapshot THEN snapshot[s].value ELSE Removed]
=============================================================================
