------------------------------ MODULE MCEventLog -----------------------------
(* EventLog on small instances. *)
EXTENDS EventLog, TLC

\* Aggregates are not permuted: the idle replayer's `agg` is a CHOOSE.
Symmetry ==
  Permutations(EventId) \union Permutations(Owner) \union Permutations(Replayer)

=============================================================================
