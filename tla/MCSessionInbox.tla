--------------------------- MODULE MCSessionInbox ----------------------------
(* SessionInbox on a small instance. *)
EXTENDS SessionInbox, TLC

\* Ids and clients are interchangeable.
Symmetry == Permutations(Id) \union Permutations(Client)

==============================================================================
