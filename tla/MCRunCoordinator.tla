-------------------------- MODULE MCRunCoordinator ---------------------------
(* RunCoordinator on a small instance. *)
EXTENDS RunCoordinator, TLC

==============================================================================
