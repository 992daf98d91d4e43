--------------------------- MODULE MCSessionRunner ---------------------------
(* SessionRunner on a small instance. *)
EXTENDS SessionRunner, TLC

==============================================================================
