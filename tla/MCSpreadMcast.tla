--------------------------- MODULE MCSpreadMcast ---------------------------
(***************************************************************************)
(* The instance of SpreadMcast for TLC: processes with different numbers   *)
(* of messages, so that some finish while others still have windows to go. *)
(***************************************************************************)
EXTENDS SpreadMcast

MCNumMessages == [p \in Procs |-> CASE p = 1 -> 3 [] p = 2 -> 4 [] OTHER -> 0]
=============================================================================
