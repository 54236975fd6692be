------------------------- MODULE MCClientConnection -------------------------
(* Instances of ClientConnection for TLC. *)
EXTENDS ClientConnection

CONSTANTS r1, r2, s1
=============================================================================
