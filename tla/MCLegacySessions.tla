-------------------------- MODULE MCLegacySessions --------------------------
(* LegacySessions alone, for TLC. *)
EXTENDS LegacySessions

CONSTANTS s1, u1, q1, q2
=============================================================================
