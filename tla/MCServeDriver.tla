---------------------------- MODULE MCServeDriver ----------------------------
(* Instances of ServeDriver for TLC. *)
EXTENDS ServeDriver, TLC

CONSTANTS c1, c2, c3, c4, n1, x1, p1

NoAnswers == <<>>
OneAnswer == x1 :> c1
=============================================================================
