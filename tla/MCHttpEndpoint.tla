---------------------------- MODULE MCHttpEndpoint ----------------------------
(* Instances of HttpEndpoint for TLC. *)
EXTENDS HttpEndpoint

CONSTANTS c1

Modern == {<<"dual", "modern">>}
=============================================================================
