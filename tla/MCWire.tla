------------------------------- MODULE MCWire -------------------------------
(* Three servers (nothing registered but resources, prompts and completions, *)
(* everything with and without tasks) and five clients, one of which         *)
(* declares what the schema does not know.                                   *)
EXTENDS Wire

Everything == {"tools", "resources", "prompts", "completions", "logging"}
MCFeatureSets == {{"resources", "prompts", "completions"}, Everything \union {"extension"},
                  Everything \union {"tasks"}}
Marker == Obj(EmptyMap)
MCCapabilitySets ==
  {Marker, Obj([elicitation |-> Marker]),
   Obj([elicitation |-> Obj([form |-> Marker]), sampling |-> Marker]),
   Obj([roots |-> Obj([listChanged |-> Token("true")])]),
   Obj([roots |-> Token("yes")])}
MCDefaultPolicy == [ttlMs |-> 7, scope |-> "public"]
=============================================================================
