--------------------------- MODULE MCWireAndCache ---------------------------
(* Instances of Wire and ResponseCache for TLC: what a client says and hears,  *)
(* or what it remembers of the answers, as `side' says.                        *)
EXTENDS MCWire, ResponseCache

CONSTANTS a, b
VARIABLE side

KeyTools == [method |-> "tools/list", disc |-> "none"]
KeyList == [method |-> "resources/list", disc |-> "none"]
KeyRead == [method |-> "resources/read", disc |-> "uri"]
ThreeKeys == {KeyTools, KeyList, KeyRead}
NewTools == [method |-> "tools/list_changed", uri |-> "none"]
NewResources == [method |-> "resources/list_changed", uri |-> "none"]
NewContents == [method |-> "resources/updated", uri |-> "uri"]
AllNotices == {NewTools, NewResources, NewContents}

\* The cache does not depend on whom the client talks to.
SomePeer == CHOOSE peer \in {Draft} \X FeatureSets \X CapabilitySets : TRUE

SidesInit ==
    /\ Init /\ CacheInit /\ side \in {"wire", "cache"}
    /\ side = "cache" => <<version, features, declared>> = SomePeer
WireStep == side = "wire" /\ Next /\ UNCHANGED <<side, cacheVars>>
CacheStep == side = "cache" /\ CacheNext /\ UNCHANGED <<side, vars>>
SidesSpec == SidesInit /\ [][WireStep \/ CacheStep]_<<side, vars, cacheVars>>
=============================================================================
