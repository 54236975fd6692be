------------------------------ MODULE JwksCache ------------------------------
(***************************************************************************)
(* The signing keys of a resource server (turbomcp-auth/src/jwks.rs): a key *)
(* set that is cached for a while, fetched by whoever finds it stale, and   *)
(* fetched once more by whoever misses a key in it.  Look-ups run           *)
(* concurrently and nothing orders their fetches: the response that arrives *)
(* last is what is cached, and it counts as fresh from its arrival.         *)
(*                                                                          *)
(* The authorization server publishes a key and later retires it.  Time is  *)
(* counted in ticks; a response takes at most Delay of them.                *)
(***************************************************************************)
EXTENDS Naturals

CONSTANTS
    SigningKeys,
    Lookups,      \* look-ups, each for one kid
    KidOf,        \* [Lookups -> SigningKeys]
    Ttl,          \* how long a cached set counts as fresh
    Delay         \* assumed: from the server's answer to its arrival

ASSUME JwksAssumption ==
    /\ KidOf \in [Lookups -> SigningKeys]
    /\ Ttl \in Nat /\ Delay \in Nat

None == [set |-> {}, age |-> Ttl]

VARIABLES
    keyState,    \* unborn, published or retired
    sinceRetired, \* ticks, up to the age that matters
    cached,      \* the set, and how long ago it was stored
    lookup,      \* where each look-up is
    steady       \* look-ups whose key has been published since they began

jwksVars == <<keyState, sinceRetired, cached, lookup, steady>>

Published == {k \in SigningKeys : keyState[k] = "published"}
Horizon == Ttl + Delay
Resting == [at |-> "idle", force |-> FALSE, set |-> {}, age |-> 0]

JwksTypeOK ==
    /\ keyState \in [SigningKeys -> {"unborn", "published", "retired"}]
    /\ sinceRetired \in [SigningKeys -> 0..(Horizon + 1)]
    /\ cached \in [set : SUBSET SigningKeys, age : 0..Ttl]
    /\ lookup \in [Lookups -> [at : {"idle", "try", "asked", "arriving", "found",
                                     "missed", "failed"},
                               force : BOOLEAN, set : SUBSET SigningKeys, age : 0..Delay]]
    /\ steady \subseteq Lookups

JwksInit ==
    /\ keyState \in [SigningKeys -> {"unborn", "published"}]
    /\ sinceRetired = [k \in SigningKeys |-> 0]
    /\ cached = None
    /\ lookup = [q \in Lookups |-> Resting]
    /\ steady = {}

-----------------------------------------------------------------------------
(* decoding_key.                                                            *)

Pending(q, at) == lookup[q].at = at
Step(q, r) == lookup' = [lookup EXCEPT ![q] = r]

Ask(q) ==
    /\ Pending(q, "idle")
    /\ Step(q, [Resting EXCEPT !.at = "try"])
    /\ steady' = IF KidOf[q] \in Published THEN steady \cup {q} ELSE steady
    /\ UNCHANGED <<keyState, sinceRetired, cached>>

\* The kid in a set: the key, another try that is forced, or the end.
Searched(q, set) ==
    IF KidOf[q] \in set THEN [lookup[q] EXCEPT !.at = "found", !.set = {}]
    ELSE IF lookup[q].force THEN [lookup[q] EXCEPT !.at = "missed", !.set = {}]
    ELSE [lookup[q] EXCEPT !.at = "try", !.force = TRUE, !.set = {}]

\* key_set: a set that was stored less than a ttl ago will do, unless a fetch
\* is forced.
TryCache(q) ==
    /\ Pending(q, "try")
    /\ IF ~lookup[q].force /\ cached.age < Ttl
       THEN Step(q, Searched(q, cached.set))
       ELSE Step(q, [lookup[q] EXCEPT !.at = "asked"])
    /\ UNCHANGED <<keyState, sinceRetired, cached, steady>>

\* The authorization server answers with what it publishes now ...
Answers(q) ==
    /\ Pending(q, "asked")
    /\ Step(q, [lookup[q] EXCEPT !.at = "arriving", !.set = Published, !.age = 0])
    /\ UNCHANGED <<keyState, sinceRetired, cached, steady>>

\* Slip: what is searched is what is cached by now.
ArrivesReread(q) ==
    /\ Pending(q, "arriving")
    /\ cached' = IF cached.age < Ttl THEN cached ELSE [set |-> lookup[q].set, age |-> 0]
    /\ Step(q, Searched(q, cached'.set))
    /\ UNCHANGED <<keyState, sinceRetired, steady>>

\* ... and the response is cached when it arrives, whatever is cached by then,
\* and searched.
Arrives(q) ==
    /\ Pending(q, "arriving")
    /\ cached' = [set |-> lookup[q].set, age |-> 0]
    /\ Step(q, Searched(q, lookup[q].set))
    /\ UNCHANGED <<keyState, sinceRetired, steady>>

\* A fetch that fails ends the look-up; the cache stays.
FetchFails(q) ==
    /\ Pending(q, "asked") \/ Pending(q, "arriving")
    /\ Step(q, [lookup[q] EXCEPT !.at = "failed", !.set = {}])
    /\ UNCHANGED <<keyState, sinceRetired, cached, steady>>

-----------------------------------------------------------------------------
(* The authorization server and the clock.                                  *)

Publish(k) ==
    /\ keyState[k] = "unborn"
    /\ keyState' = [keyState EXCEPT ![k] = "published"]
    /\ UNCHANGED <<sinceRetired, cached, lookup, steady>>

Retire(k) ==
    /\ keyState[k] = "published"
    /\ keyState' = [keyState EXCEPT ![k] = "retired"]
    /\ steady' = {q \in steady : KidOf[q] # k}
    /\ UNCHANGED <<sinceRetired, cached, lookup>>

Elapse ==
    /\ \A q \in Lookups : Pending(q, "arriving") => lookup[q].age < Delay
    /\ sinceRetired' = [k \in SigningKeys |->
           IF keyState[k] = "retired" /\ sinceRetired[k] <= Horizon
           THEN sinceRetired[k] + 1 ELSE sinceRetired[k]]
    /\ cached' = [cached EXCEPT !.age = IF @ < Ttl THEN @ + 1 ELSE @]
    /\ lookup' = [q \in Lookups |-> IF Pending(q, "arriving")
                                    THEN [lookup[q] EXCEPT !.age = @ + 1] ELSE lookup[q]]
    /\ UNCHANGED <<keyState, steady>>

JwksNext ==
    \/ \E q \in Lookups : \/ Ask(q) \/ TryCache(q) \/ Answers(q) \/ Arrives(q)
                          \/ FetchFails(q)
    \/ \E k \in SigningKeys : Publish(k) \/ Retire(k)
    \/ Elapse

JwksSpec == JwksInit /\ [][JwksNext]_jwksVars

-----------------------------------------------------------------------------
(* Properties.                                                              *)

\* decoding_key finds a key that was published all the while, unless a fetch of
\* it failed, however old the cached set and whichever fetches overtook its own;
\* and a key it finds was retired less than a ttl and a response's delay ago,
\* although an older set may replace a newer one.
KeysAreCurrent ==
    [][\A q \in Lookups :
        /\ lookup[q].at # "missed" /\ lookup'[q].at = "missed" => q \notin steady
        /\ lookup[q].at # "found" /\ lookup'[q].at = "found" =>
             /\ keyState[KidOf[q]] # "unborn"
             /\ sinceRetired[KidOf[q]] <= Horizon]_jwksVars
=============================================================================
