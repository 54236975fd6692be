---------------------------- MODULE MCRegistries ----------------------------
(* Instances of LegacySessions and Subscriptions for TLC: which clients a     *)
(* server has, those of 2025-11-25 or those of the draft, `clients' says.     *)
EXTENDS LegacySessions, Subscriptions, TLC

CONSTANTS s1, s2, s3, u1, q1, q2, l1, l2, x1, c1, c2, p1, p2
VARIABLE clients

Symmetric == Permutations({s1, s2, s3}) \cup Permutations({q1, q2})
OneEach == [x \in Targets |-> IF x = l1 THEN c1 ELSE c2]
Everything == [x \in Targets |-> {"list", "updated"}]

ClientsInit == Init /\ LegacyInit /\ clients \in {"draft", "legacy"}
DraftStep == clients = "draft" /\ Next /\ UNCHANGED <<clients, legacyVars>>
LegacyStep == clients = "legacy" /\ LegacyNext /\ UNCHANGED <<clients, vars>>
ClientsSpec ==
    ClientsInit /\ [][DraftStep \/ LegacyStep]_<<clients, vars, legacyVars>>

\* Both registries keep their types and their capacities.
RegistriesTypeOK == TypeOK /\ LegacyTypeOK
=============================================================================
