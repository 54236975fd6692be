-------------------------------- MODULE MCTasks --------------------------------
(* Instances of DraftTasks and LegacyTasks for TLC: a server has one store or  *)
(* the other, which `store' says.                                              *)
EXTENDS DraftTasks, LegacyTasks

CONSTANTS t1, t2, o1, o2, w1
VARIABLE store

Makers == <<o1, o2, o1>>
Asking == [w \in Waiters |-> o1]

StoreInit == Init /\ LegacyTasksInit /\ store \in {"draft", "legacy"}
DraftStep == store = "draft" /\ Next /\ UNCHANGED <<store, legacyTaskVars>>
LegacyStep == store = "legacy" /\ LegacyTasksNext /\ UNCHANGED <<store, vars>>
StoreNext == DraftStep \/ LegacyStep

\* Calls end by themselves or by their token, and spawned tasks are polled.
FairStore ==
    /\ StoreInit /\ [][StoreNext]_<<store, vars, legacyTaskVars>>
    /\ \A w \in Waiters :
         /\ WF_legacyTaskVars(store = "legacy" /\ Look(w) /\ UNCHANGED <<store, vars>>)
         /\ WF_legacyTaskVars(store = "legacy" /\ WakeUp(w) /\ UNCHANGED <<store, vars>>)
    /\ \A t \in Ids : WF_legacyTaskVars(
         store = "legacy" /\ (WorkEnds(t) \/ WorkStops(t)) /\ UNCHANGED <<store, vars>>)

\* Both stores keep their types and their capacity.
StoresTypeOK == TypeOK /\ LegacyTasksTypeOK
\* Neither store leaves work behind, when a task is cancelled or purged.
NoWorkIsOrphaned == NoOrphanedWork /\ NoWorkLeftBehind
\* Both stores show a task in the steps of its life cycle.
FollowsLifecycle == ImplementsLifecycle /\ LegacyFollowsLifecycle
=============================================================================
