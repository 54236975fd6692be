---------------------------- MODULE Subscriptions ----------------------------
(***************************************************************************)
(* Change notifications of turbomcp-server: the draft subscriptions opened *)
(* by subscriptions/listen, the legacy sessions, and the tasks that        *)
(* publish to both.  Requests and notifications are handled by concurrent  *)
(* tasks, each of which takes the in-flight table and the registry one     *)
(* critical section at a time and may wait on a connection's writer in     *)
(* between; the Tasks extension keeps a subscriber table of its own.       *)
(*                                                                         *)
(* A change is a number.  A notification says "fetch again", so a client   *)
(* that gets one knows every change made before it was sent.               *)
(***************************************************************************)
EXTENDS Naturals, Sequences, FiniteSets

CONSTANTS
    Subs,         \* listen requests: (connection, request id) pairs
    TaskSubs,     \* those with a taskIds filter
    LegacyRoutes, \* legacy sessions with a route
    Conns,
    ConnOf,       \* [Subs \cup LegacyRoutes -> Conns]
    Wants,        \* what each agreed to: a listen filter or subscribed uris
    Publishers,   \* slots for publishing tasks
    MaxChanges,   \* bound: *_list_changed events
    MaxOthers     \* bound: resource updates and task status changes

Targets == Subs \cup LegacyRoutes

ASSUME SubscriptionsAssumption ==
    /\ Subs \cap LegacyRoutes = {} /\ TaskSubs \subseteq Subs
    /\ ConnOf \in [Targets -> Conns]
    /\ Wants \in [Targets -> SUBSET {"list", "updated"}]
    /\ \A x \in LegacyRoutes : "list" \in Wants[x]
    /\ MaxChanges \in Nat /\ MaxOthers \in Nat

VARIABLES
    listen,     \* where the handler of each listen request is
    cancel,     \* where the handler of its notifications/cancelled is
    inflight,   \* requests in the in-flight table
    fired,      \* requests whose cancellation token has fired
    missed,     \* history: cancellations that found nothing to cancel
    registry,   \* the live subscriptions
    taskTable,  \* the extension's subscriber table
    conn,       \* open, leaving (writer unregistered) or gone
    stream,     \* what each target was sent, in order
    changes,    \* list changes so far
    others,     \* other events so far
    told,       \* the last change each target can know of
    pending,    \* the coalescing flag
    pub,        \* the publishing tasks
    closing     \* listen requests that close_all calls still have to answer

reqVars == <<listen, cancel, inflight, fired, missed>>
pubVars == <<changes, others, pending, pub>>
vars == <<reqVars, registry, taskTable, conn, stream, told, pubVars, closing>>

Idle == [at |-> "idle", todo |-> {}, kind |-> "none"]
Sleeping == {p \in Publishers : pub[p].at = "sleep"}
Messages == {"ack", "list", "updated", "task", "result"}

\* `pending` is the promise of a flush to come: one sleeper, never two.
TypeOK ==
    /\ listen \in [Subs -> {"unsent", "read", "acking", "acked", "inserted", "done"}]
    /\ cancel \in [Subs -> {"no", "read", "removing", "handled"}]
    /\ inflight \subseteq Subs /\ fired \subseteq Subs /\ missed \subseteq Subs
    /\ registry \subseteq Subs /\ taskTable \subseteq TaskSubs
    /\ conn \in [Conns -> {"open", "leaving", "gone"}]
    /\ stream \in [Targets -> Seq(Messages)]
    /\ changes \in 0..MaxChanges /\ others \in 0..MaxOthers
    /\ told \in [Targets -> 0..MaxChanges]
    /\ pending \in BOOLEAN
    /\ Cardinality(Sleeping) = IF pending THEN 1 ELSE 0
    /\ \A p \in Publishers : pub[p].todo \subseteq Targets
    /\ closing \subseteq Subs

Init ==
    /\ listen = [s \in Subs |-> "unsent"]
    /\ cancel = [s \in Subs |-> "no"]
    /\ inflight = {} /\ fired = {} /\ missed = {}
    /\ registry = {} /\ taskTable = {}
    /\ conn = [c \in Conns |-> "open"]
    /\ stream = [x \in Targets |-> <<>>]
    /\ changes = 0 /\ others = 0
    /\ told = [x \in Targets |-> 0]
    /\ pending = FALSE
    /\ pub = [p \in Publishers |-> Idle]
    /\ closing = {}

State(x) == conn[ConnOf[x]]

\* What a send to a target can come to: a registered writer takes it; after
\* the unregistration only a clone that was looked up earlier does.
Reaches(x) == State(x) # "gone"
Misses(x) == State(x) # "open"
Put(x, m) == stream' = [stream EXCEPT ![x] = Append(@, m)]

-----------------------------------------------------------------------------
(* subscriptions/listen.                                                    *)

ClientListens(s) ==
    /\ listen[s] = "unsent" /\ State(s) = "open"
    /\ listen' = [listen EXCEPT ![s] = "read"]
    /\ UNCHANGED <<cancel, inflight, fired, missed, registry, taskTable, conn, stream,
                   told, pubVars, closing>>

\* Slip: the subscription is entered before its acknowledgment is sent.
StartListenInserting(s) ==
    /\ listen[s] = "read"
    /\ IF State(s) = "open"
       THEN /\ listen' = [listen EXCEPT ![s] = "acking"]
            /\ inflight' = inflight \cup {s}
            /\ taskTable' = taskTable \cup ({s} \cap TaskSubs)
            /\ registry' = registry \cup {s}
            /\ told' = [told EXCEPT ![s] = changes]
       ELSE /\ listen' = [listen EXCEPT ![s] = "done"]
            /\ UNCHANGED <<inflight, taskTable, registry, told>>
    /\ UNCHANGED <<cancel, fired, missed, conn, stream, pubVars, closing>>

\* Up to the first await: in-flight table, writer, filter, extensions.  Without
\* a writer the request is refused and its guard dropped.
StartListen(s) ==
    /\ listen[s] = "read"
    /\ IF State(s) = "open"
       THEN /\ listen' = [listen EXCEPT ![s] = "acking"]
            /\ inflight' = inflight \cup {s}
            /\ taskTable' = taskTable \cup ({s} \cap TaskSubs)
       ELSE /\ listen' = [listen EXCEPT ![s] = "done"]
            /\ UNCHANGED <<inflight, taskTable>>
    /\ UNCHANGED <<cancel, fired, missed, registry, conn, stream, told, pubVars, closing>>

\* The acknowledgment; if the connection is gone there is nothing to answer.
SendAck(s) ==
    /\ listen[s] = "acking"
    /\ IF Reaches(s)
       THEN /\ Put(s, "ack")
            /\ listen' = [listen EXCEPT ![s] = "acked"]
            /\ UNCHANGED inflight
       ELSE /\ listen' = [listen EXCEPT ![s] = "done"]
            /\ inflight' = inflight \ {s}
            /\ UNCHANGED stream
    /\ UNCHANGED <<cancel, fired, missed, registry, taskTable, conn, told, pubVars,
                   closing>>

InsertSub(s) ==
    /\ listen[s] = "acked"
    /\ registry' = registry \cup {s}
    /\ told' = [told EXCEPT ![s] = changes]
    /\ listen' = [listen EXCEPT ![s] = "inserted"]
    /\ UNCHANGED <<cancel, inflight, fired, missed, taskTable, conn, stream, pubVars,
                   closing>>

\* Slip: the token is not looked at again.
FinishListenUnchecked(s) ==
    /\ listen[s] = "inserted"
    /\ listen' = [listen EXCEPT ![s] = "done"]
    /\ inflight' = inflight \ {s}
    /\ UNCHANGED <<cancel, fired, missed, registry, taskTable, conn, stream, told,
                   pubVars, closing>>

\* A cancellation that raced the dispatch is honored.
FinishListen(s) ==
    /\ listen[s] = "inserted"
    /\ registry' = IF s \in fired THEN registry \ {s} ELSE registry
    /\ listen' = [listen EXCEPT ![s] = "done"]
    /\ inflight' = inflight \ {s}
    /\ UNCHANGED <<cancel, fired, missed, taskTable, conn, stream, told, pubVars,
                   closing>>

-----------------------------------------------------------------------------
(* notifications/cancelled.                                                 *)

ClientCancels(s) ==
    /\ listen[s] # "unsent" /\ cancel[s] = "no" /\ State(s) = "open"
    /\ cancel' = [cancel EXCEPT ![s] = "read"]
    /\ UNCHANGED <<listen, inflight, fired, missed, registry, taskTable, conn, stream,
                   told, pubVars, closing>>

FireToken(s) ==
    /\ cancel[s] = "read"
    /\ fired' = IF s \in inflight THEN fired \cup {s} ELSE fired
    /\ cancel' = [cancel EXCEPT ![s] = "removing"]
    /\ UNCHANGED <<listen, inflight, missed, registry, taskTable, conn, stream, told,
                   pubVars, closing>>

RemoveCancelled(s) ==
    /\ cancel[s] = "removing"
    /\ registry' = registry \ {s}
    /\ missed' = IF s \in fired \cup registry THEN missed ELSE missed \cup {s}
    /\ cancel' = [cancel EXCEPT ![s] = "handled"]
    /\ UNCHANGED <<listen, inflight, fired, taskTable, conn, stream, told,
                   pubVars, closing>>

-----------------------------------------------------------------------------
(* Publishing.                                                              *)

Spawn(p, at, kind) ==
    /\ pub[p] = Idle
    /\ pub' = [pub EXCEPT ![p] = [at |-> at, todo |-> {}, kind |-> kind]]

\* Slip: the flag is set but not tested.
ScheduleAlways(p) ==
    /\ changes < MaxChanges
    /\ changes' = changes + 1
    /\ pending' = TRUE
    /\ Spawn(p, "sleep", "list")
    /\ UNCHANGED <<reqVars, registry, taskTable, conn, stream, told, others,
                   closing>>

\* schedule_list_changed: the first of a burst spawns the flush.
Schedule(p) ==
    /\ changes < MaxChanges
    /\ changes' = changes + 1
    /\ pending' = TRUE
    /\ \/ pending /\ UNCHANGED pub
       \/ ~pending /\ Spawn(p, "sleep", "list")
    /\ UNCHANGED <<reqVars, registry, taskTable, conn, stream, told, others,
                   closing>>

\* Slip: the window stays closed while the flush publishes.
WakeHolding(p) ==
    /\ pub[p].at = "sleep"
    /\ pub' = [pub EXCEPT ![p].at = "start"]
    /\ UNCHANGED <<reqVars, registry, taskTable, conn, stream, told, changes,
                   others, pending, closing>>

\* The window ends: the flag is lowered before anything is published.
Wake(p) ==
    /\ pub[p].at = "sleep"
    /\ pending' = FALSE
    /\ pub' = [pub EXCEPT ![p].at = "start"]
    /\ UNCHANGED <<reqVars, registry, taskTable, conn, stream, told, changes,
                   others, closing>>

\* publish_resource_updated is not coalesced.
ResourceUpdated(p) ==
    /\ others < MaxOthers
    /\ others' = others + 1
    /\ Spawn(p, "start", "updated")
    /\ UNCHANGED <<reqVars, registry, taskTable, conn, stream, told, changes,
                   pending, closing>>

Wanting(xs, p) == {x \in xs : pub[p].kind \in Wants[x]}

\* publish: the targets are read under the lock ...
TakeTargets(p) ==
    /\ pub[p].at = "start"
    /\ pub' = [pub EXCEPT ![p].at = "draft",
                           ![p].todo = Wanting(registry, p)]
    /\ UNCHANGED <<reqVars, registry, taskTable, conn, stream, told, changes,
                   others, pending, closing>>

Knows(x, kind) ==
    told' = IF kind = "list" THEN [told EXCEPT ![x] = changes] ELSE told

\* ... and served one by one without it; one that cannot be reached is pruned.
Deliver(p, s) ==
    /\ pub[p].at = "draft" /\ s \in pub[p].todo
    /\ \/ /\ Reaches(s)
          /\ Put(s, pub[p].kind)
          /\ Knows(s, pub[p].kind)
          /\ UNCHANGED registry
       \/ /\ Misses(s)
          /\ registry' = registry \ {s}
          /\ UNCHANGED <<stream, told>>
    /\ pub' = [pub EXCEPT ![p].todo = @ \ {s}]
    /\ UNCHANGED <<reqVars, taskTable, conn, changes, others, pending, closing>>

\* publish_legacy follows, over the sessions with a route; nobody is pruned.
TakeSessions(p) ==
    /\ pub[p].at = "draft" /\ pub[p].todo = {}
    /\ pub' = [pub EXCEPT ![p].at = "legacy",
                           ![p].todo = Wanting(LegacyRoutes, p)]
    /\ UNCHANGED <<reqVars, registry, taskTable, conn, stream, told, changes,
                   others, pending, closing>>

DeliverLegacy(p, x) ==
    /\ pub[p].at = "legacy" /\ x \in pub[p].todo
    /\ \/ Reaches(x) /\ Put(x, pub[p].kind) /\ Knows(x, pub[p].kind)
       \/ Misses(x) /\ UNCHANGED <<stream, told>>
    /\ pub' = [pub EXCEPT ![p].todo = @ \ {x}]
    /\ UNCHANGED <<reqVars, registry, taskTable, conn, changes, others, pending,
                   closing>>

Published(p) ==
    /\ pub[p].at = "legacy" /\ pub[p].todo = {}
    /\ pub' = [pub EXCEPT ![p] = Idle]
    /\ UNCHANGED <<reqVars, registry, taskTable, conn, stream, told, changes,
                   others, pending, closing>>

\* The extension's push_status, one subscriber at a time; a connection without
\* a writer loses all its subscribers.
PushTaskStatus(s) ==
    /\ others < MaxOthers
    /\ s \in taskTable
    /\ others' = others + 1
    /\ \/ Reaches(s) /\ Put(s, "task") /\ UNCHANGED taskTable
       \/ /\ Misses(s)
          /\ taskTable' = {t \in taskTable : ConnOf[t] # ConnOf[s]}
          /\ UNCHANGED stream
    /\ UNCHANGED <<reqVars, registry, conn, told, changes, pending, pub, closing>>

-----------------------------------------------------------------------------
(* close_all and the connections.                                           *)

\* The registry is drained at once ...
CloseAll ==
    /\ closing' = closing \cup registry
    /\ registry' = {}
    /\ UNCHANGED <<reqVars, taskTable, conn, stream, told, pubVars>>

\* ... and each listen request answered in turn.
AnswerListen(s) ==
    /\ s \in closing
    /\ \/ Reaches(s) /\ Put(s, "result")
       \/ Misses(s) /\ UNCHANGED stream
    /\ closing' = closing \ {s}
    /\ UNCHANGED <<reqVars, registry, taskTable, conn, told, pubVars>>

\* The writer registration goes first, the channel's receiver last.
Leave(c) ==
    /\ conn[c] # "gone"
    /\ conn' = [conn EXCEPT ![c] = IF @ = "open" THEN "leaving" ELSE "gone"]
    /\ UNCHANGED <<reqVars, registry, taskTable, stream, told, pubVars, closing>>

-----------------------------------------------------------------------------
HandlerStep(s) == \/ StartListen(s) \/ SendAck(s) \/ InsertSub(s)
                  \/ FinishListen(s) \/ FireToken(s) \/ RemoveCancelled(s)
PublishStep(p) ==
    \/ Wake(p) \/ TakeTargets(p) \/ TakeSessions(p) \/ Published(p)
    \/ \E s \in Subs : Deliver(p, s)
    \/ \E x \in LegacyRoutes : DeliverLegacy(p, x)

Next ==
    \/ \E s \in Subs : \/ ClientListens(s) \/ ClientCancels(s) \/ HandlerStep(s)
                       \/ PushTaskStatus(s) \/ AnswerListen(s)
    \/ \E p \in Publishers : Schedule(p) \/ ResourceUpdated(p) \/ PublishStep(p)
    \/ CloseAll
    \/ \E c \in Conns : Leave(c)

Spec == Init /\ [][Next]_vars
-----------------------------------------------------------------------------
(* Properties.                                                              *)

\* "Acknowledged MUST be the first message on the stream": the registry sends
\* nothing on a subscription before its one acknowledgment, and it is answered at
\* most once.  Task pushes are the extension's, whose table has it earlier.
AcknowledgedFirst ==
    \A s \in Subs : \A i \in DOMAIN stream[s] :
        /\ stream[s][i] \in {"list", "updated", "result"} =>
             \E k \in 1..(i - 1) : stream[s][k] = "ack"
        /\ stream[s][i] \in {"ack", "result"} =>
             \A j \in DOMAIN stream[s] : stream[s][j] = stream[s][i] => i = j

\* The subscription has ended: a cancellation that found it was handled and its
\* own handler is through, or it was answered.
Answered(s) == \E i \in DOMAIN stream[s] : stream[s][i] = "result"
Ended(s) == \/ cancel[s] = "handled" /\ s \notin missed /\ listen[s] = "done"
            \/ Answered(s)
Addressed(s) == s \in closing \/ \E p \in Publishers : s \in pub[p].todo

\* "Cancelling the listen request id is how a stdio client closes its stream",
\* in whatever order the handlers of the two frames take their steps: a
\* subscription that has ended is sent nothing more (but task pushes) and made a
\* target by nobody; only who had taken it as a target before may still send.
EndedIsSilent ==
    [][\A s \in Subs : Ended(s) /\ ~Addressed(s) =>
        stream'[s] \in {stream[s], Append(stream[s], "task")} /\ ~Addressed(s)']_vars

\* Coalescing loses no change: once every publisher is through, everyone who is
\* subscribed and reachable has been told since the last change.
NoLostChange ==
    (\A p \in Publishers : pub[p] = Idle) =>
        \A x \in registry \cup LegacyRoutes :
            "list" \in Wants[x] /\ State(x) = "open" => told[x] = changes

\* A subscription is acknowledged before, and told after, every change.
SubscribersAreTold == AcknowledgedFirst /\ NoLostChange
=============================================================================
