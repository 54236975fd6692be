---------------------------- MODULE LegacySessions ----------------------------
(***************************************************************************)
(* Legacy (2025-11-25) sessions of turbomcp-server: the session store, the *)
(* routes the subscription registry keeps per session, and the dispatcher  *)
(* that has to keep the two in step although "the session store and the    *)
(* subscription registry don't know about each other".  Requests run       *)
(* concurrently; each critical section of a request is one action.         *)
(*                                                                         *)
(* Time: the store only ever compares last_seen, so what is kept is which  *)
(* session was seen before which, and for which of them the idle timeout   *)
(* has passed, the longest unseen first.  Every session id is minted once. *)
(***************************************************************************)
EXTENDS Naturals, FiniteSets

CONSTANTS
    Sessions,      \* the ids the transport can mint
    Uris,
    Requests,      \* slots for concurrently handled requests
    Operations,    \* which requests clients send
    Capacity,      \* SessionStore capacity
    MaxRoutes,     \* MAX_LEGACY_ROUTES
    IdleTimeout    \* an idle timeout is configured

AllOperations == {"initialize", "call", "subscribe", "unsubscribe", "setLevel",
                  "delete"}

ASSUME SessionsAssumption ==
    /\ IsFiniteSet(Sessions)
    /\ Capacity \in Nat \ {0} /\ MaxRoutes \in Nat \ {0}
    /\ Operations \subseteq AllOperations
    /\ IdleTimeout \in BOOLEAN

VARIABLES
    live,       \* the sessions in the store
    before,     \* <<s, t>>: s was last seen before t was
    idle,       \* those past the idle timeout
    minted,     \* ids handed out so far
    closed,     \* history: sessions that a DELETE or a sweep has ended
    raced,      \* history: those of them that had a request past its look-up
    routes,     \* session -> subscribed uris, for the sessions with a route
    acked,      \* history: <<session, uri>> subscribed, not unsubscribed or evicted
    req,        \* the requests being handled
    poisoned    \* a panic while the route table was locked

ended == <<closed, raced>>
storeVars == <<live, before, idle>>
legacyVars == <<storeVars, minted, ended, routes, acked, req, poisoned>>

Routed == DOMAIN routes
Free == [op |-> "none"]

\* Of two live sessions one was seen before the other.
InOneOrder == \A s, t \in live : <<s, t>> \in before <=> s # t /\ <<t, s>> \notin before

LegacyTypeOK ==
    /\ live \cup closed \subseteq minted /\ minted \subseteq Sessions
    /\ Cardinality(live) <= Capacity
    /\ before \subseteq live \X live /\ InOneOrder
    /\ idle \subseteq live
    /\ raced \subseteq closed
    /\ routes \in UNION {[R -> SUBSET Uris] : R \in SUBSET Sessions}
    /\ Cardinality(Routed) <= MaxRoutes
    /\ acked \subseteq Sessions \X Uris
    /\ \A q \in Requests : req[q].op \in {"none"} \cup AllOperations
    /\ poisoned \in BOOLEAN

LegacyInit ==
    /\ live = {} /\ before = {} /\ idle = {}
    /\ minted = {} /\ closed = {} /\ raced = {}
    /\ routes = <<>>
    /\ acked = {}
    /\ req = [q \in Requests |-> Free]
    /\ poisoned = FALSE

-----------------------------------------------------------------------------
(* Critical sections of the session store.                                  *)

\* What the store knows of some of its sessions.
Among(kept) == before \cap (kept \X kept)
LeastRecent(some) == {s \in some : \A t \in some \ {s} : <<s, t>> \in before}

\* remove, sweep_expired: sessions leave.
Drop(gone) ==
    /\ live' = live \ gone
    /\ before' = Among(live \ gone)
    /\ idle' = idle \ gone

\* get, set_log_level: a session that was seen becomes the most recent one.
Refresh(s) ==
    /\ before' = Among(live \ {s}) \cup ((live \ {s}) \X {s})
    /\ idle' = idle \ {s}
    /\ UNCHANGED live

\* Slip: the cap is checked after the insertion, off by one.
InsertOneMore(s) ==
    \E kept \in IF Cardinality(live) <= Capacity
                THEN {live} ELSE {live \ {oldest} : oldest \in LeastRecent(live)} :
        /\ live' = kept \cup {s}
        /\ before' = Among(kept) \cup (kept \X {s})
        /\ idle' = idle \cap kept

\* insert: at capacity the least recently seen session makes room.
Insert(s) ==
    \E kept \in IF Cardinality(live) < Capacity
                THEN {live} ELSE {live \ {oldest} : oldest \in LeastRecent(live)} :
        /\ live' = kept \cup {s}
        /\ before' = Among(kept) \cup (kept \X {s})
        /\ idle' = idle \cap kept

-----------------------------------------------------------------------------
(* Critical sections of the route table.                                    *)

\* legacy_touch: at capacity an arbitrary route makes room.
Touched(s) ==
    LET others == IF s \notin Routed /\ Cardinality(Routed) >= MaxRoutes
                  THEN {Routed \ {victim} : victim \in Routed}
                  ELSE {Routed}
    IN  {[t \in kept \cup {s} |-> IF t \in Routed THEN routes[t] ELSE {}] :
            kept \in others}

\* Slip: touch starts the route afresh.
TouchAfresh(s) ==
    /\ \E r \in Touched(s) : routes' = [r EXCEPT ![s] = {}]
    /\ UNCHANGED acked

Touch(s) ==
    /\ routes' \in Touched(s)
    /\ acked' = {subscribed \in acked : subscribed[1] \notin Routed \ DOMAIN routes'}

Unroute(s) == routes' = [t \in Routed \ {s} |-> routes[t]]

-----------------------------------------------------------------------------
(* A request: where it stands is req[q].at.                                 *)

\* The requests that legacy_context lets through for a session it knows.
Gated == {"call", "subscribe", "unsubscribe", "setLevel"}

Goto(q, r) == req' = [req EXCEPT ![q] = r]
Done(q) == Goto(q, Free)
At(q, op, at) == req[q].op = op /\ req[q].at = at

\* The sessions that a request past its look-up, or its initialize, still serves.
Serving == {req[q].sid : q \in {p \in Requests : req[p].op \in Gated \cup {"initialize"}}}
Close(gone) == /\ closed' = closed \cup gone
               /\ raced' = raced \cup (gone \cap Serving)

\* initialize: sweep_idle_sessions reports and drops the idle sessions ...
StartInitialize(q, s) ==
    /\ "initialize" \in Operations
    /\ req[q] = Free /\ s \notin minted
    /\ minted' = minted \cup {s}
    /\ LET swept == IF IdleTimeout THEN idle ELSE {}
       IN  /\ Drop(swept) /\ Close(swept)
           /\ Goto(q, [op |-> "initialize", at |-> "sweep", sid |-> s, todo |-> swept])
    /\ UNCHANGED <<routes, acked, poisoned>>

\* Slip: the sweep leaves the routes to the table.
SweepNoRoute(q, t) ==
    /\ At(q, "initialize", "sweep") /\ ~poisoned
    /\ t \in req[q].todo
    /\ Goto(q, [req[q] EXCEPT !.todo = @ \ {t}])
    /\ UNCHANGED <<storeVars, minted, ended, routes, acked, poisoned>>

\* ... and tears their routes down one by one;
SweepRoute(q, t) ==
    /\ At(q, "initialize", "sweep") /\ ~poisoned
    /\ t \in req[q].todo
    /\ Unroute(t)
    /\ Goto(q, [req[q] EXCEPT !.todo = @ \ {t}])
    /\ UNCHANGED <<storeVars, minted, ended, acked, poisoned>>

\* then the session is stored,
StoreSession(q) ==
    /\ At(q, "initialize", "sweep")
    /\ req[q].todo = {}
    /\ Insert(req[q].sid)
    /\ Goto(q, [req[q] EXCEPT !.at = "touch"])
    /\ UNCHANGED <<minted, ended, routes, acked, poisoned>>

\* and gets a delivery route.  So does the session of every other request that
\* goes through dispatch_capability.
TouchRoute(q) ==
    /\ At(q, "initialize", "touch") \/ At(q, "call", "touch")
    /\ ~poisoned
    /\ Touch(req[q].sid)
    /\ Done(q)
    /\ UNCHANGED <<storeVars, minted, ended, poisoned>>

\* Every other legacy request: legacy_context looks the session up.
StartKnown(q, op, s, u) ==
    /\ op \in Gated \cap Operations
    /\ req[q] = Free
    /\ s \in live \ idle
    /\ Refresh(s)
    /\ Goto(q, [op |-> op, at |-> "touch", sid |-> s, uri |-> u])
    /\ UNCHANGED <<minted, ended, routes, acked, poisoned>>

\* An idle session is dropped on the spot: "unknown session".
StartExpired(q, op, s) ==
    /\ op \in Gated \cap Operations
    /\ req[q] = Free
    /\ s \in idle
    /\ Drop({s})
    /\ UNCHANGED <<minted, ended, routes, acked, req, poisoned>>

\* legacy_subscribe takes the lock twice: first to touch the route ...
SubscribeTouch(q) ==
    /\ At(q, "subscribe", "touch") /\ ~poisoned
    /\ Touch(req[q].sid)
    /\ Goto(q, [req[q] EXCEPT !.at = "insert"])
    /\ UNCHANGED <<storeVars, minted, ended, poisoned>>

\* ... and then to insert the uri, expecting the route "touched above".
SubscribeInsert(q) ==
    /\ At(q, "subscribe", "insert") /\ ~poisoned
    /\ LET s == req[q].sid
           u == req[q].uri
       IN  IF s \in Routed
           THEN /\ routes' = [routes EXCEPT ![s] = @ \cup {u}]
                /\ acked' = acked \cup {<<s, u>>}
                /\ UNCHANGED poisoned
           ELSE /\ poisoned' = TRUE
                /\ UNCHANGED <<routes, acked>>
    /\ Done(q)
    /\ UNCHANGED <<storeVars, minted, ended>>

Unsubscribe(q) ==
    /\ At(q, "unsubscribe", "touch") /\ ~poisoned
    /\ LET s == req[q].sid
           u == req[q].uri
       IN  /\ routes' = IF s \in Routed
                        THEN [routes EXCEPT ![s] = @ \ {u}] ELSE routes
           /\ acked' = acked \ {<<s, u>>}
    /\ Done(q)
    /\ UNCHANGED <<storeVars, minted, ended, poisoned>>

\* logging/setLevel: a session that is still stored is refreshed.
SetLevel(q) ==
    /\ At(q, "setLevel", "touch")
    /\ IF req[q].sid \in live THEN Refresh(req[q].sid) ELSE UNCHANGED storeVars
    /\ Done(q)
    /\ UNCHANGED <<minted, ended, routes, acked, poisoned>>

\* The client learns its session id from the initialize response.
Initializing(p, s) == req[p].op = "initialize" /\ req[p].sid = s

\* DELETE: terminate_session drops the session, then its route.
StartDelete(q, s) ==
    /\ "delete" \in Operations
    /\ req[q] = Free
    /\ s \in minted /\ \A p \in Requests : ~Initializing(p, s)
    /\ Drop({s}) /\ Close({s})
    /\ Goto(q, [op |-> "delete", at |-> "unroute", sid |-> s])
    /\ UNCHANGED <<minted, routes, acked, poisoned>>

\* Slip: DELETE leaves the route to the next sweep.
DeleteNoRoute(q) ==
    /\ At(q, "delete", "unroute") /\ ~poisoned
    /\ Done(q)
    /\ UNCHANGED <<storeVars, minted, ended, routes, acked, poisoned>>

DeleteRoute(q) ==
    /\ At(q, "delete", "unroute") /\ ~poisoned
    /\ Unroute(req[q].sid)
    /\ Done(q)
    /\ UNCHANGED <<storeVars, minted, ended, acked, poisoned>>

\* A request that needs the poisoned table panics in turn.
Panic(q) ==
    /\ poisoned
    /\ req[q] # Free
    /\ ~At(q, "setLevel", "touch")
    /\ At(q, "initialize", "sweep") => req[q].todo # {}
    /\ Done(q)
    /\ UNCHANGED <<storeVars, minted, ended, routes, acked, poisoned>>

\* The least recently seen of the others goes past its idle timeout.
GrowIdle ==
    /\ IdleTimeout
    /\ \E s \in LeastRecent(live \ idle) : idle' = idle \cup {s}
    /\ UNCHANGED <<live, before, minted, ended, routes, acked, req, poisoned>>

-----------------------------------------------------------------------------
LegacyNext ==
    \/ \E q \in Requests :
        \/ \E s \in Sessions :
            \/ StartInitialize(q, s) \/ SweepRoute(q, s) \/ StartDelete(q, s)
            \/ \E op \in Operations : StartExpired(q, op, s)
            \/ \E op \in Operations, u \in Uris : StartKnown(q, op, s, u)
        \/ StoreSession(q) \/ TouchRoute(q)
        \/ SubscribeTouch(q) \/ SubscribeInsert(q) \/ Unsubscribe(q)
        \/ SetLevel(q) \/ DeleteRoute(q) \/ Panic(q)
    \/ GrowIdle

LegacySpec == LegacyInit /\ [][LegacyNext]_legacyVars

-----------------------------------------------------------------------------
(* Properties.                                                              *)

Quiescent == \A q \in Requests : req[q] = Free

\* A live session keeps what it subscribed to: no request or end of another
\* session and no other request of its own takes it away, short of the eviction
\* of its whole route by a full table.
LiveKeepsSubscriptions ==
    \A s \in live, u \in Uris :
        <<s, u>> \in acked => s \in Routed /\ u \in routes[s]

\* Once a session was deleted or swept, and nothing is running, nothing is delivered
\* to it any more, unless a request of it had passed its look-up before.
ClosedHasNoRoute ==
    Quiescent /\ ~poisoned => (closed \ raced) \cap Routed = {}

\* legacy_subscribe's expectation: the route it touched is still there.
RouteStillThere == ~poisoned

\* The store and the route table keep in step.
RoutesFollowSessions == LiveKeepsSubscriptions /\ ClosedHasNoRoute
=============================================================================
