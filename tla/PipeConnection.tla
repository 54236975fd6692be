---------------------------- MODULE PipeConnection ----------------------------
(***************************************************************************)
(* What byte-pipe connections (stdio, TCP, unix) share below the serve      *)
(* driver, which handles every frame in a task of its own: the adapter that *)
(* remembers the connection's session, for the frames that do not say which *)
(* protocol version they speak; the session store, of a server that serves  *)
(* all the pipes, which evicts and expires sessions without the adapters'   *)
(* knowing; and the table of the requests that are being dispatched,        *)
(* through which notifications/cancelled finds them.                        *)
(*                                                                          *)
(* The store compares the times its sessions were last seen: what is kept   *)
(* is which was seen before which, and which have been idle for too long.   *)
(*                                                                          *)
(* Clients are as the protocol wants them: they use the id of a request     *)
(* again at the earliest when it was answered, and not if they cancelled it,*)
(* and do not cancel an initialize.                                         *)
(***************************************************************************)
EXTENDS Naturals, FiniteSets

CONSTANTS
    MaxFrames,    \* bound: frames that are ever read
    Pipes,
    RequestIds,
    StoreCapacity, \* of the session store (4096 by default)
    IdleExpiry    \* an idle timeout is configured

ASSUME PipesAssumption ==
    MaxFrames \in Nat /\ StoreCapacity \in Nat \ {0} /\ IdleExpiry \in BOOLEAN

Frames == 1..MaxFrames
Nobody == 0

VARIABLES
    frame,     \* each frame: where its handler is, and what it carries
    session,   \* the adapter's: each pipe's initialize, or Nobody
    known,     \* the session store, by the initialize that made them
    older,     \* <<s, t>>: of the stored sessions s was last seen before t
    stale,     \* the stored sessions that are past the idle timeout
    evicted,   \* history: the sessions that made room for another
    expired,   \* history: those that were dropped for being idle
    tracked,   \* the in-flight table: <<pipe, id>> -> the request, or Nobody
    cancelled, \* the requests whose token has fired
    greeted    \* history: frames sent after an initialize of their pipe was answered

storeVars == <<known, older, stale, evicted, expired>>
pipeVars == <<frame, session, storeVars, tracked, cancelled, greeted>>

Unsent == [at |-> "unsent", kind |-> "none", pipe |-> "none", id |-> "none",
           modern |-> FALSE, sid |-> Nobody, ok |-> FALSE]

At(f, place) == frame[f].at = place
KeyOf(f) == <<frame[f].pipe, frame[f].id>>
IsRequest(f) == frame[f].kind \in {"initialize", "call"}
Dispatching(f) == frame[f].at \in {"tracked", "swept", "worked"}
Gone == evicted \cup expired

\* Of two stored sessions one was seen before the other.
InOneOrder == \A s, t \in known : <<s, t>> \in older <=> s # t /\ <<t, s>> \notin older

PipeTypeOK ==
    /\ \A f \in Frames :
         /\ frame[f].at \in {"unsent", "read", "stamped", "tracked", "swept", "worked",
                             "left", "ready", "firing", "answered", "silent"}
         /\ frame[f].kind \in {"none", "initialize", "call", "cancel"}
         /\ frame[f].sid \in Frames \cup {Nobody}
    /\ session \in [Pipes -> Frames \cup {Nobody}]
    /\ known \subseteq Frames /\ Cardinality(known) <= StoreCapacity
    /\ older \subseteq known \X known /\ InOneOrder
    /\ stale \subseteq known /\ Gone \subseteq Frames \ known
    /\ cancelled \subseteq Frames /\ greeted \subseteq Frames
    /\ tracked \in [Pipes \X RequestIds -> Frames \cup {Nobody}]

PipeInit ==
    /\ frame = [f \in Frames |-> Unsent]
    /\ session = [p \in Pipes |-> Nobody]
    /\ known = {} /\ older = {} /\ stale = {} /\ evicted = {} /\ expired = {}
    /\ cancelled = {} /\ greeted = {}
    /\ tracked = [key \in Pipes \X RequestIds |-> Nobody]

-----------------------------------------------------------------------------
(* The clients.                                                             *)

Fresh(p, id) ==
    \A f \in Frames : frame[f].pipe = p /\ frame[f].id = id => At(f, "answered")

\* An initialize, a call (with or without a version of its own) or a
\* cancellation of a request; the driver reads it and spawns its handler.
SendFrame(f, p, id, kind, modern) ==
    /\ At(f, "unsent") /\ \A g \in 1..(f - 1) : ~At(g, "unsent")
    /\ modern => kind = "call"
    /\ IF kind = "cancel"
       THEN \E g \in Frames : frame[g].kind = "call" /\ KeyOf(g) = <<p, id>>
       ELSE Fresh(p, id)
    /\ frame' = [frame EXCEPT ![f] = [Unsent EXCEPT !.at = "read", !.kind = kind,
                                        !.pipe = p, !.id = id, !.modern = modern]]
    /\ greeted' = IF \E g \in Frames : /\ At(g, "answered") /\ frame[g].kind = "initialize"
                                       /\ frame[g].ok /\ frame[g].pipe = p
                  THEN greeted \cup {f} ELSE greeted
    /\ UNCHANGED <<session, storeVars, tracked, cancelled>>

-----------------------------------------------------------------------------
(* LegacySessionAdapter::call.                                              *)

\* An initialize gets an id of its own; any other frame that states no version
\* gets the session of the pipe, if it has one.
Stamp(f) ==
    /\ At(f, "read") /\ IsRequest(f)
    /\ frame' = [frame EXCEPT ![f].at = "stamped",
                   ![f].sid = IF frame[f].kind = "initialize" THEN f
                              ELSE IF frame[f].modern THEN Nobody
                              ELSE session[frame[f].pipe]]
    /\ UNCHANGED <<session, storeVars, tracked, cancelled, greeted>>

\* The handshake has succeeded: the last one that does so decides.
Commit(f) ==
    /\ At(f, "left")
    /\ session' = IF frame[f].kind = "initialize" /\ frame[f].ok
                  THEN [session EXCEPT ![frame[f].pipe] = frame[f].sid] ELSE session
    /\ frame' = [frame EXCEPT ![f].at = "ready"]
    /\ UNCHANGED <<storeVars, tracked, cancelled, greeted>>

\* Slip: the handshake is answered before it is committed.
ReplyEarly(f) ==
    /\ At(f, "left") \/ At(f, "ready")
    /\ frame' = [frame EXCEPT ![f].at = "answered"]
    /\ UNCHANGED <<session, storeVars, tracked, cancelled, greeted>>
Reply(f) ==
    /\ At(f, "ready")
    /\ frame' = [frame EXCEPT ![f].at = "answered"]
    /\ UNCHANGED <<session, storeVars, tracked, cancelled, greeted>>

-----------------------------------------------------------------------------
(* The session store, one critical section each.                            *)

\* What the store knows once it holds just these, the `recent' one seen now.
Hold(kept, recent) ==
    LET others == kept \ recent
    IN  /\ known' = kept \cup recent
        /\ older' = (older \cap (others \X others)) \cup (others \X recent)
        /\ stale' = stale \cap others

LongestUnseen(some) == {s \in some : \A t \in some \ {s} : <<s, t>> \in older}

\* insert: at capacity the least recently seen session makes room.
Insert(s) ==
    \E kept \in IF Cardinality(known) < StoreCapacity
                THEN {known} ELSE {known \ {oldest} : oldest \in LongestUnseen(known)} :
        /\ Hold(kept, {s})
        /\ evicted' = evicted \cup (known \ kept)
        /\ UNCHANGED expired

\* get, of a session in time.
Refresh(s) == Hold(known, {s}) /\ UNCHANGED <<evicted, expired>>

\* get, of an idle session; sweep_expired.
Expire(gone) ==
    /\ Hold(known \ gone, {})
    /\ expired' = expired \cup gone
    /\ UNCHANGED evicted

\* The idle timeout passes for the longest unseen of the others.
GrowStale ==
    /\ IdleExpiry
    /\ \E s \in LongestUnseen(known \ stale) : stale' = stale \cup {s}
    /\ UNCHANGED <<frame, session, known, older, evicted, expired, tracked, cancelled,
                   greeted>>

-----------------------------------------------------------------------------
(* The dispatcher.                                                          *)

\* The work of a request is over, with success or not.
Worked(f, ok) == frame' = [frame EXCEPT ![f].at = "worked", ![f].ok = ok]

\* register: whatever had the key is replaced.
Track(f) ==
    /\ At(f, "stamped")
    /\ tracked' = [tracked EXCEPT ![KeyOf(f)] = f]
    /\ frame' = [frame EXCEPT ![f].at = "tracked"]
    /\ UNCHANGED <<session, storeVars, cancelled, greeted>>

\* sweep_expired: an initialize first drops every idle session ...
SweepIdle(f) ==
    /\ At(f, "tracked") /\ frame[f].kind = "initialize"
    /\ Expire(stale)
    /\ frame' = [frame EXCEPT ![f].at = "swept"]
    /\ UNCHANGED <<session, tracked, cancelled, greeted>>

\* ... and then stores its own, unless it is refused.
HandleInitialize(f) ==
    /\ At(f, "swept")
    /\ \/ Worked(f, FALSE) /\ UNCHANGED storeVars
       \/ Worked(f, TRUE) /\ Insert(f)
    /\ UNCHANGED <<session, tracked, cancelled, greeted>>

\* legacy_context: a call without a version of its own needs a session that is
\* stored; one that is found idle is dropped on the spot.
FindSession(f) ==
    /\ At(f, "tracked") /\ frame[f].kind = "call"
    /\ LET sid == frame[f].sid
       IN  \/ frame[f].modern /\ Worked(f, TRUE) /\ UNCHANGED storeVars
           \/ ~frame[f].modern /\ sid \in known \ stale /\ Worked(f, TRUE) /\ Refresh(sid)
           \/ ~frame[f].modern /\ sid \in stale /\ Worked(f, FALSE) /\ Expire({sid})
           \/ ~frame[f].modern /\ sid \notin known /\ Worked(f, FALSE) /\ UNCHANGED storeVars
    /\ UNCHANGED <<session, tracked, cancelled, greeted>>

\* UnknownSession is an error of the dispatch, not an answer: the driver logs it
\* and sends nothing.  A call that names no session is answered with an error.
UnknownSession(f) == frame[f].kind = "call" /\ ~frame[f].ok /\ frame[f].sid # Nobody

\* How a dispatch ends: with an outcome, or without an answer, by an error or by
\* its token at any point of it.
EndDispatch(f) ==
    \/ At(f, "worked") /\ ~UnknownSession(f) /\ frame' = [frame EXCEPT ![f].at = "left"]
    \/ /\ \/ At(f, "worked") /\ UnknownSession(f)
          \/ Dispatching(f) /\ f \in cancelled
       /\ frame' = [frame EXCEPT ![f].at = "silent"]

\* Slip: a call that ends without an answer stays in the table.
LeaveTracked(f) ==
    /\ EndDispatch(f)
    /\ tracked' = IF frame'[f].at = "left" THEN [tracked EXCEPT ![KeyOf(f)] = Nobody]
                                           ELSE tracked
    /\ UNCHANGED <<session, storeVars, cancelled, greeted>>
\* The guard takes the key out of the table however the dispatch ends.
Leave(f) ==
    /\ EndDispatch(f)
    /\ tracked' = [tracked EXCEPT ![KeyOf(f)] = Nobody]
    /\ UNCHANGED <<session, storeVars, cancelled, greeted>>

\* notifications/cancelled: the token is looked up under the lock ...
FindToken(f) ==
    /\ At(f, "read") /\ frame[f].kind = "cancel"
    /\ frame' = [frame EXCEPT ![f].at = "firing", ![f].sid = tracked[KeyOf(f)]]
    /\ UNCHANGED <<session, storeVars, tracked, cancelled, greeted>>

\* ... and fired after it; a request that is not found is ignored.
Fire(f) ==
    /\ At(f, "firing")
    /\ cancelled' = cancelled \cup ({frame[f].sid} \ {Nobody})
    /\ frame' = [frame EXCEPT ![f].at = "silent"]
    /\ UNCHANGED <<session, storeVars, tracked, greeted>>

PipeNext ==
    \/ \E f \in Frames :
        \/ \E p \in Pipes, id \in RequestIds, kind \in {"initialize", "call", "cancel"},
              modern \in BOOLEAN : SendFrame(f, p, id, kind, modern)
        \/ Stamp(f) \/ Track(f) \/ SweepIdle(f) \/ HandleInitialize(f) \/ FindSession(f)
        \/ Leave(f) \/ Commit(f) \/ Reply(f) \/ FindToken(f) \/ Fire(f)
    \/ GrowStale

PipeSpec == PipeInit /\ [][PipeNext]_pipeVars

-----------------------------------------------------------------------------
(* Properties.                                                              *)

\* "Entries live exactly as long as their dispatch": the table holds the requests
\* that are being dispatched and no others, each under its own key; and a request
\* is left without an answer only if its own client cancelled it, whatever the
\* other pipe does under the same id, or if the store has lost its session.
CancellationIsExact ==
    /\ \A f \in Frames : Dispatching(f) => tracked[KeyOf(f)] = f
    /\ \A key \in DOMAIN tracked : tracked[key] # Nobody =>
         KeyOf(tracked[key]) = key /\ Dispatching(tracked[key])
    /\ \A f \in Frames : IsRequest(f) /\ At(f, "silent") =>
         \/ \E g \in Frames : frame[g].kind = "cancel" /\ KeyOf(g) = KeyOf(f)
         \/ frame[f].kind = "call" /\ frame[f].sid \in Gone

\* The handshakes that succeeded.
Made == {f \in Frames : frame[f].kind = "initialize" /\ frame[f].ok}

\* The session of a pipe is one that a handshake of the pipe has stored.  A call
\* that states no version and was sent after the answer of an initialize bears a
\* session of its own pipe, however many initializes are being handled beside it,
\* and is served, unless the store has evicted or expired that session; and it
\* evicts none before more sessions were made than it holds.
CallsFindTheirSession ==
    /\ \A p \in Pipes : session[p] # Nobody =>
         session[p] \in known \cup Gone /\ frame[session[p]].pipe = p
    /\ \A f \in greeted :
         frame[f].kind = "call" /\ ~frame[f].modern
             /\ frame[f].at \notin {"unsent", "read"} =>
           /\ frame[f].sid \in known \cup Gone
           /\ frame[frame[f].sid].pipe = frame[f].pipe
           /\ At(f, "worked") => frame[f].ok \/ frame[f].sid \in Gone
           /\ frame[f].at \in {"left", "ready", "answered"} => frame[f].ok
    /\ evicted # {} => Cardinality(Made) > StoreCapacity
=============================================================================
