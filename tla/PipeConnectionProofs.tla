-------------------------- MODULE PipeConnectionProofs --------------------------
(***************************************************************************)
(* Proofs about PipeConnection, for any number of frames, pipes and ids     *)
(* and any capacity of the session store:                                   *)
(*   - the in-flight table holds what is being dispatched, and a request    *)
(*     goes unanswered only if its own client cancelled it or the store has *)
(*     lost its session;                                                    *)
(*   - a call that was sent after an answered handshake bears a session of  *)
(*     its own pipe and is served, unless that session was evicted or has   *)
(*     expired; and none is evicted before the store was full.              *)
(***************************************************************************)
EXTENDS PipeConnection, FiniteSetTheorems, TLAPS

Places == {"unsent", "read", "stamped", "tracked", "swept", "worked", "left", "ready",
           "firing", "answered", "silent"}

FrameRecord ==
    [at : Places, kind : {"none", "initialize", "call", "cancel"},
     pipe : Pipes \cup {"none"}, id : RequestIds \cup {"none"},
     modern : BOOLEAN, sid : Frames \cup {Nobody}, ok : BOOLEAN]

\* The types, with the whole record of a frame.
Shape ==
    /\ frame \in [Frames -> FrameRecord]
    /\ session \in [Pipes -> Frames \cup {Nobody}]
    /\ tracked \in [Pipes \X RequestIds -> Frames \cup {Nobody}]
    /\ cancelled \subseteq Frames /\ greeted \subseteq Frames

\* The session store keeps its capacity and one order of what it knows.
Stored ==
    /\ known \subseteq Frames /\ Cardinality(known) <= StoreCapacity
    /\ older \subseteq known \X known /\ InOneOrder
    /\ stale \subseteq known /\ Gone \subseteq Frames \ known

\* A frame that was sent has a key; only requests are stamped and dispatched.
Courses ==
    \A f \in Frames :
        /\ ~At(f, "unsent") => KeyOf(f) \in Pipes \X RequestIds
        /\ At(f, "unsent") => frame[f] = Unsent
        /\ At(f, "firing") => frame[f].kind = "cancel"
        /\ At(f, "swept") => frame[f].kind = "initialize"
        /\ frame[f].at \in {"stamped", "tracked", "swept", "worked", "left", "ready",
                            "answered"} => IsRequest(f)

\* The sessions that were ever stored.
Ever == known \cup Gone

\* The handshakes: stamped with an id of their own, stored before they count as
\* made, committed before they are answered; the calls: stamped with what a pipe
\* had committed, and refused only for a session that was lost.
Handshakes ==
    /\ \A f \in Frames : frame[f].at \in {"unsent", "read", "stamped", "tracked", "swept"}
         => ~frame[f].ok
    /\ \A f \in Frames : frame[f].kind = "initialize" =>
         /\ frame[f].at \notin {"unsent", "read"} => frame[f].sid = f
         /\ frame[f].ok => f \in Ever
         /\ frame[f].ok /\ frame[f].at \in {"ready", "answered"}
              => session[frame[f].pipe] # Nobody
    /\ \A f \in Frames : frame[f].kind = "call" =>
         /\ frame[f].sid \in Ever \cup {Nobody}
         /\ At(f, "worked") /\ UnknownSession(f) => frame[f].sid \in Gone
    /\ \A p \in Pipes : session[p] \in Ever \cup {Nobody}
    /\ \A f \in greeted : ~At(f, "unsent") /\ session[frame[f].pipe] # Nobody
    /\ Ever \subseteq Made

Sessions == Shape /\ Stored /\ Courses /\ Handshakes

\* Of the requests that share a key all but one were answered.
KeysAreFresh ==
    \A f, g \in Frames :
        f # g /\ IsRequest(f) /\ IsRequest(g) /\ KeyOf(f) = KeyOf(g)
            => At(f, "answered") \/ At(g, "answered")

\* A cancellation that found a request found one of its own key.
CancelsMatch ==
    /\ \A g \in Frames : At(g, "firing") /\ frame[g].sid # Nobody =>
         IsRequest(frame[g].sid) /\ KeyOf(frame[g].sid) = KeyOf(g)
    /\ \A f \in cancelled :
         /\ IsRequest(f)
         /\ \E g \in Frames : frame[g].kind = "cancel" /\ KeyOf(g) = KeyOf(f)

TableInv == Sessions /\ KeysAreFresh /\ CancelsMatch /\ CancellationIsExact

SessionInv == Sessions /\ CallsFindTheirSession

-----------------------------------------------------------------------------
\* Nobody is not a frame, and the frames are finitely many.
LEMMA NobodyIsNoFrame == Nobody \notin Frames
  BY DEF Nobody, Frames

LEMMA FramesAreFinite ==
  ASSUME NEW some, some \subseteq Frames
  PROVE  IsFiniteSet(some) /\ Cardinality(some) \in Nat
  <1>1. IsFiniteSet(Frames)
    BY FS_Interval, PipesAssumption DEF Frames
  <1>. QED
    BY <1>1, FS_Subset, FS_CardinalityType

-----------------------------------------------------------------------------
(* The session store.                                                       *)

\* Whatever the store drops, and whichever one session it has just seen, what it
\* holds is in one order.
LEMMA HoldsInOrder ==
  ASSUME Stored, NEW kept \in SUBSET known, NEW recent,
         \A s, t \in recent : s = t, Hold(kept, recent)
  PROVE  older' \subseteq known' \X known' /\ InOneOrder' /\ stale' \subseteq known'
  <1>1. known' = kept \cup recent
    BY DEF Hold
  <1>2. older' = (older \cap ((kept \ recent) \X (kept \ recent)))
                   \cup ((kept \ recent) \X recent)
    BY DEF Hold
  <1>3. older' \subseteq known' \X known'
    BY <1>1, <1>2
  <1>4. ASSUME NEW s \in known', NEW t \in known'
        PROVE  <<s, t>> \in older' <=> s # t /\ <<t, s>> \notin older'
    <2>1. CASE s \in recent /\ t \in recent
      BY <1>2, <2>1
    <2>2. CASE s \notin recent /\ t \notin recent
      BY <1>1, <1>2, <1>4, <2>2 DEF Stored, InOneOrder
    <2>3. CASE s \in recent /\ t \notin recent
      BY <1>1, <1>2, <1>4, <2>3
    <2>4. CASE s \notin recent /\ t \in recent
      BY <1>1, <1>2, <1>4, <2>4
    <2>. QED
      BY <2>1, <2>2, <2>3, <2>4
  <1>5. stale' \subseteq known'
    BY <1>1 DEF Hold
  <1>. QED
    BY <1>3, <1>4, <1>5 DEF InOneOrder

\* insert: a new session is stored, for at most one other that is lost, and for
\* none while there is room.
LEMMA Inserting ==
  ASSUME Stored, NEW s \in Frames \ Ever, Insert(s)
  PROVE  /\ Stored' /\ Ever' = Ever \cup {s} /\ Gone \subseteq Gone'
         /\ evicted' # evicted => Cardinality(known) >= StoreCapacity
  <1>. DEFINE full == Cardinality(known) >= StoreCapacity
  <1>1. known \subseteq Frames /\ IsFiniteSet(known) /\ Cardinality(known) \in Nat
    BY FramesAreFinite DEF Stored
  <1>2. StoreCapacity \in Nat \ {0}
    BY PipesAssumption
  <1>3. PICK kept \in IF Cardinality(known) < StoreCapacity
                      THEN {known} ELSE {known \ {oldest} : oldest \in LongestUnseen(known)} :
             /\ Hold(kept, {s})
             /\ evicted' = evicted \cup (known \ kept)
             /\ expired' = expired
    BY Zenon DEF Insert
  <1>4. /\ kept \subseteq known /\ IsFiniteSet(kept)
        /\ Cardinality(kept) \in Nat /\ Cardinality(kept) + 1 <= StoreCapacity
        /\ kept # known => full
    <2>1. CASE ~full
      BY <1>1, <1>2, <1>3, <2>1
    <2>2. CASE full
      <3>1. PICK oldest \in known : kept = known \ {oldest}
        BY <1>1, <1>2, <1>3, <2>2 DEF LongestUnseen
      <3>2. IsFiniteSet(kept) /\ Cardinality(kept) = Cardinality(known) - 1
        BY <1>1, <3>1, FS_RemoveElement
      <3>3. Cardinality(kept) \in Nat
        BY <3>2, FS_CardinalityType
      <3>. QED
        BY <1>1, <1>2, <2>2, <3>1, <3>2, <3>3 DEF Stored
    <2>. QED
      BY <2>1, <2>2
  <1>5. known' = kept \cup {s} /\ s \notin known
    BY <1>3 DEF Hold, Ever
  <1>6. Cardinality(known') <= StoreCapacity
    <2>1. Cardinality(kept \cup {s}) = Cardinality(kept) + 1
      BY <1>4, <1>5, FS_AddElement
    <2>. QED
      BY <1>4, <1>5, <2>1
  <1>7. older' \subseteq known' \X known' /\ InOneOrder' /\ stale' \subseteq known'
    BY <1>3, <1>4, HoldsInOrder
  <1>8. Gone' = Gone \cup (known \ kept)
    BY <1>3 DEF Gone
  <1>9. Gone' \subseteq Frames \ known' /\ known' \subseteq Frames
    BY <1>1, <1>4, <1>5, <1>8 DEF Stored, Ever
  <1>10. Ever' = Ever \cup {s}
    BY <1>4, <1>5, <1>8 DEF Ever
  <1>11. evicted' # evicted => full
    BY <1>3, <1>4
  <1>. QED
    BY <1>6, <1>7, <1>8, <1>9, <1>10, <1>11 DEF Stored

\* get, of a session in time: only the order changes.
LEMMA Refreshing ==
  ASSUME Stored, NEW s \in known, Refresh(s)
  PROVE  Stored' /\ Ever' = Ever /\ Gone' = Gone /\ UNCHANGED evicted
  <1>1. Hold(known, {s}) /\ evicted' = evicted /\ expired' = expired
    BY DEF Refresh
  <1>2. known' = known
    BY <1>1 DEF Hold
  <1>3. older' \subseteq known' \X known' /\ InOneOrder' /\ stale' \subseteq known'
    BY <1>1, HoldsInOrder
  <1>. QED
    BY <1>1, <1>2, <1>3 DEF Stored, Ever, Gone

\* sweep_expired and get, of an idle one: what is dropped is lost.
LEMMA Expiring ==
  ASSUME Stored, NEW gone \in SUBSET known, Expire(gone)
  PROVE  /\ Stored' /\ Ever' = Ever /\ Gone \subseteq Gone' /\ gone \subseteq Gone'
         /\ UNCHANGED evicted
  <1>1. Hold(known \ gone, {}) /\ evicted' = evicted /\ expired' = expired \cup gone
    BY DEF Expire
  <1>2. known' = known \ gone /\ Gone' = Gone \cup gone
    BY <1>1 DEF Hold, Gone
  <1>3. older' \subseteq known' \X known' /\ InOneOrder' /\ stale' \subseteq known'
    BY <1>1, HoldsInOrder
  <1>4. IsFiniteSet(known) /\ Cardinality(known) \in Nat
    BY FramesAreFinite DEF Stored
  <1>5. Cardinality(known') <= Cardinality(known) /\ Cardinality(known') \in Nat
    BY <1>2, <1>4, FS_Subset, FS_CardinalityType
  <1>6. Cardinality(known') <= StoreCapacity
    BY <1>4, <1>5, PipesAssumption DEF Stored
  <1>. QED
    BY <1>1, <1>2, <1>3, <1>6 DEF Stored, Ever

\* What a step of its handler does to a frame, and to no other.
Moved(f, at, sid, ok) ==
    /\ frame' \in [Frames -> FrameRecord]
    /\ \A g \in Frames \ {f} : frame'[g] = frame[g]
    /\ frame'[f].at = at /\ frame'[f].sid = sid /\ frame'[f].ok = ok
    /\ frame'[f].kind = frame[f].kind /\ frame'[f].pipe = frame[f].pipe
    /\ frame'[f].id = frame[f].id /\ frame'[f].modern = frame[f].modern

\* Setting the place, or the place and one more field, of a frame moves it.
LEMMA MovesAt ==
  ASSUME Shape, NEW f \in Frames, NEW at \in Places,
         frame' = [frame EXCEPT ![f].at = at]
  PROVE  Moved(f, at, frame[f].sid, frame[f].ok)
  BY DEF Shape, FrameRecord, Moved

\* A frame that moves on and takes a session id.
LEMMA MovesSid ==
  ASSUME Shape, NEW f \in Frames, NEW at \in Places, NEW sid \in Frames \cup {Nobody},
         frame' = [frame EXCEPT ![f].at = at, ![f].sid = sid]
  PROVE  Moved(f, at, sid, frame[f].ok)
  BY DEF Shape, FrameRecord, Moved

\* A frame that moves on and whose work succeeded or failed.
LEMMA MovesOk ==
  ASSUME Shape, NEW f \in Frames, NEW at \in Places, NEW ok \in BOOLEAN,
         frame' = [frame EXCEPT ![f].at = at, ![f].ok = ok]
  PROVE  Moved(f, at, frame[f].sid, ok)
  BY DEF Shape, FrameRecord, Moved

\* Where each step takes its frame.
LEMMA Moves ==
  ASSUME Shape, Courses, NEW f \in Frames
  PROVE  /\ Stamp(f) => \E sid \in Frames \cup {Nobody} :
                          /\ Moved(f, "stamped", sid, frame[f].ok)
                          /\ sid = IF frame[f].kind = "initialize" THEN f
                                   ELSE IF frame[f].modern THEN Nobody
                                   ELSE session[frame[f].pipe]
         /\ Track(f) => Moved(f, "tracked", frame[f].sid, frame[f].ok)
         /\ SweepIdle(f) => Moved(f, "swept", frame[f].sid, frame[f].ok)
         /\ HandleInitialize(f) \/ FindSession(f) =>
              \E ok \in BOOLEAN : Moved(f, "worked", frame[f].sid, ok)
         /\ Leave(f) =>
              \/ /\ At(f, "worked") /\ ~UnknownSession(f)
                 /\ Moved(f, "left", frame[f].sid, frame[f].ok)
              \/ /\ f \in cancelled \/ (At(f, "worked") /\ UnknownSession(f))
                 /\ Moved(f, "silent", frame[f].sid, frame[f].ok)
         /\ Commit(f) => Moved(f, "ready", frame[f].sid, frame[f].ok)
         /\ Reply(f) => Moved(f, "answered", frame[f].sid, frame[f].ok)
         /\ FindToken(f) => Moved(f, "firing", tracked[KeyOf(f)], frame[f].ok)
         /\ Fire(f) => Moved(f, "silent", frame[f].sid, frame[f].ok)
  <1>1. \A at \in Places : frame' = [frame EXCEPT ![f].at = at]
                             => Moved(f, at, frame[f].sid, frame[f].ok)
    BY MovesAt
  <1>2. ASSUME Stamp(f)
        PROVE  \E sid \in Frames \cup {Nobody} :
                          /\ Moved(f, "stamped", sid, frame[f].ok)
                          /\ sid = IF frame[f].kind = "initialize" THEN f
                                   ELSE IF frame[f].modern THEN Nobody
                                   ELSE session[frame[f].pipe]
    <2>. DEFINE sid == IF frame[f].kind = "initialize" THEN f
                       ELSE IF frame[f].modern THEN Nobody
                       ELSE session[frame[f].pipe]
    <2>1. frame[f].pipe \in Pipes
      BY <1>2 DEF Stamp, At, Courses, KeyOf
    <2>2. sid \in Frames \cup {Nobody}
      BY <2>1 DEF Shape
    <2>3. frame' = [frame EXCEPT ![f].at = "stamped", ![f].sid = sid]
      BY <1>2 DEF Stamp
    <2>4. Moved(f, "stamped", sid, frame[f].ok)
      BY <2>2, <2>3, MovesSid DEF Places
    <2>. QED
      BY <2>2, <2>4
  <1>3. ASSUME HandleInitialize(f) \/ FindSession(f)
        PROVE  \E ok \in BOOLEAN : Moved(f, "worked", frame[f].sid, ok)
    <2>1. PICK ok \in BOOLEAN : Worked(f, ok)
      BY <1>3 DEF HandleInitialize, FindSession
    <2>. QED
      BY <2>1, MovesOk DEF Worked, Places
  <1>4. ASSUME FindToken(f)
        PROVE  Moved(f, "firing", tracked[KeyOf(f)], frame[f].ok)
    <2>1. tracked[KeyOf(f)] \in Frames \cup {Nobody}
      BY <1>4 DEF FindToken, At, Courses, Shape
    <2>. QED
      BY <1>4, <2>1, MovesSid DEF FindToken, Places
  <1>. QED
    BY <1>1, <1>2, <1>3, <1>4 DEF Track, SweepIdle, Leave, EndDispatch, Commit, Reply, Fire, Places

\* A frame that was sent is a new record; the others stay.
Posted(f, p, id, kind) ==
    /\ frame' \in [Frames -> FrameRecord] /\ frame[f].at = "unsent"
    /\ \A g \in Frames : g # f => frame'[g] = frame[g]
    /\ frame'[f].at = "read" /\ frame'[f].kind = kind
    /\ frame'[f].pipe = p /\ frame'[f].id = id
    /\ frame'[f].sid = Nobody /\ frame'[f].ok = FALSE
    /\ UNCHANGED <<session, storeVars, tracked, cancelled>>

\* A client's frame is one that was not sent before.
LEMMA Sending ==
  ASSUME Shape, NEW f \in Frames, NEW p \in Pipes, NEW id \in RequestIds,
         NEW kind \in {"initialize", "call", "cancel"}, NEW modern \in BOOLEAN,
         SendFrame(f, p, id, kind, modern)
  PROVE  Posted(f, p, id, kind)
  BY DEF Posted, SendFrame, Unsent, Shape, FrameRecord, Places, At

\* The step of one frame's handler, whichever it is.
HandlerStep(f) == \/ Stamp(f) \/ Track(f) \/ SweepIdle(f) \/ HandleInitialize(f)
                  \/ FindSession(f) \/ Leave(f) \/ Commit(f) \/ Reply(f)
                  \/ FindToken(f) \/ Fire(f)

\* Handlers keep what a frame is; they start where the step says.
LEMMA HandlerMoves ==
  ASSUME Shape, Courses, NEW f \in Frames, HandlerStep(f)
  PROVE  /\ frame' \in [Frames -> FrameRecord]
         /\ \A g \in Frames \ {f} : frame'[g] = frame[g]
         /\ KeyOf(f)' = KeyOf(f) /\ frame'[f].kind = frame[f].kind
         /\ frame'[f].modern = frame[f].modern
         /\ ~At(f, "unsent") /\ ~At(f, "unsent")' /\ ~At(f, "read")' /\ ~At(f, "answered")
         /\ greeted' = greeted
         /\ UNCHANGED frame[f].ok \/ HandleInitialize(f) \/ FindSession(f)
  <1>1. \E at, sid, ok : Moved(f, at, sid, ok) /\ at \notin {"unsent", "read"}
    BY Moves DEF HandlerStep
  <1>2. frame[f].at \notin {"unsent", "answered"} /\ greeted' = greeted
    <2>1. Leave(f) => frame[f].at \in {"tracked", "swept", "worked"} /\ greeted' = greeted
      BY DEF Leave, EndDispatch, Dispatching, At
    <2>. QED
      BY <2>1 DEF HandlerStep, Stamp, Track, SweepIdle, HandleInitialize, FindSession, Commit,
         Reply, FindToken, Fire, At
  <1>3. UNCHANGED frame[f].ok \/ HandleInitialize(f) \/ FindSession(f)
    BY Moves DEF HandlerStep, Moved
  <1>. QED
    BY <1>1, <1>2, <1>3 DEF Moved, At, KeyOf

\* What a handler's step does to the session store.
LEMMA StoreMoves ==
  ASSUME Sessions, NEW f \in Frames, HandlerStep(f)
  PROVE  /\ Stored' /\ Ever \subseteq Ever' /\ Gone \subseteq Gone'
         /\ \/ Ever' = Ever /\ UNCHANGED evicted
            \/ /\ HandleInitialize(f) /\ frame'[f].ok /\ Ever' = Ever \cup {f}
               /\ evicted' # evicted => Cardinality(known) >= StoreCapacity
         /\ HandleInitialize(f) /\ frame'[f].ok => f \in Ever'
         /\ FindSession(f) /\ ~frame'[f].ok /\ frame[f].sid # Nobody => frame[f].sid \in Gone'
  <1>. USE DEF Sessions
  <1>1. CASE SweepIdle(f)
    <2>1. Stored' /\ Ever' = Ever /\ Gone \subseteq Gone' /\ UNCHANGED evicted
      BY <1>1, Expiring DEF SweepIdle, Stored
    <2>2. ~HandleInitialize(f) /\ ~FindSession(f)
      BY <1>1 DEF SweepIdle, HandleInitialize, FindSession, At
    <2>. QED
      BY <2>1, <2>2
  <1>2. CASE HandleInitialize(f)
    <2>1. ~FindSession(f) /\ f \notin Ever
      BY <1>2 DEF HandleInitialize, FindSession, At, Handshakes, Made
    <2>2. CASE Worked(f, TRUE) /\ Insert(f)
      <3>1. /\ Stored' /\ Ever' = Ever \cup {f} /\ Gone \subseteq Gone'
            /\ evicted' # evicted => Cardinality(known) >= StoreCapacity
        BY <2>1, <2>2, Inserting
      <3>2. frame'[f].ok
        BY <2>2 DEF Worked, Shape, FrameRecord
      <3>. QED
        BY <1>2, <2>1, <3>1, <3>2
    <2>3. CASE Worked(f, FALSE) /\ UNCHANGED storeVars
      <3>1. ~frame'[f].ok
        BY <2>3 DEF Worked, Shape, FrameRecord
      <3>. QED
        BY <2>1, <2>3, <3>1 DEF storeVars, Stored, InOneOrder, Ever, Gone
    <2>. QED
      BY <1>2, <2>2, <2>3 DEF HandleInitialize
  <1>3. CASE FindSession(f)
    <2>. DEFINE sid == frame[f].sid
    <2>1. ~HandleInitialize(f) /\ sid \in Ever \cup {Nobody}
      BY <1>3 DEF HandleInitialize, FindSession, At, Handshakes
    <2>2. /\ Worked(f, TRUE) => frame'[f].ok
          /\ Worked(f, FALSE) => ~frame'[f].ok
      BY DEF Worked, Shape, FrameRecord
    <2>3. CASE UNCHANGED storeVars /\ (Worked(f, TRUE) \/ sid \notin known)
      BY <2>1, <2>2, <2>3 DEF storeVars, Stored, InOneOrder, Ever, Gone
    <2>4. CASE Worked(f, TRUE) /\ sid \in known /\ Refresh(sid)
      BY <2>1, <2>2, <2>4, Refreshing
    <2>5. CASE sid \in stale /\ Expire({sid})
      <3>1. {sid} \in SUBSET known
        BY <2>5 DEF Stored
      <3>. QED
        BY <2>1, <2>5, <3>1, Expiring
    <2>. QED
      BY <1>3, <2>3, <2>4, <2>5 DEF FindSession
  <1>4. CASE ~SweepIdle(f) /\ ~HandleInitialize(f) /\ ~FindSession(f)
    <2>1. UNCHANGED storeVars
      BY <1>4 DEF HandlerStep, Stamp, Track, Leave, Commit, Reply, FindToken, Fire
    <2>. QED
      BY <1>4, <2>1 DEF storeVars, Stored, InOneOrder, Ever, Gone
  <1>. QED
    BY <1>1, <1>2, <1>3, <1>4

\* Time passes for the store alone.
LEMMA Growing ==
  ASSUME Stored, GrowStale
  PROVE  Stored' /\ Ever' = Ever /\ Gone' = Gone
  BY DEF GrowStale, LongestUnseen, Stored, InOneOrder, Ever, Gone

\* Frames keep their shape.
LEMMA ShapeSteps ==
  ASSUME Shape, Courses, [PipeNext]_pipeVars
  PROVE  Shape'
  <1>1. CASE UNCHANGED pipeVars \/ GrowStale
    BY <1>1 DEF pipeVars, GrowStale, Shape
  <1>2. ASSUME NEW f \in Frames, NEW p \in Pipes, NEW id \in RequestIds,
               NEW kind \in {"initialize", "call", "cancel"}, NEW modern \in BOOLEAN,
               SendFrame(f, p, id, kind, modern)
        PROVE  Shape'
    BY <1>2, Sending DEF Shape, SendFrame, Posted
  <1>3. ASSUME NEW f \in Frames, HandlerStep(f)
        PROVE  Shape'
    <2>1. frame' \in [Frames -> FrameRecord]
      BY <1>3, HandlerMoves
    <2>2. KeyOf(f) \in Pipes \X RequestIds /\ frame[f].pipe \in Pipes
      BY <1>3, HandlerMoves DEF Courses, KeyOf
    <2>3. frame[f].sid \in Frames \cup {Nobody}
      BY DEF Shape, FrameRecord
    <2>4. cancelled' \subseteq Frames /\ greeted' \subseteq Frames
      BY <1>3, <2>3 DEF HandlerStep, Stamp, Track, SweepIdle, HandleInitialize,
         FindSession, Leave, Commit, Reply, FindToken, Fire, Shape
    <2>5. session' \in [Pipes -> Frames \cup {Nobody}]
      BY <1>3, <2>2, <2>3 DEF HandlerStep, Stamp, Track, SweepIdle, HandleInitialize,
         FindSession, Leave, Commit, Reply, FindToken, Fire, Shape
    <2>6. tracked' \in [Pipes \X RequestIds -> Frames \cup {Nobody}]
      BY <1>3, <2>2 DEF HandlerStep, Stamp, Track, SweepIdle, HandleInitialize,
         FindSession, Leave, Commit, Reply, FindToken, Fire, Shape
    <2>. QED
      BY <2>1, <2>4, <2>5, <2>6 DEF Shape
  <1>. QED
    BY <1>1, <1>2, <1>3 DEF PipeNext, HandlerStep

\* They keep their course.
LEMMA CoursesSteps ==
  ASSUME Shape, Courses, [PipeNext]_pipeVars
  PROVE  Courses'
  <1>. USE DEF Courses, At, IsRequest
  <1>1. CASE UNCHANGED pipeVars \/ GrowStale
    BY <1>1 DEF pipeVars, GrowStale, KeyOf
  <1>2. ASSUME NEW f \in Frames, NEW p \in Pipes, NEW id \in RequestIds,
               NEW kind \in {"initialize", "call", "cancel"}, NEW modern \in BOOLEAN,
               SendFrame(f, p, id, kind, modern)
        PROVE  Courses'
    <2>1. Posted(f, p, id, kind)
      BY <1>2, Sending
    <2>. QED
      BY <2>1 DEF KeyOf, Posted
  <1>3. ASSUME NEW f \in Frames, HandlerStep(f)
        PROVE  Courses'
    <2>1. \A g \in Frames \ {f} : frame'[g] = frame[g]
      BY <1>3, HandlerMoves
    <2>2. /\ frame'[f].at \notin {"unsent"} /\ KeyOf(f)' \in Pipes \X RequestIds
      BY <1>3, HandlerMoves
    <2>3. frame'[f].at = "firing" => frame'[f].kind = "cancel"
      BY <1>3, Moves DEF HandlerStep, FindToken, Moved
    <2>4. frame'[f].at = "swept" => frame'[f].kind = "initialize"
      BY <1>3, Moves DEF HandlerStep, SweepIdle, Moved
    <2>5. frame'[f].at \in {"stamped", "tracked", "swept", "worked", "left", "ready",
                           "answered"} => frame'[f].kind \in {"initialize", "call"}
      BY <1>3, Moves DEF HandlerStep, Stamp, Track, SweepIdle, HandleInitialize,
         FindSession, Leave, EndDispatch, Commit, Reply, FindToken, Fire, Moved
    <2>. QED
      BY <2>1, <2>2, <2>3, <2>4, <2>5 DEF KeyOf
  <1>. QED
    BY <1>1, <1>2, <1>3 DEF PipeNext, HandlerStep

\* An id is used again only when it is free.
LEMMA FreshSteps ==
  ASSUME Shape, Courses, KeysAreFresh, [PipeNext]_pipeVars
  PROVE  KeysAreFresh'
  <1>. USE DEF KeysAreFresh, At, IsRequest
  <1>1. CASE UNCHANGED pipeVars \/ GrowStale
    BY <1>1 DEF pipeVars, GrowStale, KeyOf
  <1>2. ASSUME NEW f \in Frames, NEW p \in Pipes, NEW id \in RequestIds,
               NEW kind \in {"initialize", "call", "cancel"}, NEW modern \in BOOLEAN,
               SendFrame(f, p, id, kind, modern)
        PROVE  KeysAreFresh'
    <2>1. kind = "cancel" \/ Fresh(p, id)
      BY <1>2 DEF SendFrame
    <2>2. Posted(f, p, id, kind)
      BY <1>2, Sending
    <2>. QED
      BY <2>1, <2>2 DEF KeyOf, Fresh, Posted
  <1>3. ASSUME NEW f \in Frames, HandlerStep(f)
        PROVE  KeysAreFresh'
    BY <1>3, HandlerMoves DEF KeyOf
  <1>. QED
    BY <1>1, <1>2, <1>3 DEF PipeNext, HandlerStep

\* Cancellations keep to their own key.
LEMMA CancelsSteps ==
  ASSUME TableInv, [PipeNext]_pipeVars
  PROVE  CancelsMatch'
  <1>. USE DEF TableInv, Sessions, CancelsMatch, At, IsRequest
  <1>1. CASE UNCHANGED pipeVars \/ GrowStale
    BY <1>1 DEF pipeVars, GrowStale, KeyOf
  <1>2. ASSUME NEW f \in Frames, NEW p \in Pipes, NEW id \in RequestIds,
               NEW kind \in {"initialize", "call", "cancel"}, NEW modern \in BOOLEAN,
               SendFrame(f, p, id, kind, modern)
        PROVE  CancelsMatch'
    <2>. Posted(f, p, id, kind)
      BY <1>2, Sending
    <2>. USE DEF Posted
    <2>1. frame[f].kind = "none"
      BY DEF Courses, Unsent
    <2>2. \A g \in Frames : frame[g].sid \in Frames \cup {Nobody}
      BY DEF Shape, FrameRecord
    <2>3. ASSUME NEW g \in Frames, frame'[g].at = "firing", frame'[g].sid # Nobody
          PROVE  IsRequest(frame[g].sid)' /\ KeyOf(frame[g].sid)' = KeyOf(g)'
      <3>1. g # f
        BY <2>3
      <3>2. frame'[g] = frame[g]
        BY <3>1
      <3>3. frame[g].sid # f /\ frame[g].sid \in Frames
        BY <2>1, <2>2, <2>3, <3>2
      <3>. QED
        BY <2>3, <3>2, <3>3 DEF KeyOf
    <2>4. \A g \in Frames : g # f \/ ~(frame'[g].at = "firing")
      OBVIOUS
    <2>5. ASSUME NEW h \in cancelled
          PROVE  /\ IsRequest(h)'
                 /\ \E g \in Frames : frame'[g].kind = "cancel" /\ KeyOf(g)' = KeyOf(h)'
      <3>1. h \in Frames /\ h # f
        BY <2>1 DEF Shape
      <3>2. PICK g \in Frames : frame[g].kind = "cancel" /\ KeyOf(g) = KeyOf(h)
        OBVIOUS
      <3>. QED
        BY <2>1, <3>1, <3>2 DEF KeyOf
    <2>. QED
      BY <2>3, <2>4, <2>5
  <1>3. ASSUME NEW f \in Frames, HandlerStep(f)
        PROVE  CancelsMatch'
    <2>1. \A g \in Frames : KeyOf(g)' = KeyOf(g) /\ frame'[g].kind = frame[g].kind
      BY <1>3, HandlerMoves DEF KeyOf
    <2>2. \A g \in Frames : frame[g].sid \in Frames \cup {Nobody}
      BY DEF Shape, FrameRecord
    <2>3. ASSUME NEW g \in Frames, frame'[g].at = "firing", frame'[g].sid # Nobody
          PROVE  /\ frame'[g].sid \in Frames /\ IsRequest(frame'[g].sid)
                 /\ KeyOf(frame'[g].sid) = KeyOf(g)
      <3>1. CASE g # f
        BY <1>3, <2>2, <2>3, <3>1, HandlerMoves
      <3>2. CASE g = f
        <4>1. FindToken(f) /\ frame'[f].sid = tracked[KeyOf(f)]
          BY <1>3, <2>3, <3>2, Moves DEF HandlerStep, Moved
        <4>2. KeyOf(f) \in Pipes \X RequestIds
          BY <4>1 DEF FindToken, Courses
        <4>. QED
          BY <2>3, <3>2, <4>1, <4>2 DEF CancellationIsExact, Dispatching, Shape, Courses
      <3>. QED
        BY <3>1, <3>2
    <2>4. ASSUME NEW h \in cancelled'
          PROVE  /\ h \in Frames /\ IsRequest(h)
                 /\ \E g \in Frames : frame[g].kind = "cancel" /\ KeyOf(g) = KeyOf(h)
      <3>1. CASE h \in cancelled
        BY <3>1 DEF Shape
      <3>2. CASE h \notin cancelled
        <4>1. Fire(f) /\ h = frame[f].sid /\ h # Nobody
          BY <1>3, <2>4, <3>2 DEF HandlerStep, Stamp, Track, SweepIdle, HandleInitialize,
             FindSession, Leave, Commit, Reply, FindToken, Fire
        <4>. QED
          BY <2>2, <4>1 DEF Fire, Courses
      <3>. QED
        BY <3>1, <3>2
    <2>. QED
      BY <2>1, <2>3, <2>4
  <1>. QED
    BY <1>1, <1>2, <1>3 DEF PipeNext, HandlerStep

\* The table keeps to what is being dispatched.
LEMMA ExactSteps ==
  ASSUME TableInv, [PipeNext]_pipeVars
  PROVE  CancellationIsExact'
  <1>. USE DEF TableInv, Sessions, At, IsRequest, Dispatching
  <1>1. CASE UNCHANGED pipeVars \/ GrowStale
    BY <1>1 DEF pipeVars, storeVars, GrowStale, KeyOf, Gone, CancellationIsExact
  <1>2. ASSUME NEW f \in Frames, NEW p \in Pipes, NEW id \in RequestIds,
               NEW kind \in {"initialize", "call", "cancel"}, NEW modern \in BOOLEAN,
               SendFrame(f, p, id, kind, modern)
        PROVE  CancellationIsExact'
    <2>1. Posted(f, p, id, kind)
      BY <1>2, Sending
    <2>2. frame[f].kind = "none"
      BY <2>1 DEF Courses, Unsent, Posted
    <2>3. \A key \in DOMAIN tracked : tracked[key] \in Frames \cup {Nobody}
      BY DEF Shape
    <2>4. ASSUME NEW g \in Frames, Dispatching(g)'
          PROVE  tracked'[KeyOf(g)'] = g
      BY <2>1, <2>4 DEF Posted, CancellationIsExact, KeyOf
    <2>5. ASSUME NEW key \in DOMAIN tracked, tracked[key] # Nobody
          PROVE  KeyOf(tracked[key])' = key /\ Dispatching(tracked[key])'
      BY <2>1, <2>3, <2>5 DEF Posted, CancellationIsExact, KeyOf
    <2>6. ASSUME NEW g \in Frames, IsRequest(g)', frame'[g].at = "silent"
          PROVE  \/ \E h \in Frames : frame'[h].kind = "cancel" /\ KeyOf(h)' = KeyOf(g)'
                 \/ frame'[g].kind = "call" /\ frame'[g].sid \in Gone'
      <3>1. frame'[g] = frame[g] /\ Gone' = Gone
        BY <2>1, <2>6 DEF Posted, storeVars, Gone
      <3>2. CASE frame[g].kind = "call" /\ frame[g].sid \in Gone
        BY <3>1, <3>2
      <3>3. CASE \E h \in Frames : frame[h].kind = "cancel" /\ KeyOf(h) = KeyOf(g)
        BY <2>1, <2>2, <3>1, <3>3 DEF Posted, KeyOf
      <3>. QED
        BY <2>6, <3>1, <3>2, <3>3 DEF CancellationIsExact
    <2>. QED
      BY <2>1, <2>4, <2>5, <2>6 DEF CancellationIsExact, Posted
  <1>3. ASSUME NEW f \in Frames, HandlerStep(f)
        PROVE  CancellationIsExact'
    <2>1. \A g \in Frames : KeyOf(g)' = KeyOf(g) /\ frame'[g].kind = frame[g].kind
      BY <1>3, HandlerMoves DEF KeyOf
    <2>2. \A g \in Frames \ {f} : frame'[g] = frame[g]
      BY <1>3, HandlerMoves
    <2>3. /\ \A key \in DOMAIN tracked : tracked[key] \in Frames \cup {Nobody}
          /\ DOMAIN tracked' = DOMAIN tracked /\ KeyOf(f) \in DOMAIN tracked
      BY <1>3, HandlerMoves, ShapeSteps DEF Shape, Courses, PipeNext, HandlerStep
    <2>4. \/ /\ Track(f) /\ tracked' = [tracked EXCEPT ![KeyOf(f)] = f]
             /\ frame'[f].at = "tracked" /\ frame[f].at = "stamped"
          \/ /\ Leave(f) /\ tracked' = [tracked EXCEPT ![KeyOf(f)] = Nobody]
             /\ Dispatching(f) /\ frame'[f].at \in {"left", "silent"}
             /\ frame'[f].at = "silent" =>
                  f \in cancelled \/ (At(f, "worked") /\ UnknownSession(f))
          \/ /\ tracked' = tracked
             /\ \/ Dispatching(f) /\ Dispatching(f)'
                \/ Fire(f) /\ frame'[f].at = "silent" /\ frame[f].at = "firing"
                \/ ~Dispatching(f) /\ ~Dispatching(f)' /\ frame'[f].at # "silent"
      <3>1. CASE SweepIdle(f) \/ HandleInitialize(f) \/ FindSession(f)
        BY <3>1, Moves DEF Moved, SweepIdle, HandleInitialize, FindSession
      <3>2. CASE Leave(f)
        BY <3>2, Moves DEF Moved, Leave, EndDispatch
      <3>3. CASE Stamp(f) \/ Track(f) \/ Commit(f) \/ Reply(f) \/ FindToken(f) \/ Fire(f)
        BY <3>3, Moves DEF Moved, Stamp, Track, Commit, Reply, FindToken, Fire
      <3>. QED
        BY <1>3, <3>1, <3>2, <3>3 DEF HandlerStep
    <2>5. ASSUME NEW g \in Frames, Dispatching(g)'
          PROVE  tracked'[KeyOf(g)] = g
      <3>1. CASE g = f
        BY <2>3, <2>4, <2>5, <3>1 DEF CancellationIsExact
      <3>2. CASE g # f
        <4>1. Dispatching(g) /\ tracked[KeyOf(g)] = g /\ IsRequest(g)
          BY <2>2, <2>5, <3>2 DEF CancellationIsExact, Courses
        <4>2. Track(f) \/ Leave(f) => IsRequest(f) /\ frame[f].at # "answered"
          BY DEF Track, Leave, EndDispatch, Courses
        <4>3. Track(f) \/ Leave(f) => KeyOf(f) # KeyOf(g)
          BY <3>2, <4>1, <4>2 DEF KeysAreFresh
        <4>4. KeyOf(g) \in DOMAIN tracked
          BY <4>1 DEF Courses, Shape
        <4>. QED
          BY <2>4, <4>1, <4>3, <4>4
      <3>. QED
        BY <3>1, <3>2
    <2>6. ASSUME NEW key \in DOMAIN tracked, tracked'[key] # Nobody
          PROVE  \E g \in Frames : tracked'[key] = g /\ KeyOf(g) = key /\ Dispatching(g)'
      <3>1. CASE tracked'[key] = f /\ key = KeyOf(f)
        BY <2>3, <2>4, <2>6, <3>1, NobodyIsNoFrame DEF CancellationIsExact
      <3>2. CASE ~(tracked'[key] = f /\ key = KeyOf(f))
        <4>1. tracked'[key] = tracked[key]
          BY <2>3, <2>4, <2>6, <3>2
        <4>2. PICK g \in Frames : tracked[key] = g /\ KeyOf(g) = key /\ Dispatching(g)
          BY <2>3, <2>6, <4>1 DEF CancellationIsExact
        <4>3. frame'[g] = frame[g]
          BY <2>2, <3>2, <4>1, <4>2
        <4>. QED
          BY <4>1, <4>2, <4>3
      <3>. QED
        BY <3>1, <3>2
    <2>7. ASSUME NEW g \in Frames, IsRequest(g), frame'[g].at = "silent"
          PROVE  \/ \E h \in Frames : frame[h].kind = "cancel" /\ KeyOf(h) = KeyOf(g)
                 \/ frame[g].kind = "call" /\ frame'[g].sid \in Gone'
      <3>1. CASE g = f
        <4>1. Leave(f)
          BY <2>4, <2>7, <3>1 DEF Courses
        <4>2. frame'[f].sid = frame[f].sid
          BY <4>1, Moves DEF Moved
        <4>3. CASE f \in cancelled
          BY <3>1, <4>3 DEF CancelsMatch
        <4>4. CASE At(f, "worked") /\ UnknownSession(f)
          BY <1>3, <3>1, <4>2, <4>4, StoreMoves DEF Handshakes, UnknownSession
        <4>. QED
          BY <2>4, <2>7, <3>1, <4>3, <4>4 DEF Courses
      <3>2. CASE g # f
        BY <1>3, <2>2, <2>7, <3>2, StoreMoves DEF CancellationIsExact
      <3>. QED
        BY <3>1, <3>2
    <2>8. \A g \in Frames : Dispatching(g)' => tracked'[KeyOf(g)'] = g
      BY <2>1, <2>5
    <2>9. \A key \in DOMAIN tracked' : tracked'[key] # Nobody =>
             KeyOf(tracked[key])' = key /\ Dispatching(tracked[key])'
      BY <2>1, <2>3, <2>6
    <2>10. ASSUME NEW g \in Frames, IsRequest(g)', frame'[g].at = "silent"
           PROVE  \/ \E h \in Frames : frame'[h].kind = "cancel" /\ KeyOf(h)' = KeyOf(g)'
                  \/ frame'[g].kind = "call" /\ frame'[g].sid \in Gone'
      BY <2>1, <2>7, <2>10
    <2>. QED
      BY <2>8, <2>9, <2>10 DEF CancellationIsExact
  <1>. QED
    BY <1>1, <1>2, <1>3 DEF PipeNext, HandlerStep

\* An answered handshake was committed; a committed one was stored, and what is
\* stored was made.
LEMMA HandshakeSteps ==
  ASSUME Sessions, [PipeNext]_pipeVars
  PROVE  Stored' /\ Handshakes'
  <1>. USE DEF Sessions, Handshakes, At, IsRequest
  <1>1. CASE UNCHANGED pipeVars \/ GrowStale
    <2>1. Stored' /\ Ever' = Ever /\ Gone' = Gone
      <3>1. CASE GrowStale
        BY <3>1, Growing
      <3>2. CASE UNCHANGED pipeVars
        BY <3>2 DEF pipeVars, storeVars, Stored, InOneOrder, Ever, Gone
      <3>. QED
        BY <1>1, <3>1, <3>2
    <2>. QED
      BY <1>1, <2>1 DEF pipeVars, GrowStale, UnknownSession, Made
  <1>2. ASSUME NEW f \in Frames, NEW p \in Pipes, NEW id \in RequestIds,
               NEW kind \in {"initialize", "call", "cancel"}, NEW modern \in BOOLEAN,
               SendFrame(f, p, id, kind, modern)
        PROVE  Stored' /\ Handshakes'
    <2>1. Posted(f, p, id, kind)
      BY <1>2, Sending
    <2>2. Stored' /\ Ever' = Ever /\ Gone' = Gone
      BY <2>1 DEF Posted, storeVars, Stored, InOneOrder, Ever, Gone
    <2>3. \A g \in greeted' : g \in greeted \/ (g = f /\ session[p] # Nobody)
      BY <1>2 DEF SendFrame
    <2>4. \A g \in greeted' : frame'[g].at # "unsent" /\ session[frame'[g].pipe] # Nobody
      BY <2>1, <2>3 DEF Posted, Shape
    <2>5. ~frame[f].ok
      BY <2>1 DEF Posted
    <2>6. Made \subseteq Made'
      BY <2>1, <2>5 DEF Posted, Made
    <2>. QED
      BY <2>1, <2>2, <2>4, <2>6 DEF Posted, UnknownSession
  <1>3. ASSUME NEW f \in Frames, HandlerStep(f)
        PROVE  Stored' /\ Handshakes'
    <2>1. \A g \in Frames : /\ frame'[g].kind = frame[g].kind
                            /\ frame'[g].pipe = frame[g].pipe
                            /\ frame[g].at # "unsent" => frame'[g].at # "unsent"
      BY <1>3, HandlerMoves DEF KeyOf
    <2>2. \A g \in Frames \ {f} : frame'[g] = frame[g]
      BY <1>3, HandlerMoves
    <2>3. frame[f].pipe \in Pipes /\ frame[f].at # "unsent" /\ greeted' = greeted
      BY <1>3, HandlerMoves DEF Courses, KeyOf
    <2>4. /\ Stored' /\ Ever \subseteq Ever' /\ Gone \subseteq Gone'
          /\ Ever' \subseteq Ever \cup {f}
          /\ f \in Ever' \ Ever => frame'[f].ok /\ frame[f].kind = "initialize"
          /\ HandleInitialize(f) /\ frame'[f].ok => f \in Ever'
          /\ FindSession(f) /\ ~frame'[f].ok /\ frame[f].sid # Nobody
               => frame[f].sid \in Gone'
      BY <1>3, StoreMoves DEF HandleInitialize, Courses
    <2>5. frame[f].ok => frame'[f].ok
      BY <1>3, HandlerMoves DEF HandleInitialize, FindSession
    <2>6. frame'[f].at \in {"unsent", "read", "stamped", "tracked", "swept"} => ~frame'[f].ok
      BY <1>3, Moves DEF HandlerStep, Moved, Stamp, Track, SweepIdle
    <2>7. ASSUME frame[f].kind = "initialize"
          PROVE  frame'[f].sid = f /\ (frame'[f].ok => f \in Ever')
      <3>1. frame'[f].sid = f
        <4>1. CASE Stamp(f)
          BY <2>7, <4>1, Moves DEF Moved
        <4>2. CASE ~Stamp(f)
          <5>1. ~FindToken(f) /\ frame[f].at # "read"
            BY <1>3, <2>7, <4>2 DEF HandlerStep, Track, SweepIdle, HandleInitialize,
               FindSession, Leave, EndDispatch, Dispatching, Commit, Reply, FindToken, Fire
          <5>2. frame'[f].sid = frame[f].sid
            BY <1>3, <4>2, <5>1, Moves DEF HandlerStep, Moved
          <5>. QED
            BY <2>3, <2>7, <5>1, <5>2
        <4>. QED
          BY <4>1, <4>2
      <3>2. frame'[f].ok => f \in Ever'
        BY <1>3, <2>4, <2>7, HandlerMoves DEF FindSession
      <3>. QED
        BY <3>1, <3>2
    <2>8. session' = session \/ (/\ Commit(f) /\ frame[f].kind = "initialize" /\ frame[f].ok
                                 /\ session' = [session EXCEPT ![frame[f].pipe] = f])
      BY <1>3 DEF HandlerStep, Stamp, Track, SweepIdle, HandleInitialize, FindSession, Leave,
         Commit, Reply, FindToken, Fire
    <2>9. \A q \in Pipes : /\ session'[q] \in Ever' \cup {Nobody}
                           /\ session[q] # Nobody => session'[q] # Nobody
      BY <2>4, <2>8, NobodyIsNoFrame DEF Shape
    <2>10. frame[f].kind = "initialize" /\ frame'[f].ok
             /\ frame'[f].at \in {"ready", "answered"} => session'[frame[f].pipe] # Nobody
      <3>1. CASE Commit(f)
        <4>1. frame'[f].ok = frame[f].ok
          BY <3>1, Moves DEF Moved
        <4>. QED
          BY <2>3, <3>1, <4>1, NobodyIsNoFrame DEF Commit, Shape
      <3>2. CASE Reply(f)
        BY <2>3, <2>9, <3>2, Moves DEF Reply, Moved
      <3>3. CASE ~Commit(f) /\ ~Reply(f)
        BY <1>3, <3>3, Moves DEF HandlerStep, Moved
      <3>. QED
        BY <3>1, <3>2, <3>3
    <2>11. ASSUME frame[f].kind = "call"
           PROVE  frame'[f].sid \in Ever' \cup {Nobody}
      <3>1. CASE Stamp(f)
        BY <2>3, <2>4, <2>11, <3>1, Moves DEF Moved
      <3>2. CASE ~Stamp(f)
        <4>1. ~FindToken(f)
          BY <2>11 DEF FindToken
        <4>2. frame'[f].sid = frame[f].sid
          BY <1>3, <3>2, <4>1, Moves DEF HandlerStep, Moved
        <4>. QED
          BY <2>4, <2>11, <4>2
      <3>. QED
        BY <3>1, <3>2
    <2>12. ASSUME frame[f].kind = "call", frame'[f].at = "worked", ~frame'[f].ok,
                  frame'[f].sid # Nobody
           PROVE  frame'[f].sid \in Gone'
      <3>1. FindSession(f)
        BY <1>3, <2>12, Moves DEF HandlerStep, Moved, HandleInitialize, Courses
      <3>2. frame'[f].sid = frame[f].sid
        BY <3>1, Moves DEF Moved
      <3>. QED
        BY <2>4, <2>12, <3>1, <3>2
    <2>13. \A g \in greeted' : frame'[g].at # "unsent" /\ session'[frame'[g].pipe] # Nobody
      <3>. SUFFICES ASSUME NEW g \in greeted
                    PROVE  frame'[g].at # "unsent" /\ session'[frame'[g].pipe] # Nobody
        BY <2>3
      <3>1. g \in Frames /\ frame[g].pipe \in Pipes
        BY DEF Shape, Courses, KeyOf
      <3>. QED
        BY <2>1, <2>9, <3>1
    <2>14. Ever' \subseteq Made'
      <3>. SUFFICES ASSUME NEW g \in Ever' PROVE g \in Made'
        OBVIOUS
      <3>1. CASE g \in Ever
        BY <2>1, <2>2, <2>5, <3>1 DEF Made
      <3>2. CASE g \notin Ever
        BY <2>1, <2>4, <3>2 DEF Made
      <3>. QED
        BY <3>1, <3>2
    <2>15. ASSUME NEW g \in Frames
           PROVE  /\ frame'[g].at \in {"unsent", "read", "stamped", "tracked", "swept"}
                       => ~frame'[g].ok
                  /\ frame'[g].kind = "initialize" =>
                       /\ frame'[g].at \notin {"unsent", "read"} => frame'[g].sid = g
                       /\ frame'[g].ok => g \in Ever'
                       /\ frame'[g].ok /\ frame'[g].at \in {"ready", "answered"}
                            => session'[frame'[g].pipe] # Nobody
                  /\ frame'[g].kind = "call" =>
                       /\ frame'[g].sid \in Ever' \cup {Nobody}
                       /\ frame'[g].at = "worked" /\ UnknownSession(g)'
                            => frame'[g].sid \in Gone'
      <3>1. CASE g = f
        BY <2>1, <2>6, <2>7, <2>10, <2>11, <2>12, <3>1 DEF UnknownSession
      <3>2. CASE g # f
        <4>1. frame'[g] = frame[g]
          BY <2>2, <3>2
        <4>2. frame[g].at \in {"ready", "answered"} => frame[g].pipe \in Pipes
          BY DEF Courses, KeyOf
        <4>. QED
          BY <2>4, <2>9, <4>1, <4>2 DEF UnknownSession
      <3>. QED
        BY <3>1, <3>2
    <2>. QED
      BY <2>4, <2>9, <2>13, <2>14, <2>15
  <1>. QED
    BY <1>1, <1>2, <1>3 DEF PipeNext, HandlerStep

\* All that is said of the sessions is kept.
LEMMA SessionsSteps ==
  ASSUME Sessions, [PipeNext]_pipeVars
  PROVE  Sessions'
  BY ShapeSteps, CoursesSteps, HandshakeSteps DEF Sessions

\* A session is evicted only when more were made than the store holds.
LEMMA MadeSteps ==
  ASSUME Sessions, [PipeNext]_pipeVars,
         evicted # {} => Cardinality(Made) > StoreCapacity
  PROVE  evicted' # {} => Cardinality(Made') > StoreCapacity
  <1>1. IsFiniteSet(Made') /\ Cardinality(Made) \in Nat /\ Cardinality(Made') \in Nat
    BY FramesAreFinite DEF Made
  <1>2. SUFFICES /\ Made \subseteq Made'
                 /\ evicted' = evicted \/ Cardinality(Made') > StoreCapacity
    <2>1. Made \subseteq Made' => Cardinality(Made) <= Cardinality(Made')
      BY <1>1, FS_Subset
    <2>. QED
      BY <1>1, <2>1, PipesAssumption
  <1>3. CASE UNCHANGED pipeVars \/ GrowStale
    BY <1>3 DEF pipeVars, storeVars, GrowStale, Made
  <1>4. ASSUME NEW f \in Frames, NEW p \in Pipes, NEW id \in RequestIds,
               NEW kind \in {"initialize", "call", "cancel"}, NEW modern \in BOOLEAN,
               SendFrame(f, p, id, kind, modern)
        PROVE  Made \subseteq Made' /\ evicted' = evicted
    <2>1. Posted(f, p, id, kind)
      BY <1>4, Sending DEF Sessions
    <2>. QED
      BY <2>1 DEF Posted, storeVars, Made, Sessions, Handshakes
  <1>5. ASSUME NEW f \in Frames, HandlerStep(f)
        PROVE  /\ Made \subseteq Made'
               /\ evicted' = evicted \/ Cardinality(Made') > StoreCapacity
    <2>1. frame[f].ok => frame'[f].ok
      BY <1>5, HandlerMoves DEF HandleInitialize, FindSession, Sessions, Handshakes, At
    <2>2. Made \subseteq Made'
      BY <1>5, <2>1, HandlerMoves DEF Made, Sessions
    <2>3. CASE evicted' # evicted
      <3>1. /\ HandleInitialize(f) /\ frame'[f].ok
            /\ Cardinality(known) >= StoreCapacity
        BY <1>5, <2>3, StoreMoves
      <3>2. frame[f].at = "swept" /\ frame[f].kind = "initialize" /\ ~frame[f].ok
        BY <3>1 DEF HandleInitialize, Sessions, Handshakes, Courses, At
      <3>3. frame'[f].kind = frame[f].kind
        BY <1>5, HandlerMoves DEF Sessions
      <3>4. f \notin Made /\ f \in Made'
        BY <3>1, <3>2, <3>3 DEF Made
      <3>5. known \cup {f} \subseteq Made' /\ f \notin known
        BY <2>2, <3>4 DEF Sessions, Handshakes, Ever
      <3>6. IsFiniteSet(known) /\ Cardinality(known) \in Nat
        BY FramesAreFinite DEF Sessions, Stored
      <3>7. Cardinality(known \cup {f}) = Cardinality(known) + 1
        BY <3>5, <3>6, FS_AddElement
      <3>8. Cardinality(known \cup {f}) <= Cardinality(Made')
        BY <1>1, <3>5, FS_Subset
      <3>. QED
        BY <1>1, <2>2, <3>1, <3>6, <3>7, <3>8, PipesAssumption
    <2>. QED
      BY <2>2, <2>3
  <1>. QED
    BY <1>3, <1>4, <1>5 DEF PipeNext, HandlerStep

\* A call that is stamped after an answered handshake gets a session, keeps it,
\* and is served unless that session is lost.
LEMMA FindsSteps ==
  ASSUME SessionInv, [PipeNext]_pipeVars
  PROVE  CallsFindTheirSession'
  <1>. USE DEF SessionInv, Sessions, CallsFindTheirSession, At, IsRequest
  <1>. DEFINE Served(g) ==
                /\ frame[g].sid \in Ever
                /\ frame[frame[g].sid].pipe = frame[g].pipe
                /\ frame[g].at = "worked" => frame[g].ok \/ frame[g].sid \in Gone
                /\ frame[g].at \in {"left", "ready", "answered"} => frame[g].ok
              Owes(g) == /\ frame[g].kind = "call" /\ ~frame[g].modern
                         /\ frame[g].at \notin {"unsent", "read"}
  <1>1. Sessions' /\ (evicted' # {} => Cardinality(Made') > StoreCapacity)
    BY SessionsSteps, MadeSteps
  <1>2. SUFFICES /\ \A q \in Pipes : session'[q] # Nobody =>
                      session'[q] \in Ever' /\ frame'[session'[q]].pipe = q
                 /\ \A g \in greeted' : Owes(g)' => Served(g)'
    BY <1>1 DEF Ever
  <1>3. CASE UNCHANGED pipeVars \/ GrowStale
    BY <1>3 DEF pipeVars, storeVars, GrowStale, Ever, Gone
  <1>4. ASSUME NEW f \in Frames, NEW p \in Pipes, NEW id \in RequestIds,
               NEW kind \in {"initialize", "call", "cancel"}, NEW modern \in BOOLEAN,
               SendFrame(f, p, id, kind, modern)
        PROVE  /\ \A q \in Pipes : session'[q] # Nobody =>
                    session'[q] \in Ever' /\ frame'[session'[q]].pipe = q
               /\ \A g \in greeted' : Owes(g)' => Served(g)'
    <2>1. Posted(f, p, id, kind)
      BY <1>4, Sending
    <2>2. Ever' = Ever /\ Gone' = Gone
      BY <2>1 DEF Posted, storeVars, Ever, Gone
    <2>3. \A g \in Ever : g # f /\ g \in Frames /\ frame'[g] = frame[g]
      BY <2>1 DEF Posted, Handshakes, Made
    <2>4. ASSUME NEW q \in Pipes, session'[q] # Nobody
          PROVE  session'[q] \in Ever' /\ frame'[session'[q]].pipe = q
      BY <2>1, <2>2, <2>3, <2>4 DEF Posted, Ever
    <2>5. ASSUME NEW g \in greeted', Owes(g)'
          PROVE  Served(g)'
      <3>1. g # f /\ g \in greeted /\ g \in Frames
        BY <1>4, <2>1, <2>5 DEF SendFrame, Posted, Shape
      <3>2. frame'[g] = frame[g] /\ Owes(g)
        BY <2>1, <2>5, <3>1 DEF Posted
      <3>3. Served(g)
        BY <3>1, <3>2 DEF Ever
      <3>. QED
        BY <2>2, <2>3, <3>2, <3>3
    <2>. QED
      BY <2>4, <2>5
  <1>5. ASSUME NEW f \in Frames, HandlerStep(f)
        PROVE  /\ \A q \in Pipes : session'[q] # Nobody =>
                    session'[q] \in Ever' /\ frame'[session'[q]].pipe = q
               /\ \A g \in greeted' : Owes(g)' => Served(g)'
    <2>1. \A g \in Frames : /\ frame'[g].kind = frame[g].kind
                            /\ frame'[g].pipe = frame[g].pipe
                            /\ frame'[g].modern = frame[g].modern
      BY <1>5, HandlerMoves DEF KeyOf
    <2>2. \A g \in Frames \ {f} : frame'[g] = frame[g]
      BY <1>5, HandlerMoves
    <2>3. frame[f].pipe \in Pipes /\ frame[f].at # "unsent" /\ greeted' = greeted
      BY <1>5, HandlerMoves DEF Courses, KeyOf
    <2>4. Ever \subseteq Ever' /\ Gone \subseteq Gone' /\ Ever \subseteq Frames
      BY <1>5, StoreMoves DEF Handshakes, Made
    <2>5. session' = session \/ (/\ Commit(f) /\ frame[f].kind = "initialize" /\ frame[f].ok
                                 /\ session' = [session EXCEPT ![frame[f].pipe] = frame[f].sid])
      BY <1>5 DEF HandlerStep, Stamp, Track, SweepIdle, HandleInitialize, FindSession, Leave,
         Commit, Reply, FindToken, Fire
    <2>6. Commit(f) /\ frame[f].kind = "initialize" /\ frame[f].ok
            => frame[f].sid = f /\ f \in Ever
      BY DEF Commit, Handshakes
    <2>7. ASSUME NEW q \in Pipes, session'[q] # Nobody
          PROVE  session'[q] \in Ever' /\ frame'[session'[q]].pipe = q
      <3>1. CASE session'[q] = session[q]
        BY <2>1, <2>4, <2>7, <3>1 DEF Ever
      <3>2. CASE session'[q] # session[q]
        BY <2>1, <2>4, <2>5, <2>6, <3>2 DEF Shape
      <3>. QED
        BY <3>1, <3>2
    <2>8. ASSUME NEW g \in greeted, Owes(g)'
          PROVE  Served(g)'
      <3>1. g \in Frames
        BY DEF Shape
      <3>2. CASE g # f
        <4>1. frame'[g] = frame[g] /\ Owes(g)
          BY <2>2, <2>8, <3>1, <3>2
        <4>2. Served(g)
          BY <4>1 DEF Ever
        <4>. QED
          BY <2>1, <2>4, <4>1, <4>2
      <3>3. CASE g = f /\ Stamp(f)
        <4>1. frame'[f].sid = session[frame[f].pipe] /\ frame'[f].at = "stamped"
          BY <2>1, <2>8, <3>3, Moves DEF Moved
        <4>2. session[frame[f].pipe] # Nobody
          BY <3>3 DEF Handshakes
        <4>. QED
          BY <2>1, <2>3, <2>4, <3>3, <4>1, <4>2 DEF Ever
      <3>4. CASE g = f /\ ~Stamp(f)
        <4>1. frame[f].kind = "call" /\ ~FindToken(f) /\ ~HandleInitialize(f)
          BY <2>1, <2>8, <3>4 DEF FindToken, HandleInitialize, Courses
        <4>2. frame[f].at \notin {"unsent", "read"}
          BY <1>5, <3>4, <4>1 DEF HandlerStep, Track, SweepIdle, FindSession, Leave, EndDispatch,
             Dispatching, Commit, Reply, Fire, Courses
        <4>3. Served(f)
          BY <2>1, <2>8, <3>4, <4>1, <4>2 DEF Ever
        <4>4. frame'[f].sid = frame[f].sid
          BY <1>5, <3>4, <4>1, Moves DEF HandlerStep, Moved
        <4>5. frame[f].sid # Nobody
          BY <2>4, <4>3, NobodyIsNoFrame
        <4>6. CASE FindSession(f)
          <5>1. frame'[f].at = "worked"
            BY <4>6, Moves DEF Moved
          <5>2. frame'[f].ok \/ frame'[f].sid \in Gone'
            BY <1>5, <4>4, <4>5, <4>6, StoreMoves
          <5>. QED
            BY <2>1, <2>4, <3>4, <4>3, <4>4, <5>1, <5>2
        <4>7. CASE ~FindSession(f)
          <5>1. frame'[f].ok = frame[f].ok /\ frame'[f].at # "worked"
            BY <1>5, <3>4, <4>1, <4>7, Moves DEF HandlerStep, Moved
          <5>2. frame'[f].at \in {"left", "ready", "answered"} => frame[f].ok
            <6>1. frame'[f].at = "left" => ~UnknownSession(f)
              BY <1>5, <3>4, <4>1, <4>7, Moves DEF HandlerStep, Moved
            <6>2. frame'[f].at \in {"ready", "answered"} =>
                    frame[f].at \in {"left", "ready"}
              BY <1>5, <3>4, <4>1, <4>7, Moves DEF HandlerStep, Moved, Commit, Reply
            <6>. QED
              BY <4>1, <4>3, <4>5, <6>1, <6>2 DEF UnknownSession
          <5>. QED
            BY <2>1, <2>4, <3>4, <4>3, <4>4, <5>1, <5>2
        <4>. QED
          BY <4>6, <4>7
      <3>. QED
        BY <3>2, <3>3, <3>4
    <2>. QED
      BY <2>3, <2>7, <2>8
  <1>. QED
    BY <1>3, <1>4, <1>5 DEF PipeNext, HandlerStep

-----------------------------------------------------------------------------
\* No frame is sent yet, and the store is empty.
LEMMA SessionsBegin == PipeInit => Sessions
  <1>. SUFFICES ASSUME PipeInit PROVE Sessions
    OBVIOUS
  <1>1. Shape /\ Courses
    BY NobodyIsNoFrame DEF PipeInit, Shape, FrameRecord, Places, Courses, Unsent, At, KeyOf
  <1>2. Stored /\ Ever = {}
    BY FS_EmptySet, PipesAssumption DEF PipeInit, Stored, InOneOrder, Ever, Gone
  <1>3. Handshakes
    BY <1>2 DEF PipeInit, Handshakes, Unsent, At
  <1>. QED
    BY <1>1, <1>2, <1>3 DEF Sessions

LEMMA TableBegins == PipeInit => TableInv
  <1>1. PipeInit => KeysAreFresh /\ CancelsMatch /\ CancellationIsExact
    BY NobodyIsNoFrame DEF PipeInit, KeysAreFresh, CancelsMatch, CancellationIsExact,
       Dispatching, Unsent, At, KeyOf, IsRequest
  <1>. QED
    BY <1>1, SessionsBegin DEF TableInv

\* Every step keeps the invariant of the table.
LEMMA TableSteps == TableInv /\ [PipeNext]_pipeVars => TableInv'
  BY SessionsSteps, FreshSteps, CancelsSteps, ExactSteps DEF TableInv, Sessions

\* "Entries live exactly as long as their dispatch" (dispatcher/inflight.rs), and
\* who is not answered was cancelled by the client that asked, or named a session
\* that the store has lost.
THEOREM EntriesLiveAsLongAsTheirDispatch == PipeSpec => []CancellationIsExact
  <1>1. PipeInit => TableInv
    BY TableBegins
  <1>2. TableInv /\ [PipeNext]_pipeVars => TableInv'
    BY TableSteps
  <1>3. TableInv => CancellationIsExact
    BY DEF TableInv
  <1>. QED
    BY <1>1, <1>2, <1>3, PTL DEF PipeSpec

\* The session adapter: a call sent after an answered handshake bears a session of
\* its own pipe and is served, in every interleaving of the handlers, unless the
\* store has evicted or expired that session; and it evicts only when it was full.
THEOREM GreetedCallsFindTheirSession == PipeSpec => []CallsFindTheirSession
  <1>1. PipeInit => SessionInv
    <2>1. PipeInit => CallsFindTheirSession
      BY DEF PipeInit, CallsFindTheirSession
    <2>. QED
      BY <2>1, SessionsBegin DEF SessionInv
  <1>2. SessionInv /\ [PipeNext]_pipeVars => SessionInv'
    BY SessionsSteps, FindsSteps DEF SessionInv
  <1>3. SessionInv => CallsFindTheirSession
    BY DEF SessionInv
  <1>. QED
    BY <1>1, <1>2, <1>3, PTL DEF PipeSpec
=============================================================================
