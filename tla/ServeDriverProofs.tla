-------------------------- MODULE ServeDriverProofs --------------------------
(***************************************************************************)
(* Proofs about ServeDriver, for every set of frames, every max_in_flight  *)
(* and every choice of faults:                                             *)
(*   - type correctness;                                                   *)
(*   - at most Capacity handlers are in flight and at most Capacity        *)
(*     messages are queued;                                                *)
(*   - if handlers only reply, the driver never stalls on its own permits; *)
(*   - a drain without an error loses nothing, and nothing about a call    *)
(*     follows its reply;                                                  *)
(*   - the driver implements Connection.                                   *)
(***************************************************************************)
EXTENDS ServeDriver, FiniteSetTheorems, TLAPS

\* max_in_flight is taken as one at least.
LEMMA CapacityPositive == Capacity \in Nat \ {0}
  BY BoundsAssumption DEF BoundsAssumption, Capacity

\* The permit holders can be counted.
LEMMA HoldersFinite == IsFiniteSet(Holders)
  <1>1. IsFiniteSet(Frames)
    BY FramesAssumption, FS_Union DEF FramesAssumption, Frames
  <1>2. Holders \subseteq Frames
    BY DEF Holders
  <1>. QED
    BY <1>1, <1>2, FS_Subset

\* So can those of the next state.
LEMMA HoldersFinitePrime == IsFiniteSet(Holders')
  <1>1. IsFiniteSet(Frames)
    BY FramesAssumption, FS_Union DEF FramesAssumption, Frames
  <1>2. Holders' \subseteq Frames
    BY DEF Holders
  <1>. QED
    BY <1>1, <1>2, FS_Subset

-----------------------------------------------------------------------------
\* What the queue operations do to the type of the channel.
LEMMA EnqueueType ==
  ASSUME TypeOK, NEW m \in Message, Enqueue(m)
  PROVE  chan' \in Seq(Message) /\ Len(chan') <= Capacity
  BY CapacityPositive DEF Enqueue, HasRoom, TypeOK, Capacity

\* A message that is queued takes one place of the channel.
LEMMA EnqueueLength ==
  ASSUME TypeOK, NEW m, Enqueue(m)
  PROVE  Len(chan') = Len(chan) + 1
  BY DEF Enqueue, TypeOK

\* What handlers and publishers send are messages.
LEMMA MessageTypes ==
  /\ \A c \in Calls : Reply(c) \in Message /\ Push(c) \in Message
                      /\ Ask(c) \in Message
  /\ \A p \in Publishers : Push(p) \in Message
  BY DEF Reply, Push, Ask, Message

\* Every answer of the peer names a call that asked for it.
LEMMA AnswerIsToACall == \A x \in Answers : AnswerTo[x] \in Calls
  BY FramesAssumption DEF FramesAssumption

\* The steps of the select loop and of the drain keep the types.
LEMMA DriverTypes ==
  ASSUME TypeOK, DriverStep
  PROVE  TypeOK'
  <1>1. CASE WriteNext
    <2>1. /\ Head(chan) \in Message /\ Tail(chan) \in Seq(Message)
          /\ Len(Tail(chan)) <= Capacity
      BY <1>1, CapacityPositive DEF WriteNext, TypeOK, Capacity
    <2>. QED
      BY <1>1, <2>1 DEF WriteNext, TypeOK
  <1>2. CASE Sent
    BY <1>2 DEF Sent, TypeOK
  <1>3. CASE SendFails
    BY <1>3 DEF SendFails, TypeOK
  <1>4. CASE Stop
    BY <1>4 DEF Stop, LeaveLoop, TypeOK
  <1>5. CASE EndOfInput
    BY <1>5 DEF EndOfInput, LeaveLoop, TypeOK
  <1>6. CASE DrainDone
    BY <1>6 DEF DrainDone, TypeOK
  <1>7. CASE Deadline
    BY <1>7 DEF Deadline, TypeOK
  <1>8. CASE FlushDone
    BY <1>8 DEF FlushDone, TypeOK
  <1>9. CASE Close
    <2>1. <<>> \in Seq(Message) /\ Len(<<>>) <= Capacity
      BY CapacityPositive
    <2>. QED
      BY <1>9, <2>1 DEF Close, TypeOK
  <1>10. ASSUME NEW f \in Frames, Reap(f)
         PROVE  TypeOK'
    BY <1>10 DEF Reap, TypeOK
  <1>11. ASSUME NEW f \in Frames, Read(f)
         PROVE  TypeOK'
    BY <1>11 DEF Read, TypeOK
  <1>12. ASSUME NEW f \in Frames, Spawn(f)
         PROVE  TypeOK'
    BY <1>12 DEF Spawn, TypeOK, LiveStates
  <1>13. ASSUME NEW f \in Frames, NotReady(f)
         PROVE  TypeOK'
    BY <1>13 DEF NotReady, LeaveLoop, TypeOK
  <1>. QED
    BY <1>1, <1>2, <1>3, <1>4, <1>5, <1>6, <1>7, <1>8, <1>9, <1>10, <1>11,
       <1>12, <1>13 DEF DriverStep

\* So do the steps of the spawned handlers.
LEMMA HandlerTypes ==
  ASSUME TypeOK, NEW f \in Frames,
         HandlerStep(f) \/ AskTimesOut(f) \/ HandlerAborted(f)
  PROVE  TypeOK'
  <1>. USE DEF Becomes, driverVars, LiveStates
  <1>1. CASE HandlerPush(f)
    <2>1. f \in Calls
      BY <1>1, FramesAssumption DEF FramesAssumption, HandlerPush
    <2>2. chan' \in Seq(Message) /\ Len(chan') <= Capacity
      BY <1>1, <2>1, EnqueueType, MessageTypes DEF HandlerPush, TypeOK
    <2>3. pushed' \in [Calls -> 0..MaxPushes]
      BY <1>1, <2>1, BoundsAssumption DEF BoundsAssumption, HandlerPush, TypeOK
    <2>. QED
      BY <1>1, <2>2, <2>3 DEF HandlerPush, TypeOK
  <1>2. CASE HandlerAsk(f)
    <2>1. f \in Calls
      BY <1>2, FramesAssumption DEF FramesAssumption, HandlerAsk, Askers
    <2>2. chan' \in Seq(Message) /\ Len(chan') <= Capacity
      BY <1>2, <2>1, EnqueueType, MessageTypes DEF HandlerAsk
    <2>. QED
      BY <1>2, <2>2 DEF HandlerAsk, TypeOK
  <1>3. CASE HandleAnswer(f)
    <2>1. AnswerTo[f] \in Frames
      BY <1>3, AnswerIsToACall DEF HandleAnswer, Frames
    <2>. QED
      BY <1>3, <2>1 DEF HandleAnswer, TypeOK
  <1>4. CASE HandlerReply(f)
    <2>1. chan' \in Seq(Message) /\ Len(chan') <= Capacity
      BY <1>4, EnqueueType, MessageTypes DEF HandlerReply
    <2>. QED
      BY <1>4, <2>1 DEF HandlerReply, TypeOK
  <1>5. CASE HandlerQuiet(f)
    BY <1>5 DEF HandlerQuiet, TypeOK
  <1>6. CASE HandlerFails(f)
    BY <1>6 DEF HandlerFails, TypeOK
  <1>7. CASE AskTimesOut(f)
    BY <1>7 DEF AskTimesOut, TypeOK
  <1>8. CASE HandlerAborted(f)
    BY <1>8 DEF HandlerAborted, TypeOK
  <1>. QED
    BY <1>1, <1>2, <1>3, <1>4, <1>5, <1>6, <1>7, <1>8 DEF HandlerStep

\* So do publishers, the shutdown token and the peer.
LEMMA OutsideTypes ==
  ASSUME TypeOK,
         \/ \E p \in Publishers : LookUpWriter(p) \/ PublisherSend(p)
         \/ FireShutdown \/ PeerCloses \/ Returned
  PROVE  TypeOK'
  <1>. USE DEF Publish, driverVars
  <1>1. ASSUME NEW p \in Publishers, LookUpWriter(p)
        PROVE  TypeOK'
    BY <1>1 DEF LookUpWriter, TypeOK
  <1>2. ASSUME NEW p \in Publishers, PublisherSend(p)
        PROVE  TypeOK'
    <2>1. chan' \in Seq(Message) /\ Len(chan') <= Capacity
      BY <1>2, EnqueueType, MessageTypes DEF PublisherSend, TypeOK
    <2>. QED
      BY <1>2, <2>1 DEF PublisherSend, TypeOK
  <1>3. CASE FireShutdown
    BY <1>3 DEF FireShutdown, TypeOK
  <1>4. CASE PeerCloses
    BY <1>4 DEF PeerCloses, TypeOK
  <1>5. CASE Returned
    BY <1>5 DEF Returned, vars, TypeOK
  <1>. QED
    BY <1>1, <1>2, <1>3, <1>4, <1>5

\* The types hold when serve_connection starts.
LEMMA InitTypes == Init => TypeOK
  <1>. SUFFICES ASSUME Init
                PROVE  TypeOK
    OBVIOUS
  <1>1. pushed \in [Calls -> 0..MaxPushes]
    BY BoundsAssumption DEF BoundsAssumption, Init
  <1>2. <<>> \in Seq(Message) /\ Len(<<>>) <= Capacity
    BY CapacityPositive
  <1>3. task \in [Frames -> {"unread"}] /\ pub \in [Publishers -> {"idle"}]
    BY DEF Init
  <1>. QED
    BY <1>1, <1>2, <1>3 DEF Init, TypeOK

\* Every step keeps the types.
LEMMA StepTypes == TypeOK /\ [Next]_vars => TypeOK'
  <1>1. CASE UNCHANGED vars
    BY <1>1 DEF vars, TypeOK
  <1>. QED
    BY <1>1, DriverTypes, HandlerTypes, OutsideTypes DEF Next

\* Every variable keeps its type (the driver's locals and the channel).
THEOREM TypeCorrect == Spec => []TypeOK
  <1>. QED
    BY InitTypes, StepTypes, PTL DEF Spec
-----------------------------------------------------------------------------
(***************************************************************************)
(* The driver's counting argument.  Select is biased, so the channel is    *)
(* empty when a frame is read; from then on, until the frame is spawned,   *)
(* nobody empties the channel and (if handlers only reply) every message   *)
(* that enters it has cost a permit.                                       *)
(***************************************************************************)
PermitBound == Cardinality(Holders) <= Capacity
ParkedServing == at = "park" => phase = "serving"
RoomWhileParked ==
  at = "park" => Len(chan) + Cardinality(Holders) <= Capacity

SInv == TypeOK /\ PermitBound /\ ParkedServing

OnlyReplies == Chatty = {} /\ Answers = {} /\ Publishers = {}

HoldersShrink == Cardinality(Holders') <= Cardinality(Holders)

\* Fewer holders, a smaller count.
LEMMA SubsetShrinks ==
  ASSUME Holders' \subseteq Holders
  PROVE  HoldersShrink
  BY HoldersFinite, FS_Subset DEF HoldersShrink

\* Only Spawn adds a permit holder.
LEMMA OthersShrink ==
  ASSUME TypeOK, [Next]_vars, \A f \in Frames : ~Spawn(f)
  PROVE  HoldersShrink
  <1>. SUFFICES Holders' \subseteq Holders
    BY SubsetShrinks
  <1>1. CASE UNCHANGED task
    BY <1>1 DEF Holders
  <1>2. CASE Close
    BY <1>2 DEF Close, Holders, LiveStates
  <1>3. ASSUME NEW f \in Frames, Read(f)
        PROVE  Holders' \subseteq Holders
    BY <1>3 DEF Read, TypeOK, Holders, LiveStates
  <1>4. ASSUME NEW f \in Frames, NotReady(f)
        PROVE  Holders' \subseteq Holders
    BY <1>4 DEF NotReady, TypeOK, Holders, LiveStates
  <1>5. ASSUME NEW f \in Frames,
               HandlerStep(f) \/ AskTimesOut(f) \/ HandlerAborted(f)
        PROVE  Holders' \subseteq Holders
    <2>1. CASE HandlerPush(f)
      BY <2>1 DEF HandlerPush, Holders
    <2>2. CASE HandleAnswer(f)
      BY <2>2 DEF HandleAnswer, TypeOK, Holders, LiveStates
    <2>3. ASSUME NEW s, Becomes(f, s), f \in Holders
          PROVE  Holders' \subseteq Holders
      BY <2>3 DEF Becomes, TypeOK, Holders
    <2>. QED
      BY <1>5, <2>1, <2>2, <2>3 DEF HandlerStep, HandlerAsk, HandlerReply,
         HandlerQuiet, HandlerFails, HandlerAborted, AskTimesOut, Holders,
         LiveStates
  <1>6. CASE DriverStep
    BY <1>1, <1>2, <1>3, <1>4, <1>6 DEF DriverStep, WriteNext, Sent,
       SendFails, Stop, EndOfInput, DrainDone, Deadline, FlushDone, Reap
  <1>7. CASE \/ \E p \in Publishers : LookUpWriter(p) \/ PublisherSend(p)
             \/ FireShutdown \/ PeerCloses \/ Returned \/ UNCHANGED vars
    BY <1>1, <1>7 DEF LookUpWriter, PublisherSend, Publish, FireShutdown,
       PeerCloses, Returned, vars
  <1>. QED
    BY <1>5, <1>6, <1>7 DEF Next

\* Where the driver is and its phase are changed by the driver alone.
LEMMA OnlyTheDriverMoves == [Next]_vars => DriverStep \/ UNCHANGED <<at, phase>>
  BY DEF Next, HandlerStep, HandlerPush, HandlerAsk, HandleAnswer,
     HandlerReply, HandlerQuiet, HandlerFails, AskTimesOut, HandlerAborted,
     LookUpWriter, PublisherSend, Publish, FireShutdown, PeerCloses, Returned,
     Becomes, driverVars, vars

\* The counting invariant is inductive.
LEMMA SInvInductive == SInv /\ [Next]_vars => SInv'
  <1>. SUFFICES ASSUME SInv, [Next]_vars
                PROVE  SInv'
    OBVIOUS
  <1>. USE DEF SInv
  <1>1. TypeOK'
    BY StepTypes
  <1>2. PermitBound'
    <2>1. ASSUME NEW f \in Frames, Spawn(f)
          PROVE  PermitBound'
      <3>1. Holders' \subseteq Holders \cup {f}
        BY <2>1 DEF Spawn, TypeOK, Holders
      <3>2. /\ IsFiniteSet(Holders \cup {f})
            /\ Cardinality(Holders \cup {f}) <= Cardinality(Holders) + 1
        BY HoldersFinite, FS_AddElement, FS_CardinalityType
      <3>3. Cardinality(Holders') <= Cardinality(Holders) + 1
        BY <3>1, <3>2, FS_Subset, FS_CardinalityType, HoldersFinite,
           HoldersFinitePrime
      <3>. QED
        BY <2>1, <3>3, HoldersFinite, HoldersFinitePrime, FS_CardinalityType,
           CapacityPositive DEF Spawn, PermitFree, PermitBound, Capacity
    <2>2. CASE \A f \in Frames : ~Spawn(f)
      BY <2>2, OthersShrink, HoldersFinite, HoldersFinitePrime,
         FS_CardinalityType, CapacityPositive
         DEF HoldersShrink, PermitBound, Capacity
    <2>. QED
      BY <2>1, <2>2
  <1>3. ParkedServing'
    <2>1. CASE DriverStep
      BY <2>1 DEF DriverStep, WriteNext, Sent, SendFails, Stop, EndOfInput,
         DrainDone, Deadline, FlushDone, Close, Reap, Read, Spawn, NotReady,
         LeaveLoop, Quiet, ParkedServing
    <2>2. CASE UNCHANGED <<at, phase>>
      BY <2>2 DEF ParkedServing
    <2>. QED
      BY <2>1, <2>2, OnlyTheDriverMoves
  <1>. QED
    BY <1>1, <1>2, <1>3

\* It holds when serve_connection starts.
LEMMA InitSInv == Init => SInv
  <1>. SUFFICES ASSUME Init
                PROVE  SInv
    OBVIOUS
  <1>1. Holders = {}
    BY DEF Init, Holders, LiveStates
  <1>. QED
    BY <1>1, InitTypes, FS_EmptySet, CapacityPositive
       DEF SInv, PermitBound, ParkedServing, Init

\* No more than max_in_flight handlers (one, if that is zero) are in flight.
THEOREM PermitsBounded == Spec => []PermitBound
  <1>. QED
    BY InitSInv, SInvInductive, PTL DEF Spec, SInv

\* If handlers only reply, a parked driver leaves room for their replies.
LEMMA RoomInductive ==
  OnlyReplies /\ SInv /\ RoomWhileParked /\ [Next]_vars => RoomWhileParked'
  <1>. SUFFICES ASSUME OnlyReplies, SInv, RoomWhileParked, [Next]_vars,
                       at' = "park"
                PROVE  Len(chan') + Cardinality(Holders') <= Capacity
    BY DEF RoomWhileParked
  <1>. USE DEF SInv
  <1>0. /\ Cardinality(Holders) \in Nat /\ Cardinality(Holders') \in Nat
        /\ Capacity \in Nat /\ Len(chan) \in Nat
    BY HoldersFinite, HoldersFinitePrime, FS_CardinalityType, CapacityPositive
       DEF TypeOK
  <1>1. ASSUME NEW f \in Frames, Read(f)
        PROVE  Len(chan') + Cardinality(Holders') <= Capacity
    <2>1. Holders' \subseteq Holders
      BY <1>1 DEF Read, TypeOK, Holders, LiveStates
    <2>2. Len(chan') = 0
      BY <1>1 DEF Read, Quiet
    <2>. QED
      BY <1>0, <2>1, <2>2, SubsetShrinks DEF HoldersShrink, PermitBound
  <1>2. ASSUME NEW f \in Frames, HandlerReply(f)
        PROVE  Len(chan') + Cardinality(Holders') <= Capacity
    <2>1. f \in Holders /\ Holders' = Holders \ {f}
      BY <1>2 DEF HandlerReply, Becomes, TypeOK, Holders, LiveStates
    <2>2. Cardinality(Holders') = Cardinality(Holders) - 1
      BY <2>1, HoldersFinite, FS_RemoveElement
    <2>3. Len(chan') = Len(chan) + 1 /\ at = "park"
      BY <1>2, EnqueueLength DEF HandlerReply, Becomes, driverVars
    <2>. QED
      BY <1>0, <2>2, <2>3 DEF RoomWhileParked
  <1>3. CASE /\ UNCHANGED <<at, chan>>
             /\ \A f \in Frames : ~Spawn(f)
    BY <1>0, <1>3, OthersShrink DEF RoomWhileParked, HoldersShrink
  <1>4. CASE DriverStep
    BY <1>1, <1>4 DEF DriverStep, WriteNext, Sent, SendFails, Stop,
       EndOfInput, DrainDone, Deadline, FlushDone, Close, Reap, Spawn,
       NotReady, LeaveLoop, Quiet, ParkedServing
  <1>5. ASSUME NEW f \in Frames,
               HandlerStep(f) \/ AskTimesOut(f) \/ HandlerAborted(f)
        PROVE  Len(chan') + Cardinality(Holders') <= Capacity
    <2>1. f \notin Chatty /\ f \notin Answers /\ f \notin Askers
      BY DEF OnlyReplies, Askers
    <2>2. HandlerReply(f) \/ UNCHANGED <<at, chan>>
      BY <1>5, <2>1 DEF HandlerStep, HandlerPush, HandlerAsk, HandleAnswer,
         HandlerQuiet, HandlerFails, AskTimesOut, HandlerAborted, Becomes,
         driverVars
    <2>3. \A g \in Frames : Spawn(g) => at' # "park"
      BY DEF Spawn
    <2>. QED
      BY <1>2, <1>3, <2>2, <2>3
  <1>6. CASE FireShutdown \/ PeerCloses \/ Returned \/ UNCHANGED vars
    <2>1. UNCHANGED <<at, chan>> /\ \A g \in Frames : ~Spawn(g)
      BY <1>6 DEF FireShutdown, PeerCloses, Returned, driverVars, vars, Spawn
    <2>. QED
      BY <1>3, <2>1
  <1>. QED
    BY <1>4, <1>5, <1>6 DEF Next, OnlyReplies

\* With that room, whoever waits for a permit gets one.
LEMMA RoomMeansNoStall == RoomWhileParked /\ TypeOK => NoStall
  <1>1. /\ Cardinality(Holders) \in Nat /\ Capacity \in Nat \ {0}
        /\ TypeOK => Len(chan) \in Nat
    BY HoldersFinite, FS_CardinalityType, CapacityPositive DEF TypeOK
  <1>. QED
    BY <1>1 DEF RoomWhileParked, NoStall, PermitFree, HasRoom

\* With handlers that only reply, whoever waits for a permit gets one: a permit
\* is free, or a handler that holds one has room for its reply.
THEOREM ReplyOnlyNeverStalls == OnlyReplies => (Spec => []NoStall)
  <1>. SUFFICES ASSUME OnlyReplies
                PROVE  Spec => []NoStall
    OBVIOUS
  <1>1. Init => RoomWhileParked
    BY DEF Init, RoomWhileParked
  <1>2. SInv /\ RoomWhileParked /\ [Next]_vars => RoomWhileParked'
    BY RoomInductive
  <1>3. SInv /\ RoomWhileParked => NoStall
    BY RoomMeansNoStall DEF SInv
  <1>. QED
    BY <1>1, <1>2, <1>3, InitSInv, SInvInductive, PTL DEF Spec
-----------------------------------------------------------------------------
(***************************************************************************)
(* What reaches the peer.  Messages pass through chan, writing and wire,   *)
(* so the order of the three together is what the peer will see, and what  *)
(* an end without an error leaves behind is nothing.                       *)
(***************************************************************************)
Issued == Range(wire) \cup Range(writing) \cup Range(chan)

\* Nothing about a call comes after its reply, in one sequence or in the second of two.
Ordered(s) ==
    \A i, j \in DOMAIN s : i < j /\ s[i].kind = "reply" => s[j].of # s[i].of
Before(s, t) ==
    \A i \in DOMAIN s, j \in DOMAIN t : s[i].kind = "reply" => t[j].of # s[i].of

PipelineOrdered ==
    /\ Ordered(wire) /\ Ordered(chan)
    /\ Before(wire, writing) /\ Before(wire, chan) /\ Before(writing, chan)

\* transport.send is given one message, and only before the driver closes.
OneInHand ==
    /\ at = "send" => /\ phase \in {"serving", "draining", "flushing"}
                      /\ \E m \in Message : writing = <<m>>
    /\ at # "send" => writing = <<>>

\* A call that is spoken of was spawned; a call with a reply has ended;
\* publishers only push.
IssuedByHandlers ==
    \A m \in Issued :
        /\ m.of \in Calls => task[m.of] \notin {"unread", "held"}
        /\ m.of \notin Calls => m.kind = "push"
        /\ m.kind = "reply" => task[m.of] = "ended"

\* A call that has ended has its reply under way, if no write failed.
EndedHasReply ==
    ~sendFailed => \A c \in Calls : task[c] = "ended" => Reply(c) \in Issued

\* What a frame without a reply came to, and what the driver remembers of it.
FatesRemembered ==
    /\ \A f \in Frames : task[f] = "held" => at = "park"
    /\ \A f, g \in Frames : task[f] = "held" /\ task[g] = "held" => f = g
    /\ \A f \in Frames : task[f] = "dropped" => result = "err" /\ phase # "serving"
    /\ \A f \in Frames : task[f] = "aborted" => aborting # {} \/ sendFailed

\* From the end of the flush on nobody can send, and after the return nothing is left.
SendersSilent ==
    /\ phase = "closing" /\ ~sendFailed => chan = <<>> /\ SendersGone
    /\ phase = "closed" => chan = <<>> /\ Holders = {}

DInv == /\ PipelineOrdered /\ OneInHand /\ IssuedByHandlers
        /\ EndedHasReply /\ FatesRemembered /\ SendersSilent

\* What appending, taking and concatenating do to the messages of a sequence.
LEMMA InAppend ==
  ASSUME NEW s \in Seq(Message), NEW m \in Message
  PROVE  Range(Append(s, m)) = Range(s) \cup {m}
  <1>1. \A i \in 1..Len(s) : Append(s, m)[i] = s[i]
    OBVIOUS
  <1>2. Append(s, m)[Len(s) + 1] = m /\ Len(Append(s, m)) = Len(s) + 1
    OBVIOUS
  <1>3. DOMAIN s = 1..Len(s) /\ DOMAIN Append(s, m) = 1..(Len(s) + 1) /\ Len(s) \in Nat
    OBVIOUS
  <1>. QED
    BY <1>1, <1>2, <1>3 DEF Range

\* A sequence holds its first element and what follows it.
LEMMA InHeadTail ==
  ASSUME NEW s \in Seq(Message), s # <<>>
  PROVE  /\ Range(s) = Range(<<Head(s)>>) \cup Range(Tail(s))
         /\ Head(s) \in Message /\ Tail(s) \in Seq(Message)
  <1>1. /\ DOMAIN Tail(s) = 1..(Len(s) - 1) /\ Len(s) \in Nat \ {0}
        /\ DOMAIN s = 1..Len(s)
        /\ \A i \in 1..(Len(s) - 1) : Tail(s)[i] = s[i + 1]
        /\ Head(s) = s[1]
    OBVIOUS
  <1>2. Range(<<Head(s)>>) = {Head(s)}
    BY DEF Range
  <1>3. \A i \in 1..Len(s) : i = 1 \/ i - 1 \in 1..(Len(s) - 1)
    BY <1>1
  <1>4. \A i \in 1..(Len(s) - 1) : i + 1 \in 1..Len(s)
    BY <1>1
  <1>5. Range(Tail(s)) \subseteq Range(s) /\ Head(s) \in Range(s)
    BY <1>1, <1>4 DEF Range
  <1>6. Range(s) \subseteq {Head(s)} \cup Range(Tail(s))
    <2>1. SUFFICES ASSUME NEW i \in 1..Len(s), i # 1
                   PROVE  s[i] \in Range(Tail(s))
      BY <1>1 DEF Range
    <2>2. i - 1 \in DOMAIN Tail(s) /\ Tail(s)[i - 1] = s[i]
      BY <1>1, <1>3, <2>1
    <2>. QED
      BY <2>2 DEF Range
  <1>. QED
    BY <1>2, <1>5, <1>6

\* The empty sequence holds no message, and constrains none.
LEMMA InEmpty == Range(<<>>) = {} /\ Ordered(<<>>)
                 /\ \A s : Before(s, <<>>) /\ Before(<<>>, s)
  BY DEF Range, Ordered, Before

\* One message is in a sequence of one.
LEMMA InOne ==
  ASSUME NEW m
  PROVE  Range(<<m>>) = {m}
  BY DEF Range

\* Order survives appending a message that no reply forbids ...
LEMMA OrderedAppend ==
  ASSUME NEW s \in Seq(Message), NEW m \in Message, Ordered(s),
         \A x \in Range(s) : x.kind = "reply" => m.of # x.of
  PROVE  Ordered(Append(s, m))
  BY DEF Ordered, Range

\* ... and taking the first message, which comes before the others.
LEMMA OrderedTail ==
  ASSUME NEW s \in Seq(Message), s # <<>>, Ordered(s)
  PROVE  Ordered(Tail(s)) /\ Before(<<Head(s)>>, Tail(s))
  BY DEF Ordered, Before

\* Before speaks of the messages alone.
LEMMA BeforeIsAboutMessages ==
  ASSUME NEW s, NEW t
  PROVE  Before(s, t) <=> \A x \in Range(s), y \in Range(t) :
                            x.kind = "reply" => y.of # x.of
  BY DEF Before, Range

-----------------------------------------------------------------------------
\* What has ended or was read stays so.
LEMMA FatesAreFinal ==
  ASSUME TypeOK, [Next]_vars, NEW f \in Frames
  PROVE  /\ task[f] = "ended" => task'[f] = "ended"
         /\ task[f] \notin {"unread", "held"} => task'[f] \notin {"unread", "held"}
  <1>1. CASE UNCHANGED task
    BY <1>1
  <1>2. CASE DriverStep
    BY <1>2 DEF DriverStep, WriteNext, Sent, SendFails, Stop, EndOfInput,
       LeaveLoop, DrainDone, Deadline, FlushDone, Close, Reap, Read, CanArrive,
       Spawn, NotReady, TypeOK, Holders, LiveStates
  <1>3. ASSUME NEW g \in Frames,
               HandlerStep(g) \/ AskTimesOut(g) \/ HandlerAborted(g)
        PROVE  /\ task[f] = "ended" => task'[f] = "ended"
               /\ task[f] \notin {"unread", "held"} => task'[f] \notin {"unread", "held"}
    <2>1. CASE HandleAnswer(g)
      BY <2>1, AnswerIsToACall DEF HandleAnswer, TypeOK, Frames
    <2>2. CASE ~HandleAnswer(g)
      BY <1>3, <2>2 DEF HandlerStep, HandlerPush, HandlerAsk, HandlerReply,
         HandlerQuiet, HandlerFails, AskTimesOut, HandlerAborted, Becomes,
         TypeOK, Holders, LiveStates
    <2>. QED
      BY <2>1, <2>2
  <1>. QED
    BY <1>1, <1>2, <1>3 DEF Next, LookUpWriter, PublisherSend, Publish,
       FireShutdown, PeerCloses, Returned, vars

\* The only steps that touch a message: it is queued, taken, written or dropped.
LEMMA MessageSteps ==
  [Next]_vars =>
    \/ UNCHANGED <<chan, writing, wire>>
    \/ WriteNext \/ Sent \/ SendFails \/ Close
    \/ \E c \in Frames : HandlerPush(c) \/ HandlerAsk(c) \/ HandlerReply(c)
    \/ \E p \in Publishers : PublisherSend(p)
  BY DEF Next, DriverStep, Stop, EndOfInput, LeaveLoop, DrainDone, Deadline,
     FlushDone, Reap, Read, Spawn, NotReady, HandlerStep, HandleAnswer,
     HandlerQuiet, HandlerFails, AskTimesOut, HandlerAborted, Becomes,
     LookUpWriter, Publish, FireShutdown, PeerCloses, Returned, driverVars, vars

\* What handlers and publishers enqueue: one message that no reply precedes.
NewMessage(m) ==
    /\ m \in Message
    /\ chan' = Append(chan, m)
    /\ UNCHANGED <<writing, wire, at, phase, sendFailed>>
    /\ m.of \in Calls => task[m.of] \in LiveStates
    /\ m.of \notin Calls => m.kind = "push"
    /\ m.kind = "reply" => task'[m.of] = "ended"

\* Whatever a sender puts into the channel is as NewMessage says.
LEMMA EnqueuedIsNew ==
  ASSUME TypeOK,
         \/ \E c \in Frames : HandlerPush(c) \/ HandlerAsk(c) \/ HandlerReply(c)
         \/ \E p \in Publishers : PublisherSend(p)
  PROVE  UNCHANGED <<chan, writing, wire>> \/ \E m : NewMessage(m)
  <1>1. ASSUME NEW c \in Frames, HandlerPush(c)
        PROVE  UNCHANGED <<chan, writing, wire>> \/ \E m : NewMessage(m)
    <2>1. c \in Calls /\ task[c] \in LiveStates
      BY <1>1, FramesAssumption DEF FramesAssumption, HandlerPush, Holders
    <2>2. CASE Enqueue(Push(c))
      <3>1. NewMessage(Push(c))
        BY <1>1, <2>1, <2>2, MessageTypes
           DEF NewMessage, HandlerPush, Enqueue, Push, driverVars
      <3>. QED
        BY <3>1
    <2>. QED
      BY <1>1, <2>2 DEF HandlerPush, driverVars
  <1>2. ASSUME NEW c \in Frames, HandlerAsk(c)
        PROVE  \E m : NewMessage(m)
    <2>1. c \in Calls
      BY <1>2, FramesAssumption DEF FramesAssumption, HandlerAsk, Askers
    <2>2. NewMessage(Ask(c))
      BY <1>2, <2>1, MessageTypes
         DEF NewMessage, HandlerAsk, Enqueue, Ask, Becomes, driverVars, LiveStates
    <2>. QED
      BY <2>2
  <1>3. ASSUME NEW c \in Frames, HandlerReply(c)
        PROVE  \E m : NewMessage(m)
    <2>1. c \in Calls
      BY <1>3 DEF HandlerReply
    <2>2. NewMessage(Reply(c))
      BY <1>3, <2>1, MessageTypes DEF NewMessage, HandlerReply, Enqueue, Reply,
         Becomes, driverVars, LiveStates, TypeOK
    <2>. QED
      BY <2>2
  <1>4. ASSUME NEW p \in Publishers, PublisherSend(p)
        PROVE  UNCHANGED <<chan, writing, wire>> \/ \E m : NewMessage(m)
    <2>1. p \notin Calls
      BY FramesAssumption DEF FramesAssumption, Frames
    <2>2. CASE Enqueue(Push(p))
      <3>1. NewMessage(Push(p))
        BY <1>4, <2>1, <2>2, MessageTypes
           DEF NewMessage, PublisherSend, Publish, Enqueue, Push, driverVars
      <3>. QED
        BY <3>1
    <2>. QED
      BY <1>4, <2>2 DEF PublisherSend, Publish, driverVars
  <1>. QED
    BY <1>1, <1>2, <1>3, <1>4

\* How the messages under way change: one is added, or some are lost, or neither.
LEMMA IssuedSteps ==
  ASSUME TypeOK, OneInHand, [Next]_vars
  PROVE  \/ Issued' = Issued
         \/ (SendFails \/ Close) /\ Issued' \subseteq Issued
         \/ \E m : NewMessage(m) /\ Issued' = Issued \cup {m}
  <1>. USE DEF Issued
  <1>1. CASE UNCHANGED <<chan, writing, wire>>
    BY <1>1 DEF Range
  <1>2. CASE WriteNext
    <2>1. writing = <<>> /\ wire' = wire
      BY <1>2 DEF WriteNext, Selecting, OneInHand
    <2>2. Range(chan) = Range(writing') \cup Range(chan')
      BY <1>2, InHeadTail DEF WriteNext, TypeOK
    <2>. QED
      BY <2>1, <2>2, InEmpty DEF Range
  <1>3. CASE Sent
    <2>1. PICK m \in Message : writing = <<m>>
      BY <1>3 DEF Sent, OneInHand
    <2>2. wire' = Append(wire, m) /\ writing' = <<>> /\ chan' = chan
      BY <1>3, <2>1 DEF Sent, TypeOK
    <2>3. Range(wire') = Range(wire) \cup {m} /\ Range(writing) = {m}
      BY <2>1, <2>2, InAppend, InOne DEF TypeOK
    <2>4. Range(chan') = Range(chan) /\ Range(writing') = {}
      BY <2>2, InEmpty
    <2>. QED
      BY <2>3, <2>4
  <1>4. CASE SendFails
    <2>1. Range(writing') = {} /\ UNCHANGED <<chan, wire>>
      BY <1>4, InEmpty DEF SendFails
    <2>. QED
      BY <1>4, <2>1 DEF Range
  <1>5. CASE Close
    <2>1. Range(chan') = {} /\ UNCHANGED <<writing, wire>>
      BY <1>5, InEmpty DEF Close
    <2>. QED
      BY <1>5, <2>1 DEF Range
  <1>6. ASSUME NEW m, NewMessage(m)
        PROVE  Issued' = Issued \cup {m}
    <2>1. Range(chan') = Range(chan) \cup {m} /\ UNCHANGED <<writing, wire>>
      BY <1>6, InAppend DEF NewMessage, TypeOK
    <2>. QED
      BY <2>1 DEF Range
  <1>. QED
    BY <1>1, <1>2, <1>3, <1>4, <1>5, <1>6, MessageSteps, EnqueuedIsNew

\* A new message is about a call without a reply yet, or about none.
LEMMA NewIsUnreplied ==
  ASSUME TypeOK, IssuedByHandlers, NEW m, NewMessage(m),
         NEW x \in Issued, x.kind = "reply"
  PROVE  m.of # x.of
  BY DEF IssuedByHandlers, NewMessage, LiveStates

\* The order of the pipeline is kept.
LEMMA PipelineSteps ==
  ASSUME TypeOK, OneInHand, IssuedByHandlers, PipelineOrdered, [Next]_vars
  PROVE  PipelineOrdered'
  <1>. USE DEF PipelineOrdered
  <1>1. CASE UNCHANGED <<chan, writing, wire>>
    BY <1>1 DEF Ordered, Before
  <1>2. CASE WriteNext
    <2>1. /\ writing' = <<Head(chan)>> /\ chan' = Tail(chan) /\ wire' = wire
          /\ chan # <<>> /\ chan \in Seq(Message)
      BY <1>2 DEF WriteNext, TypeOK
    <2>2. Ordered(chan') /\ Before(writing', chan')
      BY <2>1, OrderedTail
    <2>3. Range(chan) = Range(writing') \cup Range(chan')
      BY <2>1, InHeadTail
    <2>4. Before(wire, writing') /\ Before(wire, chan')
      BY <2>3, BeforeIsAboutMessages
    <2>. QED
      BY <2>1, <2>2, <2>4
  <1>3. CASE Sent
    <2>1. PICK m \in Message : writing = <<m>>
      BY <1>3 DEF Sent, OneInHand
    <2>2. wire' = Append(wire, m) /\ writing' = <<>> /\ chan' = chan
      BY <1>3, <2>1 DEF Sent, TypeOK
    <2>3. Range(wire') = Range(wire) \cup {m} /\ Range(writing) = {m}
      BY <2>1, <2>2, InAppend, InOne DEF TypeOK
    <2>4. Ordered(wire')
      BY <2>2, <2>3, OrderedAppend, BeforeIsAboutMessages DEF TypeOK
    <2>5. Before(wire', chan)
      BY <2>3, BeforeIsAboutMessages
    <2>. QED
      BY <2>2, <2>4, <2>5, InEmpty
  <1>4. CASE SendFails
    BY <1>4, InEmpty DEF SendFails
  <1>5. CASE Close
    BY <1>5, InEmpty DEF Close
  <1>6. ASSUME NEW m, NewMessage(m)
        PROVE  PipelineOrdered'
    <2>1. /\ chan' = Append(chan, m) /\ m \in Message /\ chan \in Seq(Message)
          /\ UNCHANGED <<writing, wire>>
      BY <1>6 DEF NewMessage, TypeOK
    <2>2. Range(chan') = Range(chan) \cup {m}
      BY <2>1, InAppend
    <2>3. \A x \in Issued : x.kind = "reply" => m.of # x.of
      BY <1>6, NewIsUnreplied
    <2>4. Ordered(chan')
      BY <2>1, <2>3, OrderedAppend DEF Issued
    <2>5. Before(wire, chan') /\ Before(writing, chan')
      BY <2>2, <2>3, BeforeIsAboutMessages DEF Issued
    <2>. QED
      BY <2>1, <2>4, <2>5
  <1>. QED
    BY <1>1, <1>2, <1>3, <1>4, <1>5, <1>6, MessageSteps, EnqueuedIsNew

\* A message stays in hand until it is written or given up.
LEMMA OneInHandSteps ==
  ASSUME SInv, OneInHand, [Next]_vars
  PROVE  OneInHand'
  <1>. USE DEF OneInHand, SInv
  <1>1. CASE WriteNext
    <2>1. Head(chan) \in Message
      BY <1>1 DEF WriteNext, TypeOK
    <2>. QED
      BY <1>1, <2>1 DEF WriteNext, Selecting
  <1>2. CASE ~WriteNext /\ DriverStep
    BY <1>2 DEF DriverStep, Sent, SendFails, Stop, EndOfInput, LeaveLoop, DrainDone,
       Deadline, FlushDone, Close, Reap, Read, Quiet, Spawn, NotReady, ParkedServing
  <1>3. CASE UNCHANGED <<at, writing, phase>>
    BY <1>3
  <1>. QED
    BY <1>1, <1>2, <1>3 DEF Next, HandlerStep, HandlerPush, HandlerAsk, HandleAnswer,
       HandlerReply, HandlerQuiet, HandlerFails, AskTimesOut, HandlerAborted,
       LookUpWriter, PublisherSend, Publish, FireShutdown, PeerCloses, Returned,
       Becomes, driverVars, vars

\* Messages keep to the calls they are about.
LEMMA IssuedByHandlersSteps ==
  ASSUME TypeOK, OneInHand, IssuedByHandlers, [Next]_vars
  PROVE  IssuedByHandlers'
  <1>. SUFFICES ASSUME NEW m \in Issued'
                PROVE  /\ m.of \in Calls => task'[m.of] \notin {"unread", "held"}
                       /\ m.of \notin Calls => m.kind = "push"
                       /\ m.kind = "reply" => task'[m.of] = "ended"
    BY DEF IssuedByHandlers
  <1>1. \A c \in Calls : /\ task[c] = "ended" => task'[c] = "ended"
                         /\ task[c] \notin {"unread", "held"}
                              => task'[c] \notin {"unread", "held"}
    BY FatesAreFinal DEF Frames
  <1>2. CASE m \in Issued
    BY <1>1, <1>2 DEF IssuedByHandlers
  <1>3. CASE NewMessage(m)
    BY <1>1, <1>3 DEF NewMessage, LiveStates
  <1>. QED
    BY <1>2, <1>3, IssuedSteps

\* An ended call keeps its reply in the pipeline.
LEMMA EndedHasReplySteps ==
  ASSUME TypeOK, OneInHand, SendersSilent, EndedHasReply, [Next]_vars
  PROVE  EndedHasReply'
  <1>. SUFFICES ASSUME ~sendFailed', NEW c \in Calls, task'[c] = "ended"
                PROVE  Reply(c) \in Issued'
    BY DEF EndedHasReply, Reply
  <1>1. ~sendFailed /\ ~SendFails
    BY DEF Next, DriverStep, WriteNext, Sent, SendFails, Stop, EndOfInput,
       LeaveLoop, DrainDone, Deadline, FlushDone, Close, Reap, Read, Spawn,
       NotReady, HandlerStep, HandlerPush, HandlerAsk, HandleAnswer,
       HandlerReply, HandlerQuiet, HandlerFails, AskTimesOut, HandlerAborted,
       LookUpWriter, PublisherSend, Publish, FireShutdown, PeerCloses,
       Returned, Becomes, driverVars, vars
  <1>2. Issued \subseteq Issued'
    <2>1. CASE Close
      BY <1>1, <2>1 DEF Close, SendersSilent, Issued
    <2>. QED
      BY <1>1, <2>1, IssuedSteps
  <1>3. task[c] = "ended" \/ HandlerReply(c)
    <2>1. c \in Frames /\ c \notin Notes /\ c \notin Answers
      BY FramesAssumption DEF FramesAssumption, Frames
    <2>2. CASE UNCHANGED task
      BY <2>2
    <2>3. CASE DriverStep
      BY <2>1, <2>3 DEF DriverStep, WriteNext, Sent, SendFails, Stop, EndOfInput,
         LeaveLoop, DrainDone, Deadline, FlushDone, Close, Reap, Read,
         Spawn, NotReady, TypeOK
    <2>4. ASSUME NEW f \in Frames, HandlerStep(f) \/ AskTimesOut(f) \/ HandlerAborted(f)
          PROVE  task[c] = "ended" \/ HandlerReply(c)
      <3>1. CASE HandleAnswer(f)
        BY <2>1, <3>1, AnswerIsToACall DEF HandleAnswer, TypeOK, Frames
      <3>2. CASE HandlerReply(f) \/ HandlerQuiet(f)
        BY <2>1, <3>2 DEF HandlerReply, HandlerQuiet, Becomes, TypeOK
      <3>. QED
        BY <2>1, <2>4, <3>1, <3>2 DEF HandlerStep, HandlerPush, HandlerAsk,
           HandlerFails, AskTimesOut, HandlerAborted, Becomes, TypeOK
    <2>. QED
      BY <2>2, <2>3, <2>4 DEF Next, LookUpWriter, PublisherSend, Publish,
         FireShutdown, PeerCloses, Returned, vars
  <1>4. CASE task[c] = "ended"
    BY <1>1, <1>2, <1>4 DEF EndedHasReply
  <1>5. CASE HandlerReply(c)
    <2>1. Range(chan') = Range(chan) \cup {Reply(c)}
      BY <1>5, MessageTypes, InAppend DEF HandlerReply, Enqueue, TypeOK
    <2>. QED
      BY <2>1 DEF Issued
  <1>. QED
    BY <1>3, <1>4, <1>5

\* The driver remembers what the frames came to.
LEMMA FatesSteps ==
  ASSUME SInv, SendersSilent, FatesRemembered, [Next]_vars
  PROVE  FatesRemembered'
  <1>. USE DEF SInv, FatesRemembered
  <1>1. CASE UNCHANGED <<task, at, aborting, result, phase, sendFailed>>
    BY <1>1
  <1>2. CASE WriteNext \/ Sent \/ Stop \/ EndOfInput \/ DrainDone \/ FlushDone
    BY <1>2 DEF WriteNext, Selecting, Sent, Stop, EndOfInput, LeaveLoop, DrainDone,
       FlushDone, Quiet, TypeOK
  <1>3. CASE SendFails \/ Deadline
    BY <1>3 DEF SendFails, Deadline, Quiet, TypeOK
  <1>4. CASE Close
    <2>1. sendFailed \/ Holders = {}
      BY <1>4 DEF Close, SendersSilent, SendersGone
    <2>. QED
      BY <1>4, <2>1 DEF Close, TypeOK, ParkedServing
  <1>5. ASSUME NEW f \in Frames, Reap(f) \/ Read(f) \/ Spawn(f) \/ NotReady(f)
        PROVE  FatesRemembered'
    <2>1. CASE Reap(f)
      BY <2>1 DEF Reap, Selecting, TypeOK
    <2>2. CASE Read(f)
      BY <2>2 DEF Read, CanArrive, Quiet, TypeOK
    <2>3. CASE Spawn(f)
      BY <2>3 DEF Spawn, TypeOK
    <2>4. CASE NotReady(f)
      BY <2>4 DEF NotReady, LeaveLoop, ParkedServing, TypeOK
    <2>. QED
      BY <1>5, <2>1, <2>2, <2>3, <2>4
  <1>6. ASSUME NEW f \in Frames, HandlerStep(f) \/ AskTimesOut(f) \/ HandlerAborted(f)
        PROVE  FatesRemembered'
    <2>1. UNCHANGED driverVars
      BY <1>6 DEF HandlerStep, HandlerPush, HandlerAsk, HandleAnswer, HandlerReply,
         HandlerQuiet, HandlerFails, AskTimesOut, HandlerAborted, Becomes
    <2>2. \A g \in Frames : task'[g] \in {"held", "dropped"} => task[g] = task'[g]
      BY <1>6, AnswerIsToACall DEF HandlerStep, HandlerPush, HandlerAsk, HandleAnswer,
         HandlerReply, HandlerQuiet, HandlerFails, AskTimesOut, HandlerAborted,
         Becomes, TypeOK
    <2>3. \A g \in Frames : task'[g] = "aborted" => task[g] = "aborted" \/ g \in aborting
      BY <1>6, AnswerIsToACall DEF HandlerStep, HandlerPush, HandlerAsk, HandleAnswer,
         HandlerReply, HandlerQuiet, HandlerFails, AskTimesOut, HandlerAborted,
         Becomes, TypeOK
    <2>. QED
      BY <2>1, <2>2, <2>3 DEF driverVars
  <1>. QED
    BY <1>1, <1>2, <1>3, <1>4, <1>5, <1>6 DEF Next, DriverStep, LookUpWriter,
       PublisherSend, Publish, FireShutdown, PeerCloses, Returned, driverVars, vars

\* Once the senders are gone they stay so.
LEMMA SendersSilentSteps ==
  ASSUME SInv, OneInHand, SendersSilent, [Next]_vars
  PROVE  SendersSilent'
  <1>. USE DEF SInv, SendersSilent
  <1>1. CASE DriverStep
    BY <1>1 DEF DriverStep, WriteNext, Selecting, Sent, SendFails, Stop, EndOfInput,
       LeaveLoop, DrainDone, Deadline, FlushDone, Close, Reap, Registered, Read, Quiet,
       Spawn, NotReady, ParkedServing, OneInHand, SendersGone, Holders, LiveStates,
       TypeOK
  <1>2. ASSUME NEW f \in Frames, HandlerStep(f) \/ AskTimesOut(f) \/ HandlerAborted(f)
        PROVE  SendersSilent'
    <2>1. UNCHANGED <<phase, pub, sendFailed>>
      BY <1>2 DEF HandlerStep, HandlerPush, HandlerAsk, HandleAnswer, HandlerReply,
         HandlerQuiet, HandlerFails, AskTimesOut, HandlerAborted, Becomes, driverVars
    <2>2. f \in Holders
      BY <1>2 DEF HandlerStep, HandlerPush, HandlerAsk, HandleAnswer, HandlerReply,
         HandlerQuiet, HandlerFails, AskTimesOut, HandlerAborted, Holders, LiveStates
    <2>. QED
      BY <2>1, <2>2 DEF SendersGone
  <1>3. ASSUME NEW p \in Publishers, LookUpWriter(p) \/ PublisherSend(p)
        PROVE  SendersSilent'
    BY <1>3 DEF LookUpWriter, PublisherSend, Publish, Registered, SendersGone, Holders,
       driverVars, TypeOK
  <1>4. CASE FireShutdown \/ PeerCloses \/ Returned \/ UNCHANGED vars
    BY <1>4 DEF FireShutdown, PeerCloses, Returned, driverVars, vars, SendersGone,
       Holders
  <1>. QED
    BY <1>1, <1>2, <1>3, <1>4 DEF Next

\* The invariant holds at the start and is kept.
LEMMA InitDInv == Init => DInv
  <1>. SUFFICES ASSUME Init
                PROVE  DInv
    OBVIOUS
  <1>1. Issued = {}
    BY InEmpty DEF Init, Issued
  <1>2. PipelineOrdered
    BY InEmpty DEF Init, PipelineOrdered
  <1>. QED
    BY <1>1, <1>2 DEF Init, DInv, OneInHand, IssuedByHandlers, EndedHasReply,
       FatesRemembered, SendersSilent, Frames

\* Every step keeps the invariant of the pipeline.
LEMMA DInvInductive == SInv /\ DInv /\ [Next]_vars => DInv'
  BY PipelineSteps, OneInHandSteps, IssuedByHandlersSteps, EndedHasReplySteps,
     FatesSteps, SendersSilentSteps DEF DInv, SInv

\* What it says of the wire and of the end.
LEMMA DInvIsEnough == SInv /\ DInv => DrainLosesNothing
  <1>. SUFFICES ASSUME SInv, DInv
                PROVE  DrainLosesNothing
    OBVIOUS
  <1>. USE DEF SInv, DInv
  <1>1. NothingFollowsTheReply
    BY DEF PipelineOrdered, Ordered, NothingFollowsTheReply
  <1>2. FlushIsComplete
    BY DEF FlushIsComplete, SendersSilent, SendersGone
  <1>3. CleanReturnAnswersAll
    <2>. SUFFICES ASSUME phase = "closed", result = "ok", ~sendFailed, aborting = {},
                         NEW c \in Calls, task[c] \notin {"unread", "failed"}
                  PROVE  OnWire(Reply(c))
      BY DEF CleanReturnAnswersAll
    <2>1. at = "select"
      BY DEF OneInHand, ParkedServing, TypeOK
    <2>2. task[c] \notin LiveStates
      BY DEF SendersSilent, Holders, Frames
    <2>3. task[c] = "ended"
      BY <2>1, <2>2 DEF FatesRemembered, TypeOK, Frames
    <2>4. Reply(c) \in Range(wire)
      BY <2>1, <2>3, InEmpty DEF EndedHasReply, Issued, OneInHand, SendersSilent
    <2>. QED
      BY <2>4 DEF OnWire, Range
  <1>. QED
    BY <1>1, <1>2, <1>3 DEF DrainLosesNothing

\* The driver delivers what was handled.
THEOREM DrainIsLossless == Spec => []DrainLosesNothing
  <1>. QED
    BY InitSInv, SInvInductive, InitDInv, DInvInductive, DInvIsEnough, PTL DEF Spec

-----------------------------------------------------------------------------
(***************************************************************************)
(* The refinement.  The driver's steps are steps of Connection: reading a  *)
(* call accepts it, finishing a send emits the message in hand, returning  *)
(* closes, and nothing else is seen by the peer.                           *)
(***************************************************************************)

\* The calls that were read.
Accepted == {c \in Calls : task[c] # "unread"}

\* Only reading accepts, only Sent emits and only Close closes.
LEMMA HiddenSteps ==
  ASSUME SInv, [Next]_vars, ~Sent, ~Close, \A f \in Frames : ~Read(f)
  PROVE  /\ Accepted' = Accepted /\ wire' = wire
         /\ phase' # "closed" <=> phase # "closed"
  <1>. USE DEF SInv
  <1>1. wire' = wire /\ (phase' # "closed" <=> phase # "closed")
    BY DEF Next, DriverStep, WriteNext, SendFails, Stop, EndOfInput,
       LeaveLoop, DrainDone, Deadline, FlushDone, Reap, Spawn, NotReady,
       HandlerStep, HandlerPush, HandlerAsk, HandleAnswer, HandlerReply,
       HandlerQuiet, HandlerFails, AskTimesOut, HandlerAborted, LookUpWriter,
       PublisherSend, Publish, FireShutdown, PeerCloses, Returned, Becomes,
       driverVars, vars, ParkedServing
  <1>2. \A c \in Frames : task'[c] # "unread" <=> task[c] # "unread"
    <2>1. CASE DriverStep
      BY <2>1 DEF DriverStep, WriteNext, SendFails, Stop, EndOfInput, LeaveLoop,
         DrainDone, Deadline, FlushDone, Reap, Spawn, NotReady, TypeOK
    <2>2. ASSUME NEW f \in Frames, HandlerStep(f) \/ AskTimesOut(f) \/ HandlerAborted(f)
          PROVE  \A c \in Frames : task'[c] # "unread" <=> task[c] # "unread"
      BY <2>2, AnswerIsToACall DEF HandlerStep, HandlerPush, HandlerAsk, HandleAnswer,
         HandlerReply, HandlerQuiet, HandlerFails, AskTimesOut, HandlerAborted,
         Becomes, TypeOK, Holders, LiveStates
    <2>. QED
      BY <2>1, <2>2 DEF Next, LookUpWriter, PublisherSend, Publish, FireShutdown,
         PeerCloses, Returned, vars
  <1>. QED
    BY <1>1, <1>2 DEF Accepted, Frames

\* Reading a frame accepts it, if it is a call.
LEMMA ReadAccepts ==
  ASSUME TypeOK, NEW f \in Frames, Read(f)
  PROVE  [Peer!Next]_Peer!vars
  <1>. USE DEF Peer!Next, Peer!vars, Peer!Accept, Read
  <1>1. CASE f \in Calls
    <2>1. Accepted' = Accepted \cup {f}
      BY <1>1 DEF TypeOK, Accepted, CanArrive, Frames
    <2>. QED
      BY <1>1, <2>1 DEF Accepted
  <1>2. CASE f \notin Calls
    <2>1. Accepted' = Accepted
      BY <1>2 DEF TypeOK, Accepted, CanArrive, Frames
    <2>. QED
      BY <2>1 DEF Accepted
  <1>. QED
    BY <1>1, <1>2

\* A send that ends emits a message that its call may still get.
LEMMA SentEmits ==
  ASSUME SInv, DInv, Sent
  PROVE  Peer!Next
  <1>. USE DEF SInv, DInv
  <1>1. PICK m \in Message : writing = <<m>>
    BY DEF Sent, OneInHand
  <1>2. /\ wire' = Append(wire, m) /\ Accepted' = Accepted
        /\ phase # "closed" /\ phase' = phase
    BY <1>1 DEF Sent, TypeOK, Accepted, OneInHand
  <1>3. m \in Issued
    BY <1>1, InOne DEF Issued
  <1>4. m.of \in Calls => m.of \in Accepted
    BY <1>3 DEF IssuedByHandlers, Accepted
  <1>5. m.of \in Calls => ~Peer!Answered(m.of)
    <2>. SUFFICES ASSUME NEW i \in DOMAIN wire, wire[i] = [kind |-> "reply", of |-> m.of]
                  PROVE  FALSE
      BY DEF Peer!Answered
    <2>. QED
      BY <1>1 DEF PipelineOrdered, Before
  <1>6. Peer!Emit(m)
    BY <1>2, <1>4, <1>5 DEF Peer!Emit, Accepted
  <1>7. CASE m.of \in Calls
    <2>1. m = [kind |-> m.kind, of |-> m.of] /\ m.kind \in Peer!Kinds
      BY DEF Message, Peer!Kinds
    <2>. QED
      BY <1>6, <1>7, <2>1 DEF Peer!Next
  <1>8. CASE m.of \notin Calls
    <2>1. m = [kind |-> "push", of |-> m.of] /\ m.of \in Publishers
      BY <1>3, <1>8 DEF Message, IssuedByHandlers
    <2>. QED
      BY <1>6, <2>1 DEF Peer!Next
  <1>. QED
    BY <1>7, <1>8

\* Returning closes the connection.
LEMMA CloseCloses ==
  ASSUME TypeOK, Close
  PROVE  Peer!Next
  <1>1. Accepted' = Accepted
    BY DEF Close, Accepted, TypeOK, Holders, LiveStates, Frames
  <1>. QED
    BY <1>1 DEF Close, Accepted, Peer!Next, Peer!Close

\* Each step of the driver is a step of the connection, or changes nothing the
\* peer could see.
LEMMA StepRefines == SInv /\ DInv /\ [Next]_vars => [Peer!Next]_Peer!vars
  <1>. SUFFICES ASSUME SInv, DInv, [Next]_vars
                PROVE  [Peer!Next]_Peer!vars
    OBVIOUS
  <1>1. CASE ~Sent /\ ~Close /\ \A f \in Frames : ~Read(f)
    BY <1>1, HiddenSteps DEF Peer!vars, Accepted
  <1>. QED
    BY <1>1, ReadAccepts, SentEmits, CloseCloses DEF SInv

\* The driver's connection begins with nothing read and nothing written.
LEMMA InitRefines == Init => Peer!Init
  BY DEF Init, Peer!Init, Frames

\* serve_with implements Connection: what its peer sees is a connection on which
\* calls are answered once, after they were read, and nothing follows an answer.
THEOREM DriverImplementsConnection == Spec => ImplementsConnection
  <1>. QED
    BY InitSInv, SInvInductive, InitDInv, DInvInductive, InitRefines, StepRefines, PTL
       DEF Spec, ImplementsConnection, Peer!Spec
=============================================================================
