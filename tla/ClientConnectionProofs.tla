------------------------ MODULE ClientConnectionProofs ------------------------
(***************************************************************************)
(* Proofs about the client.  Of ClientConnection, for any number of callers*)
(* and server requests, any channel capacity and any faults:               *)
(*   - the variables have their types, the channel its capacity;           *)
(*   - a value that is returned was answered by the peer, and the table    *)
(*     keeps no entry of a request that returned;                          *)
(*   - closing the table reaches every caller that waits.                  *)
(* Of ResponseCache, for any finite set of keys, any notifications, any    *)
(* number of callers, any cap, ttl and number of changes:                  *)
(*   - the cap holds;                                                      *)
(*   - an entry is stale only if its fetch raced with a notification.      *)
(***************************************************************************)
EXTENDS ClientConnection, ResponseCache, FiniteSetTheorems, SequenceTheorems, TLAPS

Comes(m) == \E i \in DOMAIN inbound : inbound[i] = m

\* The table and the oneshots: whose entry is in the table has no outcome, and
\* who waits has an entry or an outcome.
Correlation ==
    \A r \in Requests :
        /\ caller[r] = "idle" => r \notin pending /\ slot[r] = "empty"
        /\ r \in pending => caller[r] \in Waiting \cup {"dropped"} /\ slot[r] = "empty"
        /\ caller[r] \in {"inserted", "sent"} => r \in pending \/ slot[r] # "empty"

\* Where an answer may be found: the peer gave it, having got the request.
Origin ==
    \A r \in Requests :
        /\ slot[r] = "filled" \/ caller[r] = "value" \/ Comes(r) => answers[r] > 0
        /\ answers[r] > 0 => Arrived(r)

CallsInv == TypeOK /\ Correlation /\ Origin

-----------------------------------------------------------------------------
\* A frame that is sent while there is room leaves the channel within its capacity.
LEMMA RoomForOne ==
  ASSUME TypeOK, NEW m \in Requests \cup ServerReqs, Len(chan) < ChanCap
  PROVE  /\ Append(chan, m) \in Seq(Requests \cup ServerReqs)
         /\ Len(Append(chan, m)) <= ChanCap
  BY ConnectionAssumption DEF ConnectionAssumption, TypeOK

\* The types and the capacity of the channel.
LEMMA TypeSteps ==
  ASSUME TypeOK, [Next]_vars
  PROVE  TypeOK'
  <1>. USE ConnectionAssumption DEF ConnectionAssumption, TypeOK, peerVars, Goes, Waiting, Results
  <1>1. ASSUME NEW r \in Requests,
               Insert(r) \/ Send(r) \/ Resolve(r) \/ Expire(r) \/ Forget(r) \/ DropFuture(r)
        PROVE  TypeOK'
    <2>1. CASE Insert(r)
      BY <2>1 DEF Insert
    <2>2. CASE Send(r)
      <3>1. CASE actor = "gone"
        BY <2>2, <3>1 DEF Send
      <3>2. CASE actor # "gone"
        <4>1. chan' \in Seq(Requests \cup ServerReqs) /\ Len(chan') <= ChanCap
          <5>1. chan' = Append(chan, r) /\ Len(chan) < ChanCap
            BY <2>2, <3>2 DEF Send
          <5>2. r \in Requests \cup ServerReqs
            OBVIOUS
          <5>. QED
            BY <5>1, <5>2, RoomForOne
        <4>2. caller' = [caller EXCEPT ![r] = "sent"]
          BY <2>2, <3>2 DEF Send
        <4>. QED
          BY <2>2, <4>1, <4>2 DEF Send
      <3>. QED
        BY <3>1, <3>2
    <2>3. CASE Resolve(r)
      BY <2>3 DEF Resolve
    <2>4. CASE Expire(r)
      BY <2>4 DEF Expire
    <2>5. CASE Forget(r)
      BY <2>5 DEF Forget
    <2>6. CASE DropFuture(r)
      BY <2>6 DEF DropFuture
    <2>. QED
      BY <1>1, <2>1, <2>2, <2>3, <2>4, <2>5, <2>6
  <1>2. CASE TakeOut
    BY <1>2 DEF TakeOut
  <1>3. CASE NothingMoreToSend
    BY <1>3 DEF NothingMoreToSend
  <1>4. CASE Sent
    BY <1>4 DEF Sent
  <1>5. CASE SendFails
    BY <1>5 DEF SendFails
  <1>6. CASE ReceiveResponse
    BY <1>6 DEF ReceiveResponse
  <1>7. CASE ReceiveRequest
    <2>1. PICK s \in ServerReqs :
            /\ \/ /\ serving' = [serving EXCEPT ![s] = "running"]
                  /\ UNCHANGED <<actor, writing>>
               \/ /\ serving' = [serving EXCEPT ![s] = "queued"]
                  /\ writing' = <<s>> /\ actor' = "send"
            /\ inbound' = Tail(inbound) /\ inbound # <<>>
            /\ UNCHANGED <<caller, pending, slot, chan, sent, handles, peerVars>>
      BY <1>7 DEF ReceiveRequest
    <2>2. writing' \in Seq(Requests \cup ServerReqs)
      <3>1. <<s>> \in Seq(Requests \cup ServerReqs)
        OBVIOUS
      <3>. QED
        BY <2>1, <3>1
    <2>3. inbound' \in Seq(Requests \cup ServerReqs)
      BY <2>1
    <2>. QED
      BY <2>1, <2>2, <2>3
  <1>8. CASE EndOfInput
    BY <1>8 DEF EndOfInput
  <1>9. CASE Cleanup
    BY <1>9 DEF Cleanup
  <1>10. CASE Exit
    BY <1>10 DEF Exit
  <1>11. CASE DropHandles
    BY <1>11 DEF DropHandles
  <1>12. ASSUME NEW s \in ServerReqs, Upgrade(s) \/ SendReply(s)
         PROVE  TypeOK'
    <2>1. CASE Upgrade(s)
      BY <2>1 DEF Upgrade
    <2>2. CASE SendReply(s)
      <3>1. CASE actor = "gone"
        BY <2>2, <3>1 DEF SendReply
      <3>2. CASE actor # "gone"
        <4>1. chan' \in Seq(Requests \cup ServerReqs) /\ Len(chan') <= ChanCap
          <5>1. chan' = Append(chan, s) /\ Len(chan) < ChanCap
            BY <2>2, <3>2 DEF SendReply
          <5>2. s \in Requests \cup ServerReqs
            OBVIOUS
          <5>. QED
            BY <5>1, <5>2, RoomForOne
        <4>2. serving' = [serving EXCEPT ![s] = "queued"]
          BY <2>2, <3>2 DEF SendReply
        <4>. QED
          BY <2>2, <4>1, <4>2 DEF SendReply
      <3>. QED
        BY <3>1, <3>2
    <2>. QED
      BY <1>12, <2>1, <2>2
  <1>13. ASSUME NEW r \in Requests, PeerAnswers(r)
         PROVE  TypeOK'
    BY <1>13 DEF PeerAnswers
  <1>14. ASSUME NEW s \in ServerReqs, PeerAsks(s)
         PROVE  TypeOK'
    BY <1>14 DEF PeerAsks
  <1>15. CASE PeerCloses
    BY <1>15 DEF PeerCloses
  <1>16. CASE UNCHANGED vars
    BY <1>16 DEF vars
  <1>. QED
    BY <1>1, <1>2, <1>3, <1>4, <1>5, <1>6, <1>7, <1>8, <1>9, <1>10, <1>11, <1>12,
       <1>13, <1>14, <1>15, <1>16
       DEF Next, CallerStep, ActorStep, ServingStep, PeerStep, Finished

\* Entries and outcomes stay together: only a request's own steps, a response
\* and the cleanup touch them.
LEMMA CorrelationSteps ==
  ASSUME TypeOK, Correlation, [Next]_vars
  PROVE  Correlation'
  <1>. USE DEF TypeOK, Correlation, Goes, Waiting
  <1>1. ASSUME NEW r \in Requests,
               Insert(r) \/ Send(r) \/ Resolve(r) \/ Expire(r) \/ Forget(r) \/ DropFuture(r)
        PROVE  Correlation'
    <2>1. /\ \A q \in Requests \ {r} :
               caller'[q] = caller[q] /\ (q \in pending' <=> q \in pending)
          /\ slot' = slot
      BY <1>1 DEF Insert, Send, Resolve, Expire, Forget, DropFuture
    <2>2. \/ caller[r] = "idle" /\ caller'[r] = "inserted" /\ r \in pending'
          \/ caller[r] = "inserted" /\ caller'[r] \in {"sent", "refused"} /\ pending' = pending
          \/ caller[r] = "sent" /\ caller'[r] \in {"value", "closed"} /\ slot[r] # "empty"
             /\ pending' = pending
          \/ caller[r] = "sent" /\ caller'[r] = "expired" /\ pending' = pending
          \/ caller'[r] \in {"timeout", "closed"} /\ r \notin pending'
          \/ caller'[r] = "dropped" /\ pending' = pending
      BY <1>1 DEF Insert, Send, Resolve, Expire, Forget, DropFuture
    <2>. QED
      BY <2>1, <2>2
  <1>2. CASE ReceiveResponse
    <2>1. PICK r \in Requests : /\ slot' = [slot EXCEPT ![r] = IF r \in pending THEN "filled" ELSE @]
                                /\ pending' = pending \ {r}
      BY <1>2 DEF ReceiveResponse
    <2>2. caller' = caller
      BY <1>2 DEF ReceiveResponse
    <2>. QED
      BY <2>1, <2>2
  <1>3. CASE Cleanup
    BY <1>3 DEF Cleanup
  <1>4. CASE UNCHANGED <<caller, pending, slot>>
    BY <1>4
  <1>. QED
    BY <1>1, <1>2, <1>3, <1>4
       DEF Next, CallerStep, ActorStep, ServingStep, PeerStep, Finished, vars, TakeOut,
           NothingMoreToSend, Sent, SendFails, ReceiveRequest, EndOfInput, Exit, DropHandles,
           Upgrade, SendReply, PeerAnswers, PeerAsks, PeerCloses

\* What arrived stays arrived.
LEMMA ArrivedStays ==
  ASSUME TypeOK, NEW m, Arrived(m), sent' = sent \/ sent' = sent \o writing
  PROVE  Arrived(m)'
  <1>1. PICK i \in DOMAIN sent : sent[i] = m
    BY DEF Arrived
  <1>2. CASE sent' = sent \o writing
    <2>1. i \in 1..Len(sent) /\ Len(sent') = Len(sent) + Len(writing)
          /\ Len(sent) \in Nat /\ Len(writing) \in Nat /\ DOMAIN sent' = 1..Len(sent')
      BY <1>2 DEF TypeOK
    <2>2. sent'[i] = m /\ i \in DOMAIN sent'
      BY <1>1, <1>2, <2>1 DEF TypeOK
    <2>. QED
      BY <2>2 DEF Arrived
  <1>. QED
    BY <1>1, <1>2 DEF Arrived

\* Values come from answers, and answers from requests that arrived.
LEMMA OriginSteps ==
  ASSUME TypeOK, Correlation, Origin, [Next]_vars
  PROVE  Origin'
  <1>. USE DEF TypeOK, Origin, Goes, peerVars
  <1>1. \A r \in Requests : Arrived(r) => Arrived(r)'
    <2>1. sent' = sent \/ sent' = sent \o writing
      BY DEF Next, CallerStep, ActorStep, ServingStep, PeerStep, Finished, vars, Insert, Send,
         Resolve, Expire, Forget, DropFuture, TakeOut, NothingMoreToSend, Sent, SendFails,
         ReceiveResponse, ReceiveRequest, EndOfInput, Cleanup, Exit, DropHandles,
         Upgrade, SendReply, PeerAnswers, PeerAsks, PeerCloses
    <2>. QED
      BY <2>1, ArrivedStays
  <1>2. CASE inbound' = inbound /\ answers' = answers
    <2>1. \A r \in Requests : Comes(r)' => Comes(r)
      BY <1>2 DEF Comes
    <2>2. \A r \in Requests : slot'[r] = "filled" => slot[r] = "filled"
      BY <1>2 DEF Next, CallerStep, ActorStep, ServingStep, PeerStep, Finished, vars, Insert, Send,
         Resolve, Expire, Forget, DropFuture, TakeOut, NothingMoreToSend, Sent, SendFails,
         ReceiveResponse, ReceiveRequest, EndOfInput, Cleanup, Exit, DropHandles,
         Upgrade, SendReply, PeerAnswers, PeerAsks, PeerCloses
    <2>3. \A r \in Requests : caller'[r] = "value" => caller[r] = "value" \/ slot[r] = "filled"
      BY <1>2 DEF Next, CallerStep, ActorStep, ServingStep, PeerStep, Finished, vars, Insert, Send,
         Resolve, Expire, Forget, DropFuture, TakeOut, NothingMoreToSend, Sent, SendFails,
         ReceiveResponse, ReceiveRequest, EndOfInput, Cleanup, Exit, DropHandles,
         Upgrade, SendReply, PeerAnswers, PeerAsks, PeerCloses
    <2>. QED
      BY <1>1, <1>2, <2>1, <2>2, <2>3
  <1>3. CASE ReceiveResponse
    <2>1. \A r \in Requests : Comes(r)' => Comes(r)
      BY <1>3 DEF ReceiveResponse, Comes
    <2>2. Comes(Head(inbound))
      BY <1>3 DEF ReceiveResponse, Comes
    <2>3. \A r \in Requests : slot'[r] = "filled" => slot[r] = "filled" \/ Comes(r)
      BY <1>3, <2>2 DEF ReceiveResponse
    <2>. QED
      BY <1>1, <1>3, <2>1, <2>3 DEF ReceiveResponse
  <1>4. CASE ReceiveRequest
    <2>1. \A r \in Requests : Comes(r)' => Comes(r)
      BY <1>4 DEF ReceiveRequest, Comes
    <2>. QED
      BY <1>1, <1>4, <2>1 DEF ReceiveRequest
  <1>5. ASSUME NEW r \in Requests, PeerAnswers(r)
        PROVE  Origin'
    <2>1. \A q \in Requests : Comes(q)' => Comes(q) \/ q = r
      BY <1>5 DEF PeerAnswers, Comes
    <2>2. \A q \in Requests : answers'[q] > 0 => answers[q] > 0 \/ q = r
      BY <1>5 DEF PeerAnswers
    <2>3. answers'[r] > 0 /\ \A q \in Requests : answers[q] > 0 => answers'[q] > 0
      BY <1>5 DEF PeerAnswers
    <2>4. Arrived(r) /\ UNCHANGED <<slot, caller>>
      BY <1>5 DEF PeerAnswers
    <2>. QED
      BY <1>1, <2>1, <2>2, <2>3, <2>4
  <1>6. ASSUME NEW s \in ServerReqs, PeerAsks(s)
        PROVE  Origin'
    <2>1. \A q \in Requests : Comes(q)' => Comes(q)
      BY <1>6, ConnectionAssumption DEF ConnectionAssumption, PeerAsks, Comes
    <2>. QED
      BY <1>1, <1>6, <2>1 DEF PeerAsks
  <1>. QED
    BY <1>2, <1>3, <1>4, <1>5, <1>6
       DEF Next, CallerStep, ActorStep, ServingStep, PeerStep, Finished, vars, Insert, Send,
         Resolve, Expire, Forget, DropFuture, TakeOut, NothingMoreToSend, Sent, SendFails,
         EndOfInput, Cleanup, Exit, DropHandles, Upgrade, SendReply, PeerCloses

-----------------------------------------------------------------------------
\* The invariant holds in every state.
LEMMA CallsInvHolds == Spec => []CallsInv
  <1>1. Init => CallsInv
    <2>. SUFFICES ASSUME Init PROVE CallsInv
      OBVIOUS
    <2>1. TypeOK
      <3>1. <<>> \in Seq(Requests \cup ServerReqs) /\ Len(<<>>) <= ChanCap /\ 0 \in 0..MaxAnswers
        BY ConnectionAssumption DEF ConnectionAssumption
      <3>. QED
        BY <3>1 DEF Init, TypeOK
    <2>2. Correlation
      BY DEF Init, Correlation
    <2>3. Origin
      BY DEF Init, Origin, Comes
    <2>. QED
      BY <2>1, <2>2, <2>3 DEF CallsInv
  <1>2. CallsInv /\ [Next]_vars => CallsInv'
    BY TypeSteps, CorrelationSteps, OriginSteps DEF CallsInv
  <1>. QED
    BY <1>1, <1>2, PTL DEF Spec

\* Every variable keeps its type and the outbound channel its capacity.
THEOREM ConnectionIsTyped == Spec => []TypeOK
  BY CallsInvHolds, PTL DEF CallsInv

\* The table joins answers and callers: a request returns only a value that the
\* peer answered to that very request, and nobody who returned is left in the table.
THEOREM TableJoinsAnswersAndCallers == Spec => []TableIsSound
  <1>1. CallsInv => TableIsSound
    BY DEF CallsInv, TypeOK, Correlation, Origin, TableIsSound, ValueWasAnswered, NoLeakedEntry
  <1>. QED
    BY <1>1, CallsInvHolds, PTL

\* pending.clear() (connection.rs): who waits when the table is cleared gets an outcome.
THEOREM ClearingReachesWaiters == Spec => CloseReachesWaiters
  <1>1. CallsInv /\ [Next]_vars =>
          [actor = "cleanup" /\ actor' = "exit" =>
             \A r \in Requests : caller[r] \in {"inserted", "sent"} => slot'[r] # "empty"]_vars
    <2>. SUFFICES ASSUME CallsInv, Next, actor = "cleanup", actor' = "exit"
                  PROVE  \A r \in Requests :
                           caller[r] \in {"inserted", "sent"} => slot'[r] # "empty"
      OBVIOUS
    <2>1. Cleanup
      BY DEF Next, CallerStep, ActorStep, ServingStep, PeerStep, Finished, vars, Insert, Send,
         Resolve, Expire, Forget, DropFuture, TakeOut, NothingMoreToSend, Sent, SendFails,
         ReceiveResponse, ReceiveRequest, EndOfInput, Exit, DropHandles, Upgrade, SendReply,
         PeerAnswers, PeerAsks, PeerCloses, CanReceive
    <2>. QED
      BY <2>1 DEF Cleanup, CallsInv, Correlation
  <1>. QED
    BY <1>1, CallsInvHolds, PTL DEF Spec, CloseReachesWaiters

-----------------------------------------------------------------------------
(* The response cache.                                                      *)

Announcement == [kind : {"notice"}, notice : Notices, versions : [Keys -> 0..MaxVersion]]
Answer == [kind : {"response"}, to : Callers, ttl : 0..MaxTtl, version : 0..MaxVersion]
Asker ==
    {NotAsking}
    \cup [state : {"fetching"}, key : Keys, raced : BOOLEAN]
    \cup [state : {"answered"}, key : Keys, raced : BOOLEAN,
          version : 0..MaxVersion, ttl : 0..MaxTtl]

CacheShape ==
    /\ entries \in [Cached -> Entry] /\ Cached \subseteq Keys
    /\ Cardinality(Cached) <= MaxEntries
    /\ asker \in [Callers -> Asker]
    /\ frames \in Seq(Announcement \cup Answer)
    /\ current \in [Keys -> 0..MaxVersion] /\ noted \in [Keys -> 0..MaxVersion]
    /\ \A k \in Keys : noted[k] <= current[k]

\* A notice names versions that exist, and only of what it affects.
AnnouncesWhatChanged ==
    \A i \in DOMAIN frames : frames[i].kind = "notice" =>
        /\ \A k \in Keys : frames[i].versions[k] <= current[k]
        /\ \A k \in Keys \ Affected(frames[i].notice) : frames[i].versions[k] = 0

\* An answer on its way is the only one to a caller who waits for it, and no
\* notice before it tells of a newer version.
AnswersKeepOrder ==
    \A i \in DOMAIN frames : frames[i].kind = "response" =>
        /\ asker[frames[i].to].state = "fetching"
        /\ noted[asker[frames[i].to].key] <= frames[i].version
        /\ frames[i].version <= current[asker[frames[i].to].key]
        /\ \A j \in DOMAIN frames :
             /\ j < i /\ frames[j].kind = "notice" =>
                  frames[j].versions[asker[frames[i].to].key] <= frames[i].version
             /\ Answers(frames[j], frames[i].to) => j = i

\* An answer that is about to be stored is current unless its fetch raced.
HeldIsCurrent ==
    \A c \in Callers : asker[c].state = "answered" /\ ~asker[c].raced =>
        noted[asker[c].key] <= asker[c].version

CacheInv ==
    CacheShape /\ AnnouncesWhatChanged /\ AnswersKeepOrder /\ HeldIsCurrent /\ StaleOnlyByRace

-----------------------------------------------------------------------------
\* on_notification removes everything a change announced by the notification affects.
LEMMA AffectedIsObsoleted ==
  ASSUME NEW n \in Notices
  PROVE  Affected(n) \subseteq Obsoleted(n)
  BY CacheAssumption
     DEF CacheAssumption, Affected, Obsoleted, AnswersFrom, Announces, Lists, ListsChanged

\* After an eviction there is room for one more key.
LEMMA EvictionMakesRoom ==
  ASSUME Cached \subseteq Keys, Cardinality(Cached) <= MaxEntries,
         NEW kept \in Evictions, NEW k \in Keys
  PROVE  kept \subseteq Cached /\ Cardinality(kept \cup {k}) <= MaxEntries
  <1>. DEFINE unexpired == {x \in Cached : entries[x].left > 0}
  <1>1. IsFiniteSet(Keys) /\ MaxEntries \in Nat
    BY CacheAssumption DEF CacheAssumption
  <1>2. ASSUME NEW s \in SUBSET Cached, Cardinality(s) < MaxEntries
        PROVE  Cardinality(s \cup {k}) <= MaxEntries
    <2>1. IsFiniteSet(s)
      BY <1>1, FS_Subset
    <2>2. Cardinality(s) \in Nat /\ Cardinality(s \cup {k}) \in {Cardinality(s), Cardinality(s) + 1}
      BY <2>1, FS_CardinalityType, FS_AddElement
    <2>. QED
      BY <1>1, <1>2, <2>2
  <1>3. CASE Cardinality(Cached) < MaxEntries
    BY <1>2, <1>3 DEF Evictions
  <1>4. CASE ~(Cardinality(Cached) < MaxEntries) /\ Cardinality(unexpired) < MaxEntries
    BY <1>2, <1>4 DEF Evictions
  <1>5. CASE ~(Cardinality(Cached) < MaxEntries) /\ ~(Cardinality(unexpired) < MaxEntries)
    <2>1. PICK x \in unexpired : kept = unexpired \ {x}
      BY <1>5 DEF Evictions
    <2>2. IsFiniteSet(unexpired) /\ IsFiniteSet(Cached)
      BY <1>1, FS_Subset
    <2>3. Cardinality(unexpired) \in Nat /\ Cardinality(Cached) \in Nat
          /\ Cardinality(unexpired) <= Cardinality(Cached)
      BY <2>2, FS_CardinalityType, FS_Subset
    <2>4. Cardinality(unexpired \ {x}) = Cardinality(unexpired) - 1
      BY <2>2, FS_RemoveElement
    <2>. QED
      BY <1>1, <1>2, <2>1, <2>3, <2>4
  <1>. QED
    BY <1>3, <1>4, <1>5

\* Without removes one frame and keeps the others in their order.
LEMMA WithoutOne ==
  ASSUME NEW S, NEW s \in Seq(S), NEW i \in DOMAIN s
  PROVE  /\ Without(s, i) \in Seq(S)
         /\ \A j \in DOMAIN Without(s, i) :
              \/ j < i /\ j \in DOMAIN s /\ Without(s, i)[j] = s[j]
              \/ j >= i /\ j + 1 \in DOMAIN s /\ Without(s, i)[j] = s[j + 1]
  <1>1. Len(s) \in Nat /\ DOMAIN s = 1..Len(s) /\ Len(s) - 1 \in Nat
    OBVIOUS
  <1>2. DOMAIN Without(s, i) = 1..(Len(s) - 1)
    BY DEF Without
  <1>3. ASSUME NEW j \in DOMAIN Without(s, i)
        PROVE  \/ j < i /\ j \in DOMAIN s /\ Without(s, i)[j] = s[j]
               \/ j >= i /\ j + 1 \in DOMAIN s /\ Without(s, i)[j] = s[j + 1]
    BY <1>1, <1>2 DEF Without
  <1>4. Without(s, i) \in [1..(Len(s) - 1) -> S]
    BY <1>1, <1>2, <1>3 DEF Without
  <1>. QED
    BY <1>1, <1>3, <1>4, SeqDef

-----------------------------------------------------------------------------
\* A caller's record has the fields of its state, and a frame those of its kind.
LEMMA ShapesTell ==
  ASSUME CacheShape
  PROVE  /\ \A c \in Callers :
              /\ asker[c].state \in {"idle", "fetching", "answered"}
              /\ asker[c].state = "idle" <=> asker[c] = NotAsking
              /\ asker[c] # NotAsking =>
                   asker[c].key \in Keys /\ asker[c].raced \in BOOLEAN
              /\ asker[c].state = "answered" =>
                   asker[c].version \in 0..MaxVersion /\ asker[c].ttl \in 0..MaxTtl
         /\ Len(frames) \in Nat /\ DOMAIN frames = 1..Len(frames)
         /\ \A i \in DOMAIN frames :
              /\ frames[i] \in Announcement \cup Answer
              /\ frames[i].kind = "notice" => frames[i] \in Announcement
              /\ frames[i].kind = "response" => frames[i] \in Answer
  BY DEF CacheShape, Asker, NotAsking, Announcement, Answer

\* Everything about the entries of a step that writes none of the rest.
LEMMA EntriesOnly ==
  ASSUME CacheInv, entries' \in [Cached' -> Entry], Cached' \subseteq Keys,
         Cardinality(Cached') <= MaxEntries, StaleOnlyByRace',
         UNCHANGED <<asker, frames, current, noted>>
  PROVE  CacheInv'
  BY DEF CacheInv, CacheShape, AnnouncesWhatChanged, AnswersKeepOrder, HeldIsCurrent

\* Keys that are removed make no entry stale, and take no room.
LEMMA FewerEntries ==
  ASSUME CacheInv, NEW keys \in SUBSET Cached, entries' = Only(keys)
  PROVE  /\ entries' \in [Cached' -> Entry] /\ Cached' = keys /\ Cached' \subseteq Keys
         /\ Cardinality(Cached') <= MaxEntries
         /\ \A k \in Cached' : entries'[k] = entries[k]
  <1>1. Cached' = keys /\ entries' \in [Cached' -> Entry] /\ \A k \in Cached' : entries'[k] = entries[k]
    BY DEF Only, Cached, CacheInv, CacheShape
  <1>2. IsFiniteSet(Cached) /\ Cached \subseteq Keys
    BY CacheAssumption, FS_Subset DEF CacheAssumption, CacheInv, CacheShape
  <1>3. Cardinality(keys) <= Cardinality(Cached) /\ Cardinality(Cached) \in Nat /\ Cardinality(keys) \in Nat
    BY <1>2, FS_Subset, FS_CardinalityType
  <1>. QED
    BY <1>1, <1>2, <1>3, CacheAssumption DEF CacheAssumption, CacheInv, CacheShape

\* The callers' steps.
LEMMA CallerSteps ==
  ASSUME CacheInv, NEW c \in Callers, NEW k \in Keys,
         GetHit(c, k) \/ GetMiss(c, k) \/ StoreAnswer(c) \/ GiveUp(c)
  PROVE  CacheInv'
  <1>. USE DEF CacheInv
  <1>1. CASE GetHit(c, k)
    BY <1>1 DEF GetHit, cacheVars, CacheShape, Cached, AnnouncesWhatChanged,
                AnswersKeepOrder, HeldIsCurrent, StaleOnlyByRace, Stale
  <1>2. CASE GetMiss(c, k)
    <2>1. /\ entries' = Only(Cached \ {k}) /\ asker[c] = NotAsking
          /\ asker' = [asker EXCEPT ![c] = Fetching(k)]
          /\ UNCHANGED <<frames, current, noted>>
      BY <1>2 DEF GetMiss
    <2>2. /\ entries' \in [Cached' -> Entry] /\ Cached' \subseteq Keys
          /\ Cardinality(Cached') <= MaxEntries
          /\ Cached' \subseteq Cached /\ \A x \in Cached' : entries'[x] = entries[x]
      <3>1. Cached \ {k} \in SUBSET Cached
        OBVIOUS
      <3>. QED
        BY <2>1, <3>1, FewerEntries
    <2>3. asker' \in [Callers -> Asker] /\ asker'[c] = Fetching(k)
          /\ \A d \in Callers : d # c => asker'[d] = asker[d]
      BY <2>1 DEF CacheShape, Asker, Fetching
    <2>4. CacheShape'
      BY <2>1, <2>2, <2>3 DEF CacheShape
    <2>5. AnnouncesWhatChanged'
      BY <2>1 DEF AnnouncesWhatChanged
    <2>6. AnswersKeepOrder'
      <3>1. \A i \in DOMAIN frames : frames[i].kind = "response" =>
               frames[i].to \in Callers /\ frames[i].to # c
        BY <2>1, ShapesTell DEF AnswersKeepOrder, Answer, NotAsking
      <3>. QED
        BY <2>1, <2>3, <3>1 DEF AnswersKeepOrder
    <2>7. HeldIsCurrent'
      BY <2>1, <2>3 DEF HeldIsCurrent, Fetching
    <2>8. StaleOnlyByRace'
      BY <2>1, <2>2 DEF StaleOnlyByRace, Stale
    <2>. QED
      BY <2>4, <2>5, <2>6, <2>7, <2>8
  <1>3. CASE StoreAnswer(c)
    <2>. DEFINE e == [version |-> asker[c].version, left |-> asker[c].ttl, raced |-> asker[c].raced]
                stored == asker[c].key
    <2>1. /\ asker[c].state = "answered" /\ Store(stored, e)
          /\ asker' = [asker EXCEPT ![c] = NotAsking]
          /\ UNCHANGED <<frames, current, noted>>
      BY <1>3 DEF StoreAnswer
    <2>2. stored \in Keys /\ e \in Entry
      BY <2>1, ShapesTell DEF Entry, NotAsking
    <2>3. /\ entries' \in [Cached' -> Entry] /\ Cached' \subseteq Keys
          /\ Cardinality(Cached') <= MaxEntries
          /\ \A x \in Cached' : entries'[x] = (IF x = stored THEN e ELSE entries[x])
                               /\ (x = stored \/ x \in Cached)
          \/ UNCHANGED entries
      <3>1. CASE e.left = 0
        BY <2>1, <3>1 DEF Store
      <3>2. CASE e.left # 0
        <4>1. PICK kept \in Evictions :
                entries' = [x \in kept \cup {stored} |-> IF x = stored THEN e ELSE entries[x]]
          BY <2>1, <3>2 DEF Store
        <4>2. kept \subseteq Cached /\ Cardinality(kept \cup {stored}) <= MaxEntries
          BY <2>2, EvictionMakesRoom DEF CacheShape
        <4>3. Cached' = kept \cup {stored}
          BY <4>1 DEF Cached
        <4>. QED
          BY <2>2, <4>1, <4>2, <4>3 DEF CacheShape
      <3>. QED
        BY <3>1, <3>2
    <2>4. asker' \in [Callers -> Asker] /\ asker'[c] = NotAsking
          /\ \A d \in Callers : d # c => asker'[d] = asker[d]
      BY <2>1 DEF CacheShape, Asker
    <2>5. CacheShape'
      BY <2>1, <2>3, <2>4 DEF CacheShape, Cached
    <2>6. AnnouncesWhatChanged'
      BY <2>1 DEF AnnouncesWhatChanged
    <2>7. AnswersKeepOrder'
      <3>1. \A i \in DOMAIN frames : frames[i].kind = "response" =>
               frames[i].to \in Callers /\ frames[i].to # c
        BY <2>1, ShapesTell DEF AnswersKeepOrder, Answer
      <3>. QED
        BY <2>1, <2>4, <3>1 DEF AnswersKeepOrder
    <2>8. HeldIsCurrent'
      BY <2>1, <2>4 DEF HeldIsCurrent, NotAsking
    <2>9. StaleOnlyByRace'
      <3>1. e.raced \/ noted[stored] <= e.version
        BY <2>1 DEF HeldIsCurrent
      <3>2. noted[stored] \in Nat /\ e.version \in Nat
        BY <2>2, CacheAssumption DEF CacheAssumption, CacheShape, Entry
      <3>3. CASE UNCHANGED entries
        BY <2>1, <3>3 DEF StaleOnlyByRace, Stale, Cached
      <3>4. CASE \A x \in Cached' : entries'[x] = (IF x = stored THEN e ELSE entries[x])
                                  /\ (x = stored \/ x \in Cached)
        <4>1. ASSUME NEW x \in Keys, Stale(x)'
              PROVE  entries'[x].raced
          <5>1. x \in Cached' /\ entries'[x].version < noted[x]
            BY <2>1, <4>1 DEF Stale
          <5>2. CASE x = stored
            BY <3>1, <3>2, <3>4, <5>1, <5>2
          <5>3. CASE x # stored
            BY <3>4, <5>1, <5>3 DEF StaleOnlyByRace, Stale
          <5>. QED
            BY <5>2, <5>3
        <4>. QED
          BY <4>1 DEF StaleOnlyByRace
      <3>. QED
        BY <2>3, <3>3, <3>4
    <2>. QED
      BY <2>5, <2>6, <2>7, <2>8, <2>9
  <1>4. CASE GiveUp(c)
    <2>1. /\ asker' = [asker EXCEPT ![c] = NotAsking]
          /\ UNCHANGED <<entries, current, noted>>
      BY <1>4 DEF GiveUp
    <2>2. asker' \in [Callers -> Asker] /\ asker'[c] = NotAsking
          /\ \A d \in Callers : d # c => asker'[d] = asker[d]
      BY <2>1 DEF CacheShape, Asker
    <2>3. HeldIsCurrent' /\ StaleOnlyByRace'
      BY <2>1, <2>2 DEF HeldIsCurrent, NotAsking, StaleOnlyByRace, Stale, Cached
    <2>4. CASE ~\E i \in DOMAIN frames : Answers(frames[i], c)
      <3>1. frames' = frames
        BY <1>4, <2>4 DEF GiveUp
      <3>2. \A i \in DOMAIN frames : frames[i].kind = "response" =>
               frames[i].to \in Callers /\ frames[i].to # c
        BY <2>4, ShapesTell DEF Answers, Answer
      <3>3. AnswersKeepOrder'
        BY <2>1, <2>2, <3>1, <3>2 DEF AnswersKeepOrder
      <3>. QED
        BY <2>1, <2>2, <2>3, <3>1, <3>3 DEF CacheShape, Cached, AnnouncesWhatChanged
    <2>5. CASE \E i \in DOMAIN frames : Answers(frames[i], c)
      <3>1. PICK i \in DOMAIN frames : Answers(frames[i], c) /\ frames' = Without(frames, i)
        BY <1>4, <2>5 DEF GiveUp
      <3>2. /\ frames' \in Seq(Announcement \cup Answer)
            /\ \A j \in DOMAIN frames' :
                 \/ j < i /\ j \in DOMAIN frames /\ frames'[j] = frames[j]
                 \/ j >= i /\ j + 1 \in DOMAIN frames /\ frames'[j] = frames[j + 1]
        BY <3>1, WithoutOne DEF CacheShape
      <3>3. CacheShape' /\ AnnouncesWhatChanged'
        BY <2>1, <2>2, <3>2 DEF CacheShape, Cached, AnnouncesWhatChanged
      <3>4. AnswersKeepOrder'
        <4>. DEFINE at(j) == IF j < i THEN j ELSE j + 1
        <4>1. /\ DOMAIN frames = 1..Len(frames) /\ Len(frames) \in Nat
              /\ DOMAIN frames' = 1..Len(frames') /\ Len(frames') \in Nat
          BY <3>2 DEF CacheShape
        <4>2. \A j \in DOMAIN frames' :
                 at(j) \in DOMAIN frames /\ frames'[j] = frames[at(j)] /\ at(j) # i
          BY <3>1, <3>2, <4>1
        <4>3. \A j, l \in DOMAIN frames' : (j < l => at(j) < at(l)) /\ (at(j) = at(l) => j = l)
          BY <3>1, <4>1
        <4>4. \A j \in DOMAIN frames' : frames'[j].kind = "response" =>
                 frames'[j].to \in Callers /\ frames'[j].to # c
          BY <3>1, <4>2, ShapesTell DEF AnswersKeepOrder, Answers, Answer
        <4>. HIDE DEF at
        <4>. QED
          BY <2>1, <2>2, <4>2, <4>3, <4>4 DEF AnswersKeepOrder
      <3>. QED
        BY <2>3, <3>3, <3>4
    <2>. QED
      BY <2>4, <2>5
  <1>. QED
    BY <1>1, <1>2, <1>3, <1>4

\* Clearing the cache, and time, which only takes from what an entry has left.
LEMMA EntrySteps ==
  ASSUME CacheInv, Clear \/ Age
  PROVE  CacheInv'
  <1>1. CASE Clear
    <2>1. entries' = Only({}) /\ UNCHANGED <<asker, frames, current, noted>>
      BY <1>1 DEF Clear, Only
    <2>2. {} \in SUBSET Cached
      OBVIOUS
    <2>3. StaleOnlyByRace'
      BY <2>1, <2>2, FewerEntries DEF StaleOnlyByRace, Stale
    <2>. QED
      BY <2>1, <2>2, <2>3, FewerEntries, EntriesOnly
  <1>2. CASE Age
    <2>1. /\ entries' = [k \in Cached |->
                          [entries[k] EXCEPT !.left = IF @ > 0 THEN @ - 1 ELSE 0]]
          /\ UNCHANGED <<asker, frames, current, noted>>
      BY <1>2 DEF Age
    <2>2. Cached' = Cached
      BY <2>1 DEF Cached
    <2>3. \A k \in Cached : /\ entries'[k] \in Entry
                            /\ entries'[k].version = entries[k].version
                            /\ entries'[k].raced = entries[k].raced
      BY <2>1, CacheAssumption DEF CacheAssumption, CacheInv, CacheShape, Entry
    <2>4. entries' \in [Cached' -> Entry]
      BY <2>1, <2>2, <2>3
    <2>5. StaleOnlyByRace'
      BY <2>1, <2>2, <2>3 DEF CacheInv, StaleOnlyByRace, Stale
    <2>. QED
      BY <2>1, <2>2, <2>4, <2>5, EntriesOnly DEF CacheInv, CacheShape
  <1>. QED
    BY <1>1, <1>2

\* What is left of the frames when the first was taken.
LEMMA TheRest ==
  ASSUME CacheShape, frames # <<>>, frames' = Tail(frames)
  PROVE  /\ frames' \in Seq(Announcement \cup Answer)
         /\ 1 \in DOMAIN frames /\ Head(frames) = frames[1]
         /\ \A i \in DOMAIN frames' : i \in Nat /\ i + 1 \in DOMAIN frames /\ i + 1 # 1
                                     /\ frames'[i] = frames[i + 1]
  BY DEF CacheShape

\* The connection actor delivers an answer.
LEMMA DeliveredAnswer ==
  ASSUME CacheInv, DeliverResponse
  PROVE  CacheInv'
  <1>. USE DEF CacheInv
  <1>. DEFINE m == frames[1]
              k == asker[m.to].key
  <1>1. /\ frames # <<>> /\ frames' = Tail(frames) /\ m.kind = "response"
        /\ asker' = [asker EXCEPT ![m.to] =
               [state |-> "answered", key |-> @.key, raced |-> @.raced,
                version |-> m.version, ttl |-> m.ttl]]
        /\ UNCHANGED <<entries, current, noted>>
    BY TheRest DEF DeliverResponse
  <1>2. /\ m \in Answer /\ asker[m.to].state = "fetching"
        /\ k \in Keys /\ asker[m.to].raced \in BOOLEAN
        /\ noted[k] <= m.version
        /\ \A j \in DOMAIN frames : Answers(frames[j], m.to) => j = 1
    BY <1>1, TheRest, ShapesTell DEF AnswersKeepOrder, Answer, NotAsking
  <1>3. /\ m.to \in Callers /\ m.version \in 0..MaxVersion /\ m.ttl \in 0..MaxTtl
        /\ asker'[m.to] = [state |-> "answered", key |-> k, raced |-> asker[m.to].raced,
                           version |-> m.version, ttl |-> m.ttl]
        /\ \A d \in Callers : d # m.to => asker'[d] = asker[d]
    BY <1>1, <1>2 DEF Answer, CacheShape
  <1>4. asker' \in [Callers -> Asker]
    <2>1. asker'[m.to] \in Asker
      BY <1>2, <1>3 DEF Asker
    <2>. QED
      BY <1>1, <1>3, <2>1 DEF CacheShape
  <1>. HIDE DEF m, k
  <1>5. CacheShape' /\ AnnouncesWhatChanged' /\ StaleOnlyByRace'
    BY <1>1, <1>4, TheRest DEF CacheShape, Cached, AnnouncesWhatChanged, StaleOnlyByRace, Stale
  <1>6. AnswersKeepOrder'
    <2>1. \A i \in DOMAIN frames' : frames'[i].kind = "response" =>
             frames'[i].to \in Callers /\ frames'[i].to # m.to
      BY <1>1, <1>2, TheRest, ShapesTell DEF Answers, Answer
    <2>2. \A i, j \in DOMAIN frames' : j < i => j + 1 < i + 1
      BY <1>1, TheRest
    <2>. QED
      BY <1>1, <1>3, <2>1, <2>2, TheRest DEF AnswersKeepOrder
  <1>7. HeldIsCurrent'
    BY <1>1, <1>2, <1>3 DEF HeldIsCurrent
  <1>. QED
    BY <1>5, <1>6, <1>7

\* The connection actor delivers a notification: it removes what it affects,
\* and marks the fetches that are under way.
LEMMA DeliveredNotice ==
  ASSUME CacheInv, DeliverNotice
  PROVE  CacheInv'
  <1>. USE DEF CacheInv
  <1>. PICK versions, gone : versions = frames[1].versions /\ gone = Obsoleted(frames[1].notice)
    OBVIOUS
  <1>1. /\ frames # <<>> /\ frames' = Tail(frames) /\ frames[1].kind = "notice"
        /\ entries' = Only(Cached \ gone)
        /\ noted' = [k \in Keys |-> IF versions[k] > noted[k] THEN versions[k] ELSE noted[k]]
        /\ asker' = [c \in Callers |->
               IF asker[c] # NotAsking /\ versions[asker[c].key] > 0
               THEN [asker[c] EXCEPT !.raced = TRUE] ELSE asker[c]]
        /\ current' = current
    BY TheRest DEF DeliverNotice
  <1>2. \A k \in Keys : /\ versions[k] \in 0..MaxVersion
                       /\ versions[k] <= current[k]
    <2>1. versions \in [Keys -> 0..MaxVersion]
      BY <1>1, TheRest, ShapesTell DEF Announcement
    <2>. QED
      BY <1>1, <2>1, TheRest DEF AnnouncesWhatChanged
  <1>2a. \A k \in Keys \ gone : ~(versions[k] > 0)
    <2>1. frames[1].notice \in Notices
      BY <1>1, TheRest, ShapesTell DEF Announcement
    <2>. QED
      BY <1>1, <2>1, TheRest, AffectedIsObsoleted DEF AnnouncesWhatChanged
  <1>3. \A k \in Keys :
          /\ noted'[k] \in 0..MaxVersion /\ noted'[k] <= current'[k]
          /\ noted'[k] = noted[k] \/ (noted'[k] = versions[k] /\ versions[k] > 0)
    <2>1. ASSUME NEW k \in Keys
          PROVE  /\ noted[k] \in 0..MaxVersion /\ noted[k] <= current[k] /\ MaxVersion \in Nat
                 /\ noted'[k] = (IF versions[k] > noted[k] THEN versions[k] ELSE noted[k])
      BY <1>1, CacheAssumption DEF CacheAssumption, CacheShape
    <2>2. ASSUME NEW k \in Keys
          PROVE  /\ versions[k] \in 0..MaxVersion /\ versions[k] <= current[k]
                 /\ current'[k] = current[k]
      BY <1>1, <1>2, <2>2
    <2>3. ASSUME NEW k \in Keys
          PROVE  /\ noted'[k] \in 0..MaxVersion /\ noted'[k] <= current'[k]
                 /\ noted'[k] = noted[k] \/ (noted'[k] = versions[k] /\ versions[k] > 0)
      <3>1. CASE versions[k] > noted[k]
        BY <2>1, <2>2, <2>3, <3>1
      <3>2. CASE ~(versions[k] > noted[k])
        BY <2>1, <2>2, <2>3, <3>2
      <3>. QED
        BY <3>1, <3>2
    <2>. QED
      BY <2>3
  <1>4. /\ entries' \in [Cached' -> Entry] /\ Cached' \subseteq Keys
        /\ Cardinality(Cached') <= MaxEntries
        /\ Cached' = Cached \ gone /\ \A x \in Cached' : entries'[x] = entries[x]
    <2>1. Cached \ gone \in SUBSET Cached
      OBVIOUS
    <2>. QED
      BY <1>1, <2>1, FewerEntries
  <1>5. \A c \in Callers :
          /\ asker'[c] \in Asker /\ asker'[c].state = asker[c].state
          /\ asker[c] # NotAsking => asker'[c].key = asker[c].key
          /\ asker[c].state = "answered" =>
               /\ asker'[c].version = asker[c].version
               /\ asker'[c].raced \/ asker'[c].raced = asker[c].raced
          /\ asker[c] # NotAsking /\ versions[asker[c].key] > 0 => asker'[c].raced
    <2>1. ASSUME NEW c \in Callers, asker[c] # NotAsking, versions[asker[c].key] > 0
          PROVE  asker'[c] = [asker[c] EXCEPT !.raced = TRUE]
      BY <1>1, <2>1
    <2>2. ASSUME NEW c \in Callers, ~(asker[c] # NotAsking /\ versions[asker[c].key] > 0)
          PROVE  asker'[c] = asker[c]
      BY <1>1, <2>2
    <2>3. \A c \in Callers : asker[c] \in Asker
      BY DEF CacheShape
    <2>. QED
      <3>. SUFFICES ASSUME NEW c \in Callers
           PROVE  /\ asker'[c] \in Asker /\ asker'[c].state = asker[c].state
                  /\ asker[c] # NotAsking => asker'[c].key = asker[c].key
                  /\ asker[c].state = "answered" =>
                       /\ asker'[c].version = asker[c].version
                       /\ asker'[c].raced \/ asker'[c].raced = asker[c].raced
                  /\ asker[c] # NotAsking /\ versions[asker[c].key] > 0 => asker'[c].raced
        OBVIOUS
      <3>1. CASE asker[c] # NotAsking /\ versions[asker[c].key] > 0
        BY <2>1, <2>3, <3>1 DEF Asker, NotAsking
      <3>2. CASE ~(asker[c] # NotAsking /\ versions[asker[c].key] > 0)
        BY <2>2, <2>3, <3>2 DEF Asker, NotAsking
      <3>. QED
        BY <3>1, <3>2
  <1>6. asker' \in [Callers -> Asker]
    BY <1>1, <1>5
  <1>7. CacheShape' /\ AnnouncesWhatChanged'
    <2>1. noted' \in [Keys -> 0..MaxVersion]
      BY <1>1, <1>3
    <2>2. frames' \in Seq(Announcement \cup Answer)
      BY <1>1, TheRest
    <2>3. CacheShape'
      BY <1>1, <1>3, <1>4, <1>6, <2>1, <2>2 DEF CacheShape
    <2>4. \A i \in DOMAIN frames' : i + 1 \in DOMAIN frames /\ frames'[i] = frames[i + 1]
      BY <1>1, TheRest
    <2>5. AnnouncesWhatChanged'
      BY <1>1, <2>4 DEF AnnouncesWhatChanged
    <2>. QED
      BY <2>3, <2>5
  <1>8. AnswersKeepOrder'
    <2>1. ASSUME NEW i \in DOMAIN frames', frames'[i].kind = "response"
          PROVE  /\ frames'[i].to \in Callers /\ i + 1 \in DOMAIN frames
                 /\ frames'[i] = frames[i + 1]
                 /\ asker[frames'[i].to].state = "fetching"
                 /\ asker'[frames'[i].to].state = "fetching"
                 /\ asker'[frames'[i].to].key = asker[frames'[i].to].key
                 /\ asker[frames'[i].to].key \in Keys
                 /\ noted'[asker[frames'[i].to].key] <= frames'[i].version
      <3>1. frames'[i] = frames[i + 1] /\ i + 1 \in DOMAIN frames /\ 1 \in DOMAIN frames /\ 1 < i + 1
        BY <1>1, TheRest
      <3>2. /\ frames'[i].to \in Callers /\ asker[frames'[i].to].state = "fetching"
            /\ noted[asker[frames'[i].to].key] <= frames'[i].version
            /\ versions[asker[frames'[i].to].key] <= frames'[i].version
        BY <1>1, <2>1, <3>1, ShapesTell DEF AnswersKeepOrder, Answer
      <3>3. asker[frames'[i].to] # NotAsking /\ asker[frames'[i].to].key \in Keys
        BY <3>2, ShapesTell DEF NotAsking
      <3>. QED
        BY <1>3, <1>5, <3>1, <3>2, <3>3
    <2>2. \A i, j \in DOMAIN frames' :
             /\ i + 1 \in DOMAIN frames /\ frames'[i] = frames[i + 1]
             /\ j < i => j + 1 < i + 1
             /\ j + 1 = i + 1 => j = i
      BY <1>1, TheRest
    <2>3. ASSUME NEW i \in DOMAIN frames', frames'[i].kind = "response", NEW j \in DOMAIN frames'
          PROVE  /\ j < i /\ frames'[j].kind = "notice" =>
                      frames'[j].versions[asker'[frames'[i].to].key] <= frames'[i].version
                 /\ Answers(frames'[j], frames'[i].to) => j = i
                 /\ frames'[i].version <= current'[asker'[frames'[i].to].key]
      <3>1. /\ frames[i + 1] = frames'[i] /\ i + 1 \in DOMAIN frames
            /\ frames[j + 1] = frames'[j] /\ j + 1 \in DOMAIN frames
            /\ j < i => j + 1 < i + 1
            /\ j + 1 = i + 1 => j = i
        BY <2>2, <2>3
      <3>2. /\ asker'[frames'[i].to].key = asker[frames[i + 1].to].key /\ current' = current
            /\ frames[i + 1].kind = "response"
        BY <1>1, <2>1, <2>3, <3>1
      <3>3. /\ frames[i + 1].version <= current[asker[frames[i + 1].to].key]
            /\ j + 1 < i + 1 /\ frames[j + 1].kind = "notice" =>
                 frames[j + 1].versions[asker[frames[i + 1].to].key] <= frames[i + 1].version
            /\ Answers(frames[j + 1], frames[i + 1].to) => j + 1 = i + 1
        BY <3>1, <3>2 DEF AnswersKeepOrder
      <3>. QED
        BY <3>1, <3>2, <3>3
    <2>. QED
      BY <2>1, <2>3 DEF AnswersKeepOrder
  <1>9. HeldIsCurrent'
    <2>1. ASSUME NEW c \in Callers, asker'[c].state = "answered", ~asker'[c].raced
          PROVE  noted'[asker'[c].key] <= asker'[c].version
      <3>1. asker[c].state = "answered" /\ asker[c] # NotAsking /\ ~asker[c].raced
        BY <1>5, <2>1, ShapesTell DEF NotAsking
      <3>2. asker[c].key \in Keys /\ noted[asker[c].key] <= asker[c].version
        BY <3>1, ShapesTell DEF HeldIsCurrent
      <3>3. noted'[asker[c].key] = noted[asker[c].key]
        BY <1>3, <1>5, <2>1, <3>1, <3>2
      <3>. QED
        BY <1>5, <3>1, <3>2, <3>3
    <2>. QED
      BY <2>1 DEF HeldIsCurrent
  <1>10. StaleOnlyByRace'
    <2>1. ASSUME NEW k \in Keys, Stale(k)'
          PROVE  entries'[k].raced
      <3>1. k \in Cached' /\ entries'[k].version < noted'[k]
        BY <2>1 DEF Stale
      <3>2. k \in Cached /\ k \notin gone /\ entries'[k] = entries[k]
        BY <1>4, <3>1
      <3>3. noted'[k] = noted[k]
        BY <1>3, <1>2a, <2>1, <3>2
      <3>. QED
        BY <3>1, <3>2, <3>3 DEF StaleOnlyByRace, Stale
    <2>. QED
      BY <2>1 DEF StaleOnlyByRace
  <1>. QED
    BY <1>7, <1>8, <1>9, <1>10

\* The server answers: the answer goes behind every notice, and is current.
LEMMA ServerAnswersStep ==
  ASSUME CacheInv, NEW c \in Callers, NEW ttl \in 0..MaxTtl, ServerAnswers(c, ttl)
  PROVE  CacheInv'
  <1>. USE DEF CacheInv
  <1>. DEFINE k == asker[c].key
              m == [kind |-> "response", to |-> c, ttl |-> ttl, version |-> current[k]]
  <1>1. /\ asker[c].state = "fetching" /\ \A i \in DOMAIN frames : ~Answers(frames[i], c)
        /\ frames' = Append(frames, m)
        /\ UNCHANGED <<entries, asker, current, noted>>
    BY DEF ServerAnswers
  <1>2. /\ k \in Keys /\ current[k] \in 0..MaxVersion /\ noted[k] <= current[k]
        /\ Len(frames) \in Nat /\ DOMAIN frames = 1..Len(frames)
    BY <1>1, ShapesTell DEF NotAsking, CacheShape
  <1>3. m \in Answer
    BY <1>2 DEF Answer
  <1>4. /\ frames' \in Seq(Announcement \cup Answer)
        /\ DOMAIN frames' = DOMAIN frames \cup {Len(frames) + 1}
        /\ frames'[Len(frames) + 1] = m
        /\ \A i \in DOMAIN frames : frames'[i] = frames[i] /\ i < Len(frames) + 1
    BY <1>1, <1>2, <1>3 DEF CacheShape
  <1>5. m.kind = "response" /\ m.to = c /\ m.version = current[k]
    OBVIOUS
  <1>. HIDE DEF m
  <1>6. CacheShape' /\ AnnouncesWhatChanged' /\ HeldIsCurrent' /\ StaleOnlyByRace'
    BY <1>1, <1>4, <1>5 DEF CacheShape, Cached, AnnouncesWhatChanged, HeldIsCurrent,
                            StaleOnlyByRace, Stale
  <1>7. AnswersKeepOrder'
    <2>1. ASSUME NEW i \in DOMAIN frames, frames[i].kind = "response"
          PROVE  frames[i].to # c
      BY <1>1, <2>1 DEF Answers
    <2>2. \A j \in DOMAIN frames : frames[j].kind = "notice" => frames[j].versions[k] <= current[k]
      BY <1>2 DEF AnnouncesWhatChanged
    <2>3. ASSUME NEW i \in DOMAIN frames', frames'[i].kind = "response",
                 NEW j \in DOMAIN frames'
          PROVE  /\ asker[frames'[i].to].state = "fetching"
                 /\ noted[asker[frames'[i].to].key] <= frames'[i].version
                 /\ frames'[i].version <= current[asker[frames'[i].to].key]
                 /\ j < i /\ frames'[j].kind = "notice" =>
                      frames'[j].versions[asker[frames'[i].to].key] <= frames'[i].version
                 /\ Answers(frames'[j], frames'[i].to) => j = i
      <3>1. CASE i \in DOMAIN frames
        <4>1. frames'[i] = frames[i] /\ frames[i].kind = "response" /\ frames[i].to # c
          BY <1>4, <2>1, <2>3, <3>1
        <4>2. CASE j \in DOMAIN frames
          BY <1>4, <3>1, <4>1, <4>2 DEF AnswersKeepOrder
        <4>3. CASE j = Len(frames) + 1
          BY <1>2, <1>4, <1>5, <3>1, <4>1, <4>3 DEF AnswersKeepOrder, Answers
        <4>. QED
          BY <1>4, <2>3, <4>2, <4>3
      <3>2. CASE i = Len(frames) + 1
        <4>1. frames'[i].to = c /\ frames'[i].version = current[k]
          BY <1>4, <1>5, <3>2
        <4>2. CASE j \in DOMAIN frames
          BY <1>1, <1>2, <1>4, <2>2, <4>1, <4>2
        <4>3. CASE j = i
          BY <1>1, <1>2, <4>1, <4>3
        <4>. QED
          BY <1>4, <2>3, <3>2, <4>2, <4>3
      <3>. QED
        BY <1>4, <2>3, <3>1, <3>2
    <2>. QED
      BY <1>1, <2>3 DEF AnswersKeepOrder
  <1>. QED
    BY <1>6, <1>7

\* The server changes its data, and announces it behind the answers it gave.
LEMMA ServerChangesStep ==
  ASSUME CacheInv, NEW n \in Notices, ServerChanges(n)
  PROVE  CacheInv'
  <1>. USE DEF CacheInv
  <1>. DEFINE now == [k \in Keys |-> current[k] + (IF k \in Affected(n) THEN 1 ELSE 0)]
              m == [kind |-> "notice", notice |-> n,
                    versions |-> [k \in Keys |-> IF k \in Affected(n) THEN now[k] ELSE 0]]
  <1>1. /\ \A k \in Affected(n) : current[k] < MaxVersion
        /\ current' = now /\ frames' = Append(frames, m)
        /\ UNCHANGED <<entries, asker, noted>>
    BY DEF ServerChanges
  <1>2. /\ current \in [Keys -> 0..MaxVersion] /\ MaxVersion \in Nat
        /\ Len(frames) \in Nat /\ DOMAIN frames = 1..Len(frames)
    BY CacheAssumption DEF CacheAssumption, CacheShape
  <1>3. \A k \in Keys : /\ current'[k] \in 0..MaxVersion /\ current[k] <= current'[k]
                       /\ m.versions[k] \in 0..MaxVersion /\ m.versions[k] <= current'[k]
    BY <1>1, <1>2
  <1>3a. \A k \in Keys \ Affected(n) : m.versions[k] = 0
    OBVIOUS
  <1>4. m \in Announcement
    BY <1>3 DEF Announcement
  <1>5. m.kind = "notice" /\ m.notice = n
    OBVIOUS
  <1>6. current' \in [Keys -> 0..MaxVersion]
    BY <1>1, <1>3
  <1>. HIDE DEF m, now
  <1>7. /\ frames' \in Seq(Announcement \cup Answer)
        /\ DOMAIN frames' = DOMAIN frames \cup {Len(frames) + 1}
        /\ frames'[Len(frames) + 1] = m
        /\ \A i \in DOMAIN frames : frames'[i] = frames[i] /\ i < Len(frames) + 1
    BY <1>1, <1>2, <1>4 DEF CacheShape
  <1>8. CacheShape'
    <2>1. \A k \in Keys : noted'[k] <= current'[k]
      BY <1>1, <1>2, <1>3 DEF CacheShape
    <2>. QED
      BY <1>1, <1>6, <1>7, <2>1 DEF CacheShape, Cached
  <1>9. AnnouncesWhatChanged'
    <2>1. ASSUME NEW i \in DOMAIN frames', frames'[i].kind = "notice", NEW k \in Keys
          PROVE  frames'[i].versions[k] <= current'[k]
      <3>1. CASE i = Len(frames) + 1
        BY <1>3, <1>7, <2>1, <3>1
      <3>2. CASE i \in DOMAIN frames
        <4>1. /\ frames'[i] = frames[i] /\ frames[i] \in Announcement
              /\ frames[i].versions[k] <= current[k]
          BY <1>7, <2>1, <3>2, ShapesTell DEF AnnouncesWhatChanged
        <4>2. frames[i].versions[k] \in 0..MaxVersion
          BY <2>1, <4>1 DEF Announcement
        <4>. QED
          BY <1>2, <1>3, <2>1, <4>1, <4>2
      <3>. QED
        BY <1>7, <2>1, <3>1, <3>2
    <2>2. ASSUME NEW i \in DOMAIN frames', frames'[i].kind = "notice",
                 NEW k \in Keys \ Affected(frames'[i].notice)
          PROVE  frames'[i].versions[k] = 0
      <3>1. CASE i = Len(frames) + 1
        BY <1>3a, <1>5, <1>7, <2>2, <3>1
      <3>2. CASE i \in DOMAIN frames
        BY <1>7, <2>2, <3>2 DEF AnnouncesWhatChanged
      <3>. QED
        BY <1>7, <2>2, <3>1, <3>2
    <2>. QED
      BY <2>1, <2>2 DEF AnnouncesWhatChanged
  <1>10. AnswersKeepOrder'
    <2>1. ASSUME NEW i \in DOMAIN frames', frames'[i].kind = "response"
          PROVE  i \in DOMAIN frames /\ frames'[i] = frames[i]
      BY <1>5, <1>7, <2>1
    <2>2. ASSUME NEW i \in DOMAIN frames', frames'[i].kind = "response"
          PROVE  frames'[i].version <= current'[asker'[frames'[i].to].key]
      <3>. DEFINE k == asker[frames[i].to].key
      <3>1. /\ frames[i] \in Answer /\ k \in Keys
            /\ frames[i].version <= current[k]
        BY <2>1, <2>2, ShapesTell DEF AnswersKeepOrder, Answer, NotAsking
      <3>2. frames[i].version \in 0..MaxVersion
        BY <3>1 DEF Answer
      <3>3. current[k] \in 0..MaxVersion /\ current'[k] \in 0..MaxVersion
            /\ current[k] <= current'[k]
        BY <1>2, <1>3, <3>1
      <3>. HIDE DEF k
      <3>4. frames[i].version <= current'[k]
        BY <1>2, <3>1, <3>2, <3>3
      <3>. QED
        BY <1>1, <2>1, <2>2, <3>4 DEF k
    <2>3. ASSUME NEW i \in DOMAIN frames', frames'[i].kind = "response",
                 NEW j \in DOMAIN frames'
          PROVE  /\ asker'[frames'[i].to].state = "fetching"
                 /\ noted'[asker'[frames'[i].to].key] <= frames'[i].version
                 /\ j < i /\ frames'[j].kind = "notice" =>
                      frames'[j].versions[asker'[frames'[i].to].key] <= frames'[i].version
                 /\ Answers(frames'[j], frames'[i].to) => j = i
      <3>1. i \in DOMAIN frames /\ frames'[i] = frames[i] /\ frames[i].kind = "response"
            /\ i < Len(frames) + 1
        BY <1>7, <2>1, <2>3
      <3>2. CASE j \in DOMAIN frames
        BY <1>1, <1>7, <3>1, <3>2 DEF AnswersKeepOrder
      <3>3. CASE j = Len(frames) + 1
        BY <1>1, <1>2, <1>5, <1>7, <3>1, <3>3 DEF AnswersKeepOrder, Answers
      <3>. QED
        BY <1>7, <2>3, <3>2, <3>3
    <2>. QED
      BY <2>2, <2>3 DEF AnswersKeepOrder
  <1>11. HeldIsCurrent' /\ StaleOnlyByRace'
    BY <1>1 DEF HeldIsCurrent, StaleOnlyByRace, Stale, Cached
  <1>. QED
    BY <1>8, <1>9, <1>10, <1>11

\* The cache's invariant holds initially and every step preserves it.
LEMMA CacheIsInvariant == CacheSpec => []CacheInv
  <1>1. CacheInit => CacheInv
    <2>. SUFFICES ASSUME CacheInit PROVE CacheInv
      OBVIOUS
    <2>1. Cached = {} /\ frames = <<>> /\ DOMAIN frames = {}
      BY DEF CacheInit, Cached
    <2>2. CacheShape
      <3>1. Cardinality(Cached) = 0
        BY <2>1, FS_EmptySet
      <3>. QED
        BY <2>1, <3>1, CacheAssumption
           DEF CacheAssumption, CacheInit, CacheShape, Asker, Cached
    <2>. QED
      BY <2>1, <2>2 DEF CacheInit, CacheInv, AnnouncesWhatChanged, AnswersKeepOrder,
                        HeldIsCurrent, StaleOnlyByRace, Stale, NotAsking
  <1>2. CacheInv /\ [CacheNext]_cacheVars => CacheInv'
    <2>. SUFFICES ASSUME CacheInv, [CacheNext]_cacheVars
                  PROVE  CacheInv'
      OBVIOUS
    <2>1. CASE UNCHANGED cacheVars
      BY <2>1 DEF cacheVars, CacheInv, CacheShape, Cached, AnnouncesWhatChanged,
                  AnswersKeepOrder, HeldIsCurrent, StaleOnlyByRace, Stale
    <2>2. ASSUME NEW c \in Callers, NEW k \in Keys, GetHit(c, k) \/ GetMiss(c, k)
          PROVE  CacheInv'
      BY <2>2, CallerSteps
    <2>3. ASSUME NEW c \in Callers, StoreAnswer(c) \/ GiveUp(c)
          PROVE  CacheInv'
      <3>1. asker[c].key \in Keys
        BY <2>3, ShapesTell DEF CacheInv, StoreAnswer, GiveUp, NotAsking
      <3>. QED
        BY <2>3, <3>1, CallerSteps
    <2>. QED
      BY <2>1, <2>2, <2>3, EntrySteps, DeliveredAnswer, DeliveredNotice,
         ServerAnswersStep, ServerChangesStep DEF CacheNext
  <1>. QED
    BY <1>1, <1>2, PTL DEF CacheSpec

\* The cached entries are at most MaxEntries (the cap of store's eviction), and
\* the client was never told of a version the server does not have.
THEOREM CacheIsTyped == CacheSpec => []CacheTypeOK
  <1>1. CacheInv => CacheTypeOK
    <2>. SUFFICES ASSUME CacheInv PROVE CacheTypeOK
      OBVIOUS
    <2>. QED
      BY ShapesTell DEF CacheInv, CacheShape, CacheTypeOK
  <1>. QED
    BY <1>1, CacheIsInvariant, PTL

\* cached_request stores after the actor may have applied a notification; no
\* other entry is older than what the client was told.
THEOREM StaleByRaceAlone == CacheSpec => []StaleOnlyByRace
  <1>1. CacheInv => StaleOnlyByRace
    BY DEF CacheInv
  <1>. QED
    BY <1>1, CacheIsInvariant, PTL
=============================================================================
