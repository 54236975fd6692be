------------------------- MODULE SubscriptionsProofs -------------------------
(***************************************************************************)
(* Proofs about the registries of the server.  Of Subscriptions, for any   *)
(* subscriptions, sessions, connections, publishers and numbers of         *)
(* changes: the acknowledgment comes first, what has ended is silent, and  *)
(* no change is lost.  Of LegacySessions, for any sessions, requests and   *)
(* cap: the session store keeps within its cap, and the route table        *)
(* follows it.                                                             *)
(***************************************************************************)
EXTENDS MCRegistries, FiniteSetTheorems, TLAPS

-----------------------------------------------------------------------------
(* What each part of the state looks like.                                  *)

PubRecord == [at : {"idle", "sleep", "start", "draft", "legacy"},
              todo : SUBSET Targets, kind : {"none", "list", "updated"}]

Shape ==
    /\ listen \in [Subs -> {"unsent", "read", "acking", "acked", "inserted", "done"}]
    /\ cancel \in [Subs -> {"no", "read", "removing", "handled"}]
    /\ inflight \subseteq Subs /\ fired \subseteq Subs /\ missed \subseteq Subs
    /\ registry \subseteq Subs /\ taskTable \subseteq TaskSubs /\ closing \subseteq Subs
    /\ conn \in [Conns -> {"open", "leaving", "gone"}]
    /\ stream \in [Targets -> Seq(Messages)]
    /\ changes \in 0..MaxChanges /\ others \in 0..MaxOthers
    /\ told \in [Targets -> 0..MaxChanges]
    /\ pending \in BOOLEAN
    /\ pub \in [Publishers -> PubRecord]

\* Where a publisher is says whom it may still have to tell, and of what.
PubCourse(p) ==
    /\ pub[p].at \in {"idle", "sleep", "start"} => pub[p].todo = {}
    /\ pub[p].at = "draft" => pub[p].todo \subseteq Subs
    /\ pub[p].at = "legacy" => pub[p].todo \subseteq LegacyRoutes
    /\ pub[p].at = "sleep" => pub[p].kind = "list"
    /\ pub[p].at # "idle" => pub[p].kind # "none"

\* The coalescing flag is up exactly while one publisher sleeps.
OneSleeper ==
    /\ pending => \E p \in Publishers : Sleeping = {p}
    /\ ~pending => Sleeping = {}

Acknowledged(s) == \E i \in DOMAIN stream[s] : stream[s][i] = "ack"

\* Where the handler of a listen request is says what its stream and the tables
\* may hold.
ListenCourse(s) ==
    /\ listen[s] \in {"unsent", "read", "acking"} => ~Acknowledged(s)
    /\ listen[s] \in {"acked", "inserted"} => Acknowledged(s)
    /\ s \in registry \/ Addressed(s) \/ Answered(s) => Acknowledged(s)
    /\ s \in registry \/ s \in closing \/ Answered(s) => listen[s] \in {"inserted", "done"}
    /\ ~(s \in registry /\ s \in closing)
    /\ Answered(s) => s \notin registry /\ s \notin closing

\* A cancellation that found its subscription has ended it, or will once the
\* handler of the listen request is through.
CancelCourse(s) ==
    cancel[s] = "handled" /\ s \notin missed =>
        /\ s \notin fired => s \notin registry /\ listen[s] \in {"inserted", "done"}
        /\ s \in fired /\ listen[s] = "done" => s \notin registry

\* The property of one stream.
AckFirstOn(s) == \A i \in DOMAIN stream[s] :
    /\ stream[s][i] \in {"list", "updated", "result"} =>
         \E k \in 1..(i - 1) : stream[s][k] = "ack"
    /\ stream[s][i] \in {"ack", "result"} =>
         \A j \in DOMAIN stream[s] : stream[s][j] = stream[s][i] => i = j

\* A publisher that will still tell x of a list change.
Promises(p, x) ==
    /\ pub[p].kind = "list"
    /\ \/ pub[p].at \in {"sleep", "start"}
       \/ pub[p].at = "draft" /\ (x \in pub[p].todo \/ x \in LegacyRoutes)
       \/ pub[p].at = "legacy" /\ x \in pub[p].todo

\* Who is subscribed and reachable knows of the last change, or will be told.
ToldOrPromised(x) ==
    x \in registry \cup LegacyRoutes /\ "list" \in Wants[x] /\ State(x) = "open" =>
        told[x] = changes \/ \E p \in Publishers : Promises(p, x)

SubsInv ==
    /\ Shape
    /\ \A p \in Publishers : PubCourse(p)
    /\ OneSleeper
    /\ \A s \in Subs : ListenCourse(s) /\ CancelCourse(s) /\ AckFirstOn(s)
    /\ \A x \in Targets : ToldOrPromised(x)

-----------------------------------------------------------------------------
(* Streams.                                                                 *)

\* What appending does to a stream.
LEMMA AppendFacts ==
  ASSUME NEW q \in Seq(Messages), NEW m \in Messages
  PROVE  /\ Append(q, m) \in Seq(Messages)
         /\ Len(q) \in Nat /\ DOMAIN q = 1..Len(q)
         /\ DOMAIN Append(q, m) = 1..(Len(q) + 1)
         /\ \A i \in 1..Len(q) : Append(q, m)[i] = q[i]
         /\ Append(q, m)[Len(q) + 1] = m
  OBVIOUS

Sends(x, m) == m \in Messages /\ stream'[x] = Append(stream[x], m)

\* What a step may send on a stream, and when.
Speaks(x) ==
    \/ stream'[x] = stream[x]
    \/ Sends(x, "task")
    \/ Sends(x, "ack") /\ x \in Subs /\ listen[x] = "acking"
    \/ \E m \in {"list", "updated"} : Sends(x, m) /\ \E p \in Publishers : x \in pub[p].todo
    \/ Sends(x, "result") /\ x \in closing

\* A message that is put goes to one target and leaves the others' streams alone.
LEMMA PutFacts ==
  ASSUME Shape, NEW x \in Targets, NEW m \in Messages, Put(x, m)
  PROVE  /\ stream' \in [Targets -> Seq(Messages)]
         /\ Sends(x, m)
         /\ \A y \in Targets \ {x} : stream'[y] = stream[y]
  BY DEF Shape, Put, Sends

\* Every step puts messages only where one of the listed senders owes them.
LEMMA StreamSteps ==
  ASSUME Shape, \A p \in Publishers : PubCourse(p), [Next]_vars
  PROVE  stream' \in [Targets -> Seq(Messages)] /\ \A x \in Targets : Speaks(x)
  <1>. DEFINE Goal == stream' \in [Targets -> Seq(Messages)] /\ \A x \in Targets : Speaks(x)
  <1>. USE DEF Targets
  <1>1. ASSUME stream' = stream
        PROVE  Goal
    BY <1>1 DEF Shape, Speaks
  <1>2. ASSUME NEW s \in Subs, SendAck(s)
        PROVE  Goal
    <2>1. CASE Put(s, "ack")
      BY <1>2, <2>1, PutFacts DEF SendAck, Speaks, Messages
    <2>. QED
      BY <1>1, <1>2, <2>1 DEF SendAck
  <1>3. ASSUME NEW p \in Publishers, NEW s \in Targets, s \in pub[p].todo, Put(s, pub[p].kind),
               pub[p].at # "idle"
        PROVE  Goal
    <2>1. pub[p].kind \in {"list", "updated"}
      BY <1>3 DEF PubCourse, Shape, PubRecord
    <2>2. /\ stream' \in [Targets -> Seq(Messages)] /\ Sends(s, pub[p].kind)
          /\ \A y \in Targets \ {s} : stream'[y] = stream[y]
      BY <1>3, <2>1, PutFacts DEF Messages
    <2>. QED
      BY <1>3, <2>1, <2>2 DEF Speaks
  <1>4. ASSUME NEW s \in Subs, PushTaskStatus(s)
        PROVE  Goal
    <2>1. CASE Put(s, "task")
      BY <1>4, <2>1, PutFacts DEF Speaks, Messages
    <2>. QED
      BY <1>1, <1>4, <2>1 DEF PushTaskStatus
  <1>5. ASSUME NEW s \in Subs, AnswerListen(s)
        PROVE  Goal
    <2>1. CASE Put(s, "result")
      BY <1>5, <2>1, PutFacts DEF Speaks, Messages, AnswerListen
    <2>. QED
      BY <1>1, <1>5, <2>1 DEF AnswerListen
  <1>6. ASSUME NEW p \in Publishers, NEW x \in Targets, Deliver(p, x) \/ DeliverLegacy(p, x)
        PROVE  Goal
    BY <1>1, <1>3, <1>6 DEF Deliver, DeliverLegacy
  <1>7. \/ stream' = stream
        \/ \E s \in Subs : SendAck(s) \/ PushTaskStatus(s) \/ AnswerListen(s)
        \/ \E p \in Publishers, x \in Targets : Deliver(p, x) \/ DeliverLegacy(p, x)
    BY DEF Next, vars, HandlerStep, PublishStep, ClientListens, ClientCancels, StartListen,
       InsertSub, FinishListen, FireToken, RemoveCancelled, Schedule, ResourceUpdated, Wake,
       TakeTargets, TakeSessions, Published, CloseAll, Leave
  <1>. QED
    BY <1>1, <1>2, <1>4, <1>5, <1>6, <1>7

\* Who has been acknowledged or answered stays so, and nothing else says so.
LEMMA SpokenSteps ==
  ASSUME Shape, NEW s \in Subs, NEW m \in Messages, Sends(s, m)
  PROVE  /\ Acknowledged(s)' <=> Acknowledged(s) \/ m = "ack"
         /\ Answered(s)' <=> Answered(s) \/ m = "result"
  <1>. DEFINE n == Len(stream[s])
  <1>0. s \in Targets /\ stream[s] \in Seq(Messages)
    BY DEF Shape, Targets
  <1>1. /\ n \in Nat /\ DOMAIN stream[s] = 1..n /\ DOMAIN stream'[s] = 1..(n + 1)
        /\ \A i \in 1..n : stream'[s][i] = stream[s][i]
        /\ stream'[s][n + 1] = m
    BY <1>0, AppendFacts DEF Sends
  <1>. HIDE DEF n
  <1>2. ASSUME NEW v
        PROVE  (\E i \in DOMAIN stream'[s] : stream'[s][i] = v)
               <=> (\E i \in DOMAIN stream[s] : stream[s][i] = v) \/ m = v
    <2>1. \A i \in 1..(n + 1) : i \in 1..n \/ i = n + 1
      BY <1>1
    <2>2. \A i \in 1..n : i \in 1..(n + 1)
      BY <1>1
    <2>3. n + 1 \in 1..(n + 1)
      BY <1>1
    <2>. QED
      BY <1>1, <2>1, <2>2, <2>3
  <1>3. Acknowledged(s)' <=> Acknowledged(s) \/ m = "ack"
    BY <1>2 DEF Acknowledged
  <1>. QED
    BY <1>2, <1>3 DEF Answered

\* A stream that is acknowledged first and answered once stays so.
LEMMA AckFirstSteps ==
  ASSUME SubsInv, NEW s \in Subs, Speaks(s)
  PROVE  AckFirstOn(s)'
  <1>0. s \in Targets /\ stream[s] \in Seq(Messages) /\ AckFirstOn(s) /\ ListenCourse(s)
    BY DEF SubsInv, Shape, Targets
  <1>1. CASE stream'[s] = stream[s]
    BY <1>0, <1>1 DEF AckFirstOn
  <1>2. ASSUME NEW m \in Messages, Sends(s, m),
               m \in {"list", "updated", "result"} => Acknowledged(s),
               m = "ack" => ~Acknowledged(s),
               m = "result" => ~Answered(s)
        PROVE  AckFirstOn(s)'
    <2>. DEFINE n == Len(stream[s])
    <2>1. /\ n \in Nat /\ DOMAIN stream[s] = 1..n /\ DOMAIN stream'[s] = 1..(n + 1)
          /\ \A i \in 1..n : stream'[s][i] = stream[s][i]
          /\ stream'[s][n + 1] = m
      BY <1>0, <1>2, AppendFacts DEF Sends
    <2>. HIDE DEF n
    <2>2. ASSUME NEW i \in 1..n
          PROVE  /\ stream'[s][i] \in {"list", "updated", "result"} =>
                      \E k \in 1..(i - 1) : stream'[s][k] = "ack"
                 /\ stream'[s][i] \in {"ack", "result"} =>
                      \A j \in 1..(n + 1) : stream'[s][j] = stream'[s][i] => i = j
      <3>1. stream'[s][i] = stream[s][i] /\ \A k \in 1..(i - 1) : stream'[s][k] = stream[s][k]
        BY <2>1
      <3>2. stream[s][i] \in {"ack", "result"} => m # stream[s][i]
        BY <1>2, <2>1 DEF Acknowledged, Answered
      <3>3. ASSUME NEW j \in 1..(n + 1), stream[s][i] \in {"ack", "result"},
                   stream'[s][j] = stream[s][i]
            PROVE  i = j
        <4>1. j # n + 1
          BY <2>1, <3>2, <3>3
        <4>2. j \in 1..n
          BY <2>1, <4>1
        <4>. QED
          BY <1>0, <2>1, <3>3, <4>2 DEF AckFirstOn
      <3>. QED
        BY <1>0, <2>1, <3>1, <3>3 DEF AckFirstOn
    <2>3. m \in {"list", "updated", "result"} => \E k \in 1..n : stream'[s][k] = "ack"
      BY <1>2, <2>1 DEF Acknowledged
    <2>4. ASSUME m \in {"ack", "result"}, NEW j \in 1..(n + 1), stream'[s][j] = m
          PROVE  j = n + 1
      BY <1>2, <2>1, <2>4 DEF Acknowledged, Answered
    <2>. QED
      BY <2>1, <2>2, <2>3, <2>4 DEF AckFirstOn
  <1>3. (\E p \in Publishers : s \in pub[p].todo) \/ s \in closing => Acknowledged(s)
    BY <1>0 DEF ListenCourse, Addressed
  <1>4. (listen[s] = "acking" => ~Acknowledged(s)) /\ (s \in closing => ~Answered(s))
    BY <1>0 DEF ListenCourse
  <1>. QED
    BY <1>1, <1>2, <1>3, <1>4 DEF Speaks, Messages

-----------------------------------------------------------------------------
(* Publishers.                                                              *)

\* A publisher stays one.
LEMMA PubSteps ==
  ASSUME Shape, \A p \in Publishers : PubCourse(p), [Next]_vars
  PROVE  pub' \in [Publishers -> PubRecord] /\ \A p \in Publishers : PubCourse(p)'
  <1>. DEFINE Goal == pub' \in [Publishers -> PubRecord] /\ \A p \in Publishers : PubCourse(p)'
  <1>0. pub \in [Publishers -> PubRecord] /\ registry \subseteq Subs
    BY DEF Shape
  <1>1. ASSUME pub' = pub
        PROVE  Goal
    BY <1>0, <1>1 DEF PubCourse
  <1>2. ASSUME NEW p \in Publishers, NEW r \in PubRecord, pub' = [pub EXCEPT ![p] = r],
               r.at \in {"idle", "sleep", "start"} => r.todo = {},
               r.at = "draft" => r.todo \subseteq Subs,
               r.at = "legacy" => r.todo \subseteq LegacyRoutes,
               r.at = "sleep" => r.kind = "list",
               r.at # "idle" => r.kind # "none"
        PROVE  Goal
    <2>1. pub' \in [Publishers -> PubRecord] /\ pub'[p] = r
      BY <1>0, <1>2
    <2>2. PubCourse(p)'
      BY <1>2, <2>1 DEF PubCourse
    <2>3. ASSUME NEW q \in Publishers \ {p}
          PROVE  PubCourse(q)'
      <3>1. pub'[q] = pub[q]
        BY <1>0, <1>2
      <3>. QED
        BY <3>1 DEF PubCourse
    <2>. QED
      BY <2>1, <2>2, <2>3
  <1>3. ASSUME NEW p \in Publishers
        PROVE  pub[p] \in PubRecord /\ PubCourse(p)
    BY <1>0
  <1>4. ASSUME NEW p \in Publishers, NEW r, pub' = [pub EXCEPT ![p] = r],
               r = [at |-> "sleep", todo |-> {}, kind |-> "list"]
               \/ r = [at |-> "start", todo |-> {}, kind |-> "updated"] \/ r = Idle
        PROVE  Goal
    <2>1. /\ r \in PubRecord /\ r.todo = {} /\ r.at \in {"idle", "sleep", "start"}
          /\ r.at = "sleep" => r.kind = "list"
          /\ r.at # "idle" => r.kind # "none"
      BY <1>4 DEF PubRecord, Idle
    <2>. QED
      BY <1>2, <1>4, <2>1
  <1>5. ASSUME NEW p \in Publishers, Wake(p)
        PROVE  Goal
    <2>. DEFINE r == [pub[p] EXCEPT !.at = "start"]
    <2>1. r \in PubRecord /\ r.at = "start" /\ r.todo = {} /\ r.kind = "list"
      BY <1>3, <1>5 DEF Wake, PubRecord, PubCourse
    <2>2. pub' = [pub EXCEPT ![p] = r]
      BY <1>5 DEF Wake
    <2>. HIDE DEF r
    <2>. QED
      BY <1>2, <2>1, <2>2
  <1>6. ASSUME NEW p \in Publishers, TakeTargets(p) \/ TakeSessions(p)
        PROVE  Goal
    <2>1. ASSUME NEW k \in {"draft", "legacy"}, NEW ts \in SUBSET Targets,
                 k = "draft" => ts \subseteq Subs, k = "legacy" => ts \subseteq LegacyRoutes,
                 pub[p].at # "idle", pub' = [pub EXCEPT ![p].at = k, ![p].todo = ts]
          PROVE  Goal
      <3>. DEFINE r == [pub[p] EXCEPT !.at = k, !.todo = ts]
      <3>1. r \in PubRecord /\ r.at = k /\ r.todo = ts /\ r.kind # "none"
        BY <1>3, <2>1 DEF PubRecord, PubCourse
      <3>2. pub' = [pub EXCEPT ![p] = r]
        BY <1>0, <2>1
      <3>. HIDE DEF r
      <3>. QED
        BY <1>2, <2>1, <3>1, <3>2
    <2>2. /\ Wanting(registry, p) \subseteq Subs /\ Wanting(registry, p) \subseteq Targets
          /\ Wanting(LegacyRoutes, p) \subseteq LegacyRoutes
          /\ Wanting(LegacyRoutes, p) \subseteq Targets
      BY <1>0 DEF Wanting, Targets
    <2>. QED
      BY <1>6, <2>1, <2>2 DEF TakeTargets, TakeSessions
  <1>8. ASSUME NEW p \in Publishers, NEW x, Deliver(p, x) \/ DeliverLegacy(p, x)
        PROVE  Goal
    <2>. DEFINE r == [pub[p] EXCEPT !.todo = @ \ {x}]
    <2>1. /\ r \in PubRecord /\ r.at = pub[p].at /\ r.todo = pub[p].todo \ {x}
          /\ r.kind = pub[p].kind
      BY <1>3 DEF PubRecord
    <2>2. pub' = [pub EXCEPT ![p] = r] /\ pub[p].at \in {"draft", "legacy"}
      BY <1>8 DEF Deliver, DeliverLegacy
    <2>. HIDE DEF r
    <2>. QED
      BY <1>2, <1>3, <2>1, <2>2 DEF PubCourse
  <1>9. ASSUME NEW p \in Publishers, Published(p)
        PROVE  Goal
    BY <1>4, <1>9 DEF Published
  <1>10. ASSUME NEW p \in Publishers, Schedule(p) \/ ResourceUpdated(p)
         PROVE  Goal
    BY <1>1, <1>4, <1>10 DEF Schedule, ResourceUpdated, Spawn
  <1>. QED
    BY <1>1, <1>5, <1>6, <1>8, <1>9, <1>10 DEF Next, vars, pubVars, HandlerStep, PublishStep,
       ClientListens, ClientCancels, StartListen, SendAck, InsertSub, FinishListen, FireToken,
       RemoveCancelled, PushTaskStatus, AnswerListen, CloseAll, Leave

\* Whom a step makes a target was subscribed.
LEMMA AddressSteps ==
  ASSUME Shape, \A p \in Publishers : PubCourse(p), [Next]_vars, NEW s \in Subs, Addressed(s)'
  PROVE  Addressed(s) \/ s \in registry
  <1>0. pub \in [Publishers -> PubRecord]
    BY DEF Shape
  <1>1. ASSUME s \in closing'
        PROVE  s \in closing \/ s \in registry
    BY <1>1 DEF Next, vars, reqVars, pubVars, HandlerStep, PublishStep, Schedule, ResourceUpdated,
       Wake, TakeTargets, TakeSessions, Published, Deliver, DeliverLegacy,
       ClientListens, ClientCancels, StartListen, SendAck, InsertSub, FinishListen, FireToken,
       RemoveCancelled, PushTaskStatus, AnswerListen, CloseAll, Leave
  <1>2. ASSUME NEW p \in Publishers, s \in pub'[p].todo
        PROVE  s \in pub[p].todo \/ s \in registry
    <2>0. s \notin LegacyRoutes
      BY SubscriptionsAssumption DEF SubscriptionsAssumption
    <2>1. CASE pub' = pub
      BY <1>2, <2>1
    <2>2. ASSUME NEW q \in Publishers,
                 \/ Schedule(q) \/ ResourceUpdated(q) \/ Wake(q) \/ Published(q)
                 \/ \E x \in Targets : Deliver(q, x) \/ DeliverLegacy(q, x)
          PROVE  pub'[p].todo \subseteq pub[p].todo
      <3>1. CASE p = q
        <4>1. CASE pub' = pub
          BY <4>1
        <4>2. CASE Schedule(q) \/ ResourceUpdated(q) \/ Published(q)
          BY <1>0, <3>1, <4>1, <4>2 DEF Schedule, ResourceUpdated, Published, Spawn, Idle
        <4>3. CASE Wake(q)
          BY <1>0, <3>1, <4>3 DEF Wake, PubRecord
        <4>4. CASE \E x \in Targets : Deliver(q, x) \/ DeliverLegacy(q, x)
          BY <1>0, <3>1, <4>4 DEF Deliver, DeliverLegacy, PubRecord
        <4>. QED
          BY <2>2, <4>2, <4>3, <4>4
      <3>2. CASE p # q
        BY <1>0, <2>2, <3>2 DEF Schedule, ResourceUpdated, Published, Spawn, Wake, Deliver,
           DeliverLegacy
      <3>. QED
        BY <3>1, <3>2
    <2>3. ASSUME NEW q \in Publishers, TakeTargets(q) \/ TakeSessions(q)
          PROVE  s \in pub[p].todo \/ s \in registry
      <3>1. CASE p = q
        BY <1>0, <1>2, <2>0, <2>3, <3>1 DEF TakeTargets, TakeSessions, Wanting, PubRecord
      <3>2. CASE p # q
        BY <1>0, <1>2, <2>3, <3>2 DEF TakeTargets, TakeSessions
      <3>. QED
        BY <3>1, <3>2
    <2>4. \/ pub' = pub
          \/ \E q \in Publishers :
               \/ Schedule(q) \/ ResourceUpdated(q) \/ Wake(q) \/ Published(q)
               \/ \E x \in Targets : Deliver(q, x) \/ DeliverLegacy(q, x)
               \/ TakeTargets(q) \/ TakeSessions(q)
      BY DEF Next, vars, pubVars, HandlerStep, PublishStep, Targets, ClientListens, ClientCancels,
         StartListen, SendAck, InsertSub, FinishListen, FireToken, RemoveCancelled,
         PushTaskStatus, AnswerListen, CloseAll, Leave
    <2>. QED
      BY <1>2, <2>1, <2>2, <2>3, <2>4
  <1>. QED
    BY <1>1, <1>2 DEF Addressed

\* The flag and the sleeper keep together.
LEMMA SleeperSteps ==
  ASSUME SubsInv, [Next]_vars
  PROVE  OneSleeper' /\ pending' \in BOOLEAN
  <1>0. pub \in [Publishers -> PubRecord] /\ OneSleeper /\ pending \in BOOLEAN
    BY DEF Shape, SubsInv
  <1>1. ASSUME pending' = pending, \A p \in Publishers : pub'[p].at = "sleep" <=> pub[p].at = "sleep"
        PROVE  OneSleeper' /\ pending' \in BOOLEAN
    <2>1. Sleeping' = Sleeping
      BY <1>1 DEF Sleeping
    <2>. QED
      BY <1>0, <1>1, <2>1 DEF OneSleeper
  <1>2. ASSUME NEW p \in Publishers, Schedule(p)
        PROVE  OneSleeper' /\ pending' \in BOOLEAN
    <2>1. CASE pending
      BY <1>1, <1>2, <2>1 DEF Schedule, Spawn
    <2>2. CASE ~pending /\ Spawn(p, "sleep", "list") /\ pending'
      <3>1. \A q \in Publishers : pub'[q].at = "sleep" <=> q = p \/ pub[q].at = "sleep"
        BY <1>0, <2>2 DEF Spawn
      <3>2. Sleeping' = {p}
        BY <1>0, <2>2, <3>1 DEF Sleeping, OneSleeper
      <3>. QED
        BY <1>2, <2>2, <3>2 DEF OneSleeper, Schedule
    <2>. QED
      BY <1>2, <2>1, <2>2 DEF Schedule
  <1>3. ASSUME NEW p \in Publishers, Wake(p)
        PROVE  OneSleeper' /\ pending' \in BOOLEAN
    <2>1. p \in Sleeping
      BY <1>3 DEF Wake, Sleeping
    <2>2. Sleeping = {p}
      BY <1>0, <2>1 DEF OneSleeper
    <2>3. \A q \in Publishers : pub'[q].at = "sleep" <=> q # p /\ pub[q].at = "sleep"
      BY <1>0, <1>3 DEF Wake, PubRecord
    <2>4. Sleeping' = {}
      BY <2>2, <2>3 DEF Sleeping
    <2>. QED
      BY <1>3, <2>4 DEF OneSleeper, Wake
  <1>4. ASSUME NEW p \in Publishers, NEW x, 
               \/ ResourceUpdated(p) \/ TakeTargets(p) \/ TakeSessions(p) \/ Published(p)
               \/ Deliver(p, x) \/ DeliverLegacy(p, x)
        PROVE  OneSleeper' /\ pending' \in BOOLEAN
    <2>1. pending' = pending
      BY <1>4 DEF ResourceUpdated, TakeTargets, TakeSessions, Published, Deliver, DeliverLegacy
    <2>2. ASSUME NEW q \in Publishers \ {p}
          PROVE  pub'[q] = pub[q]
      BY <1>0, <1>4 DEF ResourceUpdated, TakeTargets, TakeSessions, Published, Deliver,
         DeliverLegacy, Spawn
    <2>3. pub[p].at # "sleep" /\ pub'[p].at # "sleep"
      BY <1>0, <1>4 DEF ResourceUpdated, TakeTargets, TakeSessions, Published, Deliver,
         DeliverLegacy, Spawn, Idle, PubRecord
    <2>. QED
      BY <1>1, <2>1, <2>2, <2>3
  <1>5. CASE UNCHANGED <<pub, pending>>
    BY <1>1, <1>5
  <1>. QED
    BY <1>2, <1>3, <1>4, <1>5 DEF Next, vars, pubVars, HandlerStep, PublishStep,
       ClientListens, ClientCancels, StartListen, SendAck, InsertSub, FinishListen, FireToken,
       RemoveCancelled, PushTaskStatus, AnswerListen, CloseAll, Leave

-----------------------------------------------------------------------------
(* Subscriptions.                                                           *)

\* Neither the tables, nor the requests, nor what was said on the stream of u change.
SaysNothing(u) == /\ Acknowledged(u)' <=> Acknowledged(u)
                  /\ Answered(u)' <=> Answered(u)
HandlersRest(u) ==
    /\ listen'[u] = listen[u] /\ cancel'[u] = cancel[u]
    /\ u \in fired' <=> u \in fired
    /\ u \in missed' <=> u \in missed
TablesRest(u) == /\ u \in registry' <=> u \in registry
                 /\ u \in closing' <=> u \in closing
CancelRests(u) == /\ cancel'[u] = cancel[u]
                  /\ u \in fired' <=> u \in fired
                  /\ u \in missed' <=> u \in missed

\* What a step may do to the subscription u.
Moves(u) ==
    \* publishing and closing
    \/ /\ HandlersRest(u) /\ (Acknowledged(u)' <=> Acknowledged(u))
       /\ u \in registry' => u \in registry
       /\ u \in closing' => u \in closing \/ (u \in registry /\ u \notin registry')
       /\ Answered(u)' => Answered(u) \/ (u \in closing /\ u \notin closing')
    \* the handler of the listen request
    \/ /\ CancelRests(u) /\ TablesRest(u) /\ SaysNothing(u)
       /\ <<listen[u], listen'[u]>> \in {<<"unsent", "read">>, <<"read", "acking">>,
                                         <<"read", "done">>, <<"acking", "done">>}
    \/ /\ CancelRests(u) /\ TablesRest(u)
       /\ listen[u] = "acking" /\ listen'[u] = "acked"
       /\ Acknowledged(u)' /\ (Answered(u)' <=> Answered(u))
    \/ /\ CancelRests(u) /\ SaysNothing(u) /\ (u \in closing' <=> u \in closing)
       /\ listen[u] = "acked" /\ listen'[u] = "inserted" /\ u \in registry'
    \/ /\ CancelRests(u) /\ SaysNothing(u) /\ (u \in closing' <=> u \in closing)
       /\ listen[u] = "inserted" /\ listen'[u] = "done"
       /\ u \in registry' <=> u \in registry /\ u \notin fired
    \* the handler of its cancellation
    \/ /\ SaysNothing(u) /\ TablesRest(u) /\ listen'[u] = listen[u]
       /\ cancel'[u] \in {"read", "removing"}
    \/ /\ SaysNothing(u) /\ (u \in closing' <=> u \in closing) /\ listen'[u] = listen[u]
       /\ u \notin registry' /\ (u \in fired' <=> u \in fired)
       /\ u \notin missed' => u \in fired \/ u \in registry

\* Every step takes each subscription along one of the listed moves.
LEMMA MoveSteps ==
  ASSUME SubsInv, [Next]_vars, NEW u \in Subs
  PROVE  Moves(u)
  <1>0. /\ Shape /\ u \in Targets /\ LegacyRoutes \subseteq Targets /\ Subs \subseteq Targets
    BY DEF SubsInv, Targets
  <1>1. ASSUME stream'[u] = stream[u]
        PROVE  SaysNothing(u)
    BY <1>1 DEF SaysNothing, Acknowledged, Answered
  <1>2. ASSUME NEW m \in Messages, Sends(u, m)
        PROVE  /\ m \notin {"ack", "result"} => SaysNothing(u)
               /\ m = "ack" => Acknowledged(u)' /\ (Answered(u)' <=> Answered(u))
               /\ m = "result" => (Acknowledged(u)' <=> Acknowledged(u))
    BY <1>0, <1>2, SpokenSteps DEF SaysNothing
  <1>3. ASSUME NEW m \in Messages, NEW x \in Targets, Put(x, m)
        PROVE  (x = u => Sends(u, m)) /\ (x # u => stream'[u] = stream[u])
    BY <1>0, <1>3, PutFacts
  <1>4. ASSUME NEW p \in Publishers
        PROVE  pub[p].at # "idle" => pub[p].kind \in {"list", "updated"}
    BY <1>0 DEF SubsInv, PubCourse, Shape, PubRecord
  <1>5. listen \in [Subs -> {"unsent", "read", "acking", "acked", "inserted", "done"}]
        /\ cancel \in [Subs -> {"no", "read", "removing", "handled"}]
    BY <1>0 DEF Shape
  <1>6. CASE UNCHANGED <<reqVars, registry, closing, stream>>
    BY <1>1, <1>6 DEF Moves, HandlersRest, SaysNothing, reqVars
  <1>7. ASSUME NEW s \in Subs, ClientListens(s) \/ StartListen(s)
        PROVE  Moves(u)
    <2>1. stream' = stream /\ SaysNothing(u) /\ TablesRest(u) /\ CancelRests(u)
      BY <1>1, <1>7 DEF ClientListens, StartListen, TablesRest, CancelRests
    <2>2. CASE listen'[u] = listen[u]
      BY <2>1, <2>2 DEF Moves, SaysNothing, TablesRest, CancelRests, HandlersRest
    <2>3. CASE listen'[u] # listen[u]
      BY <1>5, <1>7, <2>1, <2>3 DEF ClientListens, StartListen, Moves
    <2>. QED
      BY <2>2, <2>3
  <1>8. ASSUME NEW s \in Subs, SendAck(s)
        PROVE  Moves(u)
    <2>1. TablesRest(u) /\ CancelRests(u)
      BY <1>8 DEF SendAck, TablesRest, CancelRests
    <2>2. CASE Put(s, "ack") /\ listen' = [listen EXCEPT ![s] = "acked"]
      <3>1. CASE s = u
        BY <1>0, <1>2, <1>3, <1>5, <1>8, <2>1, <2>2, <3>1 DEF SendAck, Moves, Messages
      <3>2. CASE s # u
        <4>1. SaysNothing(u) /\ listen'[u] = listen[u]
          BY <1>0, <1>1, <1>3, <1>5, <2>2, <3>2 DEF Messages
        <4>. QED
          BY <2>1, <4>1 DEF Moves, SaysNothing, TablesRest, CancelRests, HandlersRest
      <3>. QED
        BY <3>1, <3>2
    <2>3. CASE stream' = stream /\ listen' = [listen EXCEPT ![s] = "done"]
      <3>1. SaysNothing(u)
        BY <1>1, <2>3
      <3>2. CASE s = u
        BY <1>5, <1>8, <2>1, <2>3, <3>1, <3>2 DEF SendAck, Moves
      <3>3. CASE s # u
        BY <1>5, <2>1, <2>3, <3>1, <3>3 DEF Moves, SaysNothing, TablesRest, CancelRests,
           HandlersRest
      <3>. QED
        BY <3>2, <3>3
    <2>. QED
      BY <1>8, <2>2, <2>3 DEF SendAck
  <1>9. ASSUME NEW s \in Subs, InsertSub(s) \/ FinishListen(s)
        PROVE  Moves(u)
    <2>1. SaysNothing(u) /\ CancelRests(u) /\ (u \in closing' <=> u \in closing)
      BY <1>1, <1>9 DEF InsertSub, FinishListen, CancelRests
    <2>2. CASE s = u
      BY <1>5, <1>9, <2>1, <2>2 DEF InsertSub, FinishListen, Moves
    <2>3. CASE s # u
      <3>1. TablesRest(u) /\ listen'[u] = listen[u]
        BY <1>5, <1>9, <2>3 DEF InsertSub, FinishListen, TablesRest
      <3>. QED
        BY <2>1, <3>1 DEF Moves, SaysNothing, TablesRest, CancelRests, HandlersRest
    <2>. QED
      BY <2>2, <2>3
  <1>10. ASSUME NEW s \in Subs, ClientCancels(s) \/ FireToken(s)
         PROVE  Moves(u)
    <2>1. SaysNothing(u) /\ TablesRest(u) /\ listen'[u] = listen[u]
      BY <1>1, <1>10 DEF ClientCancels, FireToken, TablesRest
    <2>2. CASE s = u
      BY <1>5, <1>10, <2>1, <2>2 DEF ClientCancels, FireToken, Moves
    <2>3. CASE s # u
      <3>1. CancelRests(u)
        BY <1>5, <1>10, <2>3 DEF ClientCancels, FireToken, CancelRests
      <3>. QED
        BY <2>1, <3>1 DEF Moves, SaysNothing, TablesRest, CancelRests, HandlersRest
    <2>. QED
      BY <2>2, <2>3
  <1>11. ASSUME NEW s \in Subs, RemoveCancelled(s)
         PROVE  Moves(u)
    <2>1. SaysNothing(u) /\ listen'[u] = listen[u] /\ (u \in closing' <=> u \in closing)
          /\ (u \in fired' <=> u \in fired)
      BY <1>1, <1>11 DEF RemoveCancelled
    <2>2. CASE s = u
      BY <1>11, <2>1, <2>2 DEF RemoveCancelled, Moves
    <2>3. CASE s # u
      <3>1. CancelRests(u) /\ TablesRest(u)
        BY <1>5, <1>11, <2>3 DEF RemoveCancelled, CancelRests, TablesRest
      <3>. QED
        BY <2>1, <3>1 DEF Moves, SaysNothing, TablesRest, CancelRests, HandlersRest
    <2>. QED
      BY <2>2, <2>3
  <1>12. ASSUME HandlersRest(u), SaysNothing(u), u \in registry' => u \in registry,
                u \in closing' => u \in closing \/ (u \in registry /\ u \notin registry')
         PROVE  Moves(u)
    BY <1>12 DEF Moves, SaysNothing
  <1>13. ASSUME NEW s \in Subs, PushTaskStatus(s)
         PROVE  Moves(u)
    <2>1. HandlersRest(u) /\ TablesRest(u)
      BY <1>13 DEF PushTaskStatus, HandlersRest, TablesRest, reqVars
    <2>2. SaysNothing(u)
      BY <1>0, <1>1, <1>2, <1>3, <1>13 DEF PushTaskStatus, Messages
    <2>. QED
      BY <1>12, <2>1, <2>2 DEF TablesRest
  <1>14. ASSUME NEW s \in Subs, AnswerListen(s)
         PROVE  Moves(u)
    <2>1. HandlersRest(u) /\ registry' = registry /\ closing' = closing \ {s} /\ s \in closing
      BY <1>14 DEF AnswerListen, HandlersRest, reqVars
    <2>2. CASE SaysNothing(u)
      BY <1>12, <2>1, <2>2
    <2>3. CASE s = u /\ Sends(u, "result")
      <3>1. Acknowledged(u)' <=> Acknowledged(u)
        BY <1>2, <2>3 DEF Messages
      <3>. QED
        BY <2>1, <2>3, <3>1 DEF Moves
    <2>. QED
      BY <1>0, <1>1, <1>3, <1>14, <2>2, <2>3 DEF AnswerListen, Messages
  <1>15. ASSUME NEW p \in Publishers, NEW x \in Targets, Deliver(p, x) \/ DeliverLegacy(p, x)
         PROVE  Moves(u)
    <2>1. /\ HandlersRest(u) /\ closing' = closing /\ (u \in registry' => u \in registry)
          /\ pub[p].at # "idle"
      BY <1>15 DEF Deliver, DeliverLegacy, HandlersRest, reqVars
    <2>2. stream' = stream \/ Put(x, pub[p].kind)
      BY <1>15 DEF Deliver, DeliverLegacy
    <2>3. pub[p].kind \in Messages /\ pub[p].kind \notin {"ack", "result"}
      BY <1>4, <2>1 DEF Messages
    <2>4. SaysNothing(u)
      BY <1>1, <1>2, <1>3, <2>2, <2>3
    <2>. QED
      BY <1>12, <2>1, <2>4
  <1>16. CASE CloseAll
    BY <1>1, <1>12, <1>16 DEF CloseAll, HandlersRest, reqVars
  <1>. QED
    BY <1>0, <1>6, <1>7, <1>8, <1>9, <1>10, <1>11, <1>13, <1>14, <1>15, <1>16
       DEF Next, vars, HandlerStep, PublishStep, Schedule, ResourceUpdated, Wake, TakeTargets,
       TakeSessions, Published, Leave

\* Whatever the step, the courses of a subscription are kept.
LEMMA CourseSteps ==
  ASSUME SubsInv, [Next]_vars, NEW u \in Subs
  PROVE  ListenCourse(u)' /\ CancelCourse(u)'
  <1>0. /\ ListenCourse(u) /\ CancelCourse(u) /\ Moves(u) /\ Shape
        /\ Addressed(u)' => Addressed(u) \/ u \in registry
        /\ listen[u] \in {"unsent", "read", "acking", "acked", "inserted", "done"}
    BY MoveSteps, AddressSteps DEF SubsInv, Shape
  <1>1. (u \in closing => Addressed(u)) /\ (u \in closing' => Addressed(u)')
    BY DEF Addressed
  <1>2. ListenCourse(u)'
    BY <1>0, <1>1 DEF ListenCourse, Moves, HandlersRest, SaysNothing, TablesRest
  <1>3. CancelCourse(u)'
    BY <1>0, <1>1 DEF CancelCourse, ListenCourse, Moves, HandlersRest, TablesRest, CancelRests
  <1>. QED
    BY <1>2, <1>3

-----------------------------------------------------------------------------
(* What is promised.                                                        *)

\* A change reaches whoever is subscribed: it is told, or some publisher still
\* has to tell it.
LEMMA PromiseSteps ==
  ASSUME SubsInv, [Next]_vars, NEW x \in Targets
  PROVE  ToldOrPromised(x)'
  <1>0. /\ Shape /\ ToldOrPromised(x) /\ \A p \in Publishers : PubCourse(p)
        /\ pub \in [Publishers -> PubRecord] /\ told \in [Targets -> 0..MaxChanges]
        /\ conn \in [Conns -> {"open", "leaving", "gone"}] /\ OneSleeper
        /\ ConnOf[x] \in Conns /\ Subs \subseteq Targets /\ LegacyRoutes \subseteq Targets
        /\ registry \subseteq Subs /\ Subs \cap LegacyRoutes = {}
    BY SubscriptionsAssumption DEF SubsInv, Shape, SubscriptionsAssumption, Targets
  <1>. DEFINE Due == x \in registry \cup LegacyRoutes /\ "list" \in Wants[x] /\ State(x) = "open"
              Owed == told[x] = changes \/ \E p \in Publishers : Promises(p, x)
  <1>1. (Due => Owed) /\ (ToldOrPromised(x)' <=> (Due' => Owed'))
    BY <1>0 DEF ToldOrPromised
  <1>2. State(x)' = "open" => State(x) = "open"
    BY <1>0 DEF State, Next, vars, pubVars, HandlerStep, PublishStep, ClientListens, ClientCancels,
       StartListen, SendAck, InsertSub, FinishListen, FireToken, RemoveCancelled, PushTaskStatus,
       AnswerListen, Schedule, ResourceUpdated, Wake, TakeTargets, Deliver, TakeSessions,
       DeliverLegacy, Published, CloseAll, Leave
  <1>3. ASSUME UNCHANGED <<told, changes, pub>>, registry' \subseteq registry
        PROVE  Due' => Owed'
    BY <1>1, <1>2, <1>3 DEF Promises
  <1>4. ASSUME NEW s \in Subs, InsertSub(s)
        PROVE  Due' => Owed'
    <2>1. CASE s = x
      BY <1>0, <1>4, <2>1 DEF InsertSub, pubVars
    <2>2. CASE s # x
      <3>1. told'[x] = told[x] /\ UNCHANGED <<changes, pub>> /\ (x \in registry' => x \in registry)
        BY <1>0, <1>4, <2>2 DEF InsertSub, pubVars
      <3>. QED
        BY <1>1, <1>2, <3>1 DEF Promises
    <2>. QED
      BY <2>1, <2>2
  <1>5. ASSUME NEW p \in Publishers, Schedule(p)
        PROVE  Due' => Owed'
    <2>1. CASE pending /\ UNCHANGED pub
      <3>1. PICK q \in Publishers : Sleeping = {q}
        BY <1>0, <2>1 DEF OneSleeper
      <3>2. pub[q].at = "sleep" /\ pub[q].kind = "list"
        BY <1>0, <3>1 DEF Sleeping, PubCourse
      <3>. QED
        BY <2>1, <3>2 DEF Promises
    <2>2. CASE Spawn(p, "sleep", "list")
      BY <1>0, <2>2 DEF Spawn, Promises
    <2>. QED
      BY <1>5, <2>1, <2>2 DEF Schedule
  <1>6. ASSUME NEW p \in Publishers, \A q \in Publishers \ {p} : pub'[q] = pub[q],
               told'[x] = told[x], changes' = changes, x \in registry' => x \in registry,
               Due /\ Promises(p, x) => told'[x] = changes' \/ Promises(p, x)'
        PROVE  Due' => Owed'
    <2>1. ASSUME NEW q \in Publishers, q # p, Promises(q, x)
          PROVE  Promises(q, x)'
      BY <1>6, <2>1 DEF Promises
    <2>2. Due' => Due
      BY <1>2, <1>6
    <2>. HIDE DEF Due
    <2>. QED
      BY <1>1, <1>6, <2>1, <2>2
  <1>7. ASSUME NEW p \in Publishers, NEW k, NEW ts, pub' = [pub EXCEPT ![p].at = k, ![p].todo = ts]
        PROVE  /\ pub'[p].at = k /\ pub'[p].todo = ts /\ pub'[p].kind = pub[p].kind
               /\ \A q \in Publishers \ {p} : pub'[q] = pub[q]
    BY <1>0, <1>7 DEF PubRecord
  <1>8. ASSUME NEW p \in Publishers, ResourceUpdated(p)
        PROVE  Due' => Owed'
    <2>1. /\ \A q \in Publishers \ {p} : pub'[q] = pub[q]
          /\ told' = told /\ changes' = changes /\ registry' = registry /\ ~Promises(p, x)
      BY <1>0, <1>8 DEF ResourceUpdated, Spawn, Promises, Idle
    <2>. QED
      BY <1>6, <2>1
  <1>9. ASSUME NEW p \in Publishers, Wake(p)
        PROVE  Due' => Owed'
    <2>1. /\ \A q \in Publishers \ {p} : pub'[q] = pub[q]
          /\ pub'[p].at = "start" /\ pub'[p].kind = pub[p].kind
          /\ told' = told /\ changes' = changes /\ registry' = registry
      BY <1>0, <1>9 DEF Wake, PubRecord
    <2>2. Promises(p, x) => Promises(p, x)'
      BY <2>1 DEF Promises
    <2>. QED
      BY <1>6, <2>1, <2>2
  <1>10. ASSUME NEW p \in Publishers, TakeTargets(p)
         PROVE  Due' => Owed'
    <2>1. /\ \A q \in Publishers \ {p} : pub'[q] = pub[q]
          /\ pub'[p].at = "draft" /\ pub'[p].todo = Wanting(registry, p)
          /\ pub'[p].kind = pub[p].kind
          /\ told' = told /\ changes' = changes /\ registry' = registry
      BY <1>7, <1>10 DEF TakeTargets
    <2>2. Due /\ Promises(p, x) => Promises(p, x)'
      BY <2>1 DEF Promises, Wanting
    <2>. QED
      BY <1>6, <2>1, <2>2
  <1>11. ASSUME NEW p \in Publishers, TakeSessions(p)
         PROVE  Due' => Owed'
    <2>1. /\ \A q \in Publishers \ {p} : pub'[q] = pub[q]
          /\ pub'[p].at = "legacy" /\ pub'[p].todo = Wanting(LegacyRoutes, p)
          /\ pub'[p].kind = pub[p].kind /\ pub[p].at = "draft" /\ pub[p].todo = {}
          /\ told' = told /\ changes' = changes /\ registry' = registry
      BY <1>7, <1>11 DEF TakeSessions
    <2>2. Due /\ Promises(p, x) => Promises(p, x)'
      BY <2>1 DEF Promises, Wanting
    <2>. QED
      BY <1>6, <2>1, <2>2
  <1>12. ASSUME NEW p \in Publishers, NEW s \in Targets, Deliver(p, s) \/ DeliverLegacy(p, s)
         PROVE  Due' => Owed'
    <2>1. /\ \A q \in Publishers \ {p} : pub'[q] = pub[q]
          /\ pub'[p].at = pub[p].at /\ pub'[p].todo = pub[p].todo \ {s}
          /\ pub'[p].kind = pub[p].kind
          /\ changes' = changes /\ (x \in registry' => x \in registry)
      BY <1>0, <1>12 DEF Deliver, DeliverLegacy, PubRecord
    <2>2. CASE s # x
      <3>1. told'[x] = told[x]
        BY <1>0, <1>12, <2>2 DEF Deliver, DeliverLegacy, Knows
      <3>2. Promises(p, x) => Promises(p, x)'
        BY <2>1, <2>2 DEF Promises
      <3>. QED
        BY <1>6, <2>1, <3>1, <3>2
    <2>3. CASE s = x /\ Reaches(x) /\ Knows(x, pub[p].kind)
      <3>1. CASE pub[p].kind = "list"
        BY <1>0, <2>1, <2>3, <3>1 DEF Knows
      <3>2. CASE pub[p].kind # "list"
        BY <1>6, <2>1, <2>3, <3>2 DEF Knows, Promises
      <3>. QED
        BY <3>1, <3>2
    <2>4. CASE s = x /\ Misses(x)
      BY <1>2, <2>4 DEF Misses
    <2>. QED
      BY <1>12, <2>2, <2>3, <2>4 DEF Deliver, DeliverLegacy
  <1>13. ASSUME NEW p \in Publishers, Published(p)
         PROVE  Due' => Owed'
    <2>1. /\ \A q \in Publishers \ {p} : pub'[q] = pub[q]
          /\ told' = told /\ changes' = changes /\ registry' = registry /\ ~Promises(p, x)
      BY <1>0, <1>13 DEF Published, Promises
    <2>. QED
      BY <1>6, <2>1
  <1>. HIDE DEF Due, Owed
  <1>14. \/ UNCHANGED <<told, changes, pub>> /\ registry' \subseteq registry
         \/ \E s \in Subs : InsertSub(s)
         \/ \E p \in Publishers :
              \/ Schedule(p) \/ ResourceUpdated(p) \/ Wake(p) \/ TakeTargets(p) \/ TakeSessions(p)
              \/ Published(p) \/ \E s \in Targets : Deliver(p, s) \/ DeliverLegacy(p, s)
    BY <1>0 DEF Next, vars, pubVars, HandlerStep, PublishStep, ClientListens, ClientCancels,
       StartListen, SendAck, FinishListen, FireToken, RemoveCancelled, PushTaskStatus,
       AnswerListen, CloseAll, Leave
  <1>. QED
    BY <1>1, <1>3, <1>4, <1>5, <1>8, <1>9, <1>10, <1>11, <1>12, <1>13, <1>14

-----------------------------------------------------------------------------
(* The invariant and the theorems.                                          *)

\* The rest of the state keeps its shape.
LEMMA ShapeSteps ==
  ASSUME SubsInv, [Next]_vars
  PROVE  Shape'
  <1>0. Shape /\ Subs \subseteq Targets /\ LegacyRoutes \subseteq Targets /\ MaxChanges \in Nat
        /\ MaxOthers \in Nat /\ ConnOf \in [Targets -> Conns] /\ TaskSubs \subseteq Subs
    BY SubscriptionsAssumption DEF SubsInv, Targets, SubscriptionsAssumption
  <1>1. /\ stream' \in [Targets -> Seq(Messages)] /\ pub' \in [Publishers -> PubRecord]
        /\ pending' \in BOOLEAN
    BY StreamSteps, PubSteps, SleeperSteps DEF SubsInv
  <1>. DEFINE Handling == /\ listen' \in [Subs -> {"unsent", "read", "acking", "acked", "inserted", "done"}]
                          /\ cancel' \in [Subs -> {"no", "read", "removing", "handled"}]
                          /\ inflight' \subseteq Subs /\ fired' \subseteq Subs /\ missed' \subseteq Subs
              Tables == /\ registry' \subseteq Subs /\ taskTable' \subseteq TaskSubs
                        /\ closing' \subseteq Subs
                        /\ conn' \in [Conns -> {"open", "leaving", "gone"}]
  <1>2. Handling
    BY <1>0 DEF Shape, Next, vars, reqVars, pubVars, HandlerStep, PublishStep, ClientListens,
       ClientCancels, StartListen, SendAck, InsertSub, FinishListen, FireToken, RemoveCancelled,
       PushTaskStatus, AnswerListen, Schedule, ResourceUpdated, Wake, TakeTargets, Deliver,
       TakeSessions, DeliverLegacy, Published, CloseAll, Leave
  <1>3. Tables
    BY <1>0 DEF Shape, Next, vars, reqVars, pubVars, HandlerStep, PublishStep, ClientListens,
       ClientCancels, StartListen, SendAck, InsertSub, FinishListen, FireToken, RemoveCancelled,
       PushTaskStatus, AnswerListen, Schedule, ResourceUpdated, Wake, TakeTargets, Deliver,
       TakeSessions, DeliverLegacy, Published, CloseAll, Leave
  <1>4. changes' \in 0..MaxChanges
    <2>1. CASE changes' = changes
      BY <1>0, <2>1 DEF Shape
    <2>2. ASSUME NEW p \in Publishers, Schedule(p)
          PROVE  changes' \in 0..MaxChanges
      BY <1>0, <2>2 DEF Shape, Schedule
    <2>. QED
      BY <2>1, <2>2 DEF Next, vars, pubVars, HandlerStep, PublishStep, ClientListens,
         ClientCancels, StartListen, SendAck, InsertSub, FinishListen, FireToken, RemoveCancelled,
         PushTaskStatus, AnswerListen, ResourceUpdated, Wake, TakeTargets, Deliver,
         TakeSessions, DeliverLegacy, Published, CloseAll, Leave
  <1>5. others' \in 0..MaxOthers
    <2>1. CASE others' = others
      BY <1>0, <2>1 DEF Shape
    <2>2. CASE others < MaxOthers /\ others' = others + 1
      BY <1>0, <2>2 DEF Shape
    <2>. QED
      BY <2>1, <2>2 DEF Next, vars, pubVars, HandlerStep, PublishStep, ClientListens,
         ClientCancels, StartListen, SendAck, InsertSub, FinishListen, FireToken, RemoveCancelled,
         PushTaskStatus, AnswerListen, Schedule, ResourceUpdated, Wake, TakeTargets, Deliver,
         TakeSessions, DeliverLegacy, Published, CloseAll, Leave
  <1>6. told' \in [Targets -> 0..MaxChanges]
    <2>1. told' = told \/ \E x \in Targets : told' = [told EXCEPT ![x] = changes]
      BY <1>0 DEF Next, vars, pubVars, HandlerStep, PublishStep, ClientListens,
         ClientCancels, StartListen, SendAck, InsertSub, FinishListen, FireToken, RemoveCancelled,
         PushTaskStatus, AnswerListen, Schedule, ResourceUpdated, Wake, TakeTargets, Deliver,
         TakeSessions, DeliverLegacy, Published, CloseAll, Leave, Knows
    <2>2. told \in [Targets -> 0..MaxChanges] /\ changes \in 0..MaxChanges
      BY <1>0 DEF Shape
    <2>. QED
      BY <2>1, <2>2
  <1>. QED
    BY <1>1, <1>2, <1>3, <1>4, <1>5, <1>6 DEF Shape

\* A server that nobody has subscribed at yet.
LEMMA SubsBegin == Init => SubsInv
  <1>. SUFFICES ASSUME Init PROVE SubsInv
    OBVIOUS
  <1>0. Idle \in PubRecord /\ 0 \in 0..MaxChanges /\ 0 \in 0..MaxOthers
    BY SubscriptionsAssumption DEF Idle, PubRecord, SubscriptionsAssumption
  <1>1. Shape
    <2>1. /\ stream = [x \in Targets |-> <<>>] /\ pub = [p \in Publishers |-> Idle]
          /\ told = [x \in Targets |-> 0]
      BY DEF Init
    <2>2. stream \in [Targets -> Seq(Messages)]
      BY <2>1
    <2>3. pub \in [Publishers -> PubRecord] /\ told \in [Targets -> 0..MaxChanges]
      BY <1>0, <2>1
    <2>. QED
      BY <1>0, <2>2, <2>3 DEF Init, Shape
  <1>2. ASSUME NEW p \in Publishers
        PROVE  PubCourse(p) /\ pub[p].at # "sleep"
    BY DEF Init, PubCourse, Idle
  <1>3. OneSleeper
    BY <1>2 DEF Init, OneSleeper, Sleeping
  <1>4. ASSUME NEW s \in Subs
        PROVE  ListenCourse(s) /\ CancelCourse(s) /\ AckFirstOn(s)
    <2>1. stream[s] = <<>> /\ DOMAIN stream[s] = {}
      BY DEF Init, Targets
    <2>. QED
      BY <2>1 DEF Init, ListenCourse, CancelCourse, AckFirstOn, Acknowledged, Answered, Addressed,
         Idle
  <1>5. ASSUME NEW x \in Targets
        PROVE  ToldOrPromised(x)
    BY DEF Init, ToldOrPromised
  <1>. QED
    BY <1>1, <1>2, <1>3, <1>4, <1>5 DEF SubsInv

\* Every step keeps the invariant.
LEMMA SubsSteps == SubsInv /\ [Next]_vars => SubsInv'
  <1>. SUFFICES ASSUME SubsInv, [Next]_vars PROVE SubsInv'
    OBVIOUS
  <1>1. Shape' /\ OneSleeper' /\ \A p \in Publishers : PubCourse(p)'
    BY ShapeSteps, SleeperSteps, PubSteps DEF SubsInv
  <1>2. ASSUME NEW s \in Subs
        PROVE  ListenCourse(s)' /\ CancelCourse(s)' /\ AckFirstOn(s)'
    <2>1. Speaks(s)
      BY StreamSteps DEF SubsInv, Targets
    <2>. QED
      BY <2>1, CourseSteps, AckFirstSteps
  <1>3. \A x \in Targets : ToldOrPromised(x)'
    BY PromiseSteps
  <1>. QED
    BY <1>1, <1>2, <1>3 DEF SubsInv

\* The invariant holds in every reachable state.
LEMMA SubsInvHolds == Spec => []SubsInv
  BY SubsBegin, SubsSteps, PTL DEF Spec

\* The registry keeps its types; of the publishers one sleeps while a flush is
\* pending, and none otherwise.
LEMMA SubsTyped == SubsInv => TypeOK
  <1>. SUFFICES ASSUME SubsInv PROVE TypeOK
    OBVIOUS
  <1>1. Cardinality(Sleeping) = IF pending THEN 1 ELSE 0
    <2>1. CASE pending
      <3>1. PICK p \in Publishers : Sleeping = {p}
        BY <2>1 DEF SubsInv, OneSleeper
      <3>2. Cardinality({p}) = 1
        BY FS_Singleton
      <3>. QED
        BY <2>1, <3>1, <3>2
    <2>2. CASE ~pending
      <3>1. Sleeping = {} /\ Cardinality({}) = 0
        BY <2>2, FS_EmptySet DEF SubsInv, OneSleeper
      <3>. QED
        BY <2>2, <3>1
    <2>. QED
      BY <2>1, <2>2
  <1>2. \A p \in Publishers : pub[p].todo \subseteq Targets
    BY DEF SubsInv, Shape, PubRecord
  <1>. QED
    BY <1>1, <1>2 DEF SubsInv, Shape, TypeOK

\* schedule_list_changed, publish, listen: a subscription is acknowledged before it
\* is told anything, and told after every change, however changes are coalesced.
THEOREM NoChangeIsLost == Spec => []SubscribersAreTold
  <1>1. SubsInv => SubscribersAreTold
    <2>. SUFFICES ASSUME SubsInv PROVE SubscribersAreTold
      OBVIOUS
    <2>1. AcknowledgedFirst
      BY DEF SubsInv, AckFirstOn, AcknowledgedFirst
    <2>2. ASSUME \A p \in Publishers : pub[p] = Idle,
                 NEW x \in registry \cup LegacyRoutes, "list" \in Wants[x], State(x) = "open"
          PROVE  told[x] = changes
      <3>1. \A p \in Publishers : ~Promises(p, x)
        BY <2>2 DEF Promises, Idle
      <3>2. ToldOrPromised(x)
        BY <2>2 DEF SubsInv, Shape, Targets
      <3>. QED
        BY <2>2, <3>1, <3>2 DEF ToldOrPromised
    <2>3. NoLostChange
      BY <2>2 DEF NoLostChange
    <2>. QED
      BY <2>1, <2>3 DEF SubscribersAreTold
  <1>. QED
    BY <1>1, SubsInvHolds, PTL

\* A step about a subscription that has ended, and that nobody has taken as a
\* target, sends it nothing but a task push, and makes nobody take it.
LEMMA EndedSteps ==
  ASSUME SubsInv, [Next]_vars, NEW s \in Subs, Ended(s), ~Addressed(s)
  PROVE  stream'[s] \in {stream[s], Append(stream[s], "task")} /\ ~Addressed(s)'
  <1>1. ListenCourse(s) /\ CancelCourse(s) /\ Speaks(s)
    BY StreamSteps DEF SubsInv, Targets
  <1>2. s \notin registry /\ listen[s] # "acking"
    BY <1>1 DEF Ended, ListenCourse, CancelCourse
  <1>3. ~Addressed(s)'
    BY <1>2, AddressSteps DEF SubsInv
  <1>4. s \notin closing /\ \A p \in Publishers : s \notin pub[p].todo
    BY DEF Addressed
  <1>. QED
    BY <1>1, <1>2, <1>3, <1>4 DEF Speaks, Sends

\* listen's cancellation: whatever the order in which the handlers of the request
\* and of its cancellation take their steps, what has ended is silent.
THEOREM SilenceAfterTheEnd == Spec => EndedIsSilent
  <1>1. SubsInv /\ [Next]_vars =>
          [\A s \in Subs : Ended(s) /\ ~Addressed(s) =>
             stream'[s] \in {stream[s], Append(stream[s], "task")} /\ ~Addressed(s)']_vars
    BY EndedSteps
  <1>. QED
    BY <1>1, SubsInvHolds, PTL DEF Spec, EndedIsSilent

-----------------------------------------------------------------------------
(* LegacySessions: the session store, the route table and the requests that  *)
(* keep them in step.                                                        *)

RequestRecord ==
    {Free}
    \cup [op : {"initialize"}, at : {"sweep", "touch"}, sid : Sessions, todo : SUBSET Sessions]
    \cup [op : Gated, at : {"touch", "insert"}, sid : Sessions, uri : Uris]
    \cup [op : {"delete"}, at : {"unroute"}, sid : Sessions]

StoreShape ==
    /\ live \subseteq minted /\ minted \subseteq Sessions
    /\ Cardinality(live) <= Capacity
    /\ before \subseteq live \X live /\ InOneOrder
    /\ idle \subseteq live

RouteShape ==
    /\ routes = [s \in Routed |-> routes[s]]
    /\ Routed \subseteq Sessions /\ Cardinality(Routed) <= MaxRoutes
    /\ \A s \in Routed : routes[s] \subseteq Uris

RequestShape ==
    /\ req \in [Requests -> RequestRecord]
    /\ poisoned \in BOOLEAN
    /\ raced \subseteq closed /\ closed \subseteq minted /\ live \cap closed = {}
    /\ acked \subseteq minted \X Uris

\* Whose session a request is about, and whether that has been ended.
SessionOf(q) ==
    req[q] # Free =>
        /\ req[q].sid \in minted
        /\ At(q, "initialize", "sweep") => req[q].sid \notin closed
        /\ req[q].op \in Gated \cup {"initialize"} /\ req[q].sid \in closed =>
             req[q].sid \in raced
        /\ req[q].op = "delete" => req[q].sid \in closed

\* Until it is stored, nobody but its initialize knows a session; and what
\* initialize sweeps is no longer in the store, and will not be again.
Sweeping(q) == At(q, "initialize", "sweep")
NewSession(q) ==
    Sweeping(q) =>
        /\ req[q].sid \notin live
        /\ \A u \in Uris : <<req[q].sid, u>> \notin acked
        /\ req[q].todo \subseteq minted \ live
        /\ \A p \in Requests :
             /\ p # q /\ req[p] # Free => req[p].sid # req[q].sid
             /\ Sweeping(p) => req[q].sid \notin req[p].todo

\* A session that was ended has a route only as long as the DELETE is served, or
\* the sweep that ended it has still to come to it.
Unrouting(q, s) ==
    \/ req[q].op = "delete" /\ req[q].sid = s
    \/ Sweeping(q) /\ s \in req[q].todo
ClosedIsUnrouted ==
    ~poisoned =>
        \A s \in (closed \ raced) \cap Routed : \E q \in Requests : Unrouting(q, s)

SessionsInv ==
    /\ StoreShape /\ RouteShape /\ RequestShape
    /\ \A q \in Requests : SessionOf(q) /\ NewSession(q)
    /\ LiveKeepsSubscriptions /\ ClosedIsUnrouted

-----------------------------------------------------------------------------
\* Taking sessions out of the store keeps it in order.
LEMMA DropKeepsOrder ==
  ASSUME StoreShape, NEW gone, Drop(gone), minted \subseteq minted', minted' \subseteq Sessions
  PROVE  StoreShape' /\ live' = live \ gone
  <1>1. IsFiniteSet(live)
    BY SessionsAssumption, FS_Subset DEF SessionsAssumption, StoreShape
  <1>2. Cardinality(live') <= Capacity
    <2>1. Cardinality(live') \in Nat /\ Cardinality(live) \in Nat /\ Cardinality(live') <= Cardinality(live)
      BY <1>1, FS_Subset, FS_CardinalityType DEF Drop
    <2>. QED
      BY <2>1, SessionsAssumption DEF SessionsAssumption, StoreShape
  <1>. QED
    BY <1>2 DEF StoreShape, Drop, Among, InOneOrder

\* So does refreshing one.
LEMMA RefreshKeepsOrder ==
  ASSUME StoreShape, NEW s \in live, Refresh(s), UNCHANGED minted
  PROVE  StoreShape' /\ live' = live
  BY DEF StoreShape, Refresh, Among, InOneOrder

\* A new session takes a free place, or that of a session that leaves.
LEMMA InsertKeepsOrder ==
  ASSUME StoreShape, NEW s \in minted \ live, Insert(s), UNCHANGED minted
  PROVE  StoreShape' /\ s \in live' /\ live' \subseteq live \cup {s}
  <1>1. PICK kept \in SUBSET live :
          /\ \/ kept = live /\ Cardinality(live) < Capacity
             \/ \E oldest \in live : kept = live \ {oldest}
          /\ live' = kept \cup {s}
          /\ before' = Among(kept) \cup (kept \X {s})
          /\ idle' = idle \cap kept
    <2>1. CASE Cardinality(live) < Capacity
      BY <2>1 DEF Insert
    <2>2. CASE ~(Cardinality(live) < Capacity)
      BY <2>2 DEF Insert, LeastRecent
    <2>. QED
      BY <2>1, <2>2
  <1>2. IsFiniteSet(live) /\ IsFiniteSet(kept)
    BY SessionsAssumption, FS_Subset DEF SessionsAssumption, StoreShape
  <1>3. Cardinality(live) \in Nat /\ Cardinality(live) <= Capacity /\ Capacity \in Nat
    BY <1>2, FS_CardinalityType, SessionsAssumption DEF SessionsAssumption, StoreShape
  <1>4. Cardinality(live') = Cardinality(kept) + 1
    BY <1>1, <1>2, FS_AddElement
  <1>5. Cardinality(live') <= Capacity
    <2>1. CASE kept = live /\ Cardinality(live) < Capacity
      BY <1>3, <1>4, <2>1
    <2>2. ASSUME NEW oldest \in live, kept = live \ {oldest}
          PROVE  Cardinality(live') <= Capacity
      <3>1. Cardinality(kept) = Cardinality(live) - 1
        BY <1>2, <2>2, FS_RemoveElement
      <3>. QED
        BY <1>3, <1>4, <3>1
    <2>. QED
      BY <1>1, <2>1, <2>2
  <1>6. before' \subseteq live' \X live' /\ InOneOrder'
    BY <1>1 DEF StoreShape, Among, InOneOrder
  <1>. QED
    BY <1>1, <1>5, <1>6 DEF StoreShape

\* Touching a route keeps what the others hold, and forgets whom it evicts.
LEMMA TouchKeepsRoutes ==
  ASSUME RouteShape, NEW s \in Sessions, Touch(s)
  PROVE  /\ RouteShape'
         /\ s \in Routed' /\ Routed' \subseteq Routed \cup {s}
         /\ \A t \in Routed \cap Routed' : routes'[t] = routes[t]
         /\ acked' \subseteq acked
         /\ \A t \in Routed \ Routed' : \A u \in Uris : <<t, u>> \notin acked'
  <1>1. PICK kept \in SUBSET Routed :
          /\ \/ kept = Routed /\ (s \in Routed \/ Cardinality(Routed) < MaxRoutes)
             \/ s \notin Routed /\ \E victim \in Routed : kept = Routed \ {victim}
          /\ routes' = [t \in kept \cup {s} |-> IF t \in Routed THEN routes[t] ELSE {}]
    <2>1. CASE s \notin Routed /\ Cardinality(Routed) >= MaxRoutes
      BY <2>1 DEF Touch, Touched
    <2>2. CASE ~(s \notin Routed /\ Cardinality(Routed) >= MaxRoutes)
      <3>1. routes' = [t \in Routed \cup {s} |-> IF t \in Routed THEN routes[t] ELSE {}]
        BY <2>2 DEF Touch, Touched
      <3>2. IsFiniteSet(Routed)
        BY SessionsAssumption, FS_Subset DEF SessionsAssumption, RouteShape
      <3>3. Cardinality(Routed) \in Nat /\ MaxRoutes \in Nat
        BY <3>2, FS_CardinalityType, SessionsAssumption DEF SessionsAssumption
      <3>. QED
        BY <2>2, <3>1, <3>3
    <2>. QED
      BY <2>1, <2>2
  <1>2. IsFiniteSet(Routed) /\ IsFiniteSet(kept)
    BY SessionsAssumption, FS_Subset DEF SessionsAssumption, RouteShape
  <1>3. Cardinality(Routed) \in Nat /\ Cardinality(Routed) <= MaxRoutes /\ MaxRoutes \in Nat
    BY <1>2, FS_CardinalityType, SessionsAssumption DEF SessionsAssumption, RouteShape
  <1>4. Routed' = kept \cup {s}
    BY <1>1 DEF Routed
  <1>5. Cardinality(Routed') <= MaxRoutes
    <2>1. CASE s \in Routed
      BY <1>1, <1>3, <1>4, <2>1
    <2>2. CASE s \notin Routed /\ kept = Routed /\ Cardinality(Routed) < MaxRoutes
      <3>1. Cardinality(Routed') = Cardinality(Routed) + 1
        BY <1>2, <1>4, <2>2, FS_AddElement
      <3>. QED
        BY <1>3, <2>2, <3>1
    <2>3. ASSUME NEW victim \in Routed, s \notin Routed, kept = Routed \ {victim}
          PROVE  Cardinality(Routed') <= MaxRoutes
      <3>1. Cardinality(kept) = Cardinality(Routed) - 1
        BY <1>2, <2>3, FS_RemoveElement
      <3>2. Cardinality(Routed') = Cardinality(kept) + 1
        BY <1>2, <1>4, <2>3, FS_AddElement
      <3>. QED
        BY <1>3, <3>1, <3>2
    <2>. QED
      BY <1>1, <2>1, <2>2, <2>3
  <1>6. \A t \in Routed' : routes'[t] = IF t \in Routed THEN routes[t] ELSE {}
    BY <1>1, <1>4
  <1>7. routes' = [t \in Routed' |-> routes'[t]]
    BY <1>1, <1>4
  <1>8. RouteShape'
    BY <1>1, <1>4, <1>5, <1>6, <1>7 DEF RouteShape
  <1>9. /\ acked' \subseteq acked
        /\ \A t \in Routed \ Routed' : \A u \in Uris : <<t, u>> \notin acked'
    BY DEF Touch, Routed
  <1>. QED
    BY <1>1, <1>4, <1>6, <1>8, <1>9

\* Removing a route keeps the others.
LEMMA UnrouteKeepsRoutes ==
  ASSUME RouteShape, NEW s, Unroute(s)
  PROVE  /\ RouteShape'
         /\ Routed' = Routed \ {s}
         /\ \A t \in Routed' : routes'[t] = routes[t]
  <1>1. Routed' = Routed \ {s} /\ \A t \in Routed' : routes'[t] = routes[t]
    BY DEF Unroute, Routed
  <1>2. Cardinality(Routed') <= MaxRoutes
    <2>1. IsFiniteSet(Routed)
      BY SessionsAssumption, FS_Subset DEF SessionsAssumption, RouteShape
    <2>2. Cardinality(Routed') \in Nat /\ Cardinality(Routed) \in Nat
          /\ Cardinality(Routed') <= Cardinality(Routed)
      BY <1>1, <2>1, FS_Subset, FS_CardinalityType
    <2>. QED
      BY <2>2, SessionsAssumption DEF SessionsAssumption, RouteShape
  <1>3. routes' = [t \in Routed' |-> routes'[t]]
    BY <1>1 DEF Unroute
  <1>. QED
    BY <1>1, <1>2, <1>3 DEF RouteShape

-----------------------------------------------------------------------------
\* A request is one of three kinds, each with what it carries.
LEMMA RequestKinds ==
  ASSUME RequestShape, NEW q \in Requests
  PROVE  /\ req[q] = Free <=> req[q].op = "none"
         /\ req[q] # Free => req[q].sid \in Sessions
         /\ req[q].op = "initialize" => req[q].at \in {"sweep", "touch"} /\ req[q].todo \in SUBSET Sessions
         /\ req[q].op \in Gated => req[q].at \in {"touch", "insert"} /\ req[q].uri \in Uris
         /\ req[q].op = "delete" => req[q].at = "unroute"
         /\ req[q].op \in {"none", "initialize", "delete"} \cup Gated
  BY DEF RequestShape, RequestRecord, Free, Gated

\* Where a request goes, the others stay.
LEMMA Going ==
  ASSUME RequestShape, NEW q \in Requests, NEW r \in RequestRecord, Goto(q, r)
  PROVE  /\ req' \in [Requests -> RequestRecord]
         /\ req'[q] = r
         /\ \A p \in Requests \ {q} : req'[p] = req[p]
  BY DEF RequestShape, Goto

\* initialize takes an id nobody has, and the sessions to sweep from the store.
LEMMA StartInitializeKeeps ==
  ASSUME SessionsInv, NEW q \in Requests, NEW s \in Sessions, StartInitialize(q, s)
  PROVE  SessionsInv'
  <1>. DEFINE swept == IF IdleTimeout THEN idle ELSE {}
              r == [op |-> "initialize", at |-> "sweep", sid |-> s, todo |-> swept]
  <1>1. StoreShape' /\ live' = live \ swept
    <2>1. Drop(swept) /\ minted' = minted \cup {s}
      BY DEF StartInitialize
    <2>. QED
      BY <2>1, DropKeepsOrder DEF SessionsInv, StoreShape
  <1>2. swept \subseteq live /\ live \subseteq minted /\ s \notin minted
    BY DEF StartInitialize, SessionsInv, StoreShape
  <1>3. r \in RequestRecord
    BY <1>2 DEF RequestRecord, SessionsInv, StoreShape
  <1>4. /\ req' \in [Requests -> RequestRecord] /\ req'[q] = r /\ req[q] = Free
        /\ \A p \in Requests \ {q} : req'[p] = req[p]
    BY <1>3, Going DEF StartInitialize, SessionsInv
  <1>5. /\ minted' = minted \cup {s} /\ acked' = acked
        /\ closed' = closed \cup swept /\ raced' = raced \cup (swept \cap Serving)
        /\ routes' = routes /\ poisoned' = poisoned
    BY DEF StartInitialize, Close
  <1>6. RequestShape' /\ RouteShape'
    BY <1>1, <1>2, <1>4, <1>5 DEF SessionsInv, RequestShape, RouteShape, Routed
  <1>. HIDE DEF swept
  <1>7. \A p \in Requests : SessionOf(p)'
    <2>1. SessionOf(q)'
      BY <1>2, <1>4, <1>5 DEF SessionsInv, SessionOf, RequestShape, Free, Gated, At
    <2>2. ASSUME NEW p \in Requests \ {q}, req[p] # Free PROVE SessionOf(p)'
      <3>1. req'[p] = req[p] /\ SessionOf(p) /\ NewSession(p)
        BY <1>4 DEF SessionsInv
      <3>2. req[p].op \in Gated \cup {"initialize"} /\ req[p].sid \in swept => req[p].sid \in raced'
        BY <1>5 DEF Serving
      <3>3. At(p, "initialize", "sweep") => req[p].sid \notin swept
        BY <1>2, <3>1 DEF NewSession, Sweeping
      <3>4. SessionOf(p)' <=>
              /\ req[p].sid \in minted'
              /\ At(p, "initialize", "sweep") => req[p].sid \notin closed'
              /\ req[p].op \in Gated \cup {"initialize"} /\ req[p].sid \in closed' =>
                   req[p].sid \in raced'
              /\ req[p].op = "delete" => req[p].sid \in closed'
        BY <2>2, <3>1 DEF SessionOf, At
      <3>. QED
        BY <1>5, <2>2, <3>1, <3>2, <3>3, <3>4 DEF SessionOf
    <2>. QED
      BY <1>4, <2>1, <2>2 DEF SessionOf
  <1>8. \A p \in Requests : NewSession(p)'
    <2>1. NewSession(q)'
      BY <1>1, <1>2, <1>4, <1>5 DEF SessionsInv, SessionOf, NewSession, Sweeping, At, RequestShape, Free
    <2>2. ASSUME NEW p \in Requests \ {q} PROVE NewSession(p)'
      BY <1>1, <1>2, <1>4, <1>5 DEF SessionsInv, SessionOf, NewSession, Sweeping, At, RequestShape, Free
    <2>. QED
      BY <2>1, <2>2
  <1>9. LiveKeepsSubscriptions'
    BY <1>1, <1>5 DEF SessionsInv, LiveKeepsSubscriptions, Routed
  <1>10. ASSUME ~poisoned', NEW t \in ((closed \ raced) \cap Routed)'
        PROVE  \E p \in Requests : Unrouting(p, t)'
    <2>1. CASE t \in swept
      BY <1>4, <2>1 DEF Unrouting, Sweeping, At
    <2>2. CASE t \notin swept
      <3>1. PICK p \in Requests : Unrouting(p, t)
        BY <1>5, <1>10, <2>2 DEF SessionsInv, ClosedIsUnrouted, Routed
      <3>2. req'[p] = req[p]
        BY <1>4, <3>1 DEF Unrouting, Sweeping, At, Free
      <3>. QED
        BY <3>1, <3>2 DEF Unrouting, Sweeping, At
    <2>. QED
      BY <2>1, <2>2
  <1>. QED
    BY <1>1, <1>6, <1>7, <1>8, <1>9, <1>10 DEF SessionsInv, ClosedIsUnrouted

\* What it sweeps has left the store.
LEMMA SweepRouteKeeps ==
  ASSUME SessionsInv, NEW q \in Requests, NEW t \in Sessions, SweepRoute(q, t)
  PROVE  SessionsInv'
  <1>. DEFINE r == [req[q] EXCEPT !.todo = @ \ {t}]
  <1>1. r \in RequestRecord /\ r.op = "initialize" /\ r.at = "sweep" /\ r.sid = req[q].sid
        /\ r.todo = req[q].todo \ {t} /\ req[q] # Free
    BY DEF SweepRoute, At, SessionsInv, RequestShape, RequestRecord, Free, Gated
  <1>2. /\ req' \in [Requests -> RequestRecord] /\ req'[q] = r
        /\ \A p \in Requests \ {q} : req'[p] = req[p]
    BY <1>1, Going DEF SweepRoute, SessionsInv
  <1>3. /\ UNCHANGED <<live, before, idle, minted, closed, raced, acked, poisoned>>
        /\ Sweeping(q) /\ t \in req[q].todo /\ t \notin live
    BY DEF SweepRoute, storeVars, ended, Sweeping, SessionsInv, NewSession
  <1>4. RouteShape' /\ Routed' = Routed \ {t} /\ \A s \in Routed' : routes'[s] = routes[s]
    BY UnrouteKeepsRoutes DEF SweepRoute, SessionsInv
  <1>5. StoreShape' /\ RequestShape'
    BY <1>2, <1>3 DEF SessionsInv, StoreShape, RequestShape, InOneOrder
  <1>. HIDE DEF r
  <1>6. \A p \in Requests : SessionOf(p)'
    <2>1. SessionOf(q)'
      BY <1>1, <1>2, <1>3 DEF SessionsInv, SessionOf, Gated, Sweeping, At
    <2>. QED
      BY <1>2, <1>3, <2>1 DEF SessionsInv, SessionOf, At
  <1>7. ASSUME NEW p \in Requests PROVE NewSession(p)'
    <2>. SUFFICES ASSUME Sweeping(p)' PROVE NewSession(p)'
      BY DEF NewSession
    <2>1. /\ Sweeping(p) /\ req'[p].sid = req[p].sid /\ req'[p].todo \subseteq req[p].todo
      BY <1>1, <1>2, <1>3 DEF Sweeping, At
    <2>2. \A o \in Requests : /\ req'[o] # Free => req[o] # Free /\ req'[o].sid = req[o].sid
                              /\ Sweeping(o)' => Sweeping(o) /\ req'[o].todo \subseteq req[o].todo
      BY <1>1, <1>2, <1>3 DEF Sweeping, At
    <2>. QED
      BY <1>3, <2>1, <2>2 DEF SessionsInv, NewSession
  <1>8. LiveKeepsSubscriptions'
    BY <1>3, <1>4 DEF SessionsInv, LiveKeepsSubscriptions
  <1>9. ASSUME ~poisoned', NEW s \in ((closed \ raced) \cap Routed)'
        PROVE  \E p \in Requests : Unrouting(p, s)'
    <2>1. s # t /\ s \in (closed \ raced) \cap Routed /\ ~poisoned
      BY <1>3, <1>4, <1>9
    <2>2. PICK p \in Requests : Unrouting(p, s)
      BY <2>1 DEF SessionsInv, ClosedIsUnrouted
    <2>3. CASE p = q
      BY <1>1, <1>2, <1>3, <2>1, <2>2, <2>3 DEF Unrouting, Sweeping, At
    <2>4. CASE p # q
      BY <1>2, <2>2, <2>4 DEF Unrouting, Sweeping, At
    <2>. QED
      BY <2>3, <2>4
  <1>. QED
    BY <1>4, <1>5, <1>6, <1>7, <1>8, <1>9 DEF SessionsInv, ClosedIsUnrouted

\* The session is stored: nobody subscribed to anything under its id yet.
LEMMA StoreSessionKeeps ==
  ASSUME SessionsInv, NEW q \in Requests, StoreSession(q)
  PROVE  SessionsInv'
  <1>. DEFINE r == [req[q] EXCEPT !.at = "touch"]
              s == req[q].sid
  <1>1. r \in RequestRecord /\ r.op = "initialize" /\ r.at = "touch" /\ r.sid = s /\ req[q] # Free
    BY DEF StoreSession, At, SessionsInv, RequestShape, RequestRecord, Free, Gated
  <1>2. /\ req' \in [Requests -> RequestRecord] /\ req'[q] = r
        /\ \A p \in Requests \ {q} : req'[p] = req[p]
    BY <1>1, Going DEF StoreSession, SessionsInv
  <1>3. /\ UNCHANGED <<minted, closed, raced, routes, acked, poisoned>>
        /\ Sweeping(q) /\ s \in minted /\ s \notin closed /\ s \notin live
        /\ \A u \in Uris : <<s, u>> \notin acked
        /\ req[q].todo = {}
    BY <1>1 DEF StoreSession, ended, Sweeping, SessionsInv, NewSession, SessionOf, At
  <1>4. StoreShape' /\ live' \subseteq live \cup {s}
    BY <1>3, InsertKeepsOrder DEF StoreSession, SessionsInv
  <1>5. RequestShape' /\ RouteShape'
    BY <1>2, <1>3, <1>4 DEF SessionsInv, RequestShape, RouteShape, Routed
  <1>. HIDE DEF r
  <1>6. \A p \in Requests : SessionOf(p)'
    BY <1>1, <1>2, <1>3 DEF SessionsInv, SessionOf, Gated, At
  <1>7. \A p \in Requests : NewSession(p)'
    <2>. SUFFICES ASSUME NEW p \in Requests \ {q} PROVE NewSession(p)'
      BY <1>1, <1>2 DEF NewSession, Sweeping, At
    <2>. SUFFICES ASSUME Sweeping(p)' PROVE NewSession(p)'
      BY DEF NewSession
    <2>1. Sweeping(p) /\ req'[p] = req[p]
      BY <1>2 DEF Sweeping, At
    <2>2. req[p].sid # s /\ s \notin req[p].todo
      BY <1>1, <1>3, <2>1 DEF SessionsInv, NewSession
    <2>3. \A o \in Requests : /\ req'[o] # Free => req[o] # Free /\ req'[o].sid = req[o].sid
                              /\ Sweeping(o)' => Sweeping(o) /\ req'[o] = req[o]
      BY <1>1, <1>2 DEF Sweeping, At
    <2>. QED
      BY <1>3, <1>4, <2>1, <2>2, <2>3 DEF SessionsInv, NewSession
  <1>8. LiveKeepsSubscriptions'
    BY <1>3, <1>4 DEF SessionsInv, LiveKeepsSubscriptions, Routed
  <1>9. ClosedIsUnrouted'
    <2>1. \A p \in Requests, t \in Sessions : Unrouting(p, t) => Unrouting(p, t)'
      BY <1>1, <1>2, <1>3 DEF Unrouting, Sweeping, At
    <2>. QED
      BY <1>3, <2>1 DEF SessionsInv, ClosedIsUnrouted, Routed, RouteShape
  <1>. QED
    BY <1>4, <1>5, <1>6, <1>7, <1>8, <1>9 DEF SessionsInv

\* A request is through, or goes on; initialize ends in two steps.
GoesOn(q, r) == r # Free => r.op = req[q].op /\ r.sid = req[q].sid /\ r.op # "initialize"

\* A request that goes on or ends leaves the courses of all requests as they are.
LEMMA GoingOn ==
  ASSUME SessionsInv, NEW q \in Requests, NEW r \in RequestRecord, Goto(q, r),
         req[q] # Free,
         GoesOn(q, r),
         live' \subseteq live, UNCHANGED <<minted, closed, raced>>,
         \/ acked' \subseteq acked
         \/ acked' \subseteq acked \cup ({req[q].sid} \X Uris) /\ req[q].op \in Gated
  PROVE  /\ req' \in [Requests -> RequestRecord] /\ req'[q] = r
         /\ \A p \in Requests \ {q} : req'[p] = req[p]
         /\ \A p \in Requests : SessionOf(p)' /\ NewSession(p)'
  <1>1. /\ req' \in [Requests -> RequestRecord] /\ req'[q] = r
        /\ \A p \in Requests \ {q} : req'[p] = req[p]
    BY Going DEF SessionsInv
  <1>2. ASSUME NEW p \in Requests PROVE SessionOf(p)'
    BY <1>1 DEF SessionsInv, SessionOf, GoesOn, At, Gated
  <1>3. ASSUME NEW p \in Requests PROVE NewSession(p)'
    <2>. SUFFICES ASSUME Sweeping(p)' PROVE NewSession(p)'
      BY DEF NewSession
    <2>1. p # q /\ Sweeping(p) /\ req'[p] = req[p]
      BY <1>1 DEF Sweeping, At, Free, GoesOn
    <2>2. req[q].sid # req[p].sid
      BY <2>1 DEF SessionsInv, NewSession
    <2>3. \A u \in Uris : <<req[p].sid, u>> \notin acked'
      BY <2>1, <2>2 DEF SessionsInv, NewSession
    <2>4. \A o \in Requests : /\ req'[o] # Free => req[o] # Free /\ req'[o].sid = req[o].sid
                              /\ Sweeping(o)' => Sweeping(o) /\ req'[o] = req[o]
      BY <1>1 DEF Sweeping, At, Free, GoesOn
    <2>. QED
      BY <2>1, <2>3, <2>4 DEF SessionsInv, NewSession
  <1>. QED
    BY <1>1, <1>2, <1>3

\* A request that is through leaves nothing; one that goes on is of its kind.
LEMMA Leaving ==
  /\ Free \in RequestRecord
  /\ \A q \in Requests : RequestShape /\ At(q, "subscribe", "touch") =>
        LET r == [req[q] EXCEPT !.at = "insert"]
        IN  r \in RequestRecord /\ GoesOn(q, r)
  BY DEF RequestShape, RequestRecord, Free, At, Gated, GoesOn

\* Touching a route disturbs no live session, and routes none that has ended.
LEMMA TouchingKeeps ==
  ASSUME SessionsInv, NEW q \in Requests, NEW r \in RequestRecord, Goto(q, r),
         req[q].op \in {"initialize"} \cup Gated, ~Sweeping(q),
         GoesOn(q, r),
         Touch(req[q].sid), UNCHANGED <<live, before, idle, minted, closed, raced, poisoned>>
  PROVE  SessionsInv'
  <1>. DEFINE s == req[q].sid
  <1>1. /\ req[q] # Free /\ s \in Sessions /\ req[q].op # "delete"
        /\ s \in closed => s \in raced
    BY RequestKinds DEF SessionsInv, SessionOf, RequestShape, Gated, Free
  <1>2. UNCHANGED <<live, before, idle, minted, closed, raced, poisoned>>
    OBVIOUS
  <1>3. /\ RouteShape'
        /\ s \in Routed' /\ Routed' \subseteq Routed \cup {s}
        /\ \A t \in Routed \cap Routed' : routes'[t] = routes[t]
        /\ acked' \subseteq acked
        /\ \A t \in Routed \ Routed' : \A u \in Uris : <<t, u>> \notin acked'
    BY <1>1, TouchKeepsRoutes DEF SessionsInv
  <1>4. /\ req' \in [Requests -> RequestRecord] /\ req'[q] = r
        /\ \A p \in Requests \ {q} : req'[p] = req[p]
        /\ \A p \in Requests : SessionOf(p)' /\ NewSession(p)'
    <2>1. live' \subseteq live /\ UNCHANGED <<minted, closed, raced>> /\ acked' \subseteq acked
      BY <1>2, <1>3
    <2>2. req[q] # Free
      BY <1>1
    <2>. QED
      BY <2>1, <2>2, GoingOn
  <1>5. StoreShape' /\ RequestShape'
    BY <1>2, <1>3, <1>4 DEF SessionsInv, StoreShape, RequestShape, InOneOrder
  <1>6. LiveKeepsSubscriptions'
    BY <1>2, <1>3 DEF SessionsInv, LiveKeepsSubscriptions
  <1>7. ClosedIsUnrouted'
    <2>. SUFFICES ASSUME ~poisoned', NEW t \in ((closed \ raced) \cap Routed)'
                  PROVE  \E p \in Requests : Unrouting(p, t)'
      BY DEF ClosedIsUnrouted
    <2>1. t \in (closed \ raced) \cap Routed
      BY <1>1, <1>2, <1>3
    <2>2. PICK p \in Requests : Unrouting(p, t)
      BY <1>2, <2>1 DEF SessionsInv, ClosedIsUnrouted
    <2>3. p # q
      BY <1>1, <2>2 DEF Unrouting
    <2>. QED
      BY <1>4, <2>2, <2>3 DEF Unrouting, Sweeping, At
  <1>. QED
    BY <1>3, <1>4, <1>5, <1>6, <1>7 DEF SessionsInv

\* resources/subscribe, with its route or without.
LEMMA SubscribeInsertKeeps ==
  ASSUME SessionsInv, NEW q \in Requests, SubscribeInsert(q)
  PROVE  SessionsInv'
  <1>. DEFINE s == req[q].sid
              u == req[q].uri
  <1>1. /\ req[q] # Free /\ req[q].op = "subscribe" /\ req[q].op \in Gated
        /\ s \in minted /\ u \in Uris
    BY RequestKinds DEF SubscribeInsert, At, SessionsInv, SessionOf, Gated, Free
  <1>2. UNCHANGED <<live, before, idle, minted, closed, raced>>
    BY DEF SubscribeInsert, storeVars, ended
  <1>3. \/ /\ s \in Routed /\ routes' = [routes EXCEPT ![s] = @ \cup {u}]
           /\ acked' = acked \cup {<<s, u>>} /\ poisoned' = poisoned
        \/ poisoned' = TRUE /\ routes' = routes /\ acked' = acked
    BY DEF SubscribeInsert
  <1>4. /\ RouteShape' /\ Routed' = Routed
        /\ \A t \in Routed : routes[t] \subseteq routes'[t]
        /\ \A a \in acked' \ acked : a = <<s, u>> /\ s \in Routed /\ u \in routes'[s]
        /\ acked' \subseteq acked \cup ({s} \X Uris)
    <2>1. CASE s \in Routed /\ routes' = [routes EXCEPT ![s] = @ \cup {u}]
               /\ acked' = acked \cup {<<s, u>>}
      <3>1. Routed' = Routed
        BY <2>1 DEF Routed
      <3>2. \A t \in Routed : routes'[t] = IF t = s THEN routes[t] \cup {u} ELSE routes[t]
        BY <2>1 DEF Routed
      <3>3. routes' = [t \in Routed' |-> routes'[t]]
        BY <2>1 DEF Routed
      <3>. QED
        BY <1>1, <2>1, <3>1, <3>2, <3>3 DEF SessionsInv, RouteShape
    <2>2. CASE routes' = routes /\ acked' = acked
      BY <2>2 DEF SessionsInv, RouteShape, Routed
    <2>. QED
      BY <1>3, <2>1, <2>2
  <1>5. Goto(q, Free)
    BY DEF SubscribeInsert, Done
  <1>6. /\ req' \in [Requests -> RequestRecord] /\ req'[q] = Free
        /\ \A p \in Requests \ {q} : req'[p] = req[p]
        /\ \A p \in Requests : SessionOf(p)' /\ NewSession(p)'
    <2>1. live' \subseteq live /\ UNCHANGED <<minted, closed, raced>> /\ Free \in RequestRecord
      BY <1>2, Leaving
    <2>2. GoesOn(q, Free)
      BY DEF GoesOn
    <2>. QED
      BY <1>1, <1>4, <1>5, <2>1, <2>2, GoingOn
  <1>7. StoreShape' /\ RequestShape'
    BY <1>1, <1>2, <1>3, <1>4, <1>6 DEF SessionsInv, StoreShape, RequestShape, InOneOrder
  <1>8. LiveKeepsSubscriptions'
    <2>. SUFFICES ASSUME NEW t \in live, NEW v \in Uris, <<t, v>> \in acked'
                  PROVE  t \in Routed' /\ v \in routes'[t]
      BY <1>2 DEF LiveKeepsSubscriptions
    <2>1. CASE <<t, v>> \in acked
      BY <1>4, <2>1 DEF SessionsInv, LiveKeepsSubscriptions
    <2>2. CASE <<t, v>> \notin acked
      BY <1>4, <2>2
    <2>. QED
      BY <2>1, <2>2
  <1>9. ClosedIsUnrouted'
    <2>. SUFFICES ASSUME ~poisoned', NEW t \in ((closed \ raced) \cap Routed)'
                  PROVE  \E p \in Requests : Unrouting(p, t)'
      BY DEF ClosedIsUnrouted
    <2>1. t \in (closed \ raced) \cap Routed /\ ~poisoned
      BY <1>2, <1>3, <1>4
    <2>2. PICK p \in Requests : Unrouting(p, t)
      BY <2>1 DEF SessionsInv, ClosedIsUnrouted
    <2>3. p # q
      BY <1>1, <2>2 DEF Unrouting, Sweeping, At
    <2>. QED
      BY <1>6, <2>2, <2>3 DEF Unrouting, Sweeping, At
  <1>. QED
    BY <1>4, <1>6, <1>7, <1>8, <1>9 DEF SessionsInv

\* resources/unsubscribe takes one uri from one route, and from what was promised.
LEMMA UnsubscribeKeeps ==
  ASSUME SessionsInv, NEW q \in Requests, Unsubscribe(q)
  PROVE  SessionsInv'
  <1>. DEFINE s == req[q].sid
              u == req[q].uri
  <1>1. /\ req[q] # Free /\ req[q].op = "unsubscribe"
        /\ UNCHANGED <<live, before, idle, minted, closed, raced, poisoned>>
        /\ acked' = acked \ {<<s, u>>}
    BY DEF Unsubscribe, At, Free, storeVars, ended
  <1>2. /\ RouteShape' /\ Routed' = Routed
        /\ \A t \in Routed : routes'[t] = IF t = s THEN routes[t] \ {u} ELSE routes[t]
    <2>1. CASE s \in Routed
      <3>1. routes' = [routes EXCEPT ![s] = @ \ {u}]
        BY <2>1 DEF Unsubscribe
      <3>2. Routed' = Routed
        BY <3>1 DEF Routed
      <3>3. \A t \in Routed : routes'[t] = IF t = s THEN routes[t] \ {u} ELSE routes[t]
        BY <3>1 DEF Routed
      <3>4. routes' = [t \in Routed' |-> routes'[t]]
        BY <3>1 DEF Routed
      <3>. QED
        BY <3>2, <3>3, <3>4 DEF SessionsInv, RouteShape
    <2>2. CASE s \notin Routed
      BY <2>2 DEF Unsubscribe, SessionsInv, RouteShape, Routed
    <2>. QED
      BY <2>1, <2>2
  <1>3. /\ req' \in [Requests -> RequestRecord] /\ req'[q] = Free
        /\ \A p \in Requests \ {q} : req'[p] = req[p]
        /\ \A p \in Requests : SessionOf(p)' /\ NewSession(p)'
    <2>1. live' \subseteq live /\ UNCHANGED <<minted, closed, raced>> /\ acked' \subseteq acked
      BY <1>1
    <2>2. GoesOn(q, Free) /\ Goto(q, Free)
      BY DEF GoesOn, Unsubscribe, Done
    <2>. QED
      BY <1>1, <2>1, <2>2, GoingOn, Leaving
  <1>4. StoreShape' /\ RequestShape'
    BY <1>1, <1>3 DEF SessionsInv, StoreShape, RequestShape, InOneOrder
  <1>5. LiveKeepsSubscriptions'
    <2>. SUFFICES ASSUME NEW t \in live, NEW v \in Uris, <<t, v>> \in acked'
                  PROVE  t \in Routed' /\ v \in routes'[t]
      BY <1>1 DEF LiveKeepsSubscriptions
    <2>1. t \in Routed /\ v \in routes[t] /\ ~(t = s /\ v = u)
      BY <1>1 DEF SessionsInv, LiveKeepsSubscriptions
    <2>. QED
      BY <1>2, <2>1
  <1>6. ClosedIsUnrouted'
    <2>1. \A p \in Requests, t \in Sessions : Unrouting(p, t) => Unrouting(p, t)'
      BY <1>1, <1>3 DEF Unrouting, Sweeping, At
    <2>. QED
      BY <1>1, <1>2, <2>1 DEF SessionsInv, ClosedIsUnrouted, RouteShape
  <1>. QED
    BY <1>2, <1>3, <1>4, <1>5, <1>6 DEF SessionsInv

\* A step of the session store alone: some sessions may leave it.
LEMMA StoreStepsKeep ==
  ASSUME SessionsInv, StoreShape', live' \subseteq live,
         UNCHANGED <<minted, closed, raced, routes, acked, poisoned>>,
         \/ UNCHANGED req
         \/ \E q \in Requests : Goto(q, Free) /\ req[q] # Free
                               /\ req[q].op # "delete" /\ ~Sweeping(q)
         \/ \E q \in Requests : Goto(q, Free) /\ req[q] # Free /\ poisoned
  PROVE  SessionsInv'
  <1>1. /\ req' \in [Requests -> RequestRecord]
        /\ \A p \in Requests : SessionOf(p)' /\ NewSession(p)'
        /\ \A p \in Requests : ~poisoned /\ (req[p].op = "delete" \/ Sweeping(p)) =>
             req'[p] = req[p]
    <2>1. CASE UNCHANGED req
      <3>1. \A p \in Requests : SessionOf(p)'
        <4>. SUFFICES ASSUME NEW p \in Requests PROVE SessionOf(p)'
          OBVIOUS
        <4>1. SessionOf(p)
          BY DEF SessionsInv
        <4>. QED
          BY <2>1, <4>1 DEF SessionOf, At
      <3>2. \A p \in Requests : NewSession(p)'
        BY <2>1 DEF SessionsInv, NewSession, Sweeping, At
      <3>. QED
        BY <2>1, <3>1, <3>2 DEF SessionsInv, RequestShape
    <2>2. ASSUME NEW q \in Requests, Goto(q, Free), req[q] # Free,
                 poisoned \/ (req[q].op # "delete" /\ ~Sweeping(q))
          PROVE  /\ req' \in [Requests -> RequestRecord]
                 /\ \A p \in Requests : SessionOf(p)' /\ NewSession(p)'
                 /\ \A p \in Requests : ~poisoned /\ (req[p].op = "delete" \/ Sweeping(p)) =>
                      req'[p] = req[p]
      <3>1. GoesOn(q, Free)
        BY DEF GoesOn
      <3>2. /\ req' \in [Requests -> RequestRecord]
            /\ \A p \in Requests \ {q} : req'[p] = req[p]
            /\ \A p \in Requests : SessionOf(p)' /\ NewSession(p)'
        BY <2>2, <3>1, GoingOn, Leaving
      <3>3. ASSUME NEW p \in Requests, ~poisoned, req[p].op = "delete" \/ Sweeping(p)
            PROVE  req'[p] = req[p]
        BY <2>2, <3>2, <3>3
      <3>. QED
        BY <3>2, <3>3
    <2>. QED
      BY <2>1, <2>2
  <1>2. RouteShape' /\ Routed' = Routed
    BY DEF SessionsInv, RouteShape, Routed
  <1>3. RequestShape'
    BY <1>1 DEF SessionsInv, RequestShape
  <1>4. LiveKeepsSubscriptions'
    BY <1>2 DEF SessionsInv, LiveKeepsSubscriptions
  <1>5. ClosedIsUnrouted'
    BY <1>1, <1>2 DEF SessionsInv, ClosedIsUnrouted, Unrouting, Sweeping, At
  <1>. QED
    BY <1>1, <1>2, <1>3, <1>4, <1>5 DEF SessionsInv

\* The DELETE that is served leaves no route.
LEMMA DeleteRouteKeeps ==
  ASSUME SessionsInv, NEW q \in Requests, DeleteRoute(q)
  PROVE  SessionsInv'
  <1>. DEFINE s == req[q].sid
  <1>1. /\ req[q] # Free /\ s \in closed
        /\ UNCHANGED <<live, before, idle, minted, closed, raced, acked, poisoned>>
    <2>1. req[q].op = "delete" /\ req[q] # Free
      BY DEF DeleteRoute, At, Free
    <2>2. SessionOf(q)
      BY DEF SessionsInv
    <2>. QED
      BY <2>1, <2>2 DEF DeleteRoute, storeVars, ended, SessionOf
  <1>2. RouteShape' /\ Routed' = Routed \ {s} /\ \A t \in Routed' : routes'[t] = routes[t]
    BY UnrouteKeepsRoutes DEF DeleteRoute, SessionsInv
  <1>3. /\ req' \in [Requests -> RequestRecord]
        /\ \A p \in Requests \ {q} : req'[p] = req[p]
        /\ \A p \in Requests : SessionOf(p)' /\ NewSession(p)'
    <2>1. live' \subseteq live /\ UNCHANGED <<minted, closed, raced>> /\ acked' \subseteq acked
      BY <1>1
    <2>2. GoesOn(q, Free) /\ Goto(q, Free)
      BY DEF GoesOn, DeleteRoute, Done
    <2>. QED
      BY <1>1, <2>1, <2>2, GoingOn, Leaving
  <1>4. StoreShape' /\ RequestShape'
    BY <1>1, <1>3 DEF SessionsInv, StoreShape, RequestShape, InOneOrder
  <1>5. LiveKeepsSubscriptions'
    BY <1>1, <1>2 DEF SessionsInv, RequestShape, LiveKeepsSubscriptions
  <1>6. ASSUME ~poisoned', NEW t \in ((closed \ raced) \cap Routed)'
        PROVE  \E p \in Requests : Unrouting(p, t)'
    <2>1. t # s /\ t \in (closed \ raced) \cap Routed /\ ~poisoned
      BY <1>1, <1>2, <1>6
    <2>2. PICK p \in Requests : Unrouting(p, t)
      BY <2>1 DEF SessionsInv, ClosedIsUnrouted
    <2>3. p # q
      BY <2>1, <2>2 DEF Unrouting, Sweeping, At, DeleteRoute
    <2>. QED
      BY <1>3, <2>2, <2>3 DEF Unrouting, Sweeping, At
  <1>. QED
    BY <1>2, <1>3, <1>4, <1>5, <1>6 DEF SessionsInv, ClosedIsUnrouted

\* A request that is looked up belongs to a session nobody has ended.
LEMMA StartKnownKeeps ==
  ASSUME SessionsInv, NEW q \in Requests, NEW op \in Operations, NEW s \in Sessions,
         NEW u \in Uris, StartKnown(q, op, s, u)
  PROVE  SessionsInv'
  <1>. DEFINE r == [op |-> op, at |-> "touch", sid |-> s, uri |-> u]
  <1>1. r \in RequestRecord /\ op \in Gated /\ r # Free /\ r.op = op /\ r.sid = s
    BY DEF StartKnown, RequestRecord, Gated, Free
  <1>2. /\ req' \in [Requests -> RequestRecord] /\ req'[q] = r /\ req[q] = Free
        /\ \A p \in Requests \ {q} : req'[p] = req[p]
    BY <1>1, Going DEF StartKnown, SessionsInv
  <1>. HIDE DEF r
  <1>3. /\ UNCHANGED <<minted, closed, raced, routes, acked, poisoned>>
        /\ s \in live /\ s \in minted /\ s \notin closed
    BY DEF StartKnown, ended, SessionsInv, StoreShape, RequestShape
  <1>4. StoreShape' /\ live' = live
    BY <1>3, RefreshKeepsOrder DEF StartKnown, SessionsInv
  <1>5. RequestShape' /\ RouteShape' /\ Routed' = Routed
    BY <1>2, <1>3, <1>4 DEF SessionsInv, RequestShape, RouteShape, Routed
  <1>6. ASSUME NEW p \in Requests PROVE SessionOf(p)'
    BY <1>1, <1>2, <1>3 DEF SessionsInv, SessionOf, Gated, At
  <1>7. ASSUME NEW p \in Requests PROVE NewSession(p)'
    <2>. SUFFICES ASSUME Sweeping(p)' PROVE NewSession(p)'
      BY DEF NewSession
    <2>1. p # q /\ Sweeping(p) /\ req'[p] = req[p] /\ req[p].sid # s
      BY <1>1, <1>2, <1>3 DEF SessionsInv, NewSession, Sweeping, At, Gated
    <2>2. \A o \in Requests \ {q} : req'[o] = req[o] /\ Sweeping(o)' = Sweeping(o)
      BY <1>2 DEF Sweeping, At
    <2>3. ~Sweeping(q)'
      BY <1>1, <1>2 DEF Sweeping, At, Gated
    <2>. QED
      BY <1>1, <1>2, <1>3, <1>4, <2>1, <2>2, <2>3 DEF SessionsInv, NewSession
  <1>8. LiveKeepsSubscriptions' /\ ClosedIsUnrouted'
    <2>1. \A p \in Requests, t \in Sessions : Unrouting(p, t) => Unrouting(p, t)'
      BY <1>2 DEF Unrouting, Sweeping, At, Free
    <2>. QED
      BY <1>3, <1>4, <1>5, <2>1
         DEF SessionsInv, LiveKeepsSubscriptions, ClosedIsUnrouted, RouteShape
  <1>. QED
    BY <1>4, <1>5, <1>6, <1>7, <1>8 DEF SessionsInv

\* DELETE ends a session that is known to its client; the requests of it that
\* are under way race it.
LEMMA StartDeleteKeeps ==
  ASSUME SessionsInv, NEW q \in Requests, NEW s \in Sessions, StartDelete(q, s)
  PROVE  SessionsInv'
  <1>. DEFINE r == [op |-> "delete", at |-> "unroute", sid |-> s]
  <1>1. r \in RequestRecord /\ r # Free /\ r.op = "delete" /\ r.sid = s
    BY DEF RequestRecord, Free
  <1>2. /\ req' \in [Requests -> RequestRecord] /\ req'[q] = r /\ req[q] = Free
        /\ \A p \in Requests \ {q} : req'[p] = req[p]
    BY <1>1, Going DEF StartDelete, SessionsInv
  <1>. HIDE DEF r
  <1>3. /\ UNCHANGED <<minted, routes, acked, poisoned>> /\ s \in minted
        /\ closed' = closed \cup {s} /\ raced \subseteq raced' /\ raced' \subseteq raced \cup {s}
        /\ \A p \in Requests : req[p].op \in Gated /\ req[p].sid = s => s \in raced'
        /\ \A p \in Requests : req[p].op = "initialize" => req[p].sid # s
    BY DEF StartDelete, Initializing, Close, Serving
  <1>4. StoreShape' /\ live' = live \ {s}
    BY <1>3, DropKeepsOrder DEF StartDelete, SessionsInv, StoreShape
  <1>5. RequestShape' /\ RouteShape' /\ Routed' = Routed
    BY <1>2, <1>3, <1>4 DEF SessionsInv, RequestShape, RouteShape, Routed
  <1>6. ASSUME NEW p \in Requests PROVE SessionOf(p)'
    BY <1>1, <1>2, <1>3 DEF SessionsInv, SessionOf, Gated, At
  <1>7. ASSUME NEW p \in Requests PROVE NewSession(p)'
    <2>. SUFFICES ASSUME Sweeping(p)' PROVE NewSession(p)'
      BY DEF NewSession
    <2>1. p # q /\ Sweeping(p) /\ req'[p] = req[p] /\ req[p].sid # s
      BY <1>1, <1>2, <1>3 DEF Sweeping, At
    <2>2. \A o \in Requests \ {q} : req'[o] = req[o] /\ Sweeping(o)' = Sweeping(o)
      BY <1>2 DEF Sweeping, At
    <2>3. ~Sweeping(q)'
      BY <1>1, <1>2 DEF Sweeping, At
    <2>. QED
      BY <1>1, <1>2, <1>3, <1>4, <2>1, <2>2, <2>3 DEF SessionsInv, NewSession
  <1>8. LiveKeepsSubscriptions'
    BY <1>3, <1>4, <1>5 DEF SessionsInv, LiveKeepsSubscriptions
  <1>9. ClosedIsUnrouted'
    <2>1. \A p \in Requests, t \in Sessions : Unrouting(p, t) => Unrouting(p, t)'
      BY <1>2 DEF Unrouting, Sweeping, At, Free
    <2>2. Unrouting(q, s)'
      BY <1>1, <1>2 DEF Unrouting
    <2>. QED
      BY <1>3, <1>5, <2>1, <2>2 DEF SessionsInv, ClosedIsUnrouted, RouteShape
  <1>. QED
    BY <1>4, <1>5, <1>6, <1>7, <1>8, <1>9 DEF SessionsInv

\* A server without sessions.
LEMMA SessionsBegin == LegacyInit => SessionsInv
  <1>. SUFFICES ASSUME LegacyInit PROVE SessionsInv
    OBVIOUS
  <1>1. Cardinality({}) = 0 /\ Routed = {}
    BY FS_EmptySet DEF LegacyInit, Routed
  <1>2. StoreShape
    BY <1>1, SessionsAssumption DEF LegacyInit, StoreShape, InOneOrder, SessionsAssumption
  <1>3. RouteShape
    BY <1>1, SessionsAssumption DEF LegacyInit, RouteShape, SessionsAssumption
  <1>4. RequestShape
    BY DEF LegacyInit, RequestShape, RequestRecord
  <1>5. \A q \in Requests : SessionOf(q) /\ NewSession(q)
    BY DEF LegacyInit, SessionOf, NewSession, Sweeping, At, Free
  <1>. QED
    BY <1>1, <1>2, <1>3, <1>4, <1>5
       DEF LegacyInit, SessionsInv, LiveKeepsSubscriptions, ClosedIsUnrouted

\* Every critical section keeps the invariant.
LEMMA SessionsStep ==
  ASSUME SessionsInv, [LegacyNext]_legacyVars
  PROVE  SessionsInv'
  <1>. USE DEF ended, storeVars
  <1>1. ASSUME NEW q \in Requests, NEW s \in Sessions,
               \/ StartInitialize(q, s) \/ SweepRoute(q, s) \/ StartDelete(q, s)
               \/ \E op \in Operations : StartExpired(q, op, s)
               \/ \E op \in Operations, u \in Uris : StartKnown(q, op, s, u)
        PROVE  SessionsInv'
    <2>1. CASE \E op \in Operations : StartExpired(q, op, s)
      <3>1. Drop({s}) /\ UNCHANGED <<minted, closed, raced, routes, acked, req, poisoned>>
        BY <2>1 DEF StartExpired
      <3>2. StoreShape' /\ live' \subseteq live
        BY <3>1, DropKeepsOrder DEF SessionsInv, StoreShape
      <3>. QED
        BY <3>1, <3>2, StoreStepsKeep
    <2>. QED
      BY <1>1, <2>1, StartInitializeKeeps, SweepRouteKeeps, StartDeleteKeeps, StartKnownKeeps
  <1>2. ASSUME NEW q \in Requests, StoreSession(q) \/ SubscribeInsert(q) \/ Unsubscribe(q) \/ DeleteRoute(q)
        PROVE  SessionsInv'
    BY <1>2, StoreSessionKeeps, SubscribeInsertKeeps, UnsubscribeKeeps, DeleteRouteKeeps
  <1>3. ASSUME NEW q \in Requests, TouchRoute(q)
        PROVE  SessionsInv'
    <2>1. /\ req[q].op \in {"initialize"} \cup Gated /\ GoesOn(q, Free) /\ Goto(q, Free)
          /\ Touch(req[q].sid) /\ ~Sweeping(q)
          /\ UNCHANGED <<live, before, idle, minted, closed, raced, poisoned>>
      BY <1>3 DEF TouchRoute, Done, At, Gated, GoesOn, Sweeping
    <2>. QED
      BY <2>1, Leaving, TouchingKeeps
  <1>4. ASSUME NEW q \in Requests, SubscribeTouch(q)
        PROVE  SessionsInv'
    <2>1. At(q, "subscribe", "touch") /\ req[q].op \in {"initialize"} \cup Gated /\ ~Sweeping(q)
      BY <1>4 DEF SubscribeTouch, At, Gated, Sweeping
    <2>2. PICK r \in RequestRecord : GoesOn(q, r) /\ r = [req[q] EXCEPT !.at = "insert"]
      BY <2>1, Leaving DEF SessionsInv
    <2>3. /\ Goto(q, r) /\ Touch(req[q].sid)
          /\ UNCHANGED <<live, before, idle, minted, closed, raced, poisoned>>
      BY <1>4, <2>2 DEF SubscribeTouch
    <2>. QED
      BY <2>1, <2>2, <2>3, TouchingKeeps
  <1>5. ASSUME NEW q \in Requests, SetLevel(q)
        PROVE  SessionsInv'
    <2>1. /\ Goto(q, Free) /\ req[q] # Free /\ req[q].op # "delete" /\ ~Sweeping(q)
          /\ UNCHANGED <<minted, closed, raced, routes, acked, poisoned>>
      BY <1>5 DEF SetLevel, Done, At, Free, Sweeping
    <2>2. StoreShape' /\ live' \subseteq live
      <3>1. CASE req[q].sid \in live
        <4>1. Refresh(req[q].sid)
          BY <1>5, <3>1 DEF SetLevel
        <4>. QED
          BY <2>1, <3>1, <4>1, RefreshKeepsOrder DEF SessionsInv
      <3>2. CASE req[q].sid \notin live
        BY <1>5, <2>1, <3>2 DEF SetLevel, SessionsInv, StoreShape, InOneOrder
      <3>. QED
        BY <3>1, <3>2
    <2>. QED
      BY <2>1, <2>2, StoreStepsKeep
  <1>6. ASSUME NEW q \in Requests, Panic(q)
        PROVE  SessionsInv'
    <2>1. /\ Goto(q, Free) /\ req[q] # Free /\ poisoned
          /\ UNCHANGED <<live, before, idle, minted, closed, raced, routes, acked, poisoned>>
      BY <1>6 DEF Panic, Done
    <2>2. StoreShape' /\ live' \subseteq live
      BY <2>1 DEF SessionsInv, StoreShape, InOneOrder
    <2>. QED
      BY <2>1, <2>2, StoreStepsKeep
  <1>7. CASE GrowIdle
    <2>1. PICK s \in live \ idle : idle' = idle \cup {s}
      BY <1>7 DEF GrowIdle, LeastRecent
    <2>2. UNCHANGED <<live, before, minted, closed, raced, routes, acked, req, poisoned>>
      BY <1>7 DEF GrowIdle
    <2>3. StoreShape' /\ live' \subseteq live
      BY <2>1, <2>2 DEF SessionsInv, StoreShape, InOneOrder
    <2>. QED
      BY <2>2, <2>3, StoreStepsKeep
  <1>8. CASE UNCHANGED legacyVars
    <2>1. UNCHANGED <<live, before, idle, minted, closed, raced, routes, acked, req, poisoned>>
      BY <1>8 DEF legacyVars
    <2>2. StoreShape' /\ live' \subseteq live
      BY <2>1 DEF SessionsInv, StoreShape, InOneOrder
    <2>. QED
      BY <2>1, <2>2, StoreStepsKeep
  <1>. QED
    BY <1>1, <1>2, <1>3, <1>4, <1>5, <1>6, <1>7, <1>8 DEF LegacyNext

\* What the properties say of the sessions follows.
LEMMA SessionsInvIsEnough == SessionsInv => LegacyTypeOK /\ RoutesFollowSessions
  <1>. SUFFICES ASSUME SessionsInv PROVE LegacyTypeOK /\ RoutesFollowSessions
    OBVIOUS
  <1>1. LegacyTypeOK
    <2>1. routes \in UNION {[R -> SUBSET Uris] : R \in SUBSET Sessions}
      <3>1. Routed \in SUBSET Sessions /\ routes \in [Routed -> SUBSET Uris]
        BY DEF SessionsInv, RouteShape
      <3>. QED
        BY <3>1
    <2>2. \A q \in Requests : req[q].op \in {"none"} \cup AllOperations
      BY RequestKinds DEF SessionsInv, Gated, AllOperations
    <2>3. acked \subseteq Sessions \X Uris
      BY DEF SessionsInv, RequestShape, StoreShape
    <2>. QED
      BY <2>1, <2>2, <2>3 DEF SessionsInv, StoreShape, RouteShape, RequestShape, LegacyTypeOK
  <1>2. ClosedHasNoRoute
    <2>. SUFFICES ASSUME Quiescent, ~poisoned, NEW s \in (closed \ raced) \cap Routed PROVE FALSE
      BY DEF ClosedHasNoRoute
    <2>. QED
      BY DEF SessionsInv, ClosedIsUnrouted, Unrouting, Sweeping, At, Quiescent, Free
  <1>. QED
    BY <1>1, <1>2 DEF RoutesFollowSessions, SessionsInv

\* A live session keeps what it subscribed to, and one that DELETE or a sweep ended
\* has no route (subscriptions.rs and session.rs, which "don't know about each other"),
\* for any number of sessions, requests and places in the two tables.
THEOREM RoutesKeepStep == LegacySpec => []RoutesFollowSessions
  BY SessionsBegin, SessionsStep, SessionsInvIsEnough, PTL DEF LegacySpec

\* Both registries keep their types, and none of their tables outgrows its capacity.
THEOREM RegistriesAreTyped == ClientsSpec => []RegistriesTypeOK
  <1>. DEFINE Inv == SubsInv /\ SessionsInv
              all == <<clients, vars, legacyVars>>
  <1>1. ClientsInit => Inv
    BY SubsBegin, SessionsBegin DEF ClientsInit
  <1>2. Inv /\ [DraftStep \/ LegacyStep]_all => Inv'
    <2>. SUFFICES ASSUME Inv, [DraftStep \/ LegacyStep]_all PROVE Inv'
      OBVIOUS
    <2>1. [Next]_vars /\ [LegacyNext]_legacyVars
      BY DEF DraftStep, LegacyStep
    <2>. QED
      BY <2>1, SubsSteps, SessionsStep
  <1>3. Inv => RegistriesTypeOK
    BY SubsTyped, SessionsInvIsEnough DEF RegistriesTypeOK
  <1>. QED
    BY <1>1, <1>2, <1>3, PTL DEF ClientsSpec
=============================================================================
