------------------------------ MODULE HttpProofs ------------------------------
(***************************************************************************)
(* Proofs about the HTTP transport: a POST's stream carries what it should, *)
(* and its response last, whatever the channel's capacity and however many   *)
(* reporters and GET streams there are; the headers each post takes serve,   *)
(* and a failure is its own caller's, however many posts overtake each       *)
(* other.                                                                    *)
(***************************************************************************)
EXTENDS MCHttp, TLAPS

-----------------------------------------------------------------------------
(* RequestStreams.                                                           *)

\* What the POST stream still holds: its channel, or what is left once the call
\* has returned.
Pending == IF post \in {"run", "stream"} THEN chan ELSE tail

StreamShape ==
    /\ post \in {"run", "stream", "closing", "tail", "closed", "gone"}
    /\ outcome \in {"none", "reply", "error"}
    /\ reporter = [r \in Reporters |-> reporter[r]]
    /\ last \in 0..MaxReports
    /\ writers \in BOOLEAN
    /\ chan \in Seq(Values) /\ Len(chan) <= ChanCap
    /\ tail \in Seq(Values \cup {0})
    /\ accepted \subseteq Reporters \X Values
    /\ getWriter \in Gets \cup {NoStream}
    /\ get \in [Gets -> {"unopened", "open", "ended"}]
    /\ getChan \in [Gets -> Seq(Values)]
    /\ got \in Seq([on : Gets \cup {"post"}, msg : Values \cup {0}])

\* A reporter's value has passed the guard, and nobody has sent it yet.
ReporterCourse(r) ==
    /\ reporter[r].at \in {"idle", "guarded", "holding"}
    /\ reporter[r].at = "idle" => reporter[r] = Idle
    /\ reporter[r].at # "idle" => reporter[r].val \in 1..last
    /\ reporter[r].at = "holding" => reporter[r].to \in Gets \cup {"post"}
    /\ \A v \in Values : <<r, v>> \in accepted =>
         v <= last /\ (reporter[r].at # "idle" => v < reporter[r].val)

Apart(r, s) ==
    reporter[r].at # "idle" =>
        /\ reporter[s].at # "idle" /\ r # s => reporter[r].val # reporter[s].val
        /\ <<s, reporter[r].val>> \notin accepted

\* The response ends what is left, and is nowhere else.
TailCourse ==
    /\ post \notin {"closing", "tail"} => tail = <<>>
    /\ post \in {"closing", "tail"} =>
         /\ tail # <<>>
         /\ \A i \in DOMAIN tail : tail[i] = Final <=> i = Len(tail)
    /\ OnPost(Final) <=> post = "closed"
    /\ outcome = "none" => post \notin {"closing", "tail", "closed"}

\* What was received or is still to come was accepted once, in order.
Sent(v) == \E r \in Reporters : <<r, v>> \in accepted
Both(r, v, w) == <<r, v>> \in accepted /\ <<r, w>> \in accepted
PipelineCourse ==
    /\ \A i \in DOMAIN got : got[i].on = "post" /\ got[i].msg # Final => Sent(got[i].msg)
    /\ \A i \in DOMAIN Pending : Pending[i] # Final => Sent(Pending[i])
    /\ \A r \in Reporters :
        /\ \A i, j \in DOMAIN got :
             i < j /\ got[i].on = "post" /\ got[j].on = "post" /\ Both(r, got[i].msg, got[j].msg)
             => got[i].msg < got[j].msg
        /\ \A i \in DOMAIN got, j \in DOMAIN Pending :
             got[i].on = "post" /\ Both(r, got[i].msg, Pending[j]) => got[i].msg < Pending[j]
        /\ \A i, j \in DOMAIN Pending :
             i < j /\ Both(r, Pending[i], Pending[j]) => Pending[i] < Pending[j]

\* Until a call fails or its client leaves, what the handler sent is on its way.
HandlerCourse ==
    post # "gone" /\ outcome # "error" =>
        \A v \in Values : <<Handler, v>> \in accepted =>
            OnPost(v) \/ \E i \in DOMAIN Pending : Pending[i] = v

StreamInv ==
    /\ StreamShape /\ TailCourse /\ PipelineCourse /\ HandlerCourse /\ ReplyEndsTheStream
    /\ \A r \in Reporters : ReporterCourse(r)
    /\ \A r, s \in Reporters : Apart(r, s)

-----------------------------------------------------------------------------
Item == [on : Gets \cup {"post"}, msg : Values \cup {0}]

\* The parts that only say where the channels and the reporters are.
LEMMA InitStream == Init => StreamInv
  <1> SUFFICES ASSUME Init PROVE StreamInv
    OBVIOUS
  <1> USE StreamsAssumption DEF Init
  <1>1. StreamShape
    BY DEF StreamShape, Reporters, Values, Idle
  <1>2. TailCourse /\ PipelineCourse /\ HandlerCourse /\ ReplyEndsTheStream
    BY DEF TailCourse, PipelineCourse, HandlerCourse, ReplyEndsTheStream, OnPost, Pending
  <1>3. \A r \in Reporters : ReporterCourse(r)
    BY DEF ReporterCourse, Idle
  <1>4. \A r, s \in Reporters : Apart(r, s)
    BY DEF Apart, Idle
  <1> QED
    BY <1>1, <1>2, <1>3, <1>4 DEF StreamInv

\* What is pending is a sequence of values, with the response last if anywhere.
LEMMA PendingShape ==
  ASSUME StreamInv
  PROVE  /\ Pending \in Seq(Values \cup {0})
         /\ \A i \in DOMAIN Pending : Pending[i] = Final => i = Len(Pending)
         /\ post \in {"run", "stream"} => \A i \in DOMAIN Pending : Pending[i] # Final
  <1> USE DEF StreamInv, StreamShape, TailCourse, Pending, Values, Final
  <1>1. CASE post \in {"run", "stream"}
    <2>1. Pending = chan /\ chan \in Seq(1..MaxReports) /\ MaxReports \in Nat
      BY <1>1, StreamsAssumption
    <2>2. \A i \in DOMAIN chan : chan[i] \in 1..MaxReports
      BY <2>1
    <2> QED
      BY <2>1, <2>2
  <1>2. CASE post \in {"closing", "tail"}
    BY <1>2
  <1>3. CASE post \in {"closed", "gone"}
    BY <1>3
  <1> QED
    BY <1>1, <1>2, <1>3

\* Upgrade, the stream and its rest: the first of what is pending is received.
LEMMA Received ==
  ASSUME StreamInv, Pending # <<>>, Pending' = Tail(Pending),
         got' = Append(got, [on |-> "post", msg |-> Head(Pending)]),
         UNCHANGED <<accepted, outcome>>, post # "gone"
  PROVE  PipelineCourse' /\ HandlerCourse' /\ got' \in Seq(Item)
  <1>0. /\ Pending \in Seq(Values \cup {0}) /\ got \in Seq(Item)
        /\ \A i \in DOMAIN Pending : Pending[i] = Final => i = Len(Pending)
    BY PendingShape DEF StreamInv, StreamShape, Item
  <1> DEFINE item == [on |-> "post", msg |-> Head(Pending)]
             n == Len(got)
  <1>1. item \in Item /\ Head(Pending) = Pending[1] /\ 1 \in DOMAIN Pending
    BY <1>0 DEF Item
  <1>2. /\ DOMAIN got' = 1..(n + 1) /\ DOMAIN got = 1..n /\ n \in Nat
        /\ got'[n + 1].on = "post" /\ got'[n + 1].msg = Pending[1]
        /\ \A i \in 1..n : got'[i] = got[i]
    BY <1>0, <1>1
  <1>2a. got' \in Seq(Item)
    BY <1>0, <1>1
  <1>3. /\ Pending' \in Seq(Values \cup {0})
        /\ \A i \in DOMAIN Pending' : i + 1 \in DOMAIN Pending /\ i \in Nat /\ i + 1 > 1
                                       /\ Pending'[i] = Pending[i + 1]
        /\ \A i \in DOMAIN Pending : i \in Nat /\ (i # 1 => i - 1 \in DOMAIN Pending')
    BY <1>0, <1>1
  <1> HIDE DEF item, n
  <1>4. PipelineCourse
    BY DEF StreamInv
  <1>5. \A i \in DOMAIN got' : got'[i].on = "post" /\ got'[i].msg # Final => Sent(got'[i].msg)
    BY <1>1, <1>2, <1>4 DEF PipelineCourse, Sent
  <1>6. \A i \in DOMAIN Pending' : Pending'[i] # Final => Sent(Pending'[i])
    BY <1>3, <1>4 DEF PipelineCourse, Sent
  <1>7. ASSUME NEW r \in Reporters
        PROVE  /\ \A i, j \in DOMAIN got' :
                    i < j /\ got'[i].on = "post" /\ got'[j].on = "post"
                    /\ Both(r, got'[i].msg, got'[j].msg) => got'[i].msg < got'[j].msg
               /\ \A i \in DOMAIN got', j \in DOMAIN Pending' :
                    got'[i].on = "post" /\ Both(r, got'[i].msg, Pending'[j])
                    => got'[i].msg < Pending'[j]
               /\ \A i, j \in DOMAIN Pending' :
                    i < j /\ Both(r, Pending'[i], Pending'[j]) => Pending'[i] < Pending'[j]
    <2>a. \A i, j \in DOMAIN got :
             i < j /\ got[i].on = "post" /\ got[j].on = "post" /\ Both(r, got[i].msg, got[j].msg)
             => got[i].msg < got[j].msg
      BY <1>4 DEF PipelineCourse
    <2>b. \A i \in DOMAIN got, j \in DOMAIN Pending :
             got[i].on = "post" /\ Both(r, got[i].msg, Pending[j]) => got[i].msg < Pending[j]
      BY <1>4 DEF PipelineCourse
    <2>c. \A i, j \in DOMAIN Pending :
             i < j /\ Both(r, Pending[i], Pending[j]) => Pending[i] < Pending[j]
      BY <1>4 DEF PipelineCourse
    <2>1. \A i, j \in DOMAIN got' :
                    i < j /\ got'[i].on = "post" /\ got'[j].on = "post"
                    /\ Both(r, got'[i].msg, got'[j].msg) => got'[i].msg < got'[j].msg
      BY <1>1, <1>2, <2>a, <2>b
    <2>2. \A i \in DOMAIN got', j \in DOMAIN Pending' :
                    got'[i].on = "post" /\ Both(r, got'[i].msg, Pending'[j])
                    => got'[i].msg < Pending'[j]
      BY <1>1, <1>2, <1>3, <2>b, <2>c
    <2>3. \A i, j \in DOMAIN Pending' :
                    i < j /\ Both(r, Pending'[i], Pending'[j]) => Pending'[i] < Pending'[j]
      BY <1>3, <2>c
    <2> QED
      BY <2>1, <2>2, <2>3
  <1>8. PipelineCourse'
    BY <1>5, <1>6, <1>7 DEF PipelineCourse, Sent, Both
  <1>9. ASSUME outcome # "error", NEW v \in Values, <<Handler, v>> \in accepted
        PROVE  OnPost(v)' \/ \E i \in DOMAIN Pending' : Pending'[i] = v
    <2>1. OnPost(v) \/ \E i \in DOMAIN Pending : Pending[i] = v
      BY <1>9 DEF StreamInv, HandlerCourse
    <2>2. CASE OnPost(v)
      <3>1. PICK i \in DOMAIN got : got[i] = [on |-> "post", msg |-> v]
        BY <2>2 DEF OnPost
      <3>2. i \in DOMAIN got' /\ got'[i] = [on |-> "post", msg |-> v]
        BY <3>1, <1>2
      <3> QED
        BY <3>2 DEF OnPost
    <2>3. CASE \E i \in DOMAIN Pending : Pending[i] = v
      <3>1. PICK i \in DOMAIN Pending : Pending[i] = v
        BY <2>3
      <3>2. CASE i = 1
        <4>1. got'[n + 1] = [on |-> "post", msg |-> v] /\ n + 1 \in DOMAIN got'
          BY <3>1, <3>2, <1>0, <1>1, <1>2 DEF item, n
        <4> QED
          BY <4>1 DEF OnPost
      <3>3. CASE i # 1
        <4>1. i - 1 \in DOMAIN Pending' /\ Pending'[i - 1] = Pending[(i - 1) + 1] /\ (i - 1) + 1 = i
          BY <3>1, <3>3, <1>3
        <4> QED
          BY <4>1, <3>1
      <3> QED
        BY <3>2, <3>3
    <2> QED
      BY <2>1, <2>2, <2>3
  <1>10. HandlerCourse'
    BY <1>9 DEF HandlerCourse
  <1> QED
    BY <1>2a, <1>8, <1>10

\* A send: the value is new, and above whatever its reporter sent before.
LEMMA Accepted ==
  ASSUME StreamInv, NEW r \in Reporters, NEW v, reporter[r].at # "idle", v = reporter[r].val,
         accepted' = accepted \cup {<<r, v>>}, UNCHANGED <<got, outcome, post>>,
         \/ post \in {"run", "stream"} /\ Pending' = Append(Pending, v)
         \/ r # Handler /\ Pending' = Pending
  PROVE  PipelineCourse' /\ HandlerCourse' /\ v \in Values /\ v <= last
  <1>0. /\ v \in 1..last /\ last \in 0..MaxReports /\ MaxReports \in Nat
        /\ \A w \in Values : <<r, w>> \in accepted => w < v
        /\ accepted \subseteq Reporters \X Values
        /\ Apart(r, r)
        /\ \A t \in Reporters : Apart(r, t)
    BY StreamsAssumption DEF StreamInv, StreamShape, ReporterCourse
  <1>0a. v \in Values /\ v # Final /\ v <= last
    BY <1>0 DEF Values, Final
  <1>1. \A t \in Reporters : <<t, v>> \notin accepted
    BY <1>0 DEF Apart
  <1>1a. \A w : <<r, w>> \in accepted => w < v
    BY <1>0
  <1>2. PipelineCourse /\ HandlerCourse
    BY DEF StreamInv
  <1>3. /\ Pending \in Seq(Values \cup {0})
        /\ post \in {"run", "stream"} => \A i \in DOMAIN Pending : Pending[i] # Final
    BY PendingShape
  <1>4. \A i \in DOMAIN got : got[i].on = "post" => got[i].msg # v
    BY <1>0a, <1>1, <1>2 DEF PipelineCourse, Sent
  <1>5. \A i \in DOMAIN Pending : Pending[i] # v
    BY <1>0a, <1>1, <1>2 DEF PipelineCourse, Sent
  <1> DEFINE n == Len(Pending)
             grown == post \in {"run", "stream"} /\ Pending' = Append(Pending, v)
  <1>6. n \in Nat /\ DOMAIN Pending = 1..n
    BY <1>3
  <1>7. /\ grown => /\ DOMAIN Pending' = 1..(n + 1) /\ Pending'[n + 1] = v
                    /\ \A i \in 1..n : Pending'[i] = Pending[i]
        /\ ~grown => Pending' = Pending /\ r # Handler
    BY <1>3, <1>0a
  <1> HIDE DEF n, grown
  <1>8. \A i \in DOMAIN Pending' :
          \/ i \in DOMAIN Pending /\ Pending'[i] = Pending[i]
          \/ Pending'[i] = v /\ grown /\ i = n + 1
    <2> SUFFICES ASSUME NEW i \in DOMAIN Pending'
                 PROVE  \/ i \in DOMAIN Pending /\ Pending'[i] = Pending[i]
                        \/ Pending'[i] = v /\ grown /\ i = n + 1
      OBVIOUS
    <2>1. CASE ~grown
      <3>1. Pending' = Pending
        BY <2>1, <1>7
      <3> QED
        BY <3>1
    <2>2. CASE grown
      <3>1. i \in 1..(n + 1) /\ Pending'[n + 1] = v /\ \A j \in 1..n : Pending'[j] = Pending[j]
        BY <2>2, <1>7
      <3>2. i \in 1..n \/ i = n + 1
        BY <3>1, <1>6
      <3> QED
        BY <3>1, <3>2, <2>2, <1>6
    <2> QED
      BY <2>1, <2>2
  <1>9. \A i \in DOMAIN got : got[i].on = "post" /\ got[i].msg # Final
            => \E t \in Reporters : <<t, got[i].msg>> \in accepted'
    BY <1>2 DEF PipelineCourse, Sent
  <1>10. \A i \in DOMAIN Pending' : Pending'[i] # Final
            => \E t \in Reporters : <<t, Pending'[i]>> \in accepted'
    BY <1>2, <1>8 DEF PipelineCourse, Sent
  <1>11. ASSUME NEW t \in Reporters
         PROVE  /\ \A i, j \in DOMAIN got :
                     i < j /\ got[i].on = "post" /\ got[j].on = "post"
                     /\ <<t, got[i].msg>> \in accepted' /\ <<t, got[j].msg>> \in accepted'
                     => got[i].msg < got[j].msg
                /\ \A i \in DOMAIN got, j \in DOMAIN Pending' :
                     got[i].on = "post"
                     /\ <<t, got[i].msg>> \in accepted' /\ <<t, Pending'[j]>> \in accepted'
                     => got[i].msg < Pending'[j]
                /\ \A i, j \in DOMAIN Pending' :
                     i < j /\ <<t, Pending'[i]>> \in accepted' /\ <<t, Pending'[j]>> \in accepted'
                     => Pending'[i] < Pending'[j]
    <2>0. \A w : <<t, w>> \in accepted' => (w = v /\ t = r) \/ <<t, w>> \in accepted
      BY <1>0
    <2>1. \A i, j \in DOMAIN got :
             i < j /\ got[i].on = "post" /\ got[j].on = "post"
             /\ <<t, got[i].msg>> \in accepted /\ <<t, got[j].msg>> \in accepted
             => got[i].msg < got[j].msg
      BY <1>2 DEF PipelineCourse, Both
    <2>2. \A i \in DOMAIN got, j \in DOMAIN Pending :
             got[i].on = "post" /\ <<t, got[i].msg>> \in accepted /\ <<t, Pending[j]>> \in accepted
             => got[i].msg < Pending[j]
      BY <1>2 DEF PipelineCourse, Both
    <2>3. \A i, j \in DOMAIN Pending :
             i < j /\ <<t, Pending[i]>> \in accepted /\ <<t, Pending[j]>> \in accepted
             => Pending[i] < Pending[j]
      BY <1>2 DEF PipelineCourse, Both
    <2>4. ASSUME NEW i \in DOMAIN got, NEW j \in DOMAIN got, i < j,
                 got[i].on = "post", got[j].on = "post",
                 <<t, got[i].msg>> \in accepted', <<t, got[j].msg>> \in accepted'
          PROVE  got[i].msg < got[j].msg
      BY <2>0, <2>1, <2>4, <1>4
    <2>5. ASSUME NEW i \in DOMAIN got, NEW j \in DOMAIN Pending', got[i].on = "post",
                 <<t, got[i].msg>> \in accepted', <<t, Pending'[j]>> \in accepted'
          PROVE  got[i].msg < Pending'[j]
      <3>1. <<t, got[i].msg>> \in accepted
        BY <2>0, <2>5, <1>4
      <3>2. CASE j \in DOMAIN Pending /\ Pending'[j] = Pending[j]
        BY <3>1, <3>2, <2>0, <2>2, <2>5, <1>5
      <3>3. CASE Pending'[j] = v
        <4>1. t = r
          BY <3>3, <2>5, <2>0, <1>1
        <4> QED
          BY <4>1, <3>1, <3>3, <1>1a
      <3> QED
        BY <3>2, <3>3, <1>8
    <2>6. ASSUME NEW i \in DOMAIN Pending', NEW j \in DOMAIN Pending', i < j,
                 <<t, Pending'[i]>> \in accepted', <<t, Pending'[j]>> \in accepted'
          PROVE  Pending'[i] < Pending'[j]
      <3>1. i \in DOMAIN Pending /\ Pending'[i] = Pending[i]
        <4>1. i # n + 1 \/ ~grown
          BY <2>6, <1>6, <1>7
        <4> QED
          BY <4>1, <1>8
      <3>2. <<t, Pending[i]>> \in accepted
        BY <3>1, <2>0, <2>6, <1>5
      <3>3. CASE j \in DOMAIN Pending /\ Pending'[j] = Pending[j]
        BY <3>1, <3>2, <3>3, <2>0, <2>3, <2>6, <1>5
      <3>4. CASE Pending'[j] = v
        <4>1. t = r
          BY <3>4, <2>6, <2>0, <1>1
        <4> QED
          BY <4>1, <3>1, <3>2, <3>4, <1>1a
      <3> QED
        BY <3>3, <3>4, <1>8
    <2> QED
      BY <2>4, <2>5, <2>6
  <1>12. PipelineCourse'
    BY <1>9, <1>10, <1>11 DEF PipelineCourse, Sent, Both
  <1>13. ASSUME post # "gone", outcome # "error", NEW w \in Values, <<Handler, w>> \in accepted'
         PROVE  OnPost(w)' \/ \E i \in DOMAIN Pending' : Pending'[i] = w
    <2>1. CASE <<Handler, w>> \in accepted
      <3>1. OnPost(w) \/ \E i \in DOMAIN Pending : Pending[i] = w
        BY <2>1, <1>13, <1>2 DEF HandlerCourse
      <3>2. CASE OnPost(w)
        BY <3>2 DEF OnPost
      <3>3. CASE \E i \in DOMAIN Pending : Pending[i] = w
        <4>1. PICK i \in DOMAIN Pending : Pending[i] = w
          BY <3>3
        <4>2. i \in DOMAIN Pending' /\ Pending'[i] = w
          BY <4>1, <1>6, <1>7
        <4> QED
          BY <4>2
      <3> QED
        BY <3>1, <3>2, <3>3
    <2>2. CASE r = Handler /\ w = v
      <3>1. n + 1 \in DOMAIN Pending' /\ Pending'[n + 1] = v
        BY <2>2, <1>6, <1>7
      <3> QED
        BY <3>1, <2>2
    <2>3. <<Handler, w>> = <<r, v>> \/ <<Handler, w>> \in accepted
      BY <1>13
    <2> QED
      BY <2>1, <2>2, <2>3
  <1>14. HandlerCourse'
    BY <1>13 DEF HandlerCourse
  <1> QED
    BY <1>0a, <1>12, <1>14

\* What takes no part in the pipeline leaves its facts alone.
LEMMA PipelineKept ==
  ASSUME StreamInv, UNCHANGED <<got, accepted>>, Pending' = Pending,
         post' = "gone" \/ (post' # "gone" /\ post # "gone"),
         outcome' = outcome \/ outcome = "none"
  PROVE  PipelineCourse' /\ HandlerCourse'
  <1>1. PipelineCourse'
    BY DEF StreamInv, PipelineCourse, Sent, Both
  <1>2. HandlerCourse'
    BY DEF StreamInv, HandlerCourse, OnPost
  <1> QED
    BY <1>1, <1>2

\* Where a reporter is when its own step leaves the others alone.
LEMMA ReporterMoves ==
  ASSUME StreamInv, NEW r \in Reporters, NEW q, reporter' = [reporter EXCEPT ![r] = q],
         UNCHANGED <<last, accepted>>,
         \/ q = Idle
         \/ /\ reporter[r].at # "idle" /\ q.val = reporter[r].val
            /\ q.at = "holding" /\ q.to \in Gets \cup {"post"}
  PROVE  /\ reporter' = [s \in Reporters |-> reporter'[s]]
         /\ \A s \in Reporters : ReporterCourse(s)'
         /\ \A s, t \in Reporters : Apart(s, t)'
  <1>1. /\ reporter = [s \in Reporters |-> reporter[s]]
        /\ \A s \in Reporters : ReporterCourse(s)
        /\ \A s, t \in Reporters : Apart(s, t)
    BY DEF StreamInv, StreamShape
  <1>2. /\ reporter' = [s \in Reporters |-> reporter'[s]]
        /\ reporter'[r] = q
        /\ \A s \in Reporters : s # r => reporter'[s] = reporter[s]
    BY <1>1
  <1>3. ASSUME NEW s \in Reporters PROVE ReporterCourse(s)'
    <2>1. CASE s # r
      BY <2>1, <1>1, <1>2 DEF ReporterCourse
    <2>2. CASE s = r
      BY <2>2, <1>1, <1>2 DEF ReporterCourse, Idle
    <2> QED
      BY <2>1, <2>2
  <1>4. ASSUME NEW s \in Reporters, NEW t \in Reporters PROVE Apart(s, t)'
    <2>1. \A u \in Reporters : reporter'[u].at # "idle" =>
             reporter[u].at # "idle" /\ reporter'[u].val = reporter[u].val
      BY <1>2 DEF Idle
    <2>2. Apart(s, t)
      BY <1>1
    <2> QED
      BY <2>1, <2>2 DEF Apart
  <1> QED
    BY <1>2, <1>3, <1>4

\* The guard lets through a value nobody else has or had.
LEMMA Guarded ==
  ASSUME StreamInv, NEW r \in Reporters, PassGuard(r)
  PROVE  StreamInv'
  <1> USE DEF PassGuard, postVars, getVars
  <1> DEFINE q == [at |-> "guarded", val |-> last + 1]
  <1>1. /\ reporter = [s \in Reporters |-> reporter[s]]
        /\ \A s \in Reporters : ReporterCourse(s)
        /\ \A s, t \in Reporters : Apart(s, t)
        /\ last \in Nat /\ MaxReports \in Nat /\ last < MaxReports /\ last' = last + 1
        /\ accepted \subseteq Reporters \X Values
    BY StreamsAssumption DEF StreamInv, StreamShape
  <1>2. /\ reporter' = [s \in Reporters |-> reporter'[s]]
        /\ reporter'[r].at = "guarded" /\ reporter'[r].val = last + 1
        /\ \A s \in Reporters : s # r => reporter'[s] = reporter[s]
    BY <1>1
  <1>2a. \A s \in Reporters, v \in Values : <<s, v>> \in accepted => v <= last /\ v \in Nat
    BY <1>1 DEF ReporterCourse, Values
  <1>2b. \A s \in Reporters : reporter[s].at # "idle" => reporter[s].val \in 1..last
    BY <1>1 DEF ReporterCourse
  <1>3. ASSUME NEW s \in Reporters PROVE ReporterCourse(s)'
    <2>0. accepted' = accepted
      OBVIOUS
    <2>1. CASE s # r
      <3>1. reporter'[s] = reporter[s] /\ ReporterCourse(s)
        BY <2>1, <1>1, <1>2
      <3> QED
        BY <3>1, <2>0, <1>1, <1>2a DEF ReporterCourse
    <2>2. CASE s = r
      <3>1. \A v \in Values : <<s, v>> \in accepted' => v <= last' /\ v < last + 1
        BY <2>0, <1>1, <1>2a
      <3> QED
        BY <3>1, <2>2, <1>1, <1>2 DEF ReporterCourse
    <2> QED
      BY <2>1, <2>2
  <1>4. ASSUME NEW s \in Reporters, NEW t \in Reporters PROVE Apart(s, t)'
    <2>1. Apart(s, t)
      BY <1>1
    <2>2. <<t, last + 1>> \notin accepted
      <3>1. last + 1 \in Values
        BY <1>1 DEF Values
      <3> QED
        BY <3>1, <1>1, <1>2a
    <2>3. accepted' = accepted
      OBVIOUS
    <2>4. CASE s = r
      <3>1. t # r /\ reporter[t].at # "idle" => reporter[t].val # last + 1
        BY <1>2b, <1>1
      <3> QED
        BY <3>1, <2>2, <2>3, <2>4, <1>2 DEF Apart
    <2>5. CASE s # r /\ t = r
      <3>1. reporter[s].at # "idle" => reporter[s].val # last + 1
        BY <1>2b, <1>1
      <3> QED
        BY <3>1, <2>1, <2>3, <2>5, <1>2 DEF Apart
    <2>6. CASE s # r /\ t # r
      BY <2>1, <2>3, <2>6, <1>2 DEF Apart
    <2> QED
      BY <2>4, <2>5, <2>6
  <1>5. Pending' = Pending /\ TailCourse' /\ ReplyEndsTheStream'
    BY DEF StreamInv, TailCourse, ReplyEndsTheStream, OnPost, Pending
  <1>6. PipelineCourse' /\ HandlerCourse'
    <2>1. post # "gone" \/ post' = "gone"
      OBVIOUS
    <2> QED
      BY <1>5, <2>1, PipelineKept
  <1>7. StreamShape'
    <2>1. last' \in 0..MaxReports
      BY <1>1
    <2> QED
      BY <2>1, <1>2 DEF StreamInv, StreamShape
  <1> QED
    BY <1>3, <1>4, <1>5, <1>6, <1>7 DEF StreamInv

\* A reporter looks up its writer, and sends on what it found.
LEMMA ReporterPreserves ==
  ASSUME StreamInv, NEW r \in Reporters, ReporterStep(r)
  PROVE  StreamInv'
  <1> USE DEF postVars, getVars
  <1>0. StreamShape /\ TailCourse /\ PipelineCourse /\ HandlerCourse /\ ReplyEndsTheStream
    BY DEF StreamInv
  <1>1. CASE LookUp(r)
    <2> DEFINE q == IF Writer = NoStream THEN Idle
                    ELSE [at |-> "holding", val |-> reporter[r].val, to |-> Writer]
    <2>0. reporter' = [reporter EXCEPT ![r] = q] /\ reporter[r].at = "guarded"
          /\ UNCHANGED <<last, accepted, got, post, outcome, chan, tail, writers, getWriter, get, getChan>>
      BY <1>1 DEF LookUp
    <2>1. q = Idle \/ (q.at = "holding" /\ q.val = reporter[r].val /\ q.to \in Gets \cup {"post"})
      BY <1>0, StreamsAssumption DEF Writer, StreamShape
    <2> HIDE DEF q
    <2>2. /\ reporter' = [s \in Reporters |-> reporter'[s]]
          /\ \A s \in Reporters : ReporterCourse(s)'
          /\ \A s, t \in Reporters : Apart(s, t)'
      BY <2>0, <2>1, ReporterMoves
    <2>3. Pending' = Pending /\ TailCourse' /\ ReplyEndsTheStream'
      BY <2>0, <1>0 DEF TailCourse, ReplyEndsTheStream, OnPost, Pending
    <2>4. PipelineCourse' /\ HandlerCourse'
      BY <2>0, <2>3, PipelineKept
    <2>5. StreamShape'
      BY <2>0, <2>2, <1>0 DEF StreamShape
    <2> QED
      BY <2>2, <2>3, <2>4, <2>5 DEF StreamInv
  <1>2. CASE SendOnPost(r)
    <2> DEFINE v == reporter[r].val
    <2>0. reporter' = [reporter EXCEPT ![r] = Idle] /\ reporter[r].at = "holding" /\ CanRun(r)
          /\ UNCHANGED <<last, got, post, outcome, tail, writers, getWriter, get, getChan>>
          /\ IF Listening THEN Len(chan) < ChanCap /\ chan' = Append(chan, v)
                               /\ accepted' = accepted \cup {<<r, v>>}
             ELSE chan' = chan /\ accepted' = accepted
      BY <1>2 DEF SendOnPost
    <2>1. CASE ~Listening
      <3>1. /\ reporter' = [s \in Reporters |-> reporter'[s]]
            /\ \A s \in Reporters : ReporterCourse(s)'
            /\ \A s, t \in Reporters : Apart(s, t)'
        BY <2>0, <2>1, ReporterMoves
      <3>2. Pending' = Pending /\ TailCourse' /\ ReplyEndsTheStream'
        BY <2>0, <2>1, <1>0 DEF TailCourse, ReplyEndsTheStream, OnPost, Pending
      <3>3. PipelineCourse' /\ HandlerCourse'
        BY <2>0, <2>1, <3>2, PipelineKept
      <3>4. StreamShape'
        BY <2>0, <2>1, <3>1, <1>0 DEF StreamShape
      <3> QED
        BY <3>1, <3>2, <3>3, <3>4 DEF StreamInv
    <2>2. CASE Listening
      <3>1. \/ post \in {"run", "stream"} /\ Pending' = Append(Pending, v)
            \/ r # Handler /\ Pending' = Pending
        BY <2>0, <2>2 DEF Listening, CanRun, Pending
      <3>2. accepted' = accepted \cup {<<r, v>>} /\ reporter[r].at # "idle"
        BY <2>0, <2>2
      <3>3. PipelineCourse' /\ HandlerCourse' /\ v \in Values /\ v <= last
        BY <2>0, <3>1, <3>2, Accepted
      <3>4. TailCourse' /\ ReplyEndsTheStream'
        BY <2>0, <1>0 DEF TailCourse, ReplyEndsTheStream, OnPost
      <3>5. /\ reporter = [s \in Reporters |-> reporter[s]]
            /\ \A s \in Reporters : ReporterCourse(s)
            /\ \A s, t \in Reporters : Apart(s, t)
        BY DEF StreamInv, StreamShape
      <3>6. /\ reporter' = [s \in Reporters |-> reporter'[s]]
            /\ reporter'[r] = Idle
            /\ \A s \in Reporters : s # r => reporter'[s] = reporter[s]
        BY <2>0, <3>5
      <3> HIDE DEF v
      <3>7. ASSUME NEW s \in Reporters PROVE ReporterCourse(s)'
        <4>1. CASE s # r
          <5>1. ReporterCourse(s) /\ reporter'[s] = reporter[s] /\ last' = last
            BY <4>1, <3>5, <3>6, <2>0
          <5>2. \A w : <<s, w>> \in accepted' => <<s, w>> \in accepted
            BY <4>1, <3>2
          <5> QED
            BY <5>1, <5>2 DEF ReporterCourse
        <4>2. CASE s = r
          <5>1. \A w \in Values : <<s, w>> \in accepted' => w <= last'
            BY <4>2, <3>2, <3>3, <3>5, <2>0 DEF ReporterCourse
          <5> QED
            BY <5>1, <4>2, <3>6 DEF ReporterCourse, Idle
        <4> QED
          BY <4>1, <4>2
      <3>8. ASSUME NEW s \in Reporters, NEW t \in Reporters PROVE Apart(s, t)'
        <4>1. CASE s = r
          BY <4>1, <3>6 DEF Apart, Idle
        <4>2. CASE s # r
          <5>1. reporter'[s] = reporter[s] /\ Apart(s, t)
            BY <4>2, <3>5, <3>6
          <5>2. reporter[s].at # "idle" => reporter[s].val # v
            BY <4>2, <3>2, <3>5 DEF Apart, v
          <5>3. reporter[s].at # "idle" => <<t, reporter[s].val>> \notin accepted'
            BY <5>1, <5>2, <3>2 DEF Apart
          <5>4. reporter'[t].at # "idle" => reporter'[t] = reporter[t]
            BY <3>6 DEF Idle
          <5> QED
            BY <5>1, <5>3, <5>4 DEF Apart
        <4> QED
          BY <4>1, <4>2
      <3>9. StreamShape'
        <4>1. accepted' \subseteq Reporters \X Values
          BY <3>2, <3>3, <1>0 DEF StreamShape
        <4>2. chan' \in Seq(Values) /\ Len(chan') <= ChanCap
          <5>1. chan \in Seq(Values) /\ chan' = Append(chan, v) /\ Len(chan) < ChanCap
            BY <2>0, <2>2, <1>0 DEF StreamShape, v
          <5> QED
            BY <5>1, <3>3, StreamsAssumption
        <4> QED
          BY <4>1, <4>2, <3>6, <2>0, <1>0 DEF StreamShape
      <3> QED
        BY <3>3, <3>4, <3>7, <3>8, <3>9 DEF StreamInv
    <2> QED
      BY <2>1, <2>2
  <1>3. ASSUME NEW g \in Gets, SendOnGet(r, g) PROVE StreamInv'
    <2> DEFINE v == reporter[r].val
    <2>0. reporter' = [reporter EXCEPT ![r] = Idle] /\ reporter[r].at = "holding"
          /\ UNCHANGED <<last, accepted, got, post, outcome, chan, tail, writers, getWriter, get>>
          /\ (getChan' = getChan \/ getChan' = [getChan EXCEPT ![g] = Append(@, v)])
      BY <1>3 DEF SendOnGet
    <2>1. v \in Values
      BY <2>0, <1>0, StreamsAssumption DEF StreamInv, StreamShape, ReporterCourse, Values
    <2> HIDE DEF v
    <2>2. /\ reporter' = [s \in Reporters |-> reporter'[s]]
          /\ \A s \in Reporters : ReporterCourse(s)'
          /\ \A s, t \in Reporters : Apart(s, t)'
      BY <2>0, ReporterMoves
    <2>3. Pending' = Pending /\ TailCourse' /\ ReplyEndsTheStream'
      BY <2>0, <1>0 DEF TailCourse, ReplyEndsTheStream, OnPost, Pending
    <2>4. PipelineCourse' /\ HandlerCourse'
      BY <2>0, <2>3, PipelineKept
    <2>5. getChan' \in [Gets -> Seq(Values)]
      <3>1. getChan \in [Gets -> Seq(Values)]
        BY <1>0 DEF StreamShape
      <3>2. Append(getChan[g], v) \in Seq(Values)
        BY <3>1, <2>1
      <3> DEFINE longer == Append(getChan[g], v)
      <3>3. getChan' = getChan \/ getChan' = [getChan EXCEPT ![g] = longer]
        BY <2>0
      <3> HIDE DEF longer
      <3>4. longer \in Seq(Values)
        BY <3>2 DEF longer
      <3> QED
        BY <3>1, <3>3, <3>4
    <2>6. StreamShape'
      BY <2>0, <2>2, <2>5, <1>0 DEF StreamShape
    <2> QED
      BY <2>2, <2>3, <2>4, <2>6 DEF StreamInv
  <1> QED
    BY <1>1, <1>2, <1>3 DEF ReporterStep, StreamInv

\* The steps of the response, the call that returns, and the client that leaves.
LEMMA PostPreserves ==
  ASSUME StreamInv, HandlerReturns \/ PostStep \/ Disconnect
  PROVE  StreamInv'
  <1> USE DEF postVars, getVars
  <1>0. /\ StreamShape /\ TailCourse /\ PipelineCourse /\ HandlerCourse /\ ReplyEndsTheStream
        /\ \A r \in Reporters : ReporterCourse(r)
        /\ \A r, s \in Reporters : Apart(r, s)
    BY DEF StreamInv
  <1>0a. Handler \in Reporters
    BY DEF Reporters
  <1>1. ASSUME UNCHANGED <<reporter, last, accepted>>
        PROVE  /\ \A r \in Reporters : ReporterCourse(r)'
               /\ \A r, s \in Reporters : Apart(r, s)'
    <2>1. \A r \in Reporters : ReporterCourse(r)'
      BY <1>0, <1>1 DEF ReporterCourse
    <2>2. \A r, s \in Reporters : Apart(r, s)'
      BY <1>0, <1>1 DEF Apart
    <2> QED
      BY <2>1, <2>2
  <1>2. CASE HandlerReturns
    <2>0. UNCHANGED <<post, writers, chan, tail, accepted, reporter, last, getWriter, get, getChan, got>>
          /\ outcome = "none" /\ outcome' \in {"reply", "error"} /\ post \in {"run", "stream"}
      BY <1>2, <1>0a DEF HandlerReturns, CanRun
    <2>1. StreamShape' /\ TailCourse' /\ ReplyEndsTheStream' /\ Pending' = Pending
      BY <2>0, <1>0 DEF StreamShape, TailCourse, ReplyEndsTheStream, OnPost, Pending
    <2>2. PipelineCourse' /\ HandlerCourse'
      BY <2>0, <2>1, PipelineKept
    <2> QED
      BY <2>0, <2>1, <2>2, <1>1 DEF StreamInv
  <1>3. CASE Upgrade \/ StreamNext
    <2>0. UNCHANGED <<outcome, writers, tail, accepted, reporter, last, getWriter, get, getChan>>
          /\ post \in {"run", "stream"} /\ post' = "stream" /\ chan # <<>> /\ chan' = Tail(chan)
          /\ got' = Append(got, [on |-> "post", msg |-> Head(chan)])
      BY <1>3 DEF Upgrade, StreamNext, Receive
    <2>1. Pending = chan /\ Pending' = chan' /\ post # "gone" /\ post' # "gone"
      BY <2>0 DEF Pending
    <2>2. PipelineCourse' /\ HandlerCourse' /\ got' \in Seq(Item)
      BY <2>0, <2>1, Received
    <2>3. /\ chan \in Seq(Values) /\ Len(chan) <= ChanCap /\ got \in Seq(Item)
          /\ ChanCap \in Nat /\ chan # <<>>
      BY <1>0, <2>0, StreamsAssumption DEF StreamShape, Item
    <2>4. Head(chan) \in Values /\ Head(chan) # Final /\ Final \notin Values
      BY <2>3, StreamsAssumption DEF Values, Final
    <2>5. chan' \in Seq(Values) /\ Len(chan') <= ChanCap
      BY <2>0, <2>3
    <2>6. StreamShape'
      BY <2>0, <2>2, <2>5, <1>0 DEF StreamShape, Item
    <2> DEFINE n == Len(got)
    <2>7. /\ n \in Nat /\ DOMAIN got = 1..n /\ DOMAIN got' = 1..(n + 1)
          /\ \A i \in 1..n : got'[i] = got[i]
          /\ got'[n + 1].msg = Head(chan) /\ got'[n + 1].on = "post"
      <3>1. [on |-> "post", msg |-> Head(chan)] \in Item
        BY <2>4 DEF Item
      <3> QED
        BY <3>1, <2>0, <2>3
    <2> HIDE DEF n
    <2>8. \A i \in DOMAIN got : got[i] # [on |-> "post", msg |-> Final]
      BY <1>0, <2>0 DEF TailCourse, OnPost
    <2>9. \A i \in DOMAIN got' : got'[i] # [on |-> "post", msg |-> Final]
      BY <2>4, <2>7, <2>8
    <2>10. TailCourse' /\ ReplyEndsTheStream'
      BY <2>9, <2>0, <1>0 DEF TailCourse, ReplyEndsTheStream, OnPost
    <2> QED
      BY <2>0, <2>2, <2>6, <2>10, <1>1 DEF StreamInv
  <1>4. CASE CallReturns
    <2>0. UNCHANGED <<outcome, writers, accepted, reporter, last, getWriter, get, getChan, got>>
          /\ post \in {"run", "stream"} /\ post' = "closing" /\ outcome # "none" /\ chan' = <<>>
          /\ tail' = IF post = "run" /\ outcome = "error" THEN <<Final>> ELSE Append(chan, Final)
      BY <1>4 DEF CallReturns
    <2>1. /\ chan \in Seq(Values) /\ Final \notin Values /\ Final = 0 /\ ChanCap \in Nat
          /\ Pending = chan /\ Pending' = tail'
      BY <1>0, <2>0, StreamsAssumption DEF StreamShape, Values, Final, Pending
    <2> DEFINE n == Len(chan)
    <2>2. \/ outcome = "error" /\ tail' = <<Final>>
          \/ /\ tail' = Append(chan, Final) /\ n \in Nat /\ DOMAIN chan = 1..n
             /\ DOMAIN tail' = 1..(n + 1) /\ tail'[n + 1] = Final /\ Len(tail') = n + 1
             /\ \A i \in 1..n : tail'[i] = chan[i] /\ chan[i] # Final
      BY <2>0, <2>1
    <2>3. /\ tail' \in Seq(Values \cup {0}) /\ tail' # <<>>
          /\ \A i \in DOMAIN tail' : tail'[i] = Final <=> i = Len(tail')
          /\ \A i \in DOMAIN tail' : tail'[i] # Final => i \in DOMAIN chan /\ tail'[i] = chan[i]
      <3>1. CASE outcome = "error" /\ tail' = <<Final>>
        BY <3>1, <2>1
      <3>2. CASE /\ tail' = Append(chan, Final) /\ n \in Nat /\ DOMAIN chan = 1..n
                 /\ DOMAIN tail' = 1..(n + 1) /\ tail'[n + 1] = Final /\ Len(tail') = n + 1
                 /\ \A i \in 1..n : tail'[i] = chan[i] /\ chan[i] # Final
        <4>1. tail' \in Seq(Values \cup {0}) /\ tail' # <<>>
          BY <3>2, <2>1
        <4>2. \A i \in 1..(n + 1) : i \in 1..n \/ i = n + 1
          BY <3>2
        <4>3. \A i \in 1..n : i # n + 1
          BY <3>2
        <4> HIDE DEF n
        <4> QED
          BY <4>1, <4>2, <4>3, <3>2
      <3> QED
        BY <3>1, <3>2, <2>2
    <2>4. StreamShape'
      BY <2>0, <2>3, <2>1, <1>0 DEF StreamShape
    <2>5. TailCourse' /\ ReplyEndsTheStream'
      BY <2>0, <2>3, <1>0 DEF TailCourse, ReplyEndsTheStream, OnPost
    <2>6. \A i \in DOMAIN got : got[i].on = "post" /\ got[i].msg # Final => Sent(got[i].msg)
      BY <1>0 DEF PipelineCourse
    <2>7. \A i \in DOMAIN Pending' : Pending'[i] # Final => Sent(Pending'[i])
      BY <2>1, <2>3, <1>0 DEF PipelineCourse
    <2>8. ASSUME NEW r \in Reporters
          PROVE  /\ \A i \in DOMAIN got, j \in DOMAIN Pending' :
                       got[i].on = "post" /\ Both(r, got[i].msg, Pending'[j]) => got[i].msg < Pending'[j]
                 /\ \A i, j \in DOMAIN Pending' :
                       i < j /\ Both(r, Pending'[i], Pending'[j]) => Pending'[i] < Pending'[j]
      <3>1. \A v, w : Both(r, v, w) => v # Final /\ w # Final
        BY <2>1, <1>0 DEF Both, StreamShape
      <3>2. \A j \in DOMAIN Pending' : Pending'[j] # Final => j \in DOMAIN Pending /\ Pending'[j] = Pending[j]
        BY <2>1, <2>3
      <3>3. \A i \in DOMAIN got, j \in DOMAIN Pending :
               got[i].on = "post" /\ Both(r, got[i].msg, Pending[j]) => got[i].msg < Pending[j]
        BY <1>0 DEF PipelineCourse
      <3>4. \A i, j \in DOMAIN Pending :
               i < j /\ Both(r, Pending[i], Pending[j]) => Pending[i] < Pending[j]
        BY <1>0 DEF PipelineCourse
      <3>5. \A i \in DOMAIN got, j \in DOMAIN Pending' :
               got[i].on = "post" /\ Both(r, got[i].msg, Pending'[j]) => got[i].msg < Pending'[j]
        BY <3>1, <3>2, <3>3
      <3>6. \A i, j \in DOMAIN Pending' :
               i < j /\ Both(r, Pending'[i], Pending'[j]) => Pending'[i] < Pending'[j]
        BY <3>1, <3>2, <3>4
      <3> QED
        BY <3>5, <3>6
    <2>9. PipelineCourse'
      BY <2>0, <2>6, <2>7, <2>8, <1>0 DEF PipelineCourse, Sent, Both
    <2>10. HandlerCourse'
      <3>1. ASSUME outcome' # "error", NEW v \in Values, <<Handler, v>> \in accepted'
            PROVE  OnPost(v)' \/ \E i \in DOMAIN Pending' : Pending'[i] = v
        <4>1. OnPost(v) \/ \E i \in DOMAIN chan : chan[i] = v
          BY <3>1, <2>0, <2>1, <1>0 DEF HandlerCourse
        <4>2. \A i \in DOMAIN chan : i \in DOMAIN tail' /\ tail'[i] = chan[i]
          BY <2>2, <2>0, <3>1
        <4> QED
          BY <4>1, <4>2, <2>0, <2>1 DEF OnPost
      <3> QED
        BY <3>1 DEF HandlerCourse
    <2> QED
      BY <2>0, <2>4, <2>5, <2>9, <2>10, <1>1 DEF StreamInv
  <1>5. CASE DropChannel
    <2>0. UNCHANGED <<outcome, tail, accepted, reporter, last, getWriter, get, getChan, got>>
          /\ post = "closing" /\ post' = "tail" /\ writers' = FALSE /\ chan' = <<>>
      BY <1>5 DEF DropChannel
    <2>1. TailCourse' /\ ReplyEndsTheStream' /\ Pending' = Pending
      BY <2>0, <1>0 DEF TailCourse, ReplyEndsTheStream, OnPost, Pending
    <2>2. StreamShape'
      <3>1. chan' \in Seq(Values) /\ Len(chan') <= ChanCap
        BY <2>0, StreamsAssumption
      <3> QED
        BY <2>0, <3>1, <1>0 DEF StreamShape
    <2>3. PipelineCourse' /\ HandlerCourse'
      BY <2>0, <2>1, PipelineKept
    <2> QED
      BY <2>0, <2>1, <2>2, <2>3, <1>1 DEF StreamInv
  <1>6. CASE TailNext
    <2>0. UNCHANGED <<outcome, writers, chan, accepted, reporter, last, getWriter, get, getChan>>
          /\ post = "tail" /\ tail' = Tail(tail)
          /\ post' = (IF Len(tail) = 1 THEN "closed" ELSE "tail")
          /\ got' = Append(got, [on |-> "post", msg |-> Head(tail)])
      BY <1>6 DEF TailNext, Receive
    <2>1. Pending = tail /\ Pending' = tail' /\ tail # <<>> /\ post # "gone"
      BY <2>0, <1>0 DEF Pending, TailCourse
    <2>2. PipelineCourse' /\ HandlerCourse' /\ got' \in Seq(Item)
      BY <2>0, <2>1, Received
    <2>3. /\ tail \in Seq(Values \cup {0}) /\ got \in Seq(Item)
          /\ \A i \in DOMAIN tail : tail[i] = Final <=> i = Len(tail)
      BY <1>0, <2>0 DEF StreamShape, Item, TailCourse
    <2> DEFINE size == Len(tail)
    <2>4. /\ size \in Nat \ {0} /\ Head(tail) = tail[1] /\ 1 \in DOMAIN tail /\ DOMAIN tail = 1..size
          /\ tail' \in Seq(Values \cup {0}) /\ Len(tail') = size - 1
          /\ \A i \in DOMAIN tail' : i + 1 \in DOMAIN tail /\ tail'[i] = tail[i + 1] /\ i \in Nat
          /\ (size = 1 => tail' = <<>>) /\ (size # 1 => tail' # <<>>)
      <3>1. size \in Nat \ {0} /\ Head(tail) = tail[1] /\ 1 \in DOMAIN tail /\ DOMAIN tail = 1..size
        BY <2>1, <2>3
      <3>2. tail' \in Seq(Values \cup {0}) /\ Len(tail') = size - 1
        BY <2>0, <2>1, <2>3
      <3>3. \A i \in DOMAIN tail' : i + 1 \in DOMAIN tail /\ tail'[i] = tail[i + 1] /\ i \in Nat
        BY <2>0, <2>1, <2>3
      <3>4. (size = 1 => tail' = <<>>) /\ (size # 1 => tail' # <<>>)
        BY <3>1, <3>2
      <3> QED
        BY <3>1, <3>2, <3>3, <3>4
    <2>5. StreamShape'
      BY <2>0, <2>2, <2>4, <1>0 DEF StreamShape, Item
    <2> DEFINE n == Len(got)
    <2>6. /\ n \in Nat /\ DOMAIN got = 1..n /\ DOMAIN got' = 1..(n + 1)
          /\ \A i \in 1..n : got'[i] = got[i]
          /\ got'[n + 1] = [on |-> "post", msg |-> tail[1]]
      <3>1. [on |-> "post", msg |-> Head(tail)] \in Item
        BY <2>3, <2>4 DEF Item
      <3> QED
        BY <3>1, <2>0, <2>3, <2>4
    <2>7. \A i \in DOMAIN got : got[i] # [on |-> "post", msg |-> Final]
      BY <1>0, <2>0 DEF TailCourse, OnPost
    <2>8. (tail[1] = Final) <=> (size = 1)
      BY <2>3, <2>4
    <2>9. \A i \in DOMAIN tail' : tail'[i] = Final <=> i = Len(tail')
      BY <2>3, <2>4
    <2> HIDE DEF n, size
    <2>10. \A i \in DOMAIN got' : got'[i] = [on |-> "post", msg |-> Final] => i = n + 1 /\ size = 1
      <3>1. \A i \in 1..(n + 1) : i \in 1..n \/ i = n + 1
        BY <2>6
      <3>2. got'[n + 1].msg = tail[1]
        BY <2>6
      <3> QED
        BY <3>1, <3>2, <2>6, <2>7, <2>8
    <2>11. size = 1 => OnPost(Final)'
      <3>1. size = 1 => n + 1 \in DOMAIN got' /\ got'[n + 1] = [on |-> "post", msg |-> Final]
        BY <2>6, <2>8
      <3> QED
        BY <3>1 DEF OnPost
    <2>12. OnPost(Final)' <=> size = 1
      BY <2>10, <2>11 DEF OnPost
    <2>13. post' = (IF size = 1 THEN "closed" ELSE "tail")
      BY <2>0 DEF size
    <2>14. TailCourse'
      <3>1. outcome # "none"
        BY <1>0, <2>0 DEF TailCourse
      <3> QED
        BY <3>1, <2>4, <2>9, <2>12, <2>13, <2>0 DEF TailCourse
    <2>15. ReplyEndsTheStream'
      <3>1. \A i, j \in DOMAIN got' :
               got'[i] = [on |-> "post", msg |-> Final] /\ got'[j].on = "post" => j <= i
        BY <2>10, <2>6
      <3>2. post' = "closed" => OnPost(Final)'
        BY <2>12, <2>13
      <3> QED
        BY <3>1, <3>2 DEF ReplyEndsTheStream
    <2> QED
      BY <2>0, <2>2, <2>5, <2>14, <2>15, <1>1 DEF StreamInv
  <1>7. CASE Disconnect
    <2>0. UNCHANGED <<outcome, accepted, last, getWriter, get, getChan, got>>
          /\ post \in {"run", "stream", "tail"} /\ post' = "gone" /\ writers' = FALSE
          /\ chan' = <<>> /\ tail' = <<>> /\ reporter' = [reporter EXCEPT ![Handler] = Idle]
      BY <1>7 DEF Disconnect
    <2>1. /\ reporter' = [s \in Reporters |-> reporter'[s]]
          /\ \A s \in Reporters : ReporterCourse(s)'
          /\ \A s, t \in Reporters : Apart(s, t)'
      BY <2>0, <1>0a, ReporterMoves
    <2>2. StreamShape'
      <3>1. chan' \in Seq(Values) /\ Len(chan') <= ChanCap /\ tail' \in Seq(Values \cup {0})
        BY <2>0, StreamsAssumption
      <3> QED
        BY <2>0, <2>1, <3>1, <1>0 DEF StreamShape
    <2>3. TailCourse' /\ ReplyEndsTheStream' /\ HandlerCourse' /\ Pending' = <<>>
      BY <2>0, <1>0 DEF TailCourse, ReplyEndsTheStream, OnPost, HandlerCourse, Pending
    <2>4. PipelineCourse'
      <3>1. DOMAIN Pending' = {} /\ got' = got /\ accepted' = accepted
        BY <2>0, <2>3
      <3> QED
        BY <3>1, <1>0 DEF PipelineCourse, Sent, Both
    <2> QED
      BY <2>1, <2>2, <2>3, <2>4 DEF StreamInv
  <1> QED
    BY <1>2, <1>3, <1>4, <1>5, <1>6, <1>7 DEF PostStep

\* The GET streams touch the pipeline only by what the client receives on them.
LEMMA GetPreserves ==
  ASSUME StreamInv, NEW g \in Gets, OpenGet(g) \/ GetNext(g) \/ RunDry(g) \/ LeaveGet(g)
  PROVE  StreamInv'
  <1> USE DEF postVars
  <1>0. /\ StreamShape /\ TailCourse /\ PipelineCourse /\ HandlerCourse /\ ReplyEndsTheStream
        /\ \A r \in Reporters : ReporterCourse(r)
        /\ \A r, s \in Reporters : Apart(r, s)
    BY DEF StreamInv
  <1>1. UNCHANGED <<post, outcome, writers, chan, tail, accepted, reporter, last>>
    BY DEF OpenGet, GetNext, RunDry, LeaveGet, EndGet
  <1>2. /\ \A r \in Reporters : ReporterCourse(r)'
        /\ \A r, s \in Reporters : Apart(r, s)'
        /\ Pending' = Pending
    <2>1. \A r \in Reporters : ReporterCourse(r)'
      BY <1>0, <1>1 DEF ReporterCourse
    <2>2. \A r, s \in Reporters : Apart(r, s)'
      BY <1>0, <1>1 DEF Apart
    <2>3. Pending' = Pending
      BY <1>1 DEF Pending
    <2> QED
      BY <2>1, <2>2, <2>3
  <1>3. CASE OpenGet(g) \/ RunDry(g) \/ LeaveGet(g)
    <2>1. got' = got /\ getWriter' \in Gets \cup {NoStream}
          /\ \E way \in {"open", "ended"} : get' = [get EXCEPT ![g] = way]
          /\ (getChan' = getChan \/ getChan' = [getChan EXCEPT ![g] = <<>>])
      BY <1>3 DEF OpenGet, RunDry, LeaveGet, EndGet
    <2>2. get' \in [Gets -> {"unopened", "open", "ended"}] /\ getChan' \in [Gets -> Seq(Values)]
      <3>1. get \in [Gets -> {"unopened", "open", "ended"}] /\ getChan \in [Gets -> Seq(Values)]
            /\ <<>> \in Seq(Values)
        BY <1>0 DEF StreamShape
      <3> QED
        BY <3>1, <2>1
    <2>3. StreamShape'
      BY <2>1, <2>2, <1>0, <1>1 DEF StreamShape
    <2>4. TailCourse' /\ ReplyEndsTheStream'
      BY <2>1, <1>0, <1>1 DEF TailCourse, ReplyEndsTheStream, OnPost
    <2>5. PipelineCourse' /\ HandlerCourse'
      BY <2>1, <1>1, <1>2, PipelineKept
    <2> QED
      BY <2>3, <2>4, <2>5, <1>2 DEF StreamInv
  <1>4. CASE GetNext(g)
    <2> DEFINE n == Len(got)
               first == Head(getChan[g])
    <2>0. getChan[g] # <<>> /\ getChan' = [getChan EXCEPT ![g] = Tail(@)]
          /\ got' = Append(got, [on |-> g, msg |-> first]) /\ UNCHANGED <<getWriter, get>>
      BY <1>4 DEF GetNext, Receive
    <2>1. /\ getChan \in [Gets -> Seq(Values)] /\ got \in Seq(Item) /\ g # "post"
          /\ first \in Values /\ Tail(getChan[g]) \in Seq(Values)
      <3>1. getChan \in [Gets -> Seq(Values)] /\ got \in Seq(Item)
        BY <1>0 DEF StreamShape, Item
      <3>2. getChan[g] \in Seq(Values)
        BY <3>1
      <3> QED
        BY <3>1, <3>2, <2>0, StreamsAssumption
    <2> HIDE DEF first
    <2>2. /\ n \in Nat /\ DOMAIN got = 1..n /\ DOMAIN got' = 1..(n + 1)
          /\ \A i \in 1..n : got'[i] = got[i]
          /\ got'[n + 1].on = g /\ got' \in Seq(Item)
      <3>1. [on |-> g, msg |-> first] \in Item
        BY <2>1 DEF Item
      <3> QED
        BY <3>1, <2>0, <2>1
    <2>3. getChan' \in [Gets -> Seq(Values)]
      <3> DEFINE rest == Tail(getChan[g])
      <3>1. getChan' = [getChan EXCEPT ![g] = rest] /\ rest \in Seq(Values)
        BY <2>0, <2>1
      <3> HIDE DEF rest
      <3> QED
        BY <3>1, <2>1
    <2>4. StreamShape'
      BY <2>0, <2>2, <2>3, <1>0, <1>1 DEF StreamShape, Item
    <2> HIDE DEF n
    <2>5. \A i \in DOMAIN got' : got'[i].on = "post" => i \in DOMAIN got /\ got'[i] = got[i]
      <3>1. \A i \in 1..(n + 1) : i \in 1..n \/ i = n + 1
        BY <2>2
      <3> QED
        BY <3>1, <2>1, <2>2
    <2>6. \A i \in DOMAIN got : i \in DOMAIN got' /\ got'[i] = got[i]
      BY <2>2
    <2>7. \A m : OnPost(m)' <=> OnPost(m)
      <3> SUFFICES ASSUME NEW m PROVE OnPost(m)' <=> OnPost(m)
        OBVIOUS
      <3> DEFINE e == [on |-> "post", msg |-> m]
      <3>1. e.on = "post"
        OBVIOUS
      <3> HIDE DEF e
      <3>2. (\E i \in DOMAIN got' : got'[i] = e) <=> (\E i \in DOMAIN got : got[i] = e)
        BY <3>1, <2>5, <2>6
      <3> QED
        BY <3>2 DEF OnPost, e
    <2>8. TailCourse' /\ HandlerCourse'
      BY <2>7, <1>0, <1>1, <1>2 DEF TailCourse, HandlerCourse
    <2>9. ReplyEndsTheStream'
      <3>1. \A i, j \in DOMAIN got' :
              got'[i] = [on |-> "post", msg |-> Final] /\ got'[j].on = "post" => j <= i
        BY <2>5, <1>0 DEF ReplyEndsTheStream
      <3> QED
        BY <3>1, <2>7, <1>0, <1>1 DEF ReplyEndsTheStream
    <2>10. PipelineCourse'
      BY <2>5, <1>0, <1>1, <1>2 DEF PipelineCourse, Sent, Both
    <2> QED
      BY <2>4, <2>8, <2>9, <2>10, <1>2 DEF StreamInv
  <1> QED
    BY <1>3, <1>4

\* What the invariant says of a stream that is closed.
LEMMA StreamInvIsEnough == StreamInv => StreamIsWhole /\ TypeOK
  <1> SUFFICES ASSUME StreamInv PROVE StreamIsWhole /\ TypeOK
    OBVIOUS
  <1>1. PipelineCourse /\ HandlerCourse /\ ReplyEndsTheStream /\ TailCourse /\ StreamShape
        /\ \A r \in Reporters : ReporterCourse(r)
    BY DEF StreamInv
  <1>2. post = "closed" => DOMAIN Pending = {}
    <2>1. post = "closed" => Pending = <<>>
      BY <1>1 DEF TailCourse, Pending
    <2> QED
      BY <2>1
  <1>3. post = "closed" /\ outcome = "reply" =>
          \A v \in Values : <<Handler, v>> \in accepted => OnPost(v)
    BY <1>1, <1>2 DEF HandlerCourse
  <1>4. HandlerReportsArrive
    BY <1>1, <1>3 DEF HandlerReportsArrive, PipelineCourse, Both
  <1>5. TypeOK
    <2>1. \A i \in DOMAIN got : got[i].on \in Gets \cup {"post"} /\ got[i].msg \in Values \cup {0}
      <3>1. got \in Seq(Item)
        BY <1>1 DEF StreamShape, Item
      <3>2. \A i \in DOMAIN got : got[i] \in Item
        BY <3>1
      <3> QED
        BY <3>2 DEF Item
    <2> QED
      BY <2>1, <1>1 DEF TypeOK, StreamShape, ReporterCourse
  <1> QED
    BY <1>1, <1>4, <1>5 DEF StreamIsWhole

\* Every step keeps the invariant.
LEMMA StreamSteps == StreamInv /\ [Next]_vars => StreamInv'
  <1> SUFFICES ASSUME StreamInv, [Next]_vars PROVE StreamInv'
    OBVIOUS
  <1>1. CASE UNCHANGED vars
    <2>0. UNCHANGED <<post, outcome, writers, chan, tail, accepted, reporter, last,
                      getWriter, get, getChan, got>>
      BY <1>1 DEF vars, postVars, getVars
    <2>1. Pending' = Pending
      BY <2>0 DEF Pending
    <2>2. StreamShape' /\ TailCourse' /\ ReplyEndsTheStream' /\ HandlerCourse'
      BY <2>0, <2>1 DEF StreamInv, StreamShape, TailCourse, ReplyEndsTheStream, HandlerCourse, OnPost
    <2>3. PipelineCourse'
      BY <2>0, <2>1 DEF StreamInv, PipelineCourse, Sent, Both
    <2>4. \A r \in Reporters : ReporterCourse(r)'
      BY <2>0 DEF StreamInv, ReporterCourse
    <2>5. \A r, s \in Reporters : Apart(r, s)'
      BY <2>0 DEF StreamInv, Apart
    <2> QED
      BY <2>2, <2>3, <2>4, <2>5 DEF StreamInv
  <1>2. ASSUME NEW r \in Reporters, PassGuard(r) PROVE StreamInv'
    BY <1>2, Guarded
  <1>3. ASSUME NEW r \in Reporters, ReporterStep(r) PROVE StreamInv'
    BY <1>3, ReporterPreserves
  <1>4. CASE HandlerReturns \/ PostStep \/ Disconnect
    BY <1>4, PostPreserves
  <1>5. ASSUME NEW g \in Gets, OpenGet(g) \/ GetNext(g) \/ RunDry(g) \/ LeaveGet(g) PROVE StreamInv'
    BY <1>5, GetPreserves
  <1> QED
    BY <1>1, <1>2, <1>3, <1>4, <1>5 DEF Next

\* However a stream is scheduled, the invariant of its pipeline holds.
LEMMA StreamInvHolds == Spec => []StreamInv
  <1>1. Init => StreamInv
    BY InitStream
  <1>2. StreamInv /\ [Next]_vars => StreamInv'
    BY StreamSteps
  <1> QED
    BY <1>1, <1>2, PTL DEF Spec

\* Whatever a handler, its clones, the GET streams and the client do: the response
\* to a POST comes once and last, what the handler reported before it is in it, and
\* what one reporter sent is in order (request_post, PostStreamState and drain).
THEOREM StreamsAreWhole == Spec => []StreamIsWhole
  <1>1. StreamInv => StreamIsWhole
    BY StreamInvIsEnough
  <1> QED
    BY <1>1, StreamInvHolds, PTL

-----------------------------------------------------------------------------
(* HttpEndpoint.                                                             *)

Versions == {"none", "draft", "legacy"}
Places == {"unsent", "spawned", "versioned", "sent", "reading", "failing", "done"}
Fates == {"no", "working", "asking", "silent", "mismatch", "no session"} \cup Results
Tidings == {"nothing", "waiting", Lost, "timeout", "closed"} \cup Results
Tasks == [at : Places, version : Versions, session : BOOLEAN, stale : BOOLEAN]
Clients == [at : {"start", "discovering", "initializing", "connected", "failed", "over"},
            version : Versions]
Frames == [of : Calls \cup Posts, what : Results \cup {Lost, "ask"}]

EndpointShape ==
    /\ client \in Clients
    /\ remembered \in Versions /\ captured \in BOOLEAN
    /\ task \in [Posts -> Tasks]
    /\ served \in [Posts -> Fates]
    /\ status \in [Posts -> {"none", "ok", "bad"}]
    /\ body \in [Posts -> Seq(Results \cup {"ask"})]
    /\ queue \in Seq(Frames) /\ Len(queue) <= QueueCap
    /\ heard \in [Requests -> Tidings]
    /\ session \in {"none", "live", "ended"}

\* A version is settled once, and the legacy one only after its session was seen.
VersionCourse ==
    /\ Version # "none" => client.at \in {"connected", "over"}
    /\ client.at = "connected" => Version # "none"
    /\ Version = "legacy" \/ remembered = "legacy" => captured
    /\ captured => served[Initialize] = "value"

\* The headers a task took are those its post needs.
TaskOf(m) ==
    /\ task[m].version = "legacy" => captured
    /\ task[m].session => captured
    /\ task[m].version = "legacy" /\ task[m].at \notin {"unsent", "spawned", "versioned"}
         => task[m].session
    /\ task[m].at = "failing" => m \in broken \/ status[m] = "bad"
    /\ m = Discover /\ task[m].at \notin {"unsent", "spawned"} => task[m].version = "draft"
    /\ m = Initialize /\ task[m].at = "reading" => captured
    /\ m \in CallPosts =>
         /\ task[m].at = "unsent" => served[m] = "no"
         /\ task[m].at # "unsent" => Version # "none"
         /\ task[m].at \notin {"unsent", "spawned"} => task[m].version = Version

\* What the server made of a post, and what it has written of it.
ServedOf(m) ==
    /\ served[m] \in Results => m \in Requests
    /\ m = Initialize => served[m] \in {"no", "value"} /\ (served[m] = "value" <=> session # "none")
    /\ status[m] # "none" => served[m] # "no"
    /\ status[m] = "bad" => served[m] \notin {"working", "asking"}
    /\ \A i \in DOMAIN body[m] : IF body[m][i] = "ask" THEN m \in CallPosts
                                 ELSE body[m][i] = served[m]
    /\ served[m] = "mismatch" => m \in CallPosts /\ task[m].stale
    /\ served[m] = "no session" => session = "ended"
    /\ served[m] = "-32022" => Version = "draft" /\ "draft" \notin Speaks

\* A request was told `what' on good grounds.
Grounded(m, what) ==
    /\ what \in Results => served[m] = what
    /\ what = Lost => m \in broken \/ status[m] = "bad"
    /\ m = Initialize /\ what = "value" => captured

FrameOf(f) == IF f.what = "ask" THEN f.of \in Calls
              ELSE f.of \in Requests /\ Grounded(f.of, f.what)

EndpointInv ==
    /\ EndpointShape /\ VersionCourse
    /\ \A m \in Posts : TaskOf(m) /\ ServedOf(m)
    /\ \A i \in DOMAIN queue : FrameOf(queue[i])
    /\ \A m \in Requests : Grounded(m, heard[m])

-----------------------------------------------------------------------------
\* The names of posts tell them apart.
LEMMA Names ==
  /\ Discover \in Requests /\ Initialize \in Requests /\ Requests \subseteq Posts
  /\ Initialized \in Posts /\ CallPosts \subseteq Requests
  /\ Discover # Initialize /\ Discover \notin CallPosts /\ Initialize \notin CallPosts
  /\ Initialized \notin Requests
  /\ \A c \in Calls : /\ Call(c) \in CallPosts /\ Answer(c) \in Posts
                       /\ Answer(c) \notin Requests
  /\ \A m \in CallPosts : m[2] \in Calls
  <1>1. \A c : <<"call", c>> # <<"discover">> /\ <<"call", c>> # <<"initialize">>
                /\ <<"call", c>> # <<"initialized">>
    OBVIOUS
  <1>2. \A c : <<"answer", c>> # <<"discover">> /\ <<"answer", c>> # <<"initialize">>
                /\ <<"answer", c>> # <<"initialized">>
    OBVIOUS
  <1>3. \A c, d : <<"answer", c>> # <<"call", d>>
    OBVIOUS
  <1>4. <<"discover">> # <<"initialize">> /\ <<"discover">> # <<"initialized">>
        /\ <<"initialize">> # <<"initialized">>
    OBVIOUS
  <1>5. \A m \in CallPosts : m[2] \in Calls
    BY DEF CallPosts, Call
  <1> QED
    BY <1>1, <1>2, <1>3, <1>4, <1>5
    DEF Discover, Initialize, Initialized, Call, Answer, CallPosts, Requests, Posts

\* A client that has not begun and a server that has heard nothing satisfy it.
LEMMA EndpointInit == HttpInit => EndpointInv
  <1> SUFFICES ASSUME HttpInit PROVE EndpointInv
    OBVIOUS
  <1> USE DEF HttpInit
  <1>1. EndpointShape
    <2>1. Unsent \in Tasks
      BY DEF Unsent, Tasks, Places, Versions
    <2>2. client \in Clients /\ remembered \in Versions /\ captured \in BOOLEAN
      BY DEF Clients, Versions
    <2>3. task \in [Posts -> Tasks]
      BY <2>1
    <2>4. served \in [Posts -> Fates] /\ status \in [Posts -> {"none", "ok", "bad"}]
          /\ heard \in [Requests -> Tidings]
      BY DEF Fates, Tidings
    <2>5. body \in [Posts -> Seq(Results \cup {"ask"})]
      OBVIOUS
    <2>6. queue \in Seq(Frames) /\ Len(queue) <= QueueCap
      BY EndpointAssumption
    <2> QED
      BY <2>2, <2>3, <2>4, <2>5, <2>6 DEF EndpointShape
  <1>2. VersionCourse
    BY DEF VersionCourse, Version
  <1>3. ASSUME NEW m \in Posts PROVE TaskOf(m) /\ ServedOf(m)
    <2>1. TaskOf(m)
      BY DEF TaskOf, Unsent
    <2>2. DOMAIN body[m] = {} /\ served[m] = "no" /\ status[m] = "none"
      OBVIOUS
    <2>3. ServedOf(m)
      BY <2>2 DEF ServedOf, Results
    <2> QED
      BY <2>1, <2>3
  <1>4. \A m \in Requests : Grounded(m, heard[m])
    BY DEF Grounded, Results, Lost
  <1>5. DOMAIN queue = {}
    OBVIOUS
  <1> QED
    BY <1>1, <1>2, <1>3, <1>4, <1>5 DEF EndpointInv

\* The client spawns tasks: none for a call that has one, nor before a version.
LEMMA Spawned ==
  ASSUME EndpointInv, NEW ms \in SUBSET Posts, NEW stale \in BOOLEAN, Spawn(ms, stale),
         UNCHANGED <<peer, captured, broken, serverVars>>,
         Version' = Version \/ Version = "none",
         \A m \in ms : m \in CallPosts => task[m].at = "unsent" /\ Version' # "none"
  PROVE  task' \in [Posts -> Tasks] /\ \A m \in Posts : TaskOf(m)' /\ ServedOf(m)'
  <1> DEFINE fresh == [Unsent EXCEPT !.at = "spawned", !.stale = stale]
  <1>1. fresh.at = "spawned" /\ fresh.version = "none" /\ fresh.session = FALSE
        /\ fresh \in Tasks
    BY DEF Unsent, Tasks, Places, Versions
  <1>2. task' = [m \in Posts |-> IF m \in ms THEN fresh ELSE task[m]]
    BY DEF Spawn
  <1> HIDE DEF fresh
  <1>3. task \in [Posts -> Tasks]
    BY DEF EndpointInv, EndpointShape
  <1>4. task' \in [Posts -> Tasks]
    BY <1>1, <1>2, <1>3
  <1>5. ASSUME NEW m \in Posts PROVE TaskOf(m)' /\ ServedOf(m)'
    <2>0. TaskOf(m) /\ ServedOf(m) /\ task'[m] = (IF m \in ms THEN fresh ELSE task[m])
          /\ UNCHANGED <<captured, broken, served, status, body, session, peer>>
      BY <1>2 DEF EndpointInv, serverVars
    <2>1. TaskOf(m)'
      <3>1. CASE m \in ms
        BY <3>1, <2>0, <1>1 DEF TaskOf
      <3>2. CASE m \notin ms
        <4>1. task'[m] = task[m]
          BY <3>2, <2>0
        <4> QED
          BY <4>1, <2>0 DEF TaskOf
      <3> QED
        BY <3>1, <3>2
    <2>2. served[m] = "mismatch" => m \notin ms
      <3>1. served[m] = "mismatch" => m \in CallPosts
        BY <2>0 DEF ServedOf
      <3>2. m \in ms /\ m \in CallPosts => served[m] = "no"
        BY <2>0 DEF TaskOf
      <3> QED
        BY <3>1, <3>2
    <2>3. served[m] = "mismatch" => m \in CallPosts /\ task'[m].stale
      BY <2>0, <2>2 DEF ServedOf
    <2>4. Speaks' = Speaks
      BY <2>0 DEF Speaks
    <2>5. served[m] = "-32022" => Version' = "draft" /\ "draft" \notin Speaks'
      BY <2>0, <2>4 DEF ServedOf
    <2>6. ServedOf(m)'
      BY <2>0, <2>3, <2>5 DEF ServedOf
    <2> QED
      BY <2>1, <2>6
  <1> QED
    BY <1>4, <1>5

\* A task takes a step of its own.
LEMMA TaskMoves ==
  ASSUME EndpointInv, NEW m \in Posts, NEW r, task' = [task EXCEPT ![m] = r], r \in Tasks,
         r.stale = task[m].stale, task[m].at # "unsent", r.at \notin {"unsent", "spawned"},
         UNCHANGED <<peer, client, served, status, session>>,
         captured => captured', captured' \in BOOLEAN, broken \subseteq broken',
         r.version = "legacy" => captured',
         r.session => captured',
         r.version = "legacy" /\ r.at # "versioned" => r.session,
         r.at = "failing" => m \in broken' \/ status[m] = "bad",
         m = Discover => r.version = "draft",
         m = Initialize /\ r.at = "reading" => captured',
         m \in CallPosts => r.version = Version,
         body' \in [Posts -> Seq(Results \cup {"ask"})],
         \A n \in Posts : \A i \in DOMAIN body'[n] : \E j \in DOMAIN body[n] : body'[n][i] = body[n][j]
  PROVE  task' \in [Posts -> Tasks] /\ \A n \in Posts : TaskOf(n)' /\ ServedOf(n)'
  <1>1. task \in [Posts -> Tasks]
    BY DEF EndpointInv, EndpointShape
  <1>2. task' \in [Posts -> Tasks] /\ task'[m] = r
        /\ \A n \in Posts : n # m => task'[n] = task[n]
    BY <1>1
  <1>3. ASSUME NEW n \in Posts PROVE TaskOf(n)' /\ ServedOf(n)'
    <2>0. TaskOf(n) /\ ServedOf(n)
      BY DEF EndpointInv
    <2>1. TaskOf(n)'
      <3>1. CASE n # m
        <4>1. task'[n] = task[n] /\ Version' = Version
          BY <3>1, <1>2 DEF Version
        <4> QED
          BY <4>1, <2>0 DEF TaskOf
      <3>2. CASE n = m
        <4>1. task'[n] = r /\ Version' = Version
          BY <3>2, <1>2 DEF Version
        <4>2. m \in CallPosts => Version # "none"
          BY <3>2, <2>0 DEF TaskOf
        <4> QED
          BY <4>1, <4>2, <3>2 DEF TaskOf
      <3> QED
        BY <3>1, <3>2
    <2>2. task'[n].stale = task[n].stale
      BY <1>2
    <2>3. \A i \in DOMAIN body'[n] : IF body'[n][i] = "ask" THEN n \in CallPosts ELSE body'[n][i] = served'[n]
      BY <2>0 DEF ServedOf
    <2>4. Speaks' = Speaks /\ Version' = Version
      BY DEF Speaks, Version
    <2>5. ServedOf(n)'
      BY <2>0, <2>2, <2>3, <2>4 DEF ServedOf
    <2> QED
      BY <2>1, <2>5
  <1> QED
    BY <1>2, <1>3

\* The handshake, the calls and the connection of the client.
LEMMA ClientPreserves ==
  ASSUME EndpointInv,
         \/ Handshake \/ Deliver \/ Drop
         \/ \E m \in Requests : TimeOut(m)
         \/ \E c \in Calls : MakeCall(c)
  PROVE  EndpointInv'
  <1>0. /\ EndpointShape /\ VersionCourse
        /\ \A m \in Posts : TaskOf(m) /\ ServedOf(m)
        /\ \A i \in DOMAIN queue : FrameOf(queue[i])
        /\ \A m \in Requests : Grounded(m, heard[m])
    BY DEF EndpointInv
  <1>0a. client \in Clients /\ task \in [Posts -> Tasks] /\ heard \in [Requests -> Tidings]
         /\ queue \in Seq(Frames) /\ Len(queue) <= QueueCap
    BY <1>0 DEF EndpointShape
  \* What is left to show of a step that leaves the queue alone, and waits for some.
  <1>1. ASSUME task' \in [Posts -> Tasks], \A m \in Posts : TaskOf(m)' /\ ServedOf(m)',
               client' \in Clients,
               UNCHANGED <<remembered, captured, broken, serverVars>>,
               heard' \in [Requests -> Tidings],
               \A m \in Requests : heard'[m] = heard[m] \/ heard'[m] \in {"waiting", "timeout", "closed"}
                                   \/ Grounded(m, heard'[m]),
               queue' = queue \/ queue' = <<>> \/ (queue # <<>> /\ queue' = Tail(queue)),
               VersionCourse'
        PROVE  EndpointInv'
    <2>0. UNCHANGED <<served, status, body, session>>
      BY <1>1 DEF serverVars
    <2>2. queue' \in Seq(Frames) /\ Len(queue') <= QueueCap
          /\ \A i \in DOMAIN queue' : \E j \in DOMAIN queue : queue'[i] = queue[j]
      <3>1. CASE queue' = queue
        BY <3>1, <1>0a
      <3>2. CASE queue' = <<>>
        BY <3>2, EndpointAssumption
      <3>3. CASE queue # <<>> /\ queue' = Tail(queue)
        <4>1. queue' \in Seq(Frames) /\ Len(queue') <= QueueCap
          BY <3>3, <1>0a, EndpointAssumption
        <4>2. \A i \in DOMAIN queue' : i + 1 \in DOMAIN queue /\ queue'[i] = queue[i + 1]
          BY <3>3, <1>0a
        <4> QED
          BY <4>1, <4>2
      <3> QED
        BY <3>1, <3>2, <3>3, <1>1
    <2>3. EndpointShape'
      BY <1>0, <1>1, <2>0, <2>2 DEF EndpointShape
    <2>4. \A i \in DOMAIN queue' : FrameOf(queue'[i])
      BY <2>2, <1>0
    <2>5. ASSUME NEW i \in DOMAIN queue' PROVE FrameOf(queue[i])'
      <3>1. FrameOf(queue'[i])
        BY <2>4, <2>5
      <3> QED
        BY <3>1, <1>1, <2>0 DEF FrameOf, Grounded
    <2>6. ASSUME NEW m \in Requests PROVE Grounded(m, heard[m])'
      <3>1. Grounded(m, heard'[m])
        <4>1. CASE heard'[m] = heard[m]
          BY <4>1, <1>0
        <4>2. CASE heard'[m] \in {"waiting", "timeout", "closed"}
          BY <4>2 DEF Grounded, Results, Lost
        <4> QED
          BY <4>1, <4>2, <1>1
      <3> QED
        BY <3>1, <1>1, <2>0 DEF Grounded
    <2> QED
      BY <1>1, <2>3, <2>5, <2>6 DEF EndpointInv
  <1>3. CASE Connect
    <2>2. PICK first \in Requests \ CallPosts :
             Spawn({first}, FALSE) /\ heard' = [heard EXCEPT ![first] = "waiting"]
      BY <1>3, Names DEF Connect, Wait
    <2>0. client.at = "start" /\ UNCHANGED <<peer, remembered, captured, broken, serverVars, queue>>
      BY <1>3 DEF Connect, Rest
    <2>1. client' \in Clients /\ client'.version = client.version /\ client'.at # "connected"
      BY <1>3, <1>0a DEF Connect, Clients, Versions
    <2>3. /\ {first} \in SUBSET Posts /\ FALSE \in BOOLEAN /\ Version' = Version
          /\ \A m \in {first} : m \in CallPosts => task[m].at = "unsent" /\ Version' # "none"
      BY <2>1, <2>2, Names DEF Version
    <2>4. task' \in [Posts -> Tasks] /\ \A m \in Posts : TaskOf(m)' /\ ServedOf(m)'
      BY <2>0, <2>2, <2>3, Spawned
    <2>5. heard' \in [Requests -> Tidings]
          /\ \A m \in Requests : heard'[m] = heard[m] \/ heard'[m] = "waiting"
      <3>1. "waiting" \in Tidings
        BY DEF Tidings
      <3> QED
        BY <3>1, <2>2, <1>0a
    <2>6. VersionCourse'
      BY <2>0, <2>1, <1>0 DEF VersionCourse, Version, serverVars
    <2> QED
      BY <2>0, <2>1, <2>4, <2>5, <2>6, <1>1
  <1>4. CASE Discovered
    <2>0. /\ client.at = "discovering" /\ Version = "none"
          /\ UNCHANGED <<peer, remembered, captured, broken, serverVars, queue>>
      BY <1>4, <1>0 DEF Discovered, Rest, VersionCourse
    <2>1. \/ /\ client' = [at |-> "connected", version |-> "draft"] /\ UNCHANGED <<task, heard>>
          \/ /\ Spawn({Initialize}, FALSE) /\ heard' = [heard EXCEPT ![Initialize] = "waiting"]
             /\ client' = [client EXCEPT !.at = "initializing"]
          \/ client' = [client EXCEPT !.at = "failed"] /\ UNCHANGED <<task, heard>>
      BY <1>4 DEF Discovered, Wait
    <2>2. client' \in Clients /\ client'.version \in {"none", "draft"}
          /\ (client'.version # "none" <=> client'.at = "connected")
      <3>1. CASE client' = [at |-> "connected", version |-> "draft"]
        BY <3>1 DEF Clients, Versions
      <3>2. CASE client' = [client EXCEPT !.at = "initializing"] \/ client' = [client EXCEPT !.at = "failed"]
        <4>1. client' \in Clients /\ client'.version = client.version /\ client'.at # "connected"
          BY <3>2, <1>0a DEF Clients
        <4> QED
          BY <4>1, <2>0 DEF Version
      <3> QED
        BY <3>1, <3>2, <2>1
    <2>3. VersionCourse'
      BY <2>0, <2>2, <1>0 DEF VersionCourse, Version, serverVars
    <2>4. Spawn({}, FALSE) \/ Spawn({Initialize}, FALSE)
      BY <2>1, <1>0a DEF Spawn
    <2>5. /\ {} \in SUBSET Posts /\ {Initialize} \in SUBSET Posts /\ FALSE \in BOOLEAN
          /\ \A m \in {Initialize} : m \in CallPosts => task[m].at = "unsent" /\ Version' # "none"
          /\ \A m \in {} : m \in CallPosts => task[m].at = "unsent" /\ Version' # "none"
      BY Names
    <2>6. task' \in [Posts -> Tasks] /\ \A m \in Posts : TaskOf(m)' /\ ServedOf(m)'
      <3>1. CASE Spawn({}, FALSE)
        BY <3>1, <2>0, <2>5, Spawned
      <3>2. CASE Spawn({Initialize}, FALSE)
        BY <3>2, <2>0, <2>5, Spawned
      <3> QED
        BY <3>1, <3>2, <2>4
    <2>7. heard' \in [Requests -> Tidings]
          /\ \A m \in Requests : heard'[m] = heard[m] \/ heard'[m] = "waiting"
      <3>1. "waiting" \in Tidings
        BY DEF Tidings
      <3> QED
        BY <3>1, <2>1, <1>0a, Names
    <2> QED
      BY <2>0, <2>2, <2>3, <2>6, <2>7, <1>1
  <1>5. CASE InitializeAnswered
    <2>0. /\ client.at = "initializing" /\ Version = "none"
          /\ UNCHANGED <<peer, remembered, captured, broken, serverVars, queue, heard>>
      BY <1>5, <1>0 DEF InitializeAnswered, Rest, VersionCourse
    <2>1. \/ /\ heard[Initialize] = "value" /\ Spawn({Initialized}, FALSE)
             /\ client' = [at |-> "connected", version |-> "legacy"]
          \/ client' = [client EXCEPT !.at = "failed"] /\ UNCHANGED task
      BY <1>5 DEF InitializeAnswered
    <2>2. heard[Initialize] = "value" => captured
      BY <1>0, Names DEF Grounded
    <2>3. client' \in Clients /\ (client'.version # "none" <=> client'.at = "connected")
          /\ (client'.version = "legacy" => captured)
      <3>1. CASE client' = [at |-> "connected", version |-> "legacy"] /\ heard[Initialize] = "value"
        BY <3>1, <2>2 DEF Clients, Versions
      <3>2. CASE client' = [client EXCEPT !.at = "failed"]
        <4>1. client' \in Clients /\ client'.version = client.version /\ client'.at # "connected"
          BY <3>2, <1>0a DEF Clients
        <4> QED
          BY <4>1, <2>0 DEF Version
      <3> QED
        BY <3>1, <3>2, <2>1
    <2>4. VersionCourse'
      BY <2>0, <2>3, <1>0 DEF VersionCourse, Version, serverVars
    <2>5. Spawn({}, FALSE) \/ Spawn({Initialized}, FALSE)
      BY <2>1, <1>0a DEF Spawn
    <2>6. /\ {} \in SUBSET Posts /\ {Initialized} \in SUBSET Posts /\ FALSE \in BOOLEAN
          /\ \A m \in {Initialized} : m \in CallPosts => task[m].at = "unsent" /\ Version' # "none"
          /\ \A m \in {} : m \in CallPosts => task[m].at = "unsent" /\ Version' # "none"
      BY Names
    <2>7. task' \in [Posts -> Tasks] /\ \A m \in Posts : TaskOf(m)' /\ ServedOf(m)'
      <3>1. CASE Spawn({}, FALSE)
        BY <3>1, <2>0, <2>6, Spawned
      <3>2. CASE Spawn({Initialized}, FALSE)
        BY <3>2, <2>0, <2>6, Spawned
      <3> QED
        BY <3>1, <3>2, <2>5
    <2> QED
      BY <2>0, <2>3, <2>4, <2>7, <1>0a, <1>1
  <1>6. ASSUME NEW m \in Requests, TimeOut(m) PROVE EndpointInv'
    <2>0. UNCHANGED <<peer, client, task, remembered, captured, broken, serverVars, queue>>
          /\ heard' = [heard EXCEPT ![m] = "timeout"]
      BY <1>6 DEF TimeOut, Rest
    <2>1. Spawn({}, FALSE) /\ {} \in SUBSET Posts /\ FALSE \in BOOLEAN /\ Version' = Version
          /\ \A n \in {} : n \in CallPosts => task[n].at = "unsent" /\ Version' # "none"
      BY <2>0, <1>0a DEF Spawn, Version
    <2>2. task' \in [Posts -> Tasks] /\ \A n \in Posts : TaskOf(n)' /\ ServedOf(n)'
      BY <2>0, <2>1, Spawned
    <2>3. heard' \in [Requests -> Tidings]
          /\ \A n \in Requests : heard'[n] = heard[n] \/ heard'[n] = "timeout"
      <3>1. "timeout" \in Tidings
        BY DEF Tidings
      <3> QED
        BY <3>1, <2>0, <1>0a
    <2>4. VersionCourse' /\ client' \in Clients
      BY <2>0, <1>0, <1>0a DEF VersionCourse, Version, serverVars
    <2> QED
      BY <2>0, <2>2, <2>3, <2>4, <1>1
  <1>7. ASSUME NEW c \in Calls, MakeCall(c) PROVE EndpointInv'
    <2>0. UNCHANGED <<peer, client, remembered, captured, broken, serverVars, queue>>
          /\ heard' = [heard EXCEPT ![Call(c)] = "waiting"] /\ task[Call(c)].at = "unsent"
          /\ client.at = "connected"
      BY <1>7 DEF MakeCall, Rest, Wait
    <2>1. PICK stale \in BOOLEAN : Spawn({Call(c)}, stale)
      BY <1>7 DEF MakeCall
    <2>2. Version' = Version /\ Version # "none"
      BY <2>0, <1>0 DEF VersionCourse, Version
    <2>3. {Call(c)} \in SUBSET Posts
          /\ \A n \in {Call(c)} : n \in CallPosts => task[n].at = "unsent" /\ Version' # "none"
      BY <2>0, <2>2, Names
    <2>4. task' \in [Posts -> Tasks] /\ \A n \in Posts : TaskOf(n)' /\ ServedOf(n)'
      BY <2>0, <2>1, <2>2, <2>3, Spawned
    <2>5. heard' \in [Requests -> Tidings]
          /\ \A n \in Requests : heard'[n] = heard[n] \/ heard'[n] = "waiting"
      <3>1. "waiting" \in Tidings
        BY DEF Tidings
      <3> QED
        BY <3>1, <2>0, <1>0a
    <2>6. VersionCourse' /\ client' \in Clients
      BY <2>0, <1>0, <1>0a DEF VersionCourse, Version, serverVars
    <2> QED
      BY <2>0, <2>4, <2>5, <2>6, <1>1
  <1>8. CASE Deliver
    <2> DEFINE frame == Head(queue)
    <2>0. UNCHANGED <<peer, client, remembered, captured, broken, serverVars>>
          /\ queue # <<>> /\ queue' = Tail(queue)
      BY <1>8 DEF Deliver
    <2>1. \/ frame.what = "ask" /\ Spawn({Answer(frame.of)}, FALSE) /\ heard' = heard
          \/ /\ frame.what # "ask" /\ task' = task
             /\ \/ heard' = heard
                \/ heard' = [heard EXCEPT ![frame.of] = frame.what]
      BY <1>8 DEF Deliver
    <2>2. frame \in Frames /\ FrameOf(frame)
      <3>1. frame = queue[1] /\ 1 \in DOMAIN queue
        BY <2>0, <1>0a
      <3> HIDE DEF frame
      <3>2. queue[1] \in Frames /\ FrameOf(queue[1])
        BY <3>1, <1>0, <1>0a
      <3> QED
        BY <3>1, <3>2
    <2> HIDE DEF frame
    <2>3. Version' = Version /\ VersionCourse' /\ client' \in Clients
      BY <2>0, <1>0, <1>0a DEF VersionCourse, Version, serverVars
    <2>4. task' \in [Posts -> Tasks] /\ \A n \in Posts : TaskOf(n)' /\ ServedOf(n)'
      <3>1. CASE frame.what = "ask"
        <4>1. frame.of \in Calls
          BY <3>1, <2>2 DEF FrameOf
        <4>2. {Answer(frame.of)} \in SUBSET Posts /\ FALSE \in BOOLEAN
              /\ \A n \in {Answer(frame.of)} : n \in CallPosts => task[n].at = "unsent" /\ Version' # "none"
          BY <4>1, Names
        <4>3. Spawn({Answer(frame.of)}, FALSE)
          BY <3>1, <2>1
        <4> QED
          BY <4>2, <4>3, <2>0, <2>3, Spawned
      <3>2. CASE frame.what # "ask"
        <4>1. Spawn({}, FALSE) /\ {} \in SUBSET Posts /\ FALSE \in BOOLEAN
              /\ \A n \in {} : n \in CallPosts => task[n].at = "unsent" /\ Version' # "none"
          BY <3>2, <2>1, <1>0a DEF Spawn
        <4> QED
          BY <4>1, <2>0, <2>3, Spawned
      <3> QED
        BY <3>1, <3>2
    <2>5. heard' \in [Requests -> Tidings]
          /\ \A n \in Requests : heard'[n] = heard[n] \/ Grounded(n, heard'[n])
      <3>1. CASE heard' = heard
        BY <3>1, <1>0a
      <3>2. CASE frame.what # "ask" /\ heard' = [heard EXCEPT ![frame.of] = frame.what]
        <4>1. frame.of \in Requests /\ Grounded(frame.of, frame.what)
          BY <3>2, <2>2 DEF FrameOf
        <4>2. frame.what \in Tidings
          BY <3>2, <2>2 DEF Frames, Tidings
        <4>3. heard' \in [Requests -> Tidings] /\ heard'[frame.of] = frame.what
              /\ \A n \in Requests : n # frame.of => heard'[n] = heard[n]
          BY <3>2, <4>1, <4>2, <1>0a
        <4> QED
          BY <4>1, <4>3
      <3> QED
        BY <3>1, <3>2, <2>1
    <2> QED
      BY <2>0, <2>3, <2>4, <2>5, <1>1
  <1>9. CASE Drop
    <2>0. UNCHANGED <<peer, remembered, captured, task, broken, serverVars>> /\ queue' = <<>>
          /\ client' = [client EXCEPT !.at = "over"]
          /\ heard' = [m \in Requests |-> IF heard[m] = "waiting" THEN "closed" ELSE heard[m]]
      BY <1>9 DEF Drop
    <2>1. client' \in Clients /\ client'.version = client.version /\ client'.at = "over"
      BY <2>0, <1>0a DEF Clients
    <2>2. VersionCourse' /\ Version' = Version
      BY <2>0, <2>1, <1>0 DEF VersionCourse, Version, serverVars
    <2>3. Spawn({}, FALSE) /\ {} \in SUBSET Posts /\ FALSE \in BOOLEAN
          /\ \A n \in {} : n \in CallPosts => task[n].at = "unsent" /\ Version' # "none"
      BY <2>0, <1>0a DEF Spawn
    <2>4. task' \in [Posts -> Tasks] /\ \A n \in Posts : TaskOf(n)' /\ ServedOf(n)'
      BY <2>0, <2>2, <2>3, Spawned
    <2>5. heard' \in [Requests -> Tidings]
          /\ \A n \in Requests : heard'[n] = heard[n] \/ heard'[n] = "closed"
      <3>1. "closed" \in Tidings
        BY DEF Tidings
      <3> QED
        BY <3>1, <2>0, <1>0a
    <2> QED
      BY <2>0, <2>1, <2>2, <2>4, <2>5, <1>1
  <1> QED
    BY <1>3, <1>4, <1>5, <1>6, <1>7, <1>8, <1>9 DEF Handshake

\* The steps of a post's own task, and the network that fails it.
LEMMA TaskPreserves ==
  ASSUME EndpointInv, NEW m \in Posts, PostStepOf(m) \/ Break(m)
  PROVE  EndpointInv'
  <1>0. /\ EndpointShape /\ VersionCourse
        /\ \A n \in Posts : TaskOf(n) /\ ServedOf(n)
        /\ \A i \in DOMAIN queue : FrameOf(queue[i])
        /\ \A n \in Requests : Grounded(n, heard[n])
    BY DEF EndpointInv
  <1>0a. /\ client \in Clients /\ task \in [Posts -> Tasks] /\ heard \in [Requests -> Tidings]
         /\ queue \in Seq(Frames) /\ Len(queue) <= QueueCap
         /\ body \in [Posts -> Seq(Results \cup {"ask"})]
         /\ remembered \in Versions /\ captured \in BOOLEAN
         /\ served \in [Posts -> Fates] /\ status \in [Posts -> {"none", "ok", "bad"}]
    BY <1>0 DEF EndpointShape
  <1>0b. TaskOf(m) /\ ServedOf(m) /\ task[m] \in Tasks
    BY <1>0, <1>0a
  <1>0c. UNCHANGED <<peer, client, served, status, session, heard>>
    BY DEF PostStepOf, Break, TakeVersion, TakeSession, GetHead, ReadFrame, EndOfBody, Fail, serverVars
  \* What is left to show once the task's own part is settled.
  <1>1. ASSUME task' \in [Posts -> Tasks], \A n \in Posts : TaskOf(n)' /\ ServedOf(n)',
               captured => captured', captured' => served[Initialize] = "value",
               captured' \in BOOLEAN, broken \subseteq broken',
               remembered' \in Versions, remembered' = "legacy" => captured',
               body' \in [Posts -> Seq(Results \cup {"ask"})],
               queue' = queue
                 \/ \E f \in Frames : FrameOf(f)' /\ Len(queue) < QueueCap /\ queue' = Append(queue, f)
        PROVE  EndpointInv'
    <2>2. \A n \in Requests : Grounded(n, heard[n])'
      BY <1>0, <1>0c, <1>1 DEF Grounded
    <2>3. queue' \in Seq(Frames) /\ Len(queue') <= QueueCap /\ \A i \in DOMAIN queue' : FrameOf(queue[i])'
      <3>1. CASE queue' = queue
        <4>1. \A i \in DOMAIN queue' : FrameOf(queue[i])'
          <5> SUFFICES ASSUME NEW i \in DOMAIN queue' PROVE FrameOf(queue[i])'
            OBVIOUS
          <5>1. FrameOf(queue[i])
            BY <3>1, <1>0
          <5> DEFINE f == queue[i]
          <5>2. f' = f
            BY <3>1
          <5> HIDE DEF f
          <5>3. FrameOf(f)
            BY <5>1 DEF f
          <5>4. FrameOf(f)'
            BY <5>2, <5>3, <1>1, <1>0c, Names DEF FrameOf, Grounded
          <5> QED
            BY <5>4 DEF f
        <4> QED
          BY <3>1, <4>1, <1>0a
      <3>2. ASSUME NEW f \in Frames, FrameOf(f)', Len(queue) < QueueCap, queue' = Append(queue, f)
            PROVE  queue' \in Seq(Frames) /\ Len(queue') <= QueueCap /\ \A i \in DOMAIN queue' : FrameOf(queue[i])'
        <4>1. /\ queue' \in Seq(Frames) /\ Len(queue') <= QueueCap
              /\ DOMAIN queue' = 1..(Len(queue) + 1) /\ DOMAIN queue = 1..Len(queue)
              /\ queue'[Len(queue) + 1] = f /\ Len(queue) \in Nat
              /\ \A i \in 1..Len(queue) : queue'[i] = queue[i]
          BY <3>2, <1>0a, EndpointAssumption
        <4>2. ASSUME NEW i \in DOMAIN queue' PROVE FrameOf(queue[i])'
          <5>1. i \in 1..Len(queue) \/ i = Len(queue) + 1
            BY <4>1, <4>2
          <5>2. CASE i = Len(queue) + 1
            BY <5>2, <4>1, <3>2 DEF FrameOf, Grounded
          <5>3. CASE i \in 1..Len(queue)
            <6>1. FrameOf(queue[i]) /\ queue'[i] = queue[i]
              BY <5>3, <4>1, <1>0
            <6> DEFINE g == queue[i]
            <6>2. g' = g
              BY <6>1, <5>3, <4>1
            <6> HIDE DEF g
            <6>3. FrameOf(g)
              BY <6>1 DEF g
            <6>4. FrameOf(g)'
              BY <6>2, <6>3, <1>1, <1>0c, Names DEF FrameOf, Grounded
            <6> QED
              BY <6>4 DEF g
          <5> QED
            BY <5>1, <5>2, <5>3
        <4> QED
          BY <4>1, <4>2
      <3> QED
        BY <3>1, <3>2, <1>1
    <2>4. EndpointShape'
      BY <1>0, <1>0c, <1>1, <2>3 DEF EndpointShape
    <2>5. VersionCourse'
      BY <1>0, <1>0c, <1>1 DEF VersionCourse, Version
    <2> QED
      BY <1>1, <2>2, <2>3, <2>4, <2>5 DEF EndpointInv
  <1>2. body' = body => \A n \in Posts : \A i \in DOMAIN body'[n] : \E j \in DOMAIN body[n] : body'[n][i] = body[n][j]
    OBVIOUS
  <1>3. CASE TakeVersion(m)
    <2>0. task[m].at = "spawned" /\ remembered' = Resolved(m)
          /\ task' = [task EXCEPT ![m].at = "versioned", ![m].version = Resolved(m)]
          /\ UNCHANGED <<captured, queue, broken, body>>
      BY <1>3 DEF TakeVersion, At, serverVars
    <2> DEFINE r == [task[m] EXCEPT !.at = "versioned", !.version = Resolved(m)]
    <2>1. Resolved(m) \in Versions /\ (Resolved(m) = "legacy" => captured)
      <3>1. Version \in Versions
        BY <1>0a DEF Clients, Version
      <3> QED
        BY <3>1, <1>0, <1>0a DEF Resolved, Declared, VersionCourse, Versions
    <2>2. (m = Discover => Resolved(m) = "draft") /\ (m \in CallPosts => Resolved(m) = Version)
      BY Names DEF Resolved, Declared
    <2>3. r \in Tasks /\ r.at = "versioned" /\ r.version = Resolved(m) /\ r.stale = task[m].stale
          /\ r.session = task[m].session
      BY <2>1, <1>0b DEF Tasks, Places
    <2>4. task' = [task EXCEPT ![m] = r]
      BY <2>0, <1>0a
    <2> HIDE DEF r
    <2>5. task' \in [Posts -> Tasks] /\ \A n \in Posts : TaskOf(n)' /\ ServedOf(n)'
      <3>1. r.session => captured
        BY <2>3, <1>0b DEF TaskOf
      <3>2. task[m].at # "unsent" /\ r.at \notin {"unsent", "spawned"} /\ r.at # "failing" /\ r.at # "reading"
        BY <2>0, <2>3
      <3>3. (r.version = "legacy" => captured') /\ (m = Discover => r.version = "draft")
            /\ (m \in CallPosts => r.version = Version)
        BY <2>0, <2>1, <2>2, <2>3
      <3> QED
        BY <2>0, <2>3, <2>4, <3>1, <3>2, <3>3, <1>0a, <1>0c, <1>2, TaskMoves
    <2> QED
      BY <2>0, <2>1, <2>5, <1>0, <1>0a, <1>1 DEF VersionCourse
  <1>4. CASE TakeSession(m)
    <2>0. task[m].at = "versioned" /\ UNCHANGED <<remembered, captured, queue, broken, body>>
          /\ task' = [task EXCEPT ![m].at = "sent", ![m].session = captured]
      BY <1>4 DEF TakeSession, At, serverVars
    <2> DEFINE r == [task[m] EXCEPT !.at = "sent", !.session = captured]
    <2>1. r \in Tasks /\ r.at = "sent" /\ r.version = task[m].version /\ r.stale = task[m].stale
          /\ r.session = captured
      BY <1>0a, <1>0b DEF Tasks, Places
    <2>2. task' = [task EXCEPT ![m] = r]
      BY <2>0, <1>0a
    <2> HIDE DEF r
    <2>3. task' \in [Posts -> Tasks] /\ \A n \in Posts : TaskOf(n)' /\ ServedOf(n)'
      <3>1. task[m].at # "unsent" /\ r.at \notin {"unsent", "spawned"} /\ r.at # "failing" /\ r.at # "reading"
        BY <2>0, <2>1
      <3>2. (r.version = "legacy" => captured') /\ (r.version = "legacy" => r.session)
            /\ (m = Discover => r.version = "draft") /\ (m \in CallPosts => r.version = Version)
            /\ (r.session => captured')
        BY <2>0, <2>1, <1>0b DEF TaskOf
      <3> QED
        BY <2>0, <2>1, <2>2, <3>1, <3>2, <1>0a, <1>0c, <1>2, TaskMoves
    <2> QED
      BY <2>0, <2>3, <1>0, <1>0a, <1>1 DEF VersionCourse
  \* The others move a task that has its headers from place to place.
  <1>5. ASSUME NEW place \in {"reading", "failing", "done"}, To(m, place),
               task[m].at \notin {"unsent", "spawned", "versioned"},
               place = "failing" => m \in broken' \/ status[m] = "bad",
               m = Initialize /\ place = "reading" => captured',
               captured => captured', captured' \in BOOLEAN, broken \subseteq broken',
               body' \in [Posts -> Seq(Results \cup {"ask"})],
               \A n \in Posts : \A i \in DOMAIN body'[n] : \E j \in DOMAIN body[n] : body'[n][i] = body[n][j]
        PROVE  task' \in [Posts -> Tasks] /\ \A n \in Posts : TaskOf(n)' /\ ServedOf(n)'
    <2> DEFINE r == [task[m] EXCEPT !.at = place]
    <2>1. r \in Tasks /\ r.at = place /\ r.version = task[m].version /\ r.stale = task[m].stale
          /\ r.session = task[m].session
      BY <1>0b DEF Tasks, Places
    <2>2. task' = [task EXCEPT ![m] = r]
      BY <1>5, <1>0a DEF To
    <2> HIDE DEF r
    <2>3. task[m].at # "unsent" /\ r.at \notin {"unsent", "spawned"}
      BY <2>1, <1>5
    <2>4. (r.version = "legacy" => captured') /\ (r.version = "legacy" => r.session)
          /\ (m = Discover => r.version = "draft") /\ (m \in CallPosts => r.version = Version)
          /\ (r.session => captured')
      BY <2>1, <1>5, <1>0b DEF TaskOf
    <2>5. (r.at = "failing" => m \in broken' \/ status[m] = "bad") /\ (m = Initialize /\ r.at = "reading" => captured')
      BY <2>1, <1>5
    <2> QED
      BY <2>1, <2>2, <2>3, <2>4, <2>5, <1>0c, <1>5, TaskMoves
  <1>6. CASE GetHead(m)
    <2>0. /\ task[m].at = "sent" /\ status[m] # "none" /\ To(m, AfterHead(m))
          /\ captured' = (captured \/ (m = Initialize /\ served[m] = "value"))
          /\ UNCHANGED <<remembered, queue, broken, body>>
      BY <1>6 DEF GetHead, At, serverVars
    <2>1. AfterHead(m) \in {"reading", "failing", "done"} /\ (AfterHead(m) = "failing" => status[m] = "bad")
      BY DEF AfterHead
    <2>2. captured' \in BOOLEAN /\ (captured => captured') /\ (captured' => served[Initialize] = "value")
      BY <2>0, <1>0, <1>0a DEF VersionCourse
    <2>3. m = Initialize => captured'
      BY <2>0, <1>0b DEF ServedOf
    <2>4. task' \in [Posts -> Tasks] /\ \A n \in Posts : TaskOf(n)' /\ ServedOf(n)'
      BY <2>0, <2>1, <2>2, <2>3, <1>0a, <1>2, <1>5
    <2> QED
      BY <2>0, <2>2, <2>4, <1>0, <1>0a, <1>1 DEF VersionCourse
  <1>7. CASE ReadFrame(m)
    <2> DEFINE head == Head(body[m])
               f == [of |-> IF head = "ask" THEN m[2] ELSE m, what |-> head]
    <2>0. /\ task[m].at = "reading" /\ body[m] # <<>> /\ Push(f)
          /\ body' = [body EXCEPT ![m] = Tail(@)]
          /\ To(m, IF Receives THEN "reading" ELSE "done")
          /\ UNCHANGED <<remembered, captured, broken>>
      BY <1>7 DEF ReadFrame, At
    <2>1. /\ body[m] \in Seq(Results \cup {"ask"}) /\ head = body[m][1] /\ 1 \in DOMAIN body[m]
          /\ Tail(body[m]) \in Seq(Results \cup {"ask"})
          /\ \A i \in DOMAIN Tail(body[m]) : i + 1 \in DOMAIN body[m] /\ Tail(body[m])[i] = body[m][i + 1]
      <3>1. body[m] \in Seq(Results \cup {"ask"})
        BY <1>0a
      <3> QED
        BY <3>1, <2>0
    <2>1a. \A i \in DOMAIN body[m] : IF body[m][i] = "ask" THEN m \in CallPosts ELSE body[m][i] = served[m]
      BY <1>0b DEF ServedOf
    <2>2. head \in Results \cup {"ask"} /\ (IF head = "ask" THEN m \in CallPosts ELSE head = served[m])
      <3>1. body[m][1] \in Results \cup {"ask"}
        BY <2>1
      <3> QED
        BY <3>1, <2>1, <2>1a
    <2>3. head # "ask" => m \in Requests
      BY <2>2, <1>0b DEF ServedOf
    <2>4. m = Initialize => captured
      BY <2>0, <1>0b DEF TaskOf
    <2> HIDE DEF head
    <2>5. f \in Frames /\ f.what = head /\ f.of = (IF head = "ask" THEN m[2] ELSE m)
      BY <2>2, Names DEF Frames
    <2> HIDE DEF f
    <2>6. PICK e \in Frames : e = f
      BY <2>5
    <2>7. FrameOf(e)'
      <3>1. CASE head = "ask"
        <4>1. e.what = "ask" /\ e.of \in Calls
          BY <3>1, <2>2, <2>5, <2>6, Names
        <4> QED
          BY <4>1 DEF FrameOf
      <3>2. CASE head # "ask"
        <4>1. e.of = m /\ m \in Requests /\ e.what = served'[m] /\ (m = Initialize => captured')
          BY <3>2, <2>0, <2>2, <2>3, <2>4, <2>5, <2>6, <1>0c
        <4>2. e.what # Lost /\ e.what # "ask"
          BY <3>2, <2>2, <2>5, <2>6 DEF Results, Lost
        <4> QED
          BY <4>1, <4>2 DEF FrameOf, Grounded
      <3> QED
        BY <3>1, <3>2
    <2>8. /\ body' \in [Posts -> Seq(Results \cup {"ask"})]
          /\ \A n \in Posts : \A i \in DOMAIN body'[n] : \E j \in DOMAIN body[n] : body'[n][i] = body[n][j]
      <3> DEFINE rest == Tail(body[m])
      <3>1. body' = [body EXCEPT ![m] = rest] /\ rest \in Seq(Results \cup {"ask"})
        BY <2>0, <2>1
      <3>2. \A i \in DOMAIN rest : \E j \in DOMAIN body[m] : rest[i] = body[m][j]
        BY <2>1
      <3> HIDE DEF rest
      <3>3. body' \in [Posts -> Seq(Results \cup {"ask"})] /\ body'[m] = rest
            /\ \A n \in Posts : n # m => body'[n] = body[n]
        BY <3>1, <1>0a
      <3> QED
        BY <3>2, <3>3
    <2>9. task' \in [Posts -> Tasks] /\ \A n \in Posts : TaskOf(n)' /\ ServedOf(n)'
      <3>1. PICK place \in {"reading", "done"} : To(m, place)
        BY <2>0
      <3> QED
        BY <3>1, <2>0, <2>4, <2>8, <1>0a, <1>5
    <2>10. queue' = queue \/ (Len(queue) < QueueCap /\ queue' = Append(queue, e))
      BY <2>0, <2>6 DEF Push
    <2> QED
      BY <2>0, <2>7, <2>8, <2>9, <2>10, <1>0, <1>0a, <1>1 DEF VersionCourse
  <1>8. CASE EndOfBody(m)
    <2>0. task[m].at = "reading" /\ To(m, "done") /\ UNCHANGED <<remembered, captured, queue, broken, body>>
      BY <1>8 DEF EndOfBody, At, serverVars
    <2>1. task' \in [Posts -> Tasks] /\ \A n \in Posts : TaskOf(n)' /\ ServedOf(n)'
      BY <2>0, <1>0a, <1>2, <1>5
    <2> QED
      BY <2>0, <2>1, <1>0, <1>0a, <1>1 DEF VersionCourse
  <1>9. CASE Break(m)
    <2>0. task[m].at \in {"sent", "reading"} /\ To(m, "failing") /\ broken' = broken \cup {m}
          /\ UNCHANGED <<remembered, captured, queue, body>>
      BY <1>9 DEF Break, At, serverVars
    <2>1. task' \in [Posts -> Tasks] /\ \A n \in Posts : TaskOf(n)' /\ ServedOf(n)'
      BY <2>0, <1>0a, <1>2, <1>5
    <2> QED
      BY <2>0, <2>1, <1>0, <1>0a, <1>1 DEF VersionCourse
  <1>10. CASE Fail(m)
    <2> DEFINE f == [of |-> m, what |-> Lost]
    <2>0. /\ task[m].at = "failing" /\ To(m, "done") /\ UNCHANGED <<remembered, captured, broken, body>>
          /\ IF m \in Requests THEN Push(f) ELSE queue' = queue
      BY <1>10 DEF Fail, At, serverVars
    <2>1. m \in broken \/ status[m] = "bad"
      BY <2>0, <1>0b DEF TaskOf
    <2>2. f \in Frames /\ f.of = m /\ f.what = Lost
      BY DEF Frames
    <2> HIDE DEF f
    <2>3. Lost \notin Results /\ Lost # "ask" /\ Lost # "value"
      BY DEF Lost, Results
    <2>4. m \in Requests => FrameOf(f)'
      BY <2>0, <2>1, <2>2, <2>3, <1>0c DEF FrameOf, Grounded
    <2>5. queue' = queue \/ (m \in Requests /\ Len(queue) < QueueCap /\ queue' = Append(queue, f))
      BY <2>0 DEF Push
    <2>6. task' \in [Posts -> Tasks] /\ \A n \in Posts : TaskOf(n)' /\ ServedOf(n)'
      BY <2>0, <1>0a, <1>2, <1>5
    <2> QED
      BY <2>0, <2>2, <2>4, <2>5, <2>6, <1>0, <1>0a, <1>1 DEF VersionCourse
  <1> QED
    BY <1>3, <1>4, <1>6, <1>7, <1>8, <1>9, <1>10 DEF PostStepOf

\* The server takes a post, asks on its stream, answers; and ends the session.
LEMMA ServerPreserves ==
  ASSUME EndpointInv,
         \/ EndSession
         \/ \E m \in Posts : Arrive(m)
         \/ \E c \in Calls : Ask(c) \/ Finish(c)
  PROVE  EndpointInv'
  <1>0. /\ EndpointShape /\ VersionCourse
        /\ \A n \in Posts : TaskOf(n) /\ ServedOf(n)
        /\ \A i \in DOMAIN queue : FrameOf(queue[i])
        /\ \A n \in Requests : Grounded(n, heard[n])
    BY DEF EndpointInv
  <1>0a. /\ client \in Clients /\ task \in [Posts -> Tasks] /\ captured \in BOOLEAN
         /\ body \in [Posts -> Seq(Results \cup {"ask"})]
         /\ served \in [Posts -> Fates] /\ status \in [Posts -> {"none", "ok", "bad"}]
         /\ session \in {"none", "live", "ended"}
    BY <1>0 DEF EndpointShape
  <1>0b. UNCHANGED <<peer, client, remembered, captured, task, queue, heard, broken>>
    BY DEF EndSession, Arrive, Ask, Finish, clientVars
  <1>0c. Version' = Version /\ Speaks' = Speaks
    BY <1>0b DEF Version, Speaks
  \* What is left to show of a step that leaves a session and fates as they must be.
  <1>1. ASSUME served' \in [Posts -> Fates], status' \in [Posts -> {"none", "ok", "bad"}],
               body' \in [Posts -> Seq(Results \cup {"ask"})], session' \in {"none", "live", "ended"},
               \A n \in Posts : ServedOf(n)',
               \A n \in Posts : served[n] \in Results => served'[n] = served[n],
               \A n \in Posts : status[n] = "bad" => status'[n] = "bad",
               \A n \in Posts : task[n].at = "unsent" => served'[n] = served[n]
        PROVE  EndpointInv'
    <2>1. \A n \in Posts : TaskOf(n)'
      BY <1>0, <1>0b, <1>0c, <1>1 DEF TaskOf
    <2>2. VersionCourse'
      <3>1. "value" \in Results /\ Initialize \in Posts
        BY Names DEF Results
      <3> QED
        BY <3>1, <1>0, <1>0b, <1>0c, <1>1 DEF VersionCourse
    <2>4. ASSUME NEW i \in DOMAIN queue' PROVE FrameOf(queue[i])'
      <3>1. FrameOf(queue[i])
        BY <1>0, <1>0b, <2>4
      <3> DEFINE f == queue[i]
      <3>2. f' = f
        BY <1>0b
      <3> HIDE DEF f
      <3>3. FrameOf(f)
        BY <3>1 DEF f
      <3>4. FrameOf(f)'
        BY <3>2, <3>3, <1>0b, <1>1, Names DEF FrameOf, Grounded
      <3> QED
        BY <3>4 DEF f
    <2>5. ASSUME NEW n \in Requests PROVE Grounded(n, heard[n])'
      <3>1. Grounded(n, heard[n]) /\ n \in Posts
        BY <1>0, Names
      <3> QED
        BY <3>1, <1>0b, <1>1 DEF Grounded
    <2>6. EndpointShape'
      BY <1>0, <1>0b, <1>1 DEF EndpointShape
    <2> QED
      BY <1>1, <2>1, <2>2, <2>4, <2>5, <2>6 DEF EndpointInv
  <1>2. CASE EndSession
    <2>0. UNCHANGED <<served, status, body>> /\ session = "live" /\ session' = "ended"
      BY <1>2 DEF EndSession
    <2>1. ASSUME NEW n \in Posts PROVE ServedOf(n)'
      BY <1>0, <1>0b, <1>0c, <2>0 DEF ServedOf
    <2> QED
      BY <2>0, <2>1, <1>0a, <1>1
  <1>3. ASSUME NEW m \in Posts, Arrive(m) PROVE EndpointInv'
    <2> DEFINE handled == Treatment(m)
    <2>0. /\ task[m].at = "sent" /\ served[m] = "no"
          /\ served' = [served EXCEPT ![m] = handled]
          /\ session' = (IF m = Initialize THEN "live" ELSE session)
          /\ status' = CASE handled = "working" -> status
                         [] handled \in {"mismatch", "no session"} -> [status EXCEPT ![m] = "bad"]
                         [] OTHER -> [status EXCEPT ![m] = "ok"]
          /\ body' = IF handled \in Results THEN [body EXCEPT ![m] = <<handled>>] ELSE body
      BY <1>3 DEF Arrive, At
    <2>1. TaskOf(m) /\ ServedOf(m) /\ VersionCourse
      BY <1>0
    <2>2. /\ handled \in Fates \ {"no", "asking"}
          /\ handled \in Results => m \in Requests
          /\ m = Initialize => handled = "value"
          /\ handled = "mismatch" => m \in CallPosts /\ task[m].stale
          /\ handled = "no session" => m # Initialize /\ session = "ended"
          /\ handled = "-32022" => Version = "draft" /\ "draft" \notin Speaks
      <3>1. Mismatch(m) => m \in CallPosts /\ task[m].stale
        <4>1. Declared(m) # "none" /\ m \notin CallPosts => m = Discover /\ Declared(m) = "draft"
          BY DEF Declared
        <4>2. m = Discover => task[m].version = "draft"
          BY <2>0, <2>1 DEF TaskOf
        <4>3. Declared(m) # "none" /\ m \in CallPosts => Declared(m) = "draft" /\ task[m].version = "draft"
          BY <2>0, <2>1, Names DEF Declared, TaskOf
        <4> QED
          BY <4>1, <4>2, <4>3 DEF Mismatch
      <3>2. m = Initialize => Declared(m) = "none"
        BY Names DEF Declared
      <3>3. task[m].version = "legacy" => task[m].session
        BY <2>0, <2>1 DEF TaskOf
      <3>4. m \in CallPosts /\ Declared(m) # "draft" => task[m].version = "legacy"
        <4>1. Version \in {"none", "draft", "legacy"}
          BY <1>0a DEF Clients, Versions, Version
        <4> QED
          BY <4>1, <2>0, <2>1 DEF Declared, TaskOf
      <3>5. Declared(m) = "draft" /\ m \in CallPosts => Version = "draft"
        BY Names DEF Declared
      <3>6. m \in Requests /\ m # Discover /\ m # Initialize => m \in CallPosts
        BY DEF Requests
      <3>7. task[m].session => session # "none"
        <4>1. ServedOf(Initialize)
          BY <1>0, Names
        <4> QED
          BY <4>1, <2>1 DEF TaskOf, VersionCourse, ServedOf
      <3>8. session \in {"none", "live", "ended"}
        BY <1>0 DEF EndpointShape
      <3>9. m # Initialize \/ ~Mismatch(m)
        BY <3>2 DEF Mismatch
      <3>10. Discover # Initialize /\ Discover \in Requests /\ Initialize \in Requests
        BY Names
      <3>11. \/ Mismatch(m) /\ handled = "mismatch"
             \/ /\ ~Mismatch(m) /\ m = Discover /\ handled \in {"-32601", "value"}
             \/ /\ ~Mismatch(m) /\ m = Initialize /\ handled = "value"
             \/ /\ ~Mismatch(m) /\ m \notin Requests /\ handled = "silent"
             \/ /\ m \in CallPosts /\ handled = "working"
             \/ /\ m \in CallPosts /\ handled = "-32022"
                /\ Declared(m) = "draft" /\ "draft" \notin Speaks
             \/ /\ m \in CallPosts /\ handled = "no session" /\ session = "ended"
        BY <3>3, <3>4, <3>6, <3>7, <3>8, <3>10 DEF Treatment
      <3> HIDE DEF handled
      <3>12. m \in CallPosts => m # Initialize /\ m \in Requests
        BY Names
      <3> QED
        BY <3>1, <3>2, <3>5, <3>9, <3>10, <3>11, <3>12 DEF Fates, Results
    <2> HIDE DEF handled
    <2>3. /\ served' \in [Posts -> Fates] /\ served'[m] = handled
          /\ \A n \in Posts : n # m => served'[n] = served[n]
      BY <2>0, <2>2, <1>0a
    <2>4. /\ status' \in [Posts -> {"none", "ok", "bad"}]
          /\ \A n \in Posts : n # m => status'[n] = status[n]
          /\ status'[m] = "bad" => handled \notin {"working", "asking"}
      <3>1. status[m] = "none"
        BY <2>0, <2>1, <1>0a DEF ServedOf
      <3> QED
        BY <3>1, <2>0, <1>0a
    <2>5. /\ body' \in [Posts -> Seq(Results \cup {"ask"})]
          /\ \A n \in Posts : n # m => body'[n] = body[n]
          /\ (body'[m] = body[m] /\ handled \notin Results) \/ (body'[m] = <<handled>> /\ handled \in Results)
      <3>1. CASE handled \notin Results
        BY <3>1, <2>0, <1>0a
      <3>2. CASE handled \in Results
        <4> DEFINE one == <<handled>>
        <4>1. one \in Seq(Results \cup {"ask"})
          BY <3>2
        <4>2. body' = [body EXCEPT ![m] = one]
          BY <3>2, <2>0
        <4> HIDE DEF one
        <4>3. body' \in [Posts -> Seq(Results \cup {"ask"})] /\ body'[m] = one
              /\ \A n \in Posts : n # m => body'[n] = body[n]
          BY <4>1, <4>2, <1>0a
        <4> QED
          BY <4>3, <3>2 DEF one
      <3> QED
        BY <3>1, <3>2
    <2>6. \A i \in DOMAIN body'[m] : IF body'[m][i] = "ask" THEN m \in CallPosts ELSE body'[m][i] = served'[m]
      <3>1. CASE body'[m] = body[m] /\ handled \notin Results
        <4>1. \A i \in DOMAIN body[m] : IF body[m][i] = "ask" THEN m \in CallPosts ELSE body[m][i] = "no"
          BY <2>0, <2>1 DEF ServedOf
        <4>2. \A i \in DOMAIN body[m] : body[m][i] \in Results \cup {"ask"}
          BY <1>0a
        <4>3. "no" \notin Results
          BY DEF Results
        <4> QED
          BY <3>1, <4>1, <4>2, <4>3
      <3>2. CASE body'[m] = <<handled>> /\ handled \in Results
        <4>1. DOMAIN <<handled>> = {1} /\ <<handled>>[1] = handled /\ handled # "ask"
          BY <3>2 DEF Results
        <4> QED
          BY <4>1, <3>2, <2>3
      <3> QED
        BY <3>1, <3>2, <2>5
    <2>7. ASSUME NEW n \in Posts PROVE ServedOf(n)'
      <3>0. ServedOf(n) /\ ServedOf(Initialize)
        BY <1>0, Names
      <3>1. CASE n = m
        <4>1. served'[n] = handled /\ task' = task
          BY <3>1, <2>3, <1>0b
        <4>2. /\ served'[n] \in Results => n \in Requests
              /\ n = Initialize => served'[n] \in {"no", "value"} /\ (served'[n] = "value" <=> session' # "none")
          BY <3>1, <4>1, <2>0, <2>2
        <4>3. /\ status'[n] # "none" => served'[n] # "no"
              /\ status'[n] = "bad" => served'[n] \notin {"working", "asking"}
          BY <3>1, <4>1, <2>2, <2>4
        <4>4. /\ served'[n] = "mismatch" => n \in CallPosts /\ task'[n].stale
              /\ served'[n] = "no session" => session' = "ended"
              /\ served'[n] = "-32022" => Version' = "draft" /\ "draft" \notin Speaks'
          BY <3>1, <4>1, <2>0, <2>2, <1>0c
        <4> QED
          BY <3>1, <4>2, <4>3, <4>4, <2>6 DEF ServedOf
      <3>2. CASE n # m
        <4>1. served'[n] = served[n] /\ status'[n] = status[n] /\ body'[n] = body[n] /\ task' = task
          BY <3>2, <2>3, <2>4, <2>5, <1>0b
        <4>2. session' = session \/ (session = "none" /\ m = Initialize)
          BY <2>0, <3>0 DEF ServedOf
        <4>3. n = Initialize => session' = session
          BY <2>0, <3>2
        <4> QED
          BY <4>1, <4>2, <4>3, <3>0, <1>0c DEF ServedOf
      <3> QED
        BY <3>1, <3>2
    <2>8. \A n \in Posts : served[n] \in Results => served'[n] = served[n]
      BY <2>0, <2>3 DEF Results
    <2>9. \A n \in Posts : status[n] = "bad" => status'[n] = "bad"
      BY <2>0, <2>1, <2>4 DEF ServedOf
    <2>10. \A n \in Posts : task[n].at = "unsent" => served'[n] = served[n]
      BY <2>0, <2>3
    <2> QED
      <3>1. session' \in {"none", "live", "ended"}
        BY <2>0, <1>0a
      <3> QED
        BY <3>1, <2>3, <2>4, <2>5, <2>7, <2>8, <2>9, <2>10, <1>1
  \* The handler of a call asks, or answers.
  <1>4. ASSUME NEW m \in CallPosts, served[m] \in {"working", "asking"},
               NEW fate \in {"asking", "value", "-32601"}, NEW code \in {"ok", "bad"},
               NEW frame \in Results \cup {"ask"},
               frame = IF fate = "asking" THEN "ask" ELSE fate,
               code = "bad" => fate # "asking",
               served' = [served EXCEPT ![m] = fate], status' = [status EXCEPT ![m] = code],
               body' = [body EXCEPT ![m] = Append(@, frame)], session' = session
        PROVE  EndpointInv'
    <2>0. m \in Posts /\ m \in Requests /\ m # Initialize
      BY Names
    <2>1. TaskOf(m) /\ ServedOf(m)
      BY <1>0, <2>0
    <2>2. /\ served' \in [Posts -> Fates] /\ served'[m] = fate
          /\ \A n \in Posts : n # m => served'[n] = served[n]
      <3>1. fate \in Fates
        BY DEF Fates, Results
      <3> QED
        BY <3>1, <1>4, <1>0a, <2>0
    <2>3. /\ status' \in [Posts -> {"none", "ok", "bad"}] /\ status'[m] = code
          /\ \A n \in Posts : n # m => status'[n] = status[n]
      BY <1>4, <1>0a, <2>0
    <2>4. /\ body' \in [Posts -> Seq(Results \cup {"ask"})]
          /\ \A n \in Posts : n # m => body'[n] = body[n]
          /\ \A i \in DOMAIN body'[m] : body'[m][i] = frame \/ (i \in DOMAIN body[m] /\ body'[m][i] = body[m][i])
      <3> DEFINE longer == Append(body[m], frame)
      <3>1. body[m] \in Seq(Results \cup {"ask"})
        BY <1>0a, <2>0
      <3>2. longer \in Seq(Results \cup {"ask"})
        BY <3>1, <1>4
      <3>3. \A i \in DOMAIN longer : longer[i] = frame \/ (i \in DOMAIN body[m] /\ longer[i] = body[m][i])
        BY <3>1, <1>4
      <3>4. body' = [body EXCEPT ![m] = longer]
        BY <1>4
      <3> HIDE DEF longer
      <3>5. body' \in [Posts -> Seq(Results \cup {"ask"})] /\ body'[m] = longer
            /\ \A n \in Posts : n # m => body'[n] = body[n]
        BY <3>2, <3>4, <1>0a, <2>0
      <3> QED
        BY <3>3, <3>5
    <2>5. ASSUME NEW i \in DOMAIN body'[m]
          PROVE  IF body'[m][i] = "ask" THEN m \in CallPosts ELSE body'[m][i] = served'[m]
      <3>1. CASE body'[m][i] = frame
        BY <3>1, <2>2, <1>4
      <3>2. CASE i \in DOMAIN body[m] /\ body'[m][i] = body[m][i]
        <4>1. body[m][i] \in Results \cup {"ask"}
          BY <3>2, <1>0a, <2>0
        <4>2. body[m][i] # "ask" => body[m][i] = served[m]
          BY <3>2, <2>1 DEF ServedOf
        <4>3. served[m] \notin Results
          BY <1>4 DEF Results
        <4> QED
          BY <3>2, <4>1, <4>2, <4>3
      <3> QED
        BY <3>1, <3>2, <2>4
    <2>6. ASSUME NEW n \in Posts PROVE ServedOf(n)'
      <3>1. CASE n = m
        <4>1. /\ served'[n] \in Results => n \in Requests
              /\ n # Initialize
              /\ status'[n] # "none" => served'[n] # "no"
              /\ status'[n] = "bad" => served'[n] \notin {"working", "asking"}
              /\ served'[n] \notin {"mismatch", "no session", "-32022"}
          BY <3>1, <2>0, <2>2, <2>3, <1>4
        <4> QED
          BY <3>1, <4>1, <2>5 DEF ServedOf
      <3>2. CASE n # m
        <4>1. served'[n] = served[n] /\ status'[n] = status[n] /\ body'[n] = body[n] /\ task' = task
              /\ session' = session
          BY <3>2, <2>2, <2>3, <2>4, <1>0b, <1>4
        <4>2. ServedOf(n)
          BY <1>0
        <4> QED
          BY <4>1, <4>2, <1>0c DEF ServedOf
      <3> QED
        BY <3>1, <3>2
    <2>7. \A n \in Posts : served[n] \in Results => served'[n] = served[n]
      BY <2>2, <1>4 DEF Results
    <2>8. \A n \in Posts : status[n] = "bad" => status'[n] = "bad"
      BY <2>1, <2>3, <1>4 DEF ServedOf
    <2>9. \A n \in Posts : task[n].at = "unsent" => served'[n] = served[n]
      BY <2>1, <2>2, <1>4 DEF TaskOf
    <2> QED
      <3>1. session' \in {"none", "live", "ended"}
        BY <1>0a, <1>4
      <3> QED
        BY <3>1, <2>2, <2>3, <2>4, <2>6, <2>7, <2>8, <2>9, <1>1
  <1>5. ASSUME NEW c \in Calls, Ask(c) PROVE EndpointInv'
    <2> DEFINE m == Call(c)
    <2>1. m \in CallPosts
      BY Names
    <2>2. /\ served[m] = "working" /\ served' = [served EXCEPT ![m] = "asking"]
          /\ status' = [status EXCEPT ![m] = "ok"] /\ session' = session
          /\ body' = [body EXCEPT ![m] = Append(@, "ask")]
      BY <1>5 DEF Ask
    <2> HIDE DEF m
    <2> QED
      BY <2>1, <2>2, <1>4
  <1>6. ASSUME NEW c \in Calls, Finish(c) PROVE EndpointInv'
    <2> DEFINE m == Call(c)
    <2>1. m \in CallPosts
      BY Names
    <2>2. PICK result \in {"value", "-32601"}, code \in {"ok", "bad"} :
            /\ served[m] \in {"working", "asking"} /\ served' = [served EXCEPT ![m] = result]
            /\ status' = [status EXCEPT ![m] = code] /\ session' = session
            /\ body' = [body EXCEPT ![m] = Append(@, result)]
      BY <1>6 DEF Finish
    <2>3. result \in Results \cup {"ask"} /\ result # "asking"
      BY DEF Results
    <2> HIDE DEF m
    <2> QED
      BY <2>1, <2>2, <2>3, <1>4
  <1> QED
    BY <1>2, <1>3, <1>5, <1>6

\* Every step keeps the invariant.
LEMMA EndpointSteps == EndpointInv /\ [HttpNext]_httpVars => EndpointInv'
  <1> SUFFICES ASSUME EndpointInv, [HttpNext]_httpVars PROVE EndpointInv'
    OBVIOUS
  <1>1. CASE UNCHANGED httpVars
    <2>0. UNCHANGED <<peer, mode, client, remembered, captured, task, queue, heard, broken,
                      served, status, body, session>>
      BY <1>1 DEF httpVars, clientVars, serverVars
    <2>1. EndpointShape' /\ VersionCourse'
      BY <2>0 DEF EndpointInv, EndpointShape, VersionCourse, Version
    <2>2. \A m \in Posts : TaskOf(m)'
      BY <2>0 DEF EndpointInv, TaskOf, Version
    <2>3. \A m \in Posts : ServedOf(m)'
      BY <2>0 DEF EndpointInv, ServedOf, Version, Speaks
    <2>4. \A i \in DOMAIN queue' : FrameOf(queue[i])'
      BY <2>0 DEF EndpointInv, FrameOf, Grounded
    <2>5. \A m \in Requests : Grounded(m, heard[m])'
      BY <2>0 DEF EndpointInv, Grounded
    <2> QED
      BY <2>1, <2>2, <2>3, <2>4, <2>5 DEF EndpointInv
  <1>2. CASE \/ Handshake \/ Deliver \/ Drop
             \/ \E m \in Requests : TimeOut(m)
             \/ \E c \in Calls : MakeCall(c)
    BY <1>2, ClientPreserves
  <1>3. ASSUME NEW m \in Posts, PostStepOf(m) \/ Break(m) PROVE EndpointInv'
    BY <1>3, TaskPreserves
  <1>4. CASE \/ EndSession
             \/ \E m \in Posts : Arrive(m)
             \/ \E c \in Calls : Ask(c) \/ Finish(c)
    BY <1>4, ServerPreserves
  <1> QED
    BY <1>2, <1>3, <1>4, <1>1 DEF HttpNext

\* What the invariant says of headers, failures and types.
LEMMA EndpointInvIsEnough == EndpointInv => HeadersServe /\ FailuresAreScoped /\ HttpTypeOK
  <1> SUFFICES ASSUME EndpointInv PROVE HeadersServe /\ FailuresAreScoped /\ HttpTypeOK
    OBVIOUS
  <1>1. HeadersServe
    BY DEF EndpointInv, ServedOf, HeadersServe
  <1>2. FailuresAreScoped
    BY DEF EndpointInv, Grounded, FailuresAreScoped
  <1>3. HttpTypeOK
    <2>1. /\ client \in Clients /\ remembered \in Versions /\ captured \in BOOLEAN
          /\ task \in [Posts -> Tasks] /\ served \in [Posts -> Fates]
          /\ status \in [Posts -> {"none", "ok", "bad"}] /\ Len(queue) <= QueueCap
          /\ heard \in [Requests -> Tidings]
      BY DEF EndpointInv, EndpointShape
    <2>2. captured => session # "none"
      BY Names DEF EndpointInv, VersionCourse, ServedOf
    <2>3. \A m \in Posts :
            /\ task[m].at \in {"unsent", "spawned", "versioned", "sent", "reading", "failing", "done"}
            /\ served[m] \in {"no", "working", "asking", "silent", "mismatch", "no session"} \cup Results
            /\ status[m] \in {"none", "ok", "bad"}
      BY <2>1 DEF Tasks, Places, Fates
    <2>4. \A m \in Requests :
            heard[m] \in {"nothing", "waiting", Lost, "timeout", "closed"} \cup Results
      BY <2>1 DEF Tidings
    <2> QED
      BY <2>1, <2>2, <2>3, <2>4 DEF HttpTypeOK, Clients, Versions, Version
  <1> QED
    BY <1>1, <1>2, <1>3

\* However posts are scheduled, the invariant of the endpoint holds.
LEMMA EndpointInvHolds == HttpSpec => []EndpointInv
  <1>1. HttpInit => EndpointInv
    BY EndpointInit
  <1>2. EndpointInv /\ [HttpNext]_httpVars => EndpointInv'
    BY EndpointSteps
  <1> QED
    BY <1>1, <1>2, PTL DEF HttpSpec

\* However many calls overtake each other, and whatever versions meet: no post is
\* turned down for its headers but a call whose mirrors are stale, and none for its
\* session but when that has ended (post_and_pump and mcp_post).
THEOREM HeadersServeEveryPost == HttpSpec => []HeadersServe
  <1>1. EndpointInv => HeadersServe
    BY EndpointInvIsEnough
  <1> QED
    BY <1>1, EndpointInvHolds, PTL

\* A failed post is told to the one caller that waits for it, and to nobody who was
\* not failed (run_post and its synthesized error).
THEOREM FailuresAreTheirOwn == HttpSpec => []FailuresAreScoped
  <1>1. EndpointInv => FailuresAreScoped
    BY EndpointInvIsEnough
  <1> QED
    BY <1>1, EndpointInvHolds, PTL

-----------------------------------------------------------------------------
(* Both, as the run has them.                                                *)

\* Every state of the run is typed: channels and the queue keep their capacity, and
\* a session id that was seen is one the server gave.
THEOREM ViewsAreTyped == FairViews => []HttpTypesOK
  <1> DEFINE Inv == StreamInv /\ EndpointInv
             all == <<view, vars, httpVars>>
  <1>1. HttpViews => Inv
    BY InitStream, EndpointInit DEF HttpViews
  <1>2. Inv /\ [StreamPart \/ ClientPart]_all => Inv'
    <2> SUFFICES ASSUME Inv, [StreamPart \/ ClientPart]_all PROVE Inv'
      OBVIOUS
    <2>1. [Next]_vars /\ [HttpNext]_httpVars
      BY DEF StreamPart, ClientPart
    <2> QED
      BY <2>1, StreamSteps, EndpointSteps
  <1>3. Inv => HttpTypesOK
    BY StreamInvIsEnough, EndpointInvIsEnough DEF HttpTypesOK
  <1> QED
    BY <1>1, <1>2, <1>3, PTL DEF FairViews
=============================================================================
