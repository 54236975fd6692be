----------------------------- MODULE ServeDriver -----------------------------
(***************************************************************************)
(* The transport <-> service driver of turbomcp-service (serve_with): one  *)
(* task that reads frames, spawns one handler per frame under a semaphore, *)
(* and is the only writer of the transport.  Handlers and everything else  *)
(* that wants to reach the peer go through one bounded channel, whose      *)
(* capacity is also the number of permits.                                 *)
(*                                                                         *)
(* The driver's select! is biased: outbound first, then reaping, then the  *)
(* shutdown token, then the next frame.  A pass polls these one after the  *)
(* other, so a later arm may fire although an earlier one became ready in  *)
(* between; the event that made it ready commutes with the later arm, so   *)
(* each arm is one atomic action guarded by "no earlier arm is ready".     *)
(* What the arm BODIES await (transport.send, acquire_owned) is a separate *)
(* step: meanwhile the driver polls nothing else.                          *)
(***************************************************************************)
EXTENDS Naturals, Sequences, FiniteSets

CONSTANTS
    Calls,        \* inbound requests
    Notes,        \* inbound notifications
    Answers,      \* inbound responses to requests the server sent
    AnswerTo,     \* [Answers -> Calls]: whose inline request each one answers
    Chatty,       \* the calls whose handler pushes progress or log messages
    Hanging,      \* those whose handler may never end
    Publishers,   \* tasks outside the JoinSet that push on this connection
    MaxInFlight,  \* ServeConfig::max_in_flight
    MaxPushes,    \* bound: pushes of one chatty handler
    Faults        \* which external operations may fail

Frames == Calls \cup Notes \cup Answers

FaultKinds == {"send", "recv", "ready", "handler", "close"}

ASSUME FramesAssumption ==
    /\ IsFiniteSet(Calls) /\ IsFiniteSet(Notes) /\ IsFiniteSet(Answers)
    /\ Calls \cap Notes = {}
    /\ (Calls \cup Notes) \cap Answers = {}
    /\ Publishers \cap Frames = {}
    /\ AnswerTo \in [Answers -> Calls]
    /\ Chatty \subseteq Calls
    /\ Hanging \subseteq Calls

ASSUME BoundsAssumption ==
    /\ MaxInFlight \in Nat
    /\ MaxPushes \in Nat
    /\ Faults \subseteq FaultKinds

Capacity == IF MaxInFlight = 0 THEN 1 ELSE MaxInFlight

Askers == {AnswerTo[x] : x \in Answers}

Message == [kind : {"reply", "push", "ask"}, of : Calls \cup Publishers]

Reply(c) == [kind |-> "reply", of |-> c]
Push(s)  == [kind |-> "push", of |-> s]
Ask(c)   == [kind |-> "ask", of |-> c]

VARIABLES
    phase,      \* serving -> draining -> flushing -> closing -> closed
    at,         \* where the driver task is: select, send or park
    task,       \* what became of each frame and of its handler
    joined,     \* the JoinSet: spawned and not reaped
    aborting,   \* handlers abort_all has marked
    pushed,     \* pushes made by each call's handler
    pub,        \* the outside publishers
    chan,       \* the outbound channel
    writing,    \* <<m>> while transport.send(m) is in progress, else <<>>
    wire,       \* what reached the peer
    shutdown,   \* ServeConfig::shutdown has fired
    eof,        \* the peer closed its end
    result,     \* what the main loop broke with, then what serve_with returns
    sendFailed  \* history: some transport.send failed

driverVars == <<phase, at, joined, aborting, writing, wire, result, sendFailed>>
vars == <<phase, at, task, joined, aborting, pushed, pub, chan, writing, wire,
          shutdown, eof, result, sendFailed>>

LiveStates == {"running", "asking", "resumed"}

\* A live handler holds its permit and its clone of the channel's sender.
Holders == {f \in Frames : task[f] \in LiveStates}
Finished == joined \ Holders

\* The writer registration lives until drain phase 2.
Registered == phase \in {"serving", "draining"}

HasRoom == Len(chan) < Capacity

\* Slip: an unbounded channel.
EnqueueAlways(m) == chan' = Append(chan, m)

Enqueue(m) == /\ HasRoom
              /\ chan' = Append(chan, m)

TypeOK ==
    /\ phase \in {"serving", "draining", "flushing", "closing", "closed"}
    /\ at \in {"select", "send", "park"}
    /\ task \in [Frames -> LiveStates \cup
                   {"unread", "held", "ended", "failed", "aborted", "dropped"}]
    /\ joined \subseteq Frames
    /\ aborting \subseteq Frames
    /\ pushed \in [Calls -> 0..MaxPushes]
    /\ pub \in [Publishers -> {"idle", "holding", "done"}]
    /\ chan \in Seq(Message) /\ Len(chan) <= Capacity
    /\ writing \in Seq(Message)
    /\ wire \in Seq(Message)
    /\ shutdown \in BOOLEAN /\ eof \in BOOLEAN /\ sendFailed \in BOOLEAN
    /\ result \in {"none", "ok", "err"}

Init ==
    /\ phase = "serving"
    /\ at = "select"
    /\ task = [f \in Frames |-> "unread"]
    /\ joined = {}
    /\ aborting = {}
    /\ pushed = [c \in Calls |-> 0]
    /\ pub = [p \in Publishers |-> "idle"]
    /\ chan = <<>>
    /\ writing = <<>>
    /\ wire = <<>>
    /\ shutdown = FALSE
    /\ eof = FALSE
    /\ result = "none"
    /\ sendFailed = FALSE

-----------------------------------------------------------------------------
(* The driver: the arms of its two select! loops and its flush loop.       *)

\* The JoinSet's is_empty check comes first in a drain pass.
Selecting == /\ at = "select"
             /\ \/ phase \in {"serving", "flushing"}
                \/ phase = "draining" /\ joined # {}

\* Slip: a stack in place of the queue.
WriteNewest ==
    /\ Selecting
    /\ chan # <<>>
    /\ writing' = <<chan[Len(chan)]>>
    /\ chan' = SubSeq(chan, 1, Len(chan) - 1)
    /\ at' = "send"
    /\ UNCHANGED <<phase, task, joined, aborting, pushed, pub, wire, shutdown,
                   eof, result, sendFailed>>

\* Arm 1: take the next outbound message and start transport.send on it.
WriteNext ==
    /\ Selecting
    /\ chan # <<>>
    /\ writing' = <<Head(chan)>>
    /\ chan' = Tail(chan)
    /\ at' = "send"
    /\ UNCHANGED <<phase, task, joined, aborting, pushed, pub, wire, shutdown,
                   eof, result, sendFailed>>

\* Slip: the message in hand is written again before the next is taken.
SentTwice ==
    /\ at = "send"
    /\ wire' = wire \o writing
    /\ writing' = IF Len(wire) > 0 THEN <<>> ELSE writing
    /\ at' = IF Len(wire) > 0 THEN "select" ELSE "send"
    /\ UNCHANGED <<phase, task, joined, aborting, pushed, pub, chan, shutdown,
                   eof, result, sendFailed>>

Sent ==
    /\ at = "send"
    /\ wire' = wire \o writing
    /\ writing' = <<>>
    /\ at' = "select"
    /\ UNCHANGED <<phase, task, joined, aborting, pushed, pub, chan, shutdown,
                   eof, result, sendFailed>>

\* A failed send ends the loop it happens in: the main loop with an error, the
\* drain after abort_all, the flush at once.
SendFails ==
    /\ at = "send"
    /\ "send" \in Faults
    /\ writing' = <<>>
    /\ at' = "select"
    /\ sendFailed' = TRUE
    /\ \/ /\ phase = "serving"
          /\ phase' = "draining"
          /\ result' = "err"
          /\ UNCHANGED aborting
       \/ /\ phase = "draining"
          /\ phase' = "flushing"
          /\ aborting' = joined \cap Holders
          /\ UNCHANGED result
       \/ /\ phase = "flushing"
          /\ phase' = "closing"
          /\ UNCHANGED <<aborting, result>>
    /\ UNCHANGED <<task, joined, pushed, pub, chan, wire, shutdown, eof>>

\* Arm 2: reap a finished handler.
Reap(f) ==
    /\ at = "select"
    /\ Registered
    /\ chan = <<>>
    /\ f \in Finished
    /\ joined' = joined \ {f}
    /\ UNCHANGED <<phase, at, task, aborting, pushed, pub, chan, writing, wire,
                   shutdown, eof, result, sendFailed>>

\* No arm before the shutdown token, or before the drain deadline, is ready.
Quiet == at = "select" /\ chan = <<>> /\ Finished = {}

LeaveLoop(r) ==
    /\ phase' = "draining"
    /\ result' = r
    /\ UNCHANGED <<joined, aborting, pushed, pub, chan, writing, wire,
                   shutdown, eof, sendFailed>>

\* Arm 3.
Stop ==
    /\ phase = "serving" /\ Quiet
    /\ shutdown
    /\ LeaveLoop("ok")
    /\ UNCHANGED <<at, task>>

\* The peer answers an inline request once it has seen it.
CanArrive(f) ==
    /\ task[f] = "unread"
    /\ ~eof
    /\ f \in Answers => \E i \in DOMAIN wire : wire[i] = Ask(AnswerTo[f])

\* Slip: the select! without `biased`.
ReadUnbiased(f) ==
    /\ phase = "serving" /\ at = "select" /\ ~shutdown
    /\ CanArrive(f)
    /\ task' = [task EXCEPT ![f] = "held"]
    /\ at' = "park"
    /\ UNCHANGED <<phase, joined, aborting, pushed, pub, chan, writing, wire,
                   shutdown, eof, result, sendFailed>>

\* Arm 4: a frame is read; the arm's body then waits for a permit.
Read(f) ==
    /\ phase = "serving" /\ Quiet /\ ~shutdown
    /\ CanArrive(f)
    /\ task' = [task EXCEPT ![f] = "held"]
    /\ at' = "park"
    /\ UNCHANGED <<phase, joined, aborting, pushed, pub, chan, writing, wire,
                   shutdown, eof, result, sendFailed>>

\* Arm 4: end of stream, or a receive error.
EndOfInput ==
    /\ phase = "serving" /\ Quiet /\ ~shutdown
    /\ \/ eof /\ LeaveLoop("ok")
       \/ "recv" \in Faults /\ LeaveLoop("err")
    /\ UNCHANGED <<at, task>>

PermitFree == Cardinality(Holders) < Capacity

\* The permit is acquired, the service is ready, the handler is spawned.
Spawn(f) ==
    /\ at = "park"
    /\ task[f] = "held"
    /\ PermitFree
    /\ task' = [task EXCEPT ![f] = "running"]
    /\ joined' = joined \cup {f}
    /\ at' = "select"
    /\ UNCHANGED <<phase, aborting, pushed, pub, chan, writing, wire, shutdown,
                   eof, result, sendFailed>>

\* poll_ready fails: the frame is dropped and the loop ends.
NotReady(f) ==
    /\ at = "park"
    /\ task[f] = "held"
    /\ PermitFree
    /\ "ready" \in Faults
    /\ task' = [task EXCEPT ![f] = "dropped"]
    /\ at' = "select"
    /\ LeaveLoop("err")

\* Drain phase 1 is over: every handler was reaped.
DrainDone ==
    /\ phase = "draining" /\ at = "select"
    /\ joined = {}
    /\ phase' = "flushing"
    /\ UNCHANGED <<at, task, joined, aborting, pushed, pub, chan, writing,
                   wire, shutdown, eof, result, sendFailed>>

\* Slip: the deadline ends the drain without abort_all.
DeadlineWithoutAbort ==
    /\ phase = "draining" /\ Quiet
    /\ joined # {}
    /\ phase' = "flushing"
    /\ UNCHANGED <<at, task, joined, aborting, pushed, pub, chan, writing,
                   wire, shutdown, eof, result, sendFailed>>

\* Drain phase 1 hits its deadline: abort_all marks the remaining handlers.
Deadline ==
    /\ phase = "draining" /\ Quiet
    /\ joined # {}
    /\ phase' = "flushing"
    /\ aborting' = joined
    /\ UNCHANGED <<at, task, joined, pushed, pub, chan, writing, wire,
                   shutdown, eof, result, sendFailed>>

\* Phase 2 ends once the channel is empty and its last sender is dropped.
SendersGone == Holders = {} /\ \A p \in Publishers : pub[p] # "holding"

\* Slip: try_recv in place of recv, which does not wait for the senders.
FlushWithoutWaiting ==
    /\ phase = "flushing" /\ at = "select"
    /\ chan = <<>>
    /\ phase' = "closing"
    /\ UNCHANGED <<at, task, joined, aborting, pushed, pub, chan, writing,
                   wire, shutdown, eof, result, sendFailed>>

FlushDone ==
    /\ phase = "flushing" /\ at = "select"
    /\ chan = <<>>
    /\ SendersGone
    /\ phase' = "closing"
    /\ UNCHANGED <<at, task, joined, aborting, pushed, pub, chan, writing,
                   wire, shutdown, eof, result, sendFailed>>

\* graceful_shutdown, then return: rx and the JoinSet are dropped with the
\* frame, which aborts whatever still runs and loses what is still queued.
Close ==
    /\ phase = "closing"
    /\ phase' = "closed"
    /\ result' \in {result} \cup (IF "close" \in Faults THEN {"err"} ELSE {})
    /\ task' = [f \in Frames |-> IF f \in Holders THEN "aborted" ELSE task[f]]
    /\ joined' = {}
    /\ chan' = <<>>
    /\ UNCHANGED <<at, aborting, pushed, pub, writing, wire, shutdown, eof,
                   sendFailed>>

-----------------------------------------------------------------------------
(* The handlers.  A marked handler goes on until its task is next polled,   *)
(* so abort_all disables none of these steps by itself.                     *)

Becomes(f, s) == /\ task' = [task EXCEPT ![f] = s]
                 /\ UNCHANGED <<driverVars, pub, shutdown, eof>>

\* A progress or log message; without a registered writer it goes nowhere, but
\* a writer looked up earlier still works.
HandlerPush(c) ==
    /\ c \in Chatty
    /\ c \in Holders /\ task[c] # "asking"
    /\ pushed[c] < MaxPushes
    /\ pushed' = [pushed EXCEPT ![c] = @ + 1]
    /\ \/ Enqueue(Push(c))
       \/ ~Registered /\ UNCHANGED chan
    /\ UNCHANGED <<driverVars, task, pub, shutdown, eof>>

\* An inline server->client request (bidi): enqueue it, then wait.
HandlerAsk(c) ==
    /\ c \in Askers
    /\ task[c] = "running"
    /\ Registered
    /\ Enqueue(Ask(c))
    /\ Becomes(c, "asking")
    /\ UNCHANGED pushed

\* BIDI_TIMEOUT.
AskTimesOut(c) ==
    /\ c \in Calls
    /\ task[c] = "asking"
    /\ Becomes(c, "resumed")
    /\ UNCHANGED <<pushed, chan>>

\* The service of an inbound response completes the pending request, if any.
HandleAnswer(x) ==
    /\ x \in Answers
    /\ task[x] = "running"
    /\ LET c == AnswerTo[x] IN
         task' = [task EXCEPT ![x] = "ended",
                              ![c] = IF @ = "asking" THEN "resumed" ELSE @]
    /\ UNCHANGED <<driverVars, pushed, pub, chan, shutdown, eof>>

\* Slip: try_send in place of send.
HandlerTryReply(c) ==
    /\ c \in Calls
    /\ task[c] \in {"running", "resumed"}
    /\ chan' = IF HasRoom THEN Append(chan, Reply(c)) ELSE chan
    /\ Becomes(c, "ended")
    /\ UNCHANGED pushed

\* Ok(Some(reply)): the permit is released only after the reply is enqueued.
HandlerReply(c) ==
    /\ c \in Calls
    /\ task[c] \in {"running", "resumed"}
    /\ Enqueue(Reply(c))
    /\ Becomes(c, "ended")
    /\ UNCHANGED pushed

\* Ok(None): a notification has no reply.
HandlerQuiet(n) ==
    /\ n \in Notes
    /\ task[n] = "running"
    /\ Becomes(n, "ended")
    /\ UNCHANGED <<pushed, chan>>

\* Err(e): logged, and no reply is sent.
HandlerFails(f) ==
    /\ "handler" \in Faults
    /\ task[f] \in {"running", "resumed"}
    /\ Becomes(f, "failed")
    /\ UNCHANGED <<pushed, chan>>

\* A marked handler is dropped, with its permit and its sender.
HandlerAborted(f) ==
    /\ f \in aborting
    /\ f \in Holders
    /\ Becomes(f, "aborted")
    /\ UNCHANGED <<pushed, chan>>

HandlerStep(f) ==
    \/ HandlerPush(f) \/ HandlerAsk(f) \/ HandleAnswer(f)
    \/ HandlerReply(f) \/ HandlerQuiet(f) \/ HandlerFails(f)

-----------------------------------------------------------------------------
(* Outside publishers (outbound::writer) and the environment.              *)

Publish(p, s) == /\ pub' = [pub EXCEPT ![p] = s]
                 /\ UNCHANGED <<driverVars, task, pushed, shutdown, eof>>

LookUpWriter(p) ==
    /\ pub[p] = "idle"
    /\ Publish(p, IF Registered THEN "holding" ELSE "done")
    /\ UNCHANGED chan

PublisherSend(p) ==
    /\ pub[p] = "holding"
    /\ IF phase = "closed" THEN UNCHANGED chan ELSE Enqueue(Push(p))
    /\ Publish(p, "done")

FireShutdown ==
    /\ ~shutdown
    /\ shutdown' = TRUE
    /\ UNCHANGED <<driverVars, task, pushed, pub, chan, eof>>

PeerCloses ==
    /\ ~eof
    /\ eof' = TRUE
    /\ UNCHANGED <<driverVars, task, pushed, pub, chan, shutdown>>

\* serve_with has returned.
Returned == phase = "closed" /\ UNCHANGED vars

-----------------------------------------------------------------------------
DriverStep ==
    \/ WriteNext \/ Sent \/ SendFails
    \/ Stop \/ EndOfInput \/ DrainDone \/ Deadline \/ FlushDone \/ Close
    \/ \E f \in Frames : Reap(f) \/ Read(f) \/ Spawn(f) \/ NotReady(f)

Next ==
    \/ DriverStep
    \/ \E f \in Frames : HandlerStep(f) \/ AskTimesOut(f) \/ HandlerAborted(f)
    \/ \E p \in Publishers : LookUpWriter(p) \/ PublisherSend(p)
    \/ FireShutdown \/ PeerCloses
    \/ Returned

Spec == Init /\ [][Next]_vars

\* What the runtime owes the driver, its timers and aborted tasks, and what a
\* peer that keeps reading owes transport.send.  Nothing is owed of the peer's
\* frames, the end of the input or the faults.
DriverFairness ==
    /\ WF_vars(WriteNext) /\ WF_vars(Sent)
    /\ WF_vars(Stop) /\ WF_vars(DrainDone) /\ WF_vars(Deadline)
    /\ WF_vars(FlushDone) /\ WF_vars(Close)
    /\ \A f \in Frames : /\ WF_vars(Reap(f)) /\ WF_vars(Spawn(f))
                         /\ WF_vars(HandlerAborted(f))
    /\ \A p \in Publishers : WF_vars(PublisherSend(p))

\* The other handlers keep running to their end; BIDI_TIMEOUT bounds an inline wait.
HandlerFairness ==
    \A f \in Frames \ Hanging : WF_vars(HandlerStep(f)) /\ WF_vars(AskTimesOut(f))

FairSpec == Spec /\ DriverFairness /\ HandlerFairness
-----------------------------------------------------------------------------
(* Properties.                                                             *)

OnWire(m) == \E i \in DOMAIN wire : wire[i] = m

\* The driver's frames leave in the order they were enqueued, so a progress or
\* log message of a call never follows the call's answer, and no call is
\* answered twice (the single-writer actor).
NothingFollowsTheReply ==
    \A i, j \in DOMAIN wire :
        i < j /\ wire[i].kind = "reply" => wire[j].of # wire[i].of

\* A clean end (EOF or shutdown, no failed write, no aborted straggler) leaves
\* no call unanswered that was read, unless its handler failed.
CleanReturnAnswersAll ==
    phase = "closed" /\ result = "ok" /\ ~sendFailed /\ aborting = {}
        => \A c \in Calls : \/ task[c] \in {"unread", "failed"}
                            \/ OnWire(Reply(c))

\* Drain phase 2 lets go of the transport only when no handler can produce
\* another message and none is queued; a failed write is the only exception.
FlushIsComplete ==
    phase = "closing" /\ ~sendFailed => chan = <<>> /\ Holders = {}

\* The driver never waits for a permit in a state in which no permit is free
\* and every permit holder is blocked on the channel only the driver empties.
NoStall == at = "park" => PermitFree \/ HasRoom

\* A call that was read is answered, whatever other handlers and the connection
\* do, unless its handler hangs or the drain deadline aborts it.
ReadCallsAreAnswered ==
    \A c \in Calls \ Hanging :
        (task[c] = "held") ~> (OnWire(Reply(c)) \/ task[c] = "aborted")

\* Firing the shutdown token ends the connection, even if handlers hang: the
\* deadline aborts them.
ShutdownCompletes == shutdown ~> (phase = "closed")

\* The driver implements the connection its peer sees.
Peer == INSTANCE Connection WITH
            Sources <- Publishers,
            accepted <- {c \in Calls : task[c] # "unread"},
            log <- wire,
            open <- phase # "closed"
ImplementsConnection == Peer!Spec

\* What was handled before an end without an error reaches the peer, whole and in
\* order.
DrainLosesNothing ==
    NothingFollowsTheReply /\ CleanReturnAnswersAll /\ FlushIsComplete
=============================================================================
