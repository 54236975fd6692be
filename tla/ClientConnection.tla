--------------------------- MODULE ClientConnection ---------------------------
(***************************************************************************)
(* The client half of a connection (turbomcp-client): callers correlate    *)
(* requests with responses through a table of oneshots, and one actor task *)
(* owns the transport in both directions.  Its select! is biased towards   *)
(* outbound frames; as in ServeDriver, an arm is one atomic action guarded *)
(* by "no earlier arm is ready", and a transport.send in an arm's body is  *)
(* a step of its own.                                                      *)
(*                                                                         *)
(* The peer is external: it answers what reached it, possibly twice, sends *)
(* its own requests, and may close the stream.                             *)
(***************************************************************************)
EXTENDS Naturals, Sequences, FiniteSets

CONSTANTS
    Requests,     \* one per Connection::request call: the ids of next_id
    ServerReqs,   \* server->client requests
    ChanCap,      \* capacity of the outbound channel (1024 in the code)
    MaxAnswers,   \* bound: how often the peer answers one request
    Faults        \* {"send", "recv", "drop"}: I/O errors, dropped futures

ASSUME ConnectionAssumption ==
    /\ Requests \cap ServerReqs = {}
    /\ ChanCap \in Nat \ {0}
    /\ MaxAnswers \in Nat \ {0}
    /\ Faults \subseteq {"send", "recv", "drop"}

VARIABLES
    caller,    \* what each request() future is doing, or returned
    pending,   \* the ids in the table
    slot,      \* each request's oneshot: empty, filled or closed
    chan,      \* the outbound channel
    actor,     \* select, send, cleanup, exit, gone
    writing,   \* <<m>> while transport.send(m) is in progress
    sent,      \* what reached the peer, in order
    inbound,   \* frames on their way to the client
    answers,   \* how often the peer has answered each request
    serving,   \* the client's handling of each server request
    eof,       \* the peer closed the stream
    handles,   \* a Connection handle exists
    handler    \* a ClientHandler was configured

vars == <<caller, pending, slot, chan, actor, writing, sent, inbound, answers,
          serving, eof, handles, handler>>
peerVars == <<answers, eof, handler>>

\* The ends of a request() future: its result, or that it was dropped.
Results == {"value", "closed", "timeout", "dropped"}
\* The states in which the future still owns its table entry.
Waiting == {"inserted", "sent", "expired", "refused"}

TypeOK ==
    /\ caller \in [Requests -> {"idle"} \cup Waiting \cup Results]
    /\ pending \subseteq Requests
    /\ slot \in [Requests -> {"empty", "filled", "closed"}]
    /\ chan \in Seq(Requests \cup ServerReqs) /\ Len(chan) <= ChanCap
    /\ actor \in {"select", "send", "cleanup", "exit", "gone"}
    /\ writing \in Seq(Requests \cup ServerReqs)
    /\ sent \in Seq(Requests \cup ServerReqs)
    /\ inbound \in Seq(Requests \cup ServerReqs)
    /\ answers \in [Requests -> 0..MaxAnswers]
    /\ serving \in [ServerReqs ->
         {"unsent", "coming", "running", "holding", "queued", "dropped"}]
    /\ eof \in BOOLEAN /\ handles \in BOOLEAN /\ handler \in BOOLEAN

Init ==
    /\ caller = [r \in Requests |-> "idle"]
    /\ pending = {}
    /\ slot = [r \in Requests |-> "empty"]
    /\ chan = <<>>
    /\ actor = "select"
    /\ writing = <<>>
    /\ sent = <<>>
    /\ inbound = <<>>
    /\ answers = [r \in Requests |-> 0]
    /\ serving = [s \in ServerReqs |-> "unsent"]
    /\ eof = FALSE
    /\ handles = TRUE
    /\ handler \in BOOLEAN

-----------------------------------------------------------------------------
(* Connection::request, one action per await.                               *)

Goes(r, s) == caller' = [caller EXCEPT ![r] = s]

Insert(r) ==
    /\ caller[r] = "idle" /\ handles
    /\ pending' = pending \cup {r}
    /\ Goes(r, "inserted")
    /\ UNCHANGED <<slot, chan, actor, writing, sent, inbound, serving, handles,
                   peerVars>>

\* Slip: an unbounded channel.
SendUnbounded(r) ==
    /\ caller[r] = "inserted"
    /\ IF actor = "gone"
       THEN Goes(r, "refused") /\ UNCHANGED chan
       ELSE chan' = Append(chan, r) /\ Goes(r, "sent")
    /\ UNCHANGED <<pending, slot, actor, writing, sent, inbound, serving,
                   handles, peerVars>>

\* outbound.send: waits for room; fails once the receiver is dropped.
Send(r) ==
    /\ caller[r] = "inserted"
    /\ IF actor = "gone"
       THEN Goes(r, "refused") /\ UNCHANGED chan
       ELSE /\ Len(chan) < ChanCap
            /\ chan' = Append(chan, r)
            /\ Goes(r, "sent")
    /\ UNCHANGED <<pending, slot, actor, writing, sent, inbound, serving,
                   handles, peerVars>>

\* Slip: a closed oneshot read as a null result.
ResolveNull(r) ==
    /\ caller[r] = "sent"
    /\ slot[r] # "empty"
    /\ Goes(r, "value")
    /\ UNCHANGED <<pending, slot, chan, actor, writing, sent, inbound, serving,
                   handles, peerVars>>

\* The oneshot resolves: the value or error of the response, or Closed.
Resolve(r) ==
    /\ caller[r] = "sent"
    /\ slot[r] # "empty"
    /\ Goes(r, IF slot[r] = "filled" THEN "value" ELSE "closed")
    /\ UNCHANGED <<pending, slot, chan, actor, writing, sent, inbound, serving,
                   handles, peerVars>>

\* Slip: no timer.
ExpireNever(r) == FALSE /\ caller[r] = "sent" /\ UNCHANGED vars

\* The timer covers the wait for the reply only; it drops the receiver first
\* and forgets the id in a second critical section.
Expire(r) ==
    /\ caller[r] = "sent"
    /\ slot[r] = "empty"
    /\ Goes(r, "expired")
    /\ UNCHANGED <<pending, slot, chan, actor, writing, sent, inbound, serving,
                   handles, peerVars>>

\* Slip: the timeout path returns without forget().
ForgetRefusedOnly(r) ==
    /\ caller[r] \in {"expired", "refused"}
    /\ pending' = IF caller[r] = "refused" THEN pending \ {r} ELSE pending
    /\ Goes(r, IF caller[r] = "expired" THEN "timeout" ELSE "closed")
    /\ UNCHANGED <<slot, chan, actor, writing, sent, inbound, serving, handles,
                   peerVars>>

Forget(r) ==
    /\ caller[r] \in {"expired", "refused"}
    /\ pending' = pending \ {r}
    /\ Goes(r, IF caller[r] = "expired" THEN "timeout" ELSE "closed")
    /\ UNCHANGED <<slot, chan, actor, writing, sent, inbound, serving, handles,
                   peerVars>>

\* The caller drops the future (select!, an outer timeout): nothing cleans up.
DropFuture(r) ==
    /\ "drop" \in Faults
    /\ caller[r] \in {"inserted", "sent"}
    /\ Goes(r, "dropped")
    /\ UNCHANGED <<pending, slot, chan, actor, writing, sent, inbound, serving,
                   handles, peerVars>>

\* The last Connection handle is dropped; a running request() borrows one.
DropHandles ==
    /\ handles
    /\ \A r \in Requests : caller[r] \notin Waiting
    /\ handles' = FALSE
    /\ UNCHANGED <<caller, pending, slot, chan, actor, writing, sent, inbound,
                   serving, peerVars>>

-----------------------------------------------------------------------------
(* The actor.                                                               *)

\* Outbound arm: the next frame, or none left and no sender alive.
TakeOut ==
    /\ actor = "select"
    /\ chan # <<>>
    /\ writing' = <<Head(chan)>>
    /\ chan' = Tail(chan)
    /\ actor' = "send"
    /\ UNCHANGED <<caller, pending, slot, sent, inbound, serving, handles,
                   peerVars>>

SendersGone == ~handles /\ \A s \in ServerReqs : serving[s] # "holding"

NothingMoreToSend ==
    /\ actor = "select"
    /\ chan = <<>> /\ SendersGone
    /\ actor' = "cleanup"
    /\ UNCHANGED <<caller, pending, slot, chan, writing, sent, inbound,
                   serving, handles, peerVars>>

Sent ==
    /\ actor = "send"
    /\ sent' = sent \o writing
    /\ writing' = <<>>
    /\ actor' = "select"
    /\ UNCHANGED <<caller, pending, slot, chan, inbound, serving, handles,
                   peerVars>>

SendFails ==
    /\ actor = "send" /\ "send" \in Faults
    /\ writing' = <<>>
    /\ actor' = "cleanup"
    /\ UNCHANGED <<caller, pending, slot, chan, sent, inbound, serving,
                   handles, peerVars>>

\* Inbound arm: polled when the outbound one is not ready.
CanReceive == actor = "select" /\ chan = <<>> /\ ~SendersGone

\* A response completes the request waiting on its id; one that nobody waits
\* for (late, duplicate) is dropped.
ReceiveResponse ==
    /\ CanReceive
    /\ inbound # <<>> /\ Head(inbound) \in Requests
    /\ LET r == Head(inbound) IN
         /\ slot' = [slot EXCEPT ![r] = IF r \in pending THEN "filled" ELSE @]
         /\ pending' = pending \ {r}
    /\ inbound' = Tail(inbound)
    /\ UNCHANGED <<caller, chan, actor, writing, sent, serving, handles,
                   peerVars>>

\* A server request goes to a spawned handler task, or is refused inline: the
\* actor writes the -32601 itself.
ReceiveRequest ==
    /\ CanReceive
    /\ inbound # <<>> /\ Head(inbound) \in ServerReqs
    /\ LET s == Head(inbound) IN
         IF handler
         THEN /\ serving' = [serving EXCEPT ![s] = "running"]
              /\ UNCHANGED <<actor, writing>>
         ELSE /\ serving' = [serving EXCEPT ![s] = "queued"]
              /\ writing' = <<s>>
              /\ actor' = "send"
    /\ inbound' = Tail(inbound)
    /\ UNCHANGED <<caller, pending, slot, chan, sent, handles, peerVars>>

EndOfInput ==
    /\ CanReceive
    /\ (eof /\ inbound = <<>>) \/ "recv" \in Faults
    /\ actor' = "cleanup"
    /\ UNCHANGED <<caller, pending, slot, chan, writing, sent, inbound,
                   serving, handles, peerVars>>

\* Slip: the table is left to its last owner, the handles.
CleanupNothing ==
    /\ actor = "cleanup"
    /\ actor' = "exit"
    /\ UNCHANGED <<caller, pending, slot, chan, writing, sent, inbound,
                   serving, handles, peerVars>>

\* pending.clear() drops every sender in the table ...
Cleanup ==
    /\ actor = "cleanup"
    /\ slot' = [r \in Requests |-> IF r \in pending THEN "closed" ELSE slot[r]]
    /\ pending' = {}
    /\ actor' = "exit"
    /\ UNCHANGED <<caller, chan, writing, sent, inbound, serving, handles,
                   peerVars>>

\* ... and only then is the receiver dropped, with whatever it still holds.
Exit ==
    /\ actor = "exit"
    /\ actor' = "gone"
    /\ chan' = <<>>
    /\ UNCHANGED <<caller, pending, slot, writing, sent, inbound, serving,
                   handles, peerVars>>

-----------------------------------------------------------------------------
(* Tasks that answer server requests through the WeakSender.                *)

Upgrade(s) ==
    /\ serving[s] = "running"
    /\ serving' = [serving EXCEPT ![s] =
                     IF SendersGone THEN "dropped" ELSE "holding"]
    /\ UNCHANGED <<caller, pending, slot, chan, actor, writing, sent, inbound,
                   handles, peerVars>>

\* Slip: try_send in place of send.
TrySendReply(s) ==
    /\ serving[s] = "holding"
    /\ serving' = [serving EXCEPT ![s] =
                     IF Len(chan) < ChanCap THEN "queued" ELSE "dropped"]
    /\ chan' = IF Len(chan) < ChanCap THEN Append(chan, s) ELSE chan
    /\ UNCHANGED <<caller, pending, slot, actor, writing, sent, inbound,
                   handles, peerVars>>

SendReply(s) ==
    /\ serving[s] = "holding"
    /\ IF actor = "gone"
       THEN serving' = [serving EXCEPT ![s] = "dropped"] /\ UNCHANGED chan
       ELSE /\ Len(chan) < ChanCap
            /\ chan' = Append(chan, s)
            /\ serving' = [serving EXCEPT ![s] = "queued"]
    /\ UNCHANGED <<caller, pending, slot, actor, writing, sent, inbound,
                   handles, peerVars>>

-----------------------------------------------------------------------------
(* The peer.                                                                *)

Arrived(m) == \E i \in DOMAIN sent : sent[i] = m

PeerAnswers(r) ==
    /\ ~eof
    /\ Arrived(r)
    /\ answers[r] < MaxAnswers
    /\ answers' = [answers EXCEPT ![r] = @ + 1]
    /\ inbound' = Append(inbound, r)
    /\ UNCHANGED <<caller, pending, slot, chan, actor, writing, sent, serving,
                   eof, handles, handler>>

PeerAsks(s) ==
    /\ ~eof
    /\ serving[s] = "unsent"
    /\ serving' = [serving EXCEPT ![s] = "coming"]
    /\ inbound' = Append(inbound, s)
    /\ UNCHANGED <<caller, pending, slot, chan, actor, writing, sent, answers,
                   eof, handles, handler>>

PeerCloses ==
    /\ ~eof
    /\ eof' = TRUE
    /\ UNCHANGED <<caller, pending, slot, chan, actor, writing, sent, inbound,
                   answers, serving, handles, handler>>

\* Nothing is left to do: every call returned and the actor is gone.
Finished ==
    /\ actor = "gone"
    /\ \A r \in Requests : caller[r] \notin Waiting
    /\ UNCHANGED vars

-----------------------------------------------------------------------------
CallerStep(r) == Insert(r) \/ Send(r) \/ Resolve(r) \/ Expire(r) \/ Forget(r)
                 \/ DropFuture(r)
ActorStep == \/ TakeOut \/ NothingMoreToSend \/ Sent \/ SendFails
             \/ ReceiveResponse \/ ReceiveRequest \/ EndOfInput
             \/ Cleanup \/ Exit
ServingStep(s) == Upgrade(s) \/ SendReply(s)
PeerStep == \/ \E r \in Requests : PeerAnswers(r)
            \/ \E s \in ServerReqs : PeerAsks(s)
            \/ PeerCloses

Next == \/ \E r \in Requests : CallerStep(r)
        \/ ActorStep \/ DropHandles
        \/ \E s \in ServerReqs : ServingStep(s)
        \/ PeerStep
        \/ Finished

Spec == Init /\ [][Next]_vars

\* The runtime polls every task and fires every timer; the end of the stream,
\* once there, is received.
TaskFairness ==
    /\ \A r \in Requests : /\ WF_vars(Send(r)) /\ WF_vars(Resolve(r))
                           /\ WF_vars(Expire(r)) /\ WF_vars(Forget(r))
    /\ WF_vars(TakeOut) /\ WF_vars(NothingMoreToSend)
    /\ WF_vars(ReceiveResponse) /\ WF_vars(ReceiveRequest)
    /\ WF_vars(Cleanup) /\ WF_vars(Exit)
    /\ \A s \in ServerReqs : WF_vars(ServingStep(s))

\* The peer keeps reading, so that a transport.send ends.
FairSpec == Spec /\ TaskFairness /\ WF_vars(Sent)

-----------------------------------------------------------------------------
(* Properties.                                                              *)

\* A request returns a value only if the peer answered that very request, and
\* the peer can only have answered what was written to it.
ValueWasAnswered ==
    \A r \in Requests :
        caller[r] = "value" => answers[r] > 0 /\ Arrived(r)

\* The table holds no entry of a request that returned: responses, late and
\* duplicate responses, timeouts and closing in every order leave nothing behind
\* (a future that is dropped does).
NoLeakedEntry == \A r \in pending : caller[r] \in Waiting \cup {"dropped"}

\* Clearing the table reaches every caller that has entered it and has no
\* outcome yet: none is left to its timeout.
CloseReachesWaiters ==
    [][actor = "cleanup" /\ actor' = "exit" =>
        \A r \in Requests :
            caller[r] \in {"inserted", "sent"} => slot'[r] # "empty"]_vars

\* A request returns "rather than hanging forever", as long as the peer reads.
RequestsReturn ==
    \A r \in Requests : (caller[r] = "inserted") ~> (caller[r] \in Results)

\* A server request whose frame was read is answered on the wire, unless the
\* connection ends first.
ServerRequestsAnswered ==
    \A s \in ServerReqs :
        (serving[s] = "running")
            ~> (Arrived(s) \/ actor \in {"cleanup", "exit", "gone"})

\* The table of pending requests joins answers and callers, and nothing else.
TableIsSound == ValueWasAnswered /\ NoLeakedEntry
\* Every caller learns the end of its request, that of the connection included.
CallsEnd == CloseReachesWaiters /\ RequestsReturn
=============================================================================
