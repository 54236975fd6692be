---------------------------- MODULE RequestStreams ----------------------------
(***************************************************************************)
(* The server->client streams of the HTTP transport: the response to one   *)
(* POSTed request, which becomes an SSE stream when the handler reports    *)
(* progress, and the GET streams of the legacy session the request belongs *)
(* to.  A report goes through three steps, the monotonicity guard, the     *)
(* look-up of a writer and the send, and a ProgressReporter may be cloned  *)
(* into tasks that outlive the request.                                    *)
(***************************************************************************)
EXTENDS Naturals, Sequences

CONSTANTS
    Handler,      \* the reporter of the request's own handler
    Clones,       \* clones of it in spawned tasks
    Gets,         \* GET requests for the session
    ChanCap,      \* SSE_CHANNEL_CAPACITY
    MaxReports,   \* bound: progress values
    NoStream

Reporters == {Handler} \cup Clones
Values == 1..MaxReports

ASSUME StreamsAssumption ==
    /\ Handler \notin Clones /\ NoStream \notin Gets
    /\ "post" \notin Gets
    /\ ChanCap \in Nat \ {0} /\ MaxReports \in Nat

VARIABLES
    post,      \* run, stream, closing, tail, closed, or gone: the client left
    outcome,   \* what the handler's future has returned
    reporter,  \* where each reporter is
    last,      \* the guard: the last progress value let through
    writers,   \* the request's writer is registered
    chan,      \* its channel
    tail,      \* what is left to write once the call has returned
    accepted,  \* history: values the request's channel took, by reporter
    getWriter, \* the GET stream registered for the session
    get,       \* unopened, open, ended
    getChan,   \* the GET streams' channels
    got        \* what the client received, in order, and on which stream

postVars == <<post, outcome, writers, chan, tail, accepted>>
getVars == <<getWriter, get, getChan>>
vars == <<postVars, reporter, last, getVars, got>>

Idle == [at |-> "idle"]

TypeOK ==
    /\ post \in {"run", "stream", "closing", "tail", "closed", "gone"}
    /\ outcome \in {"none", "reply", "error"}
    /\ \A r \in Reporters : reporter[r].at \in {"idle", "guarded", "holding"}
    /\ last \in 0..MaxReports
    /\ writers \in BOOLEAN
    /\ chan \in Seq(Values) /\ Len(chan) <= ChanCap
    /\ tail \in Seq(Values \cup {0})
    /\ accepted \subseteq Reporters \X Values
    /\ getWriter \in Gets \cup {NoStream}
    /\ get \in [Gets -> {"unopened", "open", "ended"}]
    /\ getChan \in [Gets -> Seq(Values)]
    /\ \A i \in DOMAIN got : /\ got[i].on \in Gets \cup {"post"}
                             /\ got[i].msg \in Values \cup {0}

Init ==
    /\ post = "run" /\ outcome = "none"
    /\ reporter = [r \in Reporters |-> Idle]
    /\ last = 0
    /\ writers = TRUE
    /\ chan = <<>> /\ tail = <<>> /\ accepted = {}
    /\ getWriter = NoStream
    /\ get = [g \in Gets |-> "unopened"]
    /\ getChan = [g \in Gets |-> <<>>]
    /\ got = <<>>

Final == 0   \* the response itself, among the messages
Receive(on, m) == got' = Append(got, [on |-> on, msg |-> m])

-----------------------------------------------------------------------------
(* ProgressReporter::report.                                                *)

\* The handler's future is dropped with the response.
CanRun(r) == r = Handler => outcome = "none" /\ post \in {"run", "stream"}

PassGuard(r) ==
    /\ CanRun(r)
    /\ reporter[r] = Idle
    /\ last < MaxReports
    /\ last' = last + 1
    /\ reporter' = [reporter EXCEPT ![r] = [at |-> "guarded", val |-> last + 1]]
    /\ UNCHANGED <<postVars, getVars, got>>

\* request_writer: the request's own stream, else the session's GET stream.
Writer == IF writers THEN "post" ELSE getWriter

LookUp(r) ==
    /\ CanRun(r)
    /\ reporter[r].at = "guarded"
    /\ reporter' = [reporter EXCEPT ![r] =
            IF Writer = NoStream THEN Idle
            ELSE [at |-> "holding", val |-> @.val, to |-> Writer]]
    /\ UNCHANGED <<postVars, last, getVars, got>>

Listening == post \in {"run", "stream", "closing"}

\* Slip: an unbounded channel.
SendOnPostUnbounded(r) ==
    /\ CanRun(r)
    /\ reporter[r].at = "holding" /\ reporter[r].to = "post"
    /\ IF Listening
       THEN /\ chan' = Append(chan, reporter[r].val)
            /\ accepted' = accepted \cup {<<r, reporter[r].val>>}
       ELSE UNCHANGED <<chan, accepted>>
    /\ reporter' = [reporter EXCEPT ![r] = Idle]
    /\ UNCHANGED <<post, outcome, writers, tail, last, getVars, got>>

\* The send waits for room; it fails once the receiver is dropped.
SendOnPost(r) ==
    /\ CanRun(r)
    /\ reporter[r].at = "holding" /\ reporter[r].to = "post"
    /\ IF Listening
       THEN /\ Len(chan) < ChanCap
            /\ chan' = Append(chan, reporter[r].val)
            /\ accepted' = accepted \cup {<<r, reporter[r].val>>}
       ELSE UNCHANGED <<chan, accepted>>
    /\ reporter' = [reporter EXCEPT ![r] = Idle]
    /\ UNCHANGED <<post, outcome, writers, tail, last, getVars, got>>

SendOnGet(r, g) ==
    /\ CanRun(r)
    /\ reporter[r].at = "holding" /\ reporter[r].to = g
    /\ IF get[g] = "open"
       THEN /\ Len(getChan[g]) < ChanCap
            /\ getChan' = [getChan EXCEPT ![g] = Append(@, reporter[r].val)]
       ELSE UNCHANGED getChan
    /\ reporter' = [reporter EXCEPT ![r] = Idle]
    /\ UNCHANGED <<postVars, last, getWriter, get, got>>

-----------------------------------------------------------------------------
(* request_post and its stream.                                             *)

HandlerReturns ==
    /\ CanRun(Handler) /\ reporter[Handler] = Idle
    /\ outcome' \in {"reply", "error"}
    /\ UNCHANGED <<post, writers, chan, tail, accepted, reporter, last, getVars,
                   got>>

\* Slip: the channel is polled only once the call has returned.
UpgradeLate ==
    /\ post = "run" /\ outcome # "none"
    /\ chan # <<>>
    /\ post' = "stream"
    /\ chan' = Tail(chan)
    /\ Receive("post", Head(chan))
    /\ UNCHANGED <<outcome, writers, tail, accepted, reporter, last, getVars>>

\* The first message upgrades the response; the call is polled first.
Upgrade ==
    /\ post = "run" /\ outcome = "none"
    /\ chan # <<>>
    /\ post' = "stream"
    /\ chan' = Tail(chan)
    /\ Receive("post", Head(chan))
    /\ UNCHANGED <<outcome, writers, tail, accepted, reporter, last, getVars>>

\* The stream polls call and channel in either order.
StreamNext ==
    /\ post = "stream"
    /\ chan # <<>>
    /\ chan' = Tail(chan)
    /\ Receive("post", Head(chan))
    /\ UNCHANGED <<post, outcome, writers, tail, accepted, reporter, last,
                   getVars>>

\* Slip: the channel is not drained.
CallReturnsUndrained ==
    /\ post \in {"run", "stream"} /\ outcome # "none"
    /\ tail' = <<Final>>
    /\ chan' = <<>>
    /\ post' = "closing"
    /\ UNCHANGED <<outcome, writers, accepted, reporter, last, getVars, got>>

\* Slip: the response is written before what the channel still holds.
CallReturnsReplyFirst ==
    /\ post \in {"run", "stream"} /\ outcome # "none"
    /\ tail' = <<Final>> \o (IF post = "run" /\ outcome = "error" THEN <<>>
                             ELSE chan)
    /\ chan' = <<>>
    /\ post' = "closing"
    /\ UNCHANGED <<outcome, writers, accepted, reporter, last, getVars, got>>

\* The call has returned: the channel is drained, the response comes last.  An
\* error that finds the response not upgraded replaces everything.
CallReturns ==
    /\ post \in {"run", "stream"} /\ outcome # "none"
    /\ tail' = IF post = "run" /\ outcome = "error" THEN <<Final>>
               ELSE Append(chan, Final)
    /\ chan' = <<>>
    /\ post' = "closing"
    /\ UNCHANGED <<outcome, writers, accepted, reporter, last, getVars, got>>

\* The registration and the receiver are dropped, with what came in since.
DropChannel ==
    /\ post = "closing"
    /\ post' = "tail"
    /\ writers' = FALSE
    /\ chan' = <<>>
    /\ UNCHANGED <<outcome, tail, accepted, reporter, last, getVars, got>>

TailNext ==
    /\ post = "tail"
    /\ tail' = Tail(tail)
    /\ post' = IF Len(tail) = 1 THEN "closed" ELSE "tail"
    /\ Receive("post", Head(tail))
    /\ UNCHANGED <<outcome, writers, chan, accepted, reporter, last, getVars>>

\* The client leaves: the body is dropped, the call and the registration with it.
Disconnect ==
    /\ post \in {"run", "stream", "tail"}
    /\ post' = "gone"
    /\ writers' = FALSE
    /\ chan' = <<>> /\ tail' = <<>>
    /\ reporter' = [reporter EXCEPT ![Handler] = Idle]
    /\ UNCHANGED <<outcome, accepted, last, getVars, got>>

-----------------------------------------------------------------------------
(* mcp_get and the writer table.                                            *)

\* register: the newer stream replaces the entry.
OpenGet(g) ==
    /\ get[g] = "unopened"
    /\ get' = [get EXCEPT ![g] = "open"]
    /\ getWriter' = g
    /\ UNCHANGED <<postVars, reporter, last, getChan, got>>

GetNext(g) ==
    /\ get[g] = "open" /\ getChan[g] # <<>>
    /\ getChan' = [getChan EXCEPT ![g] = Tail(@)]
    /\ Receive(g, Head(getChan[g]))
    /\ UNCHANGED <<postVars, reporter, last, getWriter, get>>

\* The stream state is dropped: WriterGuard removes whatever its key maps to.
EndGet(g) ==
    /\ get' = [get EXCEPT ![g] = "ended"]
    /\ getWriter' = NoStream
    /\ getChan' = [getChan EXCEPT ![g] = <<>>]
    /\ UNCHANGED <<postVars, reporter, last, got>>

\* Slip: the stream's own state keeps a sender.
HasSenderOwn(g) == get[g] = "open"

HasSender(g) == getWriter = g
                \/ \E r \in Reporters : reporter[r].at = "holding" /\ reporter[r].to = g

\* No sender is left: the channel reports its end.
RunDry(g) ==
    /\ get[g] = "open" /\ getChan[g] = <<>> /\ ~HasSender(g)
    /\ EndGet(g)

LeaveGet(g) == get[g] = "open" /\ EndGet(g)

-----------------------------------------------------------------------------
ReporterStep(r) == \/ LookUp(r) \/ SendOnPost(r)
                   \/ \E g \in Gets : SendOnGet(r, g)
PostStep == \/ Upgrade \/ StreamNext \/ CallReturns \/ DropChannel \/ TailNext

Next ==
    \/ \E r \in Reporters : PassGuard(r) \/ ReporterStep(r)
    \/ HandlerReturns \/ PostStep \/ Disconnect
    \/ \E g \in Gets : OpenGet(g) \/ GetNext(g) \/ RunDry(g) \/ LeaveGet(g)

Spec == Init /\ [][Next]_vars

\* The runtime polls the streams while the client reads them; handlers end.
FairSpec ==
    /\ Spec
    /\ WF_vars(PostStep) /\ WF_vars(HandlerReturns)
    /\ \A r \in Reporters : WF_vars(ReporterStep(r))
    /\ \A g \in Gets : WF_vars(GetNext(g)) /\ WF_vars(RunDry(g))

-----------------------------------------------------------------------------
(* Properties.                                                              *)

OnPost(m) == \E i \in DOMAIN got : got[i] = [on |-> "post", msg |-> m]

\* The response is the last event of the POST stream, and there is one.
ReplyEndsTheStream ==
    /\ \A i, j \in DOMAIN got :
         got[i] = [on |-> "post", msg |-> Final] /\ got[j].on = "post" => j <= i
    /\ post = "closed" => OnPost(Final)

\* "Don't lose them": what the handler sent before it returned a response is in
\* the response that reaches the client; and what one reporter sent is in order.
HandlerReportsArrive ==
    /\ post = "closed" /\ outcome = "reply" =>
         \A v \in Values : <<Handler, v>> \in accepted => OnPost(v)
    /\ \A i, j \in DOMAIN got, r \in Reporters :
         /\ i < j /\ got[i].on = "post" /\ got[j].on = "post"
         /\ {<<r, got[i].msg>>, <<r, got[j].msg>>} \subseteq accepted
         => got[i].msg < got[j].msg

\* The request is answered, unless the client leaves: no handler waits for room
\* on a channel nobody reads.
PostCompletes == <>(post \in {"closed", "gone"})

\* A GET stream that was replaced comes to its end.
OlderStreamEnds ==
    \A g \in Gets : (get[g] = "open" /\ getWriter # g) ~> (get[g] = "ended")

\* A POST stream carries what it should, and its response last.
StreamIsWhole == ReplyEndsTheStream /\ HandlerReportsArrive
\* Streams that are over end, those of a POST and of a replaced GET.
StreamsEnd == PostCompletes /\ OlderStreamEnds
=============================================================================
