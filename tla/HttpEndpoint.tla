----------------------------- MODULE HttpEndpoint -----------------------------
(***************************************************************************)
(* A client and a server that speak Streamable HTTP: the client transport   *)
(* (turbomcp-client/src/http.rs), which posts every message from a task of  *)
(* its own and feeds what comes back into one queue, the endpoint           *)
(* (mcp_post of turbomcp-transport-http), which checks and routes by        *)
(* headers, and above them the handshake and the connection of the client.  *)
(*                                                                          *)
(* Posts are independent of each other and may fail at any point.  A post   *)
(* is named by what it carries: the handshake's messages, the application's *)
(* calls, and the answers to what a call's handler asks.                    *)
(***************************************************************************)
EXTENDS Naturals, Sequences, FiniteSets

CONSTANTS
    Calls,        \* the application's requests
    Pairings,     \* which servers are met, and in which ConnectMode
    QueueCap,     \* of the inbound queue (1024)
    MaxBreaks     \* bound on the connections that fail

ASSUME EndpointAssumption ==
    /\ QueueCap \in Nat \ {0} /\ MaxBreaks \in Nat
    /\ Pairings \subseteq {"dual", "strict", "elder"} \X {"auto", "modern", "legacy"}

Discover    == <<"discover">>
Initialize  == <<"initialize">>
Initialized == <<"initialized">>
Call(c)   == <<"call", c>>
Answer(c) == <<"answer", c>>
CallPosts == {Call(c) : c \in Calls}
Requests  == {Discover, Initialize} \cup CallPosts
Posts     == Requests \cup {Initialized} \cup {Answer(c) : c \in Calls}

VARIABLES
    peer,       \* the server: both versions, legacy only, or older than discovery
    mode,       \* ConnectMode
    client,     \* its stage, and the version it settled on
    remembered, \* Shared.version
    captured,   \* Shared.session: the server's session id has been seen
    task,       \* each task's task: where it is, and the headers it took
    served,     \* what the server does with each post
    status,     \* of the HTTP response
    body,       \* frames of the response on their way
    queue,      \* inbound_tx / inbound_rx
    heard,      \* what the waiter of each request was given
    session,    \* the server's: none, live or ended
    broken      \* posts whose connection failed

clientVars == <<client, remembered, captured, task, queue, heard, broken>>
serverVars == <<served, status, body, session>>
httpVars   == <<peer, mode, clientVars, serverVars>>

Speaks == CASE peer = "dual" -> {"draft", "legacy"} [] OTHER -> {"legacy"}
Version == client.version
Unsent == [at |-> "unsent", version |-> "none", session |-> FALSE, stale |-> FALSE]

Results == {"value", "-32601", "-32022"}
Lost == "-32001"       \* what the transport reports of a post that failed

HttpTypeOK ==
    /\ client.at \in {"start", "discovering", "initializing", "connected", "failed", "over"}
    /\ Version \in {"none", "draft", "legacy"} /\ remembered \in {"none", "draft", "legacy"}
    /\ captured => session # "none"
    /\ \A m \in Posts :
         /\ task[m].at \in {"unsent", "spawned", "versioned", "sent", "reading", "failing", "done"}
         /\ served[m] \in {"no", "working", "asking", "silent", "mismatch", "no session"} \cup Results
         /\ status[m] \in {"none", "ok", "bad"}
    /\ Len(queue) <= QueueCap
    /\ \A m \in Requests :
         heard[m] \in {"nothing", "waiting", Lost, "timeout", "closed"} \cup Results

HttpInit ==
    /\ \E pairing \in Pairings : peer = pairing[1] /\ mode = pairing[2]
    /\ client = [at |-> "start", version |-> "none"]
    /\ remembered = "none" /\ captured = FALSE
    /\ task = [m \in Posts |-> Unsent]
    /\ served = [m \in Posts |-> "no"]
    /\ status = [m \in Posts |-> "none"]
    /\ body = [m \in Posts |-> <<>>]
    /\ queue = <<>>
    /\ heard = [m \in Requests |-> "nothing"]
    /\ session = "none" /\ broken = {}

-----------------------------------------------------------------------------
(* The client above the transport: the handshake, calls and the connection. *)

Spawn(ms, stale) ==
    task' = [m \in Posts |-> IF m \in ms THEN [Unsent EXCEPT !.at = "spawned", !.stale = stale]
                             ELSE task[m]]
Wait(m) == heard' = [heard EXCEPT ![m] = "waiting"]
Rest == UNCHANGED <<peer, mode, remembered, captured, queue, broken, serverVars>>

Connect ==
    /\ client.at = "start"
    /\ LET first == IF mode = "legacy" THEN Initialize ELSE Discover
       IN  Spawn({first}, FALSE) /\ Wait(first)
    /\ client' = [client EXCEPT !.at = IF mode = "legacy" THEN "initializing" ELSE "discovering"]
    /\ Rest

\* handshake: an error that says "not this version" falls back in Auto.
Discovered ==
    /\ client.at = "discovering" /\ heard[Discover] \notin {"nothing", "waiting"}
    /\ \/ /\ heard[Discover] = "value"
          /\ client' = [at |-> "connected", version |-> "draft"]
          /\ UNCHANGED <<task, heard>>
       \/ /\ mode = "auto" /\ heard[Discover] \in {"-32601", "-32022"}
          /\ Spawn({Initialize}, FALSE) /\ Wait(Initialize)
          /\ client' = [client EXCEPT !.at = "initializing"]
       \/ /\ heard[Discover] # "value"
          /\ ~(mode = "auto" /\ heard[Discover] \in {"-32601", "-32022"})
          /\ client' = [client EXCEPT !.at = "failed"]
          /\ UNCHANGED <<task, heard>>
    /\ Rest

InitializeAnswered ==
    /\ client.at = "initializing" /\ heard[Initialize] \notin {"nothing", "waiting"}
    /\ IF heard[Initialize] = "value"
       THEN Spawn({Initialized}, FALSE) /\ client' = [at |-> "connected", version |-> "legacy"]
       ELSE client' = [client EXCEPT !.at = "failed"] /\ UNCHANGED task
    /\ UNCHANGED heard /\ Rest

\* A typed call; its mirror headers may be those of an older schema of the tool.
\* The second try, for a -32020, is never reached here: see MismatchIsTold.
MakeCall(c) ==
    /\ client.at = "connected" /\ task[Call(c)].at = "unsent"
    /\ \E stale \in BOOLEAN : Spawn({Call(c)}, stale)
    /\ Wait(Call(c))
    /\ UNCHANGED client /\ Rest

\* Connection::request: the timeout of a waiter.
TimeOut(m) ==
    /\ heard[m] = "waiting"
    /\ heard' = [heard EXCEPT ![m] = "timeout"]
    /\ UNCHANGED <<client, task>> /\ Rest

\* The actor: a response goes to its waiter, if it has one; a request of the
\* server to the handler, whose answer is posted like any message.
Deliver ==
    /\ queue # <<>> /\ client.at # "over"
    /\ queue' = Tail(queue)
    /\ LET frame == Head(queue)
       IN  IF frame.what = "ask"
           THEN Spawn({Answer(frame.of)}, FALSE) /\ UNCHANGED heard
           ELSE /\ heard' = IF heard[frame.of] = "waiting"
                            THEN [heard EXCEPT ![frame.of] = frame.what] ELSE heard
                /\ UNCHANGED task
    /\ UNCHANGED <<peer, mode, client, remembered, captured, broken, serverVars>>

\* The last handle is dropped: the actor's loop ends, the transport goes with it.
Drop ==
    /\ client.at \in {"connected", "failed"}
    /\ client' = [client EXCEPT !.at = "over"]
    /\ heard' = [m \in Requests |-> IF heard[m] = "waiting" THEN "closed" ELSE heard[m]]
    /\ queue' = <<>>
    /\ UNCHANGED <<peer, mode, remembered, captured, task, broken, serverVars>>

-----------------------------------------------------------------------------
(* post_and_pump, a task for every post.                                     *)

At(m, place) == task[m].at = place
To(m, place) == task' = [task EXCEPT ![m].at = place]

\* The version a body states in its own metadata.
Declared(m) == IF m = Discover \/ (m \in CallPosts /\ Version = "draft") THEN "draft" ELSE "none"

\* Slip: only typed calls have a version header.
ResolvedFromSignal(m) == IF m \in CallPosts THEN Version ELSE remembered

\* extract_protocol_version: the client's signal on a typed call, else the body's
\* own version, else what was resolved last, by whichever post that was.
Resolved(m) ==
    IF m \in CallPosts THEN Version
    ELSE IF Declared(m) # "none" THEN Declared(m) ELSE remembered

TakeVersion(m) ==
    /\ At(m, "spawned")
    /\ remembered' = Resolved(m)
    /\ task' = [task EXCEPT ![m].at = "versioned", ![m].version = Resolved(m)]
    /\ UNCHANGED <<peer, mode, client, captured, queue, heard, broken, serverVars>>

\* The session header; the request goes out.
TakeSession(m) ==
    /\ At(m, "versioned")
    /\ task' = [task EXCEPT ![m].at = "sent", ![m].session = captured]
    /\ UNCHANGED <<peer, mode, client, remembered, captured, queue, heard, broken, serverVars>>

\* What the head of a response says is next: frames, nothing, or a failure.
AfterHead(m) == IF status[m] = "bad" THEN "failing"
                ELSE IF served[m] = "silent" THEN "done" ELSE "reading"

\* Slip: the session id is taken up once the answer has been delivered.
GetHeadOnly(m) ==
    /\ At(m, "sent") /\ status[m] # "none"
    /\ captured' = (captured \/ (m = Initialize /\ heard[m] \notin {"nothing", "waiting"}))
    /\ To(m, AfterHead(m))
    /\ UNCHANGED <<peer, mode, client, remembered, queue, heard, broken, serverVars>>

\* The head of the response: its session id is kept before any frame is read, and
\* a status that is no success is a failure whatever the body says.
GetHead(m) ==
    /\ At(m, "sent") /\ status[m] # "none"
    /\ captured' = (captured \/ (m = Initialize /\ served[m] = "value"))
    /\ To(m, AfterHead(m))
    /\ UNCHANGED <<peer, mode, client, remembered, queue, heard, broken, serverVars>>

Receives == client.at # "over"
\* Slip: frames go into a queue without a bound.
PushUnbounded(frame) == IF Receives THEN queue' = Append(queue, frame) ELSE UNCHANGED queue

Push(frame) == IF Receives THEN Len(queue) < QueueCap /\ queue' = Append(queue, frame)
               ELSE UNCHANGED queue

\* Slip: a response is one frame.
ReadOneFrame(m) ==
    /\ At(m, "reading") /\ body[m] # <<>>
    /\ Push([of |-> IF Head(body[m]) = "ask" THEN m[2] ELSE m, what |-> Head(body[m])])
    /\ body' = [body EXCEPT ![m] = Tail(@)]
    /\ To(m, "done")
    /\ UNCHANGED <<peer, mode, client, remembered, captured, heard, broken, served, status, session>>

\* A frame of the body, or event of the stream, goes into the queue.
ReadFrame(m) ==
    /\ At(m, "reading") /\ body[m] # <<>>
    /\ Push([of |-> IF Head(body[m]) = "ask" THEN m[2] ELSE m, what |-> Head(body[m])])
    /\ body' = [body EXCEPT ![m] = Tail(@)]
    /\ To(m, IF Receives THEN "reading" ELSE "done")
    /\ UNCHANGED <<peer, mode, client, remembered, captured, heard, broken, served, status, session>>

EndOfBody(m) ==
    /\ At(m, "reading") /\ body[m] = <<>> /\ served[m] \notin {"working", "asking"}
    /\ To(m, "done")
    /\ UNCHANGED <<peer, mode, client, remembered, captured, queue, heard, broken, serverVars>>

\* The network fails, before the response or in it.
Break(m) ==
    /\ At(m, "sent") \/ At(m, "reading")
    /\ Cardinality(broken) < MaxBreaks
    /\ broken' = broken \cup {m}
    /\ To(m, "failing")
    /\ UNCHANGED <<peer, mode, client, remembered, captured, queue, heard, serverVars>>

\* Slip: a failed post is an error of the transport, and ends the connection.
FailTearsDown(m) ==
    /\ At(m, "failing")
    /\ To(m, "done")
    /\ heard' = [r \in Requests |-> IF heard[r] = "waiting" THEN Lost ELSE heard[r]]
    /\ UNCHANGED <<peer, mode, client, remembered, captured, queue, broken, serverVars>>

\* Slip: failures are logged, whoever waits.
FailSilently(m) ==
    /\ At(m, "failing")
    /\ To(m, "done")
    /\ UNCHANGED <<peer, mode, client, remembered, captured, queue, heard, broken, serverVars>>

\* The failure of a request is an error response to it; others have no waiter.
Fail(m) ==
    /\ At(m, "failing")
    /\ IF m \in Requests THEN Push([of |-> m, what |-> Lost]) ELSE UNCHANGED queue
    /\ To(m, "done")
    /\ UNCHANGED <<peer, mode, client, remembered, captured, heard, broken, serverVars>>

-----------------------------------------------------------------------------
(* mcp_post and what it dispatches to.                                       *)

\* validate_request_headers: headers mirror a body that states its version.
Mismatch(m) ==
    /\ Declared(m) # "none"
    /\ task[m].version # Declared(m) \/ (m \in CallPosts /\ task[m].stale)

\* Dual-stack routing, then the dispatcher: a declared version, or that of the
\* session the header names.
Treatment(m) ==
    IF Mismatch(m) THEN "mismatch"
    ELSE IF m # Initialize /\ ~task[m].session /\ task[m].version = "legacy" THEN "no session"
    ELSE IF m = Discover THEN IF peer = "elder" THEN "-32601" ELSE "value"
    ELSE IF m = Initialize THEN "value"
    ELSE IF m \notin Requests THEN "silent"
    ELSE IF Declared(m) = "draft" THEN IF "draft" \in Speaks THEN "working" ELSE "-32022"
    ELSE IF ~task[m].session THEN "-32022"
    ELSE IF session = "live" THEN "working" ELSE "no session"

\* A post reaches the server, if its connection did not fail on the way.
Arrive(m) ==
    /\ At(m, "sent") /\ served[m] = "no"
    /\ LET handled == Treatment(m)
       IN  /\ served' = [served EXCEPT ![m] = handled]
           /\ session' = IF m = Initialize THEN "live" ELSE session
           /\ status' = CASE handled = "working" -> status
                          [] handled \in {"mismatch", "no session"} -> [status EXCEPT ![m] = "bad"]
                          [] OTHER -> [status EXCEPT ![m] = "ok"]
           /\ body' = IF handled \in Results THEN [body EXCEPT ![m] = <<handled>>] ELSE body
    /\ UNCHANGED <<peer, mode, clientVars>>

\* A legacy handler asks the client something on the stream of its call.
Ask(c) ==
    /\ served[Call(c)] = "working" /\ Declared(Call(c)) = "none"
    /\ served' = [served EXCEPT ![Call(c)] = "asking"]
    /\ status' = [status EXCEPT ![Call(c)] = "ok"]
    /\ body' = [body EXCEPT ![Call(c)] = Append(@, "ask")]
    /\ UNCHANGED <<peer, mode, clientVars, session>>

\* The handler returns, with an answer to its question or without; a method the
\* server does not have is a 404 on the draft, with the error in its body.
Finish(c) ==
    /\ served[Call(c)] \in {"working", "asking"}
    /\ \E result \in {"value"} \cup IF served[Call(c)] = "working" THEN {"-32601"} ELSE {} :
         /\ served' = [served EXCEPT ![Call(c)] = result]
         /\ body' = [body EXCEPT ![Call(c)] = Append(@, result)]
         /\ status' = [status EXCEPT ![Call(c)] =
              IF result = "-32601" /\ Declared(Call(c)) = "draft" THEN "bad" ELSE "ok"]
    /\ UNCHANGED <<peer, mode, clientVars, session>>

\* Eviction, idle expiry, or somebody's DELETE.
EndSession ==
    /\ session = "live"
    /\ session' = "ended"
    /\ UNCHANGED <<peer, mode, clientVars, served, status, body>>

-----------------------------------------------------------------------------
PostStepOf(m) == \/ TakeVersion(m) \/ TakeSession(m) \/ GetHead(m)
                 \/ ReadFrame(m) \/ EndOfBody(m) \/ Fail(m)
Handshake == Connect \/ Discovered \/ InitializeAnswered

HttpNext ==
    \/ Handshake \/ Deliver \/ Drop \/ EndSession
    \/ \E m \in Requests : TimeOut(m)
    \/ \E m \in Posts : PostStepOf(m) \/ Break(m) \/ Arrive(m)
    \/ \E c \in Calls : MakeCall(c) \/ Ask(c) \/ Finish(c)

\* Posts are tasks of the client's runtime, its actor drains their queue, the
\* server takes requests as they come and its handlers end.  Nothing says that a
\* timeout fires, that the application goes on, or that the network fails.
HttpSpec ==
    /\ HttpInit /\ [][HttpNext]_httpVars
    /\ WF_httpVars(Deliver)
    /\ \A m \in Posts : WF_httpVars(PostStepOf(m) \/ Arrive(m))
    /\ \A c \in Calls : WF_httpVars(Finish(c))

-----------------------------------------------------------------------------
(* Properties.                                                               *)

\* However posts overtake each other, the headers each of them took serve: the
\* server turns down none for its headers but a call whose mirrors are stale, and
\* none for its session but when that session has ended (validate_request_headers,
\* the routing of mcp_post, and extract_protocol_version and the session lock of
\* the client).
HeadersServe ==
    \A m \in Posts :
        /\ served[m] = "mismatch" => m \in CallPosts /\ task[m].stale
        /\ served[m] = "no session" => session = "ended"
        /\ served[m] = "-32022" => Version = "draft" /\ "draft" \notin Speaks

\* "Only the one waiting caller sees the error": what a request is told is what
\* the server made of it, and a failure is its own task's, by the network or by
\* the status of its response.
FailuresAreScoped ==
    \A m \in Requests :
        /\ heard[m] \in Results => served[m] = heard[m]
        /\ heard[m] = Lost => m \in broken \/ status[m] = "bad"

\* Whatever becomes of its post, a request is told without its timeout.
RequestsAreTold == \A m \in Requests : heard[m] = "waiting" ~> heard[m] # "waiting"

\* The error a call was refused with reaches the client, which on a HeaderMismatch
\* refreshes its schemas and tries once more.
MismatchIsTold == \A m \in CallPosts : served[m] = "mismatch" => heard[m] # Lost
=============================================================================
