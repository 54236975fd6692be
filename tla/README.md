# TurboMCP: specifications, model checks and proofs

TurboMCP v4 is a Rust SDK for Model Context Protocol servers and clients. This
directory holds TLA+ modules for the parts of it in which something can go
wrong: tasks that share a connection, tables that several requests change,
futures that are dropped, timers, streams that end, and messages that have to
mean the same on both sides of two protocol versions. Each module is checked
with TLC on small instances (`*.cfg`), and eight modules (`*Proofs.tla`) hold
machine-checked proofs: every safety invariant and action property of every
component but the wire formats is a theorem for all values of the constants.

Paths are relative to `src/crates/`. The map from definitions to source lines is
in `PROJECT.json`, with the components, the hazards, the findings and the
mutants (definitions that stand for a plausible bug; each must break the
property it is listed for).

    tlc -config serve_live.cfg MCServeDriver
    tlapm ServeDriverProofs.tla
    tlapm --summary TasksProofs.tla

## 1. The system

| Component | State | Operations | Talks to | Hard part | Correct means |
|---|---|---|---|---|---|
| Serve driver (`turbomcp-service/serve.rs`) | JoinSet, permits, bounded channel, transport | the arms of a biased select, two drain phases | handlers (channel), publishers (registered writer), transport | one task is reader and only writer; backpressure; drain and deadline | nothing about a call follows its reply, every finished call is answered, no stall, shutdown ends |
| Writer registry (`outbound.rs`) | process-wide table id -> sender | register, writer, guard drop | driver, HTTP streams, publishers | one id registered twice | the newest registration is the one in use |
| Client actor (`turbomcp-client/connection.rs`) | pending table, channel, oneshots | request, timeout, forget, actor loop, server requests | transport, callers, cache | the end of the actor against a new request | a value was answered, waiters learn of the end, requests return |
| Client cache (`cache.rs`, `cached_request`) | entries with expiry | get, store, on_notification, clear | actor, callers | fetch against invalidation | bounded, and stale only by the known race |
| Client facade (`client.rs`, `handler.rs`) | negotiated version, what the server said of itself | handshake with fall-back, typed calls, input rounds, task polling, answers to server requests | connection, cache, dispatcher | two versions, hand-built JSON, a call that becomes a task or an input round | the application gets what the handler returned, the handler what was asked |
| Client HTTP (`turbomcp-client/http.rs`) | session id, remembered version, inbound queue | send (a task per message), recv, close | endpoint (`mcp_post`), client actor | posts overtake each other and fail one by one; headers come from shared state | the headers of every post serve, a failure is its own request's, every request is told |
| Sessions (`turbomcp-server/session.rs`) | bounded LRU table, idle times | insert, get, sweep, remove, set_log_level | dispatcher, routes | eviction and idle expiry against requests in flight | a session that is gone has no route |
| Subscriptions (`subscriptions.rs`, `dispatcher/listen.rs`) | registry, coalescing flags, legacy routes | listen, cancel, publish, schedule, close_all | writers, in-flight table, extension | all of it runs concurrently and waits on writers | acknowledged first, no lost change, silence after the end |
| In-flight table (`inflight.rs`) | (connection, id) -> token | register, cancel, guard | dispatcher | the same id on another pipe, again, or before registration | the table holds what is dispatched, a cancellation reaches its own request |
| Dispatcher (`dispatcher/*`) | none of its own | routing, gate, parameters, initialize and discovery, results, notifications | all of the above | the steps between two locks; two versions of every message | see sessions; what is sent conforms, what is declared is honoured |
| MRTR (`mrtr.rs`) | pending inline requests, signed state | obtain, send_and_await, complete, sign, verify | driver, client | an answer comes through the reader its waiter blocks; packaged on one version, inline on the other | see driver; a form and its answer arrive |
| Legacy tasks (`tasks.rs`, `dispatcher/legacy_tasks.rs`) | owned tasks, watch channels | create, complete, get, list, wait_result, cancel | dispatcher | waiting and paging against purge; cancel against complete | life cycle, waits return with the outcome of the task, pages skip no more than was purged |
| Draft tasks (`turbomcp-ext-tasks`) | entries with ttl, inputs, waiters; subscribers | create, complete, get, cancel, publish_input, deliver_inputs, push_status | handlers, subscribers | outcome, cancellation, input and expiry meet at one entry | life cycle, agreement of keys and waiters, no orphaned work |
| HTTP streams (`turbomcp-transport-http`) | a channel per POST, one GET stream per session | POST with upgrade to SSE, GET, drains | handlers, reporters, registry | reports race the return of the handler | the reply is last and nothing accepted is lost |
| Progress, logging (`progress.rs`, `logging.rs`) | last value | report | request channel or GET stream | reporters are cloned | increasing, nothing after the reply |
| Line transport (`turbomcp-transport-stdio`) | read buffer | recv, send | select loops that drop recv | a dropped recv | a line is a frame, the cap holds |
| WebSocket (`turbomcp-transport-ws`) | idle count and timer, local to recv | recv, send | serve loop | a dropped recv | living peers stay, silent ones go |
| Adapter (`adapter.rs`) | session id of a pipe | call | dispatcher | two initializes at once | a call after an answered handshake has a session of its own pipe, and is served unless the store lost it |
| Protocol types (`turbomcp-protocol`) | none | what serde writes and reads; neutral to draft and legacy and back | client, dispatcher | untagged enums, fields that are skipped when empty, closed structs | conversion and parsing lose only what a version has no place for |
| Auth (`turbomcp-auth`) | JWKS cache; tokens | look-up, fetch, forced refresh; discovery, registration, flow, validation | HTTP | fetches that overtake each other, key rotation | a look-up of a published key finds it, a retired one is forgotten |
| Rate limit, headers (`ratelimit.rs`, `mcp_headers.rs`) | buckets of a library | check | HTTP | | not modelled |
| Codec, codegen, macros, facade, telemetry | configuration, counters | | everything | | not modelled: no state of the program's logic |

How a message travels: a transport delivers a frame to the serve driver, which
takes a permit and spawns a handler; the handler runs the dispatcher, which
reads or changes sessions, subscriptions, tasks and the in-flight table; what it
sends (progress, inline requests, its reply) goes through the bounded channel of
the connection back to the driver. Publishers reach the same channel through the
writer registry. On HTTP a POST has a channel of its own and the session a GET
stream. On the client an actor owns the transport and callers wait on oneshots.

## 2. The modules

**ServeDriver** models `serve_with` whole. `at` is where the driver's task is:
in select, inside `transport.send`, or parked for a permit, and in the last two
it polls nothing else. `phase` runs through serving, draining, flushing,
closing, closed. `task` is what became of each frame's handler, `chan` the
channel whose capacity is also the number of permits, `wire` what the peer
received. The select is biased: each arm is an action whose guard says that no
earlier arm is ready. Handlers push, ask the client inline (and need the answer
to be read), reply, say nothing, fail or are aborted; `Publishers` stand for
`SubscriptionRegistry::publish` and other tasks outside the JoinSet, which hold
a clone of the sender. `Faults` says which operations may fail. Handlers that
hang are handlers without fairness (`Hanging`).

**Connection** is what a connection promises its peer: one log, a call answered
at most once and after it was read, nothing about a call after its answer,
nothing once closed. ServeDriver implements it (`ImplementsConnection`), with
the calls that were read as `accepted` and `wire` as the log.

**ClientConnection** models `Connection::request`, from the insertion into the
table to `forget`, and the actor: the arms of its select, answers, server
requests with a handler (a task with a weak sender) or without one (refused by
the actor; which of the two is chosen initially), the clearing of the table and the exit as steps of their own, since
a caller can act between them.

**ResponseCache** models `cached_request` and the cache: the answer is delivered
by the actor in wire order with the notices, but stored by the caller later.
Entries record whether an invalidation arrived during their fetch, which is what
`StaleOnlyByRace` allows.

**LegacySessions** models the session table and the routes of
`subscriptions.rs`, one action per critical section of each operation. `live` is
the table, `before` says which of two sessions was last seen first (what the LRU
and the idle times say), and `idle` is the set of sessions past the idle timeout.
`closed` records the sessions that a DELETE or a sweep ended, and `raced` those of
them of which a request was past its look-up, or the initialize not yet served.

**Subscriptions** models the draft subscriptions, their cancellation, publishing
to draft and legacy targets, list-change coalescing, `close_all` and task
pushes. Handlers start in any order, as the driver's tasks do; `missed` records
the cancellations that found nothing to cancel. A message says "fetch again", so it tells a target
every change made before it was sent.

**RequestStreams** models `request_post` of the HTTP transport with the two
stages of its stream, the drains when the handler returns, `ProgressReporter`
(guard, look-up and send are three steps) and the session's GET streams with the
guard that unregisters by id.

**HttpEndpoint** is the other end of such a POST: a client with its handshake in
each connect mode, its HTTP transport and the endpoint it talks to. Every
message is posted by a task of its own, which takes the version header, then the
session header, sends, reads the head of the response and then its frames, each
a step that any other post may fall between; a post may break before or in its
response. The server checks the headers against the body, routes by version and
session, and answers, asks or refuses; `peer` says which versions it speaks
(`elder` is one without discovery, as the client's tests script it). What a call
computes is left out; its mirror headers are fresh or stale.

**DraftTasks** models the store, the broker, the calls and the pushes of
`turbomcp-ext-tasks`. A push belongs to whoever awaits it: the task of the call
when it has ended, `obtain` before its wait begins, or a request
(`tasks/cancel`, `tasks/update`). It reads the store, and sends what it read in a
later step; one of a request is dropped with the request when the client cancels
that (`DropPush`, the `select!` of dispatcher/mod.rs:478), one of `obtain` with its
future (`Abandon`), and one of the call's task never. **LegacyTasks** models the task store of 2025-11-25 with
the spawned calls that run in it, `tasks/result` (look, wait on the watch
channel, look again, all of it in a session that must own the task) and a client
that follows the cursor of `tasks/list`, which is an offset into what is left
after the purge: a page is the set of the owner's tasks that have at least as
many older ones as the cursor says, and less than a page more. In both the purge
at the start of most operations is part of each of them, and time is the set of
the tasks that are overdue.
**TaskLifecycle** is what a client sees of a task; both implement it.

**LineTransport** models `recv` of the line transport by byte positions: the
buffer is a run of consecutive bytes, a line is an interval, and `Cancel` is the
select loop dropping the future.

**PipeConnection** models what lies above it on a pipe: the session adapter, the
in-flight table and the session store behind them, with one handler per frame.
Stamping, registering, the sweep of an initialize and its `insert`, the look-up of
a call's session, the removal by the guard, the commit of the session and the
reply are steps of their own, and so are the look-up and the firing of a
cancellation. The store keeps the order in which its sessions were last seen and
the set of those that are past the idle timeout (`GrowStale`, longest unseen
first), instead of times: `Insert` at capacity evicts the longest unseen, `Refresh`
is a look-up in time, `Expire` a sweep or a look-up too late. A call whose session
is gone ends without an answer (`UnknownSession`). The delivery routes of sessions
are in LegacySessions. Its clients do not cancel an initialize and use an id again only when its request
was answered (so never when they cancelled it), as the protocol asks of them.

**WsLiveness** models `recv` of the WebSocket transport in ticks, with an urgent
timer: `Timeout` probes or gives up, `Heard` is any inbound frame, `Dropped` is
the serve loop sending something.

**JwksCache** models the key cache of `jwks.rs` in ticks: look-ups that run
concurrently, fetch when the set is stale or their key is missing, and store
whatever arrives last. `Delay`, how long a response may be under way, is an
assumption: the HTTP client has no timeout.

**Wire** models a conversation, one message at a time, on either version: the
handshake with its fall-back, a request from the typed method of the client
through the parameters of the server to the context and arguments its handler
gets, a question of the handler (packaged in an input round on the draft, inline
on the legacy version, gated by what was declared), a call that runs as a task
and is polled, the result back to the application, and the notifications. It
stands on six modules without state. **WireShapes** says what serde writes of a
value of a given shape, which JSON it accepts for that shape and what it reads:
fields that are skipped when empty, defaults, flattened maps, untagged enums
that take the first variant that fits. It does so level by level, as deep as any
type of the protocol goes, instead of recursively, which keeps Wire within the
prover's reach. **DraftTypes** and **LegacyTypes** are
the generated types of the two versions as such shapes. **Neutral** has the
types handlers and applications use, with values to send: one with every field
set, one as constructed, and every way of leaving one field as constructed.
**DraftWire** and **LegacyWire** are the conversions of `neutral.rs`, both ways.
A string is a token, and a value has the fields the types give it; formats of
strings do not matter to what is checked.

Proofs are in modules of their own: **ServeDriverProofs**,
**ClientConnectionProofs** (with ResponseCache), **PipeConnectionProofs**,
**EdgesProofs** (LineTransport, WsLiveness, JwksCache, and the pipes put beside
them), **TasksProofs** (DraftTasks and LegacyTasks), **SubscriptionsProofs** (with
LegacySessions), **HttpProofs** (RequestStreams and HttpEndpoint) and
**WireProofs**. Section 5 says what they prove and how.

The `MC*` modules give the constants their values for TLC. MCRegistries, MCTasks,
MCEdges, MCHttp and MCWireAndCache put components that share no state side by
side, and a variable chosen initially says which of them moves (which clients a
server has, which store, which transport, which end); the instances stay
independent.

Order of work and composition: the driver first, since everything passes through
it; then the client actor, which mirrors it; then the tables (cache, sessions,
subscriptions, tasks), which take the driver as given (handlers run
concurrently, writers have bounded channels); then streams and transports.

## 3. The runs

| Run | Shows | Bounds, and why they are enough |
|---|---|---|
| serve_live | no stall on the driver's own permits; a call that was read is answered, whatever another handler does; the token ends the connection although a handler hangs | two permits, four calls (one may hang) and a notification: two replies fill the channel, two more handlers wait for room and a fifth frame for a permit |
| serve_drain | nothing follows a reply, a clean return answered everything, the flush empties the channel, Connection is implemented | two permits, a push, an inline request and its answer, a publisher, every fault |
| client_calls | values were answered, no entry is left, the end reaches waiters, requests return, server requests are answered | two requests, two answers each, a channel of one, I/O errors, dropped futures, with and without a handler |
| registries | LegacySessions: routes follow sessions (subscriptions of a live session are kept, a deleted or swept one has no route). Subscriptions: acknowledged first, coalescing loses no change, silence after the end | three sessions over tables of two sessions and two routes, two requests at a time, symmetric ids (only safety is checked); two changes and another event, two publishers, a subscription with a task filter, connections that end |
| http | RequestStreams: the reply is last, reports arrive in order, the POST completes, an older GET stream ends. HttpEndpoint: the headers of concurrent posts serve whatever overtakes what; a request is told what the server made of it, or of its own failure, and is told without its timeout | three reports over channels of one, a clone, two GET streams; one call with the handshake before it, the notification beside it, a question and its answer, which is a post of every kind; one connection that fails, a queue of one, each connect mode and each kind of server |
| tasks | DraftTasks: keys and waiters agree, input_required is accurate, the end is announced although requests are dropped with their pushes. LegacyTasks: the outcome agrees with how the task ended and with what waiters got, no wake-up is lost, waits return, pages cover. Both: capacity, no orphaned work, TaskLifecycle is implemented | draft: two tasks in a store of one, one that asks twice, expiry and abandoned waits; legacy: three tasks of two sessions in a store of two, a waiter, pages of one, so that a purge falls between two pages |
| edges | LineTransport: lines that were not cut are frames, in order, and arrive; the cap holds. PipeConnection: the table is exact, cancellations reach their own requests, a call sent after an answered handshake is served in a session of its pipe unless that was evicted or has expired. WsLiveness: a silent peer is given up in time, a living one never. JwksCache: a published key is found, a retired one is forgotten within Ttl and Delay | lines of 3, 1 (blank), 2 and 5 bytes in any pieces, a cap of three, two dropped futures; three frames on two pipes with two ids, which is what it takes for two handshakes and a call, or a request, its cancellation and a namesake, over a session store of one with an idle timeout, so that the second handshake evicts the session of the first; an interval of three ticks, three probes, a pong that takes eight of the nine ticks it may; two keys, two look-ups, Ttl 2, Delay 1 |
| wire | Wire: results, requests, questions and notifications arrive as they were meant and conform to the version's types; both sides agree on the handshake; a client is asked only for what it declared. ResponseCache: the cap; an entry is stale only by the known race | every neutral value one field away from full or from empty, for every method; three servers and five clients; MaxI64 and MaxU32 scaled to 2, so that sizes and limits exceed them; three keys, two entries, two callers, one change: the third store evicts |
| serve_stall (violation) | ShutdownCompletes fails: parked for a permit the driver empties no channel and sees no token | two calls, one permit, one push |
| sessions_subscribe_panic (violation) | DELETE between the two locks of subscribe makes its `expect` fail | one session, two requests |
| http_mismatch (violation) | MismatchIsTold fails: a HeaderMismatch is status 400, which the client reports as -32001, so the retry it has for -32020 is never reached | one draft call |
| wire_audio (violation) | AudioArrives fails: an audio block reaches the application as an image | as wire |

The capacity of the tables is part of the type invariants (sessions, routes,
cached entries, stored tasks, the channels, the read buffer), with mutants that
break it.

ResultsArrive compares with `Kept`, which lists what a version has no place for:
the draft has no task support and always says how long a result may be cached;
the legacy version says nothing of caching and has only objects as structured
content; a schema that the version's type cannot hold becomes the schema of any
object. MessagesConform leaves out what an application itself sends against the
protocol, and messages without content (`roots/list`, the empty answers to
subscriptions and log levels), each named in `MessageConforms`.

Deadlock is checked except where a run says otherwise: the driver of
`serve_drain` and `serve_stall` can stop for good (the latter is about that), a
session, subscription, task, frame or look-up instance may have used up its ids
and events, an HTTP request that was answered is over, and so is a client that
was dropped and a connection whose handshake was refused.

Bounds that are constants: MaxPushes, MaxAnswers, MaxTtl, MaxVersion,
MaxChanges, MaxOthers, MaxReports, MaxInputs, MaxCancels, MaxTasks, MaxFrames, MaxBreaks.
Each counts something the code does not bound and is a guard on the action that
does it.

### Where the code and its documents disagree

Four disagreements are runs with a counterexample (`serve_stall`,
`sessions_subscribe_panic`, `http_mismatch`, `wire_audio`). The modules contain the steps of the following ones
too, and the passing properties carve them out, by the history variable or the
condition in the last column. Each carve-out names what a fix would let one
delete.

| Code | What happens | Says otherwise | Carved out by |
|---|---|---|---|
| serve.rs:176 | as many hung handlers as permits, and a parked driver never starts its drain | serve.rs:25-28 | fewer hanging handlers than permits in serve_live |
| serve.rs:176 | the answer to an inline request waits behind the permit of the handler that waits for it, until BIDI_TIMEOUT | serve.rs:9 | no Answers in serve_live |
| serve.rs:216, 235 | a send fails during a drain, the message is lost and `serve_with` returns Ok | serve.rs:87-88, 104-105 | `sendFailed` |
| connection.rs:270 | a request inserted after the table was cleared and before the receiver is dropped waits for its timeout | connection.rs:23-26 | CloseReachesWaiters (CallsEnd) speaks of entered callers |
| connection.rs:162 | the request timeout does not cover the send; with a peer that stops reading a request hangs | connection.rs:43-45 | fairness of Sent |
| client.rs:403 | an answer is stored after the notice that made it stale, and served until its ttl | cache.rs:6-7 | `raced` of an entry |
| dispatcher/mod.rs:689 | a request past the gate makes the route of a deleted session again | subscriptions.rs:152-155 | `raced` |
| session.rs:129-131 | a look-up removes an idle session, so the sweep never drops its route | subscriptions.rs:152-155 | ClosedHasNoRoute (RoutesFollowSessions) speaks of DELETE and the sweep |
| params.rs:45, serve.rs:194 | on a byte pipe a call whose session was evicted or has expired is an error of the dispatch, which the driver only logs: the client gets no answer (over HTTP it is a 404) | session.rs:121-123: the caller answers "unknown session" | `Gone` in CancellationIsExact and CallsFindTheirSession |
| ext-tasks lib.rs:408 | a tasks/cancel that is cancelled while its push waits for the subscriber's writer drops the push: the end is announced only when the call has ended | nothing: lib.rs:371-372 calls pushes optional | the call that still runs in TerminalIsPushed |
| dispatcher/mod.rs:541 | a cancellation handled before its listen request is lost | mod.rs:537-539 | `missed` |
| ext-tasks lib.rs:324 | cancelling a listen leaves its task filter subscribed | mod.rs:537-539 | task pushes in EndedIsSilent |
| listen.rs:131 | a task push can precede the acknowledgment | listen.rs:149-150 | AcknowledgedFirst speaks of the registry's messages |
| subscriptions.rs:242 | a publisher that took its targets before `close_all` sends after the result | subscriptions.rs:254-256 | `Addressed` |
| outbound.rs:38 | the older GET stream's guard unregisters the newer stream | outbound.rs:76-77 | no property |
| progress.rs:102-104 | clones of a reporter send in another order than they passed the guard | progress.rs:31-32 | per reporter |
| progress.rs:104 | a clone that reports after the reply is sent to the GET stream | progress.rs:33-34 | the POST stream |
| transport-http lib.rs:832 | a report accepted between the drain and the drop of the channel is lost | lib.rs:830-831 | the handler's own reports |
| ext-tasks store.rs:213-241 | a handler that stops waiting leaves its input outstanding | store.rs:46 | `abandoned` |
| transport-stdio lib.rs:157 | a dropped recv loses the part of a line it had consumed | lib.rs:53 | `cut` |
| transport-ws lib.rs:307 | pushes reset the count of unanswered pings and the timer | lib.rs:186 | `quiet` starts again at a drop |
| server tasks.rs:264 | the cursor of tasks/list is an offset: tasks that are purged between two pages shift the rest, and as many are skipped | nothing: tasks.rs:242-243 names the offset | PagesCover counts what was purged |
| neutral.rs:1941 | a schema the legacy struct cannot hold (no `type`, or a property that is a boolean) becomes the empty object schema | neutral.rs:1943: a non-object value does | `KeptSchema` |
| v2025_11_25/types.rs:10319 | other keywords of an input schema survive, in a flattened map | neutral.rs:1852-1854 | ResultsArrive says they do |
| neutral.rs (client direction) | annotations, icons and `_meta` are kept | neutral.rs:2250-2252 | ResultsArrive says they are |
| draft/types.rs | a result without `resultType` is refused by the generated structs | neutral.rs:30-31 | our server always stamps it |
| draft/types.rs:3634 | an InputRequest (untagged) is read as a roots request if it is not sampling, elicitations included | variant names | the client reads the JSON by its method, as the model does |
| client handler.rs:96 | a URL elicitation reaches the handler as a form without its url | mrtr.rs:381-382 | FormsArrive (AskedArrives) compares the schema of forms |
| handshake.rs:54 | empty markers inside a client's capability are dropped from the session | handshake.rs:81-85 patches the server's own | DeclaredIsGated (PeersAgree) speaks of the outer ones, which are all the gate reads |
| client.rs:240 | the answered protocolVersion of initialize is ignored | lifecycle specification, quoted at client.rs:248 | both sides speak the version that was asked for |
| client.rs:235 | a server of 2025-11-25 alone answers discovery too, and its supportedVersions are not read: the client is connected on the draft, and every call is refused | client.rs:153: an error if no supported version could be negotiated | HeadersServe allows -32022 there |
| http.rs:329 | after the fall-back `notifications/initialized` names the version of the probe in its header | http.rs:54-56: the negotiated version | HeadersServe asks whether headers serve |
| connection.rs:269 | nothing calls `Transport::close`: no DELETE is sent, and the session of a client that is gone waits for eviction or expiry | connection.rs:25-27: closing the transport | no property |
| http.rs:216 | a 404 for a session that ended is an error -32001 like any other: the client does not initialize again, and every later call fails | transport-http lib.rs:1490-1491 | HeadersServe excuses sessions that ended |
| http.rs:216 | a method the draft server does not have is a 404, and the caller sees -32001 and not -32601 | lib.rs:837-838 puts the error in the body | FailuresAreScoped allows a bad status |
| jwks.rs:121 | every missing key fetches again | jwks.rs:85-86: per the cooldown | no property |

## 4. Fairness

Weak fairness only, and only of what the runtime or a timer owes: a task that
can run is polled, a timer that is due fires. On top of that, per specification:

- ServeDriver (`FairSpec`): the driver's own steps, a transport.send that ends (a
  peer that reads), the abort of a task, and handlers outside `Hanging` that run
  to their end, with BIDI_TIMEOUT bounding an inline wait. The peer's frames,
  the end of its input and the faults are owed by nobody. The drain deadline is a
  timer.
- ClientConnection (`FairSpec`): the actor, the callers' timeouts, the tasks that
  answer server requests, and a transport.send that ends.
- RequestStreams (`FairSpec`): the stream is polled while the client reads,
  handlers end, reporters that started a report finish it.
- HttpEndpoint (`HttpSpec`, and `FairViews` of MCHttp): posts run, the actor drains their queue, a request
  that was sent and not broken off reaches the server, handlers return. Nothing
  is owed by the application, the timeouts, the network's failures and the end
  of a session.
- MCEdges (`FairEdges`): recv of the line transport is polled while its bytes
  arrive; nothing else.
- MCTasks (`FairStore`): of LegacyTasks, a request that waits is polled when it
  is due, and a call that runs as a task ends or notices its token. Without the
  latter `tasks/result` waits for ever, since nothing purges while it waits.
- No fairness elsewhere. DraftTasks' TerminalIsPushed says that the push is
  made, or that the task of the call still owes it; purges are owed by nobody, since the code only purges when it is
  called. WsLiveness' timer is urgent, so what it must do in time is a safety
  property; KeysAreCurrent of JwksCache is an action property, and time passes
  only while no response is late.

## 5. Proofs

A theorem holds for all values of the constants that satisfy the named
assumption of the component's module; the runs of section 3 check the same
formula on one instance. The assumptions say of which type a constant is, which
sets are finite and which are disjoint, and little more: `ServeDriver`'s
`AnswerTo` maps into the calls; `LinesAssumption` wants line ends that increase (a
line has at least its newline); `TimesAssumption` a latency below Interval *
MaxIdle, since a slower peer cannot be told from a silent one; `CacheAssumption`
keys and notices of the methods that the client caches and hears of. `Faults`,
`Operations`, `Pairings`, the clones, publishers, pipes, ids and the capacities
are any.

In each module the properties are not inductive as the runs check them. What is
inductive is named `...Inv`, and every proof has the same three parts: it holds
initially, every action keeps it (a lemma per conjunct, or per group of actions
where one action disturbs many conjuncts), and it implies the property.

**ServeDriverProofs.** Two invariants. `SInv` and `RoomWhileParked` count: while
the driver is parked, queued messages and permit holders together are at most
Capacity. That holds when the driver parks, because a biased select reads a frame
only when the channel is empty, and is kept because a reply trades a holder for
a message and only `Spawn`, which ends the parking, adds a holder. It gives

- `TypeCorrect`, `PermitsBounded`;
- `ReplyOnlyNeverStalls`: if no handler pushes or asks and there are no publishers
  (`OnlyReplies`), a reader that waits for a permit finds one free, or there is a
  holder and room for its reply. This is the claim behind "backpressure", and it
  is false without the hypothesis (`serve_stall`).

`DInv` follows messages through channel, hand and wire, taken as one sequence:
nothing about a call comes after its reply in it (`PipelineOrdered`), every message
in it is of a call that was spawned (`IssuedByHandlers`), every ended call has its
reply in it unless a write failed (`EndedHasReply`), and when the driver closes no
sender and no message is left (`SendersSilent`). It gives

- `DrainIsLossless`: a clean return has written every reply;
- `DriverImplementsConnection`: the refinement of Connection, step by step. That
  nothing follows a reply on the wire is part of Connection.

**ClientConnectionProofs.** `CallsInv` ties the table to the callers (an entry has a
caller who has not been told; who waits has an entry or an outcome) and an answer
to its request (`Origin`: it is found in a oneshot or on the transport only if the
server sent it, and the server sends it only if the request arrived).

- `ConnectionIsTyped`, `TableJoinsAnswersAndCallers`;
- `ClearingReachesWaiters`: the step that clears the table tells every waiter in it,
  the safety half of CallsEnd.

The cache's property `StaleOnlyByRace` is about what is stored. It needs
(`CacheInv`) that an answer under way is at least as new as every notice before it
and as what the client was told (`AnswersKeepOrder`), that a notice tells of
versions the server has (`AnnouncesWhatChanged`), and that what a caller is about
to store is current unless its fetch raced (`HeldIsCurrent`).

- `CacheIsTyped` (the cap, by counting what eviction removes), `StaleByRaceAlone`.

**PipeConnectionProofs.** `TableInv` adds to `CancellationIsExact` that of the
requests which share a key all but one were answered, that a cancellation which
found a token found one of its own key, and `Sessions`: the store keeps its
capacity and one order of what it holds (`Stored`), what was ever stored was made
by a handshake, which is stored before it counts as made and committed before it
is answered, and a call is refused only for a session the store has lost
(`Handshakes`). `SessionInv` adds `CallsFindTheirSession` to that. What each
operation of the store does to it are lemmas of their own (`Inserting`,
`Refreshing`, `Expiring`); that nothing is evicted before the store was full is by
counting the handshakes (`MadeSteps`).

- `EntriesLiveAsLongAsTheirDispatch`, `GreetedCallsFindTheirSession`.

**EdgesProofs.** For the lines, `LinesInv` says where the read buffer can stand: no
newline in what was scanned, and it starts inside a line only if the recv that
held its beginning was dropped or the line was returned without its newline at the
end of the input (`Buffered`); what was returned lies before it (`Behind`), and the
end is reported when the peer writes no more (`EndIsKnown`). That there is a next
line and that it is the least one not yet consumed is `LeastNumber`, by
well-foundedness in its set form.

- `LinesAreTyped` (the buffer stays within the cap), `EveryLineIsOneFrame`.

For the probes, `SilenceIsCounted` (pings and timer measure the
silence exactly while recv waits) and `OldestPing` (the first unanswered ping of a
living peer is as old as the count says, so its pong would have come). For the
keys, `CacheIsRecent` and `AnswersAreRecent`: what is in a set was published when
the set was made, and a set is no older than it says and the delay.

- `ProbesOfAnyLength`, `KeysAreCurrentForAnyCache`, and `EdgesAreTyped` for the four
  components of the run.

**TasksProofs.** `StoreInv` has, for each draft task, the course of its call, the
keys handed out so far and the properties of the module; the keys matter because
an answered key must not be asked for again. For the pushes it has `Announced`: a
push of the call's own task is there only once the call has ended, and has not
found the task live; and an end that a push has read is the end of the task, which
is what makes the end that was told final. `LegacyInv` has the course of a task
and of a request that waits for it: what it was told is the outcome of the task if
that is still stored, and while it sleeps the task works or it has been woken
(`EndsWake`: whatever ends a task wakes who waits for it).

- `DraftInputsAgree`, `DraftEndsArePushed`, `LegacyResultsAgree`, `WorkIsNotOrphaned`,
  `StoresAreTyped`, `StoresFollowLifecycle` (both refinements of TaskLifecycle);
- `ListingSkipsNoMoreThanWasPurged`. `ListCourse` counts: at most as many stored tasks
  as were shown lie up to the last one shown, so a page that skips that many
  starts after it, pages come in order, and what a whole listing has missed are at
  most as many tasks as were purged after they were shown. The lemmas on ranks
  (`Counted`, `LowRanks`, `PageFollows`) are about any finite set of numbers.

**SubscriptionsProofs.** `SubsInv` has the course of a listen handler, of a
cancellation and of a publisher; that the coalescing flag is up exactly while one
publisher sleeps (`OneSleeper`); and that who is subscribed knows of the last
change or some publisher will still tell (`ToldOrPromised`), which is what
`NoLostChange` becomes when publishers are under way. `SessionsInv` says until when
only the initialize that made a session knows it, that what a sweep still has to
drop is not in the table and never will be again, and that a session that was ended
has a route only while its DELETE is served or the sweep has still to come to it.

- `NoChangeIsLost`, `SilenceAfterTheEnd`, `RoutesKeepStep`, `RegistriesAreTyped`.

**HttpProofs.** `StreamInv` takes what the client got and what the channel (or the
tail, once the handler returned) still holds as one sequence: each reporter's
values are in it in order and the response ends it. `EndpointInv` has, for each
post, the headers it took and when it could take them (the legacy version only
after the session was seen), what the server made of it, and that whatever a
request was told, or a frame in the queue will tell it, has its ground in that very
post (`Grounded`).

- `StreamsAreWhole`, `HeadersServeEveryPost`, `FailuresAreTheirOwn`, `ViewsAreTyped`.

**WireProofs.** Two invariants. `WireInv` follows what a side says of itself through the messages.
The client's capabilities: the legacy greeting carries them (`GreetingTells`), the
session keeps of them what the gate reads (`SessionTells`, by `SessionKeeps`: reading
by the generated type and writing again loses no capability that is there); a
draft call carries them each time, a retry included (`CallTells`); so the context of
a handler opens the gates that were declared (`HandlerKnows`). The server's identity
and offers: what discover_response and handle_initialize write by the generated
types, with the markers, the extensions and the stamp patched in (`DraftWelcomes`,
`LegacyWelcomes`), is what Handshake::from_result reads (`Introduced`).

- `PeersAgreeOnAnything`: for any set of registered features, any declared
  capabilities and any cache policy. `CapabilitiesAssumption` wants capabilities to be
  objects without nulls, as the schema has them: to a null the draft, which looks
  for the key (mrtr.rs:487-497), says yes and the legacy session, which reads by
  type (handshake.rs:54), says no.

`TalkInv` follows a request hand by hand. The message carries the parameters under
whatever is added to them (`CallCarries`): the metadata, and in a retry the answers
and the server's state. That no method has a parameter of such a name is
`ParamsKeepClear`, and that each parser of params.rs reads its parameters back out
of such a message as they were meant, or refuses what is not a request of the
protocol, is `ParsedAsMeant`. So the handler has heard what was meant, from whom the
handshake or the metadata says (`HeardIsMeant`, `ClientIsRead`). The question on the
wire is the handler's, in either packaging (`QuestionCarries`); the answer on the
wire is what the user did who was shown that question, and reads back so
(`AnswerCarries`, `OutcomesAreRead`). A question is put only by a handler that was
told nothing yet, without which a second one would make the first answer a lie.

- `RequestsAndFormsArrive`: `AskedArrives`, for the same constants.

What proving changed in the models, each time without changing what they say of
the code: LegacySessions keeps the order of use as a relation and LegacyTasks its
pages as sets by rank, since the prover has no induction over sequences; the cache
tells answers from notices without filtering sequences; `Look` of LegacyTasks and
`Asks` of Wire had overlapping guards in a CASE, of which TLC takes the first and
the logic any; AcknowledgedFirst speaks of positions instead of a filtered stream;
LineTransport names its assumption on `EndOf`; WireShapes reads and writes by
levels, without recursive operators.

Left to TLC:

- liveness, since the prover has no rule for fairness and ENABLED:
  `ReadCallsAreAnswered`, `ShutdownCompletes`, `CallsEnd`, `ServerRequestsAnswered`,
  `EndsAreSeen`, `WaitsReturn`, `LinesArrive`;
- Wire's `ResultsArrive` and `MessagesConform`: they are about every field of the
  types of two versions and about one value per field, fixed and finite tables that
  no constant varies; TLC enumerates them, and a proof would say no more than that
  enumeration.

The safety of two of the live properties is proved: no wake-up is lost
(`LegacyResultsAgree`), which leaves fairness to WaitsReturn, and the end of the
input is reported only when every line was returned (`EveryLineIsOneFrame`), which
leaves it to LinesArrive.

## 6. Not modelled

- `close` of the client's HTTP transport: nothing calls it.
- OAuth discovery, registration and the authorization flow, token validation,
  rate limits (a library), origins, hosts, the Accept header, TLS, compression.
- The signed state of an input round: that it is accepted only for the same call
  and in time is cryptography and one comparison. Its round trip is in Wire.
- Macros, the code generator, builders, telemetry, harnesses: they run before or
  beside the program, or change nothing of a request.
- Formats: a URI, a cursor, a date and a base64 string are tokens.
- Time is abstract: a timer may fire whenever it is armed (except in WsLiveness
  and JwksCache), and lock hold times are zero (a critical section is one
  action).
- Memory order: flags and locks are taken to be sequentially consistent, which
  their use (a mutex, or AcqRel on one flag) provides.
- Poisoned locks are modelled only where a panic is (LegacySessions).
- A frame that fails to parse ends the connection as a recv error does.

## 7. Plan

1. The composition of ServeDriver with ClientConnection over bounded pipes, in
   which both sides may be writing at once, and the deadlock that client and
   server can reach there; with it the send that a drain waits for without its
   deadline (serve.rs:216).
2. Token refresh of the OAuth client (`turbomcp-auth/client/flow.rs`): two calls
   that find the same expired token.
