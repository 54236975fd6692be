-------------------------------- MODULE Wire --------------------------------
(***************************************************************************)
(* One client and one server that speak to each other in JSON: the         *)
(* handshake, then requests, each of them parsed by the server, answered   *)
(* with a handler's neutral value in the types of the negotiated version   *)
(* and decoded by the client; while a request is served its handler may    *)
(* ask the client something, or run as a task.  One message is on the wire *)
(* at a time: what may overtake what is the subject of other modules, what *)
(* a message MEANS to the other side is the subject of this one.           *)
(*                                                                         *)
(*   turbomcp-client/src/client.rs, handler.rs                             *)
(*   turbomcp-server/src/dispatcher/*.rs, mrtr.rs, progress.rs, ...        *)
(***************************************************************************)
EXTENDS Neutral

CONSTANTS FeatureSets,    \* what a server may have registered
          CapabilitySets, \* what a client may declare, as JSON
          DefaultPolicy   \* the cache policy a server is configured with

\* A capability is an object by the schema; a null says "present" to who looks
\* for the key and "absent" to who reads the type.
ASSUME CapabilitiesAssumption ==
  \A c \in CapabilitySets :
    IsObject(c) /\ \A f \in DOMAIN c.fields : c.fields[f].json # "null"

D == INSTANCE DraftWire
L == INSTANCE LegacyWire

VARIABLES
  version,   \* the protocol version of the connection
  features,  \* what the server has registered
  declared,  \* ClientBuilder::capabilities
  known,     \* client: Handshake
  session,   \* server, legacy: SessionState
  stage,     \* whose turn it is
  call,      \* client: the request the application made
  wire,      \* the message in flight
  heard,     \* server: the parameters and the context its handler got
  question,  \* server: what the handler asked of the client
  shown,     \* client: what its handler was shown
  outcome,   \* client: what the user answered
  told,      \* server: what the handler was told
  reply,     \* server: what the handler returned
  got        \* client: what the application got

setup == <<version, features, declared>>
dialog == <<question, shown, outcome, told>>
vars == <<setup, known, session, stage, call, wire, heard, dialog, reply, got>>

Draft    == "2026-07-28"
Legacy   == "2025-11-25"
IsDraft  == version = Draft
Nothing  == [is |-> "nothing"]
Refused  == [is |-> "refused"]
Undecodable == [is |-> "undecodable"]
Undeclared  == [is |-> "undeclared"]

Message(role, method, body) == [role |-> role, method |-> method, body |-> body]
Silence == Message("none", "none", JsonNull)

ServerInfo == [name |-> "server", version |-> "1", title |-> Some("Server")]
ClientInfo == [name |-> "client", version |-> "1", title |-> Some("Client")]
Instructions == Some("be kind")

ExtensionId == "io.modelcontextprotocol/tasks"
Extensions == IF "extension" \in features THEN ExtensionId :> Obj(EmptyMap) ELSE EmptyMap

(* turbomcp_core::Implementation. *)
CoreImplementation ==
  Struct(Need([name |-> Scalar, version |-> Scalar]) @@ Maybe([title |-> Scalar]) @@ Rest)
ClientInfoJson == Write(CoreImplementation, [extra |-> EmptyMap] @@ ClientInfo)

(* The metadata of every draft request, and what versioned_request adds to  *)
(* every request. *)
RequestMeta ==
  "io.modelcontextprotocol/protocolVersion" :> Token(Draft)
  @@ "io.modelcontextprotocol/clientInfo" :> ClientInfoJson
  @@ "io.modelcontextprotocol/clientCapabilities" :> declared
UnstampedRequest(params) == Put(params, "_meta", Obj("negotiatedVersion" :> Token(version)))
VersionedRequest(params) ==
  Put(params, "_meta", Obj("negotiatedVersion" :> Token(version)
                           @@ IF IsDraft THEN RequestMeta ELSE EmptyMap))

Optional(field, opt) == IF opt = None THEN EmptyMap ELSE field :> Token(opt[1])

-----------------------------------------------------------------------------
(* The handshake. *)

(* modern_handshake, legacy_handshake *)
Greet ==
  /\ stage = "start"
  /\ stage' = "greeting"
  /\ wire' = IF IsDraft
             THEN Message("request", "server/discover", Obj([_meta |-> Obj(RequestMeta)]))
             ELSE Message("request", "initialize",
                          Obj([protocolVersion |-> Token(Legacy), capabilities |-> declared,
                               clientInfo |-> ClientInfoJson]))
  /\ UNCHANGED <<setup, known, session, call, heard, dialog, reply, got>>

(* discover_response, with the identity stamped on it *)
Discover ==
  /\ stage = "greeting" /\ IsDraft
  /\ LET response == D!DiscoverResponse(features, Extensions, ServerInfo, Instructions, DefaultPolicy)
     IN wire' = Message("result", "server/discover", D!StampServerInfo(response, ServerInfo))
  /\ stage' = "welcome"
  /\ UNCHANGED <<setup, known, session, call, heard, dialog, reply, got>>

(* handle_initialize: parameters the type does not accept are refused. *)
Initialize ==
  /\ stage = "greeting" /\ ~IsDraft
  /\ LET params == L!Types!InitializeRequestParams
         parsed == Parsed(params, wire.body)
     IN IF Readable(params, wire.body)
        THEN /\ session' = [info |-> L!OfImplementation(parsed.clientInfo),
                            capabilities |-> L!SessionCapabilities(wire.body.fields["capabilities"])]
             /\ wire' = Message("result", "initialize",
                                L!InitializeResponse(features, ServerInfo, Instructions))
             /\ stage' = "welcome"
        ELSE /\ wire' = Message("error", "initialize", JsonNull)
             /\ stage' = "unwelcome"
             /\ UNCHANGED session
  /\ UNCHANGED <<setup, known, call, heard, dialog, reply, got>>

(* Handshake::from_result *)
FromResult(result) ==
  LET meta == IF Has(result, "_meta") THEN result.fields["_meta"] ELSE Obj(EmptyMap)
      identity == "io.modelcontextprotocol/serverInfo"
      found == IF Has(result, "serverInfo") THEN Some(result.fields["serverInfo"])
               ELSE IF Has(meta, identity) THEN Some(meta.fields[identity]) ELSE None
  IN [info |-> IF found # None /\ Readable(CoreImplementation, found[1])
               THEN LET i == Parsed(CoreImplementation, found[1])
                    IN Some([name |-> i.name, version |-> i.version, title |-> i.title])
               ELSE None,
      capabilities |-> IF Has(result, "capabilities") THEN result.fields["capabilities"]
                       ELSE Obj(EmptyMap),
      instructions |-> IF Has(result, "instructions") /\ result.fields["instructions"].json = "token"
                       THEN Some(result.fields["instructions"].of) ELSE None]

JoinUnread ==
  /\ stage = "welcome"
  /\ wire' = Silence /\ stage' = "idle"
  /\ UNCHANGED <<setup, known, session, call, heard, dialog, reply, got>>
Join ==
  /\ stage = "welcome"
  /\ known' = FromResult(wire.body)
  /\ wire' = Silence /\ stage' = "idle"
  /\ UNCHANGED <<setup, session, call, heard, dialog, reply, got>>

-----------------------------------------------------------------------------
(* Requests, as the application makes them. *)

(* The legacy requests without a typed method, made through Client::request *)
TaskMethods == {"tasks/list", "tasks/cancel"}
Plain == {"resources/subscribe", "resources/unsubscribe", "logging/setLevel"} \union TaskMethods

NoArguments == EmptyMap
Asks(method) ==
  CASE method \in Paginated -> [cursor : {None, Some("next")}]
    [] method = "tools/call" ->
         [name : {"search"}, arguments : {NoArguments, [x |-> Obj([y |-> Token("1")])]},
          task : {None, Some(None), Some(Some("60000"))}]
    [] method = "resources/read" -> [uri : {"file:a"}]
    [] method = "prompts/get" ->
         [name : {"p"}, arguments : {NoArguments, [city |-> Token("Rome")],
                                     [city |-> List(<<Token("Rome")>>)]}]
    [] method = "completion/complete" ->
         [ref : {[type |-> "ref/prompt", name |-> "p"], [type |-> "ref/resource", uri |-> "file:a"],
                 [type |-> "ref/resource", name |-> "p"], [type |-> "ref/tool", name |-> "p"]},
          argument : {[name |-> "city", value |-> "R"]}]
    [] method = "logging/setLevel" -> [level : {"warning"}]
    [] method = "tasks/list" -> [cursor : {None, Some("next")}]
    [] method = "tasks/cancel" -> [taskId : {"t1"}]
    [] OTHER -> [uri : {"file:a"}]

Tokens(record) == Obj([f \in DOMAIN record |-> Token(record[f])])

(* The params the client's typed method builds. *)
Params(method, a) ==
  CASE method \in Paginated \union {"tasks/list"} -> Obj(Optional("cursor", a.cursor))
    [] method = "tools/call" ->
         Obj([name |-> Token(a.name), arguments |-> Obj(a.arguments)]
             @@ IF a.task = None \/ IsDraft THEN EmptyMap
                ELSE [task |-> Obj(Optional("ttl", a.task[1]))])
    [] method = "prompts/get" -> Obj([name |-> Token(a.name), arguments |-> Obj(a.arguments)])
    [] method = "completion/complete" -> Obj([ref |-> Tokens(a.ref), argument |-> Tokens(a.argument)])
    [] OTHER -> Tokens(a)

Call(method) ==
  /\ stage = "idle"
  /\ method \in Plain => ~IsDraft
  /\ \E asked \in Asks(method) :
       /\ call' = [method |-> method, asked |-> asked]
       /\ wire' = Message("request", method, VersionedRequest(Params(method, asked)))
  /\ stage' = "called"
  /\ UNCHANGED <<setup, known, session, heard, dialog, reply, got>>

-----------------------------------------------------------------------------
(* The server parses a request (dispatcher/params.rs). *)

RawCallToolParams     == Struct(Need([name |-> Scalar]) @@ Filled([arguments |-> Bag]))
RawReadResourceParams == Struct(Need([uri |-> Scalar]))
RawGetPromptParams    == Struct(Need([name |-> Scalar]) @@ Filled([arguments |-> BagOf(Scalar)]))
RawCompleteParams ==
  Struct(Need([ref |-> Struct(Need([type |-> Scalar]) @@ Maybe([name |-> Scalar, uri |-> Scalar])),
               argument |-> Struct(Need([name |-> Scalar, value |-> Scalar]))])
         @@ Maybe([context |-> Struct(Filled([arguments |-> BagOf(Scalar)]))]))

(* serde_json::from_value(..)?, then what the handler gets of it. *)
Checked(type, json, F(_)) ==
  IF Readable(type, json) THEN F(Parsed(type, json)) ELSE Refused

ParseCallTool(json) ==
  Checked(RawCallToolParams, json, LAMBDA p : [name |-> p.name, arguments |-> p.arguments])

ParseFirstPage(json) == [cursor |-> None]
ParseList(json) ==
  [cursor |-> IF Has(json, "cursor") /\ json.fields["cursor"].json = "token"
              THEN Some(json.fields["cursor"].of) ELSE None]

ParseUri(json) == Checked(RawReadResourceParams, json, LAMBDA p : [uri |-> p.uri])

ParseGetPrompt(json) ==
  Checked(RawGetPromptParams, json, LAMBDA p : [name |-> p.name, arguments |-> p.arguments])

ParseComplete(json) ==
  LET Reference(r) ==
        CASE r.type = "ref/prompt" /\ r.name # None ->
               [variant |-> "Prompt", value |-> [name |-> r.name[1]]]
          [] r.type = "ref/resource" /\ r.uri # None ->
               [variant |-> "ResourceTemplate", value |-> [uri |-> r.uri[1]]]
          [] OTHER -> Refused
      Params3(p) ==
        IF Reference(p.ref) = Refused THEN Refused
        ELSE [reference |-> Reference(p.ref), argument |-> p.argument,
              contextArguments |-> IF p.context = None THEN EmptyMap
                                   ELSE p.context[1].arguments]
  IN Checked(RawCompleteParams, json, Params3)

RawTaskIdParams == Struct(Need([taskId |-> Scalar]))
ParseTaskId(json) == Checked(RawTaskIdParams, json, LAMBDA p : [taskId |-> p.taskId])

ParseSetLevel(json) ==
  IF Has(json, "level") /\ Readable(L!Types!LoggingLevel, json.fields["level"])
  THEN [level |-> json.fields["level"].of] ELSE Refused

Parse(method, json) ==
  CASE method \in Paginated \union {"tasks/list"} -> ParseList(json)
    [] method = "tools/call" -> ParseCallTool(json)
    [] method \in {"resources/read", "resources/subscribe", "resources/unsubscribe"} -> ParseUri(json)
    [] method = "prompts/get" -> ParseGetPrompt(json)
    [] method = "completion/complete" -> ParseComplete(json)
    [] method = "logging/setLevel" -> ParseSetLevel(json)
    [] method \in {"tasks/get", "tasks/result", "tasks/cancel"} -> ParseTaskId(json)

(* The requesting client: build_context, from this request's metadata, and  *)
(* legacy_context, from the session.                                        *)
Context ==
  IF IsDraft
  THEN LET meta == wire.body.fields["_meta"].fields
           info == Parsed(CoreImplementation, meta["io.modelcontextprotocol/clientInfo"])
       IN [info |-> [name |-> info.name, version |-> info.version, title |-> info.title],
           capabilities |-> meta["io.modelcontextprotocol/clientCapabilities"]]
  ELSE session

RawMrtrFields == Struct(Maybe([inputResponses |-> Bag, requestState |-> Scalar]))

(* parse_elicit_outcome: content counts when the user accepted. *)
RawElicitResult == Struct(Need([action |-> Scalar]) @@ Filled([content |-> Bag]))
ParseElicitOutcome(json) ==
  LET raw == Parsed(RawElicitResult, json)
  IN IF Readable(RawElicitResult, json) /\ raw.action \in {"accept", "decline", "cancel"}
     THEN [action |-> raw.action,
           content |-> IF raw.action = "accept" THEN raw.content ELSE EmptyMap]
     ELSE Refused
OfAnswer(json) == IF question.method = "roots/list" THEN json ELSE ParseElicitOutcome(json)

(* A response to the question comes with the retry of the call (mrtr_handle *)
(* and ClientHandle::obtain). *)
Responses ==
  LET fields == Parsed(RawMrtrFields, wire.body)
  IN IF IsDraft /\ Readable(RawMrtrFields, wire.body) /\ fields.inputResponses # None
     THEN fields.inputResponses[1] ELSE EmptyMap

TasksOn == "tasks" \in features

(* task_augmented_call runs the handler as a task. *)
IsTask == /\ ~IsDraft /\ TasksOn /\ call.method = "tools/call"
          /\ Has(wire.body, "task")

Serve ==
  /\ stage = "called"
  /\ wire.method \in TaskMethods => TasksOn
  /\ heard' = [params |-> Parse(wire.method, wire.body), context |-> Context]
  /\ stage' = IF heard'.params = Refused THEN "refusing"
              ELSE IF IsTask THEN "accepting" ELSE "serving"
  /\ told' = IF "key" \in DOMAIN Responses THEN OfAnswer(Responses["key"]) ELSE told
  /\ wire' = Silence
  /\ UNCHANGED <<setup, known, session, call, question, shown, outcome, reply, got>>

(* Without a task store the methods of tasks do not exist. *)
MethodNotFound ==
  /\ stage = "called" /\ wire.method \in TaskMethods /\ ~TasksOn
  /\ stage' = "refusing" /\ wire' = Silence
  /\ UNCHANGED <<setup, known, session, call, heard, dialog, reply, got>>

Refuse ==
  /\ stage = "refusing"
  /\ got' = Refused /\ stage' = "done"
  /\ UNCHANGED <<setup, known, session, call, wire, heard, dialog, reply>>

-----------------------------------------------------------------------------
(* While it serves, the handler may ask the client something (mrtr.rs). *)

Questions ==
  {[method |-> "elicitation/create", capability |-> "elicitation", params |-> p] :
     p \in ElicitParams \union ElicitUrlParams}
  \union {[method |-> "roots/list", capability |-> "roots", params |-> EmptyMap]}

(* elicit_request_value, elicit_url_request_value with the identifier that  *)
(* only the legacy wire carries, request_raw                                *)
ElicitRequestValue(q) ==
  LET p == q.params
      id == IF IsDraft THEN EmptyMap
            ELSE [elicitationId |-> Token(OrElse(p.elicitationId, "minted"))]
  IN CASE q.method = "roots/list" -> Obj(EmptyMap)
       [] p.mode = "form" -> Obj([mode |-> Token("form"), message |-> Token(p.message),
                                  requestedSchema |-> p.requestedSchema])
       [] p.mode = "url"  -> Obj([mode |-> Token("url"), message |-> Token(p.message),
                                  url |-> Token(p.url)] @@ id)

(* finish_mrtr packages the request in the result of the call. *)
InputRequired(q) ==
  LET request == Obj([method |-> Token(q.method), params |-> ElicitRequestValue(q)])
  IN D!StampServerInfo(Obj([resultType |-> Token("input_required"),
                            inputRequests |-> Obj([key |-> request]),
                            requestState |-> Token("signed")]), ServerInfo)

(* require_capability, then the request goes out. *)
Ask ==
  /\ stage = "serving" /\ call.method \in Interactive /\ question = Nothing
  /\ \E q \in Questions :
       /\ question' = q
       /\ IF Has(heard.context.capabilities, q.capability)
          THEN /\ wire' = IF IsDraft THEN Message("result", "input required", InputRequired(q))
                          ELSE Message("request", q.method, ElicitRequestValue(q))
               /\ stage' = "asked"
               /\ UNCHANGED told
          ELSE told' = Undeclared /\ UNCHANGED <<stage, wire>>
  /\ UNCHANGED <<setup, known, session, call, heard, shown, outcome, reply, got>>

(* The client's handler answers (turbomcp-client/src/handler.rs).  Every     *)
(* elicitation is read as a form; roots/list has a default answer.           *)
ElicitWithoutSchema(params) ==
  [message |-> params.fields["message"].of, requestedSchema |-> Obj(EmptyMap)]
ParseElicitParams(params) ==
  [message |-> IF Has(params, "message") THEN params.fields["message"].of ELSE "",
   requestedSchema |-> IF Has(params, "requestedSchema") THEN params.fields["requestedSchema"]
                       ELSE Obj(EmptyMap)]

ElicitOutcomeValue(o) ==
  Obj([action |-> Token(o.action)]
      @@ IF o.action = "accept" THEN [content |-> Obj(o.content)] ELSE EmptyMap)

NoRoots == Obj([roots |-> List(<<>>)])

Fill ==
  /\ stage = "asked"
  /\ LET request == IF IsDraft THEN wire.body.fields["inputRequests"].fields["key"]
                    ELSE Obj([method |-> Token(wire.method), params |-> wire.body])
         retry(answer) ==
           Message("request", call.method, VersionedRequest(
             Put(Put(Params(call.method, call.asked), "inputResponses", Obj([key |-> answer])),
                 "requestState", wire.body.fields["requestState"])))
         Answer(answer) == wire' = IF IsDraft THEN retry(answer)
                                   ELSE Message("result", request.fields["method"].of, answer)
     IN IF request.fields["method"].of = "elicitation/create"
        THEN /\ shown' = ParseElicitParams(request.fields["params"])
             /\ \E o \in ElicitOutcomes : outcome' = o /\ Answer(ElicitOutcomeValue(o))
        ELSE Answer(NoRoots) /\ UNCHANGED <<shown, outcome>>
  /\ stage' = IF IsDraft THEN "called" ELSE "answered"
  /\ UNCHANGED <<setup, known, session, call, heard, question, told, reply, got>>

(* The legacy answer is the response to the server's own request. *)
Hear ==
  /\ stage = "answered"
  /\ told' = OfAnswer(wire.body)
  /\ stage' = "serving" /\ wire' = Silence
  /\ UNCHANGED <<setup, known, session, call, heard, question, shown, outcome, reply, got>>

-----------------------------------------------------------------------------
(* The answer, and what the client makes of it. *)

WithCacheDefault(method, r) ==
  IF method \in Cacheable /\ r.cache = None THEN [r EXCEPT !.cache = Some(DefaultPolicy)] ELSE r

(* finish / finish_mrtr, legacy_list_tools_with_task_support; the draft     *)
(* result is stamped. *)
Finished(method, r) ==
  CASE IsDraft ->
         D!StampServerInfo(Write(D!ResultType(method), D!To(method, WithCacheDefault(method, r))),
                           ServerInfo)
    [] ~IsDraft /\ method = "tools/list" /\ TasksOn ->
         Write(L!ResultType(method), L!WithTaskSupport(L!To(method, r)))
    [] OTHER ->
         Write(L!ResultType(method), L!To(method, WithCacheDefault(method, r)))

Answer ==
  /\ stage = "serving" /\ call.method \in Methods
  /\ \E r \in Results(call.method) :
       /\ reply' = r
       /\ wire' = Message("result", call.method, Finished(call.method, r))
  /\ stage' = "replied"
  /\ UNCHANGED <<setup, known, session, call, heard, dialog, got>>

(* Client::decode *)
Decode(method, json) ==
  LET type == IF IsDraft THEN D!ResultType(method) ELSE L!ResultType(method)
      read == Parsed(type, json)
  IN IF ~Readable(type, json) THEN Undecodable
     ELSE IF IsDraft THEN D!Of(method, read) ELSE L!Of(method, read)

Receive ==
  /\ stage = "replied"
  /\ got' = Decode(call.method, wire.body)
  /\ stage' = "done"
  /\ UNCHANGED <<setup, known, session, call, wire, heard, dialog, reply>>

-----------------------------------------------------------------------------
(* Tasks of the legacy version (dispatcher/legacy_tasks.rs, and             *)
(* drive_legacy_task of the client), and the requests that have no typed    *)
(* method.                                                                  *)

Snapshots ==
  [taskId : {"t1"}, status : {"working", "completed", "failed", "cancelled"},
   statusMessage : {None, Some("why")}, createdAt : {"noon"}, lastUpdatedAt : {"noon"},
   ttl : {"60000"}]
Statuses(s) == {snapshot \in Snapshots : snapshot.status \in s}

(* task_augmented_call *)
Accept ==
  /\ stage = "accepting"
  /\ \E s \in Statuses({"working"}) :
       wire' = Message("result", "task created", Write(L!Types!CreateTaskResult, L!ToCreateTask(s)))
  /\ stage' = "polling"
  /\ UNCHANGED <<setup, known, session, call, heard, dialog, reply, got>>

(* One round of drive_legacy_task; the time a task may live bounds it.      *)
Poll ==
  /\ stage = "polling"
  /\ LET task   == IF wire.method = "task created" THEN wire.body.fields["task"] ELSE wire.body
         status == task.fields["status"].of
         about(method) ==
           Message("request", method, VersionedRequest(Obj([taskId |-> task.fields["taskId"]])))
     IN \/ /\ status \in {"completed", "failed"}
           /\ wire' = about("tasks/result") /\ stage' = "polled" /\ UNCHANGED got
        \/ /\ status \notin {"completed", "failed", "cancelled"}
           /\ wire' = about("tasks/get") /\ stage' = "polled" /\ UNCHANGED got
        \/ /\ status = "cancelled"
           /\ got' = [is |-> "cancelled"] /\ stage' = "done" /\ UNCHANGED wire
        \/ /\ status \notin {"completed", "failed", "cancelled"}
           /\ got' = [is |-> "timed out"] /\ stage' = "done" /\ UNCHANGED wire
  /\ UNCHANGED <<setup, known, session, call, heard, dialog, reply>>

(* handle_tasks_method: tasks/get *)
Report ==
  /\ stage = "polled" /\ wire.method = "tasks/get" /\ ParseTaskId(wire.body) # Refused
  /\ \E s \in Snapshots :
       wire' = Message("result", "tasks/get", Write(L!Types!GetTaskResult, L!ToTaskState(s)))
  /\ stage' = "polling"
  /\ UNCHANGED <<setup, known, session, call, heard, dialog, reply, got>>

(* tasks/result answers what the call would have answered: its value or its *)
(* error. *)
Deliver ==
  /\ stage = "polled" /\ wire.method = "tasks/result" /\ ParseTaskId(wire.body) # Refused
  /\ \/ \E r \in CallToolResults :
          /\ reply' = r /\ stage' = "replied" /\ UNCHANGED got
          /\ wire' = Message("result", "tools/call", Write(L!Types!CallToolResult, L!ToCallTool(r)))
     \/ /\ got' = [is |-> "failed"] /\ stage' = "done"
        /\ UNCHANGED <<reply, wire>>
  /\ UNCHANGED <<setup, known, session, call, heard, dialog>>

(* A request without a typed method answers {}, or tasks. *)
Acknowledge ==
  /\ stage = "serving" /\ call.method \in Plain
  /\ \E s \in Statuses({"working"}), c \in Statuses({"cancelled"}) :
       wire' = Message("result", call.method,
                       CASE call.method = "tasks/list" ->
                              Write(L!Types!ListTasksResult, L!ToListTasks(<<s>>))
                         [] call.method = "tasks/cancel" ->
                              Write(L!Types!CancelTaskResult, L!ToTaskState(c))
                         [] OTHER -> Obj(EmptyMap))
  /\ got' = [is |-> "acknowledged"] /\ stage' = "done"
  /\ UNCHANGED <<setup, known, session, call, heard, dialog, reply>>

-----------------------------------------------------------------------------
(* Notifications of the server, each a message of its own. *)

ListChanged == {"notifications/tools/list_changed", "notifications/resources/list_changed",
                "notifications/prompts/list_changed"}

(* ProgressReporter::report and LogSender::log_with *)
RequestNotifications ==
  {Message("notification", "notifications/progress",
           Obj([progressToken |-> Token("p1"), progress |-> Token("1")]
               @@ Optional("total", total) @@ Optional("message", text))) :
     total \in {None, Some("2")}, text \in {None, Some("half")}}
  \union {Message("notification", "notifications/message",
                  Obj([level |-> Token("warning"), data |-> data] @@ Optional("logger", logger))) :
            data \in {Token("text"), Obj([x |-> Token("1")])}, logger \in {None, Some("db")}}

(* subscription_notification, the acknowledgement of subscriptions/listen   *)
(* and the result that ends it; deliver_legacy has no params or the uri.    *)
ListenMeta == [_meta |-> Obj("io.modelcontextprotocol/subscriptionId" :> Token("7"))]
AgreedFilter ==
  Write(D!Types!SubscriptionFilter,
        [promptsListChanged |-> None, resourcesListChanged |-> Some(TRUE),
         toolsListChanged |-> Some(TRUE), resourceSubscriptions |-> <<"file:a">>])
Updated == [uri |-> Token("file:a")]
ChangeNotifications ==
  IF IsDraft
  THEN {Message("notification", m, Obj(ListenMeta)) : m \in ListChanged}
       \union {Message("notification", "notifications/resources/updated", Obj(Updated @@ ListenMeta)),
               Message("notification", "notifications/subscriptions/acknowledged",
                       Obj([notifications |-> AgreedFilter] @@ ListenMeta)),
               Message("result", "subscriptions/listen",
                       Obj([resultType |-> Token("complete")] @@ ListenMeta))}
  ELSE {Message("notification", m, JsonNull) : m \in ListChanged}
       \union {Message("notification", "notifications/resources/updated", Obj(Updated))}

Publish ==
  /\ stage = "idle"
  /\ wire' \in RequestNotifications \union ChangeNotifications
  /\ stage' = "done"
  /\ UNCHANGED <<setup, known, session, call, heard, dialog, reply, got>>

(* The application makes another request. *)
Finish ==
  /\ stage = "done"
  /\ stage' = "idle" /\ call' = Nothing /\ wire' = Silence /\ heard' = Nothing
  /\ question' = Nothing /\ shown' = Nothing /\ outcome' = Nothing /\ told' = Nothing
  /\ reply' = Nothing /\ got' = Nothing
  /\ UNCHANGED <<setup, known, session>>

-----------------------------------------------------------------------------
Init ==
  /\ version \in {Draft, Legacy}
  /\ features \in FeatureSets
  /\ declared \in CapabilitySets
  /\ known = Nothing /\ session = Nothing
  /\ stage = "start" /\ call = Nothing /\ wire = Silence /\ heard = Nothing
  /\ question = Nothing /\ shown = Nothing /\ outcome = Nothing /\ told = Nothing
  /\ reply = Nothing /\ got = Nothing

Next ==
  \/ Greet \/ Discover \/ Initialize \/ Join
  \/ \E m \in Methods \union Plain : Call(m)
  \/ Serve \/ MethodNotFound \/ Refuse
  \/ Ask \/ Fill \/ Hear
  \/ Answer \/ Receive
  \/ Accept \/ Poll \/ Report \/ Deliver \/ Acknowledge
  \/ Publish \/ Finish

Spec == Init /\ [][Next]_vars

-----------------------------------------------------------------------------
(* Properties. *)

Stages == {"start", "greeting", "welcome", "unwelcome", "idle", "called", "refusing", "serving",
           "asked", "answered", "replied", "accepting", "polling", "polled", "done"}

(* Type invariant: the stages of the conversation, and what each side keeps. *)
TypeOK ==
  /\ version \in {Draft, Legacy} /\ features \in FeatureSets /\ declared \in CapabilitySets
  /\ stage \in Stages
  /\ wire.role \in {"none", "request", "result", "notification", "error"}
  /\ known = Nothing <=> stage \in {"start", "greeting", "welcome", "unwelcome"}
  /\ session # Nothing => ~IsDraft
  /\ reply # Nothing => call.method \in Methods

(* What is meant to survive: what a handler returned, but for what the       *)
(* version has no place for.  The draft has no task support and always says  *)
(* how long a result may be cached; the legacy version says nothing of       *)
(* caching, skips an empty object of structured content and has no other     *)
(* kind of it, and fills in the task support when tasks are on.  A schema    *)
(* that the version's type cannot hold becomes the schema of any object, or  *)
(* none.  An audio block arrives as an image (the types are untagged and an  *)
(* image is tried first).                                                    *)
KeptContent(c) ==
  CASE c.variant = "Audio" -> [c EXCEPT !.variant = "Image"]
    [] c.variant = "ResourceLink" ->
         [c EXCEPT !.value.size = IF @ = None \/ @[1] <= MaxI64 THEN @ ELSE Some(MaxI64)]
    [] OTHER -> c

IsStruct(schema) ==
  LET properties == schema.fields["properties"]
  IN /\ Has(schema, "type")
     /\ Has(schema, "properties") =>
          IsObject(properties) /\ \A k \in DOMAIN properties.fields : IsObject(properties.fields[k])
KeptSchema(schema) ==
  Obj([k \in {k \in DOMAIN schema.fields : ~(~IsDraft /\ k = "properties" /\ IsEmpty(schema.fields[k].fields))}
         |-> schema.fields[k]])
KeptTool(others, t) ==
  LET advertised == IF \E o \in others : o.taskSupport # None THEN "forbidden" ELSE "optional"
      holds(schema) == IF IsDraft THEN Has(schema, "type") ELSE IsStruct(schema)
      output == IF t.outputSchema # None /\ (IsDraft \/ IsStruct(t.outputSchema[1]))
                THEN Some(KeptSchema(t.outputSchema[1])) ELSE None
  IN [t EXCEPT !.inputSchema = IF holds(@) THEN KeptSchema(@) ELSE SomeSchema,
               !.outputSchema = output,
               !.taskSupport = CASE IsDraft -> None
                                 [] ~IsDraft /\ TasksOn /\ @ = None -> Some(advertised)
                                 [] OTHER -> @]
KeptResource(r) == [variant |-> "ResourceLink", value |-> r]
KeptCache(cache) == IF IsDraft THEN Some(OrElse(cache, DefaultPolicy)) ELSE None
KeptItems(r) ==
  CASE call.method = "tools/list" ->
         [r EXCEPT !.tools = Each(LAMBDA t : KeptTool({r.tools[i] : i \in DOMAIN r.tools}, t), @)]
    [] call.method = "resources/list" ->
         [r EXCEPT !.resources = Each(LAMBDA x : KeptContent(KeptResource(x)).value, @)]
    [] call.method = "tools/call" ->
         [r EXCEPT !.content = Each(KeptContent, @),
                   !.structuredContent =
                     IF IsDraft \/ @ = None \/ (IsObject(@[1]) /\ ~IsEmpty(@[1].fields)) THEN @ ELSE None]
    [] call.method = "prompts/get" ->
         [r EXCEPT !.messages = Each(LAMBDA m : [m EXCEPT !.content = KeptContent(@)], @)]
    [] OTHER -> r
Kept(r) == IF call.method \in Cacheable
           THEN [KeptItems(r) EXCEPT !.cache = KeptCache(@)] ELSE KeptItems(r)

(* What a handler returns is what the application gets, over the version's   *)
(* types, the serialization and back, and through a task (From<neutral> and  *)
(* From<draft / legacy> of neutral.rs, finish, settle_tool_call, decode).    *)
ResultsArrive == stage = "done" /\ reply # Nothing => got = Kept(reply)

(* What an application asks with: the arguments of a prompt are strings and  *)
(* a completion names what its reference is of. *)
WellFormed(method, a) ==
  /\ method = "prompts/get" => \A k \in DOMAIN a.arguments : a.arguments[k].json = "token"
  /\ method = "completion/complete" =>
       \/ a.ref.type = "ref/prompt" /\ "name" \in DOMAIN a.ref
       \/ a.ref.type = "ref/resource" /\ "uri" \in DOMAIN a.ref
Meant(method, a) ==
  CASE method = "tools/call" -> [name |-> a.name, arguments |-> a.arguments]
    [] method = "prompts/get" ->
         [name |-> a.name, arguments |-> [k \in DOMAIN a.arguments |-> a.arguments[k].of]]
    [] method = "completion/complete" ->
         [reference |-> IF a.ref.type = "ref/prompt"
                        THEN [variant |-> "Prompt", value |-> [name |-> a.ref.name]]
                        ELSE [variant |-> "ResourceTemplate", value |-> [uri |-> a.ref.uri]],
          argument |-> a.argument, contextArguments |-> EmptyMap]
    [] OTHER -> a

(* A handler is given what the application asked and is told who asks; what  *)
(* is refused was not a request of the protocol (params.rs, build_context,   *)
(* legacy_context, versioned_request). *)
RequestsArrive ==
  /\ stage \in {"serving", "accepting", "replied"} =>
       /\ heard.params = Meant(call.method, call.asked)
       /\ heard.context.info = ClientInfo
  /\ stage = "refusing" => \/ ~WellFormed(call.method, call.asked)
                           \/ call.method \in TaskMethods /\ ~TasksOn

(* Every message the program builds, many of them by hand as JSON, is one    *)
(* the schema of the negotiated version accepts (the generated type reads    *)
(* it): request parameters with their `_meta', results, requests of the      *)
(* server packaged or sent inline, and notifications. *)
MessageType ==
  CASE wire.role = "request" ->
         IF IsDraft THEN D!RequestType(wire.method) ELSE L!RequestType(wire.method)
    [] wire.role = "result" ->
         IF IsDraft THEN D!ResultType(wire.method) ELSE L!ResultType(wire.method)
    [] wire.role = "notification" ->
         IF IsDraft THEN D!NotificationType(wire.method) ELSE L!NotificationType(wire.method)
MessageConforms ==
  /\ wire.role \in {"request", "result", "notification"}
  /\ Readable(L!Types!ClientCapabilities, declared)
  /\ wire.role = "request" /\ call # Nothing => WellFormed(call.method, call.asked)
  /\ wire.body # JsonNull
  /\ ~(wire.role = "request" /\ wire.method = "roots/list")
  /\ ~(wire.role = "result" /\ wire.method \in {"resources/subscribe", "resources/unsubscribe",
                                               "logging/setLevel"})
  => Readable(MessageType, wire.body)

(* Whatever is sent conforms, at every stage of a conversation. *)
MessagesConform == TypeOK /\ MessageConforms

(* A form reaches the user as the handler put it, on both versions, and the  *)
(* handler learns what the user did: the content only of what was accepted   *)
(* (elicit_request_value, parse_elicit_params, elicit_outcome_value,         *)
(* parse_elicit_outcome, mrtr_request). *)
FormsArrive ==
  told # Nothing /\ told # Undeclared =>
    IF question.method = "roots/list" THEN told = NoRoots
    ELSE /\ told = [action |-> outcome.action,
                    content |-> IF outcome.action = "accept" THEN outcome.content ELSE EmptyMap]
         /\ shown.message = question.params.message
         /\ question.params.mode = "form" =>
              shown.requestedSchema = question.params.requestedSchema

(* Whoever is asked, a handler or a user, is asked what was meant.  *)
AskedArrives == RequestsArrive /\ FormsArrive

(* The client learns the same of a server on either version: its identity,   *)
(* its instructions, and a capability for each thing that is registered and  *)
(* no other (build_discover_result, handle_initialize, Handshake). *)
Advertised ==
  (features \intersect {"tools", "resources", "prompts", "completions", "logging"})
  \union IF IsDraft THEN IF IsEmpty(Extensions) THEN {} ELSE {"extensions"}
         ELSE features \intersect {"tasks"}
HandshakeAgrees ==
  known # Nothing => /\ known.info = Some(ServerInfo)
                     /\ known.instructions = Instructions
                     /\ DOMAIN known.capabilities.fields = Advertised

(* The client is asked for what it declared in the handshake and for nothing *)
(* else, on either version: the session does not lose a marker that is only  *)
(* present, and the draft says it again with every request                   *)
(* (require_capability). *)
DeclaredIsGated ==
  question # Nothing => (told = Undeclared <=> ~Has(declared, question.capability))

(* What each side says of itself in the handshake is what the other acts on. *)
PeersAgree == HandshakeAgrees /\ DeclaredIsGated

(* Content is fully modeled by both versions' types: what a handler sends as *)
(* audio, the application gets as audio. *)
AudioArrives ==
  stage = "done" /\ reply # Nothing /\ call.method = "tools/call" =>
    \A i \in DOMAIN reply.content :
      reply.content[i].variant = "Audio" => got.content[i].variant = "Audio"
=============================================================================
