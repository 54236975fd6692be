---------------------------- MODULE LegacyWire -----------------------------
(***************************************************************************)
(* Neutral values as the types of protocol version 2025-11-25, and back    *)
(* (the From implementations of turbomcp-protocol/src/neutral.rs).  The    *)
(* results of this version have no caching envelope, a `_meta' is a plain  *)
(* map, structured content is an object, and a tool says how it supports   *)
(* tasks.                                                                  *)
(***************************************************************************)
EXTENDS Neutral

Types == INSTANCE LegacyTypes

(* serde_json::from_value(v).ok(), then to_value. *)
ReadAs(type, json) ==
  IF Readable(type, json) THEN Some(Parsed(type, json)) ELSE None

(* Neutral to wire. *)

ToAnnotations(a) ==
  [audience |-> a.audience, lastModified |-> a.lastModified, priority |-> a.priority]

ToIcon(i) == [mimeType |-> i.mimeType, sizes |-> i.sizes, src |-> i.src, theme |-> i.theme]

ToResource(r) ==
  [annotations |-> Each(ToAnnotations, r.annotations), description |-> r.description,
   icons |-> Each(ToIcon, r.icons), _meta |-> r._meta, mimeType |-> r.mimeType,
   name |-> r.name, title |-> r.title, uri |-> r.uri,
   size |-> Each(LAMBDA n : IF n <= MaxI64 THEN n ELSE MaxI64, r.size)]

ToContents(c) ==
  LET shared == [_meta |-> c.value._meta, mimeType |-> c.value.mimeType,
                 uri |-> c.value.uri]
  IN CASE c.variant = "Text" -> [variant |-> "TextResourceContents",
                                 value |-> [text |-> c.value.body] @@ shared]
       [] c.variant = "Blob" -> [variant |-> "BlobResourceContents",
                                 value |-> [blob |-> c.value.body] @@ shared]

ToEmbeddedContents(c) == ToContents(c)

ToContentBlock(c) ==
  LET v == c.value
      shared == [annotations |-> Each(ToAnnotations, v.annotations), _meta |-> v._meta]
      media  == [data |-> v.data, mimeType |-> v.mimeType] @@ shared
  IN CASE c.variant = "Text" ->
            [variant |-> "TextContent", value |-> [text |-> v.text, type |-> "text"] @@ shared]
       [] c.variant = "Image" ->
            [variant |-> "ImageContent", value |-> [type |-> "image"] @@ media]
       [] c.variant = "Audio" ->
            [variant |-> "AudioContent", value |-> [type |-> "audio"] @@ media]
       [] c.variant = "Resource" ->
            [variant |-> "EmbeddedResource",
             value |-> [resource |-> ToEmbeddedContents(v.resource), type |-> "resource"] @@ shared]
       [] c.variant = "ResourceLink" ->
            [variant |-> "ResourceLink", value |-> [type |-> "resource_link"] @@ ToResource(v)]

ToToolAnnotations(a) ==
  [destructiveHint |-> a.destructiveHint, idempotentHint |-> a.idempotentHint,
   openWorldHint |-> a.openWorldHint, readOnlyHint |-> a.readOnlyHint, title |-> a.title]

ToTool(t) ==
  LET fallback == "$schema" :> None @@ [type |-> "object", properties |-> EmptyMap,
                                        required |-> <<>>, extra |-> EmptyMap]
      ReadSchema(j) == ReadAs(Types!ToolOutputSchema, j)
  IN [annotations |-> Each(ToToolAnnotations, t.annotations), description |-> t.description,
      icons |-> Each(ToIcon, t.icons), _meta |-> t._meta, name |-> t.name,
      inputSchema |-> OrElse(ReadAs(Types!ToolInputSchema, t.inputSchema), fallback),
      outputSchema |-> IF t.outputSchema = None THEN None ELSE ReadSchema(t.outputSchema[1]),
      execution |-> Each(LAMBDA s : [taskSupport |-> Some(s)], t.taskSupport),
      title |-> t.title]

ToListTools(r) ==
  [nextCursor |-> r.nextCursor, tools |-> Each(ToTool, r.tools),
   _meta |-> EmptyMap]

ToCallTool(r) ==
  [content |-> Each(ToContentBlock, r.content), isError |-> Some(r.isError),
   structuredContent |-> IF r.structuredContent # None /\ IsObject(r.structuredContent[1])
                         THEN r.structuredContent[1].fields ELSE EmptyMap,
   _meta |-> EmptyMap]

ToListResources(r) ==
  [nextCursor |-> r.nextCursor, resources |-> Each(ToResource, r.resources),
   _meta |-> EmptyMap]

ToReadResource(r) == [contents |-> Each(ToContents, r.contents),
   _meta |-> EmptyMap]

ToResourceTemplate(t) ==
  [annotations |-> Each(ToAnnotations, t.annotations), description |-> t.description,
   icons |-> Each(ToIcon, t.icons), _meta |-> t._meta, mimeType |-> t.mimeType,
   name |-> t.name, title |-> t.title, uriTemplate |-> t.uriTemplate]

ToListResourceTemplates(r) ==
  [nextCursor |-> r.nextCursor, resourceTemplates |-> Each(ToResourceTemplate, r.resourceTemplates),
   _meta |-> EmptyMap]

ToPromptArgument(a) ==
  [description |-> a.description, name |-> a.name, required |-> Some(a.required), title |-> a.title]

ToPrompt(p) ==
  [arguments |-> Each(ToPromptArgument, p.arguments), description |-> p.description,
   icons |-> Each(ToIcon, p.icons), _meta |-> p._meta, name |-> p.name, title |-> p.title]

ToListPrompts(r) ==
  [nextCursor |-> r.nextCursor, prompts |-> Each(ToPrompt, r.prompts),
   _meta |-> EmptyMap]

ToPromptMessage(m) == [content |-> ToContentBlock(m.content), role |-> m.role]

ToGetPrompt(r) ==
  [description |-> r.description, messages |-> Each(ToPromptMessage, r.messages), _meta |-> EmptyMap]

ToComplete(r) ==
  [completion |-> [hasMore |-> r.hasMore, total |-> r.total, values |-> r.values], _meta |-> EmptyMap]

(* Wire to neutral. *)

OfAnnotations(a) ==
  [audience |-> a.audience, priority |-> a.priority, lastModified |-> a.lastModified]

OfIcon(i) == [src |-> i.src, mimeType |-> i.mimeType, sizes |-> i.sizes, theme |-> i.theme]

OfResource(r) ==
  [uri |-> r.uri, name |-> r.name, title |-> r.title, description |-> r.description,
   mimeType |-> r.mimeType, annotations |-> Each(OfAnnotations, r.annotations),
   icons |-> Each(OfIcon, r.icons), _meta |-> r._meta,
   size |-> Each(LAMBDA n : IF n >= 0 THEN n ELSE 0, r.size)]

OfResourceLink(l) == OfResource(l)

OfContents(c) ==
  LET shared == [uri |-> c.value.uri, mimeType |-> c.value.mimeType,
                 _meta |-> c.value._meta]
  IN CASE c.variant = "TextResourceContents" ->
            [variant |-> "Text", value |-> [body |-> c.value.text] @@ shared]
       [] c.variant = "BlobResourceContents" ->
            [variant |-> "Blob", value |-> [body |-> c.value.blob] @@ shared]

OfEmbeddedContents(c) == OfContents(c)

OfContentBlock(b) ==
  LET v == b.value
      shared == [annotations |-> Each(OfAnnotations, v.annotations), _meta |-> v._meta]
      media  == [data |-> v.data, mimeType |-> v.mimeType] @@ shared
  IN CASE b.variant = "TextContent"  -> [variant |-> "Text", value |-> [text |-> v.text] @@ shared]
       [] b.variant = "ImageContent" -> [variant |-> "Image", value |-> media]
       [] b.variant = "AudioContent" -> [variant |-> "Audio", value |-> media]
       [] b.variant = "EmbeddedResource" ->
            [variant |-> "Resource", value |-> [resource |-> OfEmbeddedContents(v.resource)] @@ shared]
       [] b.variant = "ResourceLink" -> [variant |-> "ResourceLink", value |-> OfResourceLink(v)]

OfToolAnnotations(a) ==
  [title |-> a.title, readOnlyHint |-> a.readOnlyHint, destructiveHint |-> a.destructiveHint,
   idempotentHint |-> a.idempotentHint, openWorldHint |-> a.openWorldHint]

OfTool(t) ==
  [name |-> t.name, title |-> t.title, description |-> t.description,
   inputSchema |-> Write(Types!ToolInputSchema, t.inputSchema),
   outputSchema |-> Each(LAMBDA s : Write(Types!ToolOutputSchema, s), t.outputSchema),
   taskSupport |-> IF t.execution = None THEN None ELSE t.execution[1].taskSupport,
   annotations |-> Each(OfToolAnnotations, t.annotations),
   icons |-> Each(OfIcon, t.icons), _meta |-> t._meta]

OfListTools(r) ==
  [tools |-> Each(OfTool, r.tools), nextCursor |-> r.nextCursor, cache |-> None]

OfCallTool(r) ==
  [content |-> Each(OfContentBlock, r.content), isError |-> OrElse(r.isError, FALSE),
   structuredContent |-> IF IsEmpty(r.structuredContent) THEN None
                         ELSE Some(Obj(r.structuredContent))]

OfListResources(r) ==
  [resources |-> Each(OfResource, r.resources), nextCursor |-> r.nextCursor, cache |-> None]

OfReadResource(r) == [contents |-> Each(OfContents, r.contents), cache |-> None]

OfResourceTemplate(t) ==
  [uriTemplate |-> t.uriTemplate, name |-> t.name, title |-> t.title,
   description |-> t.description, mimeType |-> t.mimeType,
   annotations |-> Each(OfAnnotations, t.annotations), icons |-> Each(OfIcon, t.icons),
   _meta |-> t._meta]

OfListResourceTemplates(r) ==
  [resourceTemplates |-> Each(OfResourceTemplate, r.resourceTemplates),
   nextCursor |-> r.nextCursor, cache |-> None]

OfPromptArgument(a) ==
  [name |-> a.name, title |-> a.title, description |-> a.description,
   required |-> OrElse(a.required, FALSE)]

OfPrompt(p) ==
  [name |-> p.name, title |-> p.title, description |-> p.description,
   arguments |-> Each(OfPromptArgument, p.arguments), icons |-> Each(OfIcon, p.icons),
   _meta |-> p._meta]

OfListPrompts(r) ==
  [prompts |-> Each(OfPrompt, r.prompts), nextCursor |-> r.nextCursor, cache |-> None]

OfPromptMessage(m) == [role |-> m.role, content |-> OfContentBlock(m.content)]

OfGetPrompt(r) ==
  [description |-> r.description, messages |-> Each(OfPromptMessage, r.messages)]

OfComplete(r) ==
  LET clamp(n) == IF n \in 0..MaxU32 THEN n ELSE MaxU32
  IN [values |-> r.completion.values, total |-> Each(clamp, r.completion.total),
      hasMore |-> r.completion.hasMore]

(* tools/list with tasks enabled: the support no tool declares is forbidden *)
(* beside one that is declared, and optional otherwise.                     *)
WithTaskSupport(r) ==
  LET Declared(t)  == t.execution # None /\ t.execution[1].taskSupport # None
      default      == IF \E i \in DOMAIN r.tools : Declared(r.tools[i])
                      THEN "forbidden" ELSE "optional"
      Patched(t)   == IF Declared(t) THEN t
                      ELSE [t EXCEPT !.execution = Some([taskSupport |-> Some(default)])]
  IN [r EXCEPT !.tools = Each(Patched, @)]

(* The handshake: the presence markers are patched in after serialization,  *)
(* because the generated types skip an empty map. *)

ToImplementation(i) ==
  [description |-> None, icons |-> <<>>, name |-> i.name, title |-> i.title,
   version |-> i.version, websiteUrl |-> None]

OfImplementation(i) == [name |-> i.name, version |-> i.version, title |-> i.title]

Capabilities(features) ==
  LET Offered(f, settings) == IF f \in features THEN Some(settings) ELSE None
      changes == [listChanged |-> Some(TRUE)]
  IN [completions |-> EmptyMap, experimental |-> EmptyMap, logging |-> EmptyMap,
      prompts |-> Offered("prompts", changes), tasks |-> None,
      tools |-> Offered("tools", changes),
      resources |-> Offered("resources", [subscribe |-> Some(TRUE)] @@ changes)]

NoMarkers(features) == EmptyMap
Markers(features) ==
  LET marker == Obj(EmptyMap)
      tasks  == Obj([list |-> marker, cancel |-> marker,
                     requests |-> Obj([tools |-> Obj([call |-> marker])])])
  IN [f \in features \intersect {"completions", "logging", "tasks"} |->
        IF f = "tasks" THEN tasks ELSE marker]

InitializeResponse(features, info, instructions) ==
  LET typed == [capabilities |-> Capabilities(features), instructions |-> instructions,
                _meta |-> EmptyMap, protocolVersion |-> "2025-11-25",
                serverInfo |-> ToImplementation(info)]
      written == Write(Types!InitializeResult, typed)
  IN Put(written, "capabilities", Obj(Markers(features) @@ written.fields["capabilities"].fields))

SkipsEmptyCapabilities(json) ==
  Obj([k \in {k \in DOMAIN json.fields : ~IsEmpty(json.fields[k].fields)} |-> json.fields[k]])
(* The client's capabilities as a session keeps them: read by their type and *)
(* written again. *)
SessionCapabilities(json) ==
  Write(Types!ClientCapabilities, Parsed(Types!ClientCapabilities, json))

(* Task snapshots as the answers to tasks/list, tasks/get and tasks/cancel. *)
ToTask(s) ==
  [createdAt |-> s.createdAt, lastUpdatedAt |-> s.lastUpdatedAt, pollInterval |-> Some("500"),
   status |-> s.status, statusMessage |-> s.statusMessage, taskId |-> s.taskId,
   ttl |-> Some(s.ttl)]
ToTaskState(s) == [_meta |-> EmptyMap, extra |-> EmptyMap] @@ ToTask(s)
ToCreateTask(s) == [_meta |-> EmptyMap, task |-> ToTask(s)]
ToListTasks(page) ==
  [_meta |-> EmptyMap, nextCursor |-> None, tasks |-> Each(ToTask, page)]

(* Which of them answers a method. *)

To(method, r) ==
  CASE method = "tools/list" -> ToListTools(r)
    [] method = "tools/call" -> ToCallTool(r)
    [] method = "resources/list" -> ToListResources(r)
    [] method = "resources/templates/list" -> ToListResourceTemplates(r)
    [] method = "resources/read" -> ToReadResource(r)
    [] method = "prompts/list" -> ToListPrompts(r)
    [] method = "prompts/get" -> ToGetPrompt(r)
    [] method = "completion/complete" -> ToComplete(r)

Of(method, r) ==
  CASE method = "tools/list" -> OfListTools(r)
    [] method = "tools/call" -> OfCallTool(r)
    [] method = "resources/list" -> OfListResources(r)
    [] method = "resources/templates/list" -> OfListResourceTemplates(r)
    [] method = "resources/read" -> OfReadResource(r)
    [] method = "prompts/list" -> OfListPrompts(r)
    [] method = "prompts/get" -> OfGetPrompt(r)
    [] method = "completion/complete" -> OfComplete(r)

(* What the schema of this version has the messages of a method look like. *)
ResultType(method) ==
  CASE method = "tools/list" -> Types!ListToolsResult
    [] method = "tools/call" -> Types!CallToolResult
    [] method = "resources/list" -> Types!ListResourcesResult
    [] method = "resources/templates/list" -> Types!ListResourceTemplatesResult
    [] method = "resources/read" -> Types!ReadResourceResult
    [] method = "prompts/list" -> Types!ListPromptsResult
    [] method = "prompts/get" -> Types!GetPromptResult
    [] method = "completion/complete" -> Types!CompleteResult
    [] method = "initialize" -> Types!InitializeResult
    [] method = "elicitation/create" -> Types!ElicitResult
    [] method = "roots/list" -> Types!ListRootsResult
    [] method = "task created" -> Types!CreateTaskResult
    [] method = "tasks/get" -> Types!GetTaskResult
    [] method = "tasks/cancel" -> Types!CancelTaskResult
    [] method = "tasks/list" -> Types!ListTasksResult

RequestType(method) ==
  CASE method \in Paginated \union {"tasks/list"} -> Types!PaginatedRequestParams
    [] method = "tools/call" -> Types!CallToolRequestParams
    [] method = "resources/read" -> Types!ReadResourceRequestParams
    [] method = "prompts/get" -> Types!GetPromptRequestParams
    [] method = "completion/complete" -> Types!CompleteRequestParams
    [] method = "initialize" -> Types!InitializeRequestParams
    [] method = "elicitation/create" -> Types!ElicitRequestParams
    [] method = "tasks/get" -> Types!GetTaskRequestParams
    [] method = "tasks/result" -> Types!GetTaskPayloadRequestParams
    [] method = "tasks/cancel" -> Types!CancelTaskRequestParams
    [] method = "resources/subscribe" -> Types!SubscribeRequestParams
    [] method = "resources/unsubscribe" -> Types!UnsubscribeRequestParams
    [] method = "logging/setLevel" -> Types!SetLevelRequestParams

NotificationType(method) ==
  CASE method = "notifications/progress" -> Types!ProgressNotificationParams
    [] method = "notifications/message" -> Types!LoggingMessageNotificationParams
    [] method = "notifications/resources/updated" -> Types!ResourceUpdatedNotificationParams
    [] OTHER -> Types!NotificationParams
=============================================================================
