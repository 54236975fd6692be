----------------------------- MODULE DraftWire -----------------------------
(***************************************************************************)
(* Neutral values as the types of protocol version 2026-07-28, and back    *)
(* (the From implementations of turbomcp-protocol/src/neutral.rs).  The    *)
(* results of this version carry resultType and, when they can be cached,  *)
(* cacheScope and ttlMs; a `_meta' is an Option.                           *)
(***************************************************************************)
EXTENDS Neutral

Types == INSTANCE DraftTypes

(* serde_json::from_value(v).ok(), then to_value. *)
ReadAs(type, json) ==
  IF Readable(type, json) THEN Some(Parsed(type, json)) ELSE None

(* Neutral to wire. *)

ToMeta(tags) == IF IsEmpty(tags) THEN None ELSE Some(tags)

ToAnnotations(a) ==
  [audience |-> a.audience, lastModified |-> a.lastModified, priority |-> a.priority]

ToIcon(i) == [mimeType |-> i.mimeType, sizes |-> i.sizes, src |-> i.src, theme |-> i.theme]

ToResource(r) ==
  [annotations |-> Each(ToAnnotations, r.annotations), description |-> r.description,
   icons |-> Each(ToIcon, r.icons), _meta |-> ToMeta(r._meta), mimeType |-> r.mimeType,
   name |-> r.name, title |-> r.title, uri |-> r.uri,
   size |-> Each(LAMBDA n : IF n <= MaxI64 THEN n ELSE MaxI64, r.size)]

ToContents(c) ==
  LET shared == [_meta |-> ToMeta(c.value._meta), mimeType |-> c.value.mimeType,
                 uri |-> c.value.uri]
  IN CASE c.variant = "Text" -> [variant |-> "TextResourceContents",
                                 value |-> [text |-> c.value.body] @@ shared]
       [] c.variant = "Blob" -> [variant |-> "BlobResourceContents",
                                 value |-> [blob |-> c.value.body] @@ shared]

ToEmbeddedContents(c) == ToContents(c)

ToContentBlock(c) ==
  LET v == c.value
      shared == [annotations |-> Each(ToAnnotations, v.annotations), _meta |-> ToMeta(v._meta)]
      media  == [data |-> v.data, mimeType |-> v.mimeType] @@ shared
  IN CASE c.variant = "Text" ->
            [variant |-> "TextContent", value |-> [text |-> v.text, type |-> "text"] @@ shared]
       [] c.variant = "Image" ->
            [variant |-> "ImageContent", value |-> [type |-> "image"] @@ media]
       [] c.variant = "Audio" ->
            [variant |-> "AudioContent", value |-> [type |-> "audio"] @@ media]
       [] c.variant = "Resource" ->
            [variant |-> "EmbeddedResource",
             value |-> [resource |-> ToEmbeddedContents(v.resource), type |-> "resource"] @@ shared]
       [] c.variant = "ResourceLink" ->
            [variant |-> "ResourceLink", value |-> [type |-> "resource_link"] @@ ToResource(v)]

ToToolAnnotations(a) ==
  [destructiveHint |-> a.destructiveHint, idempotentHint |-> a.idempotentHint,
   openWorldHint |-> a.openWorldHint, readOnlyHint |-> a.readOnlyHint, title |-> a.title]

ToTool(t) ==
  LET fallback == "$schema" :> None @@ [type |-> "object", extra |-> EmptyMap]
      ReadSchema(j) == ReadAs(Types!ToolOutputSchema, j)
  IN [annotations |-> Each(ToToolAnnotations, t.annotations), description |-> t.description,
      icons |-> Each(ToIcon, t.icons), _meta |-> ToMeta(t._meta), name |-> t.name,
      inputSchema |-> OrElse(ReadAs(Types!ToolInputSchema, t.inputSchema), fallback),
      outputSchema |-> IF t.outputSchema = None THEN None ELSE ReadSchema(t.outputSchema[1]),
      title |-> t.title]

(* The caching envelope, and the fields every result starts with. *)
Envelope(cache) ==
  LET c == OrElse(cache, NoCache) IN [cacheScope |-> c.scope, ttlMs |-> c.ttlMs]
Complete == [_meta |-> None, resultType |-> "complete"]

ToListTools(r) ==
  [nextCursor |-> r.nextCursor, tools |-> Each(ToTool, r.tools)] @@ Envelope(r.cache) @@ Complete

ToCallTool(r) ==
  [content |-> Each(ToContentBlock, r.content), isError |-> Some(r.isError),
   structuredContent |-> r.structuredContent] @@ Complete

ToListResources(r) ==
  [nextCursor |-> r.nextCursor, resources |-> Each(ToResource, r.resources)]
  @@ Envelope(r.cache) @@ Complete

ToReadResource(r) == [contents |-> Each(ToContents, r.contents)] @@ Envelope(r.cache) @@ Complete

ToResourceTemplate(t) ==
  [annotations |-> Each(ToAnnotations, t.annotations), description |-> t.description,
   icons |-> Each(ToIcon, t.icons), _meta |-> ToMeta(t._meta), mimeType |-> t.mimeType,
   name |-> t.name, title |-> t.title, uriTemplate |-> t.uriTemplate]

ToListResourceTemplates(r) ==
  [nextCursor |-> r.nextCursor, resourceTemplates |-> Each(ToResourceTemplate, r.resourceTemplates)]
  @@ Envelope(r.cache) @@ Complete

ToPromptArgument(a) ==
  [description |-> a.description, name |-> a.name, required |-> Some(a.required), title |-> a.title]

ToPrompt(p) ==
  [arguments |-> Each(ToPromptArgument, p.arguments), description |-> p.description,
   icons |-> Each(ToIcon, p.icons), _meta |-> ToMeta(p._meta), name |-> p.name, title |-> p.title]

ToListPrompts(r) ==
  [nextCursor |-> r.nextCursor, prompts |-> Each(ToPrompt, r.prompts)]
  @@ Envelope(r.cache) @@ Complete

ToPromptMessage(m) == [content |-> ToContentBlock(m.content), role |-> m.role]

ToGetPrompt(r) ==
  [description |-> r.description, messages |-> Each(ToPromptMessage, r.messages)] @@ Complete

ToComplete(r) ==
  [completion |-> [hasMore |-> r.hasMore, total |-> r.total, values |-> r.values]] @@ Complete

(* Wire to neutral. *)

OfMetaDropped(tags) == EmptyMap
OfMeta(tags) == OrElse(tags, EmptyMap)

OfAnnotations(a) ==
  [audience |-> a.audience, priority |-> a.priority, lastModified |-> a.lastModified]

OfIcon(i) == [src |-> i.src, mimeType |-> i.mimeType, sizes |-> i.sizes, theme |-> i.theme]

OfResource(r) ==
  [uri |-> r.uri, name |-> r.name, title |-> r.title, description |-> r.description,
   mimeType |-> r.mimeType, annotations |-> Each(OfAnnotations, r.annotations),
   icons |-> Each(OfIcon, r.icons), _meta |-> OfMeta(r._meta),
   size |-> Each(LAMBDA n : IF n >= 0 THEN n ELSE 0, r.size)]

OfResourceLink(l) == OfResource(l)

OfContents(c) ==
  LET shared == [uri |-> c.value.uri, mimeType |-> c.value.mimeType,
                 _meta |-> OfMeta(c.value._meta)]
  IN CASE c.variant = "TextResourceContents" ->
            [variant |-> "Text", value |-> [body |-> c.value.text] @@ shared]
       [] c.variant = "BlobResourceContents" ->
            [variant |-> "Blob", value |-> [body |-> c.value.blob] @@ shared]

OfEmbeddedContents(c) == OfContents(c)

OfContentBlock(b) ==
  LET v == b.value
      shared == [annotations |-> Each(OfAnnotations, v.annotations), _meta |-> OfMeta(v._meta)]
      media  == [data |-> v.data, mimeType |-> v.mimeType] @@ shared
  IN CASE b.variant = "TextContent"  -> [variant |-> "Text", value |-> [text |-> v.text] @@ shared]
       [] b.variant = "ImageContent" -> [variant |-> "Image", value |-> media]
       [] b.variant = "AudioContent" -> [variant |-> "Audio", value |-> media]
       [] b.variant = "EmbeddedResource" ->
            [variant |-> "Resource", value |-> [resource |-> OfEmbeddedContents(v.resource)] @@ shared]
       [] b.variant = "ResourceLink" -> [variant |-> "ResourceLink", value |-> OfResourceLink(v)]

OfToolAnnotations(a) ==
  [title |-> a.title, readOnlyHint |-> a.readOnlyHint, destructiveHint |-> a.destructiveHint,
   idempotentHint |-> a.idempotentHint, openWorldHint |-> a.openWorldHint]

OfTool(t) ==
  [name |-> t.name, title |-> t.title, description |-> t.description,
   inputSchema |-> Write(Types!ToolInputSchema, t.inputSchema),
   outputSchema |-> Each(LAMBDA s : Write(Types!ToolOutputSchema, s), t.outputSchema),
   taskSupport |-> None, annotations |-> Each(OfToolAnnotations, t.annotations),
   icons |-> Each(OfIcon, t.icons), _meta |-> OfMeta(t._meta)]

OfEnvelope(r) == Some([ttlMs |-> r.ttlMs, scope |-> r.cacheScope])

OfListTools(r) ==
  [tools |-> Each(OfTool, r.tools), nextCursor |-> r.nextCursor, cache |-> OfEnvelope(r)]

OfCallTool(r) ==
  [content |-> Each(OfContentBlock, r.content), isError |-> OrElse(r.isError, FALSE),
   structuredContent |-> r.structuredContent]

OfListResources(r) ==
  [resources |-> Each(OfResource, r.resources), nextCursor |-> r.nextCursor, cache |-> OfEnvelope(r)]

OfReadResource(r) == [contents |-> Each(OfContents, r.contents), cache |-> OfEnvelope(r)]

OfResourceTemplate(t) ==
  [uriTemplate |-> t.uriTemplate, name |-> t.name, title |-> t.title,
   description |-> t.description, mimeType |-> t.mimeType,
   annotations |-> Each(OfAnnotations, t.annotations), icons |-> Each(OfIcon, t.icons),
   _meta |-> OfMeta(t._meta)]

OfListResourceTemplates(r) ==
  [resourceTemplates |-> Each(OfResourceTemplate, r.resourceTemplates),
   nextCursor |-> r.nextCursor, cache |-> OfEnvelope(r)]

OfPromptArgument(a) ==
  [name |-> a.name, title |-> a.title, description |-> a.description,
   required |-> OrElse(a.required, FALSE)]

OfPrompt(p) ==
  [name |-> p.name, title |-> p.title, description |-> p.description,
   arguments |-> Each(OfPromptArgument, p.arguments), icons |-> Each(OfIcon, p.icons),
   _meta |-> OfMeta(p._meta)]

OfListPrompts(r) ==
  [prompts |-> Each(OfPrompt, r.prompts), nextCursor |-> r.nextCursor, cache |-> OfEnvelope(r)]

OfPromptMessage(m) == [role |-> m.role, content |-> OfContentBlock(m.content)]

OfGetPrompt(r) ==
  [description |-> r.description, messages |-> Each(OfPromptMessage, r.messages)]

OfComplete(r) ==
  LET clamp(n) == IF n \in 0..MaxU32 THEN n ELSE MaxU32
  IN [values |-> r.completion.values, total |-> Each(clamp, r.completion.total),
      hasMore |-> r.completion.hasMore]

(* The handshake: the capabilities of the registered features, the answer   *)
(* to server/discover with each extension's settings patched in, and the   *)
(* server's identity that every result carries in its `_meta'. *)

ToImplementation(i) ==
  [description |-> None, icons |-> <<>>, name |-> i.name, title |-> i.title,
   version |-> i.version, websiteUrl |-> None]

Capabilities(features) ==
  LET Offered(f, settings) == IF f \in features THEN Some(settings) ELSE None
      changes == [listChanged |-> Some(TRUE)]
  IN [completions |-> Offered("completions", EmptyMap), experimental |-> EmptyMap,
      extensions |-> EmptyMap, logging |-> Offered("logging", EmptyMap),
      prompts |-> Offered("prompts", changes), tools |-> Offered("tools", changes),
      resources |-> Offered("resources", [subscribe |-> Some(TRUE)] @@ changes)]

DiscoverResult(features, info, instructions, policy) ==
  [capabilities |-> Capabilities(features), instructions |-> instructions,
   _meta |-> Some("io.modelcontextprotocol/serverInfo" :> Some(ToImplementation(info))
                  @@ [extra |-> EmptyMap]),
   resultType |-> "complete", supportedVersions |-> <<"2026-07-28", "2025-11-25">>]
  @@ Envelope(Some(policy))

DiscoverResponse(features, extensions, info, instructions, policy) ==
  LET written == Write(Types!DiscoverResult, DiscoverResult(features, info, instructions, policy))
      caps    == written.fields["capabilities"]
  IN IF IsEmpty(extensions) THEN written
     ELSE Put(written, "capabilities", Put(caps, "extensions", Obj(extensions)))

StampServerInfo(result, info) ==
  LET meta == IF Has(result, "_meta") THEN result.fields["_meta"] ELSE Obj(EmptyMap)
      stamped == OrInsert(meta, "io.modelcontextprotocol/serverInfo",
                          Write(Types!Implementation, ToImplementation(info)))
  IN Put(result, "_meta", stamped)

(* Which of them answers a method. *)

To(method, r) ==
  CASE method = "tools/list" -> ToListTools(r)
    [] method = "tools/call" -> ToCallTool(r)
    [] method = "resources/list" -> ToListResources(r)
    [] method = "resources/templates/list" -> ToListResourceTemplates(r)
    [] method = "resources/read" -> ToReadResource(r)
    [] method = "prompts/list" -> ToListPrompts(r)
    [] method = "prompts/get" -> ToGetPrompt(r)
    [] method = "completion/complete" -> ToComplete(r)

Of(method, r) ==
  CASE method = "tools/list" -> OfListTools(r)
    [] method = "tools/call" -> OfCallTool(r)
    [] method = "resources/list" -> OfListResources(r)
    [] method = "resources/templates/list" -> OfListResourceTemplates(r)
    [] method = "resources/read" -> OfReadResource(r)
    [] method = "prompts/list" -> OfListPrompts(r)
    [] method = "prompts/get" -> OfGetPrompt(r)
    [] method = "completion/complete" -> OfComplete(r)

(* What the schema of this version has the messages of a method look like. *)
ResultType(method) ==
  CASE method = "tools/list" -> Types!ListToolsResult
    [] method = "tools/call" -> Types!CallToolResult
    [] method = "resources/list" -> Types!ListResourcesResult
    [] method = "resources/templates/list" -> Types!ListResourceTemplatesResult
    [] method = "resources/read" -> Types!ReadResourceResult
    [] method = "prompts/list" -> Types!ListPromptsResult
    [] method = "prompts/get" -> Types!GetPromptResult
    [] method = "completion/complete" -> Types!CompleteResult
    [] method = "server/discover" -> Types!DiscoverResult
    [] method = "input required" -> Types!InputRequiredResult
    [] method = "subscriptions/listen" -> Types!SubscriptionsListenResult

RequestType(method) ==
  CASE method \in Paginated -> Types!PaginatedRequestParams
    [] method = "tools/call" -> Types!CallToolRequestParams
    [] method = "resources/read" -> Types!ReadResourceRequestParams
    [] method = "prompts/get" -> Types!GetPromptRequestParams
    [] method = "completion/complete" -> Types!CompleteRequestParams
    [] method = "server/discover" -> Types!RequestParams

NotificationType(method) ==
  CASE method = "notifications/progress" -> Types!ProgressNotificationParams
    [] method = "notifications/message" -> Types!LoggingMessageNotificationParams
    [] method = "notifications/resources/updated" -> Types!ResourceUpdatedNotificationParams
    [] method = "notifications/subscriptions/acknowledged" ->
         Types!SubscriptionsAcknowledgedNotificationParams
    [] OTHER -> Types!NotificationParams
=============================================================================
