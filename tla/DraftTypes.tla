----------------------------- MODULE DraftTypes -----------------------------
(***************************************************************************)
(* Wire types of protocol version 2026-07-28 that the program writes or    *)
(* reads, field by field, in the notation of WireShapes.                   *)
(* (turbomcp-protocol/src/draft/types.rs)                                  *)
(***************************************************************************)
EXTENDS WireShapes

ListToolsResultCacheScope == OneOf({"private", "public"})

IconTheme == OneOf({"dark", "light"})

Icon == Struct(
     Need([src |-> Scalar])
   @@ Maybe([mimeType |-> Scalar, theme |-> IconTheme])
   @@ Filled([sizes |-> ListOf(Scalar)]))

ToolAnnotations == Struct(
     Maybe([destructiveHint |-> Scalar, idempotentHint |-> Scalar,
              openWorldHint |-> Scalar, readOnlyHint |-> Scalar,
              title |-> Scalar]))

ToolInputSchema == Struct(
     Need([type |-> Scalar])
   @@ Maybe("$schema" :> Scalar)
   @@ Rest)

ToolOutputSchema == Struct(Maybe("$schema" :> Scalar) @@ Rest)

Tool == Struct(
     Need([inputSchema |-> ToolInputSchema, name |-> Scalar])
   @@ Maybe([annotations |-> ToolAnnotations, description |-> Scalar,
              _meta |-> Bag, outputSchema |-> ToolOutputSchema,
              title |-> Scalar])
   @@ Filled([icons |-> ListOf(Icon)]))

Implementation == Struct(
     Need([name |-> Scalar, version |-> Scalar])
   @@ Maybe([description |-> Scalar, title |-> Scalar, websiteUrl |-> Scalar])
   @@ Filled([icons |-> ListOf(Icon)]))

ResultMetaObject == Struct(
     Maybe("io.modelcontextprotocol/serverInfo" :> Implementation)
   @@ Rest)

ListToolsResult == Struct(
     Need([cacheScope |-> ListToolsResultCacheScope, resultType |-> Scalar,
              tools |-> ListOf(Tool), ttlMs |-> Scalar])
   @@ Maybe([_meta |-> ResultMetaObject, nextCursor |-> Scalar]))

Role == OneOf({"assistant", "user"})

Annotations == Struct(
     Maybe([lastModified |-> Scalar, priority |-> Scalar])
   @@ Filled([audience |-> ListOf(Role)]))

TextContent == Struct(
     Need([text |-> Scalar, type |-> Scalar])
   @@ Maybe([annotations |-> Annotations, _meta |-> Bag]))

ImageContent == Struct(
     Need([data |-> Scalar, mimeType |-> Scalar, type |-> Scalar])
   @@ Maybe([annotations |-> Annotations, _meta |-> Bag]))

AudioContent == Struct(
     Need([data |-> Scalar, mimeType |-> Scalar, type |-> Scalar])
   @@ Maybe([annotations |-> Annotations, _meta |-> Bag]))

ResourceLink == Struct(
     Need([name |-> Scalar, type |-> Scalar, uri |-> Scalar])
   @@ Maybe([annotations |-> Annotations, description |-> Scalar,
              _meta |-> Bag, mimeType |-> Scalar, size |-> Scalar,
              title |-> Scalar])
   @@ Filled([icons |-> ListOf(Icon)]))

TextResourceContents == Struct(
     Need([text |-> Scalar, uri |-> Scalar])
   @@ Maybe([_meta |-> Bag, mimeType |-> Scalar]))

BlobResourceContents == Struct(
     Need([blob |-> Scalar, uri |-> Scalar])
   @@ Maybe([_meta |-> Bag, mimeType |-> Scalar]))

EmbeddedResourceResource ==
       Untagged(<<<<"TextResourceContents", TextResourceContents>>,
       <<"BlobResourceContents", BlobResourceContents>>>>)

EmbeddedResource == Struct(
     Need([resource |-> EmbeddedResourceResource, type |-> Scalar])
   @@ Maybe([annotations |-> Annotations, _meta |-> Bag]))

ContentBlock == Untagged(<<<<"TextContent", TextContent>>,
       <<"ImageContent", ImageContent>>, <<"AudioContent", AudioContent>>,
       <<"ResourceLink", ResourceLink>>,
       <<"EmbeddedResource", EmbeddedResource>>>>)

CallToolResult == Struct(
     Need([content |-> ListOf(ContentBlock), resultType |-> Scalar])
   @@ Maybe([isError |-> Scalar, _meta |-> ResultMetaObject,
              structuredContent |-> Json]))

ListResourcesResultCacheScope == OneOf({"private", "public"})

Resource == Struct(
     Need([name |-> Scalar, uri |-> Scalar])
   @@ Maybe([annotations |-> Annotations, description |-> Scalar,
              _meta |-> Bag, mimeType |-> Scalar, size |-> Scalar,
              title |-> Scalar])
   @@ Filled([icons |-> ListOf(Icon)]))

ListResourcesResult == Struct(
     Need([cacheScope |-> ListResourcesResultCacheScope,
              resources |-> ListOf(Resource), resultType |-> Scalar,
              ttlMs |-> Scalar])
   @@ Maybe([_meta |-> ResultMetaObject, nextCursor |-> Scalar]))

ListResourceTemplatesResultCacheScope == OneOf({"private", "public"})

ResourceTemplate == Struct(
     Need([name |-> Scalar, uriTemplate |-> Scalar])
   @@ Maybe([annotations |-> Annotations, description |-> Scalar,
              _meta |-> Bag, mimeType |-> Scalar, title |-> Scalar])
   @@ Filled([icons |-> ListOf(Icon)]))

ListResourceTemplatesResult == Struct(
     Need([cacheScope |-> ListResourceTemplatesResultCacheScope,
              resourceTemplates |-> ListOf(ResourceTemplate),
              resultType |-> Scalar, ttlMs |-> Scalar])
   @@ Maybe([_meta |-> ResultMetaObject, nextCursor |-> Scalar]))

ReadResourceResultCacheScope == OneOf({"private", "public"})

ReadResourceResultContentsItem ==
       Untagged(<<<<"TextResourceContents", TextResourceContents>>,
       <<"BlobResourceContents", BlobResourceContents>>>>)

ReadResourceResult == Struct(
     Need([cacheScope |-> ReadResourceResultCacheScope,
              contents |-> ListOf(ReadResourceResultContentsItem),
              resultType |-> Scalar, ttlMs |-> Scalar])
   @@ Maybe([_meta |-> ResultMetaObject]))

ListPromptsResultCacheScope == OneOf({"private", "public"})

PromptArgument == Struct(
     Need([name |-> Scalar])
   @@ Maybe([description |-> Scalar, required |-> Scalar, title |-> Scalar]))

Prompt == Struct(
     Need([name |-> Scalar])
   @@ Maybe([description |-> Scalar, _meta |-> Bag, title |-> Scalar])
   @@ Filled([arguments |-> ListOf(PromptArgument), icons |-> ListOf(Icon)]))

ListPromptsResult == Struct(
     Need([cacheScope |-> ListPromptsResultCacheScope,
              prompts |-> ListOf(Prompt), resultType |-> Scalar,
              ttlMs |-> Scalar])
   @@ Maybe([_meta |-> ResultMetaObject, nextCursor |-> Scalar]))

PromptMessage == Struct(Need([content |-> ContentBlock, role |-> Role]))

GetPromptResult == Struct(
     Need([messages |-> ListOf(PromptMessage), resultType |-> Scalar])
   @@ Maybe([description |-> Scalar, _meta |-> ResultMetaObject]))

CompleteResultCompletion == Struct(
     Need([values |-> ListOf(Scalar)])
   @@ Maybe([hasMore |-> Scalar, total |-> Scalar]))

CompleteResult == Struct(
     Need([completion |-> CompleteResultCompletion, resultType |-> Scalar])
   @@ Maybe([_meta |-> ResultMetaObject]))

SubscriptionFilter == Struct(
     Maybe([promptsListChanged |-> Scalar, resourcesListChanged |-> Scalar,
              toolsListChanged |-> Scalar])
   @@ Filled([resourceSubscriptions |-> ListOf(Scalar)]))

DiscoverResultCacheScope == OneOf({"private", "public"})

ServerCapabilitiesPrompts == Struct(Maybe([listChanged |-> Scalar]))

ServerCapabilitiesResources == Struct(
     Maybe([listChanged |-> Scalar, subscribe |-> Scalar]))

ServerCapabilitiesTools == Struct(Maybe([listChanged |-> Scalar]))

ServerCapabilities == Struct(
     Maybe([completions |-> Bag, logging |-> Bag,
              prompts |-> ServerCapabilitiesPrompts,
              resources |-> ServerCapabilitiesResources,
              tools |-> ServerCapabilitiesTools])
   @@ Filled([experimental |-> BagOf(Bag), extensions |-> BagOf(Bag)]))

DiscoverResult == Struct(
     Need([cacheScope |-> DiscoverResultCacheScope,
              capabilities |-> ServerCapabilities, resultType |-> Scalar,
              supportedVersions |-> ListOf(Scalar), ttlMs |-> Scalar])
   @@ Maybe([instructions |-> Scalar, _meta |-> ResultMetaObject]))

ToolUseContent == Struct(
     Need([id |-> Scalar, input |-> Bag, name |-> Scalar, type |-> Scalar])
   @@ Maybe([_meta |-> Bag]))

ToolResultContent == Struct(
     Need([content |-> ListOf(ContentBlock), toolUseId |-> Scalar,
              type |-> Scalar])
   @@ Maybe([isError |-> Scalar, _meta |-> Bag, structuredContent |-> Json]))

SamplingMessageContentBlock == Untagged(<<<<"TextContent", TextContent>>,
       <<"ImageContent", ImageContent>>, <<"AudioContent", AudioContent>>,
       <<"ToolUseContent", ToolUseContent>>,
       <<"ToolResultContent", ToolResultContent>>>>)

CreateMessageResultContent == Untagged(<<<<"TextContent", TextContent>>,
       <<"ImageContent", ImageContent>>, <<"AudioContent", AudioContent>>,
       <<"ToolUseContent", ToolUseContent>>,
       <<"ToolResultContent", ToolResultContent>>,
       <<"Array", ListOf(SamplingMessageContentBlock)>>>>)

CreateMessageResult == Struct(
     Need([content |-> CreateMessageResultContent, model |-> Scalar,
              role |-> Role])
   @@ Maybe([_meta |-> Bag, stopReason |-> Scalar]))

Root == Struct(
     Need([uri |-> Scalar])
   @@ Maybe([_meta |-> Bag, name |-> Scalar]))

ListRootsResult == Struct(Need([roots |-> ListOf(Root)]))

ElicitResultAction == OneOf({"accept", "cancel", "decline"})

ElicitResultContentValueVariant1 == Scalar

ElicitResultContentValue == Untagged(<<<<"Variant0", ListOf(Scalar)>>,
       <<"Variant1", ElicitResultContentValueVariant1>>>>)

ElicitResult == Struct(
     Need([action |-> ElicitResultAction])
   @@ Filled([content |-> BagOf(ElicitResultContentValue)]))

InputResponse == Untagged(<<<<"CreateMessageResult", CreateMessageResult>>,
       <<"ListRootsResult", ListRootsResult>>,
       <<"ElicitResult", ElicitResult>>>>)

ClientCapabilitiesElicitation == Struct(Maybe([form |-> Bag, url |-> Bag]))

ClientCapabilitiesSampling == Struct(Maybe([context |-> Bag, tools |-> Bag]))

ClientCapabilities == Struct(
     Maybe([elicitation |-> ClientCapabilitiesElicitation,
              sampling |-> ClientCapabilitiesSampling])
   @@ Filled([experimental |-> BagOf(Bag), extensions |-> BagOf(Bag),
              roots |-> Bag]))

LoggingLevel == OneOf({"alert", "critical", "debug", "emergency", "error",
       "info", "notice", "warning"})

RequestId == Scalar

ProgressToken == Scalar

RequestMetaObject == Struct(
     Need("io.modelcontextprotocol/clientCapabilities" :> ClientCapabilities)
   @@ Need("io.modelcontextprotocol/protocolVersion" :> Scalar)
   @@ Maybe([progressToken |-> ProgressToken])
   @@ Maybe("io.modelcontextprotocol/clientInfo" :> Implementation)
   @@ Maybe("io.modelcontextprotocol/logLevel" :> LoggingLevel)
   @@ Rest)

CallToolRequestParams == Struct(
     Need([_meta |-> RequestMetaObject, name |-> Scalar])
   @@ Maybe([inputResponses |-> BagOf(InputResponse),
              requestState |-> Scalar])
   @@ Filled([arguments |-> Bag]))

GetPromptRequestParams == Struct(
     Need([_meta |-> RequestMetaObject, name |-> Scalar])
   @@ Maybe([inputResponses |-> BagOf(InputResponse),
              requestState |-> Scalar])
   @@ Filled([arguments |-> BagOf(Scalar)]))

ReadResourceRequestParams == Struct(
     Need([_meta |-> RequestMetaObject, uri |-> Scalar])
   @@ Maybe([inputResponses |-> BagOf(InputResponse),
              requestState |-> Scalar]))

CompleteRequestParamsArgument == Struct(
     Need([name |-> Scalar, value |-> Scalar]))

CompleteRequestParamsContext == Struct(Filled([arguments |-> BagOf(Scalar)]))

PromptReference == Struct(
     Need([name |-> Scalar, type |-> Scalar])
   @@ Maybe([title |-> Scalar]))

ResourceTemplateReference == Struct(Need([type |-> Scalar, uri |-> Scalar]))

CompleteRequestParamsRef == Untagged(<<<<"PromptReference", PromptReference>>,
       <<"ResourceTemplateReference", ResourceTemplateReference>>>>)

CompleteRequestParams == Struct(
     Need([argument |-> CompleteRequestParamsArgument,
              _meta |-> RequestMetaObject, ref |-> CompleteRequestParamsRef])
   @@ Maybe([context |-> CompleteRequestParamsContext]))

PaginatedRequestParams == Struct(
     Need([_meta |-> RequestMetaObject])
   @@ Maybe([cursor |-> Scalar]))

(* Every flattened subtype is optional: any object is accepted. *)
PrimitiveSchemaDefinition == Bag

ElicitRequestFormParamsRequestedSchema == Struct(
     Need([properties |-> BagOf(PrimitiveSchemaDefinition), type |-> Scalar])
   @@ Maybe("$schema" :> Scalar)
   @@ Filled([required |-> ListOf(Scalar)])
   @@ Rest)

ElicitRequestFormParams == Struct(
     Need([message |-> Scalar,
              requestedSchema |-> ElicitRequestFormParamsRequestedSchema])
   @@ Maybe([mode |-> Scalar]))

ElicitRequestUrlParams == Struct(
     Need([message |-> Scalar, mode |-> Scalar, url |-> Scalar]))

ElicitRequestParams == Untagged(<<<<"FormParams", ElicitRequestFormParams>>,
       <<"UrlParams", ElicitRequestUrlParams>>>>)

CreateMessageRequestParamsIncludeContext == OneOf({"allServers", "none",
       "thisServer"})

SamplingMessageContent == Untagged(<<<<"TextContent", TextContent>>,
       <<"ImageContent", ImageContent>>, <<"AudioContent", AudioContent>>,
       <<"ToolUseContent", ToolUseContent>>,
       <<"ToolResultContent", ToolResultContent>>,
       <<"Array", ListOf(SamplingMessageContentBlock)>>>>)

SamplingMessage == Struct(
     Need([content |-> SamplingMessageContent, role |-> Role])
   @@ Maybe([_meta |-> Bag]))

ModelHint == Struct(Maybe([name |-> Scalar]))

ModelPreferences == Struct(
     Maybe([costPriority |-> Scalar, intelligencePriority |-> Scalar,
              speedPriority |-> Scalar])
   @@ Filled([hints |-> ListOf(ModelHint)]))

ToolChoiceMode == OneOf({"auto", "none", "required"})

ToolChoice == Struct(Maybe([mode |-> ToolChoiceMode]))

CreateMessageRequestParams == Struct(
     Need([maxTokens |-> Scalar, messages |-> ListOf(SamplingMessage)])
   @@ Maybe([includeContext |-> CreateMessageRequestParamsIncludeContext,
              metadata |-> Bag, modelPreferences |-> ModelPreferences,
              systemPrompt |-> Scalar, temperature |-> Scalar,
              toolChoice |-> ToolChoice])
   @@ Filled([stopSequences |-> ListOf(Scalar), tools |-> ListOf(Tool)]))

CreateMessageRequest == Struct(
     Need([method |-> Scalar, params |-> CreateMessageRequestParams]))

ListRootsRequestParams == Struct(Maybe([_meta |-> Bag]))

ListRootsRequest == Struct(
     Need([method |-> Scalar])
   @@ Maybe([params |-> ListRootsRequestParams]))

ElicitRequest == Struct(
     Need([method |-> Scalar, params |-> ElicitRequestParams]))

InputRequest == Untagged(<<<<"CreateMessageRequest", CreateMessageRequest>>,
       <<"ListRootsRequest", ListRootsRequest>>,
       <<"ElicitRequest", ElicitRequest>>>>)

InputRequiredResult == Struct(
     Need([resultType |-> Scalar])
   @@ Maybe([inputRequests |-> BagOf(InputRequest),
              _meta |-> ResultMetaObject, requestState |-> Scalar]))

SubscriptionsListenResultMeta == Struct(
     Need("io.modelcontextprotocol/subscriptionId" :> RequestId)
   @@ Maybe("io.modelcontextprotocol/serverInfo" :> Implementation)
   @@ Rest)

SubscriptionsListenResult == Struct(
     Need([_meta |-> SubscriptionsListenResultMeta, resultType |-> Scalar]))

NotificationMetaObject == Struct(
     Maybe("io.modelcontextprotocol/subscriptionId" :> RequestId)
   @@ Rest)

SubscriptionsAcknowledgedNotificationParams == Struct(
     Need([notifications |-> SubscriptionFilter])
   @@ Maybe([_meta |-> NotificationMetaObject]))

ProgressNotificationParams == Struct(
     Need([progress |-> Scalar, progressToken |-> ProgressToken])
   @@ Maybe([message |-> Scalar, _meta |-> NotificationMetaObject,
              total |-> Scalar]))

LoggingMessageNotificationParams == Struct(
     Need([data |-> Json, level |-> LoggingLevel])
   @@ Maybe([logger |-> Scalar, _meta |-> NotificationMetaObject]))

ResourceUpdatedNotificationParams == Struct(
     Need([uri |-> Scalar])
   @@ Maybe([_meta |-> NotificationMetaObject]))

NotificationParams == Struct(Maybe([_meta |-> NotificationMetaObject]))

RequestParams == Struct(Need([_meta |-> RequestMetaObject]))
==============================================================================
