---------------------------- MODULE LegacyTypes ----------------------------
(***************************************************************************)
(* Wire types of protocol version 2025-11-25 that the program writes or    *)
(* reads, field by field, in the notation of WireShapes.                   *)
(* (turbomcp-protocol/src/v2025_11_25/types.rs)                            *)
(***************************************************************************)
EXTENDS WireShapes

ToolAnnotations == Struct(
     Maybe([destructiveHint |-> Scalar, idempotentHint |-> Scalar,
              openWorldHint |-> Scalar, readOnlyHint |-> Scalar,
              title |-> Scalar]))

ToolExecutionTaskSupport == OneOf({"forbidden", "optional", "required"})

ToolExecution == Struct(Maybe([taskSupport |-> ToolExecutionTaskSupport]))

IconTheme == OneOf({"dark", "light"})

Icon == Struct(
     Need([src |-> Scalar])
   @@ Maybe([mimeType |-> Scalar, theme |-> IconTheme])
   @@ Filled([sizes |-> ListOf(Scalar)]))

ToolInputSchema == Struct(
     Need([type |-> Scalar])
   @@ Maybe("$schema" :> Scalar)
   @@ Filled([properties |-> BagOf(Bag), required |-> ListOf(Scalar)])
   @@ Rest)

ToolOutputSchema == Struct(
     Need([type |-> Scalar])
   @@ Maybe("$schema" :> Scalar)
   @@ Filled([properties |-> BagOf(Bag), required |-> ListOf(Scalar)])
   @@ Rest)

Tool == Struct(
     Need([inputSchema |-> ToolInputSchema, name |-> Scalar])
   @@ Maybe([annotations |-> ToolAnnotations, description |-> Scalar,
              execution |-> ToolExecution, outputSchema |-> ToolOutputSchema,
              title |-> Scalar])
   @@ Filled([icons |-> ListOf(Icon), _meta |-> Bag]))

ListToolsResult == Struct(
     Need([tools |-> ListOf(Tool)])
   @@ Maybe([nextCursor |-> Scalar])
   @@ Filled([_meta |-> Bag]))

Role == OneOf({"assistant", "user"})

Annotations == Struct(
     Maybe([lastModified |-> Scalar, priority |-> Scalar])
   @@ Filled([audience |-> ListOf(Role)]))

TextContent == Struct(
     Need([text |-> Scalar, type |-> Scalar])
   @@ Maybe([annotations |-> Annotations])
   @@ Filled([_meta |-> Bag]))

ImageContent == Struct(
     Need([data |-> Scalar, mimeType |-> Scalar, type |-> Scalar])
   @@ Maybe([annotations |-> Annotations])
   @@ Filled([_meta |-> Bag]))

AudioContent == Struct(
     Need([data |-> Scalar, mimeType |-> Scalar, type |-> Scalar])
   @@ Maybe([annotations |-> Annotations])
   @@ Filled([_meta |-> Bag]))

ResourceLink == Struct(
     Need([name |-> Scalar, type |-> Scalar, uri |-> Scalar])
   @@ Maybe([annotations |-> Annotations, description |-> Scalar,
              mimeType |-> Scalar, size |-> Scalar, title |-> Scalar])
   @@ Filled([icons |-> ListOf(Icon), _meta |-> Bag]))

TextResourceContents == Struct(
     Need([text |-> Scalar, uri |-> Scalar])
   @@ Maybe([mimeType |-> Scalar])
   @@ Filled([_meta |-> Bag]))

BlobResourceContents == Struct(
     Need([blob |-> Scalar, uri |-> Scalar])
   @@ Maybe([mimeType |-> Scalar])
   @@ Filled([_meta |-> Bag]))

EmbeddedResourceResource ==
       Untagged(<<<<"TextResourceContents", TextResourceContents>>,
       <<"BlobResourceContents", BlobResourceContents>>>>)

EmbeddedResource == Struct(
     Need([resource |-> EmbeddedResourceResource, type |-> Scalar])
   @@ Maybe([annotations |-> Annotations])
   @@ Filled([_meta |-> Bag]))

ContentBlock == Untagged(<<<<"TextContent", TextContent>>,
       <<"ImageContent", ImageContent>>, <<"AudioContent", AudioContent>>,
       <<"ResourceLink", ResourceLink>>,
       <<"EmbeddedResource", EmbeddedResource>>>>)

CallToolResult == Struct(
     Need([content |-> ListOf(ContentBlock)])
   @@ Maybe([isError |-> Scalar])
   @@ Filled([_meta |-> Bag, structuredContent |-> Bag]))

Resource == Struct(
     Need([name |-> Scalar, uri |-> Scalar])
   @@ Maybe([annotations |-> Annotations, description |-> Scalar,
              mimeType |-> Scalar, size |-> Scalar, title |-> Scalar])
   @@ Filled([icons |-> ListOf(Icon), _meta |-> Bag]))

ListResourcesResult == Struct(
     Need([resources |-> ListOf(Resource)])
   @@ Maybe([nextCursor |-> Scalar])
   @@ Filled([_meta |-> Bag]))

ResourceTemplate == Struct(
     Need([name |-> Scalar, uriTemplate |-> Scalar])
   @@ Maybe([annotations |-> Annotations, description |-> Scalar,
              mimeType |-> Scalar, title |-> Scalar])
   @@ Filled([icons |-> ListOf(Icon), _meta |-> Bag]))

ListResourceTemplatesResult == Struct(
     Need([resourceTemplates |-> ListOf(ResourceTemplate)])
   @@ Maybe([nextCursor |-> Scalar])
   @@ Filled([_meta |-> Bag]))

ReadResourceResultContentsItem ==
       Untagged(<<<<"TextResourceContents", TextResourceContents>>,
       <<"BlobResourceContents", BlobResourceContents>>>>)

ReadResourceResult == Struct(
     Need([contents |-> ListOf(ReadResourceResultContentsItem)])
   @@ Filled([_meta |-> Bag]))

PromptArgument == Struct(
     Need([name |-> Scalar])
   @@ Maybe([description |-> Scalar, required |-> Scalar, title |-> Scalar]))

Prompt == Struct(
     Need([name |-> Scalar])
   @@ Maybe([description |-> Scalar, title |-> Scalar])
   @@ Filled([arguments |-> ListOf(PromptArgument), icons |-> ListOf(Icon),
              _meta |-> Bag]))

ListPromptsResult == Struct(
     Need([prompts |-> ListOf(Prompt)])
   @@ Maybe([nextCursor |-> Scalar])
   @@ Filled([_meta |-> Bag]))

PromptMessage == Struct(Need([content |-> ContentBlock, role |-> Role]))

GetPromptResult == Struct(
     Need([messages |-> ListOf(PromptMessage)])
   @@ Maybe([description |-> Scalar])
   @@ Filled([_meta |-> Bag]))

CompleteResultCompletion == Struct(
     Need([values |-> ListOf(Scalar)])
   @@ Maybe([hasMore |-> Scalar, total |-> Scalar]))

CompleteResult == Struct(
     Need([completion |-> CompleteResultCompletion])
   @@ Filled([_meta |-> Bag]))

ServerCapabilitiesPrompts == Struct(Maybe([listChanged |-> Scalar]))

ServerCapabilitiesResources == Struct(
     Maybe([listChanged |-> Scalar, subscribe |-> Scalar]))

ServerCapabilitiesTasksRequestsTools == Struct(Filled([call |-> Bag]))

ServerCapabilitiesTasksRequests == Struct(
     Maybe([tools |-> ServerCapabilitiesTasksRequestsTools]))

ServerCapabilitiesTasks == Struct(
     Maybe([requests |-> ServerCapabilitiesTasksRequests])
   @@ Filled([cancel |-> Bag, list |-> Bag]))

ServerCapabilitiesTools == Struct(Maybe([listChanged |-> Scalar]))

ServerCapabilities == Struct(
     Maybe([prompts |-> ServerCapabilitiesPrompts,
              resources |-> ServerCapabilitiesResources,
              tasks |-> ServerCapabilitiesTasks,
              tools |-> ServerCapabilitiesTools])
   @@ Filled([completions |-> Bag, experimental |-> BagOf(Bag),
              logging |-> Bag]))

Implementation == Struct(
     Need([name |-> Scalar, version |-> Scalar])
   @@ Maybe([description |-> Scalar, title |-> Scalar, websiteUrl |-> Scalar])
   @@ Filled([icons |-> ListOf(Icon)]))

InitializeResult == Struct(
     Need([capabilities |-> ServerCapabilities, protocolVersion |-> Scalar,
              serverInfo |-> Implementation])
   @@ Maybe([instructions |-> Scalar])
   @@ Filled([_meta |-> Bag]))

TaskStatus == OneOf({"cancelled", "completed", "failed", "input_required",
       "working"})

Task == Struct(
     Need([createdAt |-> Scalar, lastUpdatedAt |-> Scalar,
              status |-> TaskStatus, taskId |-> Scalar])
   @@ Maybe([pollInterval |-> Scalar, statusMessage |-> Scalar])
   @@ Nullable([ttl |-> Scalar]))

CreateTaskResult == Struct(Need([task |-> Task]) @@ Filled([_meta |-> Bag]))

GetTaskResult == Struct(
     Need([createdAt |-> Scalar, lastUpdatedAt |-> Scalar,
              status |-> TaskStatus, taskId |-> Scalar])
   @@ Maybe([pollInterval |-> Scalar, statusMessage |-> Scalar])
   @@ Nullable([ttl |-> Scalar])
   @@ Filled([_meta |-> Bag])
   @@ Rest)

ListTasksResult == Struct(
     Need([tasks |-> ListOf(Task)])
   @@ Maybe([nextCursor |-> Scalar])
   @@ Filled([_meta |-> Bag]))

CancelTaskResult == Struct(
     Need([createdAt |-> Scalar, lastUpdatedAt |-> Scalar,
              status |-> TaskStatus, taskId |-> Scalar])
   @@ Maybe([pollInterval |-> Scalar, statusMessage |-> Scalar])
   @@ Nullable([ttl |-> Scalar])
   @@ Filled([_meta |-> Bag])
   @@ Rest)

ProgressToken == Scalar

CallToolRequestParamsMeta == Struct(
     Maybe([progressToken |-> ProgressToken])
   @@ Rest)

TaskMetadata == Struct(Maybe([ttl |-> Scalar]))

CallToolRequestParams == Struct(
     Need([name |-> Scalar])
   @@ Maybe([_meta |-> CallToolRequestParamsMeta, task |-> TaskMetadata])
   @@ Filled([arguments |-> Bag]))

GetPromptRequestParamsMeta == Struct(
     Maybe([progressToken |-> ProgressToken])
   @@ Rest)

GetPromptRequestParams == Struct(
     Need([name |-> Scalar])
   @@ Maybe([_meta |-> GetPromptRequestParamsMeta])
   @@ Filled([arguments |-> BagOf(Scalar)]))

ReadResourceRequestParamsMeta == Struct(
     Maybe([progressToken |-> ProgressToken])
   @@ Rest)

ReadResourceRequestParams == Struct(
     Need([uri |-> Scalar])
   @@ Maybe([_meta |-> ReadResourceRequestParamsMeta]))

CompleteRequestParamsArgument == Struct(
     Need([name |-> Scalar, value |-> Scalar]))

CompleteRequestParamsContext == Struct(Filled([arguments |-> BagOf(Scalar)]))

CompleteRequestParamsMeta == Struct(
     Maybe([progressToken |-> ProgressToken])
   @@ Rest)

PromptReference == Struct(
     Need([name |-> Scalar, type |-> Scalar])
   @@ Maybe([title |-> Scalar]))

ResourceTemplateReference == Struct(Need([type |-> Scalar, uri |-> Scalar]))

CompleteRequestParamsRef == Untagged(<<<<"PromptReference", PromptReference>>,
       <<"ResourceTemplateReference", ResourceTemplateReference>>>>)

CompleteRequestParams == Struct(
     Need([argument |-> CompleteRequestParamsArgument,
              ref |-> CompleteRequestParamsRef])
   @@ Maybe([context |-> CompleteRequestParamsContext,
              _meta |-> CompleteRequestParamsMeta]))

PaginatedRequestParamsMeta == Struct(
     Maybe([progressToken |-> ProgressToken])
   @@ Rest)

PaginatedRequestParams == Struct(
     Maybe([cursor |-> Scalar, _meta |-> PaginatedRequestParamsMeta]))

LoggingLevel == OneOf({"alert", "critical", "debug", "emergency", "error",
       "info", "notice", "warning"})

SetLevelRequestParamsMeta == Struct(
     Maybe([progressToken |-> ProgressToken])
   @@ Rest)

SetLevelRequestParams == Struct(
     Need([level |-> LoggingLevel])
   @@ Maybe([_meta |-> SetLevelRequestParamsMeta]))

SubscribeRequestParamsMeta == Struct(
     Maybe([progressToken |-> ProgressToken])
   @@ Rest)

SubscribeRequestParams == Struct(
     Need([uri |-> Scalar])
   @@ Maybe([_meta |-> SubscribeRequestParamsMeta]))

UnsubscribeRequestParamsMeta == Struct(
     Maybe([progressToken |-> ProgressToken])
   @@ Rest)

UnsubscribeRequestParams == Struct(
     Need([uri |-> Scalar])
   @@ Maybe([_meta |-> UnsubscribeRequestParamsMeta]))

ClientCapabilitiesElicitation == Struct(Filled([form |-> Bag, url |-> Bag]))

ClientCapabilitiesRoots == Struct(Maybe([listChanged |-> Scalar]))

ClientCapabilitiesSampling == Struct(Filled([context |-> Bag, tools |-> Bag]))

ClientCapabilitiesTasksRequestsElicitation == Struct(Filled([create |-> Bag]))

ClientCapabilitiesTasksRequestsSampling == Struct(
     Filled([createMessage |-> Bag]))

ClientCapabilitiesTasksRequests == Struct(
     Maybe([elicitation |-> ClientCapabilitiesTasksRequestsElicitation,
              sampling |-> ClientCapabilitiesTasksRequestsSampling]))

ClientCapabilitiesTasks == Struct(
     Maybe([requests |-> ClientCapabilitiesTasksRequests])
   @@ Filled([cancel |-> Bag, list |-> Bag]))

ClientCapabilities == Struct(
     Maybe([elicitation |-> ClientCapabilitiesElicitation,
              roots |-> ClientCapabilitiesRoots,
              sampling |-> ClientCapabilitiesSampling,
              tasks |-> ClientCapabilitiesTasks])
   @@ Filled([experimental |-> BagOf(Bag)]))

InitializeRequestParamsMeta == Struct(
     Maybe([progressToken |-> ProgressToken])
   @@ Rest)

InitializeRequestParams == Struct(
     Need([capabilities |-> ClientCapabilities, clientInfo |-> Implementation,
              protocolVersion |-> Scalar])
   @@ Maybe([_meta |-> InitializeRequestParamsMeta]))

ElicitRequestUrlParamsMeta == Struct(
     Maybe([progressToken |-> ProgressToken])
   @@ Rest)

ElicitRequestUrlParams == Struct(
     Need([elicitationId |-> Scalar, message |-> Scalar, mode |-> Scalar,
              url |-> Scalar])
   @@ Maybe([_meta |-> ElicitRequestUrlParamsMeta, task |-> TaskMetadata]))

ElicitRequestFormParamsMeta == Struct(
     Maybe([progressToken |-> ProgressToken])
   @@ Rest)

(* Every flattened subtype is optional: any object is accepted. *)
PrimitiveSchemaDefinition == Bag

ElicitRequestFormParamsRequestedSchema == Struct(
     Need([properties |-> BagOf(PrimitiveSchemaDefinition), type |-> Scalar])
   @@ Maybe("$schema" :> Scalar)
   @@ Filled([required |-> ListOf(Scalar)])
   @@ Rest)

ElicitRequestFormParams == Struct(
     Need([message |-> Scalar,
              requestedSchema |-> ElicitRequestFormParamsRequestedSchema])
   @@ Maybe([_meta |-> ElicitRequestFormParamsMeta, mode |-> Scalar,
              task |-> TaskMetadata]))

ElicitRequestParams == Untagged(<<<<"UrlParams", ElicitRequestUrlParams>>,
       <<"FormParams", ElicitRequestFormParams>>>>)

ElicitResultAction == OneOf({"accept", "cancel", "decline"})

ElicitResultContentValueVariant1 == Scalar

ElicitResultContentValue == Untagged(<<<<"Variant0", ListOf(Scalar)>>,
       <<"Variant1", ElicitResultContentValueVariant1>>>>)

ElicitResult == Struct(
     Need([action |-> ElicitResultAction])
   @@ Filled([content |-> BagOf(ElicitResultContentValue), _meta |-> Bag]))

Root == Struct(
     Need([uri |-> Scalar])
   @@ Maybe([name |-> Scalar])
   @@ Filled([_meta |-> Bag]))

ListRootsResult == Struct(
     Need([roots |-> ListOf(Root)])
   @@ Filled([_meta |-> Bag]))

ProgressNotificationParams == Struct(
     Need([progress |-> Scalar, progressToken |-> ProgressToken])
   @@ Maybe([message |-> Scalar, total |-> Scalar])
   @@ Filled([_meta |-> Bag]))

LoggingMessageNotificationParams == Struct(
     Need([data |-> Json, level |-> LoggingLevel])
   @@ Maybe([logger |-> Scalar])
   @@ Filled([_meta |-> Bag]))

ResourceUpdatedNotificationParams == Struct(
     Need([uri |-> Scalar])
   @@ Filled([_meta |-> Bag]))

NotificationParams == Struct(Filled([_meta |-> Bag]))

GetTaskRequestParams == Struct(Need([taskId |-> Scalar]))

GetTaskPayloadRequestParams == Struct(Need([taskId |-> Scalar]))

CancelTaskRequestParams == Struct(Need([taskId |-> Scalar]))
==============================================================================
