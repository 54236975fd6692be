------------------------------ MODULE Neutral ------------------------------
(***************************************************************************)
(* The version-stable types handlers and applications speak                *)
(* (turbomcp-protocol/src/neutral.rs), as the values a handler can build   *)
(* with their constructors and builder methods.                            *)
(*                                                                         *)
(* A value is a record that names its fields as the wire does, an Option   *)
(* is a sequence of length at most one and an enum with payload says its   *)
(* variant.  Each set holds a value with everything set, the one its       *)
(* constructor returns, and every way of leaving one field as constructed. *)
(***************************************************************************)
EXTENDS WireShapes

CONSTANTS MaxI64,   \* i64::MAX, scaled
          MaxU32    \* u32::MAX, scaled

ASSUME WidthAssumption == MaxI64 \in Nat /\ MaxU32 \in Nat

Paginated == {"tools/list", "resources/list", "resources/templates/list", "prompts/list"}
Cacheable == Paginated \union {"resources/read"}
Interactive == {"tools/call", "resources/read", "prompts/get"}
Methods == Cacheable \union Interactive \union {"completion/complete"}

(* map over an Option or a Vec. *)
Each(F(_), s) == [i \in DOMAIN s |-> F(s[i])]
(* unwrap_or. *)
OrElse(opt, default) == IF opt = None THEN default ELSE opt[1]
Tags == [team |-> Token("infra")]

Roles == {"user", "assistant"}

AnnotationsValues ==
  Variations([audience |-> <<"user", "assistant">>, priority |-> Some("0.5"),
              lastModified |-> Some("monday")],
             [audience |-> <<>>, priority |-> None, lastModified |-> None])

SomeAnnotations == [audience |-> <<"user">>, priority |-> None, lastModified |-> None]

IconThemes == {"light", "dark"}

Icons ==
  UNION {Variations([src |-> "data:icon", mimeType |-> Some("image/png"),
              sizes |-> <<"48x48">>, theme |-> Some(theme)],
             [src |-> "data:icon", mimeType |-> None, sizes |-> <<>>, theme |-> None])
   : theme \in IconThemes}

SomeIcon == [src |-> "data:icon", mimeType |-> None, sizes |-> <<>>, theme |-> Some("light")]

ToolAnnotationsValues ==
  Variations([title |-> Some("Search"), readOnlyHint |-> Some(TRUE),
              destructiveHint |-> Some(FALSE), idempotentHint |-> Some(TRUE),
              openWorldHint |-> Some(FALSE)],
             [title |-> None, readOnlyHint |-> None, destructiveHint |-> None,
              idempotentHint |-> None, openWorldHint |-> None])

TaskSupports == {"forbidden", "optional", "required"}

(* Schemas: of a struct, of a struct with a serde_json::Value argument (the *)
(* property is the boolean schema true), without parameters, with a keyword *)
(* beside properties, and one with no `type'.                               *)
Schemas ==
  LET object == [type |-> Token("object")]
      args   == object @@ [required |-> List(<<Token("x")>>)]
  IN {Obj(args @@ [properties |-> Obj([x |-> Obj([type |-> Token("string")])])]),
      Obj(args @@ [properties |-> Obj([x |-> Token("true")])]),
      Obj(object @@ [properties |-> Obj(EmptyMap)]),
      Obj(object @@ [additionalProperties |-> Token("false")]),
      Obj([anyOf |-> List(<<Obj(object)>>)])}

SomeSchema == Obj([type |-> Token("object")])

Tools ==
  LET new == [name |-> "search", title |-> None, description |-> None,
              inputSchema |-> SomeSchema, outputSchema |-> None, taskSupport |-> None,
              annotations |-> None, icons |-> <<>>, _meta |-> EmptyMap]
      full == [new EXCEPT !.title = Some("Search"), !.description = Some("finds"),
                          !.outputSchema = Some(SomeSchema), !.taskSupport = Some("optional"),
                          !.annotations = Some(CHOOSE a \in ToolAnnotationsValues : TRUE),
                          !.icons = <<SomeIcon>>, !._meta = Tags]
  IN Variations(full, new)
     \union {[new EXCEPT !.inputSchema = s] : s \in Schemas}
     \union {[new EXCEPT !.outputSchema = Some(s)] : s \in Schemas}
     \union {[new EXCEPT !.taskSupport = Some(s)] : s \in TaskSupports}
     \union {[new EXCEPT !.annotations = Some(a)] : a \in ToolAnnotationsValues}
     \union {[new EXCEPT !.icons = <<i>>] : i \in Icons}

(* Policies a handler may attach; NO_CACHE is what an unset one becomes. *)
NoCache == [ttlMs |-> 0, scope |-> "private"]
CachePolicies == {NoCache, [ttlMs |-> 5, scope |-> "public"], [ttlMs |-> 5, scope |-> "private"]}
Caches == {None} \union {Some(c) : c \in CachePolicies}

Pages(field, items) ==
  {field :> <<>> @@ [nextCursor |-> None, cache |-> c] : c \in Caches}
  \union {field :> <<i>> @@ [nextCursor |-> Some("next"), cache |-> None] : i \in items}

ListToolsResults == Pages("tools", Tools)

Resources ==
  LET new == [uri |-> "file:a", name |-> "a", title |-> None, description |-> None,
              mimeType |-> None, size |-> None, annotations |-> None,
              icons |-> <<>>, _meta |-> EmptyMap]
      full == [new EXCEPT !.title = Some("A"), !.description = Some("the a"),
                          !.mimeType = Some("text/plain"), !.size = Some(1),
                          !.annotations = Some(SomeAnnotations),
                          !.icons = <<SomeIcon>>, !._meta = Tags]
  IN Variations(full, new)
     \union {[new EXCEPT !.size = Some(n)] : n \in {0, MaxI64, MaxI64 + 1}}

ResourceContents ==
  {[variant |-> payload, value |-> v] :
     payload \in {"Text", "Blob"},
     v \in Variations([uri |-> "file:a", body |-> "data", mimeType |-> Some("text/plain"),
                       _meta |-> Tags],
                      [uri |-> "file:a", body |-> "data", mimeType |-> None,
                       _meta |-> EmptyMap])}

SomeContents == [variant |-> "Text",
                 value |-> [uri |-> "file:a", body |-> "data", mimeType |-> None,
                            _meta |-> EmptyMap]]

Contents ==
  LET Block(name, payload) ==
        {[variant |-> name, value |-> payload @@ v] :
           v \in Variations([annotations |-> Some(SomeAnnotations), _meta |-> Tags],
                            [annotations |-> None, _meta |-> EmptyMap])}
      media == [data |-> "bytes", mimeType |-> "any/type"]
  IN Block("Text", [text |-> "words"]) \union Block("Image", media)
     \union Block("Audio", media)
     \union UNION {Block("Resource", [resource |-> c]) : c \in ResourceContents}
     \union {[variant |-> "ResourceLink", value |-> r] : r \in Resources}

SomeText == [variant |-> "Text",
             value |-> [text |-> "words", annotations |-> None, _meta |-> EmptyMap]]

CallToolResults ==
  LET new(content) == [content |-> content, isError |-> FALSE, structuredContent |-> None]
  IN {new(<<SomeText, c>>) : c \in Contents}
     \union {[new(<<>>) EXCEPT !.isError = TRUE]}
     \union {[new(<<SomeText>>) EXCEPT !.structuredContent = Some(j)] :
               j \in {Obj([x |-> Token("1")]), Obj(EmptyMap), List(<<>>), Token("1")}}

ListResourcesResults == Pages("resources", Resources)

ReadResourceResults ==
  {[contents |-> <<c>>, cache |-> None] : c \in ResourceContents}
  \union {[contents |-> <<>>, cache |-> c] : c \in Caches}

ResourceTemplates ==
  Variations([uriTemplate |-> "file:{x}", name |-> "t", title |-> Some("T"),
              description |-> Some("the t"), mimeType |-> Some("text/plain"),
              annotations |-> Some(SomeAnnotations), icons |-> <<SomeIcon>>,
              _meta |-> Tags],
             [uriTemplate |-> "file:{x}", name |-> "t", title |-> None,
              description |-> None, mimeType |-> None, annotations |-> None,
              icons |-> <<>>, _meta |-> EmptyMap])

ListResourceTemplatesResults == Pages("resourceTemplates", ResourceTemplates)

PromptArguments ==
  Variations([name |-> "city", title |-> Some("City"), description |-> Some("where"),
              required |-> TRUE],
             [name |-> "city", title |-> None, description |-> None, required |-> FALSE])

Prompts ==
  LET new == [name |-> "p", title |-> None, description |-> None, arguments |-> <<>>,
              icons |-> <<>>, _meta |-> EmptyMap]
  IN Variations([new EXCEPT !.title = Some("P"), !.description = Some("the p"),
                            !.arguments = <<CHOOSE a \in PromptArguments : TRUE>>,
                            !.icons = <<SomeIcon>>, !._meta = Tags], new)
     \union {[new EXCEPT !.arguments = <<a>>] : a \in PromptArguments}

ListPromptsResults == Pages("prompts", Prompts)

PromptMessages == [role : Roles, content : Contents]

GetPromptResults ==
  {[description |-> None, messages |-> <<m>>] : m \in PromptMessages}
  \union {[description |-> Some("the p"), messages |-> <<>>]}

CompleteResults ==
  Variations([values |-> <<"a", "b">>, total |-> Some(MaxU32), hasMore |-> Some(TRUE)],
             [values |-> <<>>, total |-> None, hasMore |-> None])

Results(method) ==
  CASE method = "tools/list" -> ListToolsResults
    [] method = "tools/call" -> CallToolResults
    [] method = "resources/list" -> ListResourcesResults
    [] method = "resources/templates/list" -> ListResourceTemplatesResults
    [] method = "resources/read" -> ReadResourceResults
    [] method = "prompts/list" -> ListPromptsResults
    [] method = "prompts/get" -> GetPromptResults
    [] method = "completion/complete" -> CompleteResults

(* What a handler may ask of the client: a form, a visit to a URL, or the  *)
(* roots; and what the user may do with a form or a URL. *)
FormSchema == Obj([type |-> Token("object"),
                   properties |-> Obj([who |-> Obj([type |-> Token("string")])])])
ElicitParams == [mode : {"form"}, message : {"who?"}, requestedSchema : {FormSchema}]
ElicitUrlParams ==
  [mode : {"url"}, message : {"sign in"}, url : {"https:login"},
   elicitationId : {None, Some("e1")}]
ElicitOutcomes ==
  [action : {"accept", "decline", "cancel"}, content : {EmptyMap, [who |-> Token("me")]}]
=============================================================================
