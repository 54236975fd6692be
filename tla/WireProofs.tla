------------------------------ MODULE WireProofs ------------------------------
(***************************************************************************)
(* Proofs about Wire, for anything a server may have registered, any       *)
(* capabilities a client may declare and any cache policy, on both protocol*)
(* versions: the two peers agree on who they are and what may be asked     *)
(* (PeersAgreeOnAnything), and a handler or a user who is asked is asked   *)
(* what was meant (RequestsAndFormsArrive).                                *)
(*                                                                         *)
(* The first argument follows what a side says of itself through the       *)
(* messages.  The client's capabilities: the legacy greeting carries them, *)
(* the session keeps them; every draft call carries them again; either way *)
(* the context of a handler opens the gates that were declared (WireInv).  *)
(* The server's identity and what it offers: what discover_response and    *)
(* handle_initialize write by the generated types is what                  *)
(* Handshake::from_result reads.                                           *)
(*                                                                         *)
(* The second follows a request and a question hand by hand (TalkInv): its *)
(* message carries the parameters under whatever is added to them, which   *)
(* each parser of params.rs reads back as they were meant; the question on *)
(* the wire is the handler's, and the answer on the wire the user's.       *)
(***************************************************************************)
EXTENDS Wire, TLAPS

\* Where the draft's results name the server (stamp_server_info).
Identifier == "io.modelcontextprotocol/serverInfo"

\* j is what a struct of shape s is written as, when its fields are written by
\* WritePart.
IsWritten(j, s, v, WritePart(_, _)) ==
    /\ j.json = "object" /\ DOMAIN j.fields = Written(s, v)
    /\ \A f \in Written(s, v) :
         /\ s.fields[f].how = "maybe" => j.fields[f] = WritePart(s.fields[f].of, v[f][1])
         /\ s.fields[f].how \in {"need", "filled"} =>
              j.fields[f] = WritePart(s.fields[f].of, v[f])

\* v is what a struct of shape s is read as, when its fields are read by
\* ParsedPart.
IsParsed(v, s, j, ParsedPart(_, _)) ==
    /\ v = [f \in DOMAIN s.fields |-> v[f]]
    /\ \A f \in DOMAIN s.fields :
         /\ f \in DOMAIN j.fields /\ s.fields[f].how \in {"need", "filled"} =>
              v[f] = ParsedPart(s.fields[f].of, j.fields[f])
         /\ s.fields[f].how = "maybe" =>
              v[f] = IF f \in DOMAIN j.fields /\ j.fields[f].json # "null"
                     THEN Some(ParsedPart(s.fields[f].of, j.fields[f])) ELSE None

\* Someone's identity, as JSON.
Names(j, info) ==
    /\ j.json = "object" /\ DOMAIN j.fields = {"name", "version", "title"}
    /\ \A f \in {"name", "version"} : j.fields[f] = Token(info[f])
    /\ j.fields["title"] = Token(info.title[1])
Identity(j) == Names(j, ServerInfo)

-----------------------------------------------------------------------------
(* What is written.                                                         *)

\* An Option that is set, one that is not, an empty map.
LEMMA Options ==
  ASSUME NEW v
  PROVE  /\ ~IsEmpty(Some(v)) /\ Some(v)[1] = v /\ Some(v) # None
         /\ IsEmpty(None) /\ IsEmpty(EmptyMap) /\ DOMAIN EmptyMap = {}
         /\ D!Some(v) = Some(v) /\ D!None = None /\ D!EmptyMap = EmptyMap
         /\ L!Some(v) = Some(v) /\ L!None = None /\ L!EmptyMap = EmptyMap
  BY DEF IsEmpty, Some, None, EmptyMap, D!None, D!EmptyMap, D!Some, L!None, L!EmptyMap, L!Some

\* The draft writes a struct field by field.
LEMMA DraftStructs ==
  ASSUME NEW s, NEW v, s.shape = "struct", "extra" \in DOMAIN s.fields => v.extra = EmptyMap
  PROVE  /\ IsWritten(D!Write9(s, v), s, v, D!Write8)
         /\ IsWritten(D!Write8(s, v), s, v, D!Write7)
         /\ IsWritten(D!Write7(s, v), s, v, D!Write6)
  <1>. DEFINE parts == D!ValueParts(s, v)
  <1>1. /\ D!Written(s, v) = Written(s, v)
        /\ DOMAIN parts = {f \in Written(s, v) : s.fields[f].how = "nullable" => ~IsEmpty(v[f])}
        /\ \A f \in DOMAIN parts :
             /\ parts[f].of = s.fields[f].of
             /\ s.fields[f].how = "maybe" => parts[f].value = v[f][1]
             /\ s.fields[f].how \in {"need", "filled"} => parts[f].value = v[f]
    BY DEF D!Written, Written, D!IsEmpty, IsEmpty, D!ValueParts, D!Part
  <1>2. DOMAIN parts \subseteq Written(s, v)
    BY <1>1
  <1>. HIDE DEF parts
  <1>. USE <1>1, <1>2, Options DEF D!WriteAt, D!Assembled, D!Obj, D!@@, IsWritten
  <1>3. IsWritten(D!Write9(s, v), s, v, D!Write8)
    BY DEF D!Write9, parts
  <1>4. IsWritten(D!Write8(s, v), s, v, D!Write7)
    BY DEF D!Write8, parts
  <1>5. IsWritten(D!Write7(s, v), s, v, D!Write6)
    BY DEF D!Write7, parts
  <1>. QED
    BY <1>3, <1>4, <1>5

\* So does the legacy version.
LEMMA LegacyStructs ==
  ASSUME NEW s, NEW v, s.shape = "struct", "extra" \notin DOMAIN s.fields
  PROVE  /\ IsWritten(L!Write9(s, v), s, v, L!Write8)
         /\ IsWritten(L!Write8(s, v), s, v, L!Write7)
  <1>. DEFINE parts == L!ValueParts(s, v)
  <1>1. /\ L!Written(s, v) = Written(s, v)
        /\ DOMAIN parts = {f \in Written(s, v) : s.fields[f].how = "nullable" => ~IsEmpty(v[f])}
        /\ \A f \in DOMAIN parts :
             /\ parts[f].of = s.fields[f].of
             /\ s.fields[f].how = "maybe" => parts[f].value = v[f][1]
             /\ s.fields[f].how \in {"need", "filled"} => parts[f].value = v[f]
    BY DEF L!Written, Written, L!IsEmpty, IsEmpty, L!ValueParts, L!Part
  <1>2. DOMAIN parts \subseteq Written(s, v)
    BY <1>1
  <1>. HIDE DEF parts
  <1>. USE <1>1, <1>2, Options DEF L!WriteAt, L!Assembled, L!Obj, L!@@, IsWritten
  <1>3. IsWritten(L!Write9(s, v), s, v, L!Write8)
    BY DEF L!Write9, parts
  <1>4. IsWritten(L!Write8(s, v), s, v, L!Write7)
    BY DEF L!Write8, parts
  <1>. QED
    BY <1>3, <1>4

\* A scalar is a token at any depth.
LEMMA Scalars ==
  ASSUME NEW v
  PROVE  /\ D!Write8(D!Types!Scalar, v) = Token(v) /\ D!Write6(D!Types!Scalar, v) = Token(v)
         /\ L!Write8(L!Types!Scalar, v) = Token(v) /\ L!Write7(L!Types!Scalar, v) = Token(v)
  BY DEF D!Write8, D!Write6, D!WriteAt, D!Assembled, D!Token, D!Types!Scalar,
         L!Write8, L!Write7, L!WriteAt, L!Assembled, L!Token, L!Types!Scalar, Token

\* Map::insert.
LEMMA Inserts ==
  ASSUME NEW j, NEW k, NEW v
  PROVE  /\ D!Put(j, k, v).json = "object" /\ L!Put(j, k, v).json = "object"
         /\ DOMAIN D!Put(j, k, v).fields = {k} \union DOMAIN j.fields
         /\ DOMAIN L!Put(j, k, v).fields = {k} \union DOMAIN j.fields
         /\ D!Put(j, k, v).fields[k] = v /\ L!Put(j, k, v).fields[k] = v
         /\ \A f \in DOMAIN j.fields \ {k} :
              D!Put(j, k, v).fields[f] = j.fields[f] /\ L!Put(j, k, v).fields[f] = j.fields[f]
  BY DEF D!Put, D!Obj, D!@@, D!:>, L!Put, L!Obj, L!@@, L!:>

-----------------------------------------------------------------------------
(* The types of the draft's welcome.                                        *)

\* draft::Implementation, as the generated type writes it.
LEMMA DraftImplementation ==
  LET type == D!Types!Implementation
  IN  /\ type.shape = "struct"
      /\ DOMAIN type.fields = {"name", "version", "description", "title", "websiteUrl", "icons"}
      /\ \A f \in {"name", "version"} :
           type.fields[f] = [how |-> "need", of |-> D!Types!Scalar]
      /\ \A f \in {"description", "title", "websiteUrl"} :
           type.fields[f] = [how |-> "maybe", of |-> D!Types!Scalar]
      /\ type.fields["icons"].how = "filled"
  BY DEF D!Types!Implementation, D!Types!Struct, D!Types!Need, D!Types!Maybe, D!Types!Filled,
         D!Types!Fields, D!Types!@@

\* draft::ResultMetaObject: the server's identity, and any other key.
LEMMA DraftMeta ==
  LET type == D!Types!ResultMetaObject
  IN  /\ type.shape = "struct"
      /\ DOMAIN type.fields = {Identifier, "extra"} /\ Identifier # "extra"
      /\ type.fields[Identifier] = [how |-> "maybe", of |-> D!Types!Implementation]
      /\ type.fields["extra"].how = "rest"
  BY DEF Identifier, D!Types!ResultMetaObject, D!Types!Struct, D!Types!Maybe, D!Types!Fields,
         D!Types!@@, D!Types!Rest, D!Types!:>

\* draft::ServerCapabilities: every capability is skipped when it is not set.
LEMMA DraftCapabilities ==
  LET type == D!Types!ServerCapabilities
  IN  /\ type.shape = "struct"
      /\ DOMAIN type.fields = {"completions", "logging", "prompts", "resources", "tools",
                               "experimental", "extensions"}
      /\ \A f \in {"completions", "logging", "prompts", "resources", "tools"} :
           type.fields[f].how = "maybe"
      /\ \A f \in {"experimental", "extensions"} : type.fields[f].how = "filled"
  BY DEF D!Types!ServerCapabilities, D!Types!Struct, D!Types!Maybe, D!Types!Filled,
         D!Types!Fields, D!Types!@@

\* draft::DiscoverResult, the answer to server/discover.
LEMMA DraftDiscover ==
  LET type == D!Types!DiscoverResult
  IN  /\ type.shape = "struct"
      /\ DOMAIN type.fields = {"cacheScope", "capabilities", "resultType", "supportedVersions",
                               "ttlMs", "instructions", "_meta"}
      /\ type.fields["capabilities"] = [how |-> "need", of |-> D!Types!ServerCapabilities]
      /\ type.fields["instructions"] = [how |-> "maybe", of |-> D!Types!Scalar]
      /\ type.fields["_meta"] = [how |-> "maybe", of |-> D!Types!ResultMetaObject]
      /\ \A f \in {"cacheScope", "resultType", "supportedVersions", "ttlMs"} :
           type.fields[f].how = "need"
  BY DEF D!Types!DiscoverResult, D!Types!Struct, D!Types!Need, D!Types!Maybe, D!Types!Fields,
         D!Types!@@

-----------------------------------------------------------------------------
(* The draft's welcome.                                                     *)

\* The server's identity, as the draft writes it.
LEMMA DraftIdentity ==
  Identity(D!Write7(D!Types!Implementation, D!ToImplementation(ServerInfo)))
  <1>. DEFINE s == D!Types!Implementation
              v == D!ToImplementation(ServerInfo)
  <1>1. /\ v.name = ServerInfo.name /\ v.version = ServerInfo.version
        /\ v.title = ServerInfo.title
        /\ v.description = None /\ v.websiteUrl = None /\ v.icons = None
    BY Options DEF D!ToImplementation, None
  <1>2. ServerInfo.title = Some("Server")
    BY DEF ServerInfo
  <1>. HIDE DEF v, s
  <1>3. Written(s, v) = {"name", "version", "title"}
    BY <1>1, <1>2, Options, DraftImplementation DEF Written, s
  <1>4. IsWritten(D!Write7(s, v), s, v, D!Write6)
    BY DraftStructs, DraftImplementation DEF s
  <1>5. Identity(D!Write7(s, v))
    BY <1>1, <1>2, <1>3, <1>4, Options, DraftImplementation, Scalars DEF IsWritten, Identity, Names, s
  <1>. QED
    BY <1>5 DEF s, v

\* discover_response tells of what is registered, and of nothing else.
LEMMA DraftOffers ==
  LET j == D!Write8(D!Types!ServerCapabilities, D!Capabilities(features))
  IN  /\ j.json = "object"
      /\ DOMAIN j.fields = features \intersect {"tools", "resources", "prompts",
                                                "completions", "logging"}
  <1>. DEFINE s == D!Types!ServerCapabilities
              v == D!Capabilities(features)
              offers == {"completions", "logging", "prompts", "resources", "tools"}
  <1>1. /\ \A f \in offers : IsEmpty(v[f]) <=> f \notin features
        /\ v["experimental"] = EmptyMap /\ v["extensions"] = EmptyMap
    BY Options DEF D!Capabilities, IsEmpty, None, Some
  <1>. HIDE DEF v, s
  <1>2. Written(s, v) = features \intersect offers
    BY <1>1, Options, DraftCapabilities DEF Written, s
  <1>3. IsWritten(D!Write8(s, v), s, v, D!Write7)
    BY DraftStructs, DraftCapabilities DEF s
  <1>. QED
    BY <1>2, <1>3 DEF IsWritten, s, v

\* What a client may read in a welcome.
Introduces(result, identity, capabilities) ==
    /\ result.json = "object"
    /\ Identity(identity)
    /\ \/ "serverInfo" \in DOMAIN result.fields /\ identity = result.fields["serverInfo"]
       \/ /\ "serverInfo" \notin DOMAIN result.fields /\ "_meta" \in DOMAIN result.fields
          /\ result.fields["_meta"].json = "object"
          /\ Identifier \in DOMAIN result.fields["_meta"].fields
          /\ identity = result.fields["_meta"].fields[Identifier]
    /\ "capabilities" \in DOMAIN result.fields /\ capabilities = result.fields["capabilities"]
    /\ DOMAIN capabilities.fields = Advertised
    /\ "instructions" \in DOMAIN result.fields
    /\ result.fields["instructions"] = Token(Instructions[1])

\* What discover_response is made from.
LEMMA DraftAnswer ==
  LET v == D!DiscoverResult(features, ServerInfo, Instructions, DefaultPolicy)
  IN  /\ v.capabilities = D!Capabilities(features)
      /\ v.instructions = Instructions
      /\ ~IsEmpty(v._meta)
      /\ v._meta[1][Identifier] = Some(D!ToImplementation(ServerInfo))
      /\ v._meta[1].extra = EmptyMap
  BY Options DEF D!DiscoverResult, D!@@, D!:>, Identifier

\* The draft's welcome, before and after it is stamped.
LEMMA DraftWrites ==
  LET result == D!Write(D!Types!DiscoverResult,
                        D!DiscoverResult(features, ServerInfo, Instructions, DefaultPolicy))
  IN  /\ result.json = "object"
      /\ DOMAIN result.fields = DOMAIN D!Types!DiscoverResult.fields
      /\ result.fields["instructions"] = Token(Instructions[1])
      /\ result.fields["capabilities"] =
           D!Write8(D!Types!ServerCapabilities, D!Capabilities(features))
      /\ result.fields["_meta"].json = "object"
      /\ DOMAIN result.fields["_meta"].fields = {Identifier}
      /\ Identity(result.fields["_meta"].fields[Identifier])
  <1>. DEFINE s == D!Types!DiscoverResult
              v == D!DiscoverResult(features, ServerInfo, Instructions, DefaultPolicy)
              m == D!Types!ResultMetaObject
              meta == v._meta[1]
  <1>1. /\ v.capabilities = D!Capabilities(features) /\ v.instructions = Instructions
        /\ ~IsEmpty(v._meta) /\ ~IsEmpty(Instructions)
        /\ meta[Identifier] = Some(D!ToImplementation(ServerInfo)) /\ meta.extra = EmptyMap
    BY DraftAnswer, Options DEF Instructions
  <1>2. IsWritten(D!Write9(s, v), s, v, D!Write8) /\ IsWritten(D!Write8(m, meta), m, meta, D!Write7)
    BY DraftStructs, DraftDiscover, DraftMeta, <1>1
  <1>. HIDE DEF v, s, m
  <1>3. Written(s, v) = DOMAIN s.fields
    BY <1>1, DraftDiscover DEF Written, s
  <1>4. Written(m, meta) = {Identifier}
    BY <1>1, DraftMeta, Options DEF Written, m
  <1>5. /\ D!Write9(s, v).fields["_meta"] = D!Write8(m, meta)
        /\ D!Write9(s, v).fields["instructions"] = Token(Instructions[1])
        /\ D!Write9(s, v).fields["capabilities"] =
             D!Write8(D!Types!ServerCapabilities, D!Capabilities(features))
    BY <1>1, <1>2, <1>3, DraftDiscover, Scalars DEF IsWritten, s, m
  <1>6. Identity(D!Write8(m, meta).fields[Identifier])
    BY <1>1, <1>2, <1>4, DraftMeta, Options, DraftIdentity DEF IsWritten, m
  <1>. QED
    BY <1>2, <1>3, <1>4, <1>5, <1>6 DEF IsWritten, D!Write, s, v, m

\* server/discover: discover_response, with the extensions inserted and the
\* identity stamped on it, introduces the server.
LEMMA DraftWelcomes ==
  ASSUME IsDraft
  PROVE  \E identity, capabilities :
           Introduces(D!StampServerInfo(D!DiscoverResponse(features, Extensions, ServerInfo,
                                                           Instructions, DefaultPolicy),
                                        ServerInfo),
                      identity, capabilities)
  <1>. DEFINE written == D!Write(D!Types!DiscoverResult,
                           D!DiscoverResult(features, ServerInfo, Instructions, DefaultPolicy))
              response == D!DiscoverResponse(features, Extensions, ServerInfo, Instructions,
                                             DefaultPolicy)
              result == D!StampServerInfo(response, ServerInfo)
              offers == {"tools", "resources", "prompts", "completions", "logging"}
              caps == written.fields["capabilities"]
  <1>1. /\ "capabilities" \in DOMAIN written.fields /\ "instructions" \in DOMAIN written.fields
        /\ "_meta" \in DOMAIN written.fields /\ "serverInfo" \notin DOMAIN written.fields
    BY DraftWrites, DraftDiscover
  <1>2. caps.json = "object" /\ DOMAIN caps.fields = features \intersect offers
    BY DraftWrites, DraftOffers
  <1>3. /\ response.json = "object" /\ DOMAIN response.fields = DOMAIN written.fields
        /\ response.fields["_meta"] = written.fields["_meta"]
        /\ response.fields["instructions"] = written.fields["instructions"]
        /\ DOMAIN response.fields["capabilities"].fields = Advertised
    <2>1. CASE IsEmpty(Extensions)
      <3>1. response = written
        BY <2>1 DEF D!DiscoverResponse, D!IsEmpty, IsEmpty
      <3>2. Advertised = features \intersect offers
        BY <2>1 DEF Advertised
      <3>. QED
        BY <3>1, <3>2, <1>2, DraftWrites
    <2>2. CASE ~IsEmpty(Extensions)
      <3>1. response = D!Put(written, "capabilities", D!Put(caps, "extensions", D!Obj(Extensions)))
        BY <2>2 DEF D!DiscoverResponse, D!IsEmpty, IsEmpty
      <3>2. Advertised = (features \intersect offers) \union {"extensions"}
        BY <2>2 DEF Advertised
      <3>. DEFINE more == D!Put(caps, "extensions", D!Obj(Extensions))
      <3>3. DOMAIN more.fields = Advertised
        BY <3>2, <1>2, Inserts
      <3>. HIDE DEF written, response, caps, more
      <3>4. response = D!Put(written, "capabilities", more)
        BY <3>1 DEF more
      <3>5. {"capabilities"} \union DOMAIN written.fields = DOMAIN written.fields
        BY <1>1
      <3>6. /\ response.json = "object"
            /\ DOMAIN response.fields = {"capabilities"} \union DOMAIN written.fields
            /\ response.fields["capabilities"] = more
        BY <3>4, Inserts
      <3>7. \A f \in DOMAIN written.fields \ {"capabilities"} :
              response.fields[f] = written.fields[f]
        BY <3>4, Inserts
      <3>. QED
        BY <3>3, <3>5, <3>6, <3>7, <1>1
    <2>. QED
      BY <2>1, <2>2
  <1>4. result = D!Put(response, "_meta", written.fields["_meta"])
    BY <1>1, <1>3, DraftWrites DEF D!StampServerInfo, D!Has, D!IsObject, D!OrInsert, Identifier
  <1>5. Introduces(result, written.fields["_meta"].fields[Identifier], result.fields["capabilities"])
    <2>. HIDE DEF written, response, result
    <2>. QED
      BY <1>1, <1>3, <1>4, DraftWrites, Inserts DEF Introduces, written
  <1>. QED
    BY <1>5

-----------------------------------------------------------------------------
(* The types of the legacy version's handshake.                             *)

\* v2025_11_25::Implementation, as the generated type writes it.
LEMMA LegacyImplementation ==
  LET type == L!Types!Implementation
  IN  /\ type.shape = "struct"
      /\ DOMAIN type.fields = {"name", "version", "description", "title", "websiteUrl", "icons"}
      /\ \A f \in {"name", "version"} :
           type.fields[f] = [how |-> "need", of |-> L!Types!Scalar]
      /\ \A f \in {"description", "title", "websiteUrl"} :
           type.fields[f] = [how |-> "maybe", of |-> L!Types!Scalar]
      /\ type.fields["icons"].how = "filled"
  BY DEF L!Types!Implementation, L!Types!Struct, L!Types!Need, L!Types!Maybe, L!Types!Filled,
         L!Types!Fields, L!Types!@@

\* v2025_11_25::ServerCapabilities: completions and logging are maps that are
\* skipped when they are empty, so that a bare presence is not written.
LEMMA LegacyServerCapabilities ==
  LET type == L!Types!ServerCapabilities
  IN  /\ type.shape = "struct"
      /\ DOMAIN type.fields = {"prompts", "resources", "tasks", "tools",
                               "completions", "experimental", "logging"}
      /\ \A f \in {"prompts", "resources", "tasks", "tools"} : type.fields[f].how = "maybe"
      /\ \A f \in {"completions", "experimental", "logging"} : type.fields[f].how = "filled"
  BY DEF L!Types!ServerCapabilities, L!Types!Struct, L!Types!Maybe, L!Types!Filled,
         L!Types!Fields, L!Types!@@

\* v2025_11_25::InitializeResult, the answer to initialize.
LEMMA LegacyInitialize ==
  LET type == L!Types!InitializeResult
  IN  /\ type.shape = "struct"
      /\ DOMAIN type.fields = {"capabilities", "protocolVersion", "serverInfo",
                               "instructions", "_meta"}
      /\ type.fields["capabilities"] = [how |-> "need", of |-> L!Types!ServerCapabilities]
      /\ type.fields["serverInfo"] = [how |-> "need", of |-> L!Types!Implementation]
      /\ type.fields["instructions"] = [how |-> "maybe", of |-> L!Types!Scalar]
      /\ type.fields["protocolVersion"].how = "need" /\ type.fields["_meta"].how = "filled"
  BY DEF L!Types!InitializeResult, L!Types!Struct, L!Types!Need, L!Types!Maybe, L!Types!Filled,
         L!Types!Fields, L!Types!@@

\* v2025_11_25::ClientCapabilities, as handle_initialize reads it.
LEMMA LegacyClientCapabilities ==
  LET type == L!Types!ClientCapabilities
  IN  /\ type.shape = "struct"
      /\ DOMAIN type.fields = {"elicitation", "roots", "sampling", "tasks", "experimental"}
      /\ \A f \in {"elicitation", "roots", "sampling", "tasks"} : type.fields[f].how = "maybe"
      /\ type.fields["experimental"].how = "filled"
  BY DEF L!Types!ClientCapabilities, L!Types!Struct, L!Types!Maybe, L!Types!Filled,
         L!Types!Fields, L!Types!@@

-----------------------------------------------------------------------------
(* The legacy version's welcome.                                            *)

\* The server's identity, as the legacy version writes it.
LEMMA LegacyIdentity ==
  Identity(L!Write8(L!Types!Implementation, L!ToImplementation(ServerInfo)))
  <1>. DEFINE s == L!Types!Implementation
              v == L!ToImplementation(ServerInfo)
  <1>1. /\ v.name = ServerInfo.name /\ v.version = ServerInfo.version
        /\ v.title = ServerInfo.title
        /\ v.description = None /\ v.websiteUrl = None /\ v.icons = None
    BY Options DEF L!ToImplementation, None
  <1>2. ServerInfo.title = Some("Server")
    BY DEF ServerInfo
  <1>. HIDE DEF v, s
  <1>3. Written(s, v) = {"name", "version", "title"}
    BY <1>1, <1>2, Options, LegacyImplementation DEF Written, s
  <1>4. IsWritten(L!Write8(s, v), s, v, L!Write7)
    BY LegacyStructs, LegacyImplementation DEF s
  <1>5. Identity(L!Write8(s, v))
    BY <1>1, <1>2, <1>3, <1>4, Options, LegacyImplementation, Scalars DEF IsWritten, Identity, Names, s
  <1>. QED
    BY <1>5 DEF s, v

\* What the generated type writes of what is registered: no presence markers.
LEMMA LegacyOffers ==
  LET j == L!Write8(L!Types!ServerCapabilities, L!Capabilities(features))
  IN  j.json = "object" /\ DOMAIN j.fields = features \intersect {"tools", "resources", "prompts"}
  <1>. DEFINE s == L!Types!ServerCapabilities
              v == L!Capabilities(features)
              offers == {"prompts", "resources", "tools"}
  <1>1. /\ \A f \in offers : IsEmpty(v[f]) <=> f \notin features
        /\ \A f \in {"completions", "experimental", "logging"} : v[f] = EmptyMap
        /\ v["tasks"] = None
    BY Options DEF L!Capabilities, IsEmpty, None, Some
  <1>. HIDE DEF v, s
  <1>2. Written(s, v) = features \intersect offers
    BY <1>1, Options, LegacyServerCapabilities DEF Written, s
  <1>3. IsWritten(L!Write8(s, v), s, v, L!Write7)
    BY LegacyStructs, LegacyServerCapabilities DEF s
  <1>. QED
    BY <1>2, <1>3 DEF IsWritten, s, v

\* handle_initialize: the answer, with the presence markers patched in.
LEMMA LegacyWelcomes ==
  ASSUME ~IsDraft
  PROVE  \E identity, capabilities :
           Introduces(L!InitializeResponse(features, ServerInfo, Instructions),
                      identity, capabilities)
  <1>. DEFINE s == L!Types!InitializeResult
              v == [capabilities |-> L!Capabilities(features), instructions |-> Instructions,
                    _meta |-> L!EmptyMap, protocolVersion |-> "2025-11-25",
                    serverInfo |-> L!ToImplementation(ServerInfo)]
              written == L!Write9(s, v)
              caps == written.fields["capabilities"]
              marked == L!Obj(L!@@(L!Markers(features), caps.fields))
              result == L!InitializeResponse(features, ServerInfo, Instructions)
  <1>1. /\ v["instructions"] = Instructions /\ ~IsEmpty(Instructions) /\ v["_meta"] = EmptyMap
        /\ v["capabilities"] = L!Capabilities(features)
        /\ v["serverInfo"] = L!ToImplementation(ServerInfo)
    BY Options DEF Instructions
  <1>2. result = L!Put(written, "capabilities", marked)
    BY DEF L!InitializeResponse, L!Write
  <1>3. IsWritten(written, s, v, L!Write8)
    BY LegacyStructs, LegacyInitialize
  <1>. HIDE DEF s, v
  <1>4. Written(s, v) = {"capabilities", "protocolVersion", "serverInfo", "instructions"}
    BY <1>1, LegacyInitialize, Options DEF Written, s
  <1>. HIDE DEF written
  <1>5. /\ written.json = "object" /\ DOMAIN written.fields = Written(s, v)
        /\ Identity(written.fields["serverInfo"])
        /\ written.fields["instructions"] = Token(Instructions[1])
        /\ caps = L!Write8(L!Types!ServerCapabilities, L!Capabilities(features))
    BY <1>1, <1>3, <1>4, LegacyInitialize, LegacyIdentity, Scalars DEF IsWritten, s
  <1>6. DOMAIN marked.fields = Advertised
    <2>1. DOMAIN L!Markers(features) = features \intersect {"completions", "logging", "tasks"}
      BY DEF L!Markers
    <2>2. DOMAIN marked.fields = DOMAIN L!Markers(features) \union DOMAIN caps.fields
      BY DEF L!Obj, L!@@
    <2>. QED
      BY <2>1, <2>2, <1>5, LegacyOffers DEF Advertised
  <1>. HIDE DEF caps, marked, result
  <1>7. Introduces(result, written.fields["serverInfo"], marked)
    BY <1>2, <1>4, <1>5, <1>6, Inserts DEF Introduces
  <1>. QED
    BY <1>7 DEF result

-----------------------------------------------------------------------------
(* What is read.                                                            *)

\* turbomcp_core::Implementation, as the client reads a server's identity.
LEMMA CoreType ==
  /\ CoreImplementation.shape = "struct"
  /\ DOMAIN CoreImplementation.fields = {"name", "version", "title", "extra"}
  /\ \A f \in {"name", "version"} : CoreImplementation.fields[f] = [how |-> "need", of |-> Scalar]
  /\ CoreImplementation.fields["title"] = [how |-> "maybe", of |-> Scalar]
  /\ CoreImplementation.fields["extra"].how = "rest"
  BY DEF CoreImplementation, Struct, Need, Maybe, Fields, @@, Rest, :>

\* A string is read as what it says, and nothing else is read as a string.
LEMMA TokensAreRead ==
  /\ \A v : /\ Token(v).json = "token" /\ Parsed8(Scalar, Token(v)) = v /\ Parsed7(Scalar, Token(v)) = v
            /\ Readable17(Scalar, Token(v)) /\ Readable16(Scalar, Token(v))
  /\ \A j : (Readable16(Scalar, j) <=> j.json = "token") /\ Parsed7(Scalar, j) = j.of
  /\ L!Types!Scalar = Scalar
  <1>1. \A j : (Readable16(Scalar, j) <=> j.json = "token") /\ (Readable17(Scalar, j) <=> j.json = "token")
    BY DEF Readable17, Readable16, ReadableAt, Accepted, Scalar
  <1>2. \A j : Parsed8(Scalar, j) = j.of /\ Parsed7(Scalar, j) = j.of
    <2>1. \A j, parts : Built(Scalar, j, parts) = j.of
      BY DEF Built, Scalar
    <2>. QED
      BY <2>1 DEF Parsed8, Parsed7, ParsedAt
  <1>3. L!Types!Scalar = Scalar
    BY DEF L!Types!Scalar, Scalar
  <1>4. \A v : Token(v).json = "token" /\ Token(v).of = v
    BY DEF Token
  <1>. QED
    BY <1>1, <1>2, <1>3, <1>4

\* Free JSON is read as it is.
LEMMA JsonIsRead == \A j : Readable16(Json, j) /\ Parsed7(Json, j) = j
  BY DEF Readable16, ReadableAt, Accepted, Parsed7, ParsedAt, Built, Json

\* A struct reads this field of an object.
IsRead(s, j, f) ==
    /\ f \in DOMAIN s.fields /\ f \in DOMAIN j.fields /\ s.fields[f].how # "rest"
    /\ s.fields[f].how \in {"maybe", "nullable"} => j.fields[f].json # "null"

\* The parts in which it reads it.
PartsAre(parts, s, j) ==
    \A f : /\ f \in DOMAIN parts <=> IsRead(s, j, f)
           /\ f \in DOMAIN parts => parts[f].of = s.fields[f].of /\ parts[f].value = j.fields[f]

\* JsonParts of a struct: the fields it declares that the object has, a null not
\* counting for an Option.
LEMMA StructParts ==
  ASSUME NEW s, NEW j, s.shape = "struct", j.json = "object", NEW variants
  PROVE  PartsAre(JsonParts(s, j, variants), s, j)
  BY DEF PartsAre, IsRead, JsonParts, Has, IsObject, Part

\* A struct accepts an object that has the fields it needs and of which it can
\* read the fields it knows.
LEMMA StructsAreReadable ==
  ASSUME NEW s, NEW j, s.shape = "struct", j.json = "object",
         \A f \in DOMAIN s.fields : s.fields[f].how = "need" => f \in DOMAIN j.fields
  PROVE  /\ Readable18(s, j) <=>
              \A f : IsRead(s, j, f) => Readable17(s.fields[f].of, j.fields[f])
         /\ Readable17(s, j) <=>
              \A f : IsRead(s, j, f) => Readable16(s.fields[f].of, j.fields[f])
  <1>. DEFINE parts == JsonParts(s, j, Variants(s))
  <1>1. PartsAre(parts, s, j)
    BY StructParts
  <1>2. IsObject(j) /\ \A f \in DOMAIN s.fields : s.fields[f].how = "need" => Has(j, f)
    BY DEF Has, IsObject
  <1>3. Readable18(s, j) <=>
          {f \in DOMAIN parts : Readable17(parts[f].of, parts[f].value)} = DOMAIN parts
    <2>. HIDE DEF parts
    <2>. QED
      BY <1>2 DEF Readable18, ReadableAt, Accepted, parts
  <1>4. Readable17(s, j) <=>
          {f \in DOMAIN parts : Readable16(parts[f].of, parts[f].value)} = DOMAIN parts
    <2>. HIDE DEF parts
    <2>. QED
      BY <1>2 DEF Readable17, ReadableAt, Accepted, parts
  <1>. HIDE DEF parts
  <1>5. Readable18(s, j) <=> \A f \in DOMAIN parts : Readable17(parts[f].of, parts[f].value)
    BY <1>3
  <1>6. Readable17(s, j) <=> \A f \in DOMAIN parts : Readable16(parts[f].of, parts[f].value)
    BY <1>4
  <1>. QED
    BY <1>1, <1>5, <1>6 DEF PartsAre

\* A struct is read field by field.
LEMMA StructsAreParsed ==
  ASSUME NEW s, NEW j, s.shape = "struct", j.json = "object"
  PROVE  IsParsed(Parsed9(s, j), s, j, Parsed8) /\ IsParsed(Parsed8(s, j), s, j, Parsed7)
  <1>1. IsParsed(Parsed9(s, j), s, j, Parsed8)
    <2>1. PICK variants : Parsed9(s, j) =
            LET parts == JsonParts(s, j, variants)
            IN  Built(s, j, [k \in DOMAIN parts |-> Parsed8(parts[k].of, parts[k].value)])
      BY DEF Parsed9, ParsedAt
    <2>. DEFINE parts == JsonParts(s, j, variants)
    <2>2. PartsAre(parts, s, j)
      BY StructParts
    <2>3. Parsed9(s, j) = Built(s, j, [k \in DOMAIN parts |-> Parsed8(parts[k].of, parts[k].value)])
      BY <2>1
    <2>. HIDE DEF parts
    <2>. QED
      BY <2>2, <2>3 DEF IsParsed, Built, PartsAre, IsRead
  <1>2. IsParsed(Parsed8(s, j), s, j, Parsed7)
    <2>1. PICK variants : Parsed8(s, j) =
            LET parts == JsonParts(s, j, variants)
            IN  Built(s, j, [k \in DOMAIN parts |-> Parsed7(parts[k].of, parts[k].value)])
      BY DEF Parsed8, ParsedAt
    <2>. DEFINE parts == JsonParts(s, j, variants)
    <2>2. PartsAre(parts, s, j)
      BY StructParts
    <2>3. Parsed8(s, j) = Built(s, j, [k \in DOMAIN parts |-> Parsed7(parts[k].of, parts[k].value)])
      BY <2>1
    <2>. HIDE DEF parts
    <2>. QED
      BY <2>2, <2>3 DEF IsParsed, Built, PartsAre, IsRead
  <1>. QED
    BY <1>1, <1>2

\* An object of free JSON, and one of strings.
LEMMA BagsAreRead ==
  ASSUME NEW j, j.json = "object"
  PROVE  /\ Readable17(Bag, j) /\ Parsed8(Bag, j) = [k \in DOMAIN j.fields |-> j.fields[k]]
         /\ Readable17(BagOf(Scalar), j) <=> \A k \in DOMAIN j.fields : j.fields[k].json = "token"
         /\ Parsed8(BagOf(Scalar), j) = [k \in DOMAIN j.fields |-> j.fields[k].of]
  <1>1. ASSUME NEW s
        PROVE  /\ Readable17(BagOf(s), j) <=> \A k \in DOMAIN j.fields : Readable16(s, j.fields[k])
               /\ Parsed8(BagOf(s), j) = [k \in DOMAIN j.fields |-> Parsed7(s, j.fields[k])]
    <2>. DEFINE b == BagOf(s)
    <2>1. b.shape = "bag" /\ b.of = s
      BY DEF BagOf
    <2>. HIDE DEF b
    <2>2. \A variants :
            LET parts == JsonParts(b, j, variants)
            IN  /\ DOMAIN parts = DOMAIN j.fields
                /\ \A k \in DOMAIN parts : parts[k].of = s /\ parts[k].value = j.fields[k]
      BY <2>1 DEF JsonParts, Part, IsObject
    <2>3. Readable17(b, j) <=> \A k \in DOMAIN j.fields : Readable16(s, j.fields[k])
      <3>. DEFINE parts == JsonParts(b, j, Variants(b))
      <3>1. Readable17(b, j) <=>
              {k \in DOMAIN parts : Readable16(parts[k].of, parts[k].value)} = DOMAIN parts
        <4>. HIDE DEF parts
        <4>. QED
          BY <2>1 DEF Readable17, ReadableAt, Accepted, IsObject, parts
      <3>2. /\ DOMAIN parts = DOMAIN j.fields
            /\ \A k \in DOMAIN parts : parts[k].of = s /\ parts[k].value = j.fields[k]
        BY <2>2
      <3>. HIDE DEF parts
      <3>. QED
        BY <3>1, <3>2
    <2>4. Parsed8(b, j) = [k \in DOMAIN j.fields |-> Parsed7(s, j.fields[k])]
      BY <2>1, <2>2 DEF Parsed8, ParsedAt, Built
    <2>. QED
      BY <2>3, <2>4 DEF b
  <1>. QED
    BY <1>1, JsonIsRead, TokensAreRead DEF Bag

\* The client reads the server's identity as the server has it.
LEMMA IdentityIsRead ==
  ASSUME NEW j, Identity(j)
  PROVE  /\ Readable(CoreImplementation, j)
         /\ LET i == Parsed(CoreImplementation, j)
            IN  [name |-> i.name, version |-> i.version, title |-> i.title] = ServerInfo
  <1>1. Readable18(CoreImplementation, j)
    <2>1. /\ j.json = "object" /\ DOMAIN j.fields = {"name", "version", "title"}
          /\ \A f \in DOMAIN j.fields : \E v : j.fields[f] = Token(v)
      BY DEF Identity, Names
    <2>. QED
      BY <2>1, CoreType, TokensAreRead, StructsAreReadable DEF IsRead
  <1>. DEFINE i == Parsed9(CoreImplementation, j)
  <1>2. /\ i.name = Parsed8(Scalar, j.fields["name"])
        /\ i.version = Parsed8(Scalar, j.fields["version"])
        /\ i.title = Some(Parsed8(Scalar, j.fields["title"]))
    BY CoreType, TokensAreRead, StructsAreParsed DEF Identity, Names, IsParsed
  <1>. HIDE DEF i
  <1>3. i.name = "server" /\ i.version = "1" /\ i.title = Some("Server")
    BY <1>2, TokensAreRead, Options DEF Identity, Names, ServerInfo
  <1>. QED
    BY <1>1, <1>3 DEF Readable, Parsed, i, ServerInfo

\* Handshake::from_result on a welcome.
LEMMA Introduced ==
  ASSUME NEW result, NEW identity, NEW capabilities, Introduces(result, identity, capabilities)
  PROVE  LET k == FromResult(result)
         IN  /\ k.info = Some(ServerInfo) /\ k.instructions = Instructions
             /\ DOMAIN k.capabilities.fields = Advertised
  <1>. DEFINE meta == IF Has(result, "_meta") THEN result.fields["_meta"] ELSE Obj(EmptyMap)
              found == IF Has(result, "serverInfo") THEN Some(result.fields["serverInfo"])
                       ELSE IF Has(meta, Identifier) THEN Some(meta.fields[Identifier]) ELSE None
  <1>1. found = Some(identity)
    BY DEF Introduces, Has, IsObject
  <1>2. /\ Readable(CoreImplementation, identity)
        /\ LET i == Parsed(CoreImplementation, identity)
           IN  [name |-> i.name, version |-> i.version, title |-> i.title] = ServerInfo
    BY IdentityIsRead DEF Introduces
  <1>3. FromResult(result).info = Some(ServerInfo)
    <2>1. FromResult(result).info =
            IF found # None /\ Readable(CoreImplementation, found[1])
            THEN LET i == Parsed(CoreImplementation, found[1])
                 IN Some([name |-> i.name, version |-> i.version, title |-> i.title])
            ELSE None
      BY DEF FromResult, Identifier
    <2>. HIDE DEF found
    <2>. QED
      BY <1>1, <1>2, <2>1, Options
  <1>4. FromResult(result).instructions = Instructions
    <2>1. result.fields["instructions"] = Token(Instructions[1]) /\ Has(result, "instructions")
      BY DEF Introduces, Has, IsObject
    <2>2. Token(Instructions[1]).json = "token" /\ Token(Instructions[1]).of = Instructions[1]
      BY DEF Token
    <2>3. FromResult(result).instructions = Some(Instructions[1])
      BY <2>1, <2>2 DEF FromResult
    <2>. QED
      BY <2>3, Options DEF Instructions
  <1>5. FromResult(result).capabilities = capabilities
    BY DEF FromResult, Introduces, Has, IsObject
  <1>. QED
    BY <1>3, <1>4, <1>5 DEF Introduces

\* What a session keeps of the declared capabilities.
LEMMA SessionKeeps ==
  ASSUME NEW json, json.json = "object",
         \A f \in DOMAIN json.fields : json.fields[f].json # "null",
         NEW c \in {"elicitation", "roots", "sampling", "tasks"}
  PROVE  Has(L!SessionCapabilities(json), c) <=> Has(json, c)
  <1>. DEFINE s == L!Types!ClientCapabilities
              v == L!Parsed9(s, json)
  <1>1. v[c] = IF c \in DOMAIN json.fields
               THEN Some(L!Parsed8(s.fields[c].of, json.fields[c])) ELSE None
    <2>1. PICK variants : v =
            LET parts == L!JsonParts(s, json, variants)
            IN  L!Built(s, json, [k \in DOMAIN parts |-> L!Parsed8(parts[k].of, parts[k].value)])
      BY DEF L!Parsed9, L!ParsedAt
    <2>. DEFINE parts == L!JsonParts(s, json, variants)
    <2>2. /\ c \in DOMAIN parts <=> c \in DOMAIN json.fields
          /\ c \in DOMAIN parts => parts[c].of = s.fields[c].of /\ parts[c].value = json.fields[c]
      BY LegacyClientCapabilities DEF L!JsonParts, L!Has, L!IsObject, L!Part
    <2>3. v = L!Built(s, json, [k \in DOMAIN parts |-> L!Parsed8(parts[k].of, parts[k].value)])
      BY <2>1
    <2>. HIDE DEF parts, v
    <2>. QED
      BY <2>2, <2>3, LegacyClientCapabilities, Options DEF L!Built
  <1>2. IsWritten(L!Write9(s, v), s, v, L!Write8)
    BY LegacyStructs, LegacyClientCapabilities
  <1>. HIDE DEF s, v
  <1>3. c \in Written(s, v) <=> c \in DOMAIN json.fields
    BY <1>1, LegacyClientCapabilities, Options DEF Written, s
  <1>. QED
    BY <1>2, <1>3 DEF L!SessionCapabilities, L!Write, L!Parsed, Has, IsObject, IsWritten, s, v

-----------------------------------------------------------------------------
(* The course of a conversation.                                            *)

\* The capabilities that a question of a handler needs (require_capability).
Gates == {"elicitation", "roots"}
\* Where the draft's requests declare the client's capabilities.
CapabilitiesKey == "io.modelcontextprotocol/clientCapabilities"

\* These capabilities open the gates that the declared ones open.
Tells(capabilities) == \A c \in Gates : Has(capabilities, c) <=> Has(declared, c)

\* A value of JSON, which says what kind it is.
IsJson(j) == "json" \in DOMAIN j

\* The legacy client introduces itself with its capabilities ...
GreetingTells ==
    stage = "greeting" /\ ~IsDraft => wire.body.fields["capabilities"] = declared

\* ... which the session keeps from then on.
SessionTells ==
    ~IsDraft /\ stage \notin {"start", "greeting", "unwelcome"} => Tells(session.capabilities)

\* The draft's calls carry them, and in a retry the answer to the question.
CallTells ==
    stage = "called" /\ IsDraft =>
        /\ wire.body.fields["_meta"].fields[CapabilitiesKey] = declared
        /\ wire.body.json = "object"
        /\ "inputResponses" \in DOMAIN wire.body.fields =>
             \E answer : /\ IsJson(answer)
                         /\ wire.body.fields["inputResponses"] = Obj([key |-> answer])

\* A handler knows them while it may ask.
HandlerKnows ==
    stage \in {"serving", "asked", "answered"} => Tells(heard.context.capabilities)

\* The welcome on its way tells of the server what the client will know of it.
WelcomeTells ==
    stage = "welcome" => \E identity, capabilities : Introduces(wire.body, identity, capabilities)

\* An answer is JSON, and nothing was refused before a question or while one
\* is under way.
AnswersTell ==
    /\ stage = "answered" => IsJson(wire.body)
    /\ question = Nothing \/ stage \in {"start", "greeting", "welcome", "idle", "called",
                                        "asked", "answered"} => told # Undeclared

\* What the connection was set up with.
VersionIsKnown == version \in {Draft, Legacy} /\ declared \in CapabilitySets

\* The inductive invariant: each hand over which a side's account of itself
\* passes tells the same, and the two properties it is for.
WireInv ==
    /\ VersionIsKnown
    /\ GreetingTells /\ SessionTells /\ CallTells /\ HandlerKnows /\ WelcomeTells /\ AnswersTell
    /\ PeersAgree

\* An object of JSON.
LEMMA Objects ==
  ASSUME NEW f
  PROVE  Obj(f).json = "object" /\ Obj(f).fields = f /\ IsJson(Obj(f))
  BY DEF Obj, IsJson

\* Map::insert of the client.
LEMMA Puts ==
  ASSUME NEW j, NEW k, NEW v
  PROVE  /\ Put(j, k, v).json = "object"
         /\ DOMAIN Put(j, k, v).fields = {k} \union DOMAIN j.fields
         /\ Put(j, k, v).fields[k] = v
         /\ \A f \in DOMAIN j.fields \ {k} : Put(j, k, v).fields[f] = j.fields[f]
  BY DEF Put, Obj, @@, :>

\* The body of a message.
LEMMA Messages ==
  ASSUME NEW role, NEW method, NEW body
  PROVE  Message(role, method, body).body = body
  BY DEF Message

\* versioned_request adds to `_meta' and leaves the rest.
LEMMA Versioned ==
  ASSUME NEW params
  PROVE  /\ VersionedRequest(params).json = "object"
         /\ DOMAIN VersionedRequest(params).fields = {"_meta"} \union DOMAIN params.fields
         /\ \A f \in DOMAIN params.fields \ {"_meta"} :
              VersionedRequest(params).fields[f] = params.fields[f]
         /\ IsDraft => VersionedRequest(params).fields["_meta"].fields[CapabilitiesKey] = declared
  <1>1. IsDraft => VersionedRequest(params).fields["_meta"].fields[CapabilitiesKey] = declared
    BY Puts DEF VersionedRequest, RequestMeta, @@, :>, Obj, CapabilitiesKey
  <1>. QED
    BY <1>1, Puts DEF VersionedRequest

\* What a request gets besides its parameters on the way: versioned_request adds the
\* metadata, a retry the answers and the server's state (mrtr.rs).
Added == {"_meta", "inputResponses", "requestState"}

\* A request's own parameters are none of what is added to them.
LEMMA ParamsKeepClear ==
  ASSUME NEW m \in Methods \union Plain, NEW a \in Asks(m)
  PROVE  DOMAIN Params(m, a).fields \intersect Added = {}
  <1>. USE DEF Added
  <1>1. CASE m \in Paginated \union {"tasks/list"}
    <2>1. DOMAIN Optional("cursor", a.cursor) \subseteq {"cursor"}
      BY Options DEF Optional, :>
    <2>2. Params(m, a) = Obj(Optional("cursor", a.cursor))
      BY <1>1 DEF Params, Paginated
    <2>. QED
      BY <2>1, <2>2, Objects
  <1>2. CASE m = "tools/call"
    BY <1>2 DEF Params, Optional, EmptyMap, :>, @@, Obj, Paginated
  <1>3. CASE m \in {"prompts/get", "completion/complete"}
    BY <1>3 DEF Params, Obj, Paginated
  <1>4. CASE m \in {"resources/read", "tasks/cancel", "logging/setLevel",
                    "resources/subscribe", "resources/unsubscribe"}
    BY <1>4 DEF Params, Asks, Tokens, Obj, Paginated, Plain, TaskMethods
  <1>. QED
    BY <1>1, <1>2, <1>3, <1>4 DEF Methods, Cacheable, Paginated, Interactive, Plain, TaskMethods

\* What the handler is told of an answer is never that it may not ask.
LEMMA AnswersAreAnswers ==
  ASSUME NEW json, IsJson(json)
  PROVE  OfAnswer(json) # Undeclared
  <1>1. CASE question.method = "roots/list"
    BY <1>1 DEF OfAnswer, Undeclared, IsJson
  <1>2. CASE question.method # "roots/list"
    BY <1>2 DEF OfAnswer, ParseElicitOutcome, Refused, Undeclared
  <1>. QED
    BY <1>1, <1>2

\* The answers that come with a retry (mrtr_handle).
LEMMA ResponsesAreRead ==
  ASSUME IsDraft => wire.body.json = "object",
         IsDraft /\ "inputResponses" \in DOMAIN wire.body.fields =>
           wire.body.fields["inputResponses"].json = "object",
         NEW k \in DOMAIN Responses
  PROVE  /\ IsDraft /\ "inputResponses" \in DOMAIN wire.body.fields
         /\ k \in DOMAIN wire.body.fields["inputResponses"].fields
         /\ Responses[k] = wire.body.fields["inputResponses"].fields[k]
  <1>. DEFINE s == RawMrtrFields
              fields == Parsed9(s, wire.body)
              answers == wire.body.fields["inputResponses"]
  <1>1. IsDraft /\ Responses = fields.inputResponses[1] /\ fields.inputResponses # None
    BY Options DEF Responses, Parsed
  <1>2. /\ s.shape = "struct" /\ "inputResponses" \in DOMAIN s.fields
        /\ s.fields["inputResponses"] = [how |-> "maybe", of |-> Bag]
    BY DEF RawMrtrFields, Struct, Maybe, Fields
  <1>. HIDE DEF s
  <1>3. IsParsed(fields, s, wire.body, Parsed8)
    BY <1>1, <1>2, StructsAreParsed
  <1>. HIDE DEF fields
  <1>4. "inputResponses" \in DOMAIN wire.body.fields /\ Responses = Parsed8(Bag, answers)
    BY <1>1, <1>2, <1>3, Options DEF IsParsed
  <1>. QED
    BY <1>1, <1>4, BagsAreRead

-----------------------------------------------------------------------------
(* The steps.                                                               *)

\* The setup of a connection does not change.
LEMMA SetupStays ==
  ASSUME Next
  PROVE  /\ UNCHANGED setup /\ (IsDraft' <=> IsDraft) /\ Advertised' = Advertised
         /\ \A json : Tells(json)' <=> Tells(json)
  <1>1. UNCHANGED setup
    BY DEF Next, Greet, Discover, Initialize, Join, Call, Serve, MethodNotFound, Refuse, Ask, Fill,
           Hear, Answer, Receive, Accept, Poll, Report, Deliver, Acknowledge, Publish, Finish
  <1>. QED
    BY <1>1 DEF setup, IsDraft, Advertised, Extensions, Tells

\* Until the session is made, and when it is.
LEMMA HandshakeSteps ==
  ASSUME WireInv, Greet \/ Discover \/ Initialize \/ Join
  PROVE  WireInv'
  <1>1. /\ UNCHANGED setup /\ (IsDraft' <=> IsDraft) /\ Advertised' = Advertised
        /\ \A json : Tells(json)' <=> Tells(json)
    BY SetupStays DEF Next
  <1>2. VersionIsKnown'
    BY <1>1 DEF setup, VersionIsKnown, WireInv
  <1>3. UNCHANGED <<question, told, heard>>
    BY DEF Greet, Discover, Initialize, Join, dialog
  <1>4. DeclaredIsGated'
    BY <1>1, <1>3 DEF setup, DeclaredIsGated, PeersAgree, WireInv
  <1>5. CASE Greet
    <2>1. stage' = "greeting" /\ UNCHANGED <<known, session>> /\ stage = "start"
      BY <1>5 DEF Greet
    <2>2. GreetingTells'
      BY <1>1, <1>5, Messages, Objects DEF Greet, GreetingTells, setup
    <2>3. SessionTells' /\ CallTells' /\ HandlerKnows' /\ WelcomeTells'
      BY <2>1 DEF SessionTells, CallTells, HandlerKnows, WelcomeTells
    <2>4. AnswersTell'
      BY <1>3, <2>1 DEF AnswersTell, WireInv
    <2>5. HandshakeAgrees'
      BY <1>1, <2>1 DEF HandshakeAgrees, PeersAgree, WireInv
    <2>. QED
      BY <1>2, <1>4, <2>2, <2>3, <2>4, <2>5 DEF WireInv, PeersAgree
  <1>6. CASE Discover
    <2>1. stage = "greeting" /\ stage' = "welcome" /\ UNCHANGED <<known, session>> /\ IsDraft
      BY <1>6 DEF Discover
    <2>2. GreetingTells' /\ SessionTells' /\ CallTells' /\ HandlerKnows'
      BY <1>1, <2>1 DEF GreetingTells, SessionTells, CallTells, HandlerKnows
    <2>3. WelcomeTells'
      <3>1. PICK identity, capabilities : Introduces(wire'.body, identity, capabilities)
        BY <1>6, <2>1, DraftWelcomes, Messages DEF Discover
      <3>2. Introduces(wire.body, identity, capabilities)'
        BY <1>1, <3>1 DEF Introduces
      <3>. QED
        BY <3>2 DEF WelcomeTells
    <2>4. AnswersTell'
      BY <1>3, <2>1 DEF AnswersTell, WireInv
    <2>5. HandshakeAgrees'
      BY <1>1, <2>1 DEF HandshakeAgrees, PeersAgree, WireInv
    <2>. QED
      BY <1>2, <1>4, <2>2, <2>3, <2>4, <2>5 DEF WireInv, PeersAgree
  <1>7. CASE Initialize
    <2>1. stage = "greeting" /\ stage' \in {"welcome", "unwelcome"} /\ UNCHANGED known /\ ~IsDraft
      BY <1>7 DEF Initialize
    <2>2. GreetingTells' /\ CallTells' /\ HandlerKnows'
      BY <1>1, <2>1 DEF GreetingTells, CallTells, HandlerKnows
    <2>3. SessionTells'
      <3>1. SUFFICES ASSUME stage' = "welcome" PROVE Tells(session'.capabilities)
        BY <1>1, <2>1 DEF SessionTells
      <3>2. session'.capabilities = L!SessionCapabilities(declared)
        BY <1>7, <2>1, <3>1 DEF Initialize, GreetingTells, WireInv
      <3>. QED
        BY <3>2, SessionKeeps, CapabilitiesAssumption
           DEF CapabilitiesAssumption, WireInv, VersionIsKnown, IsObject, Tells, Gates
    <2>4. WelcomeTells'
      <3>1. SUFFICES ASSUME stage' = "welcome" PROVE WelcomeTells'
        BY DEF WelcomeTells
      <3>2. PICK identity, capabilities : Introduces(wire'.body, identity, capabilities)
        BY <1>7, <2>1, <3>1, LegacyWelcomes, Messages DEF Initialize
      <3>3. Introduces(wire.body, identity, capabilities)'
        BY <1>1, <3>2 DEF Introduces
      <3>. QED
        BY <3>3 DEF WelcomeTells
    <2>5. AnswersTell'
      BY <1>3, <2>1 DEF AnswersTell, WireInv
    <2>6. HandshakeAgrees'
      BY <1>1, <2>1 DEF HandshakeAgrees, PeersAgree, WireInv
    <2>. QED
      BY <1>2, <1>4, <2>2, <2>3, <2>4, <2>5, <2>6 DEF WireInv, PeersAgree
  <1>8. CASE Join
    <2>1. stage = "welcome" /\ stage' = "idle" /\ UNCHANGED session /\ known' = FromResult(wire.body)
      BY <1>8 DEF Join
    <2>2. GreetingTells' /\ CallTells' /\ HandlerKnows' /\ WelcomeTells'
      BY <2>1 DEF GreetingTells, CallTells, HandlerKnows, WelcomeTells
    <2>3. SessionTells'
      BY <1>1, <2>1 DEF SessionTells, WireInv
    <2>4. AnswersTell'
      BY <1>3, <2>1 DEF AnswersTell, WireInv
    <2>5. HandshakeAgrees'
      <3>1. PICK identity, capabilities : Introduces(wire.body, identity, capabilities)
        BY <2>1 DEF WireInv, WelcomeTells
      <3>. QED
        BY <1>1, <2>1, <3>1, Introduced DEF HandshakeAgrees
    <2>. QED
      BY <1>2, <1>4, <2>2, <2>3, <2>4, <2>5 DEF WireInv, PeersAgree
  <1>. QED
    BY <1>5, <1>6, <1>7, <1>8

\* What a step leaves alone when it keeps the handshake and says nothing to a
\* handler.
LEMMA TalkGoesOn ==
  ASSUME WireInv, Next, UNCHANGED <<known, session, question, told>>,
         stage \notin {"start", "greeting", "unwelcome"},
         stage' \in {"refusing", "serving", "accepting", "replied", "polling", "polled", "done"},
         HandlerKnows'
  PROVE  WireInv'
  <1>1. /\ UNCHANGED setup /\ (IsDraft' <=> IsDraft) /\ Advertised' = Advertised
        /\ \A json : Tells(json)' <=> Tells(json)
    BY SetupStays
  <1>2. VersionIsKnown'
    BY <1>1 DEF setup, VersionIsKnown, WireInv
  <1>3. GreetingTells' /\ CallTells' /\ WelcomeTells'
    BY DEF GreetingTells, CallTells, WelcomeTells
  <1>4. SessionTells'
    BY <1>1 DEF SessionTells, WireInv
  <1>5. AnswersTell'
    BY DEF AnswersTell, WireInv
  <1>6. PeersAgree'
    BY <1>1 DEF setup, HandshakeAgrees, DeclaredIsGated, PeersAgree, WireInv
  <1>. QED
    BY <1>2, <1>3, <1>4, <1>5, <1>6 DEF WireInv

\* A call is made, and what the handler hears of who makes it.
LEMMA CallSteps ==
  ASSUME WireInv, (\E m \in Methods \union Plain : Call(m)) \/ Serve
  PROVE  WireInv'
  <1>1. /\ UNCHANGED setup /\ (IsDraft' <=> IsDraft) /\ Advertised' = Advertised
        /\ \A json : Tells(json)' <=> Tells(json)
    BY SetupStays DEF Next
  <1>2. VersionIsKnown'
    BY <1>1 DEF setup, VersionIsKnown, WireInv
  <1>3. ASSUME NEW m \in Methods \union Plain, Call(m) PROVE WireInv'
    <2>1. /\ stage = "idle" /\ stage' = "called"
          /\ UNCHANGED <<known, session, heard, question, told>>
      BY <1>3 DEF Call, dialog
    <2>2. PICK a \in Asks(m) : wire'.body = VersionedRequest(Params(m, a))
      BY <1>3, Messages DEF Call
    <2>3. CallTells'
      <3>1. "inputResponses" \notin DOMAIN wire'.body.fields
        BY <2>2, ParamsKeepClear, Versioned DEF Added
      <3>2. IsDraft => wire'.body.fields["_meta"].fields[CapabilitiesKey] = declared
        BY <2>2, Versioned
      <3>3. wire'.body.json = "object"
        BY <2>2, Versioned
      <3>. QED
        BY <1>1, <3>1, <3>2, <3>3 DEF CallTells, setup
    <2>4. GreetingTells' /\ HandlerKnows' /\ WelcomeTells'
      BY <2>1 DEF GreetingTells, HandlerKnows, WelcomeTells
    <2>5. SessionTells'
      BY <1>1, <2>1 DEF SessionTells, WireInv
    <2>6. AnswersTell'
      BY <2>1 DEF AnswersTell, WireInv
    <2>7. PeersAgree'
      BY <1>1, <2>1 DEF setup, HandshakeAgrees, DeclaredIsGated, PeersAgree, WireInv
    <2>. QED
      BY <1>2, <2>3, <2>4, <2>5, <2>6, <2>7 DEF WireInv
  <1>4. CASE Serve
    <2>1. /\ stage = "called" /\ stage' \in {"refusing", "accepting", "serving"}
          /\ UNCHANGED <<known, session, question>>
          /\ told' = IF "key" \in DOMAIN Responses THEN OfAnswer(Responses["key"]) ELSE told
          /\ heard'.context = Context
      BY <1>4 DEF Serve
    <2>2. told' # Undeclared /\ told # Undeclared
      <3>1. ASSUME "key" \in DOMAIN Responses PROVE IsJson(Responses["key"])
        <4>1. IsDraft => /\ wire.body.json = "object"
                         /\ "inputResponses" \in DOMAIN wire.body.fields =>
                              \E answer : /\ IsJson(answer)
                                          /\ wire.body.fields["inputResponses"] = Obj([key |-> answer])
          BY <2>1 DEF CallTells, WireInv
        <4>2. /\ IsDraft /\ "inputResponses" \in DOMAIN wire.body.fields
              /\ Responses["key"] = wire.body.fields["inputResponses"].fields["key"]
          BY <3>1, <4>1, ResponsesAreRead, Objects
        <4>3. PICK answer : /\ IsJson(answer)
                            /\ wire.body.fields["inputResponses"] = Obj([key |-> answer])
          BY <4>1, <4>2
        <4>4. Responses["key"] = [key |-> answer]["key"]
          BY <4>2, <4>3, Objects
        <4>. QED
          BY <4>3, <4>4
      <3>. QED
        BY <2>1, <3>1, AnswersAreAnswers DEF AnswersTell, WireInv
    <2>3. HandlerKnows'
      <3>1. CASE IsDraft
        BY <1>1, <2>1, <3>1 DEF HandlerKnows, WireInv, CallTells, Context, CapabilitiesKey, Tells, setup
      <3>2. CASE ~IsDraft
        BY <1>1, <2>1, <3>2 DEF HandlerKnows, WireInv, SessionTells, Context
      <3>. QED
        BY <3>1, <3>2
    <2>4. GreetingTells' /\ CallTells' /\ WelcomeTells'
      BY <2>1 DEF GreetingTells, CallTells, WelcomeTells
    <2>5. SessionTells'
      BY <1>1, <2>1 DEF SessionTells, WireInv
    <2>6. AnswersTell'
      BY <2>1, <2>2 DEF AnswersTell
    <2>7. PeersAgree'
      BY <1>1, <2>1, <2>2 DEF setup, HandshakeAgrees, DeclaredIsGated, PeersAgree, WireInv
    <2>. QED
      BY <1>2, <2>3, <2>4, <2>5, <2>6, <2>7 DEF WireInv
  <1>. QED
    BY <1>3, <1>4

\* The fields of a retry that the client adds to the call.
LEMMA Retries ==
  ASSUME NEW params, NEW answer, NEW state
  PROVE  LET retry == VersionedRequest(Put(Put(params, "inputResponses", Obj([key |-> answer])),
                                           "requestState", state))
         IN  /\ retry.json = "object"
             /\ retry.fields["inputResponses"] = Obj([key |-> answer])
             /\ IsDraft => retry.fields["_meta"].fields[CapabilitiesKey] = declared
  <1>. DEFINE answers == Put(params, "inputResponses", Obj([key |-> answer]))
              asked == Put(answers, "requestState", state)
  <1>1. /\ "inputResponses" \in DOMAIN answers.fields
        /\ answers.fields["inputResponses"] = Obj([key |-> answer])
    BY Puts
  <1>. HIDE DEF answers
  <1>2. /\ "inputResponses" \in DOMAIN asked.fields
        /\ asked.fields["inputResponses"] = Obj([key |-> answer])
    BY <1>1, Puts
  <1>. HIDE DEF asked
  <1>3. VersionedRequest(asked).fields["inputResponses"] = Obj([key |-> answer])
    BY <1>2, Versioned
  <1>. QED
    BY <1>3, Versioned, Objects DEF asked, answers

\* A question, the client's answer, and what the handler hears of it.
LEMMA QuestionSteps ==
  ASSUME WireInv, Ask \/ Fill \/ Hear
  PROVE  WireInv'
  <1>1. /\ UNCHANGED setup /\ (IsDraft' <=> IsDraft) /\ Advertised' = Advertised
        /\ \A json : Tells(json)' <=> Tells(json)
    BY SetupStays DEF Next
  <1>2. VersionIsKnown' /\ UNCHANGED <<known, session, heard>>
    BY <1>1 DEF setup, VersionIsKnown, WireInv, Ask, Fill, Hear
  <1>3. HandshakeAgrees'
    BY <1>1, <1>2 DEF HandshakeAgrees, PeersAgree, WireInv
  <1>4. CASE Ask
    <2>1. /\ stage = "serving" /\ question = Nothing
          /\ stage' \in {"serving", "asked"}
      BY <1>4 DEF Ask
    <2>2. PICK q \in Questions :
            /\ question' = q
            /\ IF Has(heard.context.capabilities, q.capability)
               THEN stage' = "asked" /\ UNCHANGED told
               ELSE told' = Undeclared /\ UNCHANGED stage
      BY <1>4 DEF Ask
    <2>3. q.capability \in Gates /\ q # Nothing
      BY DEF Questions, Gates, Nothing
    <2>4. Has(heard.context.capabilities, q.capability) <=> Has(declared, q.capability)
      BY <2>1, <2>3 DEF WireInv, HandlerKnows, Tells
    <2>5. told # Undeclared
      BY <2>1 DEF WireInv, AnswersTell
    <2>6. DeclaredIsGated'
      BY <1>1, <2>2, <2>4, <2>5 DEF DeclaredIsGated, setup
    <2>7. AnswersTell'
      BY <2>1, <2>2, <2>3, <2>5 DEF AnswersTell
    <2>8. GreetingTells' /\ CallTells' /\ WelcomeTells'
      BY <2>1 DEF GreetingTells, CallTells, WelcomeTells
    <2>9. SessionTells' /\ HandlerKnows'
      BY <1>1, <1>2, <2>1 DEF SessionTells, HandlerKnows, WireInv
    <2>. QED
      BY <1>2, <1>3, <2>6, <2>7, <2>8, <2>9 DEF WireInv, PeersAgree
  <1>5. CASE Fill
    <2>1. /\ stage = "asked" /\ UNCHANGED <<question, told>>
          /\ stage' = IF IsDraft THEN "called" ELSE "answered"
      BY <1>5 DEF Fill
    <2>2. PICK answer :
            /\ IsJson(answer)
            /\ IsDraft =>
                 wire'.body = VersionedRequest(
                   Put(Put(Params(call.method, call.asked), "inputResponses", Obj([key |-> answer])),
                       "requestState", wire.body.fields["requestState"]))
            /\ ~IsDraft => wire'.body = answer
      <3>1. IsJson(NoRoots) /\ \A o \in ElicitOutcomes : IsJson(ElicitOutcomeValue(o))
        BY Objects DEF NoRoots, ElicitOutcomeValue
      <3>. DEFINE retry(answer) == VersionedRequest(
                    Put(Put(Params(call.method, call.asked), "inputResponses",
                            Obj([key |-> answer])),
                        "requestState", wire.body.fields["requestState"]))
                  Goes(answer) == \E method :
                    wire' = IF IsDraft THEN Message("request", call.method, retry(answer))
                                       ELSE Message("result", method, answer)
      <3>2. (\E o \in ElicitOutcomes : Goes(ElicitOutcomeValue(o))) \/ Goes(NoRoots)
        <4>. HIDE DEF retry
        <4>. QED
          BY <1>5 DEF Fill, retry
      <3>3. PICK answer : IsJson(answer) /\ Goes(answer)
        <4>. HIDE DEF Goes
        <4>. QED
          BY <3>1, <3>2
      <3>. HIDE DEF retry
      <3>4. (IsDraft => wire'.body = retry(answer)) /\ (~IsDraft => wire'.body = answer)
        BY <3>3, Messages
      <3>. QED
        BY <3>3, <3>4 DEF retry
    <2>3. CallTells'
      <3>1. SUFFICES ASSUME IsDraft
                     PROVE  /\ wire'.body.fields["_meta"].fields[CapabilitiesKey] = declared
                            /\ wire'.body.json = "object"
                            /\ wire'.body.fields["inputResponses"] = Obj([key |-> answer])
        BY <1>1, <2>2 DEF CallTells, setup
      <3>. QED
        BY <2>2, <3>1, Retries
    <2>4. AnswersTell'
      BY <2>1, <2>2 DEF AnswersTell, WireInv
    <2>5. GreetingTells' /\ WelcomeTells'
      BY <2>1 DEF GreetingTells, WelcomeTells
    <2>6. SessionTells' /\ HandlerKnows'
      BY <1>1, <1>2, <2>1 DEF SessionTells, HandlerKnows, WireInv
    <2>7. DeclaredIsGated'
      BY <1>1, <2>1 DEF DeclaredIsGated, PeersAgree, WireInv, setup
    <2>. QED
      BY <1>2, <1>3, <2>3, <2>4, <2>5, <2>6, <2>7 DEF WireInv, PeersAgree
  <1>6. CASE Hear
    <2>1. /\ stage = "answered" /\ stage' = "serving" /\ UNCHANGED question
          /\ told' = OfAnswer(wire.body)
      BY <1>6 DEF Hear
    <2>2. told' # Undeclared /\ told # Undeclared
      BY <2>1, AnswersAreAnswers DEF AnswersTell, WireInv
    <2>3. GreetingTells' /\ CallTells' /\ WelcomeTells'
      BY <2>1 DEF GreetingTells, CallTells, WelcomeTells
    <2>4. SessionTells' /\ HandlerKnows'
      BY <1>1, <1>2, <2>1 DEF SessionTells, HandlerKnows, WireInv
    <2>5. AnswersTell'
      BY <2>1, <2>2 DEF AnswersTell
    <2>6. DeclaredIsGated'
      BY <1>1, <2>1, <2>2 DEF DeclaredIsGated, PeersAgree, WireInv, setup
    <2>. QED
      BY <1>2, <1>3, <2>3, <2>4, <2>5, <2>6 DEF WireInv, PeersAgree
  <1>. QED
    BY <1>4, <1>5, <1>6

\* The application makes another request.
LEMMA FinishSteps ==
  ASSUME WireInv, Finish
  PROVE  WireInv'
  <1>1. /\ UNCHANGED setup /\ (IsDraft' <=> IsDraft) /\ Advertised' = Advertised
        /\ \A json : Tells(json)' <=> Tells(json)
    BY SetupStays DEF Next
  <1>2. VersionIsKnown'
    BY <1>1 DEF setup, VersionIsKnown, WireInv
  <1>3. /\ stage = "done" /\ stage' = "idle" /\ UNCHANGED <<known, session>>
        /\ question' = Nothing /\ told' = Nothing
    BY DEF Finish
  <1>4. GreetingTells' /\ CallTells' /\ HandlerKnows' /\ WelcomeTells'
    BY <1>3 DEF GreetingTells, CallTells, HandlerKnows, WelcomeTells
  <1>5. SessionTells'
    BY <1>1, <1>3 DEF SessionTells, WireInv
  <1>6. AnswersTell'
    BY <1>3 DEF AnswersTell, Nothing, Undeclared
  <1>7. PeersAgree'
    BY <1>1, <1>3 DEF HandshakeAgrees, DeclaredIsGated, PeersAgree, WireInv
  <1>. QED
    BY <1>2, <1>4, <1>5, <1>6, <1>7 DEF WireInv

\* WireInv is inductive: the handshake, the calls, the questions of handlers,
\* and the rest of the conversation.
LEMMA WireSteps == WireInv /\ [Next]_vars => WireInv'
  <1>. SUFFICES ASSUME WireInv, [Next]_vars PROVE WireInv'
    OBVIOUS
  <1>. USE DEF dialog
  <1>1. CASE Greet \/ Discover \/ Initialize \/ Join
    BY <1>1, HandshakeSteps
  <1>2. CASE (\E m \in Methods \union Plain : Call(m)) \/ Serve
    BY <1>2, CallSteps
  <1>3. CASE Ask \/ Fill \/ Hear
    BY <1>3, QuestionSteps
  <1>4. CASE Finish
    BY <1>4, FinishSteps
  <1>5. CASE MethodNotFound
    BY <1>5, TalkGoesOn DEF Next, MethodNotFound, HandlerKnows
  <1>6. CASE Refuse
    BY <1>6, TalkGoesOn DEF Next, Refuse, HandlerKnows
  <1>7. CASE Answer
    BY <1>7, TalkGoesOn DEF Next, Answer, HandlerKnows
  <1>8. CASE Receive
    BY <1>8, TalkGoesOn DEF Next, Receive, HandlerKnows
  <1>9. CASE Accept
    BY <1>9, TalkGoesOn DEF Next, Accept, HandlerKnows
  <1>10. CASE Poll
    BY <1>10, TalkGoesOn DEF Next, Poll, HandlerKnows
  <1>11. CASE Report
    BY <1>11, TalkGoesOn DEF Next, Report, HandlerKnows
  <1>12. CASE Deliver
    BY <1>12, TalkGoesOn DEF Next, Deliver, HandlerKnows
  <1>13. CASE Acknowledge
    BY <1>13, TalkGoesOn DEF Next, Acknowledge, HandlerKnows
  <1>14. CASE Publish
    BY <1>14, TalkGoesOn DEF Next, Publish, HandlerKnows
  <1>15. CASE UNCHANGED vars
    BY <1>15 DEF vars, setup, WireInv, VersionIsKnown, GreetingTells, SessionTells, CallTells,
         HandlerKnows, WelcomeTells, AnswersTell, PeersAgree, HandshakeAgrees, DeclaredIsGated,
         Advertised, Extensions, Introduces, Tells, IsDraft
  <1>. QED
    BY <1>1, <1>2, <1>3, <1>4, <1>5, <1>6, <1>7, <1>8, <1>9, <1>10, <1>11, <1>12, <1>13, <1>14,
       <1>15 DEF Next

\* Nothing has been said yet.
LEMMA WireBegins == Init => WireInv
  BY DEF Init, WireInv, VersionIsKnown, GreetingTells, SessionTells, CallTells, HandlerKnows,
         WelcomeTells, AnswersTell, PeersAgree, HandshakeAgrees, DeclaredIsGated, Nothing, Undeclared

\* On either version the client learns of a server what is registered with it and
\* nothing else (discover_response, handle_initialize, Handshake::from_result), and
\* a handler may ask the client for what the client declared and for nothing else
\* (versioned_request, session capabilities, require_capability).
THEOREM PeersAgreeOnAnything == Spec => []PeersAgree
  <1>1. WireInv => PeersAgree
    BY DEF WireInv
  <1>. QED
    BY <1>1, WireBegins, WireSteps, PTL DEF Spec

-----------------------------------------------------------------------------
(* Who asks.                                                                *)

\* The core type is written field by field.
LEMMA CoreStructs ==
  ASSUME NEW s, NEW v, s.shape = "struct", "extra" \in DOMAIN s.fields => v.extra = EmptyMap
  PROVE  IsWritten(Write9(s, v), s, v, Write8)
  <1>. DEFINE parts == ValueParts(s, v)
  <1>1. /\ DOMAIN parts = {f \in Written(s, v) : s.fields[f].how = "nullable" => ~IsEmpty(v[f])}
        /\ \A f \in DOMAIN parts :
             /\ parts[f].of = s.fields[f].of
             /\ s.fields[f].how = "maybe" => parts[f].value = v[f][1]
             /\ s.fields[f].how \in {"need", "filled"} => parts[f].value = v[f]
    BY DEF ValueParts, Part
  <1>2. DOMAIN parts \subseteq Written(s, v)
    BY <1>1
  <1>. HIDE DEF parts
  <1>. QED
    BY <1>1, <1>2, Options DEF WriteAt, Assembled, Obj, @@, IsWritten, Write9, parts

\* The client's identity, as it is written.
LEMMA ClientIsWritten == Names(ClientInfoJson, ClientInfo)
  <1>. DEFINE s == CoreImplementation
              v == [extra |-> EmptyMap] @@ ClientInfo
  <1>1. /\ v.name = ClientInfo.name /\ v.version = ClientInfo.version
        /\ v.title = ClientInfo.title /\ v.extra = EmptyMap
    BY DEF ClientInfo, @@
  <1>2. ClientInfo.title = Some("Client")
    BY DEF ClientInfo
  <1>. HIDE DEF v, s
  <1>3. Written(s, v) = {"name", "version", "title"}
    BY <1>1, <1>2, Options, CoreType DEF Written, s
  <1>4. IsWritten(Write9(s, v), s, v, Write8)
    BY <1>1, CoreType, CoreStructs DEF s
  <1>5. \A x : Write8(Scalar, x) = Token(x)
    BY DEF Write8, WriteAt, Assembled, Scalar
  <1>6. Names(Write9(s, v), ClientInfo)
    BY <1>1, <1>2, <1>3, <1>4, <1>5, Options, CoreType DEF IsWritten, Names, s
  <1>. QED
    BY <1>6 DEF ClientInfoJson, Write, s, v

\* The server reads the client's identity as the client has it, from the
\* metadata of a draft request or from the parameters of initialize.
LEMMA ClientIsRead ==
  /\ LET i == Parsed(CoreImplementation, ClientInfoJson)
     IN  [name |-> i.name, version |-> i.version, title |-> i.title] = ClientInfo
  /\ LET i == Parsed8(L!Types!Implementation, ClientInfoJson)
     IN  [name |-> i.name, version |-> i.version, title |-> i.title] = ClientInfo
  <1>. DEFINE j == ClientInfoJson
              i == Parsed9(CoreImplementation, j)
              k == Parsed8(L!Types!Implementation, j)
  <1>. USE ClientIsWritten DEF Names
  <1>0. /\ CoreImplementation.shape = "struct" /\ L!Types!Implementation.shape = "struct"
        /\ L!Types!Scalar = Scalar
    BY CoreType, LegacyImplementation, TokensAreRead
  <1>1. /\ i.name = Parsed8(Scalar, j.fields["name"])
        /\ i.version = Parsed8(Scalar, j.fields["version"])
        /\ i.title = Some(Parsed8(Scalar, j.fields["title"]))
    BY <1>0, CoreType, TokensAreRead, StructsAreParsed DEF IsParsed
  <1>3. /\ k.name = Parsed7(Scalar, j.fields["name"])
        /\ k.version = Parsed7(Scalar, j.fields["version"])
        /\ k.title = Some(Parsed7(Scalar, j.fields["title"]))
    BY <1>0, LegacyImplementation, TokensAreRead, StructsAreParsed DEF IsParsed
  <1>. HIDE DEF i, k
  <1>4. i.name = "client" /\ i.version = "1" /\ i.title = Some("Client")
    BY <1>1, TokensAreRead, Options DEF ClientInfo
  <1>5. k.name = "client" /\ k.version = "1" /\ k.title = Some("Client")
    BY <1>3, TokensAreRead, Options DEF ClientInfo
  <1>. QED
    BY <1>4, <1>5 DEF Parsed, i, k, ClientInfo

-----------------------------------------------------------------------------
(* What is parsed of a request.                                             *)

\* A request with these parameters, and besides them no more than is added.
Carries(body, params) ==
    /\ body.json = "object"
    /\ DOMAIN params.fields \subseteq DOMAIN body.fields
    /\ DOMAIN body.fields \subseteq DOMAIN params.fields \union Added
    /\ \A f \in DOMAIN params.fields : body.fields[f] = params.fields[f]

\* The page that is asked for (parse_list_params).
LEMMA ListParams ==
  ASSUME NEW m \in Paginated \union {"tasks/list"}, NEW a \in Asks(m), NEW body,
         Carries(body, Params(m, a))
  PROVE  Parse(m, body) = a
  <1>1. a \in [cursor : {None, Some("next")}] /\ Params(m, a) = Obj(Optional("cursor", a.cursor))
    BY DEF Asks, Params, Paginated
  <1>2. Parse(m, body) = ParseList(body)
    BY DEF Parse, Paginated
  <1>3. CASE a.cursor = None
    <2>1. ~Has(body, "cursor")
      BY <1>1, <1>3 DEF Carries, Obj, Optional, EmptyMap, Added, Has
    <2>. QED
      BY <1>1, <1>2, <1>3, <2>1 DEF ParseList
  <1>4. CASE a.cursor = Some("next")
    <2>1. Optional("cursor", a.cursor) = ("cursor" :> Token("next"))
      BY <1>4, Options DEF Optional, Some
    <2>2. Has(body, "cursor") /\ body.fields["cursor"] = Token("next")
      BY <1>1, <2>1 DEF Carries, Obj, Has, IsObject, :>
    <2>. QED
      BY <1>1, <1>2, <1>4, <2>2 DEF ParseList, Token
  <1>. QED
    BY <1>1, <1>3, <1>4

\* Arguments are an object of JSON.
LEMMA Arguments ==
  ASSUME NEW m \in {"tools/call", "prompts/get"}, NEW a \in Asks(m)
  PROVE  a.arguments = [k \in DOMAIN a.arguments |-> a.arguments[k]]
  <1>1. a.arguments \in {NoArguments, [x |-> Obj([y |-> Token("1")])], [city |-> Token("Rome")],
                         [city |-> List(<<Token("Rome")>>)]}
    BY DEF Asks, Paginated
  <1>2. NoArguments = [k \in DOMAIN NoArguments |-> NoArguments[k]]
    BY DEF NoArguments, EmptyMap
  <1>. QED
    BY <1>1, <1>2

\* RawCallToolParams: a tool's name and its arguments; what else there is, as the
\* legacy `task', is skipped.
LEMMA CallToolParams ==
  ASSUME NEW a \in Asks("tools/call"), NEW body, Carries(body, Params("tools/call", a))
  PROVE  Parse("tools/call", body) = [name |-> a.name, arguments |-> a.arguments]
  <1>1. a.arguments = [k \in DOMAIN a.arguments |-> a.arguments[k]]
    BY Arguments
  <1>2. /\ body.json = "object" /\ {"name", "arguments"} \subseteq DOMAIN body.fields
        /\ body.fields["name"] = Token(a.name) /\ body.fields["arguments"] = Obj(a.arguments)
    BY DEF Params, Carries, Paginated, @@, Obj
  <1>3. /\ RawCallToolParams.shape = "struct"
        /\ DOMAIN RawCallToolParams.fields = {"name", "arguments"}
        /\ RawCallToolParams.fields["name"] = [how |-> "need", of |-> Scalar]
        /\ RawCallToolParams.fields["arguments"] = [how |-> "filled", of |-> Bag]
    BY DEF RawCallToolParams, Struct, Need, Filled, Fields, @@
  <1>4. Readable18(RawCallToolParams, body)
    BY <1>2, <1>3, Objects, TokensAreRead, BagsAreRead, StructsAreReadable DEF IsRead
  <1>. DEFINE p == Parsed9(RawCallToolParams, body)
  <1>5. p.name = Parsed8(Scalar, body.fields["name"]) /\ p.arguments = Parsed8(Bag, body.fields["arguments"])
    BY <1>2, <1>3, StructsAreParsed DEF IsParsed
  <1>. HIDE DEF p
  <1>6. p.name = a.name /\ p.arguments = a.arguments
    BY <1>1, <1>2, <1>5, Objects, TokensAreRead, BagsAreRead
  <1>7. Parse("tools/call", body) = ParseCallTool(body)
    BY DEF Parse, Paginated
  <1>. QED
    BY <1>4, <1>6, <1>7 DEF ParseCallTool, Checked, Readable, Parsed, p

\* RawGetPromptParams: the arguments of a prompt must be strings.
LEMMA GetPromptParams ==
  ASSUME NEW a \in Asks("prompts/get"), NEW body, Carries(body, Params("prompts/get", a))
  PROVE  Parse("prompts/get", body) =
           IF WellFormed("prompts/get", a) THEN Meant("prompts/get", a) ELSE Refused
  <1>1. a.arguments = [k \in DOMAIN a.arguments |-> a.arguments[k]]
    BY Arguments
  <1>2. /\ body.json = "object" /\ {"name", "arguments"} \subseteq DOMAIN body.fields
        /\ body.fields["name"] = Token(a.name) /\ body.fields["arguments"] = Obj(a.arguments)
    BY DEF Params, Carries, Paginated, Obj
  <1>. DEFINE s == RawGetPromptParams
              p == Parsed9(s, body)
  <1>3. /\ s.shape = "struct"
        /\ DOMAIN s.fields = {"name", "arguments"}
        /\ s.fields["name"] = [how |-> "need", of |-> Scalar]
        /\ s.fields["arguments"] = [how |-> "filled", of |-> BagOf(Scalar)]
    BY DEF RawGetPromptParams, Struct, Need, Filled, Fields, @@
  <1>4. Readable18(s, body) <=> WellFormed("prompts/get", a)
    BY <1>2, <1>3, Objects, TokensAreRead, BagsAreRead, StructsAreReadable
       DEF IsRead, WellFormed
  <1>5. /\ p.name = Parsed8(Scalar, body.fields["name"])
        /\ p.arguments = Parsed8(BagOf(Scalar), body.fields["arguments"])
    BY <1>2, <1>3, StructsAreParsed DEF IsParsed
  <1>. HIDE DEF p, s
  <1>6. p.name = a.name /\ p.arguments = [k \in DOMAIN a.arguments |-> a.arguments[k].of]
    BY <1>1, <1>2, <1>5, Objects, TokensAreRead, BagsAreRead
  <1>7. Parse("prompts/get", body) = ParseGetPrompt(body)
    BY DEF Parse, Paginated
  <1>. QED
    BY <1>4, <1>6, <1>7 DEF ParseGetPrompt, Checked, Readable, Parsed, Meant, p, s

\* parse_read_resource_params, parse_uri_param: the address of a resource.
LEMMA UriParams ==
  ASSUME NEW m \in {"resources/read", "resources/subscribe", "resources/unsubscribe"},
         NEW a \in Asks(m), NEW body, Carries(body, Params(m, a))
  PROVE  Parse(m, body) = a
  <1>1. a \in [uri : {"file:a"}]
    BY DEF Asks, Paginated
  <1>2. /\ body.json = "object" /\ "uri" \in DOMAIN body.fields
        /\ body.fields["uri"] = Token(a.uri)
    <2>1. Params(m, a) = Tokens(a)
      BY DEF Params, Paginated
    <2>2. "uri" \in DOMAIN a
      BY <1>1
    <2>. QED
      BY <2>1, <2>2 DEF Tokens, Obj, Carries
  <1>. DEFINE s == RawReadResourceParams
              p == Parsed9(s, body)
  <1>3. s.shape = "struct" /\ DOMAIN s.fields = {"uri"} /\ s.fields["uri"] = [how |-> "need", of |-> Scalar]
    BY DEF RawReadResourceParams, Struct, Need, Fields
  <1>4. Readable18(s, body)
    BY <1>2, <1>3, TokensAreRead, StructsAreReadable DEF IsRead
  <1>5. p.uri = Parsed8(Scalar, body.fields["uri"])
    BY <1>2, <1>3, StructsAreParsed DEF IsParsed
  <1>. HIDE DEF p, s
  <1>6. p.uri = a.uri
    BY <1>2, <1>5, TokensAreRead
  <1>7. Parse(m, body) = ParseUri(body)
    BY DEF Parse, Paginated
  <1>. QED
    BY <1>1, <1>4, <1>6, <1>7 DEF ParseUri, Checked, Readable, Parsed, p, s

\* RawTaskIdParams: which task.
LEMMA TaskIdParams ==
  ASSUME NEW a \in Asks("tasks/cancel"), NEW body, Carries(body, Params("tasks/cancel", a))
  PROVE  Parse("tasks/cancel", body) = a
  <1>1. a \in [taskId : {"t1"}]
    BY DEF Asks, Paginated
  <1>2. /\ body.json = "object" /\ "taskId" \in DOMAIN body.fields
        /\ body.fields["taskId"] = Token(a.taskId)
    <2>1. Params("tasks/cancel", a) = Tokens(a)
      BY DEF Params, Paginated
    <2>2. "taskId" \in DOMAIN a
      BY <1>1
    <2>. QED
      BY <2>1, <2>2 DEF Tokens, Obj, Carries
  <1>. DEFINE s == RawTaskIdParams
              p == Parsed9(s, body)
  <1>3. s.shape = "struct" /\ DOMAIN s.fields = {"taskId"}
        /\ s.fields["taskId"] = [how |-> "need", of |-> Scalar]
    BY DEF RawTaskIdParams, Struct, Need, Fields
  <1>4. Readable18(s, body)
    BY <1>2, <1>3, TokensAreRead, StructsAreReadable DEF IsRead
  <1>5. p.taskId = Parsed8(Scalar, body.fields["taskId"])
    BY <1>2, <1>3, StructsAreParsed DEF IsParsed
  <1>. HIDE DEF p, s
  <1>6. p.taskId = a.taskId
    BY <1>2, <1>5, TokensAreRead
  <1>7. Parse("tasks/cancel", body) = ParseTaskId(body)
    BY DEF Parse, Paginated
  <1>. QED
    BY <1>1, <1>4, <1>6, <1>7 DEF ParseTaskId, Checked, Readable, Parsed, p, s

\* parse_set_level_params: a level the legacy type knows.
LEMMA SetLevelParams ==
  ASSUME NEW a \in Asks("logging/setLevel"), NEW body, Carries(body, Params("logging/setLevel", a))
  PROVE  Parse("logging/setLevel", body) = a
  <1>1. a \in [level : {"warning"}]
    BY DEF Asks, Paginated
  <1>2. Has(body, "level") /\ body.fields["level"] = Token(a.level)
    <2>1. Params("logging/setLevel", a) = Tokens(a)
      BY DEF Params, Paginated
    <2>2. "level" \in DOMAIN a
      BY <1>1
    <2>. QED
      BY <2>1, <2>2 DEF Tokens, Obj, Carries, Has, IsObject
  <1>3. Readable(L!Types!LoggingLevel, Token("warning"))
    BY DEF Readable, Readable18, ReadableAt, Accepted, L!Types!LoggingLevel, L!Types!OneOf, Token
  <1>4. Parse("logging/setLevel", body) = ParseSetLevel(body)
    BY DEF Parse, Paginated
  <1>. QED
    BY <1>1, <1>2, <1>3, <1>4 DEF ParseSetLevel, Token

\* RawCompleteParams: a reference is read by its type and needs the field that names
\* what it is of.
LEMMA CompleteParams ==
  ASSUME NEW a \in Asks("completion/complete"), NEW body,
         Carries(body, Params("completion/complete", a))
  PROVE  Parse("completion/complete", body) =
           IF WellFormed("completion/complete", a) THEN Meant("completion/complete", a) ELSE Refused
  <1>1. /\ a.ref \in {[type |-> "ref/prompt", name |-> "p"], [type |-> "ref/resource", uri |-> "file:a"],
                       [type |-> "ref/resource", name |-> "p"], [type |-> "ref/tool", name |-> "p"]}
        /\ a.argument = [name |-> "city", value |-> "R"]
    BY DEF Asks, Paginated
  <1>. DEFINE r == Struct(Need([type |-> Scalar]) @@ Maybe([name |-> Scalar, uri |-> Scalar]))
              g == Struct(Need([name |-> Scalar, value |-> Scalar]))
              s == RawCompleteParams
              p == Parsed9(s, body)
              jr == Tokens(a.ref)
              jg == Tokens(a.argument)
  <1>2. /\ body.json = "object" /\ {"ref", "argument"} \subseteq DOMAIN body.fields
        /\ "context" \notin DOMAIN body.fields
        /\ body.fields["ref"] = jr /\ body.fields["argument"] = jg
    BY DEF Params, Carries, Paginated, Obj, Added
  <1>3. /\ s.shape = "struct" /\ DOMAIN s.fields = {"ref", "argument", "context"}
        /\ s.fields["ref"] = [how |-> "need", of |-> r]
        /\ s.fields["argument"] = [how |-> "need", of |-> g]
        /\ s.fields["context"].how = "maybe"
    BY DEF RawCompleteParams, Struct, Need, Maybe, Fields, @@
  <1>4. /\ r.shape = "struct" /\ DOMAIN r.fields = {"type", "name", "uri"}
        /\ r.fields["type"] = [how |-> "need", of |-> Scalar]
        /\ \A f \in {"name", "uri"} : r.fields[f] = [how |-> "maybe", of |-> Scalar]
        /\ g.shape = "struct" /\ DOMAIN g.fields = {"name", "value"}
        /\ \A f \in {"name", "value"} : g.fields[f] = [how |-> "need", of |-> Scalar]
    BY DEF Struct, Need, Maybe, Fields, @@
  <1>5. /\ jr.json = "object" /\ DOMAIN jr.fields = DOMAIN a.ref
        /\ \A f \in DOMAIN a.ref : jr.fields[f] = Token(a.ref[f])
        /\ jg.json = "object" /\ DOMAIN jg.fields = {"name", "value"}
        /\ \A f \in {"name", "value"} : jg.fields[f] = Token(a.argument[f])
    BY <1>1 DEF Tokens, Obj
  <1>6. \A x : Readable16(Scalar, Token(x)) /\ Parsed7(Scalar, Token(x)) = x /\ Token(x).json = "token"
    BY TokensAreRead
  <1>. HIDE DEF r, g, s, jr, jg
  <1>7. "type" \in DOMAIN a.ref /\ DOMAIN a.ref \subseteq {"type", "name", "uri"}
    BY <1>1
  <1>8. Readable17(r, jr) /\ Readable17(g, jg)
    BY <1>4, <1>5, <1>6, <1>7, StructsAreReadable DEF IsRead
  <1>9. Readable18(s, body)
    BY <1>2, <1>3, <1>8, StructsAreReadable DEF IsRead
  <1>10. p.ref = Parsed8(r, jr) /\ p.argument = Parsed8(g, jg) /\ p.context = None
    BY <1>2, <1>3, StructsAreParsed DEF IsParsed
  <1>11. Parsed8(g, jg) = a.argument
    <2>. DEFINE v == Parsed8(g, jg)
    <2>0. IsParsed(v, g, jg, Parsed7)
      BY <1>4, <1>5, StructsAreParsed
    <2>. HIDE DEF v
    <2>1. v = [f \in {"name", "value"} |-> Parsed7(Scalar, jg.fields[f])]
      BY <1>4, <1>5, <2>0 DEF IsParsed
    <2>. QED
      BY <1>1, <1>5, <1>6, <2>1 DEF v
  <1>12. /\ p.ref.type = a.ref.type
         /\ \A f \in {"name", "uri"} :
              p.ref[f] = IF f \in DOMAIN a.ref THEN Some(a.ref[f]) ELSE None
    BY <1>4, <1>5, <1>6, <1>7, <1>10, StructsAreParsed DEF IsParsed
  <1>. HIDE DEF p
  <1>13. Parse("completion/complete", body) = ParseComplete(body)
    BY DEF Parse, Paginated
  <1>. DEFINE ref == CASE p.ref.type = "ref/prompt" /\ p.ref.name # None ->
                            [variant |-> "Prompt", value |-> [name |-> p.ref.name[1]]]
                       [] p.ref.type = "ref/resource" /\ p.ref.uri # None ->
                            [variant |-> "ResourceTemplate", value |-> [uri |-> p.ref.uri[1]]]
                       [] OTHER -> Refused
  <1>14. ParseComplete(body) =
           IF ref = Refused THEN Refused
           ELSE [reference |-> ref, argument |-> p.argument, contextArguments |-> EmptyMap]
    BY <1>9, <1>10 DEF ParseComplete, Checked, Readable, Parsed, p, s
  <1>15. p.ref.name # None <=> "name" \in DOMAIN a.ref
    BY <1>12, Options
  <1>16. p.ref.uri # None <=> "uri" \in DOMAIN a.ref
    BY <1>12, Options
  <1>17. [variant |-> "Prompt", value |-> [name |-> a.ref.name]] # Refused
         /\ [variant |-> "ResourceTemplate", value |-> [uri |-> a.ref.uri]] # Refused
    BY DEF Refused
  <1>18. CASE a.ref.type = "ref/prompt" /\ "name" \in DOMAIN a.ref
    <2>1. ref = [variant |-> "Prompt", value |-> [name |-> a.ref.name]]
      BY <1>12, <1>15, <1>18, Options
    <2>. HIDE DEF ref
    <2>. QED
      BY <1>10, <1>11, <1>13, <1>14, <1>17, <1>18, <2>1 DEF WellFormed, Meant
  <1>19. CASE a.ref.type = "ref/resource" /\ "uri" \in DOMAIN a.ref
    <2>1. ref = [variant |-> "ResourceTemplate", value |-> [uri |-> a.ref.uri]]
      BY <1>12, <1>16, <1>19, Options
    <2>. HIDE DEF ref
    <2>. QED
      BY <1>10, <1>11, <1>13, <1>14, <1>17, <1>19, <2>1 DEF WellFormed, Meant
  <1>20. CASE ~(a.ref.type = "ref/prompt" /\ "name" \in DOMAIN a.ref)
              /\ ~(a.ref.type = "ref/resource" /\ "uri" \in DOMAIN a.ref)
    <2>1. ref = Refused
      BY <1>12, <1>15, <1>16, <1>20
    <2>. HIDE DEF ref
    <2>. QED
      BY <1>13, <1>14, <1>20, <2>1 DEF WellFormed
  <1>. QED
    BY <1>18, <1>19, <1>20

\* What is parsed is what was meant, and what is refused was not well formed.
LEMMA ParsedAsMeant ==
  ASSUME NEW m \in Methods \union Plain, NEW a \in Asks(m), NEW body, Carries(body, Params(m, a))
  PROVE  IF WellFormed(m, a) THEN Parse(m, body) = Meant(m, a) ELSE Parse(m, body) = Refused
  <1>1. CASE m \in Paginated \union {"tasks/list"}
    BY <1>1, ListParams DEF WellFormed, Meant, Paginated
  <1>2. CASE m = "tools/call"
    BY <1>2, CallToolParams DEF WellFormed, Meant
  <1>3. CASE m = "prompts/get"
    BY <1>3, GetPromptParams
  <1>4. CASE m = "completion/complete"
    BY <1>4, CompleteParams
  <1>5. CASE m \in {"resources/read", "resources/subscribe", "resources/unsubscribe"}
    BY <1>5, UriParams DEF WellFormed, Meant
  <1>6. CASE m = "tasks/cancel"
    BY <1>6, TaskIdParams DEF WellFormed, Meant
  <1>7. CASE m = "logging/setLevel"
    BY <1>7, SetLevelParams DEF WellFormed, Meant
  <1>. QED
    BY <1>1, <1>2, <1>3, <1>4, <1>5, <1>6, <1>7
       DEF Methods, Cacheable, Paginated, Interactive, Plain, TaskMethods

\* Where the draft's requests name the client (build_context).
InfoKey == "io.modelcontextprotocol/clientInfo"

\* A call, and its retry with an answer, carry the parameters and the client's
\* identity (versioned_request).
LEMMA RequestsCarry ==
  ASSUME NEW m \in Methods \union Plain, NEW a \in Asks(m), NEW answers, NEW state
  PROVE  LET first == VersionedRequest(Params(m, a))
             retry == VersionedRequest(Put(Put(Params(m, a), "inputResponses", answers),
                                           "requestState", state))
         IN  /\ Carries(first, Params(m, a)) /\ "inputResponses" \notin DOMAIN first.fields
             /\ Carries(retry, Params(m, a)) /\ retry.fields["inputResponses"] = answers
             /\ IsDraft => /\ first.fields["_meta"].fields[InfoKey] = ClientInfoJson
                           /\ retry.fields["_meta"].fields[InfoKey] = ClientInfoJson
  <1>. DEFINE p == Params(m, a)
              answered == Put(p, "inputResponses", answers)
              stated == Put(answered, "requestState", state)
  <1>1. DOMAIN p.fields \intersect Added = {}
    BY ParamsKeepClear
  <1>2. \A q : VersionedRequest(q).json = "object"
    BY Puts DEF VersionedRequest
  <1>3. \A q : IsDraft => VersionedRequest(q).fields["_meta"].fields[InfoKey] = ClientInfoJson
    BY Puts DEF VersionedRequest, RequestMeta, @@, :>, Obj, InfoKey
  <1>. HIDE DEF p
  <1>4. /\ DOMAIN answered.fields = {"inputResponses"} \union DOMAIN p.fields
        /\ answered.fields["inputResponses"] = answers
        /\ \A f \in DOMAIN p.fields : answered.fields[f] = p.fields[f]
    BY <1>1, Puts DEF Added
  <1>. HIDE DEF answered
  <1>5. /\ DOMAIN stated.fields = {"inputResponses", "requestState"} \union DOMAIN p.fields
        /\ stated.fields["inputResponses"] = answers
        /\ \A f \in DOMAIN p.fields : stated.fields[f] = p.fields[f]
    BY <1>1, <1>4, Puts DEF Added
  <1>. HIDE DEF stated
  <1>6. Carries(VersionedRequest(p), p) /\ "inputResponses" \notin DOMAIN VersionedRequest(p).fields
    BY <1>1, <1>2, Versioned DEF Carries, Added
  <1>7. /\ Carries(VersionedRequest(stated), p)
        /\ VersionedRequest(stated).fields["inputResponses"] = answers
    BY <1>1, <1>2, <1>5, Versioned DEF Carries, Added
  <1>. QED
    BY <1>3, <1>6, <1>7 DEF p, answered, stated

\* What is meant by a request is never a refusal.
LEMMA MeantIsNotRefused ==
  ASSUME NEW m \in Methods \union Plain, NEW a \in Asks(m)
  PROVE  Meant(m, a) # Refused
  <1>0. DOMAIN Refused = {"is"}
    BY DEF Refused
  <1>1. CASE m \in Paginated \union {"tasks/list"}
    <2>1. a \in [cursor : {None, Some("next")}]
      BY <1>1 DEF Asks, Paginated
    <2>. QED
      BY <1>0, <1>1, <2>1 DEF Meant, Paginated
  <1>2. CASE m \in {"tools/call", "prompts/get", "completion/complete"}
    <2>1. "is" \notin DOMAIN Meant(m, a)
      BY <1>2 DEF Meant
    <2>. QED
      BY <1>0, <2>1
  <1>3. CASE m \in {"resources/read", "resources/subscribe", "resources/unsubscribe"}
    <2>1. a \in [uri : {"file:a"}]
      BY <1>3 DEF Asks, Paginated
    <2>. QED
      BY <1>0, <1>3, <2>1 DEF Meant
  <1>4. CASE m = "tasks/cancel"
    <2>1. a \in [taskId : {"t1"}]
      BY <1>4 DEF Asks, Paginated
    <2>. QED
      BY <1>0, <1>4, <2>1 DEF Meant
  <1>5. CASE m = "logging/setLevel"
    <2>1. a \in [level : {"warning"}]
      BY <1>5 DEF Asks, Paginated
    <2>. QED
      BY <1>0, <1>5, <2>1 DEF Meant
  <1>. QED
    BY <1>1, <1>2, <1>3, <1>4, <1>5
       DEF Methods, Cacheable, Paginated, Interactive, Plain, TaskMethods

-----------------------------------------------------------------------------
\* The user's answer is read as it was given (elicit_outcome_value,
\* parse_elicit_outcome).
LEMMA OutcomesAreRead ==
  ASSUME NEW o \in ElicitOutcomes
  PROVE  ParseElicitOutcome(ElicitOutcomeValue(o)) =
           [action |-> o.action, content |-> IF o.action = "accept" THEN o.content ELSE EmptyMap]
  <1>. DEFINE s == RawElicitResult
              j == ElicitOutcomeValue(o)
              p == Parsed9(s, j)
  <1>1. o.action \in {"accept", "decline", "cancel"} /\ o.content \in {EmptyMap, [who |-> Token("me")]}
    BY DEF ElicitOutcomes
  <1>2. o.content = [k \in DOMAIN o.content |-> o.content[k]]
    BY <1>1 DEF EmptyMap
  <1>3. /\ j.json = "object" /\ "action" \in DOMAIN j.fields
        /\ j.fields["action"] = Token(o.action)
        /\ o.action = "accept" => "content" \in DOMAIN j.fields /\ j.fields["content"] = Obj(o.content)
        /\ o.action # "accept" => "content" \notin DOMAIN j.fields
    BY DEF ElicitOutcomeValue, Obj, @@, EmptyMap
  <1>4. /\ s.shape = "struct" /\ DOMAIN s.fields = {"action", "content"}
        /\ s.fields["action"] = [how |-> "need", of |-> Scalar]
        /\ s.fields["content"] = [how |-> "filled", of |-> Bag]
    BY DEF RawElicitResult, Struct, Need, Filled, Fields, @@
  <1>. HIDE DEF s, j
  <1>5. Readable18(s, j)
    BY <1>3, <1>4, Objects, TokensAreRead, BagsAreRead, StructsAreReadable DEF IsRead
  <1>6. p.action = Parsed8(Scalar, j.fields["action"])
        /\ (o.action = "accept" => p.content = Parsed8(Bag, j.fields["content"]))
    BY <1>3, <1>4, StructsAreParsed DEF IsParsed
  <1>. HIDE DEF p
  <1>7. p.action = o.action /\ (o.action = "accept" => p.content = o.content)
    BY <1>2, <1>3, <1>6, Objects, TokensAreRead, BagsAreRead
  <1>. QED
    BY <1>1, <1>5, <1>7 DEF ParseElicitOutcome, Readable, Parsed, p, s, j

\* This answer is the user's, who was shown the question.
AnswerTells(answer) ==
    /\ question \in Questions
    /\ IF question.method = "roots/list" THEN answer = NoRoots
       ELSE /\ outcome \in ElicitOutcomes /\ answer = ElicitOutcomeValue(outcome)
            /\ shown.message = question.params.message
            /\ question.params.mode = "form" =>
                 shown.requestedSchema = question.params.requestedSchema

\* What the handler is told of such an answer (mrtr_request, request_raw).
LEMMA AnswersAreHeard ==
  ASSUME NEW answer, AnswerTells(answer)
  PROVE  IF question.method = "roots/list" THEN OfAnswer(answer) = NoRoots
         ELSE OfAnswer(answer) =
                [action |-> outcome.action,
                 content |-> IF outcome.action = "accept" THEN outcome.content ELSE EmptyMap]
  BY OutcomesAreRead DEF AnswerTells, OfAnswer

\* A question is shown as it was put (parse_elicit_params).
LEMMA QuestionsAreShown ==
  ASSUME NEW q \in Questions, q.method = "elicitation/create"
  PROVE  LET params == ParseElicitParams(ElicitRequestValue(q))
         IN  /\ params.message = q.params.message
             /\ q.params.mode = "form" => params.requestedSchema = q.params.requestedSchema
  <1>1. q.params \in ElicitParams \union ElicitUrlParams
    BY DEF Questions
  <1>. DEFINE j == ElicitRequestValue(q)
  <1>2. CASE q.params \in ElicitParams
    <2>1. q.params.mode = "form"
      BY <1>2 DEF ElicitParams
    <2>2. j = Obj([mode |-> Token("form"), message |-> Token(q.params.message),
                   requestedSchema |-> q.params.requestedSchema])
      BY <2>1 DEF ElicitRequestValue
    <2>. HIDE DEF j
    <2>3. /\ Has(j, "message") /\ j.fields["message"] = Token(q.params.message)
          /\ Has(j, "requestedSchema") /\ j.fields["requestedSchema"] = q.params.requestedSchema
      BY <2>2 DEF Obj, Has, IsObject
    <2>. QED
      BY <2>3 DEF ParseElicitParams, Token, j
  <1>3. CASE q.params \in ElicitUrlParams
    <2>1. q.params.mode = "url"
      BY <1>3 DEF ElicitUrlParams
    <2>2. PICK id : j = Obj([mode |-> Token("url"), message |-> Token(q.params.message),
                             url |-> Token(q.params.url)] @@ id)
      BY <2>1 DEF ElicitRequestValue
    <2>. HIDE DEF j
    <2>3. Has(j, "message") /\ j.fields["message"] = Token(q.params.message)
      BY <2>2 DEF Obj, Has, IsObject, @@
    <2>. QED
      BY <2>1, <2>3 DEF ParseElicitParams, Token, j
  <1>. QED
    BY <1>1, <1>2, <1>3

-----------------------------------------------------------------------------
(* The course of a request.                                                 *)

\* The stages of a request, and those in which a handler has been given one.
Heard  == {"serving", "asked", "answered", "accepting", "polling", "polled", "replied"}
InCall == Heard \union {"called", "refusing"}

\* A request is under way as the application made it.
CallIsAsked ==
    stage \in InCall => call.method \in Methods \union Plain /\ call.asked \in Asks(call.method)

\* Its message carries the parameters that were meant, the client's identity,
\* and in a retry what the user answered to the question that was put.
CallCarries ==
    stage = "called" =>
      /\ wire.method = call.method
      /\ Carries(wire.body, Params(call.method, call.asked))
      /\ IsDraft => wire.body.fields["_meta"].fields[InfoKey] = ClientInfoJson
      /\ "inputResponses" \in DOMAIN wire.body.fields =>
           \E answer : /\ AnswerTells(answer)
                       /\ wire.body.fields["inputResponses"] = Obj([key |-> answer])

\* The handler has heard them.
HeardIsMeant ==
    stage \in Heard => /\ heard.params = Meant(call.method, call.asked)
                       /\ heard.context.info = ClientInfo

\* The question on its way to the client (request_raw, finish_mrtr).
QuestionOnWire ==
  IF IsDraft THEN wire.body.fields["inputRequests"].fields["key"]
  ELSE Obj([method |-> Token(wire.method), params |-> wire.body])
QuestionCarries ==
    stage = "asked" =>
      /\ question \in Questions /\ told = Nothing
      /\ QuestionOnWire = Obj([method |-> Token(question.method), params |-> ElicitRequestValue(question)])

\* The answer on its way to the legacy server.
AnswerCarries == stage = "answered" => AnswerTells(wire.body)

\* A handler that has not asked has not been told.
ToldIsAsked == question = Nothing => told = Nothing

\* The legacy client introduces itself, and the session remembers.
InfoIsGreeted ==
    stage = "greeting" /\ ~IsDraft =>
      wire.body.json = "object" /\ "clientInfo" \in DOMAIN wire.body.fields
      /\ wire.body.fields["clientInfo"] = ClientInfoJson
InfoIsKept ==
    ~IsDraft /\ stage \notin {"start", "greeting", "unwelcome"} => session.info = ClientInfo

\* The inductive invariant: each hand over which a request, a question or an
\* answer passes carries what was meant.
TalkInv ==
    /\ CallIsAsked /\ CallCarries /\ HeardIsMeant
    /\ QuestionCarries /\ AnswerCarries /\ ToldIsAsked
    /\ InfoIsGreeted /\ InfoIsKept
    /\ AskedArrives

\* What a version makes of a request and of a question stays the same.
LEMMA MeaningStays ==
  ASSUME Next
  PROVE  /\ UNCHANGED <<version, features>> /\ (IsDraft' <=> IsDraft) /\ (TasksOn' <=> TasksOn)
         /\ \A m, a : Params(m, a)' = Params(m, a)
         /\ \A q : ElicitRequestValue(q)' = ElicitRequestValue(q)
  <1>1. UNCHANGED <<version, features>> /\ (IsDraft' <=> IsDraft)
    BY SetupStays DEF setup
  <1>2. \A m, a : Params(m, a)' = Params(m, a)
    BY <1>1 DEF Params
  <1>3. \A q : ElicitRequestValue(q)' = ElicitRequestValue(q)
    BY <1>1 DEF ElicitRequestValue
  <1>. QED
    BY <1>1, <1>2, <1>3 DEF TasksOn

\* Before there is a request.
LEMMA TalkBegins ==
  ASSUME TalkInv, Greet \/ Discover \/ Initialize \/ Join
  PROVE  TalkInv'
  <1>1. IsDraft' <=> IsDraft
    BY MeaningStays DEF Next
  <1>2. UNCHANGED <<question, shown, outcome, told>> /\ stage' \notin InCall
    BY DEF Greet, Discover, Initialize, Join, dialog, InCall, Heard
  <1>3. FormsArrive' /\ ToldIsAsked'
    BY <1>2 DEF FormsArrive, ToldIsAsked, TalkInv, AskedArrives
  <1>4. /\ CallIsAsked' /\ CallCarries' /\ HeardIsMeant' /\ QuestionCarries' /\ AnswerCarries'
        /\ RequestsArrive'
    BY <1>2 DEF CallIsAsked, CallCarries, HeardIsMeant, QuestionCarries, AnswerCarries,
                RequestsArrive, InCall, Heard
  <1>5. CASE Greet
    <2>1. InfoIsGreeted'
      BY <1>1, <1>5, Messages, Objects DEF Greet, InfoIsGreeted
    <2>2. InfoIsKept'
      BY <1>5 DEF Greet, InfoIsKept
    <2>. QED
      BY <1>3, <1>4, <2>1, <2>2 DEF TalkInv, AskedArrives
  <1>6. CASE Discover
    <2>1. InfoIsGreeted' /\ InfoIsKept'
      BY <1>1, <1>6 DEF Discover, InfoIsGreeted, InfoIsKept
    <2>. QED
      BY <1>3, <1>4, <2>1 DEF TalkInv, AskedArrives
  <1>7. CASE Initialize
    <2>1. InfoIsGreeted'
      BY <1>7 DEF Initialize, InfoIsGreeted
    <2>2. InfoIsKept'
      <3>1. SUFFICES ASSUME stage' = "welcome" PROVE session'.info = ClientInfo
        BY <1>7 DEF InfoIsKept, Initialize
      <3>. DEFINE s == L!Types!InitializeRequestParams
                  p == Parsed9(s, wire.body)
                  i == Parsed8(L!Types!Implementation, ClientInfoJson)
      <3>2. session'.info = L!OfImplementation(p.clientInfo)
        BY <1>7, <3>1 DEF Initialize, Parsed
      <3>3. /\ s.shape = "struct" /\ "clientInfo" \in DOMAIN s.fields
            /\ s.fields["clientInfo"] = [how |-> "need", of |-> L!Types!Implementation]
        BY DEF L!Types!InitializeRequestParams, L!Types!Struct, L!Types!Need, L!Types!Maybe,
               L!Types!Fields, L!Types!@@
      <3>4. /\ wire.body.json = "object" /\ "clientInfo" \in DOMAIN wire.body.fields
            /\ wire.body.fields["clientInfo"] = ClientInfoJson
        BY <1>7 DEF Initialize, InfoIsGreeted, TalkInv
      <3>. HIDE DEF s
      <3>5. IsParsed(p, s, wire.body, Parsed8)
        BY <3>3, <3>4, StructsAreParsed
      <3>. HIDE DEF p
      <3>6. p.clientInfo = i
        BY <3>3, <3>4, <3>5 DEF IsParsed
      <3>. QED
        BY <3>2, <3>6, ClientIsRead DEF L!OfImplementation
    <2>. QED
      BY <1>3, <1>4, <2>1, <2>2 DEF TalkInv, AskedArrives
  <1>8. CASE Join
    <2>1. InfoIsGreeted' /\ InfoIsKept'
      BY <1>1, <1>8 DEF Join, InfoIsGreeted, InfoIsKept, TalkInv
    <2>. QED
      BY <1>3, <1>4, <2>1 DEF TalkInv, AskedArrives
  <1>. QED
    BY <1>5, <1>6, <1>7, <1>8

\* The application makes a request.
LEMMA CallsCarry ==
  ASSUME TalkInv, NEW m \in Methods \union Plain, Call(m)
  PROVE  TalkInv'
  <1>1. /\ IsDraft' <=> IsDraft
        /\ \A k, a : Params(k, a)' = Params(k, a)
    BY MeaningStays DEF Next
  <1>2. /\ stage = "idle" /\ stage' = "called"
        /\ UNCHANGED <<session, question, shown, outcome, told>>
    BY DEF Call, dialog
  <1>3. PICK a \in Asks(m) :
          /\ call' = [method |-> m, asked |-> a]
          /\ wire' = Message("request", m, VersionedRequest(Params(m, a)))
    BY DEF Call
  <1>4. CallIsAsked'
    BY <1>3 DEF CallIsAsked
  <1>5. CallCarries'
    <2>. DEFINE first == VersionedRequest(Params(m, a))
    <2>1. /\ Carries(first, Params(m, a)) /\ "inputResponses" \notin DOMAIN first.fields
          /\ IsDraft => first.fields["_meta"].fields[InfoKey] = ClientInfoJson
      BY RequestsCarry
    <2>2. wire'.method = m /\ wire'.body = first
      BY <1>3 DEF Message
    <2>. HIDE DEF first
    <2>. QED
      BY <1>1, <1>3, <2>1, <2>2 DEF CallCarries
  <1>6. FormsArrive' /\ ToldIsAsked'
    BY <1>2 DEF FormsArrive, ToldIsAsked, TalkInv, AskedArrives
  <1>7. /\ HeardIsMeant' /\ QuestionCarries' /\ AnswerCarries' /\ RequestsArrive'
        /\ InfoIsGreeted'
    BY <1>2 DEF HeardIsMeant, QuestionCarries, AnswerCarries, RequestsArrive, InfoIsGreeted, Heard
  <1>8. InfoIsKept'
    BY <1>1, <1>2 DEF InfoIsKept, TalkInv
  <1>. QED
    BY <1>4, <1>5, <1>6, <1>7, <1>8 DEF TalkInv, AskedArrives

\* What a handler may be told of the question stays the same.
LEMMA AnswersStay ==
  ASSUME UNCHANGED <<question, shown, outcome>>
  PROVE  \A answer : AnswerTells(answer)' <=> AnswerTells(answer)
  BY DEF AnswerTells

\* The server parses the request, tells the handler who asks, and in a retry what
\* was answered.
LEMMA ServeHears ==
  ASSUME TalkInv, Serve
  PROVE  TalkInv'
  <1>. DEFINE m == call.method
              a == call.asked
  <1>1. (IsDraft' <=> IsDraft) /\ (TasksOn' <=> TasksOn)
    BY MeaningStays DEF Next
  <1>2. /\ stage = "called" /\ UNCHANGED <<session, call, question, shown, outcome>>
        /\ stage' \in {"refusing", "accepting", "serving"}
        /\ stage' = "refusing" <=> heard'.params = Refused
        /\ heard'.params = Parse(wire.method, wire.body) /\ heard'.context = Context
        /\ told' = IF "key" \in DOMAIN Responses THEN OfAnswer(Responses["key"]) ELSE told
    BY DEF Serve
  <1>3. m \in Methods \union Plain /\ a \in Asks(m)
    BY <1>2 DEF TalkInv, CallIsAsked, InCall
  <1>4. /\ wire.method = m /\ Carries(wire.body, Params(m, a))
        /\ IsDraft => wire.body.fields["_meta"].fields[InfoKey] = ClientInfoJson
        /\ "inputResponses" \in DOMAIN wire.body.fields =>
             \E answer : /\ AnswerTells(answer)
                         /\ wire.body.fields["inputResponses"] = Obj([key |-> answer])
    BY <1>2 DEF TalkInv, CallCarries
  <1>5. IF WellFormed(m, a) THEN heard'.params = Meant(m, a) ELSE heard'.params = Refused
    BY <1>2, <1>3, <1>4, ParsedAsMeant
  <1>6. heard'.context.info = ClientInfo
    <2>1. CASE IsDraft
      BY <1>2, <1>4, <2>1, ClientIsRead DEF Context, InfoKey
    <2>2. CASE ~IsDraft
      BY <1>2, <2>2 DEF Context, InfoIsKept, TalkInv
    <2>. QED
      BY <2>1, <2>2
  <1>7. stage' # "refusing" => heard'.params = Meant(m, a)
    BY <1>2, <1>5
  <1>8. stage' = "refusing" => ~WellFormed(m, a)
    BY <1>2, <1>3, <1>5, MeantIsNotRefused
  <1>9. RequestsArrive' /\ HeardIsMeant'
    BY <1>2, <1>6, <1>7, <1>8 DEF RequestsArrive, HeardIsMeant, Heard
  <1>10. "key" \in DOMAIN Responses => AnswerTells(Responses["key"])
    <2>1. SUFFICES ASSUME "key" \in DOMAIN Responses PROVE AnswerTells(Responses["key"])
      OBVIOUS
    <2>2. /\ IsDraft /\ "inputResponses" \in DOMAIN wire.body.fields
          /\ Responses["key"] = wire.body.fields["inputResponses"].fields["key"]
      BY <1>4, <2>1, ResponsesAreRead, Objects DEF Carries
    <2>3. PICK answer : /\ AnswerTells(answer)
                        /\ wire.body.fields["inputResponses"] = Obj([key |-> answer])
      BY <1>4, <2>2
    <2>4. Responses["key"] = [key |-> answer]["key"]
      BY <2>2, <2>3, Objects
    <2>. QED
      BY <2>3, <2>4
  <1>11. FormsArrive'
    <2>1. CASE "key" \in DOMAIN Responses
      <3>1. told' = OfAnswer(Responses["key"]) /\ AnswerTells(Responses["key"])
        BY <1>2, <1>10, <2>1
      <3>. QED
        BY <1>2, <3>1, AnswersAreHeard DEF FormsArrive, AnswerTells
    <2>2. CASE "key" \notin DOMAIN Responses
      BY <1>2, <2>2 DEF FormsArrive, TalkInv, AskedArrives
    <2>. QED
      BY <2>1, <2>2
  <1>12. ToldIsAsked'
    <2>1. "key" \in DOMAIN Responses => question # Nothing
      BY <1>10 DEF AnswerTells, Questions, Nothing
    <2>. QED
      BY <1>2, <2>1 DEF ToldIsAsked, TalkInv
  <1>13. CallIsAsked'
    BY <1>2, <1>3 DEF CallIsAsked
  <1>14. CallCarries' /\ QuestionCarries' /\ AnswerCarries' /\ InfoIsGreeted'
    BY <1>2 DEF CallCarries, QuestionCarries, AnswerCarries, InfoIsGreeted
  <1>15. InfoIsKept'
    BY <1>1, <1>2 DEF InfoIsKept, TalkInv
  <1>. QED
    BY <1>9, <1>11, <1>12, <1>13, <1>14, <1>15 DEF TalkInv, AskedArrives

\* A question goes out, or is not allowed.
LEMMA AskPuts ==
  ASSUME TalkInv, Ask
  PROVE  TalkInv'
  <1>1. (IsDraft' <=> IsDraft) /\ (TasksOn' <=> TasksOn)
        /\ \A q : ElicitRequestValue(q)' = ElicitRequestValue(q)
    BY MeaningStays DEF Next
  <1>2. /\ stage = "serving" /\ stage' \in {"serving", "asked"} /\ question = Nothing
        /\ UNCHANGED <<session, call, heard, shown, outcome>>
    BY DEF Ask
  <1>3. PICK q \in Questions :
          /\ question' = q
          /\ \/ /\ wire' = IF IsDraft THEN Message("result", "input required", InputRequired(q))
                           ELSE Message("request", q.method, ElicitRequestValue(q))
                /\ stage' = "asked" /\ UNCHANGED told
             \/ told' = Undeclared /\ UNCHANGED <<stage, wire>>
    BY DEF Ask
  <1>4. told = Nothing /\ q # Nothing /\ Undeclared # Nothing
    BY <1>2 DEF TalkInv, ToldIsAsked, Questions, Nothing, Undeclared
  <1>5. QuestionCarries'
    <2>. DEFINE request == Obj([method |-> Token(q.method), params |-> ElicitRequestValue(q)])
    <2>1. SUFFICES ASSUME stage' = "asked" PROVE told' = Nothing /\ QuestionOnWire' = request
      BY <1>1, <1>3 DEF QuestionCarries
    <2>2. told' = Nothing
      BY <1>2, <1>3, <1>4, <2>1
    <2>3. wire' = IF IsDraft THEN Message("result", "input required", InputRequired(q))
                  ELSE Message("request", q.method, ElicitRequestValue(q))
      BY <1>2, <1>3, <2>1
    <2>4. CASE IsDraft
      <3>1. InputRequired(q).fields["inputRequests"] = Obj([key |-> request])
        <4>. DEFINE result == Obj([resultType |-> Token("input_required"),
                                   inputRequests |-> Obj([key |-> request]),
                                   requestState |-> Token("signed")])
        <4>1. PICK stamp : InputRequired(q) = D!Put(result, "_meta", stamp)
          <5>1. InputRequired(q) = D!StampServerInfo(result, ServerInfo)
            BY DEF InputRequired
          <5>. HIDE DEF result
          <5>. QED
            BY <5>1 DEF D!StampServerInfo
        <4>2. /\ "inputRequests" \in DOMAIN result.fields
              /\ result.fields["inputRequests"] = Obj([key |-> request])
          <5>. HIDE DEF request
          <5>. QED
            BY Objects
        <4>. HIDE DEF result, request
        <4>. QED
          BY <4>1, <4>2, Inserts
      <3>2. wire'.body = InputRequired(q)
        BY <2>3, <2>4 DEF Message
      <3>3. QuestionOnWire' = wire'.body.fields["inputRequests"].fields["key"]
        BY <1>1, <2>4 DEF QuestionOnWire
      <3>4. Obj([key |-> request]).fields = [key |-> request]
        BY Objects
      <3>. HIDE DEF request
      <3>. QED
        BY <2>2, <3>1, <3>2, <3>3, <3>4
    <2>5. CASE ~IsDraft
      BY <1>1, <2>2, <2>3, <2>5 DEF QuestionOnWire, Message
    <2>. QED
      BY <2>4, <2>5
  <1>6. CallIsAsked' /\ HeardIsMeant'
    BY <1>2 DEF CallIsAsked, HeardIsMeant, Heard, InCall, TalkInv
  <1>7. CallCarries' /\ AnswerCarries' /\ InfoIsGreeted'
    BY <1>2 DEF CallCarries, AnswerCarries, InfoIsGreeted
  <1>8. ToldIsAsked' /\ FormsArrive'
    BY <1>3, <1>4 DEF ToldIsAsked, FormsArrive
  <1>9. RequestsArrive'
    BY <1>1, <1>2 DEF RequestsArrive, TalkInv, AskedArrives
  <1>10. InfoIsKept'
    BY <1>1, <1>2 DEF InfoIsKept, TalkInv
  <1>. QED
    BY <1>5, <1>6, <1>7, <1>8, <1>9, <1>10 DEF TalkInv, AskedArrives

\* The user is shown the question and answers.
LEMMA FillAnswers ==
  ASSUME TalkInv, Fill
  PROVE  \E answer :
           /\ AnswerTells(answer)'
           /\ IsDraft => /\ wire'.method = call.method
                         /\ wire'.body = VersionedRequest(
                              Put(Put(Params(call.method, call.asked), "inputResponses",
                                      Obj([key |-> answer])),
                                  "requestState", wire.body.fields["requestState"]))
           /\ ~IsDraft => wire'.body = answer
  <1>. DEFINE retry(answer) == VersionedRequest(
                Put(Put(Params(call.method, call.asked), "inputResponses", Obj([key |-> answer])),
                    "requestState", wire.body.fields["requestState"]))
              Goes(answer) == \E method :
                wire' = IF IsDraft THEN Message("request", call.method, retry(answer))
                                   ELSE Message("result", method, answer)
  <1>1. /\ question \in Questions /\ UNCHANGED question
        /\ QuestionOnWire = Obj([method |-> Token(question.method), params |-> ElicitRequestValue(question)])
    BY DEF TalkInv, QuestionCarries, Fill
  <1>2. /\ QuestionOnWire.fields["method"].of = question.method
        /\ QuestionOnWire.fields["params"] = ElicitRequestValue(question)
    BY <1>1 DEF Obj, Token
  <1>3. IF QuestionOnWire.fields["method"].of = "elicitation/create"
        THEN /\ shown' = ParseElicitParams(QuestionOnWire.fields["params"])
             /\ \E o \in ElicitOutcomes : outcome' = o /\ Goes(ElicitOutcomeValue(o))
        ELSE Goes(NoRoots) /\ UNCHANGED <<shown, outcome>>
    <2>. HIDE DEF retry
    <2>. QED
      BY DEF Fill, QuestionOnWire, retry
  <1>4. PICK answer : AnswerTells(answer)' /\ Goes(answer)
    <2>. HIDE DEF Goes
    <2>1. CASE question.method = "elicitation/create"
      <3>1. PICK o \in ElicitOutcomes : outcome' = o /\ Goes(ElicitOutcomeValue(o))
        BY <1>2, <1>3, <2>1
      <3>2. shown' = ParseElicitParams(ElicitRequestValue(question))
        BY <1>2, <1>3, <2>1
      <3>3. AnswerTells(ElicitOutcomeValue(o))'
        BY <1>1, <2>1, <3>1, <3>2, QuestionsAreShown DEF AnswerTells
      <3>. QED
        BY <3>1, <3>3
    <2>2. CASE question.method # "elicitation/create"
      <3>1. question.method = "roots/list"
        BY <1>1, <2>2 DEF Questions
      <3>. QED
        BY <1>1, <1>2, <1>3, <2>2, <3>1 DEF AnswerTells
    <2>. QED
      BY <2>1, <2>2
  <1>. HIDE DEF retry
  <1>5. /\ IsDraft => wire'.method = call.method /\ wire'.body = retry(answer)
        /\ ~IsDraft => wire'.body = answer
    BY <1>4 DEF Message
  <1>. QED
    BY <1>4, <1>5 DEF retry

\* The answer carries what the user did.
LEMMA FillCarries ==
  ASSUME TalkInv, Fill
  PROVE  TalkInv'
  <1>1. /\ (IsDraft' <=> IsDraft) /\ (TasksOn' <=> TasksOn)
        /\ \A m, a : Params(m, a)' = Params(m, a)
    BY MeaningStays DEF Next
  <1>2. /\ stage = "asked" /\ stage' = IF IsDraft THEN "called" ELSE "answered"
        /\ UNCHANGED <<session, call, heard, question, told>>
    BY DEF Fill
  <1>3. PICK answer :
          /\ AnswerTells(answer)'
          /\ IsDraft => /\ wire'.method = call.method
                        /\ wire'.body = VersionedRequest(
                             Put(Put(Params(call.method, call.asked), "inputResponses",
                                     Obj([key |-> answer])),
                                 "requestState", wire.body.fields["requestState"]))
          /\ ~IsDraft => wire'.body = answer
    BY FillAnswers
  <1>4. CallIsAsked' /\ call.method \in Methods \union Plain /\ call.asked \in Asks(call.method)
    BY <1>2 DEF CallIsAsked, InCall, Heard, TalkInv
  <1>5. CallCarries'
    <2>1. SUFFICES ASSUME IsDraft
                   PROVE  /\ wire'.method = call.method
                          /\ Carries(wire'.body, Params(call.method, call.asked))
                          /\ wire'.body.fields["_meta"].fields[InfoKey] = ClientInfoJson
                          /\ wire'.body.fields["inputResponses"] = Obj([key |-> answer])
      BY <1>1, <1>2, <1>3 DEF CallCarries
    <2>. QED
      BY <1>3, <1>4, <2>1, RequestsCarry
  <1>6. AnswerCarries'
    BY <1>2, <1>3 DEF AnswerCarries
  <1>7. told = Nothing
    BY <1>2 DEF TalkInv, QuestionCarries
  <1>8. ToldIsAsked' /\ FormsArrive'
    BY <1>2, <1>7 DEF ToldIsAsked, FormsArrive
  <1>9. HeardIsMeant' /\ RequestsArrive' /\ QuestionCarries' /\ InfoIsGreeted'
    BY <1>2 DEF HeardIsMeant, Heard, RequestsArrive, QuestionCarries, InfoIsGreeted, TalkInv
  <1>10. InfoIsKept'
    BY <1>1, <1>2 DEF InfoIsKept, TalkInv
  <1>. QED
    BY <1>4, <1>5, <1>6, <1>8, <1>9, <1>10 DEF TalkInv, AskedArrives

\* The legacy handler is told.
LEMMA HearTells ==
  ASSUME TalkInv, Hear
  PROVE  TalkInv'
  <1>1. (IsDraft' <=> IsDraft) /\ (TasksOn' <=> TasksOn)
    BY MeaningStays DEF Next
  <1>2. /\ stage = "answered" /\ stage' = "serving" /\ told' = OfAnswer(wire.body)
        /\ UNCHANGED <<session, call, heard, question, shown, outcome>>
    BY DEF Hear
  <1>3. AnswerTells(wire.body)
    BY <1>2 DEF TalkInv, AnswerCarries
  <1>4. FormsArrive' /\ ToldIsAsked'
    <2>1. question # Nothing
      BY <1>3 DEF AnswerTells, Questions, Nothing
    <2>. QED
      BY <1>2, <1>3, <2>1, AnswersAreHeard DEF FormsArrive, ToldIsAsked, AnswerTells
  <1>5. CallIsAsked' /\ HeardIsMeant' /\ RequestsArrive'
    BY <1>2 DEF CallIsAsked, HeardIsMeant, RequestsArrive, Heard, InCall, TalkInv
  <1>6. CallCarries' /\ QuestionCarries' /\ AnswerCarries' /\ InfoIsGreeted'
    BY <1>2 DEF CallCarries, QuestionCarries, AnswerCarries, InfoIsGreeted
  <1>7. InfoIsKept'
    BY <1>1, <1>2 DEF InfoIsKept, TalkInv
  <1>. QED
    BY <1>4, <1>5, <1>6, <1>7 DEF TalkInv, AskedArrives

\* What follows when a handler has answered, and what needs none.
LEMMA TalkRests ==
  ASSUME TalkInv, Next, UNCHANGED <<session, call, heard, question, shown, outcome, told>>,
         stage \notin {"start", "greeting", "unwelcome"},
         \/ stage' = "done"
         \/ stage \in Heard /\ stage' \in {"replied", "polling", "polled"}
  PROVE  TalkInv'
  <1>1. (IsDraft' <=> IsDraft) /\ (TasksOn' <=> TasksOn)
    BY MeaningStays
  <1>2. CallIsAsked' /\ HeardIsMeant'
    BY DEF CallIsAsked, HeardIsMeant, InCall, Heard, TalkInv
  <1>3. RequestsArrive'
    BY DEF RequestsArrive, HeardIsMeant, TalkInv
  <1>4. CallCarries' /\ QuestionCarries' /\ AnswerCarries' /\ InfoIsGreeted'
    BY DEF CallCarries, QuestionCarries, AnswerCarries, InfoIsGreeted
  <1>5. ToldIsAsked' /\ FormsArrive'
    BY DEF ToldIsAsked, FormsArrive, TalkInv, AskedArrives
  <1>6. InfoIsKept'
    BY <1>1 DEF InfoIsKept, TalkInv
  <1>. QED
    BY <1>2, <1>3, <1>4, <1>5, <1>6 DEF TalkInv, AskedArrives

\* A method that does not exist, and the end of a request.
LEMMA OtherSteps ==
  ASSUME TalkInv, MethodNotFound \/ Finish
  PROVE  TalkInv'
  <1>1. (IsDraft' <=> IsDraft) /\ (TasksOn' <=> TasksOn)
    BY MeaningStays DEF Next
  <1>2. InfoIsKept'
    BY <1>1 DEF InfoIsKept, TalkInv, MethodNotFound, Finish
  <1>3. CASE MethodNotFound
    <2>1. /\ stage = "called" /\ stage' = "refusing" /\ wire.method \in TaskMethods /\ ~TasksOn
          /\ UNCHANGED <<call, question, shown, outcome, told>>
      BY <1>3 DEF MethodNotFound, dialog
    <2>2. call.method \in TaskMethods
      BY <2>1 DEF TalkInv, CallCarries
    <2>3. RequestsArrive'
      BY <1>1, <2>1, <2>2 DEF RequestsArrive
    <2>4. CallIsAsked'
      BY <2>1 DEF CallIsAsked, InCall, TalkInv
    <2>5. ToldIsAsked' /\ FormsArrive'
      BY <2>1 DEF ToldIsAsked, FormsArrive, TalkInv, AskedArrives
    <2>6. /\ CallCarries' /\ HeardIsMeant' /\ QuestionCarries' /\ AnswerCarries'
          /\ InfoIsGreeted'
      BY <2>1 DEF CallCarries, HeardIsMeant, Heard, QuestionCarries, AnswerCarries, InfoIsGreeted
    <2>. QED
      BY <1>2, <2>3, <2>4, <2>5, <2>6 DEF TalkInv, AskedArrives
  <1>4. CASE Finish
    <2>1. stage' = "idle" /\ question' = Nothing /\ told' = Nothing
      BY <1>4 DEF Finish
    <2>. QED
      BY <1>2, <2>1 DEF TalkInv, AskedArrives, CallIsAsked, CallCarries, HeardIsMeant,
           QuestionCarries, AnswerCarries, ToldIsAsked, InfoIsGreeted, RequestsArrive,
           FormsArrive, InCall, Heard
  <1>. QED
    BY <1>3, <1>4

\* TalkInv is inductive.
LEMMA TalkSteps == TalkInv /\ [Next]_vars => TalkInv'
  <1>. SUFFICES ASSUME TalkInv, [Next]_vars PROVE TalkInv'
    OBVIOUS
  <1>. USE DEF dialog, Heard
  <1>1. CASE Greet \/ Discover \/ Initialize \/ Join
    BY <1>1, TalkBegins
  <1>2. CASE \E m \in Methods \union Plain : Call(m)
    BY <1>2, CallsCarry
  <1>3. CASE Serve
    BY <1>3, ServeHears
  <1>4. CASE Ask
    BY <1>4, AskPuts
  <1>5. CASE Fill
    BY <1>5, FillCarries
  <1>6. CASE Hear
    BY <1>6, HearTells
  <1>7. CASE MethodNotFound \/ Finish
    BY <1>7, OtherSteps
  <1>8. CASE Refuse
    BY <1>8, TalkRests DEF Next, Refuse
  <1>9. CASE Answer
    BY <1>9, TalkRests DEF Next, Answer
  <1>10. CASE Receive
    BY <1>10, TalkRests DEF Next, Receive
  <1>11. CASE Accept
    BY <1>11, TalkRests DEF Next, Accept
  <1>12. CASE Poll
    BY <1>12, TalkRests DEF Next, Poll
  <1>13. CASE Report
    BY <1>13, TalkRests DEF Next, Report
  <1>14. CASE Deliver
    BY <1>14, TalkRests DEF Next, Deliver
  <1>15. CASE Acknowledge
    BY <1>15, TalkRests DEF Next, Acknowledge
  <1>16. CASE Publish
    BY <1>16, TalkRests DEF Next, Publish
  <1>17. CASE UNCHANGED vars
    <2>1. UNCHANGED <<version, features, session, stage, call, wire, heard, question, shown,
                      outcome, told>>
      BY <1>17 DEF vars, setup
    <2>2. (IsDraft' <=> IsDraft) /\ (TasksOn' <=> TasksOn)
      BY <2>1 DEF IsDraft, TasksOn
    <2>3. \A m, a : Params(m, a)' = Params(m, a)
      BY <2>2 DEF Params
    <2>4. \A q : ElicitRequestValue(q)' = ElicitRequestValue(q)
      BY <2>2 DEF ElicitRequestValue
    <2>5. \A answer : AnswerTells(answer)' <=> AnswerTells(answer)
      BY <2>1, AnswersStay
    <2>6. CallIsAsked' /\ HeardIsMeant' /\ ToldIsAsked' /\ InfoIsGreeted' /\ InfoIsKept'
      BY <2>1, <2>2 DEF TalkInv, CallIsAsked, HeardIsMeant, ToldIsAsked, InfoIsGreeted, InfoIsKept
    <2>7. CallCarries'
      BY <2>1, <2>2, <2>3, <2>5 DEF TalkInv, CallCarries
    <2>8. QuestionCarries' /\ AnswerCarries'
      BY <2>1, <2>2, <2>4, <2>5 DEF TalkInv, QuestionCarries, QuestionOnWire, AnswerCarries
    <2>9. AskedArrives'
      BY <2>1, <2>2 DEF TalkInv, AskedArrives, RequestsArrive, FormsArrive
    <2>. QED
      BY <2>6, <2>7, <2>8, <2>9 DEF TalkInv
  <1>. QED
    BY <1>1, <1>2, <1>3, <1>4, <1>5, <1>6, <1>7, <1>8, <1>9, <1>10, <1>11, <1>12, <1>13, <1>14,
       <1>15, <1>16, <1>17 DEF Next

\* Nothing has been asked yet.
LEMMA NothingAsked == Init => TalkInv
  BY DEF Init, TalkInv, AskedArrives, CallIsAsked, CallCarries, HeardIsMeant, QuestionCarries,
         AnswerCarries, ToldIsAsked, InfoIsGreeted, InfoIsKept, RequestsArrive, FormsArrive,
         InCall, Heard

\* Whatever version is spoken: a handler is given the parameters the application
\* meant and is told who asks, only what is not a request of the protocol is refused
\* (params.rs, build_context, legacy_context, versioned_request); a user is shown the
\* form the handler put, and the handler learns what the user did (elicit_request_value,
\* parse_elicit_params, elicit_outcome_value, parse_elicit_outcome).
THEOREM RequestsAndFormsArrive == Spec => []AskedArrives
  <1>1. TalkInv => AskedArrives
    BY DEF TalkInv
  <1>. QED
    BY <1>1, NothingAsked, TalkSteps, PTL DEF Spec
===============================================================================
