\* What a message means to the other side, on both protocol versions; and three
\* keys in a cache of two entries, two callers.
SPECIFICATION SidesSpec
CONSTANTS
  MaxI64 = 2
  MaxU32 = 2
  FeatureSets <- MCFeatureSets
  CapabilitySets <- MCCapabilitySets
  DefaultPolicy <- MCDefaultPolicy
  a = a
  b = b
  Keys <- ThreeKeys
  Notices <- AllNotices
  Callers = {a, b}
  MaxEntries = 2
  MaxTtl = 2
  MaxVersion = 1
INVARIANTS CacheTypeOK StaleOnlyByRace ResultsArrive AskedArrives MessagesConform PeersAgree
\* A refused handshake is the end of a connection.
CHECK_DEADLOCK FALSE
