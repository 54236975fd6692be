\* The documented promise that content is fully modelled inbound, against
\* untagged content blocks that try an image before an audio block.
SPECIFICATION Spec
CONSTANTS
  MaxI64 = 2
  MaxU32 = 2
  FeatureSets <- MCFeatureSets
  CapabilitySets <- MCCapabilitySets
  DefaultPolicy <- MCDefaultPolicy
INVARIANTS AudioArrives
\* A refused handshake is the end of a connection.
CHECK_DEADLOCK FALSE
