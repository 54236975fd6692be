\* Lines in pieces, a blank one and one over the cap, while the loop is busy; three
\* frames on two pipes with two request ids; a WebSocket peer that talks, pauses and
\* dies, with pongs that take up to eight ticks; or two concurrent look-ups of two
\* keys that come and go.
SPECIFICATION FairEdges
CONSTANTS
  k1 = k1
  k2 = k2
  q1 = q1
  q2 = q2
  Lines = 4
  EndOf <- FourLines
  MaxLine = 3
  MaxCancels = 2
  MaxFrames = 3
  Pipes = {"a", "b"}
  RequestIds = {"i", "j"}
  StoreCapacity = 1
  IdleExpiry = TRUE
  Interval = 3
  MaxIdle = 3
  Latency = 8
  SigningKeys = {k1, k2}
  Lookups = {q1, q2}
  KidOf <- Kids
  Ttl = 2
  Delay = 1
INVARIANTS EdgesTypeOK NoLineIsLost CancellationIsExact CallsFindTheirSession ProbesAreFair
PROPERTIES LinesArrive KeysAreCurrent
\* Look-ups and frames that were handled are over.
CHECK_DEADLOCK FALSE
