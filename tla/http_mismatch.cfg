\* A draft call whose mirror headers are of an older schema.
SPECIFICATION HttpSpec
CONSTANTS
  c1 = c1
  Calls = {c1}
  QueueCap = 1
  MaxBreaks = 0
  Pairings <- Modern
INVARIANTS MismatchIsTold
\* A client that is done stops.
CHECK_DEADLOCK FALSE
