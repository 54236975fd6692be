\* Pushes, an outside publisher and every fault: what a drain may lose.
SPECIFICATION Spec
CONSTANTS
  c1 = c1
  c2 = c2
  c3 = c3
  c4 = c4
  n1 = n1
  x1 = x1
  p1 = p1
  Calls = {c1, c2}
  Notes = {n1}
  Answers = {x1}
  AnswerTo <- OneAnswer
  Chatty = {c2}
  Hanging = {}
  Publishers = {p1}
  MaxInFlight = 2
  MaxPushes = 1
  Faults = {"send", "recv", "ready", "handler", "close"}
INVARIANTS DrainLosesNothing
PROPERTIES ImplementsConnection
\* A chatty handler with a parked reader can stop the driver for good, which
\* serve_stall is about.
CHECK_DEADLOCK FALSE
