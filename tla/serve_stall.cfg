\* Two calls on one permit, the first pushes one progress message.
SPECIFICATION FairSpec
CONSTANTS
  c1 = c1
  c2 = c2
  c3 = c3
  c4 = c4
  n1 = n1
  x1 = x1
  p1 = p1
  Calls = {c1, c2}
  Notes = {}
  Answers = {}
  AnswerTo <- NoAnswers
  Chatty = {c1}
  Hanging = {}
  Publishers = {}
  MaxInFlight = 1
  MaxPushes = 1
  Faults = {}
PROPERTIES ShutdownCompletes
\* The driver stops for good: that is the counterexample.
CHECK_DEADLOCK FALSE
