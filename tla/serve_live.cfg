\* Four calls and a notification on two permits, one handler that may hang.
SPECIFICATION FairSpec
CONSTANTS
  c1 = c1
  c2 = c2
  c3 = c3
  c4 = c4
  n1 = n1
  x1 = x1
  p1 = p1
  Calls = {c1, c2, c3, c4}
  Notes = {n1}
  Answers = {}
  AnswerTo <- NoAnswers
  Chatty = {}
  Hanging = {c4}
  Publishers = {}
  MaxInFlight = 2
  MaxPushes = 0
  Faults = {}
INVARIANTS TypeOK NoStall
PROPERTIES ReadCallsAreAnswered ShutdownCompletes
