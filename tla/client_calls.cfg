\* Two callers, duplicate answers, I/O errors, dropped futures, a handler or none.
SPECIFICATION FairSpec
CONSTANTS
  r1 = r1
  r2 = r2
  s1 = s1
  Requests = {r1, r2}
  ServerReqs = {s1}
  ChanCap = 1
  MaxAnswers = 2
  Faults = {"send", "recv", "drop"}
INVARIANTS TypeOK TableIsSound
PROPERTIES CallsEnd ServerRequestsAnswered
