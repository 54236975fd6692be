\* A handler and a clone of its reporter, more reports than a channel holds, two GET
\* streams; or one call with what goes round it: handshake, notification, a question
\* of the server and its answer.
SPECIFICATION FairViews
CONSTANTS
  h = h
  k = k
  g1 = g1
  g2 = g2
  NoStream = none
  Handler = h
  Clones = {k}
  Gets = {g1, g2}
  ChanCap = 1
  MaxReports = 3
  c1 = c1
  Calls = {c1}
  QueueCap = 1
  MaxBreaks = 1
  Pairings <- EachOutcome
INVARIANTS HttpTypesOK StreamIsWhole HeadersServe FailuresAreScoped
PROPERTIES EndsAreSeen
\* A request that was answered is over, and so is a client that was dropped.
CHECK_DEADLOCK FALSE
