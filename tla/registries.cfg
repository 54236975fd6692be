\* Two requests of sessions at a time, DELETE among them; or bursts of changes,
\* two publishers, a session and a subscription with a task filter.
SPECIFICATION ClientsSpec
CONSTANTS
  s1 = s1
  s2 = s2
  s3 = s3
  u1 = u1
  q1 = q1
  q2 = q2
  l1 = l1
  l2 = l2
  x1 = x1
  c1 = c1
  c2 = c2
  p1 = p1
  p2 = p2
  Sessions = {s1, s2, s3}
  Uris = {u1}
  Requests = {q1, q2}
  Operations = {"initialize", "call", "subscribe", "unsubscribe", "setLevel", "delete"}
  Capacity = 2
  MaxRoutes = 2
  IdleTimeout = TRUE
  ConnOf <- OneEach
  Wants <- Everything
  Subs = {l1}
  TaskSubs = {l1}
  LegacyRoutes = {x1}
  Conns = {c1, c2}
  Publishers = {p1, p2}
  MaxChanges = 2
  MaxOthers = 1
INVARIANTS RegistriesTypeOK RoutesFollowSessions SubscribersAreTold
PROPERTIES EndedIsSilent
SYMMETRY Symmetric
\* Every id can be minted and every session ended; a server that nobody calls any
\* more is done.
CHECK_DEADLOCK FALSE
