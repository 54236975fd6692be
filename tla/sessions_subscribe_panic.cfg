\* DELETE between the two critical sections of resources/subscribe.
SPECIFICATION LegacySpec
CONSTANTS
  s1 = s1
  u1 = u1
  q1 = q1
  q2 = q2
  Sessions = {s1}
  Uris = {u1}
  Requests = {q1, q2}
  Operations = {"initialize", "subscribe", "delete"}
  Capacity = 1
  MaxRoutes = 1
  IdleTimeout = FALSE
INVARIANTS RouteStillThere
\* Every id can be minted and every session ended.
CHECK_DEADLOCK FALSE
