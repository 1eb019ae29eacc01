SPECIFICATION AllSpec
CONSTANTS
  Posts = {1}
  Owner = o
  Readers = {a}
  Requests = {c1, c2, r}
  Workers = {c1, c2}
  Ops = {"like", "unlike", "bookmark", "unbookmark", "comment", "delete", "read"}
  MaxEvents = 2
  MaxFaults = 1
  People = {u, v}
  Founders = {u, v}
  Visits = {c1, c2}
  AccountOps = {"follow", "unfollow", "role", "declare"}
  SessionTTL = 1
  MaxClock = 1
  MaxOutages = 1
  Callers = {"a", "b"}
  ClientSlots = 1
  ServerSlots = 1
  MaxEpoch = 2
  MaxRevision = 2
  MaxFailures = 1
  Sources = {"logs", "visibility"}
  Selectors = {"command", "event"}
  Lone = {"a"}
SYMMETRY Interchangeable
INVARIANTS StagesSafe AccountsSafe SocialSafe
PROPERTIES LimitsSafe PublisherSafe WalksSafe
CHECK_DEADLOCK FALSE
