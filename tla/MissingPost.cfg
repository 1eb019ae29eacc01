SPECIFICATION Spec
CONSTANTS
  Posts = {1}
  Owner = "o"
  Readers = {"a"}
  Requests = {1, 2}
  Workers = {"w"}
  Ops = {"like", "comment", "bookmark", "delete"}
  MaxEvents = 1
  MaxFaults = 0
INVARIANT MissingIsNotFound
CHECK_DEADLOCK FALSE
