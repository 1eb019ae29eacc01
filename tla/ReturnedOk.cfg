SPECIFICATION Spec
CONSTANTS
  Callers = {a}
  Kinds = {"post.created"}
  Base = 1
  MaxBackoff = 2
  MaxAttempts = 2
  MaxCalls = 1
  MaxFaults = 1
INVARIANT NeverMarkUnroutable
CHECK_DEADLOCK FALSE
