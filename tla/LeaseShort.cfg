SPECIFICATION Spec
CONSTANTS
  Publishers = {p1, p2}
  Batch = 2
  PublishTimeout = 5
  DatabaseTimeout = 2
  PollInterval = 1
  Backoff = 1
  Margin = 1
  Luck = 1
INVARIANT LeaseCovered
CHECK_DEADLOCK FALSE
