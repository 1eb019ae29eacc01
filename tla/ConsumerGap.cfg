SPECIFICATION Spec
CONSTANTS
  Members = {m1, m2}
  Last = 3
  Invalid = {1}
  MaxPoll = 2
  MaxAssignments = 1
  NoOwner = NoOwner
SYMMETRY Interchangeable
INVARIANT NoGap
CHECK_DEADLOCK FALSE
