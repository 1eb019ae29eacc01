SPECIFICATION AllSpec
CONSTANTS
  Events = {e1, e2}
  Malformed = {e2}
  Dispatchers = {d1, d2}
  Slots = {s1, s2}
  Publishers = 1
  None = None
SYMMETRY Interchangeable
INVARIANTS TypeOK SettledWasAccepted ExclusiveWithinLease
PROPERTIES KeepsPromise Converges
CHECK_DEADLOCK FALSE
