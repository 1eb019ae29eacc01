SPECIFICATION Spec
CONSTANTS
  m1 = m1  m2 = m2  m3 = m3  m4 = m4  w1 = w1  w2 = w2
  Messages = {m1}
  PostOf <- MCPostOf
  Foreign = {}
  Poison = {}
  Deferred = {m1}
  Workers = {w1}
  Prefetch = 1
  Limits = {0, 1}
  ParkingRoom = 0
  MaxFaults = 2
CHECK_DEADLOCK FALSE
INVARIANT DeferredNeverDead
