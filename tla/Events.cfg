SPECIFICATION Spec
CONSTANTS
  m1 = m1  m2 = m2  m3 = m3  m4 = m4  w1 = w1  w2 = w2
  Messages = {m1, m2, m3, m4}
  PostOf <- MCPostOf
  Foreign = {m3}
  Poison = {m4}
  Deferred = {m1}
  Workers = {w1}
  Prefetch = 2
  Limits = {0, 1}
  ParkingRoom = 2
  MaxFaults = 3
CHECK_DEADLOCK FALSE
INVARIANTS TypeOK NothingLost CopiesNeedFaults DeadDeserved
PROPERTY EverySettles
