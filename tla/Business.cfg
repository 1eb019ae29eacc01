SPECIFICATION AllSpec
CONSTANTS
  Events = {e1, e2, e3}
  Searched = {e1, e2, e3}
  Commanded = {e1}
  Legacy = {e3}
  Generations = {g1, g2}
  Replicas = {r1, r2}
  Batch = 2
  OpenLimit = 1
  GroupLimit = 1
  MaxFaults = 2
  Writers = {r1, r2}
  Clients = {a}
  Digests = {1, 2}
  MaxOpen = 1
  MaxCommands = 2
  MaxRevision = 2
  MaxEpochs = 2
  CommandFaults = 1
  Evaluators = {r1, r2}
  LastFor = 1
  MaxGap = 1
  LateAge = 1
  RuleEdits = 1
  Readers = {r1, r2}
  MaxActiveKeys = 2
  MaxExecutors = 2
  MaxWaitersPerKey = 2
  MaxRegisteredWaiters = 3
  WaiterSlots = 3
  RebuildSlots = 1
  DatabaseSlots = 1
  MaxAgain = 1
  ReadFaults = 1
SYMMETRY Interchangeable
INVARIANTS CountersExact WithinBudget RetentionSafe 
PROPERTIES ReadsSafe CommandsSafe AlertsSafe
CHECK_DEADLOCK FALSE
