SPECIFICATION AllSpec
CONSTANTS
  Members = {m1, m2}
  Last = 3
  Invalid = {1}
  MaxPoll = 2
  MaxAssignments = 2
  NoOwner = NoOwner
  SpoolSizes = {2, 3}
  SpoolCapacity = 8
  MaxSpoolRestarts = 2
  MaxSpoolFaults = 1
  ReleaseVersions = {1, 2}
  MaxRevisions = 3
  MaxExporters = 4
  MaxMonitorStarts = 2
  MaxPluginFaults = 1
  CollectRounds = 5
  CollectEnables = 3
  LogCapacity = 2
  MaxLogged = 4
  MaxLogFaults = 2
INVARIANTS SpoolSafe PluginSafe CollectSafe LogSafe NoRecordSkipped ContractsSafe 
PROPERTIES IndicesSafe
CHECK_DEADLOCK FALSE
