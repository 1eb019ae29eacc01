SPECIFICATION Spec
CONSTANTS
  Posts = {1}
  MaxRev = 2
  Handlers = {h1, h2}
  MaxIndices = 2
  Batch = 1
  MaxFaults = 1
SYMMETRY HandlerSymmetry
INVARIANTS TypeOK EvidenceTrue NoFactLost
PROPERTY AliasKept
CHECK_DEADLOCK FALSE
