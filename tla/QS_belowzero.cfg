SPECIFICATION Spec
CONSTANTS
  Requests = {r1, r2}
  Names = {n1}
  Existing = {n1}
  Ops = {"push", "pull"}
  Provider = "mongodb"
  CreateRights = {TRUE}
  MaxBatch = 1
  MaxInQueue = 1
  InitialMessages = 3
  InitialQueues = 2
  BufferSize = 1
  Failures = FALSE
  NoDoc = NoDoc
  Missing = Missing
SYMMETRY RequestSymmetry
CHECK_DEADLOCK FALSE
INVARIANT NotBelowZero
