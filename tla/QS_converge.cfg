SPECIFICATION FairSpec
CONSTANTS
  Requests = {r1, r2, r3}
  Names = {n1}
  Existing = {n1}
  Ops = {"push", "pull"}
  Provider = "mongodb"
  CreateRights = {TRUE}
  MaxBatch = 2
  MaxInQueue = 1
  InitialMessages = 4
  InitialQueues = 2
  BufferSize = 2
  Failures = TRUE
  NoDoc = NoDoc
  Missing = Missing
CHECK_DEADLOCK FALSE
INVARIANT CountersAccount
PROPERTY CountersConverge
