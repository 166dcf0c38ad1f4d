SPECIFICATION Spec
CONSTANTS
  Requests = {r1, r2, r3}
  Names = {n1}
  Existing = {n1}
  Ops = {"push", "pull", "purge", "delete", "create", "settings", "alarm"}
  Provider = "redis"
  CreateRights = {TRUE}
  MaxBatch = 1
  MaxInQueue = 1
  InitialMessages = 3
  InitialQueues = 2
  BufferSize = 2
  Failures = TRUE
  NoDoc = NoDoc
  Missing = Missing
SYMMETRY RequestSymmetry
CHECK_DEADLOCK FALSE
INVARIANT TypeOK
INVARIANT InQueueAtMostTotal
INVARIANT QuotaAccounts
PROPERTY TotalNeverDrops
