SPECIFICATION Spec
CONSTANTS
  Requests = {r1, r2, r3}
  Names = {n1}
  Existing = {}
  Ops = {"push", "pull", "create"}
  Provider = "redis"
  CreateRights = {TRUE, FALSE}
  MaxBatch = 1
  MaxInQueue = 1
  InitialMessages = 3
  InitialQueues = 2
  BufferSize = 2
  Failures = TRUE
  NoDoc = NoDoc
  Missing = Missing
SYMMETRY RequestSymmetry
CHECK_DEADLOCK FALSE
INVARIANT AcceptedIsKept
INVARIANT QueuesAreCharged
INVARIANT DocsAreBacked
PROPERTY CreationIsAuthorized
