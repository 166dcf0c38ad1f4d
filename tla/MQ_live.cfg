SPECIFICATION FairSpec
CONSTANTS
  Messages = {m1, m2, m3}
  Consumers = {c1, c2}
  Purges = {}
  Deletes = {}
  Count = 2
  Crashes = FALSE
  None = None
INVARIANT NoOrphans
PROPERTY ImplementsQueue
PROPERTY ShortPullMeansEmpty
PROPERTY EventuallyDelivered
