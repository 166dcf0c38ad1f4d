SPECIFICATION FairSpec
CONSTANTS
  Callers = {c1, c2, c3}
  Backends = {b1, b2}
  TestKeys = {t1}
  StatsKey = StatsKey
  None = None
CHECK_DEADLOCK FALSE
INVARIANT TypeOK
INVARIANT NoneLeaked
INVARIANT MarkedWhileConnecting
INVARIANT ListMatchesPool
INVARIANT StatsReady
PROPERTY AskedForIsOpened
