SPECIFICATION Spec
CONSTANTS
  Callers = {c1, c2}
  Backends = {b1}
  TestKeys = {t1}
  StatsKey = StatsKey
  None = None
CHECK_DEADLOCK FALSE
INVARIANT TestTellsTheTruth
