SPECIFICATION FairSpec
CONSTANTS
  Workers = {w1}
  Messages = {m1}
  BufferSize = 1
  Failures = TRUE
  Crashes = FALSE
CHECK_DEADLOCK FALSE
PROPERTY StopsAfterSignal
