SPECIFICATION FairSpec
CONSTANTS
  Workers = {w1, w2}
  Messages = {m1, m2, m3}
  BufferSize = 3
  Failures = TRUE
  Crashes = TRUE
CHECK_DEADLOCK FALSE
INVARIANT TypeOK
INVARIANT BuffersSound
INVARIANT LossIsBounded
PROPERTY EventuallyCounted
PROPERTY StopCompletes
