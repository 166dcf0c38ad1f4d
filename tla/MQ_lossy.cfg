SPECIFICATION Spec
CONSTANTS
  Messages = {m1, m2, m3}
  Consumers = {c1, c2}
  Purges = {p1}
  Deletes = {d1}
  Count = 2
  Crashes = TRUE
  None = None
SYMMETRY CallSymmetry
CHECK_DEADLOCK FALSE
INVARIANT TypeOK
PROPERTY ImplementsQueue
