SPECIFICATION FairSpec
CONSTANTS
  Threads = {t1, t2}
  KeysMax = 2
  Iterations = 2
  GenMod = 2
  Destructors = {d1, d2}
  Values = {v}
  NULL = NULL
  MaxCreates = 2
CHECK_DEADLOCK FALSE
INVARIANT SeesOwnValues
INVARIANT NothingLeft
PROPERTY RightDestructor
PROPERTY ExitEnds
