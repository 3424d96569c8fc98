SPECIFICATION Spec
CONSTANTS
  Threads = {t1, t2, t3}
  SEM_VALUE_MAX = 3
  Nsecs = 2
  Times = {0, 1}
  MaxPosts = 3
INVARIANT TimedWaitEnsure
