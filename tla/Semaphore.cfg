SPECIFICATION FairSpec
CONSTANTS
  Threads = {t1, t2, t3}
  SEM_VALUE_MAX = 2
  Nsecs = 2
  Times = {0, 1}
  MaxPosts = 3
INVARIANT TokensConserved
INVARIANT NoLostWakeup
PROPERTY TokenWakes
