SPECIFICATION MCFairSpec
CONSTANTS
  Threads = {t1, t2, t3, t4}
  Arrivers = {t1, t2, t3}
  Count = 2
  IntMax = 2
  MaxCalls = 6
  Workers = {w1, w2}
  Addrs = {a1, a2}
  None = None
CHECK_DEADLOCK FALSE
INVARIANT InitRunsOnce
INVARIANT BarrierHolds
INVARIANT JoinGetsStatus
INVARIANT BlocksReleased
PROPERTY EveryoneGoesOn
