SPECIFICATION FairSpec
CONSTANTS
  Threads = {t1, t2, t3}
  NoThread = NoThread
  MaxRecursion = 2
INVARIANT MutualExclusion
INVARIANT NoLostWakeup
PROPERTY ImplementsAbstractMutex
PROPERTY SleepersWoken
