SPECIFICATION FairSpec
CONSTANTS
  Threads = {t1, t2, t3}
  RC_COUNT_MASK = 7
INVARIANT WriterIsAlone
INVARIANT EnsuresHold
INVARIANT NoLostWakeup
PROPERTY WriterGetsIn
