SPECIFICATION FairSpec
CONSTANTS
  Threads = {t1, t2, t3}
  NoThread = NoThread
  Modulus = 2
  MaxSignals = 3
INVARIANT NoMissedBroadcast
PROPERTY ReturnsLocked
PROPERTY WaitersReached
