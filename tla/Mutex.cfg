SPECIFICATION FairSpec
CONSTANTS
  k1 = k1
  k2 = k2
  k3 = k3
  k4 = k4
  t1 = t1
  t2 = t2
  None = None
  Keys <- MCKeys
  TimedKeys <- MCTimedKeys
INVARIANTS TypeOK MutualExclusion OverlapOnlyByTimeouts ChainInv LockedCountsPendingUnlocks
PROPERTIES ImplementsFifoLock EveryCallGetsItsKey
CHECK_DEADLOCK FALSE
