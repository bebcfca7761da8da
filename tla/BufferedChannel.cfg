SPECIFICATION FairSpec
CONSTANTS
  t1 = t1
  t2 = t2
  t3 = t3
  v1 = v1
  v2 = v2
  None = None
  Threads <- ThreeThreads
  Values <- TwoValues
  Capacity = 2
INVARIANTS
  NobodySleepsOverWork
  NothingLeftBehind
PROPERTIES
  CloseReleasesReceivers
  ImplementsFifoChannel
