SPECIFICATION LocksSpec
CONSTANTS
  t1 = t1
  t2 = t2
  t3 = t3
  t4 = t4
  Free = Free
  Users <- ThreeThreads
  Threads <- FourThreads
  Callers <- FourThreads
  Counts <- OneOrTwo
  LastBit = 4
INVARIANTS
  WordCountsHolders
  NoForgottenWriter
  PermitsConserved
  NoStrandedPermit
PROPERTIES
  SpinImplementsRWExclusion
  LockFree
  ImplementsRWExclusion
  WritersGetThrough
  EveryWaiterEnters
  ImplementsFifoSemaphore
