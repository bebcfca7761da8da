SPECIFICATION FairSpec
CONSTANTS
  t1 = t1
  t2 = t2
  k1 = k1
  k2 = k2
  v = v
  w = w
  None = None
  LockCount = 2
  MaxLoad = 1
  Growth = 3
  Threads <- TwoThreads
  Keys <- TwoKeys
  Hash <- MCHash
  Values <- TwoValues
INVARIANTS
  BucketsInOrder
PROPERTIES
  SomebodyReturns
  MapUnlessTwice
