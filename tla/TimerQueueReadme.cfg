SPECIFICATION FairSpec
CONSTANTS
  t1 = t1
  t2 = t2
  a = a
  b = b
  NoItem = NoItem
  MaxTime = 3
  Second = 2
  Threads <- MCThreads
  Items <- MCItems
PROPERTY
  ImplementsTimedSet
