SPECIFICATION FairSpec
CONSTANTS
  t1 = t1
  t2 = t2
  t3 = t3
  t4 = t4
  v1 = v1
  v2 = v2
  None = None
  Threads <- FourThreads
  Values <- TwoValues
INVARIANTS
  NobodySleepsOverWork
PROPERTIES
  Meet
  CloseReleasesAll
  RendezvousUnlessLeft
