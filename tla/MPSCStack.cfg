SPECIFICATION FairSpec
CONSTANTS
  p1 = p1
  p2 = p2
  v1 = v1
  v2 = v2
  a1 = a1
  a2 = a2
  a3 = a3
  Null = Null
  Nothing = Nothing
  Producers <- TwoProducers
  Values <- TwoValues
  Addresses <- ThreeAddresses
INVARIANTS
  NodesOwnedOnce
  ReadsLinkedNode
PROPERTIES
  ImplementsAtomicStack
  LockFree
CHECK_DEADLOCK FALSE
