SPECIFICATION FairSpec
CONSTANTS
  t1 = t1
  t2 = t2
  t3 = t3
  Capacity = 3
  Threads <- ThreeThreads
  Allocators <- OneAllocator
  Spurious = TRUE
INVARIANTS
  TypeOK
  NoDoubleAllocation
  LinksSpellFreeList
  NoLinkRace
  InUseExact
PROPERTIES
  CallsReturn
