SPECIFICATION Spec
CONSTANTS
  t1 = t1
  t2 = t2
  t3 = t3
  Capacity = 2
  Threads <- TwoThreads
  Allocators <- TwoAllocators
  Spurious = FALSE
INVARIANTS
  NoDoubleAllocation
