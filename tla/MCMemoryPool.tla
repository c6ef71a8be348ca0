----------------------------- MODULE MCMemoryPool -----------------------------
(* MemoryPool with few threads and slots.                                  *)
EXTENDS MemoryPool, TLC

CONSTANTS t1, t2, t3

OneAllocator == {t1}
TwoAllocators == {t1, t2}
ThreeThreads == {t1, t2, t3}
TwoThreads == {t1, t2}

(* The threads that only deallocate are interchangeable.                   *)
DeallocatorSymmetry == Permutations({t2, t3})
===============================================================================
