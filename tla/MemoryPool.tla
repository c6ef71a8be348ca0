------------------------------ MODULE MemoryPool ------------------------------
(***************************************************************************)
(* The fixed-capacity object pool of src/common/memory_pool.hpp: a stack   *)
(* of free slots linked through next_free, popped and pushed with          *)
(* compare-and-swap on free_head_.  One shared access per step.            *)
(*                                                                         *)
(* Every thread may deallocate any pointer the clients hold (pointers may  *)
(* be passed between threads); the threads in Allocators also allocate.    *)
(* A client returns a pointer once.  Slot index Capacity ends the list.    *)
(***************************************************************************)
EXTENDS Integers, Sequences, FiniteSets, SequencesExt

CONSTANTS
  Capacity,     \* template parameter Capacity
  Threads,      \* threads that use the pool
  Allocators,   \* those that call allocate
  Spurious      \* whether compare_exchange_weak may fail spuriously

ASSUME CapacityAssumption == Capacity \in Nat \ {0}
ASSUME ThreadsAssumption == IsFiniteSet(Threads)
ASSUME AllocatorsAssumption == Allocators \subseteq Threads
ASSUME SpuriousAssumption == Spurious \in BOOLEAN

Slots == 0 .. (Capacity - 1)
Links == 0 .. Capacity

VARIABLES
  free_head,    \* free_head_
  next_free,    \* slots_[i].next_free
  in_use,       \* slots_[i].in_use
  allocated,    \* allocated_
  pc,           \* where each thread is inside allocate or deallocate
  head,         \* the local head of each thread
  next,         \* the local next of a thread in allocate
  idx,          \* the slot a thread in deallocate returns
  live,         \* how many holders each slot has among the clients
  free_list     \* history: the stack the successful exchanges have built

pool == <<free_head, next_free, in_use, allocated>>
vars == <<pool, pc, head, next, idx, live, free_list>>

AllocPcs == {"next", "cas", "use", "count"}
FreePcs == {"load", "link", "push", "uncount"}

TypeOK ==
  /\ free_head \in Links
  /\ next_free \in [Slots -> Links]
  /\ in_use \in [Slots -> BOOLEAN]
  /\ allocated \in Nat
  /\ pc \in [Threads -> {"idle"} \cup AllocPcs \cup FreePcs]
  /\ head \in [Threads -> Links]
  /\ next \in [Threads -> Links]
  /\ idx \in [Threads -> Slots]
  /\ live \in [Slots -> Nat]
  /\ free_list \in Seq(Slots)

Init ==
  /\ free_head = 0
  /\ next_free = [i \in Slots |-> i + 1]
  /\ in_use = [i \in Slots |-> FALSE]
  /\ allocated = 0
  /\ pc = [t \in Threads |-> "idle"]
  /\ head = [t \in Threads |-> Capacity]
  /\ next = [t \in Threads |-> Capacity]
  /\ idx = [t \in Threads |-> 0]
  /\ live = [i \in Slots |-> 0]
  /\ free_list = [k \in 1 .. Capacity |-> k - 1]

-------------------------------------------------------------------------------
(* allocate()                                                              *)

(* What a thread in allocate does with a head it has just loaded: return   *)
(* nullptr when the list is empty, else go on to read its next_free.       *)
SeeHead(t, h) ==
  /\ head' = [head EXCEPT ![t] = h]
  /\ pc' = [pc EXCEPT ![t] = IF h >= Capacity THEN "idle" ELSE "next"]

AllocLoad(t) ==
  /\ pc[t] = "idle" /\ t \in Allocators
  /\ SeeHead(t, free_head)
  /\ UNCHANGED <<pool, next, idx, live, free_list>>

AllocNext(t) ==
  /\ pc[t] = "next"
  /\ next' = [next EXCEPT ![t] = next_free[head[t]]]
  /\ pc' = [pc EXCEPT ![t] = "cas"]
  /\ UNCHANGED <<pool, head, idx, live, free_list>>

(* Fault: a plain store in place of the compare-and-swap.                  *)
AllocStore(t) ==
  /\ pc[t] = "cas"
  /\ free_head' = next[t]
  /\ free_list' = SubSeq(free_list, 2, Len(free_list))
  /\ pc' = [pc EXCEPT ![t] = "use"]
  /\ UNCHANGED <<next_free, in_use, allocated, head, next, idx, live>>

AllocCas(t) ==
  /\ pc[t] = "cas"
  /\ free_head = head[t]
  /\ free_head' = next[t]
  /\ free_list' = SubSeq(free_list, 2, Len(free_list))
  /\ pc' = [pc EXCEPT ![t] = "use"]
  /\ UNCHANGED <<next_free, in_use, allocated, head, next, idx, live>>

AllocRetry(t) ==
  /\ pc[t] = "cas"
  /\ Spurious \/ free_head # head[t]
  /\ SeeHead(t, free_head)
  /\ UNCHANGED <<pool, next, idx, live, free_list>>

(* Fault: in_use is not set.                                               *)
AllocUseUnmarked(t) ==
  /\ pc[t] = "use"
  /\ pc' = [pc EXCEPT ![t] = "count"]
  /\ UNCHANGED <<pool, head, next, idx, live, free_list>>

AllocUse(t) ==
  /\ pc[t] = "use"
  /\ in_use' = [in_use EXCEPT ![head[t]] = TRUE]
  /\ pc' = [pc EXCEPT ![t] = "count"]
  /\ UNCHANGED <<free_head, next_free, allocated, head, next, idx, live, free_list>>

(* Fault: the counter is not incremented.                                  *)
AllocReturnUncounted(t) ==
  /\ pc[t] = "count"
  /\ live' = [live EXCEPT ![head[t]] = @ + 1]
  /\ pc' = [pc EXCEPT ![t] = "idle"]
  /\ UNCHANGED <<pool, head, next, idx, free_list>>

(* fetch_add, construction, and the pointer is the client's.               *)
AllocReturn(t) ==
  /\ pc[t] = "count"
  /\ allocated' = allocated + 1
  /\ live' = [live EXCEPT ![head[t]] = @ + 1]
  /\ pc' = [pc EXCEPT ![t] = "idle"]
  /\ UNCHANGED <<free_head, next_free, in_use, head, next, idx, free_list>>

-------------------------------------------------------------------------------
(* deallocate(), called with a pointer some client holds.                  *)

DeallocBegin(t, i) ==
  /\ pc[t] = "idle"
  /\ live[i] > 0
  /\ live' = [live EXCEPT ![i] = @ - 1]
  /\ idx' = [idx EXCEPT ![t] = i]
  /\ in_use' = [in_use EXCEPT ![i] = FALSE]
  /\ pc' = [pc EXCEPT ![t] = "load"]
  /\ UNCHANGED <<free_head, next_free, allocated, head, next, free_list>>

DeallocLoad(t) ==
  /\ pc[t] = "load"
  /\ head' = [head EXCEPT ![t] = free_head]
  /\ pc' = [pc EXCEPT ![t] = "link"]
  /\ UNCHANGED <<pool, next, idx, live, free_list>>

(* Fault: the slot is pushed first and linked afterwards.                  *)
DeallocLinkLate(t) ==
  /\ pc[t] = "link"
  /\ free_head = head[t]
  /\ free_head' = idx[t]
  /\ free_list' = <<idx[t]>> \o free_list
  /\ UNCHANGED <<next_free, in_use, allocated, pc, head, next, idx, live>>

DeallocLink(t) ==
  /\ pc[t] = "link"
  /\ next_free' = [next_free EXCEPT ![idx[t]] = head[t]]
  /\ pc' = [pc EXCEPT ![t] = "push"]
  /\ UNCHANGED <<free_head, in_use, allocated, head, next, idx, live, free_list>>

DeallocCas(t) ==
  /\ pc[t] = "push"
  /\ free_head = head[t]
  /\ free_head' = idx[t]
  /\ free_list' = <<idx[t]>> \o free_list
  /\ pc' = [pc EXCEPT ![t] = "uncount"]
  /\ UNCHANGED <<next_free, in_use, allocated, head, next, idx, live>>

(* Fault: the loop does not link the slot again to the head it reloaded.   *)
DeallocRetryUnlinked(t) ==
  /\ pc[t] = "push"
  /\ Spurious \/ free_head # head[t]
  /\ head' = [head EXCEPT ![t] = free_head]
  /\ UNCHANGED <<pool, pc, next, idx, live, free_list>>

(* Fault: the head is not reloaded after a failed exchange.                *)
DeallocRetryStale(t) ==
  /\ pc[t] = "push"
  /\ Spurious \/ free_head # head[t]
  /\ pc' = [pc EXCEPT ![t] = "link"]
  /\ UNCHANGED <<pool, head, next, idx, live, free_list>>

DeallocRetry(t) ==
  /\ pc[t] = "push"
  /\ Spurious \/ free_head # head[t]
  /\ head' = [head EXCEPT ![t] = free_head]
  /\ pc' = [pc EXCEPT ![t] = "link"]
  /\ UNCHANGED <<pool, next, idx, live, free_list>>

DeallocReturn(t) ==
  /\ pc[t] = "uncount"
  /\ allocated' = allocated - 1
  /\ pc' = [pc EXCEPT ![t] = "idle"]
  /\ UNCHANGED <<free_head, next_free, in_use, head, next, idx, live, free_list>>

Continue(t) ==
  \/ AllocNext(t) \/ AllocCas(t) \/ AllocRetry(t) \/ AllocUse(t) \/ AllocReturn(t)
  \/ DeallocLoad(t) \/ DeallocLink(t) \/ DeallocCas(t) \/ DeallocRetry(t)
  \/ DeallocReturn(t)

Next ==
  \E t \in Threads :
    \/ AllocLoad(t)
    \/ \E i \in Slots : DeallocBegin(t, i)
    \/ Continue(t)

Spec == Init /\ [][Next]_vars

(* A thread inside a call keeps running; nobody has to start a call.       *)
FairSpec == Spec /\ \A t \in Threads : WF_vars(Continue(t))

-------------------------------------------------------------------------------
(* Properties.                                                             *)

(* The threads that own slot i between taking it off the list and handing  *)
(* it out, or between getting it back and putting it on the list.          *)
Owners(i) ==
  {t \in Threads : \/ pc[t] \in {"use", "count"} /\ head[t] = i
                   \/ pc[t] \in {"load", "link", "push"} /\ idx[t] = i}

(* A slot has at most one owner: one client, or one thread inside a call,  *)
(* or the free list.                                                       *)
NoDoubleAllocation ==
  \A i \in Slots :
    live[i] + Cardinality(Owners(i))
      + Cardinality({k \in DOMAIN free_list : free_list[k] = i}) = 1

(* The links really spell the stack: nothing leaks from the list and no    *)
(* cycle forms in it.                                                      *)
LinksSpellFreeList ==
  \A k \in 0 .. Len(free_list) :
    (IF k = 0 THEN free_head ELSE next_free[free_list[k]])
      = (IF k = Len(free_list) THEN Capacity ELSE free_list[k + 1])

(* next_free is not atomic: nobody reads one that is being written.        *)
NoLinkRace ==
  \A t, u \in Threads :
    pc[t] = "next" /\ pc[u] = "link" => head[t] # idx[u]

(* The double-free assertion cannot fire for a client that returns a       *)
(* pointer it holds, the destructor's in_use scan is right whenever no     *)
(* call is in progress, and allocated() exceeds the number of live objects *)
(* only by the deallocations in progress (which is how it can exceed       *)
(* Capacity for a moment, and available() wrap).                           *)
InUseExact ==
  /\ \A i \in Slots : live[i] > 0 => in_use[i]
  /\ (\A t \in Threads : pc[t] = "idle") => \A i \in Slots : in_use[i] => live[i] > 0
  /\ allocated = Cardinality({i \in Slots : live[i] > 0})
                   + Cardinality({t \in Threads : pc[t] \in FreePcs})

(* A failure that compare_exchange_weak is allowed without a reason.       *)
SpuriousFailure(t) == free_head = head[t] /\ (AllocRetry(t) \/ DeallocRetry(t))

(* Lock freedom: an exchange fails because another call succeeded or for   *)
(* no reason, so once no new call starts and the hardware stops failing    *)
(* for no reason, every call in progress returns.                          *)
CallsReturn ==
  <>[][\E t \in Threads : Continue(t) /\ ~SpuriousFailure(t)]_vars
    => <>[](\A t \in Threads : pc[t] = "idle")
===============================================================================
