--------------------------- MODULE MemoryPoolProofs ---------------------------
(***************************************************************************)
(* Proofs that hold for every capacity and every number of threads that    *)
(* deallocate, with a single thread that allocates.  With a second         *)
(* allocator an A-B-A exchange breaks them, which TLC shows.               *)
(***************************************************************************)
EXTENDS MemoryPool, FiniteSetTheorems, SequenceTheorems, TLAPS

(* Only one thread takes slots off the list.                               *)
SingleAllocator == \A t, u \in Allocators : t = u

InList(i) == \E k \in DOMAIN free_list : free_list[k] = i

Owns(t, i) ==
  \/ pc[t] \in {"use", "count"} /\ head[t] = i
  \/ pc[t] \in {"load", "link", "push"} /\ idx[t] = i

(* A slot is a client's, or one thread's, or on the list; once.            *)
Exclusive ==
  /\ \A i \in Slots : live[i] \in {0, 1}
  /\ \A t, u \in Threads, i \in Slots : Owns(t, i) /\ Owns(u, i) => t = u
  /\ \A j, k \in DOMAIN free_list : free_list[j] = free_list[k] => j = k
  /\ \A i \in Slots : live[i] = 1 => ~InList(i)
  /\ \A t \in Threads, i \in Slots : Owns(t, i) => live[i] = 0 /\ ~InList(i)
  /\ \A i \in Slots : live[i] = 1 \/ InList(i) \/ \E t \in Threads : Owns(t, i)

(* The slot the allocator is about to take stays on the list, because      *)
(* nobody else takes one, and its link stays what the allocator read,      *)
(* because a link is only written while its slot is off the list.          *)
Allocating ==
  \A t \in Threads :
    /\ pc[t] \in AllocPcs => t \in Allocators /\ head[t] \in Slots
    /\ pc[t] \in {"next", "cas"} => InList(head[t])
    /\ pc[t] = "cas" => next[t] = next_free[head[t]]

Freeing == \A t \in Threads : pc[t] = "push" => next_free[idx[t]] = head[t]

(* in_use is set from the moment before a slot is handed out.              *)
Marked ==
  /\ \A i \in Slots : live[i] = 1 => in_use[i]
  /\ \A t \in Threads : pc[t] = "count" => in_use[head[t]]
  /\ \A i \in Slots :
       in_use[i] => live[i] = 1 \/ \E t \in Threads : pc[t] = "count" /\ head[t] = i

Held == {i \in Slots : live[i] > 0}
Returning == {t \in Threads : pc[t] \in FreePcs}
Counted == allocated = Cardinality(Held) + Cardinality(Returning)

IInv ==
  /\ TypeOK
  /\ Exclusive
  /\ LinksSpellFreeList
  /\ Allocating
  /\ Freeing
  /\ Marked
  /\ Counted

-------------------------------------------------------------------------------
(* What popping and pushing do to the elements of the list.                *)
LEMMA Popped ==
  ASSUME NEW A, NEW s \in Seq(A), Len(s) > 0
  PROVE  /\ SubSeq(s, 2, Len(s)) \in Seq(A)
         /\ Len(SubSeq(s, 2, Len(s))) = Len(s) - 1
         /\ \A k \in 1 .. Len(s) - 1 : SubSeq(s, 2, Len(s))[k] = s[k + 1]
<1> DEFINE n == Len(s)
           r == SubSeq(s, 2, n)
<1>1. n \in Nat /\ n > 0 /\ \A k \in 2 .. n : s[k] \in A
  BY LenProperties, ElementOfSeq
<1>2. /\ r \in Seq(A)
      /\ Len(r) = (IF 2 <= n THEN n - 2 + 1 ELSE 0)
      /\ \A k \in 1 .. n - 2 + 1 : r[k] = s[2 + k - 1]
  BY <1>1, SubSeqProperties
<1> HIDE DEF n, r
<1>3. r \in Seq(A) /\ Len(r) = n - 1 /\ \A k \in 1 .. n - 1 : r[k] = s[k + 1]
  <2>1. n - 2 + 1 = n - 1 /\ \A k \in 1 .. n - 1 : 2 + k - 1 = k + 1
    BY <1>1
  <2> QED BY <1>1, <1>2, <2>1
<1> QED BY <1>3 DEF n, r

LEMMA Pushed ==
  ASSUME NEW A, NEW s \in Seq(A), NEW x \in A
  PROVE  /\ <<x>> \o s \in Seq(A)
         /\ Len(<<x>> \o s) = Len(s) + 1
         /\ (<<x>> \o s)[1] = x
         /\ \A k \in 1 .. Len(s) : (<<x>> \o s)[k + 1] = s[k]
  OBVIOUS

(* Both sets that are counted are finite.                                  *)
LEMMA FiniteParts ==
  ASSUME TypeOK
  PROVE  /\ IsFiniteSet(Held) /\ Cardinality(Held) \in Nat
         /\ IsFiniteSet(Returning) /\ Cardinality(Returning) \in Nat
<1>1. IsFiniteSet(Slots)
  BY FS_Interval, CapacityAssumption DEF Slots
<1> QED
  BY <1>1, FS_Subset, FS_CardinalityType, ThreadsAssumption DEF Held, Returning

(* The head of a list that is not empty is its first element.              *)
LEMMA HeadIsFirst ==
  ASSUME TypeOK, LinksSpellFreeList
  PROVE  /\ free_head < Capacity => Len(free_list) > 0
         /\ Len(free_list) > 0 => free_head = free_list[1] /\ free_head \in Slots
<1>1. Len(free_list) \in Nat /\ \A k \in 1 .. Len(free_list) : free_list[k] \in Slots
  BY LenProperties, ElementOfSeq DEF TypeOK
<1>2. free_head = IF 0 = Len(free_list) THEN Capacity ELSE free_list[0 + 1]
  BY <1>1 DEF LinksSpellFreeList
<1> QED BY <1>1, <1>2, CapacityAssumption

(* The invariant holds initially: every slot is on the list, in order.     *)
LEMMA InitIInv == Init => IInv
<1> SUFFICES ASSUME Init PROVE IInv
  OBVIOUS
<1> USE CapacityAssumption
<1>1. TypeOK
  BY DEF Init, TypeOK, Links, Slots
<1>2. Exclusive
  BY DEF Init, Exclusive, Owns, InList, Slots
<1>3. LinksSpellFreeList
  BY DEF Init, LinksSpellFreeList, Slots
<1>4. Allocating /\ Freeing /\ Marked
  BY DEF Init, Allocating, Freeing, Marked, AllocPcs
<1>5. Counted
  <2>1. Held = {} /\ Returning = {}
    BY DEF Init, Held, Returning, FreePcs
  <2> QED BY <2>1, FS_EmptySet DEF Init, Counted
<1> QED BY <1>1, <1>2, <1>3, <1>4, <1>5 DEF IInv

-------------------------------------------------------------------------------
(* A step that takes no slot from one holder to another.                   *)
LEMMA OwnershipKept ==
  ASSUME Exclusive, UNCHANGED <<live, free_list>>,
         \A t \in Threads, i \in Slots : Owns(t, i)' <=> Owns(t, i)
  PROVE  Exclusive'
  BY DEF Exclusive, InList

(* The steps of allocate: an exchange that succeeds finds the list's head  *)
(* where the thread read it, with the link it read.                        *)
LEMMA AllocLoadIInv ==
  ASSUME IInv, NEW t \in Threads, AllocLoad(t)
  PROVE  IInv'
<1> USE DEF AllocLoad, SeeHead, pool
<1>1. free_head < Capacity => free_head \in Slots /\ InList(free_head)
  BY HeadIsFirst DEF IInv, TypeOK, InList
<1>2. TypeOK'
  BY DEF IInv, TypeOK, AllocPcs
<1>3. Exclusive'
  <2>1. \A u \in Threads, i \in Slots : Owns(u, i)' <=> Owns(u, i)
    BY DEF IInv, TypeOK, Owns
  <2> QED BY <2>1, OwnershipKept DEF IInv
<1>4. LinksSpellFreeList'
  BY DEF IInv, LinksSpellFreeList
<1>5. Allocating'
  BY <1>1, CapacityAssumption DEF IInv, TypeOK, Allocating, AllocPcs, InList, Links
<1>6. Freeing' /\ Marked'
  BY DEF IInv, TypeOK, Freeing, Marked
<1>7. Counted'
  <2>1. Held' = Held /\ Returning' = Returning
    BY DEF IInv, TypeOK, Held, Returning, FreePcs
  <2> QED BY <2>1 DEF IInv, Counted
<1> QED BY <1>2, <1>3, <1>4, <1>5, <1>6, <1>7 DEF IInv

LEMMA AllocNextIInv ==
  ASSUME IInv, NEW t \in Threads, AllocNext(t)
  PROVE  IInv'
<1> USE DEF AllocNext, pool
<1>1. head[t] \in Slots
  BY DEF IInv, Allocating, AllocPcs
<1>2. TypeOK'
  BY <1>1 DEF IInv, TypeOK, AllocPcs
<1>3. Exclusive'
  <2>1. \A u \in Threads, i \in Slots : Owns(u, i)' <=> Owns(u, i)
    BY DEF IInv, TypeOK, Owns
  <2> QED BY <2>1, OwnershipKept DEF IInv
<1>4. LinksSpellFreeList'
  BY DEF IInv, LinksSpellFreeList
<1>5. Allocating'
  BY DEF IInv, TypeOK, Allocating, AllocPcs, InList
<1>6. Freeing' /\ Marked'
  BY DEF IInv, TypeOK, Freeing, Marked
<1>7. Counted'
  <2>1. Held' = Held /\ Returning' = Returning
    BY DEF IInv, TypeOK, Held, Returning, FreePcs
  <2> QED BY <2>1 DEF IInv, Counted
<1> QED BY <1>2, <1>3, <1>4, <1>5, <1>6, <1>7 DEF IInv

LEMMA AllocCasIInv ==
  ASSUME IInv, SingleAllocator, NEW t \in Threads, AllocCas(t)
  PROVE  IInv'
<1> USE DEF AllocCas
<1> DEFINE n == Len(free_list)
<1>1. /\ t \in Allocators /\ head[t] \in Slots /\ InList(head[t])
      /\ next[t] = next_free[head[t]]
  BY DEF IInv, Allocating, AllocPcs
<1>2. /\ n \in Nat /\ n > 0 /\ free_list[1] = head[t]
      /\ DOMAIN free_list = 1 .. n
      /\ \A k \in 1 .. n : free_list[k] \in Slots
  BY <1>1, HeadIsFirst, LenProperties, ElementOfSeq, CapacityAssumption
     DEF IInv, TypeOK, InList
<1>3. /\ free_list' \in Seq(Slots)
      /\ Len(free_list') = n - 1
      /\ DOMAIN free_list' = 1 .. (n - 1)
      /\ \A k \in 1 .. (n - 1) : free_list'[k] = free_list[k + 1]
  BY <1>2, Popped, LenProperties DEF IInv, TypeOK
<1> HIDE DEF n
<1>4. \A i \in Slots : InList(i)' <=> (InList(i) /\ i # head[t])
  <2>1. \A j, k \in 1 .. n : free_list[j] = free_list[k] => j = k
    BY <1>2 DEF IInv, Exclusive
  <2>2. ASSUME NEW i \in Slots, InList(i)' PROVE InList(i) /\ i # head[t]
    <3>1. PICK k \in 1 .. (n - 1) : free_list[k + 1] = i
      BY <1>3, <2>2 DEF InList
    <3> QED BY <1>2, <2>1, <3>1 DEF InList
  <2>3. ASSUME NEW i \in Slots, InList(i), i # head[t] PROVE InList(i)'
    <3>1. PICK k \in 1 .. n : free_list[k] = i
      BY <1>2, <2>3 DEF InList
    <3>2. k - 1 \in 1 .. (n - 1) /\ free_list'[k - 1] = i
      BY <1>2, <1>3, <2>3, <3>1
    <3> QED BY <1>3, <3>2 DEF InList
  <2> QED BY <2>2, <2>3
<1>5. \A u \in Threads, i \in Slots :
        Owns(u, i)' <=> (Owns(u, i) \/ (u = t /\ i = head[t]))
  BY DEF IInv, TypeOK, Owns
<1>6. TypeOK'
  BY <1>3 DEF IInv, TypeOK, AllocPcs
<1>7. Exclusive'
  <2>1. \A j, k \in DOMAIN free_list' : free_list'[j] = free_list'[k] => j = k
    BY <1>2, <1>3 DEF IInv, Exclusive
  <2>2. live[head[t]] = 0 /\ \A u \in Threads : ~Owns(u, head[t])
    BY <1>1 DEF IInv, Exclusive
  <2> QED BY <1>1, <1>4, <1>5, <2>1, <2>2 DEF IInv, Exclusive
<1>8. LinksSpellFreeList'
  <2>1. \A k \in 0 .. n : (IF k = 0 THEN free_head ELSE next_free[free_list[k]])
                            = (IF k = n THEN Capacity ELSE free_list[k + 1])
    BY DEF IInv, LinksSpellFreeList, n
  <2>2. ASSUME NEW k \in 0 .. (n - 1)
        PROVE (IF k = 0 THEN free_head' ELSE next_free'[free_list'[k]])
                = (IF k = n - 1 THEN Capacity ELSE free_list'[k + 1])
    <3>1. CASE k = 0
      <4>1. next_free[free_list[1]] = (IF 1 = n THEN Capacity ELSE free_list[1 + 1])
        BY <1>2, <2>1
      <4> QED BY <1>1, <1>2, <1>3, <3>1, <4>1
    <3>2. CASE k > 0
      <4>1. k + 1 \in 0 .. n /\ k + 1 # 0 /\ k \in 1 .. (n - 1) /\ k # 0
        BY <1>2, <3>2
      <4>2. next_free[free_list[k + 1]]
              = (IF k + 1 = n THEN Capacity ELSE free_list[k + 1 + 1])
        BY <2>1, <4>1
      <4>3. free_list'[k] = free_list[k + 1]
        BY <1>3, <4>1
      <4>4. k # n - 1 => free_list'[k + 1] = free_list[k + 1 + 1]
        <5>1. k # n - 1 => k + 1 \in 1 .. (n - 1)
          BY <1>2, <4>1
        <5> QED BY <1>3, <5>1
      <4>5. k + 1 = n <=> k = n - 1
        BY <1>2, <4>1
      <4> QED BY <4>1, <4>2, <4>3, <4>4, <4>5
    <3> QED BY <1>2, <3>1, <3>2
  <2> QED BY <1>3, <2>2 DEF LinksSpellFreeList
<1>9. Allocating'
  <2>1. \A u \in Threads : pc[u] \in AllocPcs => u = t
    BY <1>1 DEF IInv, Allocating, SingleAllocator
  <2> QED BY <1>1, <2>1 DEF IInv, TypeOK, Allocating, AllocPcs
<1>10. Freeing' /\ Marked'
  BY DEF IInv, TypeOK, Freeing, Marked
<1>11. Counted'
  <2>1. Held' = Held /\ Returning' = Returning
    BY DEF IInv, TypeOK, Held, Returning, FreePcs
  <2> QED BY <2>1 DEF IInv, Counted
<1> QED BY <1>6, <1>7, <1>8, <1>9, <1>10, <1>11 DEF IInv

LEMMA AllocRetryIInv ==
  ASSUME IInv, NEW t \in Threads, AllocRetry(t)
  PROVE  IInv'
<1> USE DEF AllocRetry, SeeHead, pool
<1>1. /\ free_head < Capacity => free_head \in Slots /\ InList(free_head)
      /\ t \in Allocators
  BY HeadIsFirst DEF IInv, TypeOK, InList, Allocating, AllocPcs
<1>2. TypeOK'
  BY DEF IInv, TypeOK, AllocPcs
<1>3. Exclusive'
  <2>1. \A u \in Threads, i \in Slots : Owns(u, i)' <=> Owns(u, i)
    BY DEF IInv, TypeOK, Owns
  <2> QED BY <2>1, OwnershipKept DEF IInv
<1>4. LinksSpellFreeList'
  BY DEF IInv, LinksSpellFreeList
<1>5. Allocating'
  BY <1>1, CapacityAssumption DEF IInv, TypeOK, Allocating, AllocPcs, InList, Links
<1>6. Freeing' /\ Marked'
  BY DEF IInv, TypeOK, Freeing, Marked
<1>7. Counted'
  <2>1. Held' = Held /\ Returning' = Returning
    BY DEF IInv, TypeOK, Held, Returning, FreePcs
  <2> QED BY <2>1 DEF IInv, Counted
<1> QED BY <1>2, <1>3, <1>4, <1>5, <1>6, <1>7 DEF IInv

LEMMA AllocUseIInv ==
  ASSUME IInv, NEW t \in Threads, AllocUse(t)
  PROVE  IInv'
<1> USE DEF AllocUse
<1>1. head[t] \in Slots
  BY DEF IInv, Allocating, AllocPcs
<1>2. TypeOK'
  BY DEF IInv, TypeOK, AllocPcs
<1>3. Exclusive'
  <2>1. \A u \in Threads, i \in Slots : Owns(u, i)' <=> Owns(u, i)
    BY DEF IInv, TypeOK, Owns
  <2> QED BY <2>1, OwnershipKept DEF IInv
<1>4. LinksSpellFreeList'
  BY DEF IInv, LinksSpellFreeList
<1>5. Allocating'
  BY DEF IInv, TypeOK, Allocating, AllocPcs, InList
<1>6. Freeing'
  BY DEF IInv, TypeOK, Freeing
<1>7. Marked'
  BY <1>1 DEF IInv, TypeOK, Marked
<1>8. Counted'
  <2>1. Held' = Held /\ Returning' = Returning
    BY DEF IInv, TypeOK, Held, Returning, FreePcs
  <2> QED BY <2>1 DEF IInv, Counted
<1> QED BY <1>2, <1>3, <1>4, <1>5, <1>6, <1>7, <1>8 DEF IInv

(* The slot passes from the thread to the client.                          *)
LEMMA AllocReturnIInv ==
  ASSUME IInv, NEW t \in Threads, AllocReturn(t)
  PROVE  IInv'
<1> USE DEF AllocReturn
<1>1. /\ head[t] \in Slots /\ Owns(t, head[t])
      /\ live[head[t]] = 0 /\ live' = [live EXCEPT ![head[t]] = 1]
  <2>1. head[t] \in Slots /\ Owns(t, head[t])
    BY DEF IInv, Allocating, AllocPcs, Owns
  <2>2. live[head[t]] = 0
    BY <2>1 DEF IInv, Exclusive
  <2> QED BY <2>1, <2>2
<1>2. TypeOK'
  BY <1>1 DEF IInv, TypeOK, AllocPcs
<1>3. Exclusive'
  <2>1. \A u \in Threads, i \in Slots :
          Owns(u, i)' <=> (Owns(u, i) /\ u # t)
    BY DEF IInv, TypeOK, Owns
  <2>2. \A i \in Slots : InList(i)' <=> InList(i)
    BY DEF InList
  <2>3. \A i \in Slots : Owns(t, i) => i = head[t]
    BY DEF Owns
  <2> QED BY <1>1, <2>1, <2>2, <2>3 DEF IInv, TypeOK, Exclusive
<1>4. LinksSpellFreeList'
  BY DEF IInv, LinksSpellFreeList
<1>5. Allocating'
  BY DEF IInv, TypeOK, Allocating, AllocPcs, InList
<1>6. Freeing'
  BY DEF IInv, TypeOK, Freeing
<1>7. Marked'
  BY <1>1 DEF IInv, TypeOK, Marked
<1>8. Counted'
  <2>1. Held' = Held \cup {head[t]} /\ head[t] \notin Held /\ Returning' = Returning
    BY <1>1 DEF IInv, TypeOK, Held, Returning, FreePcs
  <2>2. Cardinality(Held') = Cardinality(Held) + 1
    BY <2>1, FiniteParts, FS_AddElement DEF IInv
  <2> QED BY <2>1, <2>2, FiniteParts DEF IInv, TypeOK, Counted
<1> QED BY <1>2, <1>3, <1>4, <1>5, <1>6, <1>7, <1>8 DEF IInv

(* The steps of deallocate: the slot passes from the client to the thread, *)
(* which links it and puts it on the list.                                 *)
LEMMA DeallocBeginIInv ==
  ASSUME IInv, NEW t \in Threads, NEW s \in Slots, DeallocBegin(t, s)
  PROVE  IInv'
<1> USE DEF DeallocBegin
<1>1. live[s] = 1 /\ live' = [live EXCEPT ![s] = 0]
  <2>1. live[s] = 1
    BY DEF IInv, Exclusive
  <2> QED BY <2>1
<1>2. TypeOK'
  BY <1>1 DEF IInv, TypeOK, FreePcs
<1>3. Exclusive'
  <2>1. \A u \in Threads, i \in Slots :
          Owns(u, i)' <=> (Owns(u, i) \/ (u = t /\ i = s))
    BY DEF IInv, TypeOK, Owns
  <2>2. \A i \in Slots : InList(i)' <=> InList(i)
    BY DEF InList
  <2>3. \A i \in Slots : ~Owns(t, i)
    BY DEF Owns
  <2>4. \A i \in Slots : live'[i] = IF i = s THEN 0 ELSE live[i]
    BY <1>1 DEF IInv, TypeOK
  <2>5. ~InList(s) /\ \A u \in Threads : ~Owns(u, s)
    BY <1>1 DEF IInv, Exclusive
  <2> QED BY <2>1, <2>2, <2>3, <2>4, <2>5 DEF IInv, Exclusive
<1>4. LinksSpellFreeList'
  BY DEF IInv, LinksSpellFreeList
<1>5. Allocating'
  BY DEF IInv, TypeOK, Allocating, AllocPcs, InList
<1>6. Freeing'
  BY DEF IInv, TypeOK, Freeing
<1>7. Marked'
  <2>1. \A u \in Threads : pc[u] = "count" => head[u] \in Slots /\ head[u] # s
    BY <1>1 DEF IInv, Allocating, AllocPcs, Exclusive, Owns
  <2> QED BY <1>1, <2>1 DEF IInv, TypeOK, Marked
<1>8. Counted'
  <2>1. /\ Held' = Held \ {s} /\ s \in Held
        /\ Returning' = Returning \cup {t} /\ t \notin Returning
    BY <1>1 DEF IInv, TypeOK, Held, Returning, FreePcs
  <2>2. /\ Cardinality(Held') = Cardinality(Held) - 1
        /\ Cardinality(Returning') = Cardinality(Returning) + 1
    BY <2>1, FiniteParts, FS_AddElement, FS_RemoveElement DEF IInv
  <2> QED BY <2>2, FiniteParts DEF IInv, TypeOK, Counted
<1> QED BY <1>2, <1>3, <1>4, <1>5, <1>6, <1>7, <1>8 DEF IInv

LEMMA DeallocLoadIInv ==
  ASSUME IInv, NEW t \in Threads, DeallocLoad(t)
  PROVE  IInv'
<1> USE DEF DeallocLoad, pool
<1>1. TypeOK'
  BY DEF IInv, TypeOK, FreePcs, Links
<1>2. Exclusive'
  <2>1. \A u \in Threads, i \in Slots : Owns(u, i)' <=> Owns(u, i)
    BY DEF IInv, TypeOK, Owns
  <2> QED BY <2>1, OwnershipKept DEF IInv
<1>3. LinksSpellFreeList'
  BY DEF IInv, LinksSpellFreeList
<1>4. Allocating'
  BY DEF IInv, TypeOK, Allocating, AllocPcs, InList
<1>5. Freeing'
  BY DEF IInv, TypeOK, Freeing
<1>6. Marked'
  BY DEF IInv, TypeOK, Marked
<1>7. Counted'
  <2>1. Held' = Held /\ Returning' = Returning
    BY DEF IInv, TypeOK, Held, Returning, FreePcs
  <2> QED BY <2>1 DEF IInv, Counted
<1> QED BY <1>1, <1>2, <1>3, <1>4, <1>5, <1>6, <1>7 DEF IInv

LEMMA DeallocLinkIInv ==
  ASSUME IInv, NEW t \in Threads, DeallocLink(t)
  PROVE  IInv'
<1> USE DEF DeallocLink
<1>1. idx[t] \in Slots /\ Owns(t, idx[t]) /\ ~InList(idx[t])
  <2>1. idx[t] \in Slots /\ Owns(t, idx[t])
    BY DEF IInv, TypeOK, Owns
  <2> QED BY <2>1 DEF IInv, Exclusive
<1>2. TypeOK'
  BY DEF IInv, TypeOK, FreePcs
<1>3. Exclusive'
  <2>1. \A u \in Threads, i \in Slots : Owns(u, i)' <=> Owns(u, i)
    BY DEF IInv, TypeOK, Owns
  <2> QED BY <2>1, OwnershipKept DEF IInv
<1>4. LinksSpellFreeList'
  <2>1. \A k \in 1 .. Len(free_list) : free_list[k] \in Slots /\ free_list[k] # idx[t]
    BY <1>1, LenProperties, ElementOfSeq DEF IInv, TypeOK, InList
  <2>2. Len(free_list) \in Nat
    BY LenProperties DEF IInv, TypeOK
  <2>3. \A k \in 1 .. Len(free_list) : next_free'[free_list[k]] = next_free[free_list[k]]
    BY <2>1 DEF IInv, TypeOK
  <2> QED BY <2>2, <2>3 DEF IInv, LinksSpellFreeList
<1>5. Allocating'
  BY <1>1 DEF IInv, TypeOK, Allocating, AllocPcs, InList
<1>6. Freeing'
  <2>1. \A u \in Threads : pc[u] = "push" => Owns(u, idx[u]) /\ idx[u] \in Slots
    BY DEF IInv, TypeOK, Owns
  <2>2. \A u \in Threads : pc[u] = "push" => idx[u] # idx[t]
    BY <1>1, <2>1 DEF IInv, Exclusive
  <2> QED BY <2>1, <2>2 DEF IInv, TypeOK, Freeing
<1>7. Marked'
  BY DEF IInv, TypeOK, Marked
<1>8. Counted'
  <2>1. Held' = Held /\ Returning' = Returning
    BY DEF IInv, TypeOK, Held, Returning, FreePcs
  <2> QED BY <2>1 DEF IInv, Counted
<1> QED BY <1>2, <1>3, <1>4, <1>5, <1>6, <1>7, <1>8 DEF IInv

LEMMA DeallocCasIInv ==
  ASSUME IInv, NEW t \in Threads, DeallocCas(t)
  PROVE  IInv'
<1> USE DEF DeallocCas
<1> DEFINE n == Len(free_list)
           s == idx[t]
<1>1. /\ s \in Slots /\ Owns(t, s) /\ ~InList(s) /\ live[s] = 0
      /\ next_free[s] = free_head
  <2>1. s \in Slots /\ Owns(t, s)
    BY DEF IInv, TypeOK, Owns
  <2>2. ~InList(s) /\ live[s] = 0
    BY <2>1 DEF IInv, Exclusive
  <2>3. next_free[s] = free_head
    BY DEF IInv, Freeing
  <2> QED BY <2>1, <2>2, <2>3
<1>2. /\ n \in Nat /\ DOMAIN free_list = 1 .. n
      /\ \A k \in 1 .. n : free_list[k] \in Slots
  BY LenProperties, ElementOfSeq DEF IInv, TypeOK
<1>3. /\ free_list' \in Seq(Slots)
      /\ Len(free_list') = n + 1
      /\ DOMAIN free_list' = 1 .. (n + 1)
      /\ free_list'[1] = s
      /\ \A k \in 1 .. n : free_list'[k + 1] = free_list[k]
  BY <1>1, Pushed, LenProperties DEF IInv, TypeOK
<1>4. free_head' = s
  OBVIOUS
<1> HIDE DEF n, s
<1>5. \A k \in 2 .. (n + 1) : k - 1 \in 1 .. n /\ free_list'[k] = free_list[k - 1]
  <2>1. \A k \in 2 .. (n + 1) : k - 1 \in 1 .. n /\ (k - 1) + 1 = k
    BY <1>2
  <2> QED BY <1>3, <2>1
<1>6. \A i \in Slots : InList(i)' <=> (InList(i) \/ i = s)
  <2>1. ASSUME NEW i \in Slots, InList(i)', i # s PROVE InList(i)
    <3>1. PICK k \in 1 .. (n + 1) : free_list'[k] = i
      BY <1>3, <2>1 DEF InList
    <3>2. k \in 2 .. (n + 1)
      BY <1>2, <1>3, <2>1, <3>1
    <3> QED BY <1>2, <1>5, <3>1, <3>2 DEF InList
  <2>2. ASSUME NEW i \in Slots, InList(i) PROVE InList(i)'
    <3>1. PICK k \in 1 .. n : free_list[k] = i
      BY <1>2, <2>2 DEF InList
    <3>2. k + 1 \in 1 .. (n + 1)
      BY <1>2
    <3> QED BY <1>3, <3>1, <3>2 DEF InList
  <2>3. ASSUME NEW i \in Slots, i = s PROVE InList(i)'
    <3>1. 1 \in 1 .. (n + 1)
      BY <1>2
    <3> QED BY <1>3, <2>3, <3>1 DEF InList
  <2> QED BY <2>1, <2>2, <2>3
<1>7. TypeOK'
  <2>1. free_head' \in Links
    BY <1>1, <1>4, CapacityAssumption DEF Slots, Links
  <2> QED BY <1>3, <2>1 DEF IInv, TypeOK, FreePcs
<1>8. Exclusive'
  <2>1. \A u \in Threads, i \in Slots :
          Owns(u, i)' <=> (Owns(u, i) /\ u # t)
    BY DEF IInv, TypeOK, Owns
  <2>2. \A i \in Slots : Owns(t, i) => i = s
    BY DEF Owns, s
  <2>3. ASSUME NEW j \in 1 .. (n + 1), NEW k \in 1 .. (n + 1), free_list'[j] = free_list'[k]
        PROVE  j = k
    <3>1. \A i \in 1 .. n : free_list[i] # s
      BY <1>1, <1>2 DEF InList
    <3>2. CASE j = 1 /\ k # 1
      <4>1. k \in 2 .. (n + 1)
        BY <1>2, <3>2
      <4> QED BY <1>3, <1>5, <2>3, <3>1, <3>2, <4>1
    <3>3. CASE k = 1 /\ j # 1
      <4>1. j \in 2 .. (n + 1)
        BY <1>2, <3>3
      <4> QED BY <1>3, <1>5, <2>3, <3>1, <3>3, <4>1
    <3>4. CASE j # 1 /\ k # 1
      <4>1. j \in 2 .. (n + 1) /\ k \in 2 .. (n + 1)
        BY <1>2, <3>4
      <4>2. \A a, b \in 1 .. n : free_list[a] = free_list[b] => a = b
        BY <1>2 DEF IInv, Exclusive
      <4>3. j - 1 = k - 1
        BY <1>5, <2>3, <4>1, <4>2
      <4> QED BY <1>2, <4>3
    <3> QED BY <3>2, <3>3, <3>4
  <2>4. \A j, k \in DOMAIN free_list' : free_list'[j] = free_list'[k] => j = k
    BY <1>3, <2>3
  <2> QED BY <1>1, <1>6, <2>1, <2>2, <2>4 DEF IInv, Exclusive
<1>9. LinksSpellFreeList'
  <2>1. \A k \in 0 .. n : (IF k = 0 THEN free_head ELSE next_free[free_list[k]])
                            = (IF k = n THEN Capacity ELSE free_list[k + 1])
    BY DEF IInv, LinksSpellFreeList, n
  <2>2. ASSUME NEW k \in 0 .. (n + 1)
        PROVE (IF k = 0 THEN free_head' ELSE next_free'[free_list'[k]])
                = (IF k = n + 1 THEN Capacity ELSE free_list'[k + 1])
    <3>1. CASE k = 0
      <4>1. 0 # n + 1
        BY <1>2
      <4> QED BY <1>3, <1>4, <3>1, <4>1
    <3>2. CASE k = 1
      <4>1. free_head = (IF 0 = n THEN Capacity ELSE free_list[0 + 1])
        BY <1>2, <2>1
      <4>2. n # 0 => free_list'[2] = free_list[1]
        BY <1>2, <1>5
      <4>3. next_free'[s] = free_head
        BY <1>1
      <4>4. 1 = n + 1 <=> n = 0
        BY <1>2
      <4> QED BY <1>3, <3>2, <4>1, <4>2, <4>3, <4>4
    <3>3. CASE k > 1
      <4>1. k \in 2 .. (n + 1) /\ k - 1 \in 0 .. n /\ k - 1 # 0 /\ k # 0 /\ k - 1 + 1 = k
        BY <1>2, <3>3
      <4>2. next_free[free_list[k - 1]] = (IF k - 1 = n THEN Capacity ELSE free_list[k])
        BY <2>1, <4>1
      <4>3. free_list'[k] = free_list[k - 1]
        BY <1>5, <4>1
      <4>4. k # n + 1 => k \in 1 .. n
        BY <1>2, <4>1
      <4>5. k # n + 1 => free_list'[k + 1] = free_list[k]
        BY <1>3, <4>4
      <4>6. k - 1 = n <=> k = n + 1
        BY <1>2, <4>1
      <4> QED BY <4>1, <4>2, <4>3, <4>5, <4>6
    <3> QED BY <1>2, <3>1, <3>2, <3>3
  <2> QED BY <1>3, <2>2 DEF LinksSpellFreeList
<1>10. Allocating'
  BY <1>6 DEF IInv, TypeOK, Allocating, AllocPcs
<1>11. Freeing'
  BY DEF IInv, TypeOK, Freeing
<1>12. Marked'
  BY DEF IInv, TypeOK, Marked
<1>13. Counted'
  <2>1. Held' = Held /\ Returning' = Returning
    BY DEF IInv, TypeOK, Held, Returning, FreePcs
  <2> QED BY <2>1 DEF IInv, Counted
<1> QED BY <1>7, <1>8, <1>9, <1>10, <1>11, <1>12, <1>13 DEF IInv

LEMMA DeallocRetryIInv ==
  ASSUME IInv, NEW t \in Threads, DeallocRetry(t)
  PROVE  IInv'
<1> USE DEF DeallocRetry, pool
<1>1. TypeOK'
  BY DEF IInv, TypeOK, FreePcs, Links
<1>2. Exclusive'
  <2>1. \A u \in Threads, i \in Slots : Owns(u, i)' <=> Owns(u, i)
    BY DEF IInv, TypeOK, Owns
  <2> QED BY <2>1, OwnershipKept DEF IInv
<1>3. LinksSpellFreeList'
  BY DEF IInv, LinksSpellFreeList
<1>4. Allocating'
  BY DEF IInv, TypeOK, Allocating, AllocPcs, InList
<1>5. Freeing'
  BY DEF IInv, TypeOK, Freeing
<1>6. Marked'
  BY DEF IInv, TypeOK, Marked
<1>7. Counted'
  <2>1. Held' = Held /\ Returning' = Returning
    BY DEF IInv, TypeOK, Held, Returning, FreePcs
  <2> QED BY <2>1 DEF IInv, Counted
<1> QED BY <1>1, <1>2, <1>3, <1>4, <1>5, <1>6, <1>7 DEF IInv

LEMMA DeallocReturnIInv ==
  ASSUME IInv, NEW t \in Threads, DeallocReturn(t)
  PROVE  IInv'
<1> USE DEF DeallocReturn
<1>1. Held' = Held /\ Returning' = Returning \ {t} /\ t \in Returning
  BY DEF IInv, TypeOK, Held, Returning, FreePcs
<1>2. /\ Cardinality(Returning) \in Nat \ {0} /\ Cardinality(Held) \in Nat
      /\ Cardinality(Returning') = Cardinality(Returning) - 1
  BY <1>1, FiniteParts, FS_EmptySet, FS_RemoveElement DEF IInv
<1>3. allocated' \in Nat /\ Counted'
  BY <1>1, <1>2 DEF IInv, Counted
<1>4. TypeOK'
  BY <1>3 DEF IInv, TypeOK
<1>5. Exclusive'
  <2>1. \A u \in Threads, i \in Slots : Owns(u, i)' <=> Owns(u, i)
    BY DEF IInv, TypeOK, Owns
  <2> QED BY <2>1, OwnershipKept DEF IInv
<1>6. LinksSpellFreeList'
  BY DEF IInv, LinksSpellFreeList
<1>7. Allocating'
  BY DEF IInv, TypeOK, Allocating, AllocPcs, InList
<1>8. Freeing' /\ Marked'
  BY DEF IInv, TypeOK, Freeing, Marked
<1> QED BY <1>3, <1>4, <1>5, <1>6, <1>7, <1>8 DEF IInv

(* The invariant is inductive when one thread allocates.                   *)
LEMMA NextIInv ==
  ASSUME SingleAllocator, IInv, [Next]_vars
  PROVE  IInv'
<1>1. CASE UNCHANGED vars
  BY <1>1 DEF IInv, TypeOK, Exclusive, Owns, InList, LinksSpellFreeList, Allocating,
              Freeing, Marked, Counted, Held, Returning, vars, pool
<1>2. ASSUME NEW t \in Threads, AllocLoad(t) PROVE IInv'
  BY <1>2, AllocLoadIInv
<1>3. ASSUME NEW t \in Threads, NEW i \in Slots, DeallocBegin(t, i) PROVE IInv'
  BY <1>3, DeallocBeginIInv
<1>4. ASSUME NEW t \in Threads, Continue(t) PROVE IInv'
  BY <1>4, AllocNextIInv, AllocCasIInv, AllocRetryIInv, AllocUseIInv, AllocReturnIInv,
     DeallocLoadIInv, DeallocLinkIInv, DeallocCasIInv, DeallocRetryIInv, DeallocReturnIInv
     DEF Continue
<1> QED BY <1>1, <1>2, <1>3, <1>4 DEF Next

LEMMA Inductive == ASSUME SingleAllocator PROVE Spec => []IInv
<1>1. Init => IInv
  BY InitIInv
<1>2. IInv /\ [Next]_vars => IInv'
  BY NextIInv
<1> QED BY <1>1, <1>2, PTL DEF Spec

-------------------------------------------------------------------------------
(* The fields keep their ranges: every link, head and index is a slot or   *)
(* the end of the list, and allocated_ never goes below zero.              *)
THEOREM PoolTyped == ASSUME SingleAllocator PROVE Spec => []TypeOK
<1>1. IInv => TypeOK
  BY DEF IInv
<1> QED BY <1>1, Inductive, PTL

(* next_free always spells the stack that the exchanges have built, so     *)
(* nothing leaks from the list and no cycle forms in it.                   *)
THEOREM ListIntact == ASSUME SingleAllocator PROVE Spec => []LinksSpellFreeList
<1>1. IInv => LinksSpellFreeList
  BY DEF IInv
<1> QED BY <1>1, Inductive, PTL

(* A slot is in one place only: with one client, in one call, or on the    *)
(* free list, and in each of them once.                                    *)
THEOREM OneHolder == ASSUME SingleAllocator PROVE Spec => []NoDoubleAllocation
<1>1. ASSUME IInv PROVE NoDoubleAllocation
  <2> SUFFICES ASSUME NEW i \in Slots
               PROVE  live[i] + Cardinality(Owners(i))
                        + Cardinality({k \in DOMAIN free_list : free_list[k] = i}) = 1
    BY DEF NoDoubleAllocation
  <2> DEFINE places == {k \in DOMAIN free_list : free_list[k] = i}
  <2>1. /\ Owners(i) = {t \in Threads : Owns(t, i)}
        /\ InList(i) <=> places # {}
    BY DEF Owners, Owns, InList
  <2>2. /\ live[i] \in {0, 1}
        /\ live[i] = 1 \/ InList(i) \/ \E t \in Threads : Owns(t, i)
        /\ live[i] = 1 => ~InList(i) /\ \A t \in Threads : ~Owns(t, i)
        /\ InList(i) => \A t \in Threads : ~Owns(t, i)
    BY <1>1 DEF IInv, Exclusive
  <2>3. InList(i) => Cardinality(places) = 1
    <3>1. \A j, k \in places : j = k
      BY <1>1 DEF IInv, Exclusive
    <3>2. InList(i) => \E k : places = {k}
      BY <2>1, <3>1
    <3> QED BY <3>2, FS_Singleton
  <2>4. (\E t \in Threads : Owns(t, i)) => Cardinality(Owners(i)) = 1
    <3>1. \A t, u \in Owners(i) : t = u
      BY <1>1, <2>1 DEF IInv, Exclusive
    <3>2. Owners(i) # {} => \E t : Owners(i) = {t}
      BY <3>1
    <3> QED BY <2>1, <3>2, FS_Singleton
  <2>5. /\ ~InList(i) => Cardinality(places) = 0
        /\ (\A t \in Threads : ~Owns(t, i)) => Cardinality(Owners(i)) = 0
    BY <2>1, FS_EmptySet
  <2> HIDE DEF places
  <2>6. live[i] + Cardinality(Owners(i)) + Cardinality(places) = 1
    BY <2>2, <2>3, <2>4, <2>5
  <2> QED BY <2>6 DEF places
<1> QED BY <1>1, Inductive, PTL

(* Nobody writes the link that another thread is reading, although         *)
(* next_free is not atomic.                                                *)
THEOREM LinksReadUnraced == ASSUME SingleAllocator PROVE Spec => []NoLinkRace
<1>1. IInv => NoLinkRace
  <2> SUFFICES ASSUME IInv, NEW t \in Threads, NEW u \in Threads,
                      pc[t] = "next", pc[u] = "link"
               PROVE  head[t] # idx[u]
    BY DEF NoLinkRace
  <2>1. InList(head[t])
    BY DEF IInv, Allocating
  <2>2. idx[u] \in Slots /\ Owns(u, idx[u])
    BY DEF IInv, TypeOK, Owns
  <2> QED BY <2>1, <2>2 DEF IInv, Exclusive
<1> QED BY <1>1, Inductive, PTL

(* The double-free assertion never fires for a client that returns what it *)
(* holds, the destructor's scan of in_use is right when no call is in      *)
(* progress, and allocated_ counts the held slots and the returns that     *)
(* are in progress.                                                        *)
THEOREM InUseMatchesClients == ASSUME SingleAllocator PROVE Spec => []InUseExact
<1>1. IInv => InUseExact
  <2> SUFFICES ASSUME IInv PROVE InUseExact
    OBVIOUS
  <2>1. \A i \in Slots : live[i] > 0 => in_use[i]
    BY DEF IInv, Exclusive, Marked
  <2>2. (\A t \in Threads : pc[t] = "idle") => \A i \in Slots : in_use[i] => live[i] > 0
    BY DEF IInv, Exclusive, Marked
  <2> QED BY <2>1, <2>2 DEF IInv, Counted, Held, Returning, InUseExact
<1> QED BY <1>1, Inductive, PTL
===============================================================================
