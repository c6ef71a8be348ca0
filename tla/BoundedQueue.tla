----------------------------- MODULE BoundedQueue -----------------------------
(***************************************************************************)
(* What a single-producer single-consumer queue promises: a bounded FIFO.  *)
(* A push appends to a queue that is not at its capacity, a pop hands the  *)
(* oldest item over.  Nothing is lost, duplicated, reordered or made up.   *)
(* HPRingBuffer is shown to implement this module.                         *)
(***************************************************************************)
EXTENDS Naturals, Sequences

CONSTANTS
  Items,      \* what may be queued
  Capacity    \* how many items fit

VARIABLES
  queue,      \* pushed and not yet popped, oldest first
  delivered   \* popped so far, in order

vars == <<queue, delivered>>

Init ==
  /\ queue = <<>>
  /\ delivered = <<>>

Push(v) ==
  /\ Len(queue) < Capacity
  /\ queue' = Append(queue, v)
  /\ UNCHANGED delivered

Pop ==
  /\ queue # <<>>
  /\ delivered' = Append(delivered, Head(queue))
  /\ queue' = Tail(queue)

Next == (\E v \in Items : Push(v)) \/ Pop

Spec == Init /\ [][Next]_vars
===============================================================================
