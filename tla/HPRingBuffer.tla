----------------------------- MODULE HPRingBuffer -----------------------------
(***************************************************************************)
(* The lock-free single-producer single-consumer ring buffer of            *)
(* src/HPRingBuffer.hpp, one atomic access or one slot access per step.    *)
(*                                                                         *)
(* The sequences are std::size_t: they count modulo Wrap, which stands for *)
(* 2^64 and, as there, is a multiple of the ring's size.                   *)
(*                                                                         *)
(* Each thread reads its own sequence exactly (it is its only writer) and  *)
(* the other thread's with an acquire load, which may return a value that  *)
(* the writer has since moved past: read_view is what the producer's load  *)
(* of read_sequence_ returns, write_view what the consumer's load of       *)
(* write_sequence_ returns.  They catch up at arbitrary times.  Because    *)
(* stores are release and loads acquire, whoever sees a sequence also sees *)
(* the slot accesses made before it was stored, so slots need no views.    *)
(***************************************************************************)
EXTENDS Integers, Sequences, SequencesExt

CONSTANTS
  Size,      \* template parameter Size, the number of slots
  Laps,      \* trips around the ring before size_t overflows (2^64 / Size)
  Values,    \* items of type T
  NoValue,   \* a default-constructed or moved-from T
  MaxSent    \* bound on the number of items the producer ever pushes

ASSUME SizeAssumption == Size \in Nat /\ Size > 1
ASSUME LapsAssumption == Laps \in Nat \ {0}
ASSUME ValueAssumption == NoValue \notin Values
ASSUME MaxSentAssumption == MaxSent \in Nat

Wrap == Size * Laps
Capacity == Size - 1
Slots == 0 .. (Size - 1)

VARIABLES
  write_sequence,   \* write_sequence_
  read_sequence,    \* read_sequence_
  buffer,           \* buffer_
  read_view,        \* read_sequence_ as the producer sees it
  write_view,       \* write_sequence_ as the consumer sees it
  p_pc, p_op, p_item, p_size,
                    \* the producer: where it is, in which call, with which
                    \* item, and what size() told it since its last push
  c_pc, c_op, c_value, c_size,
                    \* the consumer: likewise, and the value moved out
  sent, received    \* history: items published, items handed over

shared == <<write_sequence, read_sequence, buffer>>
views == <<read_view, write_view>>
producer == <<p_pc, p_op, p_item, p_size>>
consumer == <<c_pc, c_op, c_value, c_size>>
history == <<sent, received>>
vars == <<shared, views, producer, consumer, history>>

TypeOK ==
  /\ write_sequence \in 0 .. (Wrap - 1)
  /\ read_sequence \in 0 .. (Wrap - 1)
  /\ buffer \in [Slots -> Values \cup {NoValue}]
  /\ read_view \in 0 .. (Wrap - 1)
  /\ write_view \in 0 .. (Wrap - 1)
  /\ p_pc \in {"idle", "check", "wait", "write", "publish"}
  /\ p_op \in {"try_push", "push"}
  /\ p_item \in Values \cup {NoValue}
  /\ p_size \in 0 .. (Wrap - 1)
  /\ c_pc \in {"idle", "check", "wait", "read", "release"}
  /\ c_op \in {"try_pop", "pop"}
  /\ c_value \in Values \cup {NoValue}
  /\ c_size \in 0 .. (Wrap - 1)
  /\ sent \in Seq(Values)
  /\ received \in Seq(Values \cup {NoValue})

Init ==
  /\ write_sequence = 0 /\ read_sequence = 0
  /\ buffer = [i \in Slots |-> NoValue]
  /\ read_view = 0 /\ write_view = 0
  /\ p_pc = "idle" /\ p_op = "try_push" /\ p_item = NoValue
  /\ p_size = Capacity            \* nothing observed: it may be full
  /\ c_pc = "idle" /\ c_op = "try_pop" /\ c_value = NoValue
  /\ c_size = 0                   \* nothing observed: it may be empty
  /\ sent = <<>> /\ received = <<>>

-------------------------------------------------------------------------------
(* size_t arithmetic and the slot of a sequence number (seq & mask_).      *)

(* Fault: the sequence is kept in a type wider than size_t.                *)
Plus1Wider(n) == n + 1

Plus1(n) == (n + 1) % Wrap
Distance(a, b) == (a - b) % Wrap
SlotOf(n) == n % Size

(* The occupancy each thread computes from the sequences it sees.          *)
ProducerSize == Distance(write_sequence, read_view)
(* Fault: the operands of the subtraction in size() exchanged.             *)
ConsumerSizeSwapped == Distance(read_sequence, write_view)

ConsumerSize == Distance(write_view, read_sequence)

-------------------------------------------------------------------------------
(* The producer thread: try_push and push, and the queries it makes.       *)

PushBegin(op, v) ==
  /\ p_pc = "idle"
  /\ Len(sent) < MaxSent
  /\ p_pc' = "check" /\ p_op' = op /\ p_item' = v
  /\ UNCHANGED <<p_size, shared, views, consumer, history>>

(* The acquire load finds no room: try_push returns false, push waits.     *)
PushFull ==
  /\ p_pc = "check"
  /\ ProducerSize >= Capacity
  /\ p_pc' = IF p_op = "push" THEN "wait" ELSE "idle"
  /\ UNCHANGED <<p_op, p_item, p_size, shared, views, consumer, history>>

(* Fault: the slot is written without looking for room.                    *)
PushRoomUnchecked ==
  /\ p_pc = "check"
  /\ p_pc' = "write"
  /\ UNCHANGED <<p_op, p_item, p_size, shared, views, consumer, history>>

(* Fault: off by one, all Size slots are used.                             *)
PushRoomLax ==
  /\ p_pc = "check"
  /\ ProducerSize <= Capacity
  /\ p_pc' = "write"
  /\ UNCHANGED <<p_op, p_item, p_size, shared, views, consumer, history>>

PushRoom ==
  /\ p_pc = "check"
  /\ ProducerSize < Capacity
  /\ p_pc' = "write"
  /\ UNCHANGED <<p_op, p_item, p_size, shared, views, consumer, history>>

(* Fault: the wait ends only when somebody notifies it; nobody does.       *)
PushWaitNotified ==
  /\ p_pc = "notified"
  /\ p_pc' = "check"
  /\ UNCHANGED <<p_op, p_item, p_size, shared, views, consumer, history>>

(* WaitStrategy::wait() of each strategy returns without being notified.   *)
PushWait ==
  /\ p_pc = "wait"
  /\ p_pc' = "check"
  /\ UNCHANGED <<p_op, p_item, p_size, shared, views, consumer, history>>

PushWrite ==
  /\ p_pc = "write"
  /\ buffer' = [buffer EXCEPT ![SlotOf(write_sequence)] = p_item]
  /\ p_pc' = "publish"
  /\ UNCHANGED <<write_sequence, read_sequence, p_op, p_item, p_size, views,
                 consumer, history>>

PushPublish ==
  /\ p_pc = "publish"
  /\ write_sequence' = Plus1(write_sequence)
  /\ sent' = Append(sent, p_item)
  /\ p_pc' = "idle" /\ p_size' = Capacity
  /\ UNCHANGED <<read_sequence, buffer, p_op, p_item, received, views, consumer>>

(* size(), and full() which compares the same difference with Size - 1,    *)
(* called by the producer between two pushes.                              *)
ProducerQuery ==
  /\ p_pc = "idle"
  /\ p_size' = ProducerSize
  /\ UNCHANGED <<p_pc, p_op, p_item, shared, views, consumer, history>>

-------------------------------------------------------------------------------
(* The consumer thread: try_pop and pop, and the queries it makes.         *)

PopBegin(op) ==
  /\ c_pc = "idle"
  /\ c_pc' = "check" /\ c_op' = op
  /\ UNCHANGED <<c_value, c_size, shared, views, producer, history>>

(* The acquire load finds nothing: try_pop returns nullopt, pop waits.     *)
PopEmpty ==
  /\ c_pc = "check"
  /\ read_sequence = write_view
  /\ c_pc' = IF c_op = "pop" THEN "wait" ELSE "idle"
  /\ UNCHANGED <<c_op, c_value, c_size, shared, views, producer, history>>

PopAvailable ==
  /\ c_pc = "check"
  /\ read_sequence # write_view
  /\ c_pc' = "read"
  /\ UNCHANGED <<c_op, c_value, c_size, shared, views, producer, history>>

(* Fault: as PushWaitNotified, on the consumer's side.                     *)
PopWaitNotified ==
  /\ c_pc = "notified"
  /\ c_pc' = "check"
  /\ UNCHANGED <<c_op, c_value, c_size, shared, views, producer, history>>

PopWait ==
  /\ c_pc = "wait"
  /\ c_pc' = "check"
  /\ UNCHANGED <<c_op, c_value, c_size, shared, views, producer, history>>

(* Fault: the slot after the one to read.                                  *)
PopReadNext ==
  /\ c_pc = "read"
  /\ c_value' = buffer[SlotOf(Plus1(read_sequence))]
  /\ c_pc' = "release"
  /\ UNCHANGED <<shared, c_op, c_size, views, producer, history>>

(* T value = std::move(slot): the slot keeps its value when T's move is a  *)
(* copy and is left moved-from otherwise.                                  *)
PopRead ==
  /\ c_pc = "read"
  /\ c_value' = buffer[SlotOf(read_sequence)]
  /\ \E left \in {buffer[SlotOf(read_sequence)], NoValue} :
       buffer' = [buffer EXCEPT ![SlotOf(read_sequence)] = left]
  /\ c_pc' = "release"
  /\ UNCHANGED <<write_sequence, read_sequence, c_op, c_size, views, producer,
                 history>>

PopRelease ==
  /\ c_pc = "release"
  /\ read_sequence' = Plus1(read_sequence)
  /\ received' = Append(received, c_value)
  /\ c_pc' = "idle" /\ c_size' = 0
  /\ UNCHANGED <<write_sequence, buffer, c_op, c_value, sent, views, producer>>

(* Fault: size() counts one too many.                                      *)
ConsumerQueryOneMore ==
  /\ c_pc = "idle"
  /\ c_size' = ConsumerSize + 1
  /\ UNCHANGED <<c_pc, c_op, c_value, shared, views, producer, history>>

(* size() and empty() called by the consumer between two pops.             *)
ConsumerQuery ==
  /\ c_pc = "idle"
  /\ c_size' = ConsumerSize
  /\ UNCHANGED <<c_pc, c_op, c_value, shared, views, producer, history>>

-------------------------------------------------------------------------------
(* The other thread's store becomes visible to an acquire load.            *)

PropagateRead ==
  /\ read_view # read_sequence
  /\ read_view' = read_sequence
  /\ UNCHANGED <<write_view, shared, producer, consumer, history>>

PropagateWrite ==
  /\ write_view # write_sequence
  /\ write_view' = write_sequence
  /\ UNCHANGED <<read_view, shared, producer, consumer, history>>

PushStep == PushFull \/ PushRoom \/ PushWait \/ PushWrite \/ PushPublish
PopStep == PopEmpty \/ PopAvailable \/ PopWait \/ PopRead \/ PopRelease
Poll == \E op \in {"try_pop", "pop"} : PopBegin(op)

Next ==
  \/ \E op \in {"try_push", "push"}, v \in Values : PushBegin(op, v)
  \/ PushStep \/ ProducerQuery
  \/ Poll \/ PopStep \/ ConsumerQuery
  \/ PropagateRead \/ PropagateWrite

Spec == Init /\ [][Next]_vars

(* Both threads are scheduled, a store becomes visible in finite time      *)
(* (the C++ standard's guarantee for atomics), and the consumer keeps      *)
(* polling.  Nothing obliges the producer to push.                         *)
Fairness ==
  /\ WF_vars(PushStep)
  /\ WF_vars(Poll) /\ WF_vars(PopStep)
  /\ WF_vars(PropagateRead) /\ WF_vars(PropagateWrite)

FairSpec == Spec /\ Fairness

-------------------------------------------------------------------------------
(* Properties.                                                             *)

(* The producer's slot assignment and the consumer's move out of a slot    *)
(* never touch the same slot at the same time (buffer_ is plain memory).   *)
NoDataRace ==
  ~ /\ p_pc = "write" /\ c_pc = "read"
    /\ SlotOf(write_sequence) = SlotOf(read_sequence)

(* What the consumer has been handed is exactly what was pushed first, in  *)
(* order: no item is lost, duplicated, overwritten or read before it was   *)
(* written, also across size_t overflow of the sequences.                  *)
FIFO == IsPrefix(received, sent)

(* size() never wraps below zero or above capacity() for a thread that is  *)
(* allowed to call it, although the two loads it makes are not atomic.     *)
QueriesBounded == p_size <= Capacity /\ c_size <= Capacity

(* Check then act: after full() was false the producer's next push is not  *)
(* refused, after empty() was false the consumer's next pop is not.        *)
QueriesPredict ==
  /\ p_pc = "check" /\ p_size < Capacity => ProducerSize < Capacity
  /\ c_pc = "check" /\ c_size > 0 => read_sequence # write_view

(* What size, full and empty tell their caller can be relied on.           *)
QueriesSound == QueriesBounded /\ QueriesPredict

(* The ring implements the bounded FIFO of capacity Size - 1: the publish  *)
(* store is the push, the release store is the pop.                        *)
BQ == INSTANCE BoundedQueue WITH
        Items <- Values,
        queue <- SubSeq(sent, Len(received) + 1, Len(sent)),
        delivered <- received

Refinement == BQ!Spec

(* A push that waits for room gets it: no wait strategy is ever notified,  *)
(* so the spin itself must make progress.                                  *)
PushReturns == p_pc # "idle" ~> p_pc = "idle"

(* Every published item is eventually handed over.                         *)
EveryItemDelivered ==
  \A n \in 1 .. MaxSent : Len(sent) >= n ~> Len(received) >= n
===============================================================================
