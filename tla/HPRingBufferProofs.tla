-------------------------- MODULE HPRingBufferProofs --------------------------
(***************************************************************************)
(* Proofs that hold for every ring size, every number of laps before the   *)
(* sequences overflow, every set of items and every number of pushes.      *)
(*                                                                         *)
(* Len(sent) and Len(received) are the sequences the code would have with  *)
(* unbounded integers; the real ones are their remainders.  IInv relates   *)
(* the two, and says of the values the threads may have read that they are *)
(* the remainders of some earlier sequence that is still close enough.     *)
(***************************************************************************)
EXTENDS HPRingBuffer, CommonLemmas, SequenceTheorems, TLAPS

S == Len(sent)
R == Len(received)

(* The sequences are the wrapped numbers of items published and released.  *)
Counters ==
  /\ write_sequence = S % Wrap
  /\ read_sequence = R % Wrap
  /\ R <= S

(* The producer has seen the release of item p, and items published since  *)
(* fit in the ring.  Once past the check, one more fits.                   *)
ProducerSees(p) ==
  /\ read_view = p % Wrap
  /\ S - p <= Capacity
  /\ p_pc \in {"write", "publish"} => S - p < Capacity
  /\ p_size < Capacity => S - p <= p_size

(* The consumer has seen the publication of item c.  Once past the check,  *)
(* the next item is among those it has seen.                               *)
ConsumerSees(c) ==
  /\ write_view = c % Wrap
  /\ c_pc \in {"read", "release"} => R < c
  /\ c_size > 0 => R < c

(* Every published item that is not yet moved out is in its slot.          *)
InSlots ==
  \A n \in R .. (S - 1) :
     (n = R /\ c_pc = "release") \/ buffer[n % Size] = sent[n + 1]

Locals ==
  /\ p_pc # "idle" => p_item \in Values
  /\ p_pc = "publish" => buffer[S % Size] = p_item
  /\ c_pc = "release" => c_value = sent[R + 1]

InOrder == \A i \in 1 .. R : received[i] = sent[i]

IInv ==
  /\ TypeOK
  /\ Counters
  /\ \E p \in 0 .. R : ProducerSees(p)
  /\ \E c \in R .. S : ConsumerSees(c)
  /\ InSlots
  /\ Locals
  /\ InOrder
  /\ QueriesBounded

-------------------------------------------------------------------------------
(* The constants: a ring has at least one usable slot and is no longer     *)
(* than the range of the sequences.                                        *)
LEMMA Constants ==
  /\ Size \in Nat \ {0} /\ Laps \in Nat \ {0}
  /\ Capacity \in Nat \ {0} /\ Capacity < Size
  /\ Wrap \in Nat \ {0} /\ Size <= Wrap
<1>1. Size \in Nat \ {0} /\ Laps \in Nat \ {0} /\ Capacity \in Nat \ {0} /\ Capacity < Size
  BY SizeAssumption, LapsAssumption DEF Capacity
<1>2. ASSUME NEW s \in Nat \ {0}, NEW l \in Nat \ {0}
      PROVE s * l \in Nat \ {0} /\ s <= s * l
  BY SMT
<1> QED BY <1>1, <1>2 DEF Wrap

(* The slot of a wrapped sequence is the slot of the unwrapped one.        *)
LEMMA SlotOfWrapped ==
  ASSUME NEW n \in Nat
  PROVE  SlotOf(n % Wrap) = n % Size
  BY Constants, ModMod DEF SlotOf, Wrap

(* The histories have a length.                                            *)
LEMMA Lengths ==
  ASSUME TypeOK
  PROVE  S \in Nat /\ R \in Nat
  BY LenProperties DEF TypeOK, S, R

(* Slots are indexes of the buffer.                                        *)
LEMMA SlotRange ==
  ASSUME NEW n \in Nat
  PROVE  n % Size \in Slots /\ n % Wrap \in 0 .. (Wrap - 1)
  BY Constants, DivMod DEF Slots

(* What the producer computes from its two loads is the number of items    *)
(* published after the release it has seen: the subtraction is exact.      *)
LEMMA ProducerSizeExact ==
  ASSUME TypeOK, Counters, NEW p \in 0 .. R, ProducerSees(p)
  PROVE  ProducerSize = S - p
<1>1. S \in Nat /\ R \in Nat /\ p \in Nat /\ p <= S
  BY Lengths DEF Counters
<1>2. S - p < Wrap
  BY <1>1, Constants DEF ProducerSees
<1>3. ((S % Wrap) - (p % Wrap)) % Wrap = S - p
  BY <1>1, <1>2, Constants, ModDist
<1> QED BY <1>3 DEF ProducerSize, Distance, Counters, ProducerSees

(* Likewise for the consumer, whose equality test is exact too.            *)
LEMMA ConsumerSizeExact ==
  ASSUME TypeOK, Counters, NEW p \in 0 .. R, ProducerSees(p),
         NEW c \in R .. S, ConsumerSees(c)
  PROVE  /\ ConsumerSize = c - R
         /\ read_sequence = write_view <=> R = c
<1>1. S \in Nat /\ R \in Nat /\ p \in Nat /\ c \in Nat /\ R <= c
  BY Lengths DEF Counters
<1>2. c - R < Wrap
  BY <1>1, Constants DEF ProducerSees
<1>3. ((c % Wrap) - (R % Wrap)) % Wrap = c - R
  BY <1>1, <1>2, Constants, ModDist
<1>4. ASSUME R # c PROVE c % Wrap # R % Wrap
  <2>1. R < c
    BY <1>1, <1>4
  <2> QED BY <1>1, <1>2, <2>1, Constants, ModNeq
<1> QED BY <1>3, <1>4 DEF ConsumerSize, Distance, Counters, ConsumerSees

-------------------------------------------------------------------------------
(* The initial state satisfies the invariant.                              *)
LEMMA InitIInv == Init => IInv
<1> SUFFICES ASSUME Init PROVE IInv
  OBVIOUS
<1>1. S = 0 /\ R = 0
  BY EmptySeq DEF Init, S, R
<1>2. TypeOK
  BY Constants, EmptySeq DEF Init, TypeOK, Capacity
<1>3. 0 % Wrap = 0
  BY Constants, ModSmall
<1>4. Counters
  BY <1>1, <1>3 DEF Init, Counters
<1>5. 0 \in 0 .. R /\ ProducerSees(0)
  BY <1>1, <1>3, Constants DEF Init, ProducerSees
<1>6. 0 \in R .. S /\ ConsumerSees(0)
  BY <1>1, <1>3 DEF Init, ConsumerSees
<1>7. InSlots /\ Locals /\ InOrder
  BY <1>1 DEF Init, InSlots, Locals, InOrder
<1>8. QueriesBounded
  BY Constants DEF Init, QueriesBounded
<1> QED BY <1>2, <1>4, <1>5, <1>6, <1>7, <1>8 DEF IInv

(* Steps that move only the producer's program counter or its locals, and  *)
(* do not let it past the check.                                           *)
LEMMA PushBeginIInv ==
  ASSUME IInv, NEW op \in {"try_push", "push"}, NEW v \in Values, PushBegin(op, v)
  PROVE  IInv'
<1> USE DEF PushBegin, shared, views, consumer, history
<1>1. S' = S /\ R' = R
  BY DEF S, R
<1>2. TypeOK'
  BY DEF IInv, TypeOK
<1>3. Counters' /\ InSlots' /\ InOrder' /\ QueriesBounded'
  BY <1>1 DEF IInv, Counters, InSlots, InOrder, QueriesBounded
<1>4. Locals'
  BY <1>1 DEF IInv, Locals
<1>5. \A p : ProducerSees(p) => ProducerSees(p)'
  BY <1>1 DEF ProducerSees
<1>6. \A c : ConsumerSees(c) => ConsumerSees(c)'
  BY <1>1 DEF ConsumerSees
<1> QED BY <1>1, <1>2, <1>3, <1>4, <1>5, <1>6 DEF IInv

(* The check for room and the wait of a push preserve IInv: with a view    *)
(* that lags, finding room there means there is room.                      *)
LEMMA PushCheckIInv ==
  ASSUME IInv, PushFull \/ PushRoom \/ PushWait
  PROVE  IInv'
<1> USE DEF PushFull, PushRoom, PushWait, shared, views, consumer, history
<1>1. S' = S /\ R' = R /\ UNCHANGED <<write_sequence, read_sequence, buffer, p_item, p_size, read_view, consumer, write_view, sent, received>>
  BY DEF S, R
<1>2. TypeOK'
  BY DEF IInv, TypeOK
<1>3. Counters' /\ InSlots' /\ InOrder' /\ QueriesBounded'
  BY <1>1 DEF IInv, Counters, InSlots, InOrder, QueriesBounded
<1>4. Locals'
  BY <1>1 DEF IInv, Locals
<1>5. ASSUME NEW p \in 0 .. R, ProducerSees(p) PROVE ProducerSees(p)'
  <2>1. ProducerSize = S - p
    BY <1>5, ProducerSizeExact DEF IInv
  <2>2. p_pc' \in {"write", "publish"} => S - p < Capacity
    BY <2>1
  <2> QED BY <1>1, <1>5, <2>2 DEF ProducerSees
<1>6. \A c : ConsumerSees(c) => ConsumerSees(c)'
  BY <1>1 DEF ConsumerSees
<1> QED BY <1>1, <1>2, <1>3, <1>4, <1>5, <1>6 DEF IInv

(* The slot about to be written holds no published item: fewer than Size   *)
(* sequences separate it from every one of them.                           *)
LEMMA PushWriteIInv ==
  ASSUME IInv, PushWrite
  PROVE  IInv'
<1> USE DEF PushWrite, views, consumer, history
<1>1. S' = S /\ R' = R /\ S \in Nat /\ R \in Nat
  BY Lengths DEF S, R, IInv
<1>2. SlotOf(write_sequence) = S % Size /\ S % Size \in Slots
  BY <1>1, SlotOfWrapped, SlotRange DEF IInv, Counters
<1>3. p_item \in Values
  BY DEF IInv, Locals
<1>4. TypeOK'
  BY <1>2, <1>3 DEF IInv, TypeOK
<1>5. Counters' /\ InOrder' /\ QueriesBounded'
  BY <1>1 DEF IInv, Counters, InOrder, QueriesBounded
<1>6. buffer'[S % Size] = p_item
  BY <1>2 DEF IInv, TypeOK
<1>7. Locals'
  BY <1>1, <1>3, <1>6 DEF IInv, Locals
<1>8. PICK p \in 0 .. R : ProducerSees(p)
  BY DEF IInv
<1>9. InSlots'
  <2> SUFFICES ASSUME NEW n \in R .. (S - 1), ~(n = R /\ c_pc = "release")
               PROVE  buffer'[n % Size] = sent[n + 1]
    BY <1>1 DEF InSlots
  <2>1. n \in Nat /\ n < S /\ S - n < Size
    BY <1>1, <1>8, Constants DEF ProducerSees
  <2>2. S % Size # n % Size
    BY <1>1, <2>1, Constants, ModNeq
  <2>3. buffer'[n % Size] = buffer[n % Size]
    BY <1>2, <2>1, <2>2, SlotRange DEF IInv, TypeOK
  <2> QED BY <2>3 DEF IInv, InSlots
<1>10. ProducerSees(p)'
  BY <1>1, <1>8 DEF ProducerSees
<1>11. \A c : ConsumerSees(c) => ConsumerSees(c)'
  BY <1>1 DEF ConsumerSees
<1> QED BY <1>1, <1>4, <1>5, <1>7, <1>9, <1>10, <1>11 DEF IInv

(* The release store of write_sequence_ preserves IInv: the item it        *)
(* publishes is the one in the slot it was counted for.                    *)
LEMMA PushPublishIInv ==
  ASSUME IInv, PushPublish
  PROVE  IInv'
<1>0. /\ p_pc = "publish" /\ p_pc' = "idle" /\ p_size' = Capacity
      /\ UNCHANGED <<read_sequence, buffer, p_op, p_item, received,
                     read_view, write_view, c_pc, c_op, c_value, c_size>>
  BY DEF PushPublish, views, consumer
<1>1. p_item \in Values /\ buffer[S % Size] = p_item
  BY <1>0 DEF IInv, Locals
<1>2. S' = S + 1 /\ R' = R /\ S \in Nat /\ R \in Nat /\ R <= S
  BY <1>1, Lengths, AppendProperties DEF PushPublish, IInv, TypeOK, S, R, Counters
<1>3. /\ sent' \in Seq(Values)
      /\ sent'[S + 1] = p_item
      /\ \A i \in 1 .. S : sent'[i] = sent[i]
  BY <1>1, AppendProperties DEF PushPublish, IInv, TypeOK, S
<1>4. write_sequence' = (S + 1) % Wrap
  BY <1>2, Constants, ModInc DEF PushPublish, IInv, Counters, Plus1
<1>5. TypeOK'
  <2>1. write_sequence' \in 0 .. (Wrap - 1) /\ p_size' \in 0 .. (Wrap - 1)
    BY <1>0, <1>2, <1>4, SlotRange, Constants
  <2> QED BY <1>0, <1>3, <2>1 DEF IInv, TypeOK
<1>6. Counters'
  BY <1>0, <1>2, <1>4 DEF IInv, Counters
<1>7. InSlots'
  <2> SUFFICES ASSUME NEW n \in R .. S, ~(n = R /\ c_pc = "release")
               PROVE  buffer[n % Size] = sent'[n + 1]
    BY <1>0, <1>2 DEF InSlots
  <2>1. CASE n = S
    BY <1>0, <1>1, <1>3, <2>1
  <2>2. CASE n # S
    <3>1. n \in R .. (S - 1) /\ n + 1 \in 1 .. S
      BY <1>2, <2>2
    <3> QED BY <1>3, <3>1 DEF IInv, InSlots
  <2> QED BY <2>1, <2>2
<1>8. PICK p \in 0 .. R : ProducerSees(p)
  BY DEF IInv
<1>9. PICK c \in R .. S : ConsumerSees(c)
  BY DEF IInv
<1>10. Locals'
  <2>1. c_pc = "release" => R + 1 \in 1 .. S
    BY <1>0, <1>2, <1>9 DEF ConsumerSees
  <2> QED BY <1>0, <1>2, <1>3, <2>1 DEF IInv, Locals
<1>11. InOrder'
  <2> SUFFICES ASSUME NEW i \in 1 .. R PROVE received[i] = sent'[i]
    BY <1>0, <1>2 DEF InOrder
  <2>1. i \in 1 .. S
    BY <1>2
  <2> QED BY <1>3, <2>1 DEF IInv, InOrder
<1>12. QueriesBounded'
  BY <1>0, Constants DEF IInv, QueriesBounded
<1>13. ProducerSees(p)'
  BY <1>0, <1>2, <1>8, Constants DEF ProducerSees
<1>14. ConsumerSees(c)' /\ c \in R' .. S'
  BY <1>0, <1>2, <1>9 DEF ConsumerSees
<1> QED BY <1>2, <1>5, <1>6, <1>7, <1>8, <1>10, <1>11, <1>12, <1>13, <1>14 DEF IInv

(* A size() or full() of the producer preserves IInv.                      *)
LEMMA ProducerQueryIInv ==
  ASSUME IInv, ProducerQuery
  PROVE  IInv'
<1> USE DEF ProducerQuery, shared, views, consumer, history
<1>1. S' = S /\ R' = R /\ S \in Nat /\ R \in Nat
  BY Lengths DEF S, R, IInv
<1>2. PICK p \in 0 .. R : ProducerSees(p)
  BY DEF IInv
<1>3. ProducerSize = S - p
  BY <1>2, ProducerSizeExact DEF IInv
<1>4. S - p \in 0 .. Capacity
  BY <1>1, <1>2, Constants DEF IInv, Counters, ProducerSees
<1>5. TypeOK'
  BY <1>3, <1>4, Constants DEF IInv, TypeOK
<1>6. Counters' /\ InSlots' /\ InOrder' /\ Locals'
  BY <1>1 DEF IInv, Counters, InSlots, InOrder, Locals
<1>7. QueriesBounded'
  BY <1>3, <1>4 DEF IInv, QueriesBounded
<1>8. ProducerSees(p)'
  BY <1>1, <1>2, <1>3, <1>4 DEF ProducerSees
<1>9. \A c : ConsumerSees(c) => ConsumerSees(c)'
  BY <1>1 DEF ConsumerSees
<1> QED BY <1>1, <1>2, <1>5, <1>6, <1>7, <1>8, <1>9 DEF IInv

(* The check for an item and the wait of a pop preserve IInv.              *)
LEMMA PopCheckIInv ==
  ASSUME IInv, Poll \/ PopEmpty \/ PopAvailable \/ PopWait
  PROVE  IInv'
<1> USE DEF Poll, PopBegin, PopEmpty, PopAvailable, PopWait, shared, views, producer, history
<1>1. /\ S' = S /\ R' = R /\ S \in Nat /\ R \in Nat
      /\ UNCHANGED <<write_sequence, read_sequence, buffer, p_pc, p_item, p_size, read_view, c_value, c_size, write_view, sent, received>>
  BY Lengths DEF S, R, IInv
<1>2. TypeOK'
  BY DEF IInv, TypeOK
<1>3. Counters' /\ InOrder' /\ QueriesBounded'
  BY <1>1 DEF IInv, Counters, InOrder, QueriesBounded
<1>4. c_pc # "release" /\ c_pc' # "release"
  OBVIOUS
<1>5. InSlots' /\ Locals'
  BY <1>1, <1>4 DEF IInv, InSlots, Locals
<1>6. PICK p \in 0 .. R : ProducerSees(p)
  BY DEF IInv
<1>7. PICK c \in R .. S : ConsumerSees(c)
  BY DEF IInv
<1>8. c_pc' = "read" => R < c
  BY <1>1, <1>6, <1>7, ConsumerSizeExact DEF IInv
<1>9. ConsumerSees(c)' /\ ProducerSees(p)'
  BY <1>1, <1>4, <1>6, <1>7, <1>8 DEF ConsumerSees, ProducerSees
<1> QED BY <1>1, <1>2, <1>3, <1>5, <1>6, <1>7, <1>9 DEF IInv

(* The value moved out is the oldest published item, and the slots of the  *)
(* younger ones are other slots.                                           *)
LEMMA PopReadIInv ==
  ASSUME IInv, PopRead
  PROVE  IInv'
<1> USE DEF PopRead, views, producer, history
<1>1. S' = S /\ R' = R /\ S \in Nat /\ R \in Nat
  BY Lengths DEF S, R, IInv
<1>2. SlotOf(read_sequence) = R % Size /\ R % Size \in Slots
  BY <1>1, SlotOfWrapped, SlotRange DEF IInv, Counters
<1>3. PICK left \in Values \cup {NoValue} : buffer' = [buffer EXCEPT ![R % Size] = left]
  BY <1>2 DEF IInv, TypeOK
<1>4. TypeOK'
  BY <1>2, <1>3 DEF IInv, TypeOK
<1>5. Counters' /\ InOrder' /\ QueriesBounded'
  BY <1>1 DEF IInv, Counters, InOrder, QueriesBounded
<1>6. PICK p \in 0 .. R : ProducerSees(p)
  BY DEF IInv
<1>7. PICK c \in R .. S : ConsumerSees(c)
  BY DEF IInv
<1>8. R < c /\ R < S
  BY <1>1, <1>7 DEF ConsumerSees
<1>9. c_value' = sent[R + 1]
  <2>1. R \in R .. (S - 1) /\ c_pc # "release"
    BY <1>1, <1>8
  <2> QED BY <1>2, <2>1 DEF IInv, InSlots
<1>10. InSlots'
  <2> SUFFICES ASSUME NEW n \in R .. (S - 1), n # R
               PROVE  buffer'[n % Size] = sent[n + 1]
    BY <1>1 DEF InSlots
  <2>1. n \in Nat /\ R < n /\ n - R < Size
    BY <1>1, <1>6, Constants DEF ProducerSees
  <2>2. n % Size # R % Size
    BY <1>1, <2>1, Constants, ModNeq
  <2>3. buffer'[n % Size] = buffer[n % Size]
    BY <1>3, <2>1, <2>2, SlotRange DEF IInv, TypeOK
  <2> QED BY <2>3 DEF IInv, InSlots
<1>11. Locals'
  <2>1. p_pc = "publish" => buffer'[S % Size] = buffer[S % Size]
    <3> SUFFICES ASSUME p_pc = "publish" PROVE buffer'[S % Size] = buffer[S % Size]
      OBVIOUS
    <3>1. S - R < Size
      BY <1>1, <1>6, Constants DEF ProducerSees
    <3>2. S % Size # R % Size
      BY <1>1, <1>8, <3>1, Constants, ModNeq
    <3> QED BY <1>1, <1>3, <3>2, SlotRange DEF IInv, TypeOK
  <2> QED BY <1>1, <1>9, <2>1 DEF IInv, Locals
<1>12. ProducerSees(p)'
  BY <1>1, <1>6 DEF ProducerSees
<1>13. ConsumerSees(c)'
  BY <1>1, <1>7, <1>8 DEF ConsumerSees
<1> QED BY <1>1, <1>4, <1>5, <1>6, <1>7, <1>10, <1>11, <1>12, <1>13 DEF IInv

(* The release store of read_sequence_ preserves IInv: the value handed    *)
(* over is the next one that was sent.                                     *)
LEMMA PopReleaseIInv ==
  ASSUME IInv, PopRelease
  PROVE  IInv'
<1>1. /\ c_pc = "release" /\ c_pc' = "idle" /\ c_size' = 0
      /\ UNCHANGED <<write_sequence, buffer, c_op, c_value, sent, read_view,
                     write_view, p_pc, p_op, p_item, p_size>>
  BY DEF PopRelease, views, producer
<1>2. PICK c \in R .. S : ConsumerSees(c)
  BY DEF IInv
<1>3. S \in Nat /\ R \in Nat /\ R < c /\ R < S
  BY <1>1, <1>2, Lengths DEF IInv, ConsumerSees
<1>4. c_value = sent[R + 1] /\ c_value \in Values
  <2>1. R + 1 \in 1 .. S /\ sent \in Seq(Values)
    BY <1>3 DEF IInv, TypeOK
  <2> QED BY <1>1, <2>1, ElementOfSeq DEF IInv, Locals, S
<1>5. /\ received' \in Seq(Values \cup {NoValue})
      /\ received'[R + 1] = c_value
      /\ \A i \in 1 .. R : received'[i] = received[i]
      /\ R' = R + 1 /\ S' = S
  BY <1>1, <1>4, AppendProperties DEF PopRelease, IInv, TypeOK, R, S
<1>6. read_sequence' = (R + 1) % Wrap
  BY <1>3, Constants, ModInc DEF PopRelease, IInv, Counters, Plus1
<1>7. TypeOK'
  <2>1. read_sequence' \in 0 .. (Wrap - 1) /\ c_size' \in 0 .. (Wrap - 1)
    BY <1>1, <1>3, <1>6, SlotRange, Constants
  <2> QED BY <1>1, <1>5, <2>1 DEF IInv, TypeOK
<1>8. Counters'
  BY <1>1, <1>3, <1>5, <1>6 DEF IInv, Counters
<1>9. InSlots'
  <2> SUFFICES ASSUME NEW n \in (R + 1) .. (S - 1)
               PROVE  buffer[n % Size] = sent[n + 1]
    BY <1>1, <1>5 DEF InSlots
  <2>1. n \in R .. (S - 1) /\ n # R
    BY <1>3
  <2> QED BY <2>1 DEF IInv, InSlots
<1>10. Locals'
  BY <1>1, <1>5 DEF IInv, Locals
<1>11. InOrder'
  <2> SUFFICES ASSUME NEW i \in 1 .. (R + 1) PROVE received'[i] = sent[i]
    BY <1>1, <1>5 DEF InOrder
  <2>1. CASE i = R + 1
    BY <1>4, <1>5, <2>1
  <2>2. CASE i # R + 1
    <3>1. i \in 1 .. R
      BY <1>3, <2>2
    <3> QED BY <1>5, <3>1 DEF IInv, InOrder
  <2> QED BY <2>1, <2>2
<1>12. QueriesBounded'
  BY <1>1, Constants DEF IInv, QueriesBounded
<1>13. PICK p \in 0 .. R : ProducerSees(p)
  BY DEF IInv
<1>14. ProducerSees(p)' /\ p \in 0 .. R'
  BY <1>1, <1>3, <1>5, <1>13 DEF ProducerSees
<1>15. ConsumerSees(c)' /\ c \in R' .. S'
  BY <1>1, <1>2, <1>3, <1>5 DEF ConsumerSees
<1> QED BY <1>7, <1>8, <1>9, <1>10, <1>11, <1>12, <1>14, <1>15 DEF IInv

(* A size() or empty() of the consumer preserves IInv.                     *)
LEMMA ConsumerQueryIInv ==
  ASSUME IInv, ConsumerQuery
  PROVE  IInv'
<1> USE DEF ConsumerQuery, shared, views, producer, history
<1>1. S' = S /\ R' = R /\ S \in Nat /\ R \in Nat
  BY Lengths DEF S, R, IInv
<1>2. PICK p \in 0 .. R : ProducerSees(p)
  BY DEF IInv
<1>3. PICK c \in R .. S : ConsumerSees(c)
  BY DEF IInv
<1>4. ConsumerSize = c - R
  BY <1>2, <1>3, ConsumerSizeExact DEF IInv
<1>5. c - R \in 0 .. Capacity
  BY <1>1, <1>2, <1>3, Constants DEF ProducerSees
<1>6. TypeOK'
  BY <1>4, <1>5, Constants DEF IInv, TypeOK
<1>7. Counters' /\ InSlots' /\ InOrder' /\ Locals'
  BY <1>1 DEF IInv, Counters, InSlots, InOrder, Locals
<1>8. QueriesBounded'
  BY <1>4, <1>5 DEF IInv, QueriesBounded
<1>9. ProducerSees(p)' /\ ConsumerSees(c)'
  BY <1>1, <1>2, <1>3, <1>4, <1>5 DEF ProducerSees, ConsumerSees
<1> QED BY <1>1, <1>2, <1>3, <1>6, <1>7, <1>8, <1>9 DEF IInv

(* A view that catches up names a later item, which only helps.            *)
LEMMA PropagateIInv ==
  ASSUME IInv, PropagateRead \/ PropagateWrite
  PROVE  IInv'
<1>1. S' = S /\ R' = R /\ S \in Nat /\ R \in Nat /\ R <= S
  BY Lengths DEF PropagateRead, PropagateWrite, history, S, R, IInv, Counters
<1>2. UNCHANGED <<write_sequence, read_sequence, buffer, p_pc, p_op, p_item, p_size,
                  c_pc, c_op, c_value, c_size, sent, received>>
  BY DEF PropagateRead, PropagateWrite, shared, producer, consumer, history
<1>3. TypeOK'
  BY <1>2 DEF IInv, TypeOK, PropagateRead, PropagateWrite
<1>4. Counters' /\ InSlots' /\ InOrder' /\ Locals' /\ QueriesBounded'
  BY <1>1, <1>2 DEF IInv, Counters, InSlots, InOrder, Locals, QueriesBounded
<1>5. PICK p \in 0 .. R : ProducerSees(p)
  BY DEF IInv
<1>6. PICK c \in R .. S : ConsumerSees(c)
  BY DEF IInv
<1>7. CASE PropagateRead
  <2>1. read_view' = R % Wrap /\ write_view' = write_view
    BY <1>7 DEF PropagateRead, IInv, Counters
  <2>2. p_size \in Int /\ Capacity \in Int /\ S - R <= S - p
    BY <1>1, <1>5, Constants DEF IInv, TypeOK
  <2>3. ProducerSees(R)' /\ R \in 0 .. R'
    BY <1>1, <1>2, <1>5, <2>1, <2>2 DEF ProducerSees
  <2>4. ConsumerSees(c)'
    BY <1>1, <1>2, <1>6, <2>1 DEF ConsumerSees
  <2> QED BY <1>1, <1>3, <1>4, <1>6, <2>3, <2>4 DEF IInv
<1>8. CASE PropagateWrite
  <2>1. write_view' = S % Wrap /\ read_view' = read_view
    BY <1>8 DEF PropagateWrite, IInv, Counters
  <2>2. ConsumerSees(S)' /\ S \in R' .. S'
    BY <1>1, <1>2, <1>6, <2>1 DEF ConsumerSees
  <2>3. ProducerSees(p)'
    BY <1>1, <1>2, <1>5, <2>1 DEF ProducerSees
  <2> QED BY <1>1, <1>3, <1>4, <1>5, <2>2, <2>3 DEF IInv
<1> QED BY <1>7, <1>8

-------------------------------------------------------------------------------
(* Every step preserves the invariant.                                     *)
LEMMA NextIInv == IInv /\ [Next]_vars => IInv'
<1> SUFFICES ASSUME IInv, [Next]_vars PROVE IInv'
  OBVIOUS
<1>1. CASE \E op \in {"try_push", "push"}, v \in Values : PushBegin(op, v)
  BY <1>1, PushBeginIInv
<1>2. CASE PushFull \/ PushRoom \/ PushWait
  BY <1>2, PushCheckIInv
<1>3. CASE PushWrite
  BY <1>3, PushWriteIInv
<1>4. CASE PushPublish
  BY <1>4, PushPublishIInv
<1>5. CASE ProducerQuery
  BY <1>5, ProducerQueryIInv
<1>6. CASE Poll \/ PopEmpty \/ PopAvailable \/ PopWait
  BY <1>6, PopCheckIInv
<1>7. CASE PopRead
  BY <1>7, PopReadIInv
<1>8. CASE PopRelease
  BY <1>8, PopReleaseIInv
<1>9. CASE ConsumerQuery
  BY <1>9, ConsumerQueryIInv
<1>10. CASE PropagateRead \/ PropagateWrite
  BY <1>10, PropagateIInv
<1>11. CASE UNCHANGED vars
  <2>1. UNCHANGED <<write_sequence, read_sequence, buffer, read_view, write_view,
                    p_pc, p_op, p_item, p_size, c_pc, c_op, c_value, c_size,
                    sent, received>>
    BY <1>11 DEF vars, shared, views, producer, consumer, history
  <2>2. S' = S /\ R' = R
    BY <2>1 DEF S, R
  <2>3. TypeOK'
    BY <2>1 DEF IInv, TypeOK
  <2>4. Counters' /\ InSlots' /\ InOrder' /\ Locals' /\ QueriesBounded'
    BY <2>1, <2>2 DEF IInv, Counters, InSlots, InOrder, Locals, QueriesBounded
  <2>5. /\ \A p : ProducerSees(p) => ProducerSees(p)'
        /\ \A c : ConsumerSees(c) => ConsumerSees(c)'
    BY <2>1, <2>2 DEF ProducerSees, ConsumerSees
  <2> QED BY <2>2, <2>3, <2>4, <2>5 DEF IInv
<1> QED BY <1>1, <1>2, <1>3, <1>4, <1>5, <1>6, <1>7, <1>8, <1>9, <1>10, <1>11
        DEF Next, PushStep, PopStep

(* IInv holds in every reachable state.                                    *)
LEMMA Invariance == Spec => []IInv
  BY InitIInv, NextIInv, PTL DEF Spec

(* Type correctness: in particular the wrapped sequences stay in range.    *)
THEOREM TypeCorrect == Spec => []TypeOK
<1>1. IInv => TypeOK
  BY DEF IInv
<1> QED BY <1>1, Invariance, PTL

(* The producer never assigns a slot while the consumer moves out of it,   *)
(* for every ring size and across overflow of the sequences.               *)
THEOREM DataRaceFreedom == Spec => []NoDataRace
<1>1. IInv => NoDataRace
  <2> SUFFICES ASSUME IInv, p_pc = "write", c_pc = "read"
               PROVE  SlotOf(write_sequence) # SlotOf(read_sequence)
    BY DEF NoDataRace
  <2>1. PICK p \in 0 .. R : ProducerSees(p)
    BY DEF IInv
  <2>2. PICK c \in R .. S : ConsumerSees(c)
    BY DEF IInv
  <2>3. S \in Nat /\ R \in Nat /\ R < S /\ S - R < Size
    BY <2>1, <2>2, Lengths, Constants DEF IInv, ProducerSees, ConsumerSees
  <2>4. S % Size # R % Size
    BY <2>3, Constants, ModNeq
  <2> QED BY <2>3, <2>4, SlotOfWrapped DEF IInv, Counters
<1> QED BY <1>1, Invariance, PTL

(* What was handed over is a prefix of what was pushed.                    *)
THEOREM FirstInFirstOut == Spec => []FIFO
<1>1. IInv => FIFO
  <2> SUFFICES ASSUME IInv PROVE FIFO
    OBVIOUS
  <2>1. S \in Nat /\ R \in Nat /\ R <= S
    BY Lengths DEF IInv, Counters
  <2>2. /\ sent \in Seq(Values \cup {NoValue})
        /\ received \in Seq(Values \cup {NoValue})
    BY SeqMonotonic DEF IInv, TypeOK
  <2>3. /\ SubSeq(received, 1, R) = [i \in 1 .. R |-> received[i]]
        /\ SubSeq(sent, 1, R) = [i \in 1 .. R |-> sent[i]]
    BY <2>1, <2>2, SubSeqRestrict DEF R, S
  <2>4. SubSeq(received, 1, R) = SubSeq(sent, 1, R)
    BY <2>3 DEF IInv, InOrder
  <2> QED BY <2>1, <2>4 DEF FIFO, IsPrefix, R, S
<1> QED BY <1>1, Invariance, PTL

(* size() stays within capacity() for both threads.                        *)
THEOREM SizeInRange == Spec => []QueriesBounded
<1>1. IInv => QueriesBounded
  BY DEF IInv
<1> QED BY <1>1, Invariance, PTL

(* A push after full() was false, and a pop after empty() was false, are   *)
(* not refused.                                                            *)
THEOREM CheckThenAct == Spec => []QueriesPredict
<1>1. IInv => QueriesPredict
  <2> SUFFICES ASSUME IInv PROVE QueriesPredict
    OBVIOUS
  <2>1. PICK p \in 0 .. R : ProducerSees(p)
    BY DEF IInv
  <2>2. PICK c \in R .. S : ConsumerSees(c)
    BY DEF IInv
  <2>3. ProducerSize = S - p
    BY <2>1, ProducerSizeExact DEF IInv
  <2>4. read_sequence = write_view <=> R = c
    BY <2>1, <2>2, ConsumerSizeExact DEF IInv
  <2>5. S \in Nat /\ R \in Nat /\ p_size \in Int /\ Capacity \in Int
    BY Lengths, Constants DEF IInv, TypeOK
  <2> QED BY <2>1, <2>2, <2>3, <2>4, <2>5 DEF QueriesPredict, ProducerSees, ConsumerSees
<1> QED BY <1>1, Invariance, PTL

(* size, full and empty can be relied on by the thread that asks.          *)
THEOREM SoundQueries == Spec => []QueriesSound
<1>1. QueriesBounded /\ QueriesPredict => QueriesSound
  BY DEF QueriesSound
<1> QED BY <1>1, SizeInRange, CheckThenAct, PTL

-------------------------------------------------------------------------------
(* Appending to a sequence appends to each of its suffixes.                *)
LEMMA SuffixOfAppend ==
  ASSUME NEW T, NEW q \in Seq(T), NEW e \in T, NEW m \in 1 .. (Len(q) + 1)
  PROVE  SubSeq(Append(q, e), m, Len(q) + 1) = Append(SubSeq(q, m, Len(q)), e)
<1> DEFINE a == Append(q, e)
           n == Len(q)
           l == SubSeq(a, m, n + 1)
           q1 == SubSeq(q, m, n)
           r == Append(q1, e)
<1>1. n \in Nat /\ m \in Int
  BY LenProperties
<1>2. /\ a \in Seq(T) /\ Len(a) = n + 1 /\ a[n + 1] = e
      /\ \A i \in 1 .. n : a[i] = q[i]
  BY AppendProperties
<1>3. (\A i \in m .. (n + 1) : a[i] \in T) /\ (\A i \in m .. n : q[i] \in T)
  <2>1. \A i \in 1 .. (n + 1) : a[i] \in T
    BY <1>2, ElementOfSeq
  <2>2. \A i \in 1 .. n : q[i] \in T
    BY ElementOfSeq
  <2> QED BY <1>1, <2>1, <2>2
<1> HIDE DEF a, n
<1>4. /\ l \in Seq(T)
      /\ Len(l) = (IF m <= n + 1 THEN (n + 1) - m + 1 ELSE 0)
      /\ \A i \in 1 .. ((n + 1) - m + 1) : l[i] = a[m + i - 1]
  BY <1>1, <1>3, SubSeqProperties
<1>5. /\ q1 \in Seq(T)
      /\ Len(q1) = (IF m <= n THEN n - m + 1 ELSE 0)
      /\ \A i \in 1 .. (n - m + 1) : q1[i] = q[m + i - 1]
  BY <1>1, <1>3, SubSeqProperties
<1> HIDE DEF l, q1
<1>6. m <= n + 1
  BY <1>1 DEF n
<1>7. Len(l) = n + 2 - m /\ Len(q1) = n + 1 - m
  BY <1>1, <1>4, <1>5, <1>6
<1>8. /\ r \in Seq(T) /\ Len(r) = Len(q1) + 1 /\ r[Len(q1) + 1] = e
      /\ \A i \in 1 .. Len(q1) : r[i] = q1[i]
  BY <1>5, AppendProperties
<1> HIDE DEF r
<1>9. Len(r) = Len(l)
  BY <1>1, <1>7, <1>8
<1>10. ASSUME NEW i \in 1 .. Len(l) PROVE l[i] = r[i]
  <2>1. l[i] = a[m + i - 1]
    BY <1>1, <1>4, <1>7
  <2>2. CASE i = Len(l)
    <3>1. m + i - 1 = n + 1 /\ i = Len(q1) + 1
      BY <1>1, <1>7, <2>2
    <3> QED BY <1>2, <1>8, <2>1, <3>1
  <2>3. CASE i # Len(l)
    <3>1. /\ i \in 1 .. Len(q1) /\ i \in 1 .. (n - m + 1)
          /\ m + i - 1 \in 1 .. n
      BY <1>1, <1>7, <1>6, <2>3
    <3> QED BY <1>2, <1>5, <1>8, <2>1, <3>1
  <2> QED BY <2>2, <2>3
<1>11. l = r
  BY <1>4, <1>8, <1>9, <1>10, SeqEqual
<1> QED BY <1>11 DEF l, r, a, q1, n

(* Every step is a push, a pop or a stutter of the bounded queue.          *)
LEMMA StepRefines == IInv /\ [Next]_vars => [BQ!Next]_(BQ!vars)
<1> DEFINE queue == SubSeq(sent, R + 1, S)
<1> SUFFICES ASSUME IInv, [Next]_vars
             PROVE  \/ \E v \in Values : BQ!Push(v)
                    \/ BQ!Pop
                    \/ queue' = queue /\ received' = received
  BY DEF BQ!Next, BQ!vars, S, R
<1>1. /\ S \in Nat /\ R \in Nat /\ R <= S
      /\ sent \in Seq(Values) /\ Len(sent) = S /\ Len(received) = R
  BY Lengths DEF IInv, TypeOK, Counters, S, R
<1>2. \A i \in (R + 1) .. S : sent[i] \in Values
  BY <1>1, ElementOfSeq
<1>3. /\ queue \in Seq(Values)
      /\ Len(queue) = IF R + 1 <= S THEN S - (R + 1) + 1 ELSE 0
  BY <1>1, <1>2, SubSeqProperties
<1>4. Len(queue) = S - R
  BY <1>1, <1>3
<1>5. CASE PushPublish
  <2>1. /\ p_item \in Values /\ p_pc = "publish" /\ received' = received
        /\ sent' = Append(sent, p_item)
    BY <1>5 DEF IInv, Locals, PushPublish
  <2>2. PICK p \in 0 .. R : ProducerSees(p)
    BY DEF IInv
  <2>3. S - R < Capacity
    BY <1>1, <2>1, <2>2, Constants DEF ProducerSees
  <2>4. Len(sent') = S + 1 /\ R + 1 \in 1 .. (Len(sent) + 1)
    BY <1>1, <2>1, AppendProperties
  <2>5. SubSeq(sent', R + 1, S + 1) = Append(queue, p_item)
    BY <1>1, <2>1, <2>4, SuffixOfAppend
  <2>6. BQ!Push(p_item)
    BY <1>1, <1>4, <2>1, <2>3, <2>4, <2>5 DEF BQ!Push
  <2> QED BY <2>1, <2>6
<1>6. CASE PopRelease
  <2>1. /\ sent' = sent /\ received' = Append(received, c_value)
        /\ c_value = sent[R + 1] /\ c_pc = "release"
    BY <1>6 DEF PopRelease, IInv, Locals
  <2>2. PICK c \in R .. S : ConsumerSees(c)
    BY DEF IInv
  <2>3. R < S
    BY <1>1, <2>1, <2>2 DEF ConsumerSees
  <2>4. /\ R + 1 \in 1 .. Len(sent) /\ S \in (R + 1) .. Len(sent)
    BY <1>1, <2>3
  <2>5. Head(queue) = sent[R + 1] /\ Tail(queue) = SubSeq(sent, (R + 1) + 1, S)
    BY <1>1, <2>4, HeadTailOfSubSeq
  <2>6. Len(received') = R + 1
    BY <1>1, <2>1, AppendProperties DEF IInv, TypeOK
  <2>7. queue # <<>>
    BY <1>1, <1>4, <2>3, EmptySeq
  <2>8. BQ!Pop
    BY <1>1, <2>1, <2>5, <2>6, <2>7 DEF BQ!Pop
  <2> QED BY <2>8
<1>7. CASE ~PushPublish /\ ~PopRelease
  <2>1. sent' = sent /\ received' = received
    BY <1>7 DEF Next, PushStep, PopStep, Poll, PushBegin, PushFull, PushRoom, PushWait,
         PushWrite, ProducerQuery, PopBegin, PopEmpty, PopAvailable, PopWait, PopRead,
         ConsumerQuery, PropagateRead, PropagateWrite, vars, history
  <2> QED BY <2>1 DEF S, R
<1> QED BY <1>5, <1>6, <1>7

(* HPRingBuffer implements a bounded FIFO queue of capacity Size - 1.      *)
THEOREM ImplementsBoundedQueue == Spec => Refinement
<1>1. Init => BQ!Init
  <2> SUFFICES ASSUME Init PROVE BQ!Init
    OBVIOUS
  <2>1. sent = <<>> /\ received = <<>> /\ Len(sent) = 0 /\ Len(received) = 0
    BY EmptySeq DEF Init
  <2>2. SubSeq(sent, 0 + 1, 0) = <<>>
    BY SubSeqEmpty
  <2> QED BY <2>1, <2>2 DEF BQ!Init
<1> QED BY <1>1, StepRefines, Invariance, PTL DEF Spec, Refinement, BQ!Spec
===============================================================================
