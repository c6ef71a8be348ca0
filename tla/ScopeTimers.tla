------------------------------ MODULE ScopeTimers -----------------------------
(***************************************************************************)
(* The labelled timers of src/ScopeTimer.hpp (ScopeTimerManagement).  The  *)
(* slots are thread_local, so this is one thread; it reads the steady      *)
(* clock.                                                                  *)
(***************************************************************************)
EXTENDS Clock, Sequences, SequencesExt, FiniteSetsExt

CONSTANTS
  Labels,
  NoLabel,    \* the empty label of a slot that was never used
  MaxSlots    \* SCOPE_TIMER_MAX_SLOTS, 32 unless configured

ASSUME NoLabelAssumption == NoLabel \notin Labels
ASSUME MaxSlotsAssumption == MaxSlots \in Nat \ {0}
ASSUME SteadyAssumption == MaxTime + 1 < TimeWrap   \* the steady clock does not wrap

VARIABLES
  slots,      \* slots_
  reading,    \* what the last end or endAndLog measured
  started,    \* history: the times of the start calls of each label
  running,    \* history: labels started and not ended since
  untidy      \* history: labels that were started again while running or
              \* without a free slot, ended while not running, or logged

timerState == <<slots, reading, started, running, untidy>>
timerVars == <<now, timerState>>

Slot == [label : Labels \cup {NoLabel}, used : BOOLEAN, begin : 0 .. MaxTime]

(* A duration is kept as the moment it is measured from; NoLabel marks one *)
(* that is undefined, or a call that measured nothing.                     *)
Reading == [label : Labels \cup {NoLabel}, from : 0 .. MaxTime, tidy : BOOLEAN]
NoReading == [label |-> NoLabel, from |-> 0, tidy |-> FALSE]

TimerTypeOK ==
  /\ ClockTypeOK
  /\ slots \in [1 .. MaxSlots -> Slot]
  /\ reading \in Reading
  /\ started \in [Labels -> SUBSET (0 .. MaxTime)]
  /\ running \subseteq Labels /\ untidy \subseteq Labels

TimerInit ==
  /\ ClockInit
  /\ slots = [i \in 1 .. MaxSlots |-> [label |-> NoLabel, used |-> FALSE, begin |-> 0]]
  /\ reading = NoReading
  /\ started = [l \in Labels |-> {}]
  /\ running = {} /\ untidy = {}

-------------------------------------------------------------------------------
(* Each call takes the first slot that will do; 0 if none does.            *)

FreeSlot == SelectInSeq(slots, LAMBDA s : ~s.used)

(* Fault: the label is not compared.                                       *)
RunningSlotAny(l) == SelectInSeq(slots, LAMBDA s : s.used)

RunningSlot(l) == SelectInSeq(slots, LAMBDA s : s.used /\ s.label = l)

(* endAndLog does not ask whether the slot is in use.                      *)
LabelledSlot(l) == SelectInSeq(slots, LAMBDA s : s.label = l)

Measured(l, i) == [label |-> l, from |-> slots[i].begin, tidy |-> l \notin untidy]

(* With no free slot nothing is started, and nothing said.                 *)
start(l) ==
  /\ slots' = IF FreeSlot = 0 THEN slots
              ELSE [slots EXCEPT ![FreeSlot] = [label |-> l, used |-> TRUE, begin |-> now]]
  /\ started' = [started EXCEPT ![l] = @ \cup {now}]
  /\ running' = running \cup {l}
  /\ untidy' = IF l \in running \/ FreeSlot = 0 THEN untidy \cup {l} ELSE untidy
  /\ reading' = NoReading
  /\ UNCHANGED now

end(l) ==
  /\ RunningSlot(l) # 0
  /\ slots' = [slots EXCEPT ![RunningSlot(l)].used = FALSE]
  /\ reading' = Measured(l, RunningSlot(l))
  /\ running' = running \ {l}
  /\ UNCHANGED <<now, started, untidy>>

(* Without a running timer of the label, end runs off the end of a         *)
(* function that has to return a duration: undefined, here any duration.   *)
EndUnknown(l) ==
  /\ RunningSlot(l) = 0
  /\ \E any \in 0 .. MaxTime : reading' = [NoReading EXCEPT !.from = any]
  /\ running' = running \ {l} /\ untidy' = untidy \cup {l}
  /\ UNCHANGED <<now, slots, started>>

(* The slot stays in use.                                                  *)
endAndLog(l) ==
  /\ reading' = IF LabelledSlot(l) = 0 THEN NoReading
                ELSE [Measured(l, LabelledSlot(l)) EXCEPT !.tidy = @ /\ l \in running]
  /\ running' = running \ {l} /\ untidy' = untidy \cup {l}
  /\ UNCHANGED <<now, slots, started>>

TimePasses == advance(1) /\ UNCHANGED timerState

TimerNext ==
  \/ \E l \in Labels : start(l) \/ end(l) \/ EndUnknown(l) \/ endAndLog(l)
  \/ TimePasses

TimerSpec == TimerInit /\ [][TimerNext]_timerVars

-------------------------------------------------------------------------------
(* Properties.                                                             *)

(* A measured duration begins at a start of the same label; at the latest  *)
(* one, if the label's starts and ends always alternated and each start    *)
(* found a slot.  (The first endAndLog of a label still measures the       *)
(* latest start; the ones after it measure the first again.)               *)
MeasuresOwnLabel ==
  reading.label \in Labels =>
    /\ reading.from \in started[reading.label]
    /\ reading.tidy => reading.from = Max(started[reading.label])

(* Such a label holds one slot while it runs and none when it does not:    *)
(* the slots are not used up.                                              *)
TidyLabelsFreeSlots ==
  \A l \in Labels \ untidy :
    Quantify(1 .. MaxSlots, LAMBDA i : slots[i].used /\ slots[i].label = l)
      = IF l \in running THEN 1 ELSE 0

(* Timers of labels used in pairs of start and end, whatever other labels  *)
(* do to the slots.                                                        *)
TimersIndependent == MeasuresOwnLabel /\ TidyLabelsFreeSlots
===============================================================================
