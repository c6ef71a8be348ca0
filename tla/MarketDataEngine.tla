--------------------------- MODULE MarketDataEngine ---------------------------
(***************************************************************************)
(* src/market/market_data_engine: the matching thread feeds updates, which *)
(* are throttled per symbol and queued; the publisher thread takes them    *)
(* off the queue in process_pending and hands them to the subscribers.     *)
(*                                                                         *)
(* The queue is an HPRingBuffer, here one step per call: a try_push is the *)
(* step at which it publishes, a try_pop the one at which it releases (see *)
(* Refinement there).  What the views of the ring hide from the two sides  *)
(* is kept: released counts the pops the producer has not seen yet, which  *)
(* still take room for it, visible the messages the consumer can see.      *)
(***************************************************************************)
EXTENDS Clock, Sequences, SequencesExt

CONSTANTS
  FeedSymbols,     \* symbols whose updates are fed
  QueueCapacity,   \* md_queue_->capacity(), 16383 in the code
  Intervals,       \* values set_throttle_interval_ns is called with; 0 is off
  MaxUpdates       \* bound on the number of updates fed

ASSUME QueueCapacityAssumption == QueueCapacity \in Nat \ {0}
ASSUME IntervalsAssumption == Intervals \subseteq Nat
ASSUME MaxUpdatesAssumption == MaxUpdates \in Nat

VARIABLES
  throttle_ns,          \* throttle_ns_
  last_publish_time,    \* last_publish_time_, for the symbols that have one
  md_queue,             \* md_queue_
  released, visible,    \* what each side of the ring has not seen, has seen
  messages_published, messages_throttled,
  delivered,            \* history: messages handed to subscribers
  log                   \* history: every update fed, and its fate

ring == <<md_queue, released, visible>>
throttle == <<throttle_ns, last_publish_time, messages_throttled>>
publisher == <<messages_published, delivered>>
mdVars == <<now, throttle, ring, publisher, log>>

Kinds == {"tob", "depth", "trade"}
Message == [kind : Kinds, symbol : FeedSymbols, seq : 1 .. MaxUpdates]
Fates == {"queued", "dropped", "throttled"}

MdTypeOK ==
  /\ ClockTypeOK
  /\ throttle_ns \in Intervals \cup {0}
  /\ DOMAIN last_publish_time \subseteq FeedSymbols
  /\ \A s \in DOMAIN last_publish_time : last_publish_time[s] \in 0 .. MaxTime
  /\ md_queue \in Seq(Message)
  /\ released \in Nat /\ Len(md_queue) + released <= QueueCapacity
  /\ visible \in 0 .. Len(md_queue)
  /\ messages_published \in Nat
  /\ messages_throttled \in Nat
  /\ delivered \in Seq(Message)

MdInit ==
  /\ ClockInit /\ throttle_ns = 0
  /\ last_publish_time = [s \in {} |-> 0]
  /\ md_queue = <<>> /\ released = 0 /\ visible = 0
  /\ messages_published = 0 /\ messages_throttled = 0
  /\ delivered = <<>> /\ log = <<>>

-------------------------------------------------------------------------------
(* The matching thread.                                                    *)

set_throttle_interval_ns(ns) ==
  /\ throttle_ns' = ns
  /\ UNCHANGED <<now, last_publish_time, messages_throttled, ring, publisher, log>>

(* Fault: one stamp for all symbols.                                       *)
should_throttle_any(s) ==
  /\ throttle_ns # 0
  /\ \E x \in DOMAIN last_publish_time : Age(now, last_publish_time[x]) < throttle_ns

should_throttle(s) ==
  /\ throttle_ns # 0
  /\ s \in DOMAIN last_publish_time
  /\ Age(now, last_publish_time[s]) < throttle_ns

(* Fault: the stamp of a symbol is set the first time and never moved on.  *)
StampOnce(s) ==
  IF throttle_ns = 0 \/ s \in DOMAIN last_publish_time THEN last_publish_time
  ELSE [x \in DOMAIN last_publish_time \cup {s} |->
          IF x = s THEN now ELSE last_publish_time[x]]

(* What should_throttle leaves when it lets an update of s pass; nothing   *)
(* is recorded while throttling is off.                                    *)
Stamp(s) ==
  IF throttle_ns = 0 THEN last_publish_time
  ELSE [x \in DOMAIN last_publish_time \cup {s} |->
          IF x = s THEN now ELSE last_publish_time[x]]

(* Fault: the slot the ring keeps free is used too.                       *)
RoomLax == Len(md_queue) + released <= QueueCapacity

Room == Len(md_queue) + released < QueueCapacity

(* try_push; its result is ignored, so a full queue drops the message.     *)
try_push(m) ==
  /\ md_queue' = IF Room THEN Append(md_queue, m) ELSE md_queue
  /\ UNCHANGED <<released, visible>>

MessageOf(kind, s) == [kind |-> kind, symbol |-> s, seq |-> Len(log) + 1]

Logged(kind, s, fate) ==
  Append(log, [msg |-> MessageOf(kind, s), time |-> now, interval |-> throttle_ns,
               fate |-> fate])

Fate == IF Room THEN "queued" ELSE "dropped"

(* on_tob_update and on_depth_update.                                      *)
Throttled(kind, s) ==
  /\ Len(log) < MaxUpdates
  /\ should_throttle(s)
  /\ messages_throttled' = messages_throttled + 1
  /\ log' = Logged(kind, s, "throttled")
  /\ UNCHANGED <<now, throttle_ns, last_publish_time, ring, publisher>>

Passed(kind, s) ==
  /\ Len(log) < MaxUpdates
  /\ ~should_throttle(s)
  /\ last_publish_time' = Stamp(s)
  /\ try_push(MessageOf(kind, s))
  /\ log' = Logged(kind, s, Fate)
  /\ UNCHANGED <<now, throttle_ns, messages_throttled, publisher>>

on_trade(s) ==
  /\ Len(log) < MaxUpdates
  /\ try_push(MessageOf("trade", s))
  /\ log' = Logged("trade", s, Fate)
  /\ UNCHANGED <<now, throttle, publisher>>

-------------------------------------------------------------------------------
(* The publisher thread: one iteration of the loop of process_pending.  A  *)
(* call that finds nothing and the gap until the next one change nothing.  *)

(* Fault: the message is looked at and left on the queue.                  *)
process_pending_peek ==
  /\ visible > 0
  /\ messages_published' = messages_published + 1
  /\ delivered' = Append(delivered, Head(md_queue))
  /\ visible' = visible - 1
  /\ UNCHANGED <<now, throttle, md_queue, released, log>>

(* Fault: the loop waits for a second message before it takes the first.   *)
process_pending_pair ==
  /\ visible > 1
  /\ messages_published' = messages_published + 1
  /\ delivered' = Append(delivered, Head(md_queue))
  /\ md_queue' = Tail(md_queue)
  /\ visible' = visible - 1 /\ released' = released + 1
  /\ UNCHANGED <<now, throttle, log>>

(* The message is counted and goes to the handlers of its kind.            *)
process_pending ==
  /\ visible > 0
  /\ messages_published' = messages_published + 1
  /\ delivered' = Append(delivered, Head(md_queue))
  /\ md_queue' = Tail(md_queue)
  /\ visible' = visible - 1 /\ released' = released + 1
  /\ UNCHANGED <<now, throttle, log>>

-------------------------------------------------------------------------------
(* Environment: the clock moves, and stores of the ring become visible.    *)

ClockMoves ==
  /\ advance(1) \/ (\E ts \in 1 .. MaxTime : set_time(ts)) \/ reset
  /\ UNCHANGED <<throttle, ring, publisher, log>>

SeeReleased ==
  /\ released > 0
  /\ released' = 0
  /\ UNCHANGED <<now, throttle, md_queue, visible, publisher, log>>

SeePushed ==
  /\ visible < Len(md_queue)
  /\ visible' = Len(md_queue)
  /\ UNCHANGED <<now, throttle, md_queue, released, publisher, log>>

MdNext ==
  \/ \E ns \in Intervals : set_throttle_interval_ns(ns)
  \/ \E s \in FeedSymbols, kind \in {"tob", "depth"} : Throttled(kind, s) \/ Passed(kind, s)
  \/ \E s \in FeedSymbols : on_trade(s)
  \/ process_pending
  \/ ClockMoves \/ SeeReleased \/ SeePushed

(* The publisher thread keeps calling process_pending, and the ring's      *)
(* stores become visible in finite time.                                   *)
MdSpec == MdInit /\ [][MdNext]_mdVars /\ WF_mdVars(process_pending) /\ WF_mdVars(SeePushed)

-------------------------------------------------------------------------------
(* Properties.                                                             *)

(* Across kinds and symbols, subscribers are called in the order in which  *)
(* the matching thread fed the updates, once for each that was queued, and *)
(* the messages still under way are exactly the missing ones;              *)
(* messages_published counts the calls.                                    *)
Sent == delivered \o md_queue
WasQueued(m) ==
  m.seq \in DOMAIN log /\ log[m.seq].fate = "queued" /\ log[m.seq].msg = m
InFeedOrder ==
  /\ \A k \in DOMAIN Sent : WasQueued(Sent[k])
  /\ \A j, k \in DOMAIN Sent : j < k => Sent[j].seq < Sent[k].seq
  /\ \A n \in DOMAIN log :
       log[n].fate = "queued" => \E k \in DOMAIN Sent : Sent[k].seq = n
  /\ messages_published = Len(delivered)

(* Two updates of a symbol that throttling let pass are at least the       *)
(* interval apart that was in force at the second, unless the clock was    *)
(* set back in between (an update that passed while throttling was off     *)
(* does not count: it leaves no stamp).                                    *)
Passes(e) == e.msg.kind # "trade" /\ e.fate # "throttled"
SetBack(i, j) == \E k \in i .. (j - 1) : log[k + 1].time < log[k].time
Spaced ==
  \A i, j \in DOMAIN log :
    /\ i < j /\ log[i].msg.symbol = log[j].msg.symbol
    /\ Passes(log[i]) /\ Passes(log[j]) /\ log[i].interval > 0
    /\ ~SetBack(i, j)
    => log[j].time - log[i].time >= log[j].interval

(* Nothing is throttled without a reason: the same symbol had an update    *)
(* pass less than one interval ago.  Other symbols never cost an update,   *)
(* nor does a clock that was set back, and a trade is never throttled.     *)
ThrottledForCause ==
  \A j \in DOMAIN log : log[j].fate = "throttled" =>
    /\ log[j].msg.kind # "trade"
    /\ \E i \in 1 .. (j - 1) :
         /\ log[i].msg.symbol = log[j].msg.symbol
         /\ Passes(log[i])
         /\ log[j].time - log[i].time \in 0 .. (log[j].interval - 1)

(* Throttling holds back what comes too early for its symbol, and only it. *)
ThrottleExact == Spaced /\ ThrottledForCause

(* Whatever was queued reaches the subscribers.                            *)
QueuedIsDelivered ==
  \A n \in 1 .. MaxUpdates :
    (n \in DOMAIN log /\ log[n].fate = "queued") ~>
      (\E k \in DOMAIN delivered : delivered[k].seq = n)
===============================================================================
