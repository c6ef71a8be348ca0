------------------------ MODULE MarketDataEngineProofs ------------------------
(***************************************************************************)
(* Proofs that hold for every set of symbols, every queue capacity, every  *)
(* number of updates and every interleaving of the two threads and the     *)
(* clock.                                                                  *)
(***************************************************************************)
EXTENDS MarketDataEngine, CommonLemmas, SequenceTheorems, TLAPS

(* What the histories hold.                                                *)
Entry == [msg : Message, time : 0 .. MaxTime, interval : Intervals \cup {0}, fate : Fates]
LogTyped ==
  /\ log \in Seq(Entry)
  /\ Len(log) <= MaxUpdates
  /\ \A n \in DOMAIN log : log[n].msg.seq = n

(* An update that left a stamp, and the last of its symbol that did.       *)
Stamps(n, s) == log[n].msg.symbol = s /\ Passes(log[n]) /\ log[n].interval > 0
LastStamp(n, s) ==
  /\ n \in DOMAIN log /\ Stamps(n, s)
  /\ \A m \in DOMAIN log : Stamps(m, s) => m <= n

(* last_publish_time_ is the time of the last update that left a stamp.    *)
StampsRemembered ==
  /\ \A n \in DOMAIN log, s \in FeedSymbols : Stamps(n, s) => s \in DOMAIN last_publish_time
  /\ \A s \in DOMAIN last_publish_time :
       \E n \in DOMAIN log : LastStamp(n, s) /\ log[n].time = last_publish_time[s]

(* Where the clock is not set back the log is in the order of time.        *)
TimeOrder ==
  \A i, j \in DOMAIN log : i <= j /\ ~SetBack(i, j) => log[i].time <= log[j].time

IInv ==
  /\ MdTypeOK
  /\ LogTyped
  /\ InFeedOrder
  /\ StampsRemembered
  /\ TimeOrder
  /\ Spaced

-------------------------------------------------------------------------------
(* Ages of timestamps the clock showed, when it ran forward in between and *)
(* when it was set back.                                                   *)
LEMMA Ages ==
  ASSUME NEW a \in 0 .. MaxTime, NEW b \in 0 .. MaxTime
  PROVE  /\ a >= b => Age(a, b) = a - b
         /\ a < b => Age(a, b) = a - b + TimeWrap
<1> USE MaxTimeAssumption, TimeWrapAssumption
<1>1. CASE a >= b
  <2>1. a - b \in 0 .. (TimeWrap - 1)
    BY <1>1
  <2> QED BY <1>1, <2>1, ModSmall DEF Age
<1>2. CASE a < b
  <2>1. (a - b) + (TimeWrap * 1) = a - b + TimeWrap /\ a - b \in Int
    OBVIOUS
  <2>2. ((a - b) + (TimeWrap * 1)) % TimeWrap = (a - b) % TimeWrap
    <3>1. a - b \in Int /\ 1 \in Int
      OBVIOUS
    <3> QED BY <3>1, ModShift, Zenon
  <2>3. a - b + TimeWrap \in 0 .. (TimeWrap - 1)
    BY <1>2
  <2>4. (a - b + TimeWrap) % TimeWrap = a - b + TimeWrap
    BY <2>3, ModSmall
  <2> QED BY <1>2, <2>1, <2>2, <2>4 DEF Age
<1> QED BY <1>1, <1>2

(* An entry added to the log.                                              *)
Adds(e) ==
  /\ e \in Entry /\ e.msg.seq = Len(log) + 1
  /\ Len(log) < MaxUpdates
  /\ log' = Append(log, e)

LEMMA LogGrows ==
  ASSUME LogTyped, NEW e, Adds(e)
  PROVE  /\ LogTyped'
         /\ Len(log) \in Nat /\ Len(log') = Len(log) + 1
         /\ DOMAIN log = 1 .. Len(log) /\ DOMAIN log' = 1 .. (Len(log) + 1)
         /\ \A n \in 1 .. Len(log) : log'[n] = log[n] /\ log[n] \in Entry
         /\ log'[Len(log) + 1] = e
<1> DEFINE n == Len(log)
<1>1. /\ n \in Nat /\ DOMAIN log = 1 .. n
      /\ \A k \in 1 .. n : log[k] \in Entry
  BY LenProperties, ElementOfSeq DEF LogTyped
<1>2. /\ log' \in Seq(Entry) /\ Len(log') = n + 1
      /\ \A k \in 1 .. n : log'[k] = log[k]
      /\ log'[n + 1] = e
  BY AppendProperties DEF LogTyped, Adds
<1>3. DOMAIN log' = 1 .. (n + 1)
  BY <1>2, LenProperties
<1>4. n < MaxUpdates /\ e.msg.seq = n + 1
  BY DEF Adds
<1>5. \A k \in 1 .. n : log[k].msg.seq = k
  BY <1>1 DEF LogTyped
<1> HIDE DEF n
<1>6. \A k \in 1 .. (n + 1) : log'[k].msg.seq = k
  BY <1>1, <1>2, <1>4, <1>5
<1>7. LogTyped'
  BY <1>1, <1>2, <1>3, <1>4, <1>6, MaxUpdatesAssumption DEF LogTyped
<1> QED BY <1>1, <1>2, <1>3, <1>7 DEF n

(* An entry carries the time of the clock, so the log stays in order where *)
(* the clock is not set back.                                              *)
LEMMA TimeOrderGrows ==
  ASSUME LogTyped, TimeOrder, NEW e, Adds(e), NEW n \in Nat, n = Len(log)
  PROVE  /\ TimeOrder'
         /\ \A i \in DOMAIN log : ~SetBack(i, n + 1)' => log[i].time <= e.time
<1>1. /\ n \in Nat /\ DOMAIN log = 1 .. n /\ DOMAIN log' = 1 .. (n + 1)
      /\ \A k \in 1 .. n : log'[k] = log[k] /\ log[k] \in Entry
      /\ log'[n + 1] = e
  BY LogGrows
<1>2. \A k \in 1 .. n : log[k].time \in Nat
  BY <1>1, MaxTimeAssumption DEF Entry
<1>3. e.time \in Nat
  BY MaxTimeAssumption DEF Entry, Adds
<1>4. ASSUME NEW i \in 1 .. n, NEW j \in 1 .. n, i <= j, ~SetBack(i, j)'
      PROVE  log[i].time <= log[j].time
  <2>1. ASSUME NEW k \in i .. (j - 1) PROVE ~(log[k + 1].time < log[k].time)
    <3>1. k \in 1 .. n /\ k + 1 \in 1 .. n
      BY <1>1, <1>4
    <3> QED BY <1>1, <1>4, <3>1 DEF SetBack
  <2> QED BY <1>1, <1>4, <2>1 DEF TimeOrder, SetBack
<1>5. ASSUME NEW i \in 1 .. n, ~SetBack(i, n + 1)' PROVE log[i].time <= e.time
  <2>1. /\ n \in 1 .. n /\ i <= n /\ n \in i .. ((n + 1) - 1)
        /\ \A k \in i .. (n - 1) : k \in i .. ((n + 1) - 1)
    BY <1>1
  <2>2. ~SetBack(i, n)'
    BY <1>5, <2>1 DEF SetBack
  <2>3. ~(log'[n + 1].time < log'[n].time)
    BY <1>5, <2>1 DEF SetBack
  <2>4. log[i].time <= log[n].time /\ log[n].time <= e.time
    BY <1>1, <1>2, <1>3, <1>4, <2>1, <2>2, <2>3
  <2> QED BY <1>2, <1>3, <2>1, <2>4
<1>6. TimeOrder'
  <2> SUFFICES ASSUME NEW i \in 1 .. (n + 1), NEW j \in 1 .. (n + 1), i <= j, ~SetBack(i, j)'
               PROVE  log'[i].time <= log'[j].time
    BY <1>1 DEF TimeOrder
  <2>1. CASE j \in 1 .. n
    <3>1. i \in 1 .. n
      BY <1>1, <2>1
    <3> QED BY <1>1, <1>4, <2>1, <3>1
  <2>2. CASE j = n + 1 /\ i \in 1 .. n
    BY <1>1, <1>5, <2>2
  <2>3. CASE j = n + 1 /\ i = n + 1
    BY <1>1, <1>3, <2>3
  <2> QED BY <1>1, <2>1, <2>2, <2>3
<1> QED BY <1>1, <1>5, <1>6

(* The queue and what was delivered keep the order of the log when an      *)
(* entry is added, whether or not it found room.                           *)
LEMMA FeedOrderGrows ==
  ASSUME MdTypeOK, LogTyped, InFeedOrder, NEW e, Adds(e),
         UNCHANGED <<delivered, messages_published>>,
         md_queue' = IF e.fate = "queued" THEN Append(md_queue, e.msg) ELSE md_queue
  PROVE  InFeedOrder'
<1> DEFINE n == Len(log)
           L == Len(Sent)
<1>1. /\ n \in Nat /\ DOMAIN log = 1 .. n /\ DOMAIN log' = 1 .. (n + 1)
      /\ \A k \in 1 .. n : log'[k] = log[k]
      /\ log'[n + 1] = e /\ e.msg \in Message /\ e.msg.seq = n + 1
  BY LogGrows DEF Adds, Entry
<1>2. /\ Sent \in Seq(Message) /\ L \in Nat /\ DOMAIN Sent = 1 .. L
      /\ delivered \in Seq(Message) /\ md_queue \in Seq(Message)
  BY ConcatProperties, LenProperties DEF MdTypeOK, Sent
<1>3. Sent' = IF e.fate = "queued" THEN Append(Sent, e.msg) ELSE Sent
  <2>1. /\ Append(md_queue, e.msg) = md_queue \o <<e.msg>>
        /\ Append(Sent, e.msg) = Sent \o <<e.msg>>
    BY <1>1, <1>2, AppendIsConcat
  <2>2. delivered \o (md_queue \o <<e.msg>>) = (delivered \o md_queue) \o <<e.msg>>
    <3>1. <<e.msg>> \in Seq(Message)
      BY <1>1
    <3> QED BY <1>2, <3>1, ConcatAssociative
  <2> QED BY <2>1, <2>2 DEF Sent
<1>4. \A k \in 1 .. L : /\ Sent[k].seq \in 1 .. n /\ log[Sent[k].seq].fate = "queued"
                        /\ log[Sent[k].seq].msg = Sent[k]
  BY <1>1, <1>2 DEF InFeedOrder, WasQueued
<1>5. \A j, k \in 1 .. L : j < k => Sent[j].seq < Sent[k].seq
  BY <1>2 DEF InFeedOrder
<1>6. \A k \in 1 .. n : log[k].fate = "queued" => \E i \in 1 .. L : Sent[i].seq = k
  BY <1>1, <1>2 DEF InFeedOrder
<1>7. messages_published' = Len(delivered')
  BY DEF InFeedOrder
<1> HIDE DEF n, L
<1>8. CASE e.fate = "queued"
  <2>1. /\ DOMAIN Sent' = 1 .. (L + 1) /\ Sent'[L + 1] = e.msg
        /\ \A k \in 1 .. L : Sent'[k] = Sent[k]
    <3>1. Sent' = Append(Sent, e.msg)
      BY <1>3, <1>8
    <3> QED BY <1>1, <1>2, <3>1, AppendProperties, LenProperties DEF L
  <2>2. ASSUME NEW k \in 1 .. (L + 1)
        PROVE  /\ Sent'[k].seq \in 1 .. (n + 1)
               /\ log'[Sent'[k].seq].fate = "queued" /\ log'[Sent'[k].seq].msg = Sent'[k]
    <3>1. CASE k \in 1 .. L
      BY <1>1, <1>4, <2>1, <3>1
    <3>2. CASE k = L + 1
      BY <1>1, <1>8, <2>1, <3>2
    <3> QED BY <1>2, <3>1, <3>2
  <2>3. ASSUME NEW j \in 1 .. (L + 1), NEW k \in 1 .. (L + 1), j < k
        PROVE  Sent'[j].seq < Sent'[k].seq
    <3>1. j \in 1 .. L
      BY <1>2, <2>3
    <3>2. CASE k \in 1 .. L
      BY <1>5, <2>1, <2>3, <3>1, <3>2
    <3>3. CASE k = L + 1
      <4>1. Sent[j].seq < n + 1
        BY <1>1, <1>4, <3>1
      <4> QED BY <1>1, <2>1, <3>1, <3>3, <4>1
    <3> QED BY <1>2, <3>2, <3>3
  <2>4. ASSUME NEW k \in 1 .. (n + 1), log'[k].fate = "queued"
        PROVE  \E i \in 1 .. (L + 1) : Sent'[i].seq = k
    <3>1. CASE k \in 1 .. n
      <4>1. PICK i \in 1 .. L : Sent[i].seq = k
        BY <1>1, <1>6, <2>4, <3>1
      <4>2. i \in 1 .. (L + 1)
        BY <1>2
      <4> QED BY <2>1, <4>1, <4>2
    <3>2. CASE k = n + 1
      <4>1. L + 1 \in 1 .. (L + 1)
        BY <1>2
      <4> QED BY <1>1, <2>1, <3>2, <4>1
    <3> QED BY <1>1, <3>1, <3>2
  <2> QED BY <1>1, <1>7, <2>1, <2>2, <2>3, <2>4 DEF InFeedOrder, WasQueued
<1>9. CASE e.fate # "queued"
  <2>1. Sent' = Sent
    BY <1>3, <1>9
  <2>2. \A k \in 1 .. L : Sent'[k].seq \in 1 .. (n + 1) /\ log'[Sent'[k].seq] = log[Sent[k].seq]
    BY <1>1, <1>4, <2>1
  <2>3. \A k \in 1 .. (n + 1) : log'[k].fate = "queued" => k \in 1 .. n
    BY <1>1, <1>9
  <2> QED BY SMTT(30), <1>1, <1>2, <1>4, <1>5, <1>6, <1>7, <2>1, <2>2, <2>3 DEF InFeedOrder, WasQueued
<1> QED BY <1>8, <1>9

(* The entry that a call of the matching thread for symbol s adds: the     *)
(* stamp moves when throttling is on and let the update pass.              *)
Calls(e, s) ==
  /\ Adds(e) /\ s \in FeedSymbols
  /\ e.msg.symbol = s /\ e.time = now /\ e.interval = throttle_ns
  /\ Passes(e) => ~should_throttle(s)
  /\ e.fate = "throttled" => e.msg.kind # "trade" /\ should_throttle(s)
  /\ last_publish_time' = IF Passes(e) THEN Stamp(s) ELSE last_publish_time

LEMMA StampsGrow ==
  ASSUME MdTypeOK, LogTyped, StampsRemembered, NEW e, NEW s, Calls(e, s)
  PROVE  StampsRemembered'
<1> DEFINE n == Len(log)
<1>1. /\ n \in Nat /\ DOMAIN log = 1 .. n /\ DOMAIN log' = 1 .. (n + 1)
      /\ \A k \in 1 .. n : log'[k] = log[k]
      /\ log'[n + 1] = e
  BY LogGrows DEF Calls
<1> DEFINE marks == Passes(e) /\ throttle_ns # 0
<1>2. /\ s \in FeedSymbols
      /\ ~marks => last_publish_time' = last_publish_time
      /\ marks => last_publish_time' = [x \in DOMAIN last_publish_time \cup {s} |->
                                         IF x = s THEN now ELSE last_publish_time[x]]
  BY DEF Calls, Stamp
<1>3. /\ \A k \in 1 .. n, x \in FeedSymbols : Stamps(k, x)' <=> Stamps(k, x)
      /\ \A k \in 1 .. (n + 1), x \in FeedSymbols :
           k = n + 1 => (Stamps(k, x)' <=> (x = s /\ marks))
  <2>1. throttle_ns > 0 <=> throttle_ns # 0
    BY IntervalsAssumption DEF MdTypeOK
  <2>2. e.msg.symbol = s /\ e.interval = throttle_ns
    BY DEF Calls
  <2> QED BY <1>1, <2>1, <2>2 DEF Stamps, Passes
<1> HIDE DEF n, marks
<1>4. ASSUME NEW k \in 1 .. (n + 1), NEW x \in FeedSymbols, Stamps(k, x)'
      PROVE  x \in DOMAIN last_publish_time'
  <2>1. CASE k \in 1 .. n
    BY <1>1, <1>2, <1>3, <1>4, <2>1 DEF StampsRemembered
  <2>2. CASE k = n + 1
    BY <1>2, <1>3, <1>4, <2>2
  <2> QED BY <1>1, <2>1, <2>2
<1>5. ASSUME NEW x \in DOMAIN last_publish_time'
      PROVE  \E k \in 1 .. (n + 1) : LastStamp(k, x)' /\ log'[k].time = last_publish_time'[x]
  <2>1. x \in FeedSymbols
    BY <1>2, <1>5 DEF MdTypeOK
  <2>2. CASE x = s /\ marks
    <3>1. n + 1 \in 1 .. (n + 1) /\ \A m \in 1 .. (n + 1) : m <= n + 1
      BY <1>1
    <3>2. \A k \in 1 .. (n + 1) : k = n + 1 => LastStamp(k, x)'
      BY <1>1, <1>3, <2>1, <2>2, <3>1 DEF LastStamp
    <3>3. e.time = now /\ last_publish_time'[x] = now
      BY <1>2, <2>2 DEF Calls
    <3> QED BY <1>1, <3>1, <3>2, <3>3
  <2>3. CASE ~(x = s /\ marks)
    <3>1. x \in DOMAIN last_publish_time /\ last_publish_time'[x] = last_publish_time[x]
      BY <1>2, <1>5, <2>3
    <3>2. PICK k \in 1 .. n : LastStamp(k, x) /\ log[k].time = last_publish_time[x]
      BY <1>1, <3>1 DEF StampsRemembered
    <3>3. \A m \in 1 .. (n + 1) : Stamps(m, x)' => m \in 1 .. n
      BY <1>1, <1>3, <2>1, <2>3
    <3>4. k \in 1 .. (n + 1) /\ LastStamp(k, x)'
      BY <1>1, <1>3, <2>1, <3>2, <3>3 DEF LastStamp
    <3> QED BY <1>1, <3>1, <3>2, <3>4
  <2> QED BY <2>2, <2>3
<1> QED BY <1>1, <1>4, <1>5 DEF StampsRemembered

(* An update passes only an interval after the one that left the stamp,    *)
(* hence after every earlier one of its symbol.                            *)
LEMMA SpacedGrows ==
  ASSUME IInv, NEW e, NEW s, Calls(e, s)
  PROVE  Spaced'
<1> USE MaxTimeAssumption
<1> SUFFICES ASSUME NEW n \in Nat, n = Len(log)
             PROVE  Spaced'
  BY LogGrows DEF Calls, IInv
<1>1. /\ DOMAIN log = 1 .. n /\ DOMAIN log' = 1 .. (n + 1)
      /\ \A k \in 1 .. n : log'[k] = log[k] /\ log[k] \in Entry
      /\ log'[n + 1] = e
  BY LogGrows DEF Calls, IInv
<1>2. /\ e.msg.symbol = s /\ e.time = now /\ e.interval = throttle_ns
      /\ s \in FeedSymbols
      /\ Passes(e) /\ throttle_ns # 0 /\ s \in DOMAIN last_publish_time
           => ~(Age(now, last_publish_time[s]) < throttle_ns)
      /\ now \in 0 .. MaxTime /\ throttle_ns \in Nat
  <2>1. now \in 0 .. MaxTime /\ throttle_ns \in Nat
    BY IntervalsAssumption DEF IInv, MdTypeOK, ClockTypeOK
  <2> QED BY <2>1 DEF Calls, should_throttle
<1>3. \A k \in 1 .. n : log[k].time \in 0 .. MaxTime
  BY <1>1 DEF Entry
<1>4. ASSUME NEW i \in 1 .. n, NEW j \in 1 .. n
      PROVE  SetBack(i, j)' <=> SetBack(i, j)
  <2>1. ASSUME NEW k \in i .. (j - 1)
        PROVE  log'[k] = log[k] /\ log'[k + 1] = log[k + 1]
    <3>1. k \in 1 .. n /\ k + 1 \in 1 .. n
      OBVIOUS
    <3> QED BY <1>1, <3>1
  <2> QED BY <2>1 DEF SetBack
<1>5. \A i \in 1 .. n : ~SetBack(i, n + 1)' => log[i].time <= now
  BY <1>1, <1>2, TimeOrderGrows DEF Calls, IInv
<1>6. ASSUME NEW i \in 1 .. n, Stamps(i, s), Passes(e), ~SetBack(i, n + 1)'
      PROVE  now - log[i].time >= throttle_ns
  <2>1. s \in DOMAIN last_publish_time
    <3>1. i \in DOMAIN log /\ s \in FeedSymbols
      BY <1>1, <1>2
    <3> QED BY <1>6, <3>1 DEF IInv, StampsRemembered
  <2>2. PICK l \in 1 .. n : LastStamp(l, s) /\ log[l].time = last_publish_time[s]
    BY <1>1, <2>1 DEF IInv, StampsRemembered
  <2>3. i <= l
    BY <1>1, <1>6, <2>2 DEF LastStamp
  <2>4. ~SetBack(i, l) /\ ~SetBack(l, n + 1)'
    <3>1. /\ \A k \in i .. (l - 1) : k \in i .. ((n + 1) - 1) /\ k \in 1 .. n /\ k + 1 \in 1 .. n
          /\ \A k \in l .. ((n + 1) - 1) : k \in i .. ((n + 1) - 1)
      BY <2>3
    <3>2. \A k \in i .. ((n + 1) - 1) : ~(log'[k + 1].time < log'[k].time)
      BY <1>6 DEF SetBack
    <3> QED BY <1>1, <3>1, <3>2 DEF SetBack
  <2>5. log[i].time <= log[l].time /\ log[l].time <= now
    BY <1>1, <1>5, <2>3, <2>4 DEF IInv, TimeOrder
  <2>6. CASE throttle_ns = 0
    BY <1>2, <1>3, <2>5, <2>6
  <2>7. CASE throttle_ns # 0
    <3>1. ~(Age(now, log[l].time) < throttle_ns)
      <4>1. ~(Age(now, last_publish_time[s]) < throttle_ns)
        BY <1>2, <1>6, <2>1, <2>7
      <4> QED BY <2>2, <4>1
    <3>2. Age(now, log[l].time) = now - log[l].time
      BY <1>2, <1>3, <2>5, Ages
    <3> QED BY <1>2, <1>3, <2>5, <3>1, <3>2
  <2> QED BY <2>6, <2>7
<1> SUFFICES ASSUME NEW i \in 1 .. (n + 1), NEW j \in 1 .. (n + 1),
                    i < j, log'[i].msg.symbol = log'[j].msg.symbol,
                    Passes(log'[i]), Passes(log'[j]), log'[i].interval > 0, ~SetBack(i, j)'
             PROVE  log'[j].time - log'[i].time >= log'[j].interval
  BY <1>1 DEF Spaced, Passes
<1>7. CASE j \in 1 .. n
  <2>1. i \in 1 .. n
    BY <1>7
  <2> QED BY <1>1, <1>4, <1>7, <2>1 DEF IInv, Spaced
<1>8. CASE j = n + 1
  <2>1. i \in 1 .. n
    BY <1>8
  <2>2. Stamps(i, s) /\ Passes(e)
    BY <1>1, <1>2, <1>8, <2>1 DEF Stamps
  <2> QED BY <1>1, <1>2, <1>6, <1>8, <2>1, <2>2
<1> QED BY <1>7, <1>8

(* No interval is so long that the age of a time to come, which wraps      *)
(* around, falls below it: 2^64 nanoseconds are 584 years.                 *)
ShortIntervals == \A ns \in Intervals : ns + MaxTime <= TimeWrap

(* An update is only throttled when the stamp of its symbol is less than   *)
(* an interval old, and the update that left it is the cause.              *)
LEMMA CausesGrow ==
  ASSUME ShortIntervals, IInv, ThrottledForCause, NEW e, NEW s, Calls(e, s)
  PROVE  ThrottledForCause'
<1> USE MaxTimeAssumption, TimeWrapAssumption
<1> DEFINE n == Len(log)
<1>1. /\ n \in Nat /\ DOMAIN log = 1 .. n /\ DOMAIN log' = 1 .. (n + 1)
      /\ \A k \in 1 .. n : log'[k] = log[k] /\ log[k] \in Entry
      /\ log'[n + 1] = e
  BY LogGrows DEF Calls, IInv
<1>2. /\ e.msg.symbol = s /\ e.time = now /\ e.interval = throttle_ns /\ s \in FeedSymbols
      /\ e.fate = "throttled" => /\ e.msg.kind # "trade"
                                 /\ throttle_ns # 0 /\ s \in DOMAIN last_publish_time
                                 /\ Age(now, last_publish_time[s]) < throttle_ns
  BY DEF Calls, should_throttle
<1>3. /\ now \in 0 .. MaxTime /\ throttle_ns \in Nat
      /\ throttle_ns # 0 => throttle_ns + MaxTime <= TimeWrap
  BY IntervalsAssumption DEF IInv, MdTypeOK, ClockTypeOK, ShortIntervals
<1>4. ASSUME e.fate = "throttled"
      PROVE  \E i \in 1 .. n : /\ log[i].msg.symbol = s /\ Passes(log[i])
                              /\ now - log[i].time \in 0 .. (throttle_ns - 1)
  <2>1. PICK i \in 1 .. n : LastStamp(i, s) /\ log[i].time = last_publish_time[s]
    BY <1>1, <1>2, <1>4 DEF IInv, StampsRemembered
  <2>2. log[i].time \in 0 .. MaxTime
    BY <1>1 DEF Entry
  <2>3. Age(now, log[i].time) < throttle_ns
    BY <1>2, <1>4, <2>1
  <2>4. /\ now >= log[i].time => Age(now, log[i].time) = now - log[i].time
        /\ now < log[i].time => Age(now, log[i].time) = now - log[i].time + TimeWrap
    BY <1>3, <2>2, Ages
  <2>5. now >= log[i].time
    BY <1>2, <1>3, <1>4, <2>2, <2>3, <2>4
  <2>6. now - log[i].time \in 0 .. (throttle_ns - 1)
    BY <1>3, <2>2, <2>3, <2>4, <2>5
  <2> QED BY <2>1, <2>6 DEF LastStamp, Stamps
<1> HIDE DEF n
<1> SUFFICES ASSUME NEW j \in 1 .. (n + 1), log'[j].fate = "throttled"
             PROVE  /\ log'[j].msg.kind # "trade"
                    /\ \E i \in 1 .. (j - 1) :
                         /\ log'[i].msg.symbol = log'[j].msg.symbol
                         /\ Passes(log'[i])
                         /\ log'[j].time - log'[i].time \in 0 .. (log'[j].interval - 1)
  BY <1>1 DEF ThrottledForCause, Passes
<1>5. CASE j \in 1 .. n
  <2>1. \A i \in 1 .. (j - 1) : i \in 1 .. n
    BY <1>1, <1>5
  <2>2. PICK i \in 1 .. (j - 1) :
          /\ log[i].msg.symbol = log[j].msg.symbol
          /\ Passes(log[i])
          /\ log[j].time - log[i].time \in 0 .. (log[j].interval - 1)
    BY <1>1, <1>5 DEF ThrottledForCause
  <2>3. log[j].msg.kind # "trade"
    BY <1>1, <1>5 DEF ThrottledForCause
  <2> QED BY <1>1, <1>5, <2>1, <2>2, <2>3
<1>6. CASE j = n + 1
  <2>1. PICK i \in 1 .. n : /\ log[i].msg.symbol = s /\ Passes(log[i])
                            /\ now - log[i].time \in 0 .. (throttle_ns - 1)
    BY <1>1, <1>4, <1>6
  <2>2. i \in 1 .. (j - 1)
    BY <1>1, <1>6
  <2> QED BY <1>1, <1>2, <1>6, <2>1, <2>2
<1> QED BY <1>1, <1>5, <1>6

-------------------------------------------------------------------------------
(* Steps of the matching thread, and the others.                           *)

(* A step that adds to the log keeps the invariant, if the types hold      *)
(* after it.                                                               *)
LEMMA CallIInv ==
  ASSUME IInv, NEW e, NEW s, Calls(e, s), MdTypeOK',
         UNCHANGED <<delivered, messages_published>>,
         md_queue' = IF e.fate = "queued" THEN Append(md_queue, e.msg) ELSE md_queue
  PROVE  IInv'
<1>1. LogTyped' /\ Len(log) \in Nat
  BY LogGrows DEF IInv, Calls
<1>2. InFeedOrder'
  BY FeedOrderGrows DEF IInv, Calls
<1>3. TimeOrder'
  BY <1>1, TimeOrderGrows DEF IInv, Calls
<1> QED BY <1>1, <1>2, <1>3, StampsGrow, SpacedGrows DEF IInv

(* A step that touches neither the log nor the stamps.                     *)
LEMMA QuietIInv ==
  ASSUME IInv, MdTypeOK', UNCHANGED <<log, last_publish_time>>, InFeedOrder'
  PROVE  IInv' /\ (ThrottledForCause => ThrottledForCause')
<1>1. LogTyped'
  BY DEF IInv, LogTyped
<1>2. StampsRemembered'
  BY DEF IInv, StampsRemembered, LastStamp, Stamps
<1>3. TimeOrder' /\ Spaced' /\ (ThrottledForCause => ThrottledForCause')
  BY DEF IInv, TimeOrder, Spaced, ThrottledForCause, SetBack
<1> QED BY <1>1, <1>2, <1>3 DEF IInv

(* What an action of the matching thread feeds.                            *)
EntryOf(kind, s, fate) ==
  [msg |-> MessageOf(kind, s), time |-> now, interval |-> throttle_ns, fate |-> fate]

LEMMA FedEntry ==
  ASSUME IInv, NEW kind \in Kinds, NEW s \in FeedSymbols, NEW fate \in Fates,
         Len(log) < MaxUpdates, log' = Logged(kind, s, fate)
  PROVE  Adds(EntryOf(kind, s, fate)) /\ MessageOf(kind, s) \in Message
<1>1. Len(log) \in Nat
  BY LenProperties DEF IInv, LogTyped
<1>2. Len(log) + 1 \in 1 .. MaxUpdates
  BY <1>1, MaxUpdatesAssumption
<1>3. MessageOf(kind, s) \in Message
  BY <1>2 DEF Message, MessageOf
<1>4. EntryOf(kind, s, fate) \in Entry
  BY <1>3 DEF IInv, MdTypeOK, ClockTypeOK, Entry, EntryOf
<1> QED BY <1>3, <1>4 DEF Adds, EntryOf, MessageOf, Logged

(* A push keeps the queue within its capacity.                             *)
LEMMA PushTyped ==
  ASSUME MdTypeOK, NEW m \in Message, try_push(m)
  PROVE  /\ md_queue' \in Seq(Message)
         /\ released' \in Nat /\ Len(md_queue') + released' <= QueueCapacity
         /\ visible' \in 0 .. Len(md_queue')
<1> USE QueueCapacityAssumption
<1>1. Len(md_queue) \in Nat /\ released \in Nat /\ visible \in 0 .. Len(md_queue)
  BY LenProperties DEF MdTypeOK
<1>2. /\ Append(md_queue, m) \in Seq(Message)
      /\ Len(Append(md_queue, m)) = Len(md_queue) + 1
  BY AppendProperties DEF MdTypeOK
<1> QED BY <1>1, <1>2 DEF MdTypeOK, try_push, Room

LEMMA ThrottledIInv ==
  ASSUME IInv, NEW kind \in {"tob", "depth"}, NEW s \in FeedSymbols, Throttled(kind, s)
  PROVE  IInv' /\ (ShortIntervals /\ ThrottledForCause => ThrottledForCause')
<1> DEFINE e == EntryOf(kind, s, "throttled")
<1>1. Adds(e)
  BY FedEntry DEF Throttled, Kinds, Fates
<1>2. Calls(e, s)
  BY <1>1 DEF Throttled, Calls, EntryOf, MessageOf, Passes
<1>3. MdTypeOK'
  BY DEF IInv, MdTypeOK, ClockTypeOK, Throttled, ring, publisher
<1>4. md_queue' = md_queue /\ UNCHANGED <<delivered, messages_published>> /\ e.fate = "throttled"
  BY DEF Throttled, ring, publisher, EntryOf
<1> HIDE DEF e
<1>5. IInv'
  BY <1>2, <1>3, <1>4, CallIInv
<1> QED BY <1>2, <1>5, CausesGrow

LEMMA PassedIInv ==
  ASSUME IInv, NEW kind \in {"tob", "depth"}, NEW s \in FeedSymbols, Passed(kind, s)
  PROVE  IInv' /\ (ShortIntervals /\ ThrottledForCause => ThrottledForCause')
<1> DEFINE e == EntryOf(kind, s, Fate)
<1>1. Adds(e) /\ MessageOf(kind, s) \in Message /\ e.msg = MessageOf(kind, s)
  BY FedEntry DEF Passed, Kinds, Fates, Fate, EntryOf
<1>2. Calls(e, s)
  <2>1. e.fate \in {"queued", "dropped"} /\ e.msg.kind # "trade"
    BY DEF EntryOf, MessageOf, Fate
  <2> QED BY <1>1, <2>1 DEF Passed, Calls, EntryOf, MessageOf, Passes
<1>3. MdTypeOK'
  <2>1. /\ DOMAIN last_publish_time' \subseteq FeedSymbols
        /\ \A x \in DOMAIN last_publish_time' : last_publish_time'[x] \in 0 .. MaxTime
    BY DEF IInv, MdTypeOK, ClockTypeOK, Passed, Stamp
  <2>2. /\ md_queue' \in Seq(Message)
        /\ released' \in Nat /\ Len(md_queue') + released' <= QueueCapacity
        /\ visible' \in 0 .. Len(md_queue')
    BY <1>1, PushTyped DEF IInv, Passed
  <2> QED BY <2>1, <2>2 DEF IInv, MdTypeOK, ClockTypeOK, Passed, publisher
<1>4. /\ UNCHANGED <<delivered, messages_published>>
      /\ md_queue' = IF e.fate = "queued" THEN Append(md_queue, e.msg) ELSE md_queue
  BY <1>1 DEF Passed, publisher, try_push, Fate, EntryOf
<1> HIDE DEF e
<1>5. IInv'
  BY <1>2, <1>3, <1>4, CallIInv
<1> QED BY <1>2, <1>5, CausesGrow

LEMMA on_tradeIInv ==
  ASSUME IInv, NEW s \in FeedSymbols, on_trade(s)
  PROVE  IInv' /\ (ShortIntervals /\ ThrottledForCause => ThrottledForCause')
<1> DEFINE e == EntryOf("trade", s, Fate)
<1>1. Adds(e) /\ MessageOf("trade", s) \in Message /\ e.msg = MessageOf("trade", s)
  BY FedEntry DEF on_trade, Kinds, Fates, Fate, EntryOf
<1>2. Calls(e, s)
  <2>1. e.fate \in {"queued", "dropped"} /\ e.msg.kind = "trade"
    BY DEF EntryOf, MessageOf, Fate
  <2> QED BY <1>1, <2>1 DEF on_trade, Calls, EntryOf, MessageOf, Passes, throttle
<1>3. MdTypeOK'
  <2>1. /\ md_queue' \in Seq(Message)
        /\ released' \in Nat /\ Len(md_queue') + released' <= QueueCapacity
        /\ visible' \in 0 .. Len(md_queue')
    BY <1>1, PushTyped DEF IInv, on_trade
  <2> QED BY <2>1 DEF IInv, MdTypeOK, ClockTypeOK, on_trade, throttle, publisher
<1>4. /\ UNCHANGED <<delivered, messages_published>>
      /\ md_queue' = IF e.fate = "queued" THEN Append(md_queue, e.msg) ELSE md_queue
  BY <1>1 DEF on_trade, publisher, try_push, Fate, EntryOf
<1> HIDE DEF e
<1>5. IInv'
  BY <1>2, <1>3, <1>4, CallIInv
<1> QED BY <1>2, <1>5, CausesGrow

(* Taking a message off the queue only moves the border between what is    *)
(* delivered and what is under way.                                        *)
LEMMA process_pendingIInv ==
  ASSUME IInv, process_pending
  PROVE  IInv' /\ (ThrottledForCause => ThrottledForCause')
<1>1. /\ md_queue \in Seq(Message) /\ delivered \in Seq(Message)
      /\ released \in Nat /\ visible \in 0 .. Len(md_queue) /\ visible > 0
      /\ Len(md_queue) \in Nat /\ md_queue # <<>>
  BY LenProperties, EmptySeq DEF IInv, MdTypeOK, process_pending
<1>2. /\ Head(md_queue) \in Message
      /\ md_queue' \in Seq(Message) /\ Len(md_queue') = Len(md_queue) - 1
      /\ delivered' \in Seq(Message) /\ Len(delivered') = Len(delivered) + 1
      /\ delivered' = delivered \o <<Head(md_queue)>>
      /\ md_queue = <<Head(md_queue)>> \o md_queue'
  BY <1>1, HeadTailProperties, AppendProperties, AppendIsConcat DEF process_pending
<1>3. MdTypeOK'
  BY <1>1, <1>2 DEF IInv, MdTypeOK, ClockTypeOK, process_pending, throttle
<1>4. Sent' = Sent
  <2>1. <<Head(md_queue)>> \in Seq(Message)
    BY <1>2
  <2>2. (delivered \o <<Head(md_queue)>>) \o md_queue'
          = delivered \o (<<Head(md_queue)>> \o md_queue')
    BY <1>1, <1>2, <2>1, ConcatAssociative
  <2> QED BY <1>2, <2>2, Zenon DEF Sent
<1>5. InFeedOrder'
  BY <1>2, <1>4 DEF IInv, InFeedOrder, WasQueued, process_pending
<1> QED BY <1>3, <1>5, QuietIInv DEF process_pending, throttle

(* The other steps change neither the log, the stamps nor the messages.    *)
LEMMA OtherIInv ==
  ASSUME IInv, \/ \E ns \in Intervals : set_throttle_interval_ns(ns)
               \/ ClockMoves \/ SeeReleased \/ SeePushed \/ UNCHANGED mdVars
  PROVE  IInv' /\ (ThrottledForCause => ThrottledForCause')
<1> USE DEF set_throttle_interval_ns, ClockMoves, SeeReleased, SeePushed, mdVars,
            throttle, ring, publisher
<1>1. UNCHANGED <<log, last_publish_time, md_queue, delivered, messages_published,
                  messages_throttled>>
  OBVIOUS
<1>2. now' \in 0 .. MaxTime
  <2>1. now \in 0 .. MaxTime /\ MaxTime \in Nat /\ TimeWrap \in Nat \ {0}
    BY MaxTimeAssumption, TimeWrapAssumption DEF IInv, MdTypeOK, ClockTypeOK
  <2>2. (now + 1) % TimeWrap \in Nat
    BY <2>1, DivMod
  <2> QED BY <2>1, <2>2 DEF advance, set_time, reset
<1>3. throttle_ns' \in Intervals \cup {0}
  BY DEF IInv, MdTypeOK
<1>4. /\ released' \in Nat /\ Len(md_queue') + released' <= QueueCapacity
      /\ visible' \in 0 .. Len(md_queue')
  <2>1. Len(md_queue) \in Nat
    BY LenProperties DEF IInv, MdTypeOK
  <2> QED BY <2>1, QueueCapacityAssumption DEF IInv, MdTypeOK
<1>5. MdTypeOK'
  BY <1>1, <1>2, <1>3, <1>4 DEF IInv, MdTypeOK, ClockTypeOK
<1>6. InFeedOrder'
  BY <1>1 DEF IInv, InFeedOrder, Sent, WasQueued
<1> QED BY <1>1, <1>5, <1>6, QuietIInv

LEMMA InitIInv == MdInit => IInv /\ ThrottledForCause
<1> SUFFICES ASSUME MdInit PROVE IInv /\ ThrottledForCause
  OBVIOUS
<1> USE MaxTimeAssumption, QueueCapacityAssumption, MaxUpdatesAssumption DEF MdInit
<1>1. DOMAIN log = {} /\ Len(log) = 0 /\ Len(md_queue) = 0 /\ Len(delivered) = 0
  OBVIOUS
<1>2. MdTypeOK
  BY <1>1 DEF MdTypeOK, ClockInit, ClockTypeOK
<1>3. LogTyped /\ StampsRemembered /\ TimeOrder /\ Spaced /\ ThrottledForCause
  BY <1>1 DEF LogTyped, StampsRemembered, TimeOrder, Spaced, ThrottledForCause
<1>4. InFeedOrder
  <2>1. DOMAIN Sent = {}
    BY DEF Sent
  <2> QED BY <1>1, <2>1 DEF InFeedOrder
<1> QED BY <1>2, <1>3, <1>4 DEF IInv

LEMMA NextIInv ==
  ASSUME IInv, [MdNext]_mdVars
  PROVE  IInv' /\ (ShortIntervals /\ ThrottledForCause => ThrottledForCause')
  BY ThrottledIInv, PassedIInv, on_tradeIInv, process_pendingIInv, OtherIInv DEF MdNext

LEMMA Inductive == MdSpec => []IInv
<1>1. MdInit => IInv
  BY InitIInv
<1>2. IInv /\ [MdNext]_mdVars => IInv'
  BY NextIInv
<1> QED BY <1>1, <1>2, PTL DEF MdSpec

-------------------------------------------------------------------------------
(* The queue never exceeds its capacity, however late the two threads see  *)
(* each other's progress, and every stamp is a time of the clock.          *)
THEOREM FeedTyped == MdSpec => []MdTypeOK
<1>1. IInv => MdTypeOK
  BY DEF IInv
<1> QED BY <1>1, Inductive, PTL

(* Subscribers get every update that found room in the queue once, in the  *)
(* order of the feed, across kinds and symbols.                            *)
THEOREM FeedInOrder == MdSpec => []InFeedOrder
<1>1. IInv => InFeedOrder
  BY DEF IInv
<1> QED BY <1>1, Inductive, PTL

(* Throttling keeps the updates of a symbol an interval apart unless the   *)
(* clock is set back, and throttles none without an update of the same     *)
(* symbol less than an interval earlier.                                   *)
THEOREM ThrottlingExact == ASSUME ShortIntervals PROVE MdSpec => []ThrottleExact
<1>1. MdInit => IInv /\ ThrottledForCause
  BY InitIInv
<1>2. IInv /\ ThrottledForCause /\ [MdNext]_mdVars => (IInv /\ ThrottledForCause)'
  BY NextIInv
<1>3. IInv /\ ThrottledForCause => ThrottleExact
  BY DEF IInv, ThrottleExact
<1> QED BY <1>1, <1>2, <1>3, PTL DEF MdSpec
===============================================================================
