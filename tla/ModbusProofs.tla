---------------------------- MODULE ModbusProofs ----------------------------
(***************************************************************************)
(* Proofs about ModbusCollector, for any devices, intervals and clocks,    *)
(* and about ModbusLink, for answers and buffers of any length.            *)
(*                                                                         *)
(* CollectorInv has a part for each theorem about the collector.           *)
(*   - The list of a device is a ring: slot i holds the newest sample of   *)
(*     the period with remainder i (ListsAreRight).                        *)
(*   - The halves of the public packet differ only while the UDP thread    *)
(*     holds the lock, and it does not while a record is made (PacketInv). *)
(*   - For each schedule, how far ahead it may be and how old its last     *)
(*     attempt, while the clock is right or behind and while it is ahead,  *)
(*     before and after its turn in the round; the round began at some     *)
(*     time t, when the clock was o ahead of real time (TimesInv).         *)
(*                                                                         *)
(* AnswersInOrder says nothing of what is still on its way, so it is not   *)
(* inductive.  LinkInv adds that                                           *)
(*   - nothing is on its way that the slave has not sent yet (SentPieces), *)
(*   - what the master has read was sent before what it has not            *)
(*     (ReadBefore),                                                       *)
(*   - what may still be delivered is newer than what was (NewerAnswers).  *)
(* A delivered answer was read to its last piece: the slave had done with  *)
(* it, and whatever is read later belongs to a later request.              *)
(*                                                                         *)
(* Both parts end with a count of the steps that are left, of a round of   *)
(* the collector (StepsToSleep) and of the master once it is to stop       *)
(* (StepsToStop), which every step of the thread makes smaller.            *)
(***************************************************************************)
EXTENDS ModbusCollector, ModbusLink, SequenceTheorems, TLAPS
-----------------------------------------------------------------------------
(* ModbusCollector.                                                        *)

Contexts == [next : Int, index : Slots, count : 0 .. MetricsListSize,
             list : [Slots -> SampleIds \cup {NoSample}]]

\* The collector has dealt with device d in this round, or with the end of
\* the period.
Seen(d) ==
  \/ collector \in {"publish", "average", "lock", "copied", "asleep"}
  \/ collector \in {"collect", "reading", "answer"} /\ d < device
Published == collector \in {"average", "lock", "copied", "asleep"}

CollectorTypes ==
  /\ devices \in Configurations /\ device \in DeviceIds
  /\ now \in 0 .. MaxTime /\ offset \in Int /\ time_now_millis \in Int
  /\ next_publish_time \in Int /\ published_at \in Int
  /\ collector \in {"loop", "collect", "reading", "answer", "publish",
                    "average", "lock", "copied", "asleep"}
  /\ collector \in {"lock", "copied"} => devices[device] = "oil"
  /\ context \in [DeviceIds -> Contexts]
  /\ time_sync_waits \in 0 .. TimeSyncWaitsMax
  /\ taken \in [DeviceIds -> Nat] /\ fresh \in [DeviceIds -> Nat]
  /\ read_at \in [DeviceIds -> Int]

\* One reading of a device in every round, one round in every tick.
ReadingsAreFew ==
  \A d \in DeviceIds : taken[d] <= now + (IF Seen(d) THEN 1 ELSE 0)

PacketInv ==
  /\ udp \in {"start", "receive", "lock", "updating", "set_time",
              "unlock", "exited"}
  /\ public_context \in {"live", "freed"} /\ time_synchronized \in BOOLEAN
  /\ public_mutex \in {"free", "collector", "udp"}
  /\ incoming \in [id : Nat, time_valid : BOOLEAN, long : BOOLEAN]
  /\ received \in Nat
  /\ public_packet \in [first : Nat, second : Nat]
  /\ collector = "copied" <=> public_mutex = "collector"
  /\ udp \in {"updating", "set_time", "unlock"} <=> public_mutex = "udp"
  /\ udp = "updating" => public_packet.first = incoming.id
  /\ udp # "updating" => public_packet.first = public_packet.second
  /\ udp = "exited" <=> public_context = "freed"
  /\ public_context = "live" =>
       /\ collector = "copied" => copied = public_packet.first
       /\ record.first = record.second

\* In slot i is the newest sample of a period that has its place, when n have
\* been taken, f of them in this period.
SlotIsRight(s, i, n, f) ==
  /\ s > n - f /\ s > n - MetricsListSize /\ s <= n
  /\ (s - (n - f) - 1) % MetricsListSize = i

ListIsRight(c, n, f) ==
  /\ f <= n
  /\ c.count = IF f < MetricsListSize THEN f ELSE MetricsListSize
  /\ c.index = f % MetricsListSize
  /\ \A i \in 0 .. c.count - 1 : SlotIsRight(c.list[i], i, n, f)

ListsAreRight ==
  \A d \in DeviceIds : ListIsRight(context[d], taken[d], fresh[d])

\* A device, or the end of the period, was last dealt with at time `last',
\* and is due again when the clock shows `next'.  There are n devices.  The
\* round began at t, when the clock was o ahead.  From the schedule to the
\* start of a round that keeps to it there is at most this time:
Longest(interval, n) == interval * Slack + interval + n

\* What is so before it has its turn in the round, and afterwards.
Awaited(next, last, interval, t, o, n) ==
  IF o > 0
  THEN next - o - last <= interval /\ t - last <= interval + n
  ELSE /\ t - last <= Longest(interval, n) + n
       /\ next - o - last <= Longest(interval, n) \/ t - last <= interval + n

Settled(next, last, interval, t, o, n) ==
  IF o > 0
  THEN next - o - last <= interval /\ t - last <= interval - 1
  ELSE /\ t - last <= Longest(interval, n) - 1
       /\ next - o - last <= Longest(interval, n)

\* The ticks that may have passed in this round.
Elapsed == CASE collector \in {"collect", "reading"} -> device - 1
             [] collector = "answer" -> device
             [] OTHER -> Len(devices)

DeviceInTime(d, t, o) ==
  IF Seen(d)
  THEN Settled(context[d].next, read_at[d], CollectInterval, t, o, Len(devices))
  ELSE Awaited(context[d].next, read_at[d], CollectInterval, t, o, Len(devices))

PeriodInTime(t, o) ==
  IF Published
  THEN Settled(next_publish_time, published_at, PublishInterval, t, o,
               Len(devices))
  ELSE Awaited(next_publish_time, published_at, PublishInterval, t, o,
               Len(devices))

RoundBegan(t, o) ==
  /\ o = offset \/ offset = 0
  /\ t \in 0 .. now
  /\ IF collector = "loop" THEN t = now
     ELSE time_now_millis = t + o /\ now - t <= Elapsed
  /\ collector \in {"reading", "answer"} => read_at[device] >= t
  /\ \A d \in DeviceIds : DeviceInTime(d, t, o)
  /\ PeriodInTime(t, o)

TimesInv ==
  /\ \A d \in DeviceIds : read_at[d] <= now
  /\ published_at <= now
  /\ \E t, o \in Int : RoundBegan(t, o)

CollectorInv == CollectorTypes /\ ReadingsAreFew /\ PacketInv /\ ListsAreRight
                  /\ record.samples \subseteq SampleIds /\ TimesInv

-----------------------------------------------------------------------------
(* Numbers.                                                                *)

LEMMA DivMod ==
  ASSUME NEW n \in Nat \ {0}, NEW a \in Int
  PROVE  /\ a \div n \in Int
         /\ a % n \in 0 .. n - 1
         /\ a = n * (a \div n) + (a % n)
  OBVIOUS

LEMMA MultiplesApart ==
  ASSUME NEW n \in Nat \ {0}, NEW d \in Int, NEW e \in Int, d > e
  PROVE  n * d >= n * e + n
  OBVIOUS

\* Two numbers with the same remainder are the same or far apart.
LEMMA ModUnique ==
  ASSUME NEW n \in Nat \ {0}, NEW a \in Int, NEW b \in Int,
         a % n = b % n, a - b < n, b - a < n
  PROVE  a = b
<1> DEFINE p == a \div n
           q == b \div n
           x == n * p
           y == n * q
           r == a % n
<1>1. p \in Int /\ q \in Int /\ r \in Int /\ a = x + r /\ b = y + r
  BY DivMod
<1>2. x \in Int /\ y \in Int
  BY <1>1
<1>3. p > q => x >= y + n
  BY <1>1, MultiplesApart
<1>4. q > p => y >= x + n
  BY <1>1, MultiplesApart
<1>5. p = q => x = y
  OBVIOUS
<1> HIDE DEF p, q, x, y, r
<1>6. ~(p > q) /\ ~(q > p)
  BY <1>1, <1>2, <1>3, <1>4
<1>7. p = q
  BY <1>1, <1>6
<1> QED
  BY <1>1, <1>5, <1>7

\* The remainder of a number between 0 and n is itself, or 0.
LEMMA ModOfSmall ==
  ASSUME NEW n \in Nat \ {0}, NEW a \in 0 .. n
  PROVE  a % n = IF a = n THEN 0 ELSE a
<1> DEFINE q == a \div n
           x == n * q
           r == a % n
<1>1. q \in Int /\ r \in 0 .. n - 1 /\ a = x + r /\ x \in Int
  BY DivMod
<1>2. q >= 2 => x >= n + n
  <2>1. q > 1 => n * q >= n * 1 + n
    BY <1>1, MultiplesApart
  <2> QED
    BY <1>1, <2>1
<1>3. q < 0 => 0 >= x + n
  <2>1. 0 > q => n * 0 >= n * q + n
    BY <1>1, MultiplesApart
  <2> QED
    BY <1>1, <2>1
<1>4. (q = 0 => x = 0) /\ (q = 1 => x = n)
  OBVIOUS
<1> HIDE DEF q, x, r
<1>5. q = 0 \/ q = 1
  BY <1>1, <1>2, <1>3
<1>6. r = IF a = n THEN 0 ELSE a
  BY <1>1, <1>4, <1>5
<1> QED
  BY <1>6 DEF r

LEMMA ModAddsOne ==
  ASSUME NEW n \in Nat \ {0}, NEW a \in Int
  PROVE  ((a % n) + 1) % n = (a + 1) % n
<1> DEFINE p == a \div n
           r == a % n
           q == (a + 1) \div n
           u == (a + 1) % n
           v == (r + 1) % n
           x == n * p
           y == n * q
<1>1. p \in Int /\ r \in 0 .. n - 1 /\ a = x + r /\ x \in Int
  BY DivMod
<1>2. q \in Int /\ u \in 0 .. n - 1 /\ a + 1 = y + u /\ y \in Int
  <2>1. \A b \in Int : /\ b \div n \in Int /\ b % n \in 0 .. n - 1
                       /\ b = n * (b \div n) + (b % n)
    BY DivMod
  <2>2. q \in Int /\ u \in 0 .. n - 1 /\ a + 1 = n * q + u
    BY <2>1
  <2> QED
    BY <2>2
<1>3. r + 1 \in 0 .. n
  BY <1>1
<1>4. v = IF r + 1 = n THEN 0 ELSE r + 1
  BY <1>3, ModOfSmall
<1>5. p >= q + 1 => x >= y + n
  BY <1>1, <1>2, MultiplesApart
<1>6. q >= p + 2 => y >= x + n + n
  <2>1. q > p + 1 => n * q >= n * (p + 1) + n
    BY <1>1, <1>2, MultiplesApart
  <2>2. n * (p + 1) = n * p + n
    BY <1>1
  <2> QED
    BY <1>1, <1>2, <2>1, <2>2
<1>7. (q = p => y = x) /\ (q = p + 1 => y = x + n)
  BY <1>1, <1>2
<1> HIDE DEF p, r, q, u, v, x, y
<1>8. q = p \/ q = p + 1
  BY <1>1, <1>2, <1>5, <1>6
<1>9. u = v
  BY <1>1, <1>2, <1>4, <1>7, <1>8
<1> QED
  BY <1>9 DEF u, v, r

LEMMA CollectorSizes ==
  /\ CollectInterval \in Nat \ {0} /\ PublishInterval \in Nat \ {0}
  /\ Slack \in Nat \ {0}
  /\ TimeSyncWaitsMax \in Nat /\ MaxTime \in Nat
  /\ MetricsListSize \in Nat \ {0} /\ MetricsListSize >= 2
<1>1. /\ CollectInterval \in Nat \ {0} /\ PublishInterval \in Nat \ {0}
      /\ Slack \in Nat \ {0}
      /\ TimeSyncWaitsMax \in Nat /\ MaxTime \in Nat
  BY IntervalsAssumption, CollectorBoundsAssumption
<1> DEFINE q == PublishInterval \div CollectInterval
           x == CollectInterval * q
           r == PublishInterval % CollectInterval
<1>2. /\ q \in Int /\ r \in 0 .. CollectInterval - 1
      /\ PublishInterval = x + r /\ x \in Int
  BY <1>1, DivMod
<1>3. q < 0 => 0 >= x + CollectInterval
  <2>1. 0 > q => CollectInterval * 0 >= CollectInterval * q + CollectInterval
    BY <1>1, <1>2, MultiplesApart
  <2> QED
    BY <1>1, <1>2, <2>1
<1> HIDE DEF q, x, r
<1>4. q >= 0
  BY <1>1, <1>2, <1>3
<1>5. q + 2 \in Nat \ {0} /\ q + 2 >= 2
  BY <1>2, <1>4
<1> QED
  BY <1>1, <1>5 DEF q, MetricsListSize

LEMMA IntervalFacts ==
  ASSUME NEW I \in Nat \ {0}
  PROVE  /\ I * Slack \in Nat /\ I * Slack >= 1
         /\ (Slack + 1) * I = I * Slack + I
<1>1. \A a, b \in Nat \ {0} :
        a * b \in Nat /\ a * b >= 1 /\ (b + 1) * a = a * b + a
  OBVIOUS
<1> QED
  BY <1>1, CollectorSizes

LEMMA DeviceFacts ==
  ASSUME devices \in Configurations
  PROVE  /\ Len(devices) \in Nat /\ Len(devices) >= 1
         /\ DeviceIds = 1 .. Len(devices) /\ 1 \in DeviceIds
         /\ \A d \in DeviceIds : devices[d] \in {"oil", "module", "gateway"}
<1>1. devices \in Seq({"oil", "module", "gateway"}) /\ devices # <<>>
  BY ConfigurationsAssumption
<1>2. Len(devices) \in Nat /\ Len(devices) # 0
  BY <1>1
<1>3. \A d \in 1 .. Len(devices) : devices[d] \in {"oil", "module", "gateway"}
  BY <1>1, ElementOfSeq
<1> QED
  BY <1>2, <1>3 DEF DeviceIds

-----------------------------------------------------------------------------
(* What each step does, as far as the invariants ask.                      *)

\* A device is done with in one of the loops.
Finishes ==
  /\ collector \in {"average", "copied"} /\ FinishDevice
  /\ time_sync_waits' \in 0 .. TimeSyncWaitsMax
  /\ UNCHANGED <<devices, now, offset, time_now_millis, next_publish_time,
                 taken, flagged, times>>

Attempts ==
  /\ collector \in {"reading", "answer"} /\ NextDevice("collect", "publish")
  /\ UNCHANGED <<devices, now, offset, time_now_millis, next_publish_time,
                 saving, times>>

\* A step of the UDP thread, for the other.
SetsTheClock ==
  /\ offset' \in {offset, 0}
  /\ UNCHANGED <<devices, now, collector, schedule, saving, samples, times>>

OilRowIsComing ==
  /\ \/ collector = "average" /\ devices[device] = "oil" /\ collector' = "lock"
     \/ collector = "lock" /\ collector' = "copied"
  /\ UNCHANGED <<devices, now, offset, schedule, time_sync_waits, record,
                 samples, times>>

LEMMA CollectorSteps ==
  ASSUME CollectorTypes, [CollectorNext]_collectorVars
  PROVE  \/ StartRound \/ SkipDevice \/ StartReading \/ KeepSample
         \/ FailReading \/ DoNotPublish \/ StartPublishing \/ Finishes
         \/ OilRowIsComing \/ SetsTheClock \/ Tick
<1>1. CASE Collect
  BY <1>1 DEF Collect, CollectOilSensor, CollectModule, CollectDemo3Gateway
<1>2. CASE PublishMetrics
  <2>1. CASE DoNotPublish \/ StartPublishing
    BY <2>1
  <2>2. CASE SaveGatewaySample \/ SaveModuleMetrics \/ SaveNothing
               \/ CopyRestAndSave
    <3>1. time_sync_waits' \in 0 .. TimeSyncWaitsMax
      BY <2>2 DEF SaveGatewaySample, SaveModuleMetrics, SaveNothing,
                  CopyRestAndSave, CollectorTypes, saving
    <3> QED
      BY <2>2, <3>1 DEF SaveGatewaySample, SaveModuleMetrics, SaveNothing,
                        CopyRestAndSave, Finishes, saving
  <2>3. CASE WaitForTimeSync
    <3>1. time_sync_waits' \in 0 .. TimeSyncWaitsMax
      BY <2>3, CollectorSizes DEF WaitForTimeSync, CollectorTypes
    <3> QED
      BY <2>3, <3>1 DEF WaitForTimeSync, OilIsReady, Finishes
  <2>4. CASE SaveOilMetrics
    BY <2>4 DEF SaveOilMetrics, OilIsReady, OilRowIsComing, saving
  <2>5. CASE LockPacket
    BY <2>5 DEF LockPacket, CopyFirstPart, OilRowIsComing
  <2> QED
    BY <1>2, <2>1, <2>2, <2>3, <2>4, <2>5 DEF PublishMetrics, SaveOil
<1>3. CASE BindSocket \/ FailToBind \/ Receive \/ UpdateFirstPart
             \/ UpdateTrainNo \/ KeepTime \/ SetTime \/ UdpUnlock
  BY <1>3 DEF BindSocket, FailToBind, Receive, UpdateFirstPart, UpdateTrainNo,
              KeepTime, SetTime, UdpUnlock, SetsTheClock
<1>4. CASE UNCHANGED collectorVars
  BY <1>4 DEF collectorVars, SetsTheClock
<1> QED
  BY <1>1, <1>2, <1>3, <1>4 DEF CollectorNext, HandlePacket

\* The devices never change.
LEMMA DevicesStay ==
  ASSUME CollectorTypes, [CollectorNext]_collectorVars
  PROVE  devices' = devices /\ DeviceIds' = DeviceIds
<1>1. devices' = devices
  BY CollectorSteps DEF StartRound, SkipDevice, StartReading, KeepSample,
     FailReading, DoNotPublish, StartPublishing, Finishes, OilRowIsComing,
     SetsTheClock, Tick
<1> QED
  BY <1>1 DEF DeviceIds

\* The loops over the devices.
LEMMA NextDeviceIs ==
  ASSUME CollectorTypes, NEW again, NEW after, NextDevice(again, after)
  PROVE  /\ device' \in DeviceIds
         /\ \/ device < Len(devices) /\ collector' = again
               /\ device' = device + 1
            \/ device = Len(devices) /\ collector' = after /\ device' = 1
<1>1. /\ Len(devices) \in Nat /\ Len(devices) >= 1
      /\ DeviceIds = 1 .. Len(devices) /\ device \in 1 .. Len(devices)
  BY DeviceFacts DEF CollectorTypes
<1> QED
  BY <1>1 DEF NextDevice

LEMMA WithSampleFields ==
  ASSUME NEW c \in Contexts, NEW s, NEW r, r = WithSample(c, s)
  PROVE  r =
           [next |-> c.next, index |-> (c.index + 1) % MetricsListSize,
            count |-> IF c.count < MetricsListSize THEN c.count + 1 ELSE c.count,
            list |-> [c.list EXCEPT ![c.index] = s]]
  BY DEF WithSample, Contexts

LEMMA WithSampleIs ==
  ASSUME NEW c \in Contexts, NEW s \in SampleIds
  PROVE  /\ WithSample(c, s) \in Contexts
         /\ WithSample(c, s).index = (c.index + 1) % MetricsListSize
         /\ WithSample(c, s).count = IF c.count < MetricsListSize
                                     THEN c.count + 1 ELSE c.count
         /\ WithSample(c, s).list = [c.list EXCEPT ![c.index] = s]
<1> DEFINE k == IF c.count < MetricsListSize THEN c.count + 1 ELSE c.count
           j == (c.index + 1) % MetricsListSize
           L == [c.list EXCEPT ![c.index] = s]
<1>1. c.index \in Int /\ c.count \in 0 .. MetricsListSize
  BY CollectorSizes DEF Contexts, Slots
<1>2. k \in 0 .. MetricsListSize
  BY <1>1, CollectorSizes
<1>3. j \in Slots
  <2>1. c.index + 1 \in Int
    BY <1>1
  <2> QED
    BY <2>1, DivMod, CollectorSizes DEF Slots
<1>4. L \in [Slots -> SampleIds \cup {NoSample}]
  BY DEF Contexts
<1>5. WithSample(c, s) = [next |-> c.next, index |-> j, count |-> k, list |-> L]
  BY WithSampleFields
<1>6. c.next \in Int
  BY DEF Contexts
<1> HIDE DEF k, j, L
<1>7. [next |-> c.next, index |-> j, count |-> k, list |-> L] \in Contexts
  BY <1>2, <1>3, <1>4, <1>6 DEF Contexts
<1> QED
  BY <1>5, <1>7 DEF k, j, L

LEMMA RescheduledIs ==
  ASSUME NEW c \in Contexts, time_now_millis \in Int
  PROVE  /\ Rescheduled(c) \in Contexts
         /\ Rescheduled(c).next = time_now_millis + CollectInterval
         /\ Rescheduled(c).index = c.index /\ Rescheduled(c).count = c.count
         /\ Rescheduled(c).list = c.list
<1>1. time_now_millis + CollectInterval \in Int
  BY CollectorSizes
<1> QED
  BY <1>1 DEF Rescheduled, Contexts

LEMMA EndOfPeriodIs ==
  ASSUME NEW c \in Contexts
  PROVE  /\ EndOfPeriod(c) \in Contexts
         /\ EndOfPeriod(c).next = c.next
         /\ EndOfPeriod(c).index = 0 /\ EndOfPeriod(c).count = 0
<1>1. 0 \in Slots /\ 0 \in 0 .. MetricsListSize
  BY CollectorSizes DEF Slots
<1> QED
  BY <1>1 DEF EndOfPeriod, Contexts

\* The number of a new sample is in range: the device had no turn yet.
LEMMA SampleIsNew ==
  ASSUME CollectorTypes, ReadingsAreFew, collector \in {"reading", "answer"}
  PROVE  taken[device] + 1 \in SampleIds /\ taken[device] <= now
<1>1. device \in DeviceIds /\ device \in Int /\ now \in 0 .. MaxTime
  BY DeviceFacts DEF CollectorTypes
<1>2. taken[device] \in Nat
  BY <1>1 DEF CollectorTypes
<1>3. ~Seen(device)
  BY <1>1 DEF Seen
<1>4. taken[device] <= now
  BY <1>1, <1>2, <1>3 DEF ReadingsAreFew
<1> QED
  BY <1>1, <1>2, <1>4, CollectorSizes DEF SampleIds

\* What becomes of the contexts.
LEMMA KeepSampleIs ==
  ASSUME CollectorTypes, ReadingsAreFew, KeepSample
  PROVE  /\ Attempts
         /\ context' \in [DeviceIds -> Contexts]
         /\ taken' \in [DeviceIds -> Nat] /\ fresh' \in [DeviceIds -> Nat]
         /\ \A d \in DeviceIds :
              d # device => /\ context'[d] = context[d]
                            /\ taken'[d] = taken[d] /\ fresh'[d] = fresh[d]
         /\ context'[device] =
              Rescheduled(WithSample(context[device], taken[device] + 1))
         /\ taken'[device] = taken[device] + 1
         /\ fresh'[device] = fresh[device] + 1
<1> DEFINE c == Rescheduled(WithSample(context[device], taken[device] + 1))
<1>1. device \in DeviceIds /\ context \in [DeviceIds -> Contexts]
      /\ taken \in [DeviceIds -> Nat] /\ fresh \in [DeviceIds -> Nat]
      /\ time_now_millis \in Int
  BY DEF CollectorTypes
<1>2. taken[device] + 1 \in SampleIds
  BY SampleIsNew DEF KeepSample
<1>3. context[device] \in Contexts
  BY <1>1
<1>4. c \in Contexts
  BY <1>1, <1>2, <1>3, WithSampleIs, RescheduledIs
<1>5. /\ context' = [context EXCEPT ![device] = c]
      /\ taken' = [taken EXCEPT ![device] = taken[device] + 1]
      /\ fresh' = [fresh EXCEPT ![device] = fresh[device] + 1]
      /\ Attempts
  BY DEF KeepSample, Attempts
<1> HIDE DEF c
<1>6. taken[device] + 1 \in Nat /\ fresh[device] + 1 \in Nat
  BY <1>1
<1>7. context' \in [DeviceIds -> Contexts]
  BY <1>1, <1>4, <1>5
<1>8. taken' \in [DeviceIds -> Nat] /\ fresh' \in [DeviceIds -> Nat]
  BY <1>1, <1>5, <1>6
<1>9. context'[device] = c /\ taken'[device] = taken[device] + 1
      /\ fresh'[device] = fresh[device] + 1
  BY <1>1, <1>5
<1>10. \A d \in DeviceIds :
         d # device => /\ context'[d] = context[d]
                       /\ taken'[d] = taken[d] /\ fresh'[d] = fresh[d]
  BY <1>1, <1>5
<1> QED
  BY <1>5, <1>7, <1>8, <1>9, <1>10 DEF c

LEMMA FailReadingIs ==
  ASSUME CollectorTypes, FailReading
  PROVE  /\ Attempts /\ UNCHANGED <<taken, fresh>>
         /\ context' \in [DeviceIds -> Contexts]
         /\ \A d \in DeviceIds : d # device => context'[d] = context[d]
         /\ context'[device] = Rescheduled(context[device])
<1>1. device \in DeviceIds /\ context \in [DeviceIds -> Contexts]
      /\ time_now_millis \in Int
  BY DEF CollectorTypes
<1>2. Rescheduled(context[device]) \in Contexts
  BY <1>1, RescheduledIs
<1> QED
  BY <1>1, <1>2 DEF FailReading, Attempts

LEMMA FinishesIs ==
  ASSUME CollectorTypes, Finishes
  PROVE  /\ context' \in [DeviceIds -> Contexts]
         /\ fresh' \in [DeviceIds -> Nat]
         /\ \A d \in DeviceIds : d # device => /\ context'[d] = context[d]
                                               /\ fresh'[d] = fresh[d]
         /\ context'[device] = EndOfPeriod(context[device])
         /\ fresh'[device] = 0
         /\ NextDevice("average", "asleep")
<1>1. device \in DeviceIds /\ context \in [DeviceIds -> Contexts]
      /\ fresh \in [DeviceIds -> Nat]
  BY DEF CollectorTypes
<1>2. EndOfPeriod(context[device]) \in Contexts
  BY <1>1, EndOfPeriodIs
<1> QED
  BY <1>1, <1>2 DEF Finishes, FinishDevice

-----------------------------------------------------------------------------
(* Types, and the readings of a round.                                     *)

LEMMA CollectorInitTypes ==
  ASSUME CollectorInit
  PROVE  CollectorTypes /\ ReadingsAreFew
<1>1. devices \in Configurations /\ offset \in Int
  BY OffsetsAssumption DEF CollectorInit
<1>2. device \in DeviceIds
  BY <1>1, DeviceFacts DEF CollectorInit
<1>3. 0 \in Slots /\ 0 \in 0 .. MetricsListSize
  BY CollectorSizes DEF Slots
<1>4. [i \in Slots |-> NoSample] \in [Slots -> SampleIds \cup {NoSample}]
  OBVIOUS
<1>5. [next |-> 0, index |-> 0, count |-> 0,
       list |-> [i \in Slots |-> NoSample]] \in Contexts
  BY <1>3, <1>4 DEF Contexts
<1>6. context \in [DeviceIds -> Contexts]
  BY <1>5 DEF CollectorInit
<1>7. now \in 0 .. MaxTime /\ time_sync_waits \in 0 .. TimeSyncWaitsMax
  BY CollectorSizes DEF CollectorInit
<1>8. CollectorTypes
  BY <1>1, <1>2, <1>6, <1>7 DEF CollectorTypes, CollectorInit
<1>9. \A d \in DeviceIds : taken[d] <= now
  BY DEF CollectorInit
<1>10. ReadingsAreFew
  BY <1>9 DEF ReadingsAreFew, CollectorInit, Seen
<1> QED
  BY <1>8, <1>10

LEMMA CollectorTypesNext ==
  ASSUME CollectorTypes, ReadingsAreFew, [CollectorNext]_collectorVars
  PROVE  CollectorTypes'
<1>1. devices' = devices /\ DeviceIds' = DeviceIds
  BY DevicesStay
<1>2. CASE StartRound
  <2>1. 1 \in DeviceIds /\ Clock \in Int
    BY DeviceFacts DEF CollectorTypes, Clock
  <2> QED
    BY <1>1, <1>2, <2>1 DEF StartRound, CollectorTypes, times, samples
<1>3. CASE SkipDevice
  <2>1. NextDevice("collect", "publish")
    BY <1>3 DEF SkipDevice
  <2> QED
    BY <1>1, <1>3, <2>1, NextDeviceIs
       DEF SkipDevice, CollectorTypes, times, samples, saving
<1>4. CASE StartReading
  <2>1. read_at' \in [DeviceIds -> Int]
    BY <1>4 DEF StartReading, CollectorTypes
  <2> QED
    BY <1>1, <1>4, <2>1
       DEF StartReading, CollectorTypes, schedule, samples, saving
<1>5. CASE KeepSample
  <2>1. NextDevice("collect", "publish")
    BY <1>5 DEF KeepSample
  <2>2. device' \in DeviceIds /\ collector' \in {"collect", "publish"}
    BY <2>1, NextDeviceIs
  <2>3. /\ Attempts /\ context' \in [DeviceIds -> Contexts]
        /\ taken' \in [DeviceIds -> Nat] /\ fresh' \in [DeviceIds -> Nat]
    BY <1>5, KeepSampleIs
  <2> QED
    BY <1>1, <2>2, <2>3 DEF Attempts, CollectorTypes, times, saving
<1>6. CASE FailReading
  <2>1. NextDevice("collect", "publish")
    BY <1>6 DEF FailReading
  <2>2. device' \in DeviceIds /\ collector' \in {"collect", "publish"}
    BY <2>1, NextDeviceIs
  <2>3. /\ Attempts /\ context' \in [DeviceIds -> Contexts]
        /\ UNCHANGED <<taken, fresh>>
    BY <1>6, FailReadingIs
  <2> QED
    BY <1>1, <2>2, <2>3 DEF Attempts, CollectorTypes, times, saving
<1>7. CASE DoNotPublish
  BY <1>1, <1>7 DEF DoNotPublish, CollectorTypes, schedule, samples, saving,
                    times
<1>8. CASE StartPublishing
  <2>1. 1 \in DeviceIds /\ time_now_millis + PublishInterval \in Int
    BY DeviceFacts, CollectorSizes DEF CollectorTypes
  <2> QED
    BY <1>1, <1>8, <2>1
       DEF StartPublishing, CollectorTypes, samples, saving
<1>9. CASE Finishes
  BY <1>1, <1>9, FinishesIs, NextDeviceIs DEF Finishes, CollectorTypes, times
<1>10. CASE OilRowIsComing
  BY <1>1, <1>10 DEF OilRowIsComing, CollectorTypes, schedule, samples, times
<1>11. CASE SetsTheClock
  BY <1>1, <1>11 DEF SetsTheClock, CollectorTypes, schedule, samples, saving,
                     times
<1>12. CASE Tick
  <2>1. now + 1 \in 0 .. MaxTime
    BY <1>12, CollectorSizes DEF Tick, CollectorTypes
  <2> QED
    BY <1>1, <1>12, <2>1 DEF Tick, CollectorTypes, schedule, samples, saving,
                             times
<1> QED
  BY <1>2, <1>3, <1>4, <1>5, <1>6, <1>7, <1>8, <1>9, <1>10, <1>11, <1>12,
     CollectorSteps

\* When the collector goes on, the device it leaves is the next one seen.
LEMMA SeenNext ==
  ASSUME CollectorTypes, NextDevice("collect", "publish"),
         collector \in {"collect", "reading", "answer"}, devices' = devices,
         NEW d \in DeviceIds
  PROVE  Seen(d)' <=> (Seen(d) \/ d = device)
<1>1. device \in Int /\ d \in Int /\ d <= Len(devices) /\ Len(devices) \in Int
  BY DeviceFacts DEF CollectorTypes
<1>2. Seen(d) <=> d < device
  BY DEF Seen
<1>3. CASE device < Len(devices) /\ collector' = "collect"
             /\ device' = device + 1
  <2>1. Seen(d)' <=> d < device + 1
    BY <1>3 DEF Seen
  <2> QED
    BY <1>1, <1>2, <2>1
<1>4. CASE device = Len(devices) /\ collector' = "publish" /\ device' = 1
  <2>1. Seen(d)'
    BY <1>4 DEF Seen
  <2> QED
    BY <1>1, <1>2, <1>4, <2>1
<1> QED
  BY <1>3, <1>4, NextDeviceIs

LEMMA ReadingsAreFewNext ==
  ASSUME CollectorTypes, ReadingsAreFew, [CollectorNext]_collectorVars
  PROVE  ReadingsAreFew'
<1>1. devices' = devices /\ DeviceIds' = DeviceIds
  BY DevicesStay
<1>2. now \in Int
  BY DEF CollectorTypes
<1> SUFFICES ASSUME NEW d \in DeviceIds
             PROVE  taken'[d] <= now' + (IF Seen(d)' THEN 1 ELSE 0)
  BY <1>1 DEF ReadingsAreFew
<1>3. taken[d] \in Int /\ taken[d] <= now + (IF Seen(d) THEN 1 ELSE 0)
  BY DEF ReadingsAreFew, CollectorTypes
<1>4. CASE taken' = taken /\ now' = now /\ (Seen(d) => Seen(d)')
  BY <1>2, <1>3, <1>4
<1>5. CASE StartRound
  <2>1. ~Seen(d)
    BY <1>5 DEF StartRound, Seen
  <2> QED
    BY <1>4, <1>5, <2>1 DEF StartRound, samples
<1>6. CASE SkipDevice
  <2>1. Seen(d) => Seen(d)'
    BY <1>1, <1>6, SeenNext DEF SkipDevice
  <2> QED
    BY <1>4, <1>6, <2>1 DEF SkipDevice, samples
<1>7. CASE StartReading
  <2>1. Seen(d) => Seen(d)'
    BY <1>7 DEF StartReading, Seen, schedule
  <2> QED
    BY <1>4, <1>7, <2>1 DEF StartReading, samples
<1>8. CASE KeepSample
  <2>1. Seen(d)' <=> (Seen(d) \/ d = device)
    BY <1>1, <1>8, SeenNext DEF KeepSample
  <2>2. now' = now /\ (d # device => taken'[d] = taken[d])
        /\ taken'[device] = taken[device] + 1
    BY <1>8, KeepSampleIs DEF Attempts
  <2>3. taken[device] \in Int /\ taken[device] <= now
    BY <1>8, SampleIsNew DEF KeepSample, CollectorTypes
  <2> QED
    BY <1>2, <1>3, <2>1, <2>2, <2>3
<1>9. CASE FailReading
  <2>1. Seen(d) => Seen(d)'
    BY <1>1, <1>9, SeenNext DEF FailReading
  <2> QED
    BY <1>4, <1>9, <2>1 DEF FailReading
<1>10. CASE DoNotPublish \/ StartPublishing
  <2>1. Seen(d)'
    BY <1>10 DEF DoNotPublish, StartPublishing, Seen
  <2> QED
    BY <1>4, <1>10, <2>1 DEF DoNotPublish, StartPublishing, samples
<1>11. CASE Finishes
  <2>1. Seen(d)'
    BY <1>11, FinishesIs, NextDeviceIs DEF Seen
  <2> QED
    BY <1>4, <1>11, <2>1 DEF Finishes
<1>12. CASE OilRowIsComing
  <2>1. Seen(d)'
    BY <1>12 DEF OilRowIsComing, Seen
  <2> QED
    BY <1>4, <1>12, <2>1 DEF OilRowIsComing, samples
<1>13. CASE SetsTheClock
  <2>1. Seen(d) => Seen(d)'
    BY <1>13 DEF SetsTheClock, Seen, schedule
  <2> QED
    BY <1>4, <1>13, <2>1 DEF SetsTheClock, samples
<1>14. CASE Tick
  <2>1. taken' = taken /\ now' = now + 1
    BY <1>14 DEF Tick, samples
  <2> QED
    BY <1>2, <1>3, <2>1
<1> QED
  BY <1>5, <1>6, <1>7, <1>8, <1>9, <1>10, <1>11, <1>12, <1>13, <1>14,
     CollectorSteps

-----------------------------------------------------------------------------
(* The public packet.                                                      *)

\* A step of the collector that leaves the packet and its lock alone.
LeavesThePacket ==
  /\ collector # "copied" /\ collector' # "copied"
  /\ UNCHANGED <<udp_thread, public, public_mutex>>
  /\ record' = record \/ record'.first = record'.second

LEMMA PacketSteps ==
  ASSUME CollectorTypes, [CollectorNext]_collectorVars
  PROVE  \/ LeavesThePacket \/ LockPacket \/ CopyRestAndSave \/ BindSocket
         \/ FailToBind \/ Receive \/ HandlePacket \/ UNCHANGED collectorVars
<1>1. CASE StartRound \/ StartReading \/ DoNotPublish \/ StartPublishing
             \/ SaveOilMetrics \/ Tick
  <2>1. CASE StartRound
    BY <2>1 DEF StartRound, LeavesThePacket, NoRecord
  <2>2. CASE StartReading \/ DoNotPublish
    BY <2>2 DEF StartReading, DoNotPublish, LeavesThePacket, saving
  <2>3. CASE StartPublishing
    BY <2>3 DEF StartPublishing, LeavesThePacket, saving
  <2>4. CASE SaveOilMetrics
    BY <2>4 DEF SaveOilMetrics, OilIsReady, LeavesThePacket, saving
  <2>5. CASE Tick
    BY <2>5 DEF Tick, LeavesThePacket, saving
  <2> QED
    BY <1>1, <2>1, <2>2, <2>3, <2>4, <2>5
<1>2. CASE SkipDevice \/ KeepSample \/ FailReading
  <2>1. NextDevice("collect", "publish") /\ collector # "copied"
        /\ UNCHANGED <<udp_thread, public, public_mutex, record>>
    BY <1>2 DEF SkipDevice, KeepSample, FailReading, saving
  <2>2. collector' # "copied"
    BY <2>1, NextDeviceIs
  <2> QED
    BY <2>1, <2>2 DEF LeavesThePacket
<1>3. CASE SaveGatewaySample \/ SaveModuleMetrics \/ SaveNothing
             \/ WaitForTimeSync
  <2>1. FinishDevice /\ collector # "copied"
        /\ UNCHANGED <<udp_thread, public, public_mutex>>
        /\ (record' = record \/ record'.first = record'.second)
    <3>1. CASE SaveGatewaySample
      BY <3>1 DEF SaveGatewaySample, SaveDemo3Sample
    <3>2. CASE SaveModuleMetrics
      BY <3>2 DEF SaveModuleMetrics, SaveCollectModuleMetrics
    <3>3. CASE SaveNothing
      BY <3>3 DEF SaveNothing, saving
    <3>4. CASE WaitForTimeSync
      BY <3>4 DEF WaitForTimeSync, OilIsReady
    <3> QED
      BY <1>3, <3>1, <3>2, <3>3, <3>4
  <2>2. collector' # "copied"
    BY <2>1, NextDeviceIs DEF FinishDevice
  <2> QED
    BY <2>1, <2>2 DEF LeavesThePacket
<1> QED
  BY <1>1, <1>2, <1>3
     DEF CollectorNext, Collect, PublishMetrics, SaveOil, CollectOilSensor,
         CollectModule, CollectDemo3Gateway

LEMMA PacketInit ==
  ASSUME CollectorInit
  PROVE  PacketInv
BY DEF CollectorInit, PacketInv, NoPacket, NothingReceived, NoRecord

LEMMA PacketNext ==
  ASSUME CollectorTypes, PacketInv, [CollectorNext]_collectorVars
  PROVE  PacketInv'
<1>1. CASE LeavesThePacket
  BY <1>1 DEF LeavesThePacket, PacketInv, udp_thread, public
<1>2. CASE LockPacket
  BY <1>2 DEF LockPacket, Lock, CopyFirstPart, PacketInv, udp_thread, public
<1>3. CASE CopyRestAndSave
  <2>1. collector' # "copied"
    BY <1>3, NextDeviceIs DEF CopyRestAndSave, FinishDevice
  <2>2. /\ collector = "copied" /\ public_mutex = "collector"
        /\ public_mutex' = "free" /\ UNCHANGED <<udp_thread, public>>
        /\ udp \notin {"updating", "set_time", "unlock"}
    BY <1>3 DEF CopyRestAndSave, Unlock, PacketInv
  <2>3. public_context = "live" => record'.first = record'.second
    BY <1>3, <2>2 DEF CopyRestAndSave, PacketInv
  <2> QED
    BY <2>1, <2>2, <2>3 DEF PacketInv, udp_thread, public
<1>4. CASE BindSocket
  BY <1>4 DEF BindSocket, PacketInv, public, saving
<1>5. CASE FailToBind
  BY <1>5 DEF FailToBind, PacketInv, saving
<1>6. CASE Receive
  <2>1. /\ received' \in Nat
        /\ incoming' \in [id : Nat, time_valid : BOOLEAN, long : BOOLEAN]
    BY <1>6 DEF Receive, PacketInv
  <2> QED
    BY <1>6, <2>1 DEF Receive, PacketInv, public, saving
<1>7. CASE UpdateFirstPart
  <2>1. /\ public_packet' \in [first : Nat, second : Nat]
        /\ public_packet'.first = incoming.id
    BY <1>7 DEF UpdateFirstPart, PacketInv
  <2> QED
    BY <1>7, <2>1 DEF UpdateFirstPart, Lock, PacketInv, saving
<1>8. CASE UpdateTrainNo
  <2>1. /\ public_packet' \in [first : Nat, second : Nat]
        /\ public_packet'.first = public_packet'.second
        /\ time_synchronized' \in BOOLEAN
    BY <1>8 DEF UpdateTrainNo, PacketInv
  <2> QED
    BY <1>8, <2>1 DEF UpdateTrainNo, PacketInv, saving
<1>9. CASE KeepTime
  BY <1>9 DEF KeepTime, PacketInv, public, saving
<1>10. CASE SetTime
  BY <1>10 DEF SetTime, AfterFailedSetTime, PacketInv, saving
<1>11. CASE UdpUnlock
  BY <1>11 DEF UdpUnlock, Unlock, NothingReceived, NoPacket, PacketInv,
               public, saving
<1>12. CASE UNCHANGED collectorVars
  BY <1>12 DEF collectorVars, PacketInv, udp_thread, public, saving
<1> QED
  BY <1>1, <1>2, <1>3, <1>4, <1>5, <1>6, <1>7, <1>8, <1>9, <1>10, <1>11,
     <1>12, PacketSteps DEF HandlePacket

-----------------------------------------------------------------------------
(* The list of a device is a ring.                                         *)

LEMMA ModOfLess ==
  ASSUME NEW n \in Nat \ {0}, NEW a \in Int
  PROVE  (a - n) % n = a % n
<1> DEFINE p == a \div n
           r == a % n
           q == (a - n) \div n
           u == (a - n) % n
           x == n * p
           y == n * q
<1>1. p \in Int /\ r \in 0 .. n - 1 /\ a = x + r /\ x \in Int
  BY DivMod
<1>2. q \in Int /\ u \in 0 .. n - 1 /\ a - n = y + u /\ y \in Int
  <2>1. \A b \in Int : /\ b \div n \in Int /\ b % n \in 0 .. n - 1
                       /\ b = n * (b \div n) + (b % n)
    BY DivMod
  <2>2. q \in Int /\ u \in 0 .. n - 1 /\ a - n = n * q + u
    BY <2>1
  <2> QED
    BY <2>2
<1>3. p >= q + 2 => x >= y + n + n
  <2>1. p > q + 1 => n * p >= n * (q + 1) + n
    BY <1>1, <1>2, MultiplesApart
  <2>2. n * (q + 1) = n * q + n
    BY <1>2
  <2> QED
    BY <1>1, <1>2, <2>1, <2>2
<1>4. q >= p + 1 => y >= x + n
  BY <1>1, <1>2, MultiplesApart
<1>5. (q = p => y = x) /\ (p = q + 1 => x = y + n)
  BY <1>1, <1>2
<1> HIDE DEF p, r, q, u, x, y
<1>6. p = q \/ p = q + 1
  BY <1>1, <1>2, <1>3, <1>4
<1>7. u = r
  BY <1>1, <1>2, <1>5, <1>6
<1> QED
  BY <1>7 DEF u, r

LEMMA ContextParts ==
  ASSUME NEW c \in Contexts
  PROVE  /\ c.index \in Int /\ c.index \in Slots
         /\ c.count \in 0 .. MetricsListSize /\ c.count \in Int
         /\ \A i \in Slots : c.list[i] \in SampleIds \cup {NoSample}
                             /\ c.list[i] \in Int
<1>1. c.index \in Slots /\ c.count \in 0 .. MetricsListSize
      /\ c.list \in [Slots -> SampleIds \cup {NoSample}]
  BY DEF Contexts
<1>2. SampleIds \cup {NoSample} \subseteq Int
  BY CollectorSizes DEF SampleIds, NoSample
<1> QED
  BY <1>1, <1>2, CollectorSizes DEF Slots

\* A sample joins the list, in place of the oldest when it is full.
LEMMA SampleAdded ==
  ASSUME NEW c \in Contexts, NEW n \in Nat, NEW f \in Nat,
         ListIsRight(c, n, f), n + 1 \in SampleIds
  PROVE  ListIsRight(WithSample(c, n + 1), n + 1, f + 1)
<1> DEFINE w == WithSample(c, n + 1)
           M == MetricsListSize
<1>1. /\ w.index = (c.index + 1) % M
      /\ w.count = IF c.count < M THEN c.count + 1 ELSE c.count
      /\ w.list = [c.list EXCEPT ![c.index] = n + 1]
  BY WithSampleIs
<1>2. M \in Nat \ {0}
  BY CollectorSizes
<1>3. /\ f <= n /\ c.count = IF f < M THEN f ELSE M
      /\ c.index = f % M
      /\ \A i \in 0 .. c.count - 1 : SlotIsRight(c.list[i], i, n, f)
  BY DEF ListIsRight
<1>4. c.index \in Slots /\ c.list \in [Slots -> SampleIds \cup {NoSample}]
  BY DEF Contexts
<1> HIDE DEF w, M
<1>5. w.index = (f + 1) % M
  <2>1. \A a \in Int : ((a % M) + 1) % M = (a + 1) % M
    BY <1>2, ModAddsOne
  <2> QED
    BY <1>1, <1>3, <2>1
<1>6. w.count = IF f + 1 < M THEN f + 1 ELSE M
  BY <1>1, <1>2, <1>3
<1>7. ASSUME NEW i \in 0 .. w.count - 1
      PROVE  SlotIsRight(w.list[i], i, n + 1, f + 1)
  <2>1. i \in Slots /\ i \in Int
    BY <1>2, <1>6 DEF Slots, M
  <2>2. CASE i = c.index
    <3>1. w.list[i] = n + 1
      BY <1>1, <1>4, <2>2
    <3>2. ((n + 1) - ((n + 1) - (f + 1)) - 1) = f
      OBVIOUS
    <3>3. ((n + 1) - ((n + 1) - (f + 1)) - 1) % M = i
      BY <1>3, <2>2, <3>2
    <3>4. /\ n + 1 > (n + 1) - (f + 1) /\ n + 1 > (n + 1) - M
          /\ n + 1 <= n + 1
      BY <1>2
    <3> QED
      BY <3>1, <3>3, <3>4 DEF SlotIsRight, M
  <2>3. CASE i # c.index
    <3> DEFINE s == c.list[i]
    <3>1. w.list[i] = s
      BY <1>1, <1>4, <2>1, <2>3
    <3>2. i \in 0 .. c.count - 1
      <4>1. f < M => c.index = f
        BY <1>2, <1>3, ModOfSmall
      <4> QED
        BY <1>2, <1>3, <1>6, <2>1, <2>3, <4>1
    <3>3. /\ s > n - f /\ s > n - M /\ s <= n
          /\ (s - (n - f) - 1) % M = i
      BY <1>3, <3>2 DEF SlotIsRight, M
    <3>4. s \in Int
      BY <2>1, ContextParts
    <3> HIDE DEF s
    <3>5. s # (n + 1) - M
      <4>1. SUFFICES ASSUME s = (n + 1) - M
                     PROVE  FALSE
        OBVIOUS
      <4>2. s - (n - f) - 1 = f - M
        BY <1>2, <4>1
      <4>3. (f - M) % M = f % M
        <5>1. \A a \in Int : (a - M) % M = a % M
          BY <1>2, ModOfLess
        <5> QED
          BY <5>1
      <4> QED
        BY <1>3, <2>3, <3>3, <4>2, <4>3
    <3>6. /\ s > (n + 1) - (f + 1) /\ s > (n + 1) - M /\ s <= n + 1
          /\ s - ((n + 1) - (f + 1)) - 1 = s - (n - f) - 1
      BY <1>2, <3>3, <3>4, <3>5
    <3> QED
      BY <3>1, <3>3, <3>6 DEF SlotIsRight, M
  <2> QED
    BY <2>2, <2>3
<1>8. f + 1 <= n + 1
  BY <1>3
<1> QED
  BY <1>5, <1>6, <1>7, <1>8 DEF ListIsRight, w, M

\* What the slots hold, up to the count.
LEMMA CountedIs ==
  ASSUME NEW c \in Contexts, NEW n \in Nat, NEW f \in Nat,
         ListIsRight(c, n, f), n <= MaxTime + 1
  PROVE  Counted(c) = {s \in SampleIds : s <= n /\ s > n - f
                                         /\ s > n - MetricsListSize}
<1> DEFINE M == MetricsListSize
<1>1. M \in Nat \ {0} /\ MaxTime \in Nat /\ SampleIds = 1 .. MaxTime + 1
  BY CollectorSizes DEF SampleIds
<1>2. /\ f <= n /\ c.count = IF f < M THEN f ELSE M
      /\ \A i \in 0 .. c.count - 1 : SlotIsRight(c.list[i], i, n, f)
  BY DEF ListIsRight
<1>3. \A i \in 0 .. c.count - 1 : i \in Slots /\ i \in Int
  BY <1>1, ContextParts DEF Slots
<1>4. \A i \in 0 .. c.count - 1 :
        /\ c.list[i] \in Int
        /\ c.list[i] > n - f /\ c.list[i] > n - M /\ c.list[i] <= n
        /\ (c.list[i] - (n - f) - 1) % M = i
  BY <1>2, <1>3, ContextParts DEF SlotIsRight
<1> HIDE DEF M
<1>5. ASSUME NEW i \in 0 .. c.count - 1
      PROVE  /\ c.list[i] \in SampleIds /\ c.list[i] <= n
             /\ c.list[i] > n - f /\ c.list[i] > n - M
  <2> DEFINE s == c.list[i]
  <2>1. s \in Int /\ s > n - f /\ s > n - M /\ s <= n
    BY <1>4
  <2> HIDE DEF s
  <2>2. s \in 1 .. MaxTime + 1
    BY <1>1, <1>2, <2>1
  <2> QED
    BY <1>1, <2>1, <2>2 DEF s
<1>6. ASSUME NEW s \in SampleIds, s <= n, s > n - f, s > n - M
      PROVE  LET i == (s - (n - f) - 1) % M
             IN  i \in 0 .. c.count - 1 /\ c.list[i] = s
  <2> DEFINE a == s - (n - f) - 1
             i == a % M
             e == c.list[i]
             b == e - (n - f) - 1
  <2>1. s \in Int /\ a \in Int /\ a >= 0 /\ a < f
    BY <1>1, <1>6
  <2>2. i \in 0 .. M - 1
    BY <1>1, <2>1, DivMod
  <2>3. f < M => i = a
    <3>1. \A x \in 0 .. M : x % M = IF x = M THEN 0 ELSE x
      BY <1>1, ModOfSmall
    <3>2. f < M => a \in 0 .. M /\ a # M
      <4> HIDE DEF a
      <4> QED
        BY <1>1, <2>1
    <3> HIDE DEF a
    <3> QED
      BY <3>1, <3>2
  <2>4. i \in 0 .. c.count - 1
    <3> HIDE DEF a, i
    <3> QED
      BY <1>1, <1>2, <2>1, <2>2, <2>3
  <2>5. e \in Int /\ e > n - f /\ e > n - M /\ e <= n /\ b % M = i
    BY <1>4, <2>4
  <2>6. b \in Int /\ a - b < M /\ b - a < M
    <3> HIDE DEF e
    <3> QED
      BY <1>1, <1>6, <2>1, <2>5
  <2>7. a = b
    <3> HIDE DEF a, b
    <3> QED
      BY <1>1, <2>1, <2>5, <2>6, ModUnique
  <2>8. e = s
    <3> HIDE DEF e
    <3> QED
      BY <2>1, <2>5, <2>7
  <2> QED
    BY <2>4, <2>8
<1>7. \A s : s \in Counted(c) <=> \E i \in 0 .. c.count - 1 : s = c.list[i]
  BY DEF Counted
<1>8. \A s : s \in Counted(c) =>
               s \in SampleIds /\ s <= n /\ s > n - f /\ s > n - M
  BY <1>5, <1>7
<1>9. \A s \in SampleIds : s <= n /\ s > n - f /\ s > n - M =>
                             s \in Counted(c)
  BY <1>6, <1>7
<1> QED
  BY <1>8, <1>9 DEF M

\* The slot before the index holds the last sample.
LEMMA LatestIs ==
  ASSUME NEW c \in Contexts, NEW n \in Nat, NEW f \in Nat,
         ListIsRight(c, n, f), f > 0
  PROVE  c.count > 0 /\ c.list[LatestIndex(c)] = n
<1> DEFINE M == MetricsListSize
           i == (f - 1) % M
<1>1. M \in Nat \ {0} /\ M >= 2
  BY CollectorSizes
<1>2. /\ f <= n /\ c.count = IF f < M THEN f ELSE M
      /\ c.index = f % M
      /\ \A j \in 0 .. c.count - 1 : SlotIsRight(c.list[j], j, n, f)
  BY DEF ListIsRight
<1>3. i \in 0 .. M - 1
  BY <1>1, DivMod
<1>4. (i + 1) % M = c.index
  <2>1. \A a \in Int : ((a % M) + 1) % M = (a + 1) % M
    BY <1>1, ModAddsOne
  <2>2. (i + 1) % M = ((f - 1) + 1) % M
    BY <2>1
  <2>3. (f - 1) + 1 = f
    OBVIOUS
  <2> QED
    BY <1>2, <2>2, <2>3
<1>5. f < M => i = f - 1
  <2>1. \A x \in 0 .. M : x % M = IF x = M THEN 0 ELSE x
    BY <1>1, ModOfSmall
  <2>2. f < M => f - 1 \in 0 .. M /\ f - 1 # M
    BY <1>1
  <2> QED
    BY <2>1, <2>2
<1> HIDE DEF i
<1>6. (i + 1) % M = IF i + 1 = M THEN 0 ELSE i + 1
  <2>1. i + 1 \in 0 .. M
    BY <1>1, <1>3
  <2> QED
    BY <1>1, <2>1, ModOfSmall
<1>7. LatestIndex(c) = i
  BY <1>1, <1>3, <1>4, <1>6 DEF LatestIndex
<1>8. i \in 0 .. c.count - 1
  BY <1>1, <1>2, <1>3, <1>5
<1> DEFINE e == c.list[i]
<1>9. /\ e > n - f /\ e > n - M /\ e <= n /\ (e - (n - f) - 1) % M = i
  BY <1>2, <1>8 DEF SlotIsRight
<1>10. e \in Int
  BY <1>1, <1>3, ContextParts DEF Slots
<1> HIDE DEF M, e
<1>11. e - (n - f) - 1 = f - 1
  <2> DEFINE b == e - (n - f) - 1
             a == f - 1
  <2>1. a \in Int /\ b \in Int /\ a - b < M /\ b - a < M
    BY <1>1, <1>2, <1>9, <1>10
  <2>2. a % M = b % M
    BY <1>9 DEF i
  <2> HIDE DEF a, b
  <2>3. a = b
    BY <1>1, <2>1, <2>2, ModUnique
  <2> QED
    BY <2>3 DEF a, b
<1>12. e = n
  BY <1>10, <1>11
<1> QED
  BY <1>1, <1>2, <1>7, <1>12 DEF e, M

LEMMA ListsInit ==
  ASSUME CollectorInit
  PROVE  ListsAreRight
<1>1. 0 % MetricsListSize = 0
  BY CollectorSizes, ModOfSmall
<1>2. \A d \in DeviceIds : context[d].count = 0 /\ context[d].index = 0
                           /\ taken[d] = 0 /\ fresh[d] = 0
  BY DEF CollectorInit
<1> QED
  BY <1>1, <1>2, CollectorSizes DEF ListsAreRight, ListIsRight

LEMMA ListsNext ==
  ASSUME CollectorTypes, ReadingsAreFew, ListsAreRight,
         [CollectorNext]_collectorVars
  PROVE  ListsAreRight'
<1>1. DeviceIds' = DeviceIds
  BY DevicesStay
<1> SUFFICES ASSUME NEW d \in DeviceIds
             PROVE  ListIsRight(context'[d], taken'[d], fresh'[d])
  BY <1>1 DEF ListsAreRight
<1>2. /\ ListIsRight(context[d], taken[d], fresh[d])
      /\ context[d] \in Contexts /\ taken[d] \in Nat /\ fresh[d] \in Nat
      /\ time_now_millis \in Int
  BY DEF ListsAreRight, CollectorTypes
<1>3. CASE UNCHANGED <<context, taken, fresh>>
  BY <1>2, <1>3
<1>4. CASE KeepSample
  <2>1. CASE d # device
    BY <1>2, <1>4, <2>1, KeepSampleIs
  <2>2. CASE d = device
    <3> DEFINE w == WithSample(context[d], taken[d] + 1)
    <3>1. taken[d] + 1 \in SampleIds
      BY <1>4, <2>2, SampleIsNew DEF KeepSample
    <3>2. w \in Contexts /\ ListIsRight(w, taken[d] + 1, fresh[d] + 1)
      BY <1>2, <3>1, SampleAdded, WithSampleIs
    <3>3. /\ context'[d] = Rescheduled(w) /\ taken'[d] = taken[d] + 1
          /\ fresh'[d] = fresh[d] + 1
      BY <1>4, <2>2, KeepSampleIs
    <3> HIDE DEF w
    <3>4. /\ Rescheduled(w).index = w.index /\ Rescheduled(w).count = w.count
          /\ Rescheduled(w).list = w.list
      BY <1>2, <3>2, RescheduledIs
    <3> QED
      BY <3>2, <3>3, <3>4 DEF ListIsRight
  <2> QED
    BY <2>1, <2>2
<1>5. CASE FailReading
  <2>1. taken' = taken /\ fresh' = fresh
    BY <1>5, FailReadingIs
  <2>2. CASE d # device
    BY <1>2, <1>5, <2>1, <2>2, FailReadingIs
  <2>3. CASE d = device
    <3>1. context'[d] = Rescheduled(context[d])
      BY <1>5, <2>3, FailReadingIs
    <3>2. /\ context'[d].index = context[d].index
          /\ context'[d].count = context[d].count
          /\ context'[d].list = context[d].list
      BY <1>2, <3>1, RescheduledIs
    <3> QED
      BY <1>2, <2>1, <3>2 DEF ListIsRight
  <2> QED
    BY <2>2, <2>3
<1>6. CASE Finishes
  <2>1. taken' = taken
    BY <1>6 DEF Finishes
  <2>2. CASE d # device
    BY <1>2, <1>6, <2>1, <2>2, FinishesIs
  <2>3. CASE d = device
    <3>1. context'[d] = EndOfPeriod(context[d]) /\ fresh'[d] = 0
      BY <1>6, <2>3, FinishesIs
    <3>2. context'[d].index = 0 /\ context'[d].count = 0
      BY <1>2, <3>1, EndOfPeriodIs
    <3>3. 0 % MetricsListSize = 0
      BY CollectorSizes, ModOfSmall
    <3> QED
      BY <1>2, <2>1, <3>1, <3>2, <3>3, CollectorSizes DEF ListIsRight
  <2> QED
    BY <2>2, <2>3
<1>7. CASE StartRound \/ SkipDevice \/ StartReading \/ DoNotPublish
             \/ StartPublishing \/ OilRowIsComing \/ SetsTheClock \/ Tick
  BY <1>3, <1>7
     DEF StartRound, SkipDevice, StartReading, DoNotPublish, StartPublishing,
         OilRowIsComing, SetsTheClock, Tick, samples, schedule
<1> QED
  BY <1>4, <1>5, <1>6, <1>7, CollectorSteps

\* What a record of the device that is being saved has to hold.
LEMMA SavedIsExpected ==
  ASSUME CollectorTypes, ReadingsAreFew, ListsAreRight
  PROVE  LET c == context[device]
         IN  /\ devices[device] # "gateway" => Average(c) = Expected(device)
             /\ devices[device] = "gateway" =>
                  Expected(device) =
                    IF c.count > 0 THEN {c.list[LatestIndex(c)]} ELSE {}
<1> DEFINE c == context[device]
           n == taken[device]
           f == fresh[device]
<1>1. /\ device \in DeviceIds /\ c \in Contexts /\ n \in Nat /\ f \in Nat
      /\ ListIsRight(c, n, f) /\ now \in 0 .. MaxTime
  BY DEF CollectorTypes, ListsAreRight
<1>2. n <= MaxTime + 1
  <2>1. n <= now + (IF Seen(device) THEN 1 ELSE 0)
    BY <1>1 DEF ReadingsAreFew
  <2> HIDE DEF n
  <2> QED
    BY <1>1, <2>1, CollectorSizes
<1>3. ASSUME devices[device] # "gateway"
      PROVE  Average(c) = Expected(device)
  <2>1. Counted(c) = {s \in SampleIds : s <= n /\ s > n - f
                                        /\ s > n - MetricsListSize}
    BY <1>1, <1>2, CountedIs
  <2> QED
    BY <1>3, <2>1 DEF Average, Expected
<1>4. ASSUME devices[device] = "gateway"
      PROVE  Expected(device) =
               IF c.count > 0 THEN {c.list[LatestIndex(c)]} ELSE {}
  <2>1. Expected(device) = {s \in SampleIds : s <= n /\ s > n - f /\ s > n - 1}
    BY <1>4 DEF Expected
  <2>2. f > 0 => c.count > 0 /\ c.list[LatestIndex(c)] = n
    BY <1>1, LatestIs
  <2>3. f <= n /\ (f = 0 => c.count = 0)
    BY <1>1, CollectorSizes DEF ListIsRight
  <2>4. SampleIds = 1 .. MaxTime + 1 /\ MaxTime \in Nat
    BY CollectorSizes DEF SampleIds
  <2> HIDE DEF c, n, f
  <2>5. \A s \in SampleIds : (s <= n /\ s > n - f /\ s > n - 1)
                               <=> (f > 0 /\ s = n)
    BY <1>1, <2>4
  <2>6. f > 0 => n \in SampleIds
    BY <1>1, <1>2, <2>3, <2>4
  <2>7. Expected(device) = IF f > 0 THEN {n} ELSE {}
    BY <2>1, <2>5, <2>6
  <2> QED
    BY <1>1, <2>2, <2>3, <2>7
<1> QED
  BY <1>3, <1>4

LEMMA RecordNext ==
  ASSUME CollectorTypes, ReadingsAreFew, ListsAreRight,
         [CollectorNext]_collectorVars, record' \notin {record, NoRecord}
  PROVE  record'.device = device /\ record'.samples = Expected(device)
<1>1. SaveGatewaySample \/ SaveModuleMetrics \/ CopyRestAndSave
  <2>1. CASE Collect
    BY <2>1 DEF Collect, StartRound, SkipDevice, StartReading,
       CollectOilSensor, CollectModule, CollectDemo3Gateway, KeepSample,
       FailReading, saving
  <2>2. CASE DoNotPublish \/ StartPublishing \/ SaveNothing
    BY <2>2 DEF DoNotPublish, StartPublishing, SaveNothing, saving
  <2>3. CASE WaitForTimeSync \/ SaveOilMetrics \/ LockPacket
    BY <2>3 DEF WaitForTimeSync, SaveOilMetrics, LockPacket, CopyFirstPart,
                saving
  <2>4. CASE BindSocket \/ FailToBind \/ Receive \/ HandlePacket \/ Tick
    BY <2>4 DEF BindSocket, FailToBind, Receive, HandlePacket, Tick,
       UpdateFirstPart, UpdateTrainNo, KeepTime, SetTime, UdpUnlock, saving
  <2>5. CASE UNCHANGED collectorVars
    BY <2>5 DEF collectorVars, saving
  <2> QED
    BY <2>1, <2>2, <2>3, <2>4, <2>5 DEF CollectorNext, PublishMetrics, SaveOil
<1>2. CASE SaveGatewaySample
  BY <1>2, SavedIsExpected DEF SaveGatewaySample, SaveDemo3Sample
<1>3. CASE SaveModuleMetrics
  BY <1>3, SavedIsExpected DEF SaveModuleMetrics, SaveCollectModuleMetrics
<1>4. CASE CopyRestAndSave
  <2>1. devices[device] = "oil"
    BY <1>4 DEF CopyRestAndSave, CollectorTypes
  <2> QED
    BY <1>4, <2>1, SavedIsExpected DEF CopyRestAndSave
<1> QED
  BY <1>1, <1>2, <1>3, <1>4

LEMMA RecordTypesNext ==
  ASSUME CollectorTypes, ReadingsAreFew, ListsAreRight,
         record.samples \subseteq SampleIds, [CollectorNext]_collectorVars
  PROVE  record'.samples \subseteq SampleIds
<1>1. NoRecord.samples = {}
  BY DEF NoRecord
<1>2. Expected(device) \subseteq SampleIds
  BY DEF Expected
<1> QED
  BY <1>1, <1>2, RecordNext

-----------------------------------------------------------------------------
(* Times.  The arithmetic of a round first.                                *)

LEMMA LongestIs ==
  ASSUME NEW I \in Nat \ {0}, NEW n \in Nat
  PROVE  \E k \in Nat \ {0} : I * Slack = k /\ Longest(I, n) = k + I + n
<1>1. I * Slack \in Nat \ {0}
  BY IntervalFacts
<1> QED
  BY <1>1 DEF Longest

\* Tried later is no worse.
LEMMA Later ==
  ASSUME NEW I \in Nat \ {0}, NEW n \in Nat, NEW next \in Int, NEW last \in Int,
         NEW t \in Int, NEW o \in Int, NEW now2 \in Int, last <= now2,
         Awaited(next, last, I, t, o, n)
  PROVE  Awaited(next, now2, I, t, o, n)
<1>1. PICK k \in Nat : Longest(I, n) = k
  BY LongestIs
<1> QED
  BY <1>1 DEF Awaited

\* It is not due, and not too long from now.
LEMMA NotDueIsSettled ==
  ASSUME NEW I \in Nat \ {0}, NEW n \in Nat, NEW next \in Int, NEW last \in Int,
         NEW t \in Int, NEW o \in Int,
         Awaited(next, last, I, t, o, n),
         ~(t + o >= next), ~(next - (t + o) > I * Slack)
  PROVE  Settled(next, last, I, t, o, n)
<1>1. PICK k \in Nat \ {0} : I * Slack = k /\ Longest(I, n) = k + I + n
  BY LongestIs
<1>2. ~(next - (t + o) > k)
  BY <1>1
<1> QED
  BY <1>1, <1>2 DEF Awaited, Settled

\* It has just been dealt with.
LEMMA DoneIsSettled ==
  ASSUME NEW I \in Nat \ {0}, NEW n \in Nat, NEW last \in Int,
         NEW t \in Int, NEW o \in Int, last >= t
  PROVE  Settled(t + o + I, last, I, t, o, n)
<1>1. PICK k \in Nat \ {0} : I * Slack = k /\ Longest(I, n) = k + I + n
  BY LongestIs
<1> QED
  BY <1>1 DEF Settled

\* The next round begins after at most n readings and the sleep.
LEMMA SettledIsAwaited ==
  ASSUME NEW I \in Nat \ {0}, NEW n \in Nat, NEW next \in Int, NEW last \in Int,
         NEW t \in Int, NEW o \in Int, NEW t2 \in Int, t2 <= t + n + 1,
         Settled(next, last, I, t, o, n)
  PROVE  Awaited(next, last, I, t2, o, n)
<1>1. PICK k \in Nat \ {0} : I * Slack = k /\ Longest(I, n) = k + I + n
  BY LongestIs
<1> QED
  BY <1>1 DEF Awaited, Settled

\* The clock was set since the last round.
LEMMA AwaitedAtNewTime ==
  ASSUME NEW I \in Nat \ {0}, NEW n \in Nat, NEW next \in Int, NEW last \in Int,
         NEW t \in Int, NEW o \in Int, Awaited(next, last, I, t, o, n)
  PROVE  Awaited(next, last, I, t, 0, n)
<1>1. PICK k \in Nat \ {0} : I * Slack = k /\ Longest(I, n) = k + I + n
  BY LongestIs
<1> QED
  BY <1>1 DEF Awaited

LEMMA TimesInit ==
  ASSUME CollectorInit
  PROVE  TimesInv
<1>1. /\ CollectorTypes /\ Len(devices) \in Nat
      /\ CollectInterval \in Nat \ {0} /\ PublishInterval \in Nat \ {0}
  BY CollectorInitTypes, CollectorSizes, DeviceFacts DEF CollectorTypes
<1>2. ASSUME NEW I \in Nat \ {0}
      PROVE  Awaited(0, 0, I, 0, offset, Len(devices))
  <2>1. PICK k \in Nat \ {0} : I * Slack = k
                               /\ Longest(I, Len(devices)) = k + I + Len(devices)
    BY <1>1, LongestIs
  <2>2. offset \in Int
    BY <1>1 DEF CollectorTypes
  <2> QED
    BY <1>1, <2>1, <2>2 DEF Awaited
<1>3. \A d \in DeviceIds : DeviceInTime(d, 0, offset)
  BY <1>1, <1>2 DEF CollectorInit, DeviceInTime, Seen
<1>4. PeriodInTime(0, offset)
  BY <1>1, <1>2 DEF CollectorInit, PeriodInTime, Published
<1>5. RoundBegan(0, offset) /\ offset \in Int
  BY <1>1, <1>3, <1>4 DEF CollectorInit, RoundBegan, CollectorTypes
<1>6. (\A d \in DeviceIds : read_at[d] <= now) /\ published_at <= now
  BY DEF CollectorInit
<1> QED
  BY <1>5, <1>6 DEF TimesInv

\* The device the collector leaves, and the ticks it may have taken.
LEMMA NextDeviceInTime ==
  ASSUME CollectorTypes, NextDevice("collect", "publish"),
         collector \in {"collect", "reading", "answer"},
         NEW t \in Int, NEW o \in Int, RoundBegan(t, o),
         UNCHANGED <<devices, now, offset, time_now_millis, next_publish_time,
                     times>>,
         \A d \in DeviceIds : d # device => context'[d] = context[d],
         Settled(context'[device].next, read_at[device], CollectInterval, t, o,
                 Len(devices))
  PROVE  RoundBegan(t, o)'
<1>1. /\ devices' = devices /\ DeviceIds' = DeviceIds /\ now' = now
      /\ offset' = offset /\ time_now_millis' = time_now_millis
      /\ read_at' = read_at /\ published_at' = published_at
      /\ next_publish_time' = next_publish_time
  BY DEF times, DeviceIds
<1>2. /\ device \in 1 .. Len(devices) /\ Len(devices) \in Nat /\ now \in Int
  BY DeviceFacts DEF CollectorTypes
<1>3. collector' \in {"collect", "publish"} /\ Elapsed' = device
  <2>1. CASE collector' = "collect" /\ device' = device + 1
    BY <1>2, <2>1 DEF Elapsed
  <2>2. CASE device = Len(devices) /\ collector' = "publish"
    BY <1>1, <2>2 DEF Elapsed
  <2> QED
    BY <2>1, <2>2, NextDeviceIs
<1>4. Elapsed \in {device - 1, device}
  BY DEF Elapsed
<1>5. ASSUME NEW d \in DeviceIds
      PROVE  DeviceInTime(d, t, o)'
  <2>1. Seen(d)' <=> (Seen(d) \/ d = device)
    BY <1>1, SeenNext
  <2>2. DeviceInTime(d, t, o)
    BY DEF RoundBegan
  <2>3. CASE d = device
    BY <1>1, <2>1, <2>3 DEF DeviceInTime
  <2>4. CASE d # device
    BY <1>1, <2>1, <2>2, <2>4 DEF DeviceInTime
  <2> QED
    BY <2>3, <2>4
<1>6. PeriodInTime(t, o)'
  <2>1. PeriodInTime(t, o) /\ ~Published
    BY DEF RoundBegan, Published
  <2>2. ~Published'
    BY <1>3 DEF Published
  <2> QED
    BY <1>1, <2>1, <2>2 DEF PeriodInTime
<1>7. now' - t <= Elapsed' /\ time_now_millis' = t + o
  BY <1>1, <1>2, <1>3, <1>4 DEF RoundBegan
<1> QED
  BY <1>1, <1>3, <1>5, <1>6, <1>7 DEF RoundBegan

\* A step that leaves the times, the place in the round and the clock.
LEMMA SameTimes ==
  ASSUME CollectorTypes, NEW t \in Int, NEW o \in Int, RoundBegan(t, o),
         UNCHANGED <<devices, now, time_now_millis, next_publish_time, times>>,
         offset' = offset \/ offset' = 0,
         \A d \in DeviceIds : context'[d].next = context[d].next,
         \/ collector' = collector /\ device' = device
         \/ {collector, collector'} \subseteq
              {"average", "lock", "copied", "asleep"}
  PROVE  RoundBegan(t, o)'
<1>1. /\ devices' = devices /\ DeviceIds' = DeviceIds /\ now' = now
      /\ time_now_millis' = time_now_millis
      /\ read_at' = read_at /\ published_at' = published_at
      /\ next_publish_time' = next_publish_time
  BY DEF times, DeviceIds
<1>2. /\ Elapsed' = Elapsed /\ Published' = Published
      /\ \A d \in DeviceIds : Seen(d)' = Seen(d)
  BY <1>1 DEF Elapsed, Published, Seen
<1>3. /\ collector' = "loop" <=> collector = "loop"
      /\ collector' \in {"reading", "answer"} =>
           collector \in {"reading", "answer"} /\ device' = device
  OBVIOUS
<1>4. \A d \in DeviceIds : DeviceInTime(d, t, o)'
  BY <1>1, <1>2 DEF RoundBegan, DeviceInTime
<1>5. PeriodInTime(t, o)'
  BY <1>1, <1>2 DEF RoundBegan, PeriodInTime
<1> QED
  BY <1>1, <1>2, <1>3, <1>4, <1>5 DEF RoundBegan

LEMMA StartRoundInTime ==
  ASSUME CollectorTypes, StartRound, NEW t \in Int, NEW o \in Int,
         RoundBegan(t, o)
  PROVE  RoundBegan(t, offset)'
<1>1. /\ devices' = devices /\ DeviceIds' = DeviceIds /\ now' = now
      /\ offset' = offset /\ time_now_millis' = now + offset
      /\ read_at' = read_at /\ published_at' = published_at
      /\ next_publish_time' = next_publish_time /\ context' = context
      /\ collector = "loop" /\ collector' = "collect" /\ device' = 1
  BY DEF StartRound, times, DeviceIds, Clock
<1>2. t = now /\ t \in 0 .. now /\ now \in Int /\ (o = offset \/ offset = 0)
  BY <1>1 DEF RoundBegan, CollectorTypes
<1>3. /\ CollectInterval \in Nat \ {0} /\ PublishInterval \in Nat \ {0}
      /\ Len(devices) \in Nat
  BY CollectorSizes, DeviceFacts DEF CollectorTypes
<1>4. ASSUME NEW d \in DeviceIds
      PROVE  DeviceInTime(d, t, offset)'
  <2>1. Awaited(context[d].next, read_at[d], CollectInterval, t, o,
                Len(devices))
    BY <1>1 DEF RoundBegan, DeviceInTime, Seen
  <2>2. context[d].next \in Int /\ read_at[d] \in Int
    BY DEF CollectorTypes, Contexts
  <2>3. Awaited(context[d].next, read_at[d], CollectInterval, t, offset,
                Len(devices))
    BY <1>2, <1>3, <2>1, <2>2, AwaitedAtNewTime
  <2>4. ~Seen(d)'
    BY <1>1, DeviceFacts DEF Seen, CollectorTypes
  <2> QED
    BY <1>1, <2>3, <2>4 DEF DeviceInTime
<1>5. PeriodInTime(t, offset)'
  <2>1. Awaited(next_publish_time, published_at, PublishInterval, t, o,
                Len(devices))
    BY <1>1 DEF RoundBegan, PeriodInTime, Published
  <2>2. next_publish_time \in Int /\ published_at \in Int
    BY DEF CollectorTypes
  <2>3. Awaited(next_publish_time, published_at, PublishInterval, t, offset,
                Len(devices))
    BY <1>2, <1>3, <2>1, <2>2, AwaitedAtNewTime
  <2>4. ~Published'
    BY <1>1 DEF Published
  <2> QED
    BY <1>1, <2>3, <2>4 DEF PeriodInTime
<1>6. Elapsed' = 0
  BY <1>1 DEF Elapsed
<1>7. now' - t <= Elapsed' /\ time_now_millis' = t + offset
  BY <1>1, <1>2, <1>6
<1> QED
  BY <1>1, <1>2, <1>4, <1>5, <1>7 DEF RoundBegan

LEMMA StartReadingInTime ==
  ASSUME CollectorTypes, StartReading, NEW t \in Int, NEW o \in Int,
         RoundBegan(t, o), \A d \in DeviceIds : read_at[d] <= now
  PROVE  RoundBegan(t, o)'
<1>1. /\ devices' = devices /\ DeviceIds' = DeviceIds /\ now' = now
      /\ offset' = offset /\ time_now_millis' = time_now_millis
      /\ published_at' = published_at /\ device' = device
      /\ next_publish_time' = next_publish_time /\ context' = context
      /\ collector = "collect" /\ collector' = "reading"
  BY DEF StartReading, DeviceIds, schedule
<1>2. /\ device \in DeviceIds /\ device \in Int /\ now \in Int
      /\ read_at \in [DeviceIds -> Int]
  BY DeviceFacts DEF CollectorTypes
<1>3. /\ read_at'[device] = now
      /\ \A d \in DeviceIds : d # device => read_at'[d] = read_at[d]
  BY <1>2 DEF StartReading
<1>4. /\ CollectInterval \in Nat \ {0} /\ Len(devices) \in Nat
  BY CollectorSizes, DeviceFacts DEF CollectorTypes
<1>5. Elapsed' = Elapsed
  BY <1>1 DEF Elapsed
<1>6. ASSUME NEW d \in DeviceIds
      PROVE  DeviceInTime(d, t, o)'
  <2>1. Seen(d)' = Seen(d) /\ DeviceInTime(d, t, o)
    BY <1>1 DEF Seen, RoundBegan
  <2>2. CASE d # device
    BY <1>1, <1>3, <2>1, <2>2 DEF DeviceInTime
  <2>3. CASE d = device
    <3>1. ~Seen(d)
      BY <1>1, <1>2, <2>3 DEF Seen
    <3>2. Awaited(context[d].next, read_at[d], CollectInterval, t, o,
                  Len(devices))
      BY <2>1, <3>1 DEF DeviceInTime
    <3>3. context[d].next \in Int /\ read_at[d] \in Int /\ read_at[d] <= now
      BY DEF CollectorTypes, Contexts
    <3>4. Awaited(context[d].next, now, CollectInterval, t, o, Len(devices))
      BY <1>2, <1>4, <3>2, <3>3, Later
    <3> QED
      BY <1>1, <1>3, <2>1, <2>3, <3>1, <3>4 DEF DeviceInTime
  <2> QED
    BY <2>2, <2>3
<1>7. PeriodInTime(t, o)'
  <2>1. PeriodInTime(t, o) /\ ~Published /\ ~Published'
    BY <1>1 DEF RoundBegan, Published
  <2> QED
    BY <1>1, <2>1 DEF PeriodInTime
<1>8. t \in 0 .. now /\ now - t <= Elapsed /\ time_now_millis = t + o
      /\ (o = offset \/ offset = 0)
  BY <1>1 DEF RoundBegan
<1>9. read_at'[device] >= t
  BY <1>2, <1>3, <1>8
<1> QED
  BY <1>1, <1>5, <1>6, <1>7, <1>8, <1>9 DEF RoundBegan

LEMMA PublishingInTime ==
  ASSUME CollectorTypes, DoNotPublish \/ StartPublishing,
         NEW t \in Int, NEW o \in Int, RoundBegan(t, o)
  PROVE  RoundBegan(t, o)'
<1>1. /\ devices' = devices /\ DeviceIds' = DeviceIds /\ now' = now
      /\ offset' = offset /\ time_now_millis' = time_now_millis
      /\ read_at' = read_at /\ context' = context
      /\ collector = "publish" /\ collector' \in {"asleep", "average"}
  BY DEF DoNotPublish, StartPublishing, DeviceIds, schedule, times
<1>2. /\ PublishInterval \in Nat \ {0} /\ Len(devices) \in Nat
      /\ next_publish_time \in Int /\ published_at \in Int /\ now \in Int
  BY CollectorSizes, DeviceFacts DEF CollectorTypes
<1>3. /\ t \in 0 .. now /\ now - t <= Elapsed /\ time_now_millis = t + o
      /\ (o = offset \/ offset = 0)
  BY <1>1 DEF RoundBegan
<1>4. Elapsed' = Elapsed /\ Published' /\ ~Published
      /\ \A d \in DeviceIds : Seen(d)' /\ Seen(d)
  BY <1>1 DEF Elapsed, Published, Seen
<1>5. \A d \in DeviceIds : DeviceInTime(d, t, o)'
  BY <1>1, <1>4 DEF RoundBegan, DeviceInTime
<1>6. Settled(next_publish_time', published_at', PublishInterval, t, o,
              Len(devices))
  <2>1. CASE DoNotPublish
    <3>1. Awaited(next_publish_time, published_at, PublishInterval, t, o,
                  Len(devices))
      BY <1>4 DEF RoundBegan, PeriodInTime
    <3>2. /\ ~(t + o >= next_publish_time)
          /\ ~(next_publish_time - (t + o) > PublishInterval * Slack)
      BY <1>3, <2>1 DEF DoNotPublish, Due
    <3>3. next_publish_time' = next_publish_time /\ published_at' = published_at
      BY <2>1 DEF DoNotPublish, schedule, times
    <3> QED
      BY <1>2, <3>1, <3>2, <3>3, NotDueIsSettled
  <2>2. CASE StartPublishing
    <3>1. next_publish_time' = t + o + PublishInterval /\ published_at' = now
      BY <1>3, <2>2 DEF StartPublishing
    <3>2. now >= t
      BY <1>2, <1>3
    <3> QED
      BY <1>2, <3>1, <3>2, DoneIsSettled
  <2> QED
    BY <2>1, <2>2
<1>7. PeriodInTime(t, o)'
  BY <1>1, <1>4, <1>6 DEF PeriodInTime
<1> QED
  BY <1>1, <1>3, <1>4, <1>5, <1>7 DEF RoundBegan

LEMMA SkipDeviceInTime ==
  ASSUME CollectorTypes, SkipDevice, NEW t \in Int, NEW o \in Int,
         RoundBegan(t, o)
  PROVE  RoundBegan(t, o)'
<1>1. /\ CollectInterval \in Nat \ {0} /\ Len(devices) \in Nat
      /\ device \in DeviceIds /\ device \in Int
      /\ context[device].next \in Int /\ read_at[device] \in Int
  BY CollectorSizes, DeviceFacts DEF CollectorTypes, Contexts
<1>2. /\ collector = "collect" /\ NextDevice("collect", "publish")
      /\ context' = context
      /\ UNCHANGED <<devices, now, offset, time_now_millis, next_publish_time,
                     times>>
  BY DEF SkipDevice
<1>3. ~Seen(device)
  BY <1>1, <1>2 DEF Seen
<1>4. Awaited(context[device].next, read_at[device], CollectInterval, t, o,
              Len(devices))
  BY <1>1, <1>3 DEF RoundBegan, DeviceInTime
<1>5. time_now_millis = t + o
  BY <1>2 DEF RoundBegan
<1>6. /\ ~(t + o >= context[device].next)
      /\ ~(context[device].next - (t + o) > CollectInterval * Slack)
  BY <1>5 DEF SkipDevice, Due
<1>7. Settled(context[device].next, read_at[device], CollectInterval, t, o,
              Len(devices))
  BY <1>1, <1>4, <1>6, NotDueIsSettled
<1> QED
  BY <1>2, <1>7, NextDeviceInTime

LEMMA AttemptInTime ==
  ASSUME CollectorTypes, ReadingsAreFew, KeepSample \/ FailReading,
         NEW t \in Int, NEW o \in Int, RoundBegan(t, o)
  PROVE  RoundBegan(t, o)'
<1>1. /\ CollectInterval \in Nat \ {0} /\ Len(devices) \in Nat
      /\ device \in DeviceIds /\ read_at[device] \in Int
      /\ context[device] \in Contexts /\ time_now_millis \in Int
  BY CollectorSizes, DeviceFacts DEF CollectorTypes
<1>2. /\ collector \in {"reading", "answer"}
      /\ NextDevice("collect", "publish")
      /\ UNCHANGED <<devices, now, offset, time_now_millis, next_publish_time,
                     times>>
  BY DEF KeepSample, FailReading
<1>3. \A d \in DeviceIds : d # device => context'[d] = context[d]
  BY KeepSampleIs, FailReadingIs
<1>4. context'[device].next = time_now_millis + CollectInterval
  <2>1. CASE KeepSample
    <3>1. taken[device] + 1 \in SampleIds
      BY <1>2, SampleIsNew
    <3> DEFINE w == WithSample(context[device], taken[device] + 1)
    <3>2. w \in Contexts
      BY <1>1, <3>1, WithSampleIs
    <3>3. context'[device] = Rescheduled(w)
      BY <2>1, KeepSampleIs
    <3> QED
      BY <1>1, <3>2, <3>3, RescheduledIs
  <2>2. CASE FailReading
    BY <1>1, <2>2, FailReadingIs, RescheduledIs
  <2> QED
    BY <2>1, <2>2
<1>5. time_now_millis = t + o /\ read_at[device] >= t
  BY <1>2 DEF RoundBegan
<1>6. Settled(context'[device].next, read_at[device], CollectInterval, t, o,
              Len(devices))
  BY <1>1, <1>4, <1>5, DoneIsSettled
<1> QED
  BY <1>2, <1>3, <1>6, NextDeviceInTime

LEMMA TickInTime ==
  ASSUME CollectorTypes, Tick, NEW t \in Int, NEW o \in Int, RoundBegan(t, o),
         NEW t2 \in Int, t2 = now + 1
  PROVE  RoundBegan(t, o)' \/ RoundBegan(t2, o)'
<1>1. /\ devices' = devices /\ DeviceIds' = DeviceIds /\ now' = now + 1
      /\ offset' = offset /\ time_now_millis' = time_now_millis
      /\ read_at' = read_at /\ context' = context /\ device' = device
      /\ published_at' = published_at
      /\ next_publish_time' = next_publish_time
  BY DEF Tick, DeviceIds, schedule, times
<1>2. /\ PublishInterval \in Nat \ {0} /\ CollectInterval \in Nat \ {0}
      /\ Len(devices) \in Nat /\ device \in DeviceIds
      /\ device \in 1 .. Len(devices)
      /\ next_publish_time \in Int /\ published_at \in Int /\ now \in Nat
  BY CollectorSizes, DeviceFacts DEF CollectorTypes
<1>3. t \in 0 .. now /\ (o = offset \/ offset = 0)
  BY DEF RoundBegan
<1>4. CASE collector = "reading" /\ collector' = "answer"
  <2>1. Elapsed' = device /\ Elapsed = device - 1
    BY <1>1, <1>4 DEF Elapsed
  <2>2. now - t <= Elapsed /\ time_now_millis = t + o /\ read_at[device] >= t
    BY <1>4 DEF RoundBegan
  <2>3. now' - t <= Elapsed' /\ t \in 0 .. now'
    BY <1>1, <1>2, <1>3, <2>1, <2>2
  <2>4. \A d \in DeviceIds : DeviceInTime(d, t, o)'
    BY <1>1, <1>4 DEF RoundBegan, DeviceInTime, Seen
  <2>5. PeriodInTime(t, o)'
    BY <1>1, <1>4 DEF RoundBegan, PeriodInTime, Published
  <2> QED
    BY <1>1, <1>3, <1>4, <2>2, <2>3, <2>4, <2>5 DEF RoundBegan
<1>5. CASE collector = "asleep" /\ collector' = "loop"
  <2>1. Elapsed = Len(devices)
    BY <1>5 DEF Elapsed
  <2>2. now - t <= Len(devices)
    BY <1>5, <2>1 DEF RoundBegan
  <2>3. t2 <= t + Len(devices) + 1
    BY <1>2, <1>3, <2>2
  <2>4. ASSUME NEW d \in DeviceIds
        PROVE  DeviceInTime(d, t2, o)'
    <3>1. Settled(context[d].next, read_at[d], CollectInterval, t, o,
                  Len(devices))
      BY <1>5 DEF RoundBegan, DeviceInTime, Seen
    <3>2. context[d].next \in Int /\ read_at[d] \in Int
      BY DEF CollectorTypes, Contexts
    <3>3. Awaited(context[d].next, read_at[d], CollectInterval, t2, o,
                  Len(devices))
      BY <1>2, <2>3, <3>1, <3>2, SettledIsAwaited
    <3>4. ~Seen(d)'
      BY <1>5 DEF Seen
    <3> QED
      BY <1>1, <3>3, <3>4 DEF DeviceInTime
  <2>5. PeriodInTime(t2, o)'
    <3>1. Settled(next_publish_time, published_at, PublishInterval, t, o,
                  Len(devices))
      BY <1>5 DEF RoundBegan, PeriodInTime, Published
    <3>2. Awaited(next_publish_time, published_at, PublishInterval, t2, o,
                  Len(devices))
      BY <1>2, <2>3, <3>1, SettledIsAwaited
    <3>3. ~Published'
      BY <1>5 DEF Published
    <3> QED
      BY <1>1, <3>2, <3>3 DEF PeriodInTime
  <2>6. t2 \in 0 .. now' /\ t2 = now'
    BY <1>1, <1>2
  <2> QED
    BY <1>1, <1>3, <1>5, <2>4, <2>5, <2>6 DEF RoundBegan
<1> QED
  BY <1>4, <1>5 DEF Tick

LEMMA TimesNext ==
  ASSUME CollectorTypes, ReadingsAreFew, TimesInv,
         [CollectorNext]_collectorVars
  PROVE  TimesInv'
<1>1. DeviceIds' = DeviceIds /\ now \in Int /\ read_at \in [DeviceIds -> Int]
      /\ published_at \in Int /\ offset \in Int
  BY DevicesStay DEF CollectorTypes
<1>2. PICK t, o \in Int : RoundBegan(t, o)
  BY DEF TimesInv
<1>3. (\A d \in DeviceIds : read_at[d] <= now) /\ published_at <= now
  BY DEF TimesInv
<1>4. CASE StartRound
  <2>1. RoundBegan(t, offset)'
    BY <1>2, <1>4, StartRoundInTime
  <2> QED
    BY <1>1, <1>3, <1>4, <2>1 DEF StartRound, times, TimesInv
<1>5. CASE SkipDevice
  <2>1. RoundBegan(t, o)'
    BY <1>2, <1>5, SkipDeviceInTime
  <2> QED
    BY <1>1, <1>3, <1>5, <2>1 DEF SkipDevice, times, TimesInv
<1>6. CASE StartReading
  <2>1. RoundBegan(t, o)'
    BY <1>2, <1>3, <1>6, StartReadingInTime
  <2>2. \A d \in DeviceIds : read_at'[d] <= now
    BY <1>1, <1>3, <1>6 DEF StartReading
  <2> QED
    BY <1>1, <1>3, <1>6, <2>1, <2>2 DEF StartReading, TimesInv
<1>7. CASE KeepSample \/ FailReading
  <2>1. RoundBegan(t, o)'
    BY <1>2, <1>7, AttemptInTime
  <2> QED
    BY <1>1, <1>3, <1>7, <2>1 DEF KeepSample, FailReading, times, TimesInv
<1>8. CASE DoNotPublish \/ StartPublishing
  <2>1. RoundBegan(t, o)'
    BY <1>2, <1>8, PublishingInTime
  <2>2. read_at' = read_at /\ now' = now /\ published_at' \in {published_at, now}
    BY <1>8 DEF DoNotPublish, StartPublishing, times
  <2> QED
    BY <1>1, <1>3, <2>1, <2>2 DEF TimesInv
<1>9. CASE Finishes
  <2>1. ASSUME NEW d \in DeviceIds
        PROVE  context'[d].next = context[d].next
    <3>1. context[device] \in Contexts
      BY DEF CollectorTypes
    <3> QED
      BY <1>9, <3>1, FinishesIs, EndOfPeriodIs
  <2>2. {collector, collector'} \subseteq {"average", "lock", "copied", "asleep"}
    BY <1>9, FinishesIs, NextDeviceIs DEF Finishes
  <2>3. UNCHANGED <<devices, now, offset, time_now_millis, next_publish_time,
                    times>>
    BY <1>9 DEF Finishes
  <2>4. RoundBegan(t, o)'
    BY <1>2, <2>1, <2>2, <2>3, SameTimes
  <2> QED
    BY <1>1, <1>3, <2>3, <2>4 DEF times, TimesInv
<1>10. CASE OilRowIsComing \/ SetsTheClock
  <2>1. /\ UNCHANGED <<devices, now, time_now_millis, next_publish_time, times,
                       context, device>>
        /\ offset' = offset \/ offset' = 0
        /\ \/ collector' = collector /\ device' = device
           \/ {collector, collector'} \subseteq
                {"average", "lock", "copied", "asleep"}
    BY <1>10 DEF OilRowIsComing, SetsTheClock, schedule
  <2>2. RoundBegan(t, o)'
    BY <1>2, <2>1, SameTimes
  <2> QED
    BY <1>1, <1>3, <2>1, <2>2 DEF times, TimesInv
<1>11. CASE Tick
  <2>1. \E t2 \in Int : RoundBegan(t2, o)'
    <3>1. PICK t2 \in Int : t2 = now + 1
      BY <1>1
    <3>2. RoundBegan(t, o)' \/ RoundBegan(t2, o)'
      BY <1>2, <1>11, <3>1, TickInTime
    <3> QED
      BY <1>2, <3>2
  <2>2. now' = now + 1 /\ read_at' = read_at /\ published_at' = published_at
    BY <1>11 DEF Tick, times
  <2>3. \A d \in DeviceIds : read_at'[d] <= now'
    BY <1>1, <1>3, <2>2
  <2> QED
    BY <1>1, <1>3, <2>1, <2>2, <2>3 DEF TimesInv
<1> QED
  BY <1>4, <1>5, <1>6, <1>7, <1>8, <1>9, <1>10, <1>11, CollectorSteps

-----------------------------------------------------------------------------
(* The theorems.                                                           *)

LEMMA CollectorInvInit ==
  ASSUME CollectorInit
  PROVE  CollectorInv
<1>1. record.samples \subseteq SampleIds
  BY DEF CollectorInit, NoRecord
<1> QED
  BY <1>1, CollectorInitTypes, PacketInit, ListsInit, TimesInit
     DEF CollectorInv

LEMMA CollectorInvNext ==
  ASSUME CollectorInv, [CollectorNext]_collectorVars
  PROVE  CollectorInv'
<1>1. record'.samples \subseteq SampleIds /\ SampleIds' = SampleIds
  BY RecordTypesNext DEF CollectorInv, SampleIds
<1> QED
  BY <1>1, CollectorTypesNext, ReadingsAreFewNext, PacketNext, ListsNext,
     TimesNext DEF CollectorInv

LEMMA CollectorInvAlways == CollectorSpec => []CollectorInv
BY CollectorInvInit, CollectorInvNext, PTL DEF CollectorSpec

\* However and whenever the clock is set, no device waits longer than Slack + 1
\* intervals and three rounds for its next attempt, and no period lasts longer.
THEOREM ClockDelaysLittle ==
  CollectorSpec => []SettingTheClockDelaysLittle
<1>1. ASSUME CollectorInv
      PROVE  SettingTheClockDelaysLittle
  <2> DEFINE n == Len(devices)
  <2>1. PICK t, o \in Int : RoundBegan(t, o)
    BY <1>1 DEF CollectorInv, TimesInv
  <2>2. /\ n \in Nat /\ n >= 1 /\ now \in Int /\ device \in 1 .. n
        /\ device \in DeviceIds /\ published_at \in Int
        /\ DeviceIds = 1 .. n
        /\ CollectInterval \in Nat \ {0} /\ PublishInterval \in Nat \ {0}
    BY <1>1, CollectorSizes, DeviceFacts DEF CollectorInv, CollectorTypes
  <2>3. Elapsed \in Int /\ Elapsed <= n
        /\ (collector \in {"collect", "reading"} => Elapsed <= n - 1)
    BY <2>2 DEF Elapsed
  <2>4. /\ collector = "loop" => now = t
        /\ collector # "loop" => now - t <= Elapsed
    BY <2>1 DEF RoundBegan
  <2>5. ASSUME NEW d \in DeviceIds
        PROVE  now - read_at[d] <= (Slack + 1) * CollectInterval + 3 * n - 1
    <3>1. PICK k \in Nat \ {0} : /\ CollectInterval * Slack = k
                                 /\ Longest(CollectInterval, n)
                                      = k + CollectInterval + n
      BY <2>2, LongestIs
    <3>2. (Slack + 1) * CollectInterval = k + CollectInterval
      BY <2>2, <3>1, IntervalFacts
    <3> DEFINE r == read_at[d]
    <3>3. r \in Int
      BY <1>1 DEF CollectorInv, CollectorTypes
    <3>4. DeviceInTime(d, t, o)
      BY <2>1 DEF RoundBegan
    <3>5. CASE Seen(d)
      <4>1. t - r <= k + CollectInterval + n - 1
        BY <2>2, <3>1, <3>3, <3>4, <3>5 DEF DeviceInTime, Settled
      <4> HIDE DEF n, r
      <4>2. now - r <= k + CollectInterval + 3 * n - 1
        BY <2>1, <2>2, <2>3, <2>4, <3>1, <3>3, <4>1
      <4> QED
        BY <3>2, <4>2 DEF r
    <3>6. CASE ~Seen(d)
      <4>1. t - r <= k + CollectInterval + n + n
        BY <2>2, <3>1, <3>3, <3>4, <3>6 DEF DeviceInTime, Awaited
      <4>2. now - t <= n - 1 \/ r >= t
        <5>1. collector = "answer" => ~(d < device)
          BY <3>6 DEF Seen
        <5>2. collector \in {"loop", "collect", "reading", "answer"}
          BY <1>1, <3>6 DEF Seen, CollectorInv, CollectorTypes
        <5>3. CASE collector = "loop"
          BY <2>2, <2>4, <5>3
        <5>4. CASE collector \in {"collect", "reading"}
          BY <2>1, <2>2, <2>3, <2>4, <5>4
        <5>5. CASE collector = "answer"
          <6>1. Elapsed = device /\ read_at[device] >= t
            BY <2>1, <5>5 DEF Elapsed, RoundBegan
          <6>2. d = device \/ device <= n - 1
            <7>1. d \in 1 .. n
              BY <2>2
            <7> HIDE DEF n
            <7> QED
              BY <2>2, <5>1, <5>5, <7>1
          <6> QED
            BY <2>1, <2>2, <2>4, <5>5, <6>1, <6>2
        <5> QED
          BY <5>2, <5>3, <5>4, <5>5
      <4> HIDE DEF n, r
      <4>3. now - r <= k + CollectInterval + 3 * n - 1
        BY <2>1, <2>2, <2>3, <2>4, <3>1, <3>3, <4>1, <4>2
      <4> QED
        BY <3>2, <4>3 DEF r
    <3> QED
      BY <3>5, <3>6
  <2>6. now - published_at <= (Slack + 1) * PublishInterval + 3 * n
    <3>1. PICK k \in Nat \ {0} : /\ PublishInterval * Slack = k
                                 /\ Longest(PublishInterval, n)
                                      = k + PublishInterval + n
      BY <2>2, LongestIs
    <3>2. (Slack + 1) * PublishInterval = k + PublishInterval
      BY <2>2, <3>1, IntervalFacts
    <3>3. PeriodInTime(t, o)
      BY <2>1 DEF RoundBegan
    <3>4. t - published_at <= k + PublishInterval + n + n
      BY <2>2, <3>1, <3>3 DEF PeriodInTime, Awaited, Settled
    <3> HIDE DEF n
    <3>5. now - published_at <= k + PublishInterval + 3 * n
      BY <2>1, <2>2, <2>3, <2>4, <3>1, <3>4
    <3> QED
      BY <3>2, <3>5
  <2> QED
    BY <2>5, <2>6 DEF SettingTheClockDelaysLittle
<1> QED
  BY <1>1, CollectorInvAlways, PTL

\* Types, and the public packet of a record that was saved is one packet of the
\* UDP thread, never the halves of two.
THEOREM PacketsAreWhole ==
  CollectorSpec => []PacketIsWhole
<1>1. ASSUME CollectorInv
      PROVE  PacketIsWhole
  <2>1. context \in [DeviceIds -> [next : Int, index : Slots,
                                   count : 0 .. MetricsListSize,
                                   list : [Slots -> SampleIds \cup {NoSample}]]]
    BY <1>1 DEF CollectorInv, CollectorTypes, Contexts
  <2>2. CollectorTypeOK
    BY <1>1, <2>1 DEF CollectorInv, CollectorTypes, PacketInv, CollectorTypeOK
  <2>3. public_context = "live" => record.first = record.second
    BY <1>1 DEF CollectorInv, PacketInv
  <2> QED
    BY <2>2, <2>3 DEF PacketIsWhole
<1> QED
  BY <1>1, CollectorInvAlways, PTL

\* A record holds exactly the samples of its period that the list had room
\* for, whatever was missed and however long the period became.
THEOREM RecordsAreOfTheirPeriod ==
  CollectorSpec => RecordsHoldTheirPeriod
<1>1. ASSUME CollectorInv, [CollectorNext]_collectorVars
      PROVE  [record' \notin {record, NoRecord}
                => record'.samples = Expected(record'.device)]_collectorVars
  BY <1>1, RecordNext DEF CollectorInv
<1> QED
  BY <1>1, CollectorInvAlways, PTL DEF CollectorSpec, RecordsHoldTheirPeriod

-----------------------------------------------------------------------------
(* A round of the collector is short, and so is the time the UDP thread    *)
(* holds the lock the collector may have to wait for.                      *)

\* The steps before the thread sleeps, from each place, at device d of n.
StepsFrom(d, n) ==
  [loop |-> 6 * n + 2,
   collect |-> 6 * n - 3 * d + 4, reading |-> 6 * n - 3 * d + 3,
   answer |-> 6 * n - 3 * d + 2, publish |-> 3 * n + 1,
   average |-> 3 * n - 3 * d + 3, lock |-> 3 * n - 3 * d + 2,
   copied |-> 3 * n - 3 * d + 1, asleep |-> 0]

StepsToSleep == StepsFrom(device, Len(devices))[collector]

\* The steps of the UDP thread before it has let go of the lock.
StepsToUnlock ==
  [start |-> 0, receive |-> 0, exited |-> 0, lock |-> 4, updating |-> 3,
   set_time |-> 2, unlock |-> 1][udp]

\* Where the thread goes from one place to the next.
LEMMA RoundMoves ==
  ASSUME CollectorTypes, Collect \/ PublishMetrics \/ Tick,
         collector # "asleep"
  PROVE  /\ devices' = devices
         /\ \/ /\ collector \in {"collect", "reading", "answer"}
               /\ \/ device < Len(devices) /\ collector' = "collect"
                     /\ device' = device + 1
                  \/ device = Len(devices) /\ collector' = "publish"
                     /\ device' = 1
            \/ /\ collector \in {"average", "copied"}
               /\ \/ device < Len(devices) /\ collector' = "average"
                     /\ device' = device + 1
                  \/ device = Len(devices) /\ collector' = "asleep"
                     /\ device' = 1
            \/ /\ device' = 1
               /\ \/ collector = "loop" /\ collector' = "collect"
                  \/ collector = "publish" /\ collector' = "average"
            \/ /\ device' = device
               /\ <<collector, collector'>> \in
                    {<<"collect", "reading">>, <<"reading", "answer">>,
                     <<"average", "lock">>, <<"lock", "copied">>,
                     <<"publish", "asleep">>}
<1>1. CASE StartRound \/ StartReading \/ DoNotPublish \/ StartPublishing
             \/ SaveOilMetrics \/ LockPacket \/ Tick
  BY <1>1 DEF StartRound, StartReading, DoNotPublish, StartPublishing,
              SaveOilMetrics, OilIsReady, LockPacket, CopyFirstPart, Tick,
              schedule
<1>2. CASE SkipDevice \/ KeepSample \/ FailReading
  <2>1. /\ NextDevice("collect", "publish") /\ devices' = devices
        /\ collector \in {"collect", "reading", "answer"}
    BY <1>2 DEF SkipDevice, KeepSample, FailReading
  <2> QED
    BY <2>1, NextDeviceIs
<1>3. CASE SaveGatewaySample \/ SaveModuleMetrics \/ SaveNothing
             \/ WaitForTimeSync \/ CopyRestAndSave
  <2>1. /\ NextDevice("average", "asleep") /\ devices' = devices
        /\ collector \in {"average", "copied"}
    BY <1>3 DEF SaveGatewaySample, SaveModuleMetrics, SaveNothing,
                WaitForTimeSync, OilIsReady, CopyRestAndSave, FinishDevice
  <2> QED
    BY <2>1, NextDeviceIs
<1> QED
  BY <1>1, <1>2, <1>3
     DEF Collect, PublishMetrics, SaveOil, CollectOilSensor, CollectModule,
         CollectDemo3Gateway

\* The numbers of the table, as the provers need them spelled out.
Table(from, d, n) ==
  /\ from["loop"] = 6 * n + 2 /\ from["collect"] = 6 * n - 3 * d + 4
  /\ from["reading"] = 6 * n - 3 * d + 3
  /\ from["answer"] = 6 * n - 3 * d + 2 /\ from["publish"] = 3 * n + 1
  /\ from["average"] = 3 * n - 3 * d + 3
  /\ from["lock"] = 3 * n - 3 * d + 2
  /\ from["copied"] = 3 * n - 3 * d + 1 /\ from["asleep"] = 0

LEMMA StepsFromIs ==
  ASSUME NEW d \in Int, NEW n \in Int
  PROVE  Table(StepsFrom(d, n), d, n)
BY DEF StepsFrom, Table

LEMMA StepsToSleepRange ==
  ASSUME CollectorTypes
  PROVE  /\ StepsToSleep \in 0 .. 6 * Len(devices) + 2
         /\ collector # "asleep" => StepsToSleep > 0
<1>1. PICK n \in Nat, d \in Int :
        n = Len(devices) /\ d = device /\ d \in 1 .. n
  BY DeviceFacts DEF CollectorTypes
<1>2. PICK from : from = StepsFrom(d, n)
  OBVIOUS
<1>3. Table(from, d, n)
  BY <1>1, <1>2, StepsFromIs
<1>4. \A p \in {"loop", "collect", "reading", "answer", "publish", "average",
                "lock", "copied", "asleep"} :
        from[p] \in 0 .. 6 * n + 2 /\ (p # "asleep" => from[p] > 0)
  BY <1>1, <1>3 DEF Table
<1>5. StepsToSleep = from[collector]
  BY <1>1, <1>2 DEF StepsToSleep
<1> QED
  BY <1>1, <1>4, <1>5 DEF CollectorTypes

\* The next place in the order of a round is nearer to its end.
LEMMA NearerPlaces ==
  ASSUME NEW n \in Int, NEW d \in Int, d \in 1 .. n, NEW e \in Int,
         NEW from, NEW to, Table(from, d, n), Table(to, e, n)
  PROVE  /\ e = d + 1 =>
              /\ \A p \in {"collect", "reading", "answer"} :
                   to["collect"] < from[p]
              /\ \A p \in {"average", "copied"} : to["average"] < from[p]
         /\ \A p \in {"collect", "reading", "answer"} :
              to["publish"] < from[p]
         /\ \A p \in {"average", "copied", "publish"} :
              to["asleep"] < from[p]
         /\ e = 1 => /\ to["collect"] < from["loop"]
                     /\ to["average"] < from["publish"]
         /\ e = d => /\ to["reading"] < from["collect"]
                     /\ to["answer"] < from["reading"]
                     /\ to["lock"] < from["average"]
                     /\ to["copied"] < from["lock"]
BY DEF Table

LEMMA RoundIsShorter ==
  ASSUME CollectorTypes, Collect \/ PublishMetrics \/ Tick,
         collector # "asleep"
  PROVE  StepsToSleep' < StepsToSleep
<1>1. PICK n \in Nat, d \in Int :
        n = Len(devices) /\ d = device /\ d \in 1 .. n
  BY DeviceFacts DEF CollectorTypes
<1>2. device' \in Int /\ devices' = devices
  BY <1>1, RoundMoves
<1>3. PICK e \in Int : e = device'
  BY <1>2
<1>4. PICK p, q : p = collector /\ q = collector'
  OBVIOUS
<1>5. PICK from, to : from = StepsFrom(d, n) /\ to = StepsFrom(e, n)
  OBVIOUS
<1>6. StepsToSleep = from[p] /\ StepsToSleep' = to[q]
  BY <1>1, <1>2, <1>3, <1>4, <1>5 DEF StepsToSleep
<1>7. Table(from, d, n) /\ Table(to, e, n)
  BY <1>1, <1>5, StepsFromIs
<1>8. CASE p \in {"collect", "reading", "answer"}
  <2>1. \/ d < n /\ q = "collect" /\ e = d + 1
        \/ d = n /\ q = "publish"
        \/ e = d /\ \/ p = "collect" /\ q = "reading"
                    \/ p = "reading" /\ q = "answer"
    BY <1>1, <1>3, <1>4, <1>8, RoundMoves
  <2> QED
    BY <1>6, <1>8, <2>1, NearerPlaces, <1>1, <1>7
<1>9. CASE p \in {"average", "lock", "copied"}
  <2>1. \/ d < n /\ q = "average" /\ e = d + 1 /\ p # "lock"
        \/ d = n /\ q = "asleep" /\ p # "lock"
        \/ e = d /\ \/ p = "average" /\ q = "lock"
                    \/ p = "lock" /\ q = "copied"
    BY <1>1, <1>3, <1>4, <1>9, RoundMoves
  <2> QED
    BY <1>6, <1>9, <2>1, NearerPlaces, <1>1, <1>7
<1>10. CASE p \in {"loop", "publish"}
  <2>1. \/ p = "loop" /\ q = "collect" /\ e = 1
        \/ p = "publish" /\ q = "average" /\ e = 1
        \/ p = "publish" /\ q = "asleep"
    BY <1>3, <1>4, <1>10, RoundMoves
  <2> QED
    BY <1>6, <1>10, <2>1, NearerPlaces, <1>1, <1>7
<1> QED
  BY <1>4, <1>8, <1>9, <1>10 DEF CollectorTypes

\* What the steps of the UDP thread leave alone.
LEMMA OthersLeaveTheRound ==
  ASSUME CollectorTypes, [CollectorNext]_collectorVars,
         ~(Collect \/ PublishMetrics \/ Tick)
  PROVE  StepsToSleep' = StepsToSleep
<1>1. UNCHANGED <<collector, device, devices>>
  BY DEF CollectorNext, HandlePacket, BindSocket, FailToBind, Receive,
         UpdateFirstPart, UpdateTrainNo, KeepTime, SetTime, UdpUnlock,
         collectorVars, schedule
<1> QED
  BY <1>1 DEF StepsToSleep

\* The UDP thread gives the lock back after three steps at most, whether or not
\* the clock could be set, and no other thread keeps it from doing so.
LEMMA LockIsShort ==
  ASSUME PacketInv, [CollectorNext]_collectorVars, CollectorTypes,
         public_mutex = "udp"
  PROVE  /\ StepsToUnlock' <= StepsToUnlock
         /\ HandlePacket => StepsToUnlock' < StepsToUnlock
<1>1. udp \in {"updating", "set_time", "unlock"}
  BY DEF PacketInv
<1>2. CASE HandlePacket
  <2>1. <<udp, udp'>> \in {<<"updating", "set_time">>,
                           <<"set_time", "unlock">>, <<"unlock", "receive">>}
    BY <1>1, <1>2 DEF HandlePacket, UpdateFirstPart, UpdateTrainNo, KeepTime,
                      SetTime, AfterFailedSetTime, UdpUnlock
  <2> QED
    BY <1>2, <2>1 DEF StepsToUnlock
<1>3. CASE ~HandlePacket
  <2>1. udp' = udp
    BY <1>1, <1>3, PacketSteps
       DEF LeavesThePacket, LockPacket, CopyFirstPart, CopyRestAndSave,
           BindSocket, FailToBind, Receive, udp_thread, collectorVars
  <2>2. StepsToUnlock' = StepsToUnlock
    BY <2>1 DEF StepsToUnlock
  <2> QED
    BY <1>1, <1>3, <2>2 DEF StepsToUnlock
<1> QED
  BY <1>2, <1>3

\* A round of n devices ends after at most 6 * n + 2 steps of the collecting
\* thread, however many devices fail and whatever the clock is set to
\* meanwhile (do_start_modbus_collector); and the UDP thread holds the lock it
\* may wait for during three steps at most, the one of a clock that could not
\* be set among them (do_start_public_udp_collector).  It is what RoundsEnd
\* rests on besides the fairness of the two threads.
THEOREM CollectorRoundsAreShort ==
  CollectorSpec =>
    /\ [](/\ StepsToSleep \in 0 .. 6 * Len(devices) + 2
          /\ collector # "asleep" => StepsToSleep > 0
          /\ public_mutex = "udp" => StepsToUnlock \in 1 .. 3
          /\ public_mutex = "collector" => collector = "copied")
    /\ [][collector # "asleep" =>
            /\ StepsToSleep' <= StepsToSleep
            /\ Collect \/ PublishMetrics => StepsToSleep' < StepsToSleep
         ]_collectorVars
    /\ [][public_mutex = "udp" =>
            /\ StepsToUnlock' <= StepsToUnlock
            /\ HandlePacket => StepsToUnlock' < StepsToUnlock]_collectorVars
<1>1. ASSUME CollectorInv
      PROVE  /\ StepsToSleep \in 0 .. 6 * Len(devices) + 2
             /\ collector # "asleep" => StepsToSleep > 0
             /\ public_mutex = "udp" => StepsToUnlock \in 1 .. 3
             /\ public_mutex = "collector" => collector = "copied"
  <2>1. public_mutex = "udp" => StepsToUnlock \in 1 .. 3
    BY <1>1 DEF CollectorInv, PacketInv, StepsToUnlock
  <2>2. public_mutex = "collector" => collector = "copied"
    BY <1>1 DEF CollectorInv, PacketInv
  <2> QED
    BY <1>1, <2>1, <2>2, StepsToSleepRange DEF CollectorInv
<1>2. ASSUME CollectorInv, [CollectorNext]_collectorVars
      PROVE  /\ [collector # "asleep" =>
                   /\ StepsToSleep' <= StepsToSleep
                   /\ Collect \/ PublishMetrics => StepsToSleep' < StepsToSleep
                ]_collectorVars
             /\ [public_mutex = "udp" =>
                   /\ StepsToUnlock' <= StepsToUnlock
                   /\ HandlePacket => StepsToUnlock' < StepsToUnlock
                ]_collectorVars
  <2>1. CollectorTypes /\ PacketInv
    BY <1>2 DEF CollectorInv
  <2>2. collector # "asleep" =>
          /\ StepsToSleep' <= StepsToSleep
          /\ Collect \/ PublishMetrics => StepsToSleep' < StepsToSleep
    <3>1. StepsToSleep \in Int
      BY <2>1, StepsToSleepRange
    <3>2. StepsToSleep' \in Int
      <4>1. CollectorInv'
        BY <1>2, CollectorInvNext
      <4>2. (StepsToSleep \in 0 .. 6 * Len(devices) + 2)'
        BY <4>1, <1>1, PTL
      <4>3. Len(devices') \in Nat
        BY <1>2, <2>1, DevicesStay, DeviceFacts
      <4> QED
        BY <4>2, <4>3
    <3> QED
      BY <1>2, <2>1, <3>1, <3>2, RoundIsShorter, OthersLeaveTheRound
  <2> QED
    BY <1>2, <2>1, <2>2, LockIsShort
<1> QED
  BY <1>1, <1>2, CollectorInvAlways, PTL DEF CollectorSpec

-----------------------------------------------------------------------------
(* ModbusLink.                                                             *)

Before(p, q) ==
  p.answer < q.answer \/ (p.answer = q.answer /\ p.index < q.index)

\* The slave has sent piece p.
Sent(p) ==
  /\ p.answer <= request
  /\ slave # 0 => \/ p.answer < slave
                  \/ p.answer = slave /\ p.index <= slave_sent

SlaveBusy == slave <= request /\ (slave # 0 => slave_sent < Pieces)

SentPieces ==
  /\ \A i \in 1 .. Len(buffer) : Sent(buffer[i])
  /\ \A j \in 1 .. Len(uart) : Sent(uart[j])

ReadBefore ==
  \A i \in 1 .. Len(buffer), j \in 1 .. Len(uart) : Before(buffer[i], uart[j])

\* Whatever may still be delivered is newer than the k-th delivery.
NewerThan(k) ==
  /\ delivered[k][1] <= request
  /\ delivered[k][2] <= delivered[k][1]
  /\ slave # 0 => delivered[k][2] < slave
  /\ \A j \in 1 .. Len(uart) : delivered[k][2] < uart[j].answer
  /\ step \in {"wait", "check"} =>
       \A i \in 1 .. Len(buffer) : delivered[k][2] < buffer[i].answer

NewerAnswers ==
  /\ \A k \in 1 .. Len(delivered) : NewerThan(k)
  /\ \A k \in 2 .. Len(delivered) : delivered[k - 1][2] < delivered[k][2]

WholeWhenChecked == /\ step = "check" => Len(buffer) >= Pieces
                    /\ step = "send" => request < MaxRequests

LinkInv == /\ TypeOK /\ SlaveBusy /\ SentPieces /\ ReadBefore
           /\ NewerAnswers /\ WholeWhenChecked

USE PiecesAssumption, BufferAssumption, MaxRequestsAssumption

-----------------------------------------------------------------------------
(* The steps, one by one.                                                  *)

LEMMA LinkInit == Init => LinkInv
<1> SUFFICES ASSUME Init PROVE LinkInv
  OBVIOUS
<1>1. /\ Len(buffer) = 0 /\ Len(uart) = 0 /\ Len(delivered) = 0
      /\ slave = 0 /\ request = 0 /\ step = "idle"
      /\ slave_sent = 0 /\ shutdown_flag = FALSE /\ uart_down = FALSE
  BY DEF Init
<1>2. TypeOK
  <2>1. /\ buffer \in Seq(Piece) /\ uart \in Seq(Piece)
        /\ delivered \in Seq(Requests \X Requests)
    BY EmptySeq DEF Init
  <2>2. /\ step \in {"idle", "send", "wait", "check", "skip", "stopped",
                     "overrun"}
        /\ shutdown_flag \in BOOLEAN /\ uart_down \in BOOLEAN
    BY <1>1
  <2>3. request \in 0 .. MaxRequests /\ slave \in 0 .. MaxRequests
    BY <1>1
  <2>4. Len(buffer) <= BufferPieces
    BY <1>1
  <2>5. slave_sent \in 0 .. Pieces
    BY <1>1
  <2> QED
    BY <2>1, <2>2, <2>3, <2>4, <2>5 DEF TypeOK
<1>3. SlaveBusy /\ SentPieces /\ ReadBefore /\ WholeWhenChecked
  BY <1>1 DEF SlaveBusy, SentPieces, ReadBefore, WholeWhenChecked
<1>4. NewerAnswers
  BY <1>1 DEF NewerAnswers
<1> QED
  BY <1>2, <1>3, <1>4 DEF LinkInv

\* The new request is newer than everything, and the buffer is empty.
LEMMA LinkWriteRequest == LinkInv /\ WriteRequest => LinkInv'
<1> SUFFICES ASSUME LinkInv, WriteRequest PROVE LinkInv'
  OBVIOUS
<1> USE DEF WriteRequest, NewBuffer, Arrives, slaveVars, flags
<1>1. TypeOK'
  BY DEF LinkInv, TypeOK, WholeWhenChecked
<1>2. SlaveBusy'
  BY DEF LinkInv, TypeOK, SlaveBusy
<1>3. SentPieces' /\ ReadBefore'
  <2>1. ASSUME NEW j \in 1 .. Len(uart) PROVE Sent(uart[j])'
    <3>1. uart[j].answer \in Nat /\ Sent(uart[j])
      <4>1. uart[j] \in Piece /\ Sent(uart[j])
        BY DEF LinkInv, TypeOK, SentPieces
      <4> QED
        BY <4>1 DEF Piece, Requests
    <3>2. request \in Nat /\ request' = request + 1 /\ uart' = uart
      BY DEF LinkInv, TypeOK
    <3>3. \/ slave' = slave /\ slave_sent' = slave_sent
          \/ slave' = request'
      OBVIOUS
    <3>4. CASE slave' = slave /\ slave_sent' = slave_sent
      BY <3>1, <3>2, <3>4 DEF Sent
    <3>5. CASE slave' = request'
      BY <3>1, <3>2, <3>5 DEF Sent
    <3> QED
      BY <3>3, <3>4, <3>5
  <2> QED
    BY <2>1 DEF SentPieces, ReadBefore
<1>4. NewerAnswers'
  <2>1. ASSUME NEW k \in 1 .. Len(delivered) PROVE NewerThan(k)'
    <3>1. NewerThan(k) /\ delivered[k] \in Requests \X Requests
      BY DEF LinkInv, NewerAnswers, TypeOK
    <3> QED
      BY <3>1 DEF LinkInv, TypeOK, NewerThan, Requests
  <2> QED
    BY <2>1 DEF LinkInv, NewerAnswers
<1>5. WholeWhenChecked'
  BY DEF WholeWhenChecked
<1> QED
  BY <1>1, <1>2, <1>3, <1>4, <1>5 DEF LinkInv

\* The new piece comes after all others, and is of the slave's request.
LEMMA LinkSendPiece == LinkInv /\ SendPiece => LinkInv'
<1> SUFFICES ASSUME LinkInv, SendPiece PROVE LinkInv'
  OBVIOUS
<1> USE DEF SendPiece, masterVars, flags
<1>1. /\ slave \in Requests /\ slave_sent + 1 \in 1 .. Pieces
      /\ slave_sent' = slave_sent + 1
  BY DEF LinkInv, TypeOK, SlaveBusy, Requests
<1>2. \/ uart' = uart
      \/ \E p \in Piece : /\ p.answer = slave /\ p.index = slave_sent + 1
                          /\ uart' = Append(uart, p)
  BY <1>1 DEF Piece
<1>3. TypeOK'
  <2>1. uart' \in Seq(Piece)
    <3>1. uart \in Seq(Piece)
      BY DEF LinkInv, TypeOK
    <3>2. ASSUME NEW p \in Piece PROVE Append(uart, p) \in Seq(Piece)
      BY <3>1, AppendProperties
    <3> QED
      BY <1>2, <3>1, <3>2
  <2> QED
    BY <1>1, <2>1 DEF LinkInv, TypeOK
<1>4. SlaveBusy'
  BY <1>1 DEF LinkInv, TypeOK, SlaveBusy, Requests
<1>5. ASSUME NEW j \in 1 .. Len(uart')
      PROVE  \/ j \in 1 .. Len(uart) /\ uart'[j] = uart[j]
             \/ uart'[j].answer = slave /\ uart'[j].index = slave_sent + 1
  <2>1. uart \in Seq(Piece) /\ Len(uart) \in Nat
    BY DEF LinkInv, TypeOK
  <2>2. CASE uart' = uart
    BY <2>2
  <2>3. ASSUME NEW p \in Piece, p.answer = slave, p.index = slave_sent + 1,
               uart' = Append(uart, p)
        PROVE  \/ j \in 1 .. Len(uart) /\ uart'[j] = uart[j]
               \/ uart'[j].answer = slave /\ uart'[j].index = slave_sent + 1
    <3>1. /\ Len(uart') = Len(uart) + 1 /\ uart'[Len(uart) + 1] = p
          /\ \A i \in 1 .. Len(uart) : uart'[i] = uart[i]
      BY <2>1, <2>3, AppendProperties
    <3>2. j \in 1 .. Len(uart) \/ j = Len(uart) + 1
      BY <2>1, <3>1
    <3> QED
      BY <2>3, <3>1, <3>2
  <2> QED
    BY <1>2, <2>2, <2>3
<1>6. ASSUME NEW p \in Piece, Sent(p)
      PROVE  /\ p.answer <= request
             /\ slave' # 0 => \/ p.answer < slave
                              \/ p.answer = slave /\ p.index <= slave_sent + 1
  BY <1>1, <1>6 DEF LinkInv, TypeOK, Sent, Piece, Requests
<1>7. \A i \in 1 .. Len(buffer) : buffer[i] \in Piece /\ Sent(buffer[i])
  BY DEF LinkInv, TypeOK, SentPieces
<1>8. \A j \in 1 .. Len(uart) : uart[j] \in Piece /\ Sent(uart[j])
  BY DEF LinkInv, TypeOK, SentPieces
<1>9. SentPieces'
  <2>1. ASSUME NEW j \in 1 .. Len(uart') PROVE Sent(uart[j])'
    <3>1. CASE j \in 1 .. Len(uart) /\ uart'[j] = uart[j]
      BY <1>1, <1>6, <1>8, <3>1 DEF Sent
    <3>2. CASE uart'[j].answer = slave /\ uart'[j].index = slave_sent + 1
      <4>1. slave <= request /\ request' = request
            /\ (slave' # 0 => slave' = slave)
        BY DEF LinkInv, SlaveBusy
      <4> QED
        BY <1>1, <3>2, <4>1 DEF Sent
    <3> QED
      BY <1>5, <3>1, <3>2
  <2>2. ASSUME NEW i \in 1 .. Len(buffer) PROVE Sent(buffer[i])'
    BY <1>1, <1>6, <1>7 DEF Sent
  <2> QED
    BY <2>1, <2>2 DEF SentPieces
<1>10. ReadBefore'
  <2>1. ASSUME NEW i \in 1 .. Len(buffer), NEW j \in 1 .. Len(uart')
        PROVE  Before(buffer[i], uart'[j])
    <3>1. CASE j \in 1 .. Len(uart) /\ uart'[j] = uart[j]
      BY <3>1 DEF LinkInv, ReadBefore
    <3>2. CASE uart'[j].answer = slave /\ uart'[j].index = slave_sent + 1
      <4>1. buffer[i] \in Piece /\ Sent(buffer[i])
        BY <1>7
      <4>2. slave # 0
        BY <1>1 DEF Requests
      <4> QED
        <5>1. \/ buffer[i].answer < slave
              \/ buffer[i].answer = slave /\ buffer[i].index <= slave_sent
          BY <4>1, <4>2 DEF Sent
        <5>2. buffer[i].index \in 1 .. Pieces /\ slave_sent \in 0 .. Pieces
          BY <4>1 DEF LinkInv, TypeOK, Piece
        <5> QED
          BY <3>2, <5>1, <5>2 DEF Before
    <3> QED
      BY <1>5, <3>1, <3>2
  <2> QED
    BY <2>1 DEF ReadBefore
<1>11. NewerAnswers'
  <2>1. ASSUME NEW k \in 1 .. Len(delivered) PROVE NewerThan(k)'
    <3>1. NewerThan(k)
      BY DEF LinkInv, NewerAnswers
    <3>2. ASSUME NEW j \in 1 .. Len(uart') PROVE delivered[k][2] < uart'[j].answer
      BY <1>1, <1>5, <3>1 DEF NewerThan, Requests
    <3> QED
      BY <1>1, <3>1, <3>2 DEF NewerThan
  <2> QED
    BY <2>1 DEF LinkInv, NewerAnswers
<1>12. WholeWhenChecked'
  BY DEF LinkInv, WholeWhenChecked
<1> QED
  BY <1>3, <1>4, <1>9, <1>10, <1>11, <1>12 DEF LinkInv

\* What the uart held is now in the buffer, or it is not, but the uart still
\* has it.
LEMMA LinkReadAvailable == LinkInv /\ ReadAvailable => LinkInv'
<1> SUFFICES ASSUME LinkInv, ReadAvailable PROVE LinkInv'
  OBVIOUS
<1> USE DEF ReadAvailable, slaveVars, flags
<1>1. CASE ~FitsBuffer(Len(uart))
  BY <1>1 DEF LinkInv, TypeOK, SlaveBusy, SentPieces, Sent, ReadBefore,
              NewerAnswers, NewerThan, WholeWhenChecked
<1>2. CASE FitsBuffer(Len(uart))
  <2>1. /\ buffer' = buffer \o uart /\ uart' = <<>>
        /\ step' \in {"skip", "check", "wait"}
        /\ step' = "check" => Len(buffer') >= Pieces
    BY <1>2
  <2>2. /\ buffer' \in Seq(Piece) /\ Len(buffer') <= BufferPieces
    BY <1>2, <2>1 DEF LinkInv, TypeOK, FitsBuffer
  <2>3. ASSUME NEW i \in 1 .. Len(buffer')
        PROVE  \/ i \in 1 .. Len(buffer) /\ buffer'[i] = buffer[i]
               \/ \E j \in 1 .. Len(uart) : buffer'[i] = uart[j]
    <3>1. CASE i \in 1 .. Len(buffer)
      BY <2>1, <3>1 DEF LinkInv, TypeOK
    <3>2. CASE i \notin 1 .. Len(buffer)
      <4>1. i - Len(buffer) \in 1 .. Len(uart)
            /\ buffer'[i] = uart[i - Len(buffer)]
        BY <2>1, <3>2 DEF LinkInv, TypeOK
      <4> QED
        BY <4>1
    <3> QED
      BY <3>1, <3>2
  <2>4. TypeOK'
    BY <2>1, <2>2 DEF LinkInv, TypeOK
  <2>5. SlaveBusy'
    BY DEF LinkInv, SlaveBusy
  <2>6. SentPieces' /\ ReadBefore'
    <3>1. ReadBefore'
      <4>1. Len(uart') = 0
        BY <2>1
      <4> QED
        BY <4>1 DEF ReadBefore
    <3>2. \A p : Sent(p) => Sent(p)'
      BY DEF Sent
    <3>3. SentPieces'
      BY <2>1, <2>3, <3>2 DEF LinkInv, SentPieces
    <3> QED
      BY <3>1, <3>3
  <2>7. NewerAnswers'
    <3>1. ASSUME NEW k \in 1 .. Len(delivered) PROVE NewerThan(k)'
      <4>1. NewerThan(k) /\ step = "wait"
        BY DEF LinkInv, NewerAnswers
      <4>2. ASSUME NEW i \in 1 .. Len(buffer')
            PROVE  delivered[k][2] < buffer'[i].answer
        BY <2>3, <4>1 DEF NewerThan
      <4> QED
        BY <2>1, <4>1, <4>2 DEF NewerThan
    <3> QED
      BY <3>1 DEF LinkInv, NewerAnswers
  <2>8. WholeWhenChecked'
    BY <2>1 DEF WholeWhenChecked
  <2> QED
    BY <2>4, <2>5, <2>6, <2>7, <2>8 DEF LinkInv
<1> QED
  BY <1>1, <1>2

\* A whole answer: the slave has done with it, and it is the newest so far.
LEMMA LinkCheckAnswer == LinkInv /\ CheckAnswer => LinkInv'
<1> SUFFICES ASSUME LinkInv, CheckAnswer PROVE LinkInv'
  OBVIOUS
<1> USE DEF CheckAnswer, slaveVars, flags
<1>1. /\ step = "check" /\ step' \in {"skip", "idle"}
      /\ UNCHANGED <<request, buffer, uart, slave, slave_sent, flags>>
  BY DEF AfterAnswer
<1>2. SlaveBusy' /\ SentPieces' /\ ReadBefore' /\ WholeWhenChecked'
  BY <1>1 DEF LinkInv, SlaveBusy, SentPieces, Sent, ReadBefore,
              WholeWhenChecked
<1>3. CASE ~CrcMatches(buffer)
  BY <1>1, <1>2, <1>3 DEF LinkInv, TypeOK, NewerAnswers, NewerThan
<1>4. CASE CrcMatches(buffer)
  <2> DEFINE a == buffer[1].answer
             n == Len(delivered)
  <2>1. /\ 1 \in 1 .. Len(buffer) /\ Pieces \in 1 .. Len(buffer)
        /\ buffer[1] \in Piece
        /\ buffer[Pieces].answer = a /\ buffer[Pieces].index = Pieces
    <3>1. Len(buffer) \in Nat /\ Len(buffer) >= Pieces
      BY <1>1 DEF LinkInv, TypeOK, WholeWhenChecked
    <3>2. 1 \in 1 .. Len(buffer) /\ Pieces \in 1 .. Len(buffer)
      BY <3>1
    <3>3. buffer[1] \in Piece
      BY <3>2 DEF LinkInv, TypeOK
    <3>4. buffer[Pieces] = [answer |-> a, index |-> Pieces, intact |-> TRUE]
      BY <1>4 DEF CrcMatches
    <3> QED
      BY <3>2, <3>3, <3>4
  <2>2. a \in Requests /\ a <= request /\ request \in Requests
    BY <2>1 DEF LinkInv, TypeOK, SentPieces, Sent, Piece, Requests
  <2>3. delivered' = Append(delivered, <<request, a>>) /\ n \in Nat
    BY <1>4 DEF LinkInv, TypeOK
  <2>4. TypeOK'
    BY <1>1, <2>2, <2>3 DEF LinkInv, TypeOK
  <2>5. /\ Len(delivered') = n + 1
        /\ delivered'[n + 1] = <<request, a>>
        /\ \A k \in 1 .. n : delivered'[k] = delivered[k]
    BY <2>3 DEF LinkInv, TypeOK
  <2>6. slave # 0 => a < slave
    BY <2>1, <2>2 DEF LinkInv, TypeOK, SlaveBusy, SentPieces, Sent, Requests
  <2>7. ASSUME NEW j \in 1 .. Len(uart) PROVE a < uart[j].answer
    <3>1. uart[j] \in Piece /\ Before(buffer[Pieces], uart[j])
      BY <2>1 DEF LinkInv, TypeOK, ReadBefore
    <3> QED
      BY <2>1, <2>2, <3>1 DEF Before, Piece, Requests
  <2>8. ASSUME NEW k \in 1 .. n + 1 PROVE NewerThan(k)'
    <3>1. CASE k = n + 1
      <4>1. delivered'[k] = <<request, a>>
        BY <2>5, <3>1
      <4>2. delivered'[k][1] = request /\ delivered'[k][2] = a
        BY <4>1
      <4>3. step' \notin {"wait", "check"}
        BY <1>1
      <4> QED
        <5>1. /\ delivered'[k][1] <= request'
              /\ delivered'[k][2] <= delivered'[k][1]
          BY <1>1, <2>2, <4>2 DEF Requests
        <5>2. slave' # 0 => delivered'[k][2] < slave'
          BY <1>1, <2>6, <4>2
        <5>3. \A j \in 1 .. Len(uart') : delivered'[k][2] < uart'[j].answer
          BY <1>1, <2>7, <4>2
        <5> QED
          BY <4>3, <5>1, <5>2, <5>3 DEF NewerThan
    <3>2. CASE k \in 1 .. n
      <4>1. NewerThan(k)
        BY <3>2 DEF LinkInv, NewerAnswers
      <4> QED
        BY <1>1, <2>5, <3>2, <4>1 DEF NewerThan
    <3> QED
      BY <2>3, <3>1, <3>2
  <2>9. ASSUME NEW k \in 2 .. n + 1
        PROVE  delivered'[k - 1][2] < delivered'[k][2]
    <3>1. CASE k = n + 1
      <4>1. n \in 1 .. n /\ NewerThan(n)
        BY <2>3, <3>1 DEF LinkInv, NewerAnswers
      <4>2. delivered[n][2] < a
        BY <1>1, <2>1, <4>1 DEF NewerThan
      <4> QED
        BY <2>3, <2>5, <3>1, <4>1, <4>2
    <3>2. CASE k \in 2 .. n
      <4>1. k \in 1 .. n /\ k - 1 \in 1 .. n
        BY <2>3, <3>2
      <4> QED
        BY <2>5, <3>2, <4>1 DEF LinkInv, NewerAnswers
    <3> QED
      BY <2>3, <3>1, <3>2
  <2>10. NewerAnswers'
    BY <2>5, <2>8, <2>9 DEF NewerAnswers
  <2> QED
    BY <1>2, <2>4, <2>10 DEF LinkInv
<1> QED
  BY <1>3, <1>4

\* The other steps of the master: the uart may be emptied, and nothing of the
\* buffer may be delivered any more.
LEMMA LinkOtherSteps ==
  ASSUME LinkInv, step' \in {"idle", "send", "skip", "stopped", "overrun"},
         step' = "send" => request < MaxRequests,
         uart' \in {uart, <<>>},
         UNCHANGED <<request, buffer, slave, slave_sent, delivered>>,
         shutdown_flag' \in BOOLEAN, uart_down' \in BOOLEAN
  PROVE  LinkInv'
<1>1. uart' = uart \/ (uart' = <<>> /\ Len(uart') = 0)
  OBVIOUS
<1>2. TypeOK'
  BY <1>1, EmptySeq DEF LinkInv, TypeOK
<1>3. SlaveBusy' /\ SentPieces' /\ ReadBefore' /\ WholeWhenChecked'
  BY <1>1 DEF LinkInv, SlaveBusy, SentPieces, Sent, ReadBefore,
              WholeWhenChecked
<1>4. NewerAnswers'
  BY <1>1 DEF LinkInv, NewerAnswers, NewerThan
<1> QED
  BY <1>2, <1>3, <1>4 DEF LinkInv

LEMMA LinkNext == LinkInv /\ [Next]_vars => LinkInv'
<1> SUFFICES ASSUME LinkInv, [Next]_vars PROVE LinkInv'
  OBVIOUS
<1>1. CASE WriteRequest
  BY <1>1, LinkWriteRequest
<1>2. CASE ReadAvailable
  BY <1>2, LinkReadAvailable
<1>3. CASE CheckAnswer
  BY <1>3, LinkCheckAnswer
<1>4. CASE Timeout
  BY <1>4, LinkOtherSteps DEF Timeout, slaveVars, flags, LinkInv, TypeOK
<1>5. CASE SkipData
  BY <1>5, LinkOtherSteps DEF SkipData, slaveVars, flags, LinkInv, TypeOK
<1>6. CASE SkipDone
  BY <1>6, LinkOtherSteps DEF SkipDone, AfterQuiet, slaveVars, flags, LinkInv,
                              TypeOK
<1>7. CASE Stop
  BY <1>7, LinkOtherSteps DEF Stop, slaveVars, flags, LinkInv, TypeOK
<1>8. CASE SendPiece
  BY <1>8, LinkSendPiece
<1>9. CASE GiveUp
  BY <1>9 DEF GiveUp, masterVars, flags, LinkInv, TypeOK, SlaveBusy,
              SentPieces, Sent, ReadBefore, NewerAnswers, NewerThan,
              WholeWhenChecked
<1>10. CASE SetShutdownFlag \/ UartFailsOrRecovers
  BY <1>10 DEF SetShutdownFlag, UartFailsOrRecovers, masterVars, slaveVars,
               LinkInv, TypeOK, SlaveBusy, SentPieces, Sent, ReadBefore,
               NewerAnswers, NewerThan, WholeWhenChecked
<1>11. CASE UNCHANGED vars
  BY <1>11 DEF vars, masterVars, slaveVars, flags, LinkInv, TypeOK, SlaveBusy,
               SentPieces, Sent, ReadBefore, NewerAnswers, NewerThan,
               WholeWhenChecked
<1>12. CASE BuildRequest
  BY <1>12, LinkOtherSteps DEF BuildRequest, slaveVars, flags, LinkInv, TypeOK
<1>13. CASE SelectFails
  BY <1>13, LinkOtherSteps DEF SelectFails, slaveVars, flags, LinkInv, TypeOK
<1> QED
  BY <1>1, <1>2, <1>3, <1>4, <1>5, <1>6, <1>7, <1>8, <1>9, <1>10, <1>11,
     <1>12, <1>13 DEF Next, Master

\* The invariant of the link (modbus_rtu_read_registers and the slave).
THEOREM LinkInvariant == Spec => []LinkInv
<1>1. Init => LinkInv
  BY LinkInit
<1>2. LinkInv /\ [Next]_vars => LinkInv'
  BY LinkNext
<1> QED
  BY <1>1, <1>2, PTL DEF Spec

\* What a request is given is one whole answer, each answer is given at most
\* once, and in the order of the requests (modbus_rtu_read_registers), for
\* answers of any length, any buffer and any number of requests, up to an
\* overrun of dummy_buffer, which nothing in the code excludes.
THEOREM OrderedAnswers == Spec => []AnswersInOrder
<1>1. LinkInv => AnswersInOrder
  <2> SUFFICES ASSUME LinkInv PROVE AnswersInOrder
    OBVIOUS
  <2>1. DOMAIN delivered = 1 .. Len(delivered) /\ Len(delivered) \in Nat
    BY DEF LinkInv, TypeOK
  <2>2. ASSUME NEW i \in 1 .. Len(delivered)
        PROVE  /\ delivered[i][2] <= delivered[i][1]
               /\ i > 1 => delivered[i - 1][2] < delivered[i][2]
    <3>1. delivered[i][2] <= delivered[i][1]
      BY DEF LinkInv, NewerAnswers, NewerThan
    <3>2. CASE i > 1
      <4>1. i \in 2 .. Len(delivered)
        BY <2>1, <3>2
      <4> QED
        BY <3>1, <4>1 DEF LinkInv, NewerAnswers
    <3> QED
      BY <3>1, <3>2
  <2> QED
    BY <2>1, <2>2 DEF AnswersInOrder, LinkInv
<1> QED
  BY <1>1, LinkInvariant, PTL

\* Once the flag is set nothing new begins: the request that is being sent
\* goes out, the slave sends the rest of the answer it works on or all of the
\* one to that request, and what arrives is skipped or left.  The pieces the
\* master may still see, and its steps besides.
PiecesToCome == Len(uart) + (IF slave = 0 THEN 0 ELSE Pieces - slave_sent)

StepsToStop ==
  PiecesToCome
    + [stopped |-> 0, overrun |-> 0, idle |-> 1, wait |-> 2, skip |-> 2,
       check |-> 3, send |-> 3 + Pieces][step]

\* Where a UART that fails can hold the master, whatever the flag is.
HeldByTheUart == uart_down /\ step \in {"send", "skip"}

LEMMA PiecesAreCounted ==
  ASSUME LinkInv
  PROVE  /\ Len(uart) \in Nat /\ PiecesToCome \in Nat
         /\ uart \in Seq(Piece) /\ slave \in 0 .. MaxRequests
         /\ slave_sent \in 0 .. Pieces
         /\ slave # 0 => slave_sent < Pieces
         /\ step \in {"idle", "send", "wait", "check", "skip", "stopped",
                     "overrun"}
<1>1. /\ uart \in Seq(Piece) /\ slave \in 0 .. MaxRequests
      /\ slave_sent \in 0 .. Pieces /\ (slave # 0 => slave_sent < Pieces)
      /\ step \in {"idle", "send", "wait", "check", "skip", "stopped",
                  "overrun"}
  BY DEF LinkInv, TypeOK, SlaveBusy
<1>2. Len(uart) \in Nat
  BY <1>1
<1> QED
  BY <1>1, <1>2 DEF PiecesToCome

LEMMA StepsToStopRange ==
  ASSUME LinkInv
  PROVE  StepsToStop \in 0 .. PiecesToCome + Pieces + 3
<1>1. PICK n \in Nat : n = PiecesToCome
  BY PiecesAreCounted
<1>2. StepsToStop \in {n, n + 1, n + 2, n + 3, n + 3 + Pieces}
  BY <1>1, PiecesAreCounted DEF StepsToStop
<1> QED
  BY <1>1, <1>2

\* The steps of the slave and of the line: what is sent has been counted.
LEMMA LineIsNoFarther ==
  ASSUME LinkInv, SendPiece \/ GiveUp \/ UartFailsOrRecovers
  PROVE  PiecesToCome' <= PiecesToCome /\ step' = step
<1>1. CASE SendPiece
  <2>1. Len(uart') = Len(uart) \/ Len(uart') = Len(uart) + 1
    <3>1. uart' = uart \/ \E p : uart' = Append(uart, p)
      <4>1. CASE UNCHANGED uart
        BY <4>1
      <4>2. CASE \E intact \in BOOLEAN :
                   uart' = Append(uart, [answer |-> slave,
                                         index |-> slave_sent',
                                         intact |-> intact])
        BY <4>2
      <4> QED
        BY <1>1, <4>1, <4>2 DEF SendPiece
    <3> QED
      BY <3>1, PiecesAreCounted
  <2>2. /\ slave # 0 /\ slave_sent' = slave_sent + 1 /\ step' = step
        /\ slave' = IF slave_sent + 1 = Pieces THEN 0 ELSE slave
    BY <1>1 DEF SendPiece, masterVars
  <2> QED
    BY <2>1, <2>2, PiecesAreCounted DEF PiecesToCome
<1>2. CASE GiveUp
  BY <1>2, PiecesAreCounted DEF GiveUp, masterVars, PiecesToCome
<1>3. CASE UartFailsOrRecovers
  BY <1>3, PiecesAreCounted
  DEF UartFailsOrRecovers, masterVars, slaveVars, PiecesToCome
<1> QED
  BY <1>1, <1>2, <1>3

\* The steps of the master after the flag.
LEMMA MasterIsNearer ==
  ASSUME LinkInv, Master \/ SelectFails, shutdown_flag
  PROVE  StepsToStop' < StepsToStop
<1>1. /\ Len(uart) \in Nat /\ Pieces \in Nat /\ slave_sent \in 0 .. Pieces
      /\ uart \in Seq(Piece) /\ PiecesToCome \in Nat
  BY PiecesAreCounted
<1>2. CASE SkipData
  <2>1. Len(uart') = 0 /\ Len(uart) > 0
    BY <1>1, <1>2, EmptySeq DEF SkipData
  <2>2. step = "skip" /\ step' \in {"skip", "overrun"} /\ UNCHANGED slaveVars
    BY <1>2 DEF SkipData
  <2> QED
    BY <1>1, <2>1, <2>2 DEF StepsToStop, PiecesToCome, slaveVars
<1>3. CASE CheckAnswer \/ Timeout \/ SkipDone \/ SelectFails \/ Stop
  <2>1. /\ UNCHANGED <<uart, slaveVars>>
        /\ <<step, step'>> \in
             {<<"check", "skip">>, <<"check", "idle">>, <<"wait", "idle">>,
              <<"skip", "idle">>, <<"idle", "stopped">>,
              <<"wait", "stopped">>}
    BY <1>3 DEF CheckAnswer, AfterAnswer, Timeout, SkipDone, AfterQuiet,
                SelectFails, Stop
  <2>2. PiecesToCome' = PiecesToCome
    BY <2>1 DEF PiecesToCome, slaveVars
  <2> QED
    BY <1>1, <2>1, <2>2 DEF StepsToStop
<1>4. CASE WriteRequest
  <2>1. /\ step = "send" /\ step' = "wait" /\ UNCHANGED uart
        /\ UNCHANGED slaveVars \/ (slave = 0 /\ slave_sent' = 0)
    BY <1>4 DEF WriteRequest, Arrives
  <2>2. \/ PiecesToCome' = PiecesToCome
        \/ PiecesToCome' = PiecesToCome + Pieces
    BY <1>1, <2>1 DEF PiecesToCome, slaveVars
  <2> QED
    BY <1>1, <2>1, <2>2 DEF StepsToStop
<1> QED
  BY <1>2, <1>3, <1>4 DEF Master, BuildRequest, ReadAvailable

\* Once the flag is set the master stops after at most three steps, one for
\* each piece that is still to come and, when the flag found it sending, one
\* for each piece of the answer to that request: each of its steps brings it
\* nearer, and none of the slave or of the line takes it farther away.  The
\* loops that never look at the flag are included (modbus_rtu_read_registers).
\* While the UART fails, two of them hold the master where it is, and then it
\* need not stop at all.  This is what ShutdownStops rests on, besides the
\* fairness of the master's thread and a UART that recovers.
THEOREM ShutdownIsNear ==
  Spec => /\ [](StepsToStop \in 0 .. PiecesToCome + Pieces + 3)
          /\ [][shutdown_flag =>
                  /\ shutdown_flag' /\ StepsToStop' <= StepsToStop
                  /\ Master => /\ ~HeldByTheUart
                               /\ StepsToStop' < StepsToStop]_vars
<1>1. LinkInv => StepsToStop \in 0 .. PiecesToCome + Pieces + 3
  BY StepsToStopRange
<1>2. LinkInv /\ [Next]_vars
        => [shutdown_flag => /\ shutdown_flag' /\ StepsToStop' <= StepsToStop
                             /\ Master => /\ ~HeldByTheUart
                                          /\ StepsToStop' < StepsToStop]_vars
  <2> SUFFICES ASSUME LinkInv, Next, shutdown_flag
               PROVE  /\ shutdown_flag' /\ StepsToStop' <= StepsToStop
                      /\ Master => /\ ~HeldByTheUart
                                   /\ StepsToStop' < StepsToStop
    OBVIOUS
  <2>1. /\ StepsToStop \in Int /\ PiecesToCome \in Nat
        /\ step \in {"idle", "send", "wait", "check", "skip", "stopped",
                    "overrun"}
    BY StepsToStopRange, PiecesAreCounted
  <2>2. StepsToStop' \in Int
    <3>1. LinkInv'
      BY LinkNext
    <3>2. (/\ PiecesToCome \in Nat
           /\ StepsToStop \in 0 .. PiecesToCome + Pieces + 3)'
      BY <3>1, StepsToStopRange, PiecesAreCounted, PTL
    <3> QED
      BY <3>2
  <2>3. CASE Master \/ SelectFails
    <3>1. shutdown_flag'
      BY <2>3 DEF Master, BuildRequest, WriteRequest, ReadAvailable,
                  CheckAnswer, Timeout, SkipData, SkipDone, SelectFails, Stop,
                  flags
    <3>2. Master => ~HeldByTheUart
      BY DEF HeldByTheUart, Master, BuildRequest, WriteRequest, ReadAvailable,
             CheckAnswer, Timeout, SkipData, SkipDone, Stop
    <3> QED
      BY <2>1, <2>2, <2>3, <3>1, <3>2, MasterIsNearer
  <2>4. CASE (SendPiece \/ GiveUp \/ UartFailsOrRecovers) /\ ~Master
    <3>1. PiecesToCome' <= PiecesToCome /\ step' = step
      BY <2>4, LineIsNoFarther
    <3>2. shutdown_flag' /\ PiecesToCome' \in Int
      <4>1. shutdown_flag'
        BY <2>4 DEF SendPiece, GiveUp, UartFailsOrRecovers, flags
      <4>2. LinkInv'
        BY LinkNext
      <4>3. (PiecesToCome \in Nat)'
        BY <4>2, PiecesAreCounted, PTL
      <4> QED
        BY <4>1, <4>3
    <3> QED
      BY <2>1, <2>4, <3>1, <3>2 DEF StepsToStop
  <2> QED
    BY <2>3, <2>4 DEF Next, SetShutdownFlag
<1> QED
  BY <1>1, <1>2, LinkInvariant, PTL DEF Spec
=============================================================================
