--------------------------- MODULE ModbusCollector ---------------------------
(***************************************************************************)
(* The Modbus collector's loop and the UDP thread that sets the clock      *)
(* under it (data-collector-demo3/src/modbus-rtu/modbus-rtu.c and          *)
(* src/public/public-udp-collector.c).  The collector reads every device   *)
(* whose time has come, keeps the samples of a period, and at the end of   *)
(* the period saves their average, or the latest one, together with the    *)
(* last public packet.                                                     *)
(*                                                                         *)
(* One tick of `now' is the smallest interval of the configuration; the    *)
(* loop, which goes round every 5 ms, goes round once a tick, and reading  *)
(* a device takes up to one tick.  A sample is its number; a public packet *)
(* is its number, written and read in two parts.  How registers are read   *)
(* is in ModbusLink, how records reach the disk in FileStorage, and how    *)
(* statements reach the database in MysqlExecutor.                         *)
(***************************************************************************)
EXTENDS Integers, Sequences, FiniteSets

CONSTANTS Configurations,   \* sequences of device types: "oil", "module", "gateway"
          CollectInterval, PublishInterval,
          Slack,            \* a schedule this many intervals ahead is given up
          TimeSyncWaitsMax,
          BootOffsets(_),   \* how wrong the clock may be at boot, given them
          MaxTime,          \* bound: the last tick
          MaxPackets,       \* bound: public packets received
          MaxBadReads       \* bound: readings that fail or carry an error code

ASSUME IntervalsAssumption ==
         {CollectInterval, PublishInterval, Slack} \subseteq Nat \ {0}
ASSUME ConfigurationsAssumption ==
         \A c \in Configurations :
           c \in Seq({"oil", "module", "gateway"}) /\ c # <<>>
ASSUME OffsetsAssumption ==
         \A c \in Configurations : BootOffsets(c) \subseteq Int
ASSUME CollectorBoundsAssumption ==
         {TimeSyncWaitsMax, MaxTime, MaxPackets, MaxBadReads} \subseteq Nat

NoSample == 0   \* what an unused slot and an error record hold
NoPacket == 0   \* the zeroed public_packet
NothingReceived == [id |-> NoPacket, time_valid |-> FALSE, long |-> FALSE]
Garbage == -1   \* what is read from the freed context

VARIABLES
  devices,           \* their types, fixed at start-up
  now, offset,       \* real time, and how far the clock is ahead of it
  collector,         \* what the collecting thread does next
  device,            \* the device of its loops
  time_now_millis,   \* the clock when the round began
  context,           \* modbus_rtu_device_context_t of each device
  next_publish_time,
  time_sync_waits,
  copied,            \* the first part of the packet it copies
  record,            \* the last record saved in this round
  bad_reads,
  udp,               \* what the UDP thread does next
  incoming,          \* the packet it has received
  received,          \* packets received so far
  public_context,    \* "live", or "freed" when the socket could not be bound
  public_packet, time_synchronized, public_mutex,
  \* For the properties only:
  taken, fresh,      \* samples of a device so far, and since the last period
  flagged,           \* samples a module sent with an error code
  read_at,           \* when each device was last tried
  published_at

schedule == <<device, time_now_millis, context, next_publish_time>>
saving == <<time_sync_waits, copied, record>>
public == <<public_packet, time_synchronized, public_context>>
udp_thread == <<udp, incoming, received>>
samples == <<taken, fresh, flagged, bad_reads>>
times == <<read_at, published_at>>
collectorVars == <<devices, now, offset, collector, schedule, saving,
                   udp_thread, public, public_mutex, samples, times>>

Clock == now + offset
DeviceIds == 1 .. Len(devices)
MetricsListSize == PublishInterval \div CollectInterval + 2
Slots == 0 .. MetricsListSize - 1
SampleIds == 1 .. MaxTime + 1
NoRecord == [device |-> 0, samples |-> {}, first |-> NoPacket,
             second |-> NoPacket]

CollectorTypeOK ==
  /\ devices \in Configurations /\ now \in 0 .. MaxTime
  /\ collector \in {"loop", "collect", "reading", "answer", "publish",
                    "average", "lock", "copied", "asleep"}
  /\ device \in DeviceIds
  /\ context \in [DeviceIds -> [next : Int, index : Slots,
                                count : 0 .. MetricsListSize,
                                list : [Slots -> SampleIds \cup {NoSample}]]]
  /\ time_sync_waits \in 0 .. TimeSyncWaitsMax
  /\ record.samples \subseteq SampleIds
  /\ udp \in {"start", "receive", "lock", "updating", "set_time",
              "unlock", "exited"}
  /\ public_context \in {"live", "freed"} /\ time_synchronized \in BOOLEAN
  /\ public_mutex \in {"free", "collector", "udp"}
  /\ fresh \in [DeviceIds -> Nat] /\ taken \in [DeviceIds -> Nat]

CollectorInit ==
  /\ devices \in Configurations /\ now = 0 /\ offset \in BootOffsets(devices)
  /\ collector = "loop" /\ device = 1 /\ time_now_millis = 0
  /\ context = [d \in DeviceIds |->
                  [next |-> 0, index |-> 0, count |-> 0,
                   list |-> [i \in Slots |-> NoSample]]]
  /\ next_publish_time = 0 /\ time_sync_waits = 0 /\ copied = NoPacket
  /\ record = NoRecord
  /\ bad_reads = 0
  /\ udp = "start" /\ received = 0
  /\ incoming = NothingReceived
  /\ public_context = "live" /\ time_synchronized = FALSE
  /\ public_packet = [first |-> NoPacket, second |-> NoPacket]
  /\ public_mutex = "free"
  /\ taken = [d \in DeviceIds |-> 0] /\ fresh = [d \in DeviceIds |-> 0]
  /\ flagged = {}
  /\ read_at = [d \in DeviceIds |-> 0] /\ published_at = 0

\* public_udp_context_mutex, which both threads take around the packet.
Lock(thread) == public_mutex = "free" /\ public_mutex' = thread
Unlock == public_mutex' = "free"

-----------------------------------------------------------------------------
(* The collecting thread.                                                  *)

\* Without the second half, as if the clock never were set.
DueInOrder(next, interval) == time_now_millis >= next

\* The time has come, or it is so far ahead that the clock must have been
\* set back.
Due(next, interval) ==
  \/ time_now_millis >= next
  \/ next - time_now_millis > interval * Slack

\* On to the next device of the loop, or to what follows the loop.
NextDevice(again, after) ==
  IF device < Len(devices) THEN collector' = again /\ device' = device + 1
                           ELSE collector' = after /\ device' = 1

StartRound ==
  /\ collector = "loop" /\ collector' = "collect" /\ device' = 1
  /\ time_now_millis' = Clock /\ record' = NoRecord
  /\ UNCHANGED <<devices, now, offset, context, next_publish_time,
                 time_sync_waits, copied, udp_thread, public, public_mutex,
                 samples, times>>

SkipDevice ==
  /\ collector = "collect"
  /\ ~Due(context[device].next, CollectInterval)
  /\ NextDevice("collect", "publish")
  /\ UNCHANGED <<devices, now, offset, time_now_millis, context,
                 next_publish_time, saving, udp_thread, public, public_mutex,
                 samples, times>>

StartReading ==
  /\ collector = "collect" /\ Due(context[device].next, CollectInterval)
  /\ collector' = "reading"
  /\ read_at' = [read_at EXCEPT ![device] = now]
  /\ UNCHANGED <<devices, now, offset, schedule, saving, udp_thread, public,
                 public_mutex, samples, published_at>>

\* A device context after a good reading of sample s: the slot, its index
\* and the count, which stops at the size of the list.
WithSample(c, s) ==
  [c EXCEPT !.list[c.index] = s,
            !.index = (c.index + 1) % MetricsListSize,
            !.count = IF c.count < MetricsListSize THEN c.count + 1 ELSE c.count]

Rescheduled(c) == [c EXCEPT !.next = time_now_millis + CollectInterval]

\* The sample of a good answer goes to its slot.
KeepSample ==
  /\ collector \in {"reading", "answer"}
  /\ LET s == taken[device] + 1
     IN  /\ context' = [context EXCEPT ![device] =
                          Rescheduled(WithSample(@, s))]
         /\ taken' = [taken EXCEPT ![device] = s]
         /\ fresh' = [fresh EXCEPT ![device] = @ + 1]
  /\ NextDevice("collect", "publish")
  /\ UNCHANGED <<devices, now, offset, time_now_millis, next_publish_time,
                 saving, udp_thread, public, public_mutex, times>>

CollectOilSensor ==
  /\ devices[device] = "oil" /\ KeepSample
  /\ UNCHANGED <<flagged, bad_reads>>

\* A module may mark the sample with an error code.
CollectModule ==
  /\ devices[device] = "module" /\ KeepSample
  /\ \/ UNCHANGED <<flagged, bad_reads>>
     \/ /\ bad_reads < MaxBadReads /\ bad_reads' = bad_reads + 1
        /\ flagged' = flagged \cup {<<device, taken'[device]>>}

\* The registers always have a length that can be decoded.
CollectDemo3Gateway ==
  /\ devices[device] = "gateway" /\ KeepSample
  /\ UNCHANGED <<flagged, bad_reads>>

\* No answer, or not a good one: the slot is written by the next reading.
FailReading ==
  /\ collector \in {"reading", "answer"}
  /\ bad_reads < MaxBadReads /\ bad_reads' = bad_reads + 1
  /\ context' = [context EXCEPT ![device] = Rescheduled(@)]
  /\ NextDevice("collect", "publish")
  /\ UNCHANGED <<devices, now, offset, time_now_millis, next_publish_time,
                 saving, udp_thread, public, public_mutex, taken, fresh,
                 flagged, times>>

DoNotPublish ==
  /\ collector = "publish" /\ ~Due(next_publish_time, PublishInterval)
  /\ collector' = "asleep"
  /\ UNCHANGED <<devices, now, offset, schedule, saving, udp_thread, public,
                 public_mutex, samples, times>>

StartPublishing ==
  /\ collector = "publish" /\ Due(next_publish_time, PublishInterval)
  /\ next_publish_time' = time_now_millis + PublishInterval
  /\ collector' = "average" /\ device' = 1 /\ published_at' = now
  /\ UNCHANGED <<devices, now, offset, time_now_millis, context, saving,
                 udp_thread, public, public_mutex, samples, read_at>>

\* The slots that count, and what is in them.
Counted(c) == {c.list[i] : i \in 0 .. c.count - 1}

AverageOfAll(c) == Counted(c)

\* A module's average leaves out the samples that carry an error code.
Average(c) ==
  {s \in Counted(c) : ~(devices[device] = "module" /\ <<device, s>> \in flagged)}

\* The gateway's latest sample is in the slot before the index.
LatestIndex(c) == IF c.index = 0 THEN MetricsListSize - 1 ELSE c.index - 1

\* The index and the count of the device start again with the next period.
EndOfPeriod(c) == [c EXCEPT !.index = 0, !.count = 0]

FinishDevice ==
  /\ context' = [context EXCEPT ![device] = EndOfPeriod(@)]
  /\ fresh' = [fresh EXCEPT ![device] = 0]
  /\ NextDevice("average", "asleep")

\* The sample is written to every storage; one that fails does not keep it
\* from the others.
SaveDemo3Sample(kept) ==
  record' = [device |-> device, samples |-> kept,
             first |-> NoPacket, second |-> NoPacket]

\* The gateway's latest sample goes to the files, or an error record.
SaveGatewaySample ==
  /\ collector = "average" /\ devices[device] = "gateway"
  /\ LET c == context[device]
     IN  SaveDemo3Sample(IF c.count > 0 THEN {c.list[LatestIndex(c)]} ELSE {})
  /\ FinishDevice
  /\ UNCHANGED <<devices, now, offset, time_now_millis, next_publish_time,
                 time_sync_waits, copied, udp_thread, public, public_mutex,
                 taken, flagged, bad_reads, times>>

\* One row, handed to the executor, which may refuse it.
SaveCollectModuleMetrics(averaged) ==
  record' = [device |-> device, samples |-> averaged,
             first |-> NoPacket, second |-> NoPacket]

\* A module's average goes to the database.
SaveModuleMetrics ==
  /\ collector = "average" /\ devices[device] = "module"
  /\ context[device].count > 0
  /\ SaveCollectModuleMetrics(Average(context[device]))
  /\ FinishDevice
  /\ UNCHANGED <<devices, now, offset, time_now_millis, next_publish_time,
                 time_sync_waits, copied, udp_thread, public, public_mutex,
                 taken, flagged, bad_reads, times>>

\* Nothing was read in this period.
SaveNothing ==
  /\ collector = "average" /\ devices[device] \in {"oil", "module"}
  /\ context[device].count = 0
  /\ FinishDevice
  /\ UNCHANGED <<devices, now, offset, time_now_millis, next_publish_time,
                 saving, udp_thread, public, public_mutex, taken, flagged,
                 bad_reads, times>>

OilIsReady ==
  collector = "average" /\ devices[device] = "oil" /\ context[device].count > 0

\* What time_synchronized may read as: anything in the freed context.
Synchronized == IF public_context = "live" THEN {time_synchronized} ELSE BOOLEAN

\* The record is dropped while the clock is not yet right.
WaitForTimeSync ==
  /\ OilIsReady /\ FALSE \in Synchronized
  /\ time_sync_waits < TimeSyncWaitsMax
  /\ time_sync_waits' = time_sync_waits + 1
  /\ FinishDevice
  /\ UNCHANGED <<devices, now, offset, time_now_millis, next_publish_time,
                 copied, record, udp_thread, public, public_mutex, taken,
                 flagged, bad_reads, times>>

SaveOilMetrics ==
  /\ OilIsReady
  /\ TRUE \in Synchronized \/ time_sync_waits >= TimeSyncWaitsMax
  /\ collector' = "lock"
  /\ UNCHANGED <<devices, now, offset, schedule, saving, udp_thread, public,
                 public_mutex, samples, times>>

CopyFirstPart ==
  /\ collector = "lock" /\ collector' = "copied"
  /\ copied' = IF public_context = "live" THEN public_packet.first ELSE Garbage
  /\ UNCHANGED <<devices, now, offset, schedule, time_sync_waits, record,
                 udp_thread, public, samples, times>>

LockPacketNever == CopyFirstPart /\ UNCHANGED public_mutex

\* Nobody sees the moment between the lock and the first copy.
LockPacket == Lock("collector") /\ CopyFirstPart

\* The rest of the packet, the unlock, the files and the database.
CopyRestAndSave ==
  /\ collector = "copied"
  /\ record' = [device |-> device, samples |-> Average(context[device]),
                first |-> copied,
                second |-> IF public_context = "live" THEN public_packet.second
                                                      ELSE Garbage]
  /\ Unlock /\ copied' = NoPacket
  /\ FinishDevice
  /\ UNCHANGED <<devices, now, offset, time_now_millis, next_publish_time,
                 time_sync_waits, udp_thread, public, taken, flagged, bad_reads,
                 times>>

-----------------------------------------------------------------------------
(* The UDP thread.                                                         *)

BindSocket ==
  /\ udp = "start" /\ udp' = "receive"
  /\ UNCHANGED <<devices, now, offset, collector, schedule, saving, incoming,
                 received, public, public_mutex, samples, times>>

\* The context is freed, and the pointer to it kept.
FailToBind ==
  /\ udp = "start" /\ udp' = "exited" /\ public_context' = "freed"
  /\ UNCHANGED <<devices, now, offset, collector, schedule, saving, incoming,
                 received, public_packet, time_synchronized, public_mutex,
                 samples, times>>

\* A packet that passed the checks of its length, header, type and sum; the
\* others change nothing.  Its train number may fill all of train_no.
Receive ==
  /\ udp = "receive" /\ received < MaxPackets
  /\ received' = received + 1 /\ udp' = "lock"
  /\ \E valid, full \in BOOLEAN :
       incoming' = [id |-> received + 1, time_valid |-> valid, long |-> full]
  /\ UNCHANGED <<devices, now, offset, collector, schedule, saving, public,
                 public_mutex, samples, times>>

\* The lock and the first fields.
UpdateFirstPart ==
  /\ udp = "lock" /\ Lock("udp") /\ udp' = "updating"
  /\ public_packet' = [public_packet EXCEPT !.first = incoming.id]
  /\ UNCHANGED <<devices, now, offset, collector, schedule, saving, incoming,
                 received, time_synchronized, public_context, samples, times>>

\* train_no comes last.  It has eight bytes: the NUL that strcpy adds to
\* eight characters falls on the field that follows, time_synchronized.
UpdateTrainNo ==
  /\ udp = "updating" /\ udp' = "set_time"
  /\ public_packet' = [public_packet EXCEPT !.second = incoming.id]
  /\ time_synchronized' \in IF incoming.long THEN {FALSE, time_synchronized}
                                             ELSE {time_synchronized}
  /\ UNCHANGED <<devices, now, offset, collector, schedule, saving, incoming,
                 received, public_context, public_mutex, samples, times>>

KeepTime ==
  /\ udp = "set_time" /\ udp' = "unlock"
  /\ time_synchronized \/ ~incoming.time_valid
  /\ UNCHANGED <<devices, now, offset, collector, schedule, saving, incoming,
                 received, public, public_mutex, samples, times>>

AfterFailedSetTimeReturn == "receive"

\* The step after a set_time that failed: the mutex is released all the same.
AfterFailedSetTime == "unlock"

\* "Sync time on boot": the time may be out of range or refused by the
\* system, and it may be set but not saved to the hardware clock.
SetTime ==
  /\ udp = "set_time" /\ ~time_synchronized /\ incoming.time_valid
  /\ \/ udp' = AfterFailedSetTime
        /\ UNCHANGED <<offset, time_synchronized>>
     \/ offset' = 0 /\ udp' = AfterFailedSetTime
        /\ UNCHANGED <<time_synchronized>>
     \/ /\ offset' = 0 /\ time_synchronized' = TRUE
        /\ udp' = "unlock"
  /\ UNCHANGED <<devices, now, collector, schedule, saving, incoming, received,
                 public_packet, public_context, public_mutex, samples, times>>

UdpUnlock ==
  /\ udp = "unlock" /\ udp' = "receive" /\ Unlock
  /\ incoming' = NothingReceived
  /\ UNCHANGED <<devices, now, offset, collector, schedule, saving, received,
                 public, samples, times>>

-----------------------------------------------------------------------------
\* Time passes while the loop sleeps and once during a reading.
Tick ==
  /\ now < MaxTime /\ udp \in {"receive", "exited"}
  /\ \/ collector = "asleep" /\ collector' = "loop"
     \/ collector = "reading" /\ collector' = "answer"
  /\ now' = now + 1
  /\ UNCHANGED <<devices, offset, schedule, saving, udp_thread, public,
                 public_mutex, samples, times>>

Collect == StartRound \/ SkipDevice \/ StartReading \/ CollectOilSensor
             \/ CollectModule \/ CollectDemo3Gateway \/ FailReading
SaveOil == WaitForTimeSync \/ SaveOilMetrics \/ LockPacket
             \/ CopyRestAndSave
PublishMetrics == DoNotPublish \/ StartPublishing \/ SaveGatewaySample
                    \/ SaveModuleMetrics \/ SaveNothing \/ SaveOil
HandlePacket == UpdateFirstPart \/ UpdateTrainNo \/ KeepTime
                  \/ SetTime \/ UdpUnlock
CollectorNext ==
  Collect \/ PublishMetrics \/ BindSocket \/ FailToBind \/ Receive
    \/ HandlePacket \/ Tick

\* Both threads are scheduled, and the calls they make return.
CollectorSpec == /\ CollectorInit /\ [][CollectorNext]_collectorVars
                 /\ WF_collectorVars(Collect \/ PublishMetrics)
                 /\ WF_collectorVars(HandlePacket)

-----------------------------------------------------------------------------
(* Properties.                                                             *)

\* However the clock is set, a device is tried again and a period ended
\* after at most Slack + 1 intervals, and the readings of the rounds at both
\* ends and at the setting: the comparison "too long from now since the time
\* synchronization".
SettingTheClockDelaysLittle ==
  /\ \A d \in DeviceIds :
       now - read_at[d] <= (Slack + 1) * CollectInterval + 3 * Len(devices) - 1
  /\ now - published_at <= (Slack + 1) * PublishInterval + 3 * Len(devices)

\* The samples a record of device d has to hold: the newest of the period as
\* far as the list reaches, the last one for a gateway, and for a module
\* only those without an error code.
Expected(d) ==
  LET kept == IF devices[d] = "gateway" THEN 1 ELSE MetricsListSize
  IN  {s \in SampleIds : /\ s <= taken[d] /\ s > taken[d] - fresh[d]
                         /\ s > taken[d] - kept
                         /\ ~(devices[d] = "module" /\ <<d, s>> \in flagged)}

\* A record holds the samples of its own period, none twice and none of an
\* earlier one, whatever was missed and however long the period became.
RecordsHoldTheirPeriod ==
  [][record' \notin {record, NoRecord}
        => record'.samples = Expected(record'.device)]_collectorVars

\* The public packet in a record is one packet, not parts of two.
PacketIsWhole ==
  /\ CollectorTypeOK
  /\ public_context = "live" => record.first = record.second

\* A thread that wants the public packet gets it, even when the clock could
\* not be set or the UDP thread has gone.
RoundsEnd == collector # "asleep" ~> collector = "asleep"

=============================================================================
