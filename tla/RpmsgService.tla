---------------------------- MODULE RpmsgService ----------------------------
(***************************************************************************)
(* The A53 service that takes the M4's sample frames from the RPMsg device *)
(* and hands every sample to the two storages, the CAN bus and the MQTT    *)
(* broker, and keeps a status file for whoever watches the collector       *)
(* (data-collector-demo3/src/bridge/demo3_rpmsg_service.c, with the        *)
(* reader, the endpoints and the runtime status it calls).                 *)
(*                                                                         *)
(* The thread does one thing after the other; around it the M4 publishes,  *)
(* the link goes away, the broker closes the connection, disks and buses   *)
(* refuse a write, and SIGINT ends the process at any point.  One action   *)
(* per system call whose effect outlives the call.                         *)
(***************************************************************************)
EXTENDS Integers, Sequences, FiniteSets

CONSTANTS Configurations,  \* <<CAN, MQTT, status file>> enabled or not, and
                           \* whether main has staged an update
          CanFrames,  \* DEMO3_CAN_FRAME_COUNT, frames of one sample's group
          MaxFrames,  \* bound: frames the M4 publishes
          MaxInvalid  \* bound: frames counted as invalid once the link is down

ASSUME ConfigurationsAssumption ==
         Configurations \subseteq BOOLEAN \X BOOLEAN \X BOOLEAN \X BOOLEAN
ASSUME CanFramesAssumption == CanFrames \in Nat \ {0}
ASSUME BoundsAssumption == MaxFrames \in Nat /\ MaxInvalid \in Nat

VARIABLES
  queue,         \* frames the kernel holds for the RPMsg device
  published,     \* frames the M4 has published
  link,          \* "down": poll answers POLLERR or POLLHUP from now on
  broker,        \* "closed": the peer has closed the MQTT connection,
                 \* "reset": and has answered what was sent after that,
                 \* "stalled": it keeps the connection and reads no more
  step,          \* what the thread does next
  after,         \* what it does after writing the status file
  sample,        \* sequence number of the sample being handed out
  sent,          \* CAN frames or MQTT parts of the sample sent so far
  failed,        \* result # 0 in store_sample
  can_enabled, mqtt_enabled, status_enabled,
  disabled,      \* storage_contexts[].disabled
  status,        \* demo3_runtime_status_t
  disk,          \* per storage, the records in its data files
  bus,           \* CAN frames sent: <<sample, index in the group>>
  stream,        \* MQTT parts that reached the broker: <<sample, part>>
  file, tmp      \* the status file and the file it is written to first

outputs == <<disk, bus, stream>>
environment == <<queue, published, link, broker>>
flags == <<can_enabled, mqtt_enabled, status_enabled, disabled>>
files == <<file, tmp>>
vars == <<environment, step, after, sample, sent, failed, flags, status,
          outputs, files>>

Storages == {"local", "sd"}
Samples == 1 .. MaxFrames
MqttParts == 4  \* header, topic length, topic, payload: one send_all each

Counters == {"ota_staged", "received_frames", "stored_samples", "can_sent_samples",
             "mqtt_sent_samples", "invalid_frames", "storage_errors",
             "can_errors", "mqtt_errors"}
ErrorCounters == {"invalid_frames", "storage_errors", "can_errors",
                  "mqtt_errors"}

Messages == {"", "rpmsg_open_error", "storage_init_error", "rpmsg_frame_error",
             "storage_error", "can_error", "mqtt_error"}

Statuses == [ok: BOOLEAN, last_error: Messages,
             count: [Counters -> 0 .. MaxFrames + MaxInvalid + 1]]
Absent == [ok |-> "no file"]
Partial == [ok |-> "half written"]
Earlier == [ok |-> "earlier process"]  \* a whole status, of another process

TypeOK ==
  /\ queue \in Seq(Samples \X BOOLEAN) /\ published \in 0 .. MaxFrames
  /\ link \in {"up", "down"} /\ broker \in {"open", "stalled", "closed", "reset"}
  /\ step \in {"open", "init_storage", "open_can", "open_mqtt",
               "handshake", "poll", "local", "sd", "can", "mqtt", "error", "write", "close",
               "rename", "ended", "killed"}
  /\ after \in {"open", "poll", "error", "ended"}
  /\ sample \in 0 .. MaxFrames
  /\ sent \in 0 .. (CanFrames + MqttParts)
  /\ {failed, can_enabled, mqtt_enabled, status_enabled} \subseteq BOOLEAN
  /\ disabled \in [Storages -> BOOLEAN]
  /\ status \in Statuses
  /\ disk \in [Storages -> Seq(Samples \X {"whole", "torn"})]
  /\ bus \in Seq(Samples \X (0 .. CanFrames - 1))
  /\ stream \in Seq(Samples \X (0 .. MqttParts - 1))
  /\ file \in Statuses \cup {Absent, Partial, Earlier}
  /\ tmp \in Statuses \cup {Absent, Partial}

-----------------------------------------------------------------------------
(* demo3_runtime_status: counters and the error they end in.               *)

Counted(st, counter) == [st EXCEPT !.count[counter] = @ + 1]
WithError(st, message) ==
  [st EXCEPT !.ok = FALSE, !.last_error = message]

\* record_storage, record_can, record_mqtt.
Record(st, done, errors, message, succeeded) ==
  IF succeeded THEN Counted(st, done)
  ELSE WithError(Counted(st, errors), message)

\* A staged update is recorded before the status is first written.
InitialStatus(staged) ==
  [ok |-> TRUE, last_error |-> "",
   count |-> [c \in Counters |-> IF c = "ota_staged" /\ staged THEN 1 ELSE 0]]

\* Goes to write the status file, if there is one, and then to next.
WriteStatusThen(next) ==
  /\ step' = IF status_enabled THEN "write" ELSE next
  /\ after' = next

Init ==
  /\ queue = <<>> /\ published = 0 /\ link = "up" /\ broker = "open"
  /\ sample = 0 /\ sent = 0 /\ failed = FALSE
  /\ \E configuration \in Configurations :
       /\ can_enabled = configuration[1]
       /\ mqtt_enabled = configuration[2]
       /\ status_enabled = configuration[3]
       /\ status = InitialStatus(configuration[4])
  /\ disabled = [l \in Storages |-> FALSE]
  /\ step = IF status_enabled THEN "write" ELSE "open"
  /\ after = "open"
  /\ disk = [l \in Storages |-> <<>>] /\ bus = <<>> /\ stream = <<>>
  \* What an earlier process left, which may have been killed, is not removed;
  \* it matters only where this one writes.
  /\ file \in IF status_enabled THEN {Absent, Earlier} ELSE {Absent}
  /\ tmp \in IF status_enabled THEN {Absent, Partial} ELSE {Absent}

-----------------------------------------------------------------------------
(* run_collector before its loop.                                          *)

OpenDevice ==
  /\ step = "open"
  /\ \/ step' = "init_storage" /\ UNCHANGED <<after, status>>
     \/ /\ status' = WithError(status, "rpmsg_open_error")
        /\ WriteStatusThen("ended")
  /\ UNCHANGED <<environment, sample, sent, failed, flags, outputs, files>>

\* Only the SD card's path can be found unmounted and be disabled.
InitStorage ==
  /\ step = "init_storage"
  /\ \/ /\ step' = "open_can"
        /\ \E unmounted \in BOOLEAN :
             disabled' = [disabled EXCEPT !["sd"] = unmounted]
        /\ UNCHANGED <<after, status>>
     \/ /\ status' = WithError(status, "storage_init_error")
        /\ WriteStatusThen("ended")
        /\ UNCHANGED disabled
  /\ UNCHANGED <<environment, sample, sent, failed, can_enabled, mqtt_enabled,
                 status_enabled, outputs, files>>

OpenCan ==
  /\ step = "open_can"
  /\ step' = "open_mqtt"
  /\ can_enabled' \in {FALSE, can_enabled}
  /\ UNCHANGED <<environment, after, sample, sent, failed, mqtt_enabled,
                 status_enabled, disabled, status, outputs, files>>

\* The name is looked up and a connection made; a broker that is there may
\* already hang or have closed it again.
OpenMqtt ==
  /\ step = "open_mqtt"
  /\ \/ /\ mqtt_enabled
        /\ step' = "handshake"
        /\ broker' \in {"open", "stalled", "closed"}
        /\ UNCHANGED mqtt_enabled
     \/ /\ step' = "poll"
        /\ mqtt_enabled' = FALSE
        /\ UNCHANGED broker
  /\ UNCHANGED <<queue, published, link, after, sample, sent, failed,
                 can_enabled, status_enabled, disabled, status, outputs, files>>

\* CONNECT is sent and the four bytes of the CONNACK are waited for, for any
\* time: a broker that accepts the connection and does not answer keeps the
\* thread here.
Handshake ==
  /\ step = "handshake" /\ broker # "stalled"
  /\ \/ broker = "open" /\ UNCHANGED mqtt_enabled
     \/ mqtt_enabled' = FALSE  \* refused, or the connection closed
  /\ step' = "poll"
  /\ UNCHANGED <<environment, after, sample, sent, failed, can_enabled,
                 status_enabled, disabled, status, outputs, files>>

-----------------------------------------------------------------------------
(* demo3_rpmsg_reader_step.  A timeout or EINTR returns 0: the loop polls  *)
(* again and nothing has changed.                                          *)

\* demo3_rpmsg_process_frame: what cannot be decoded goes no further.
ProcessFrame(seq, intact) ==
  \/ /\ intact
     /\ sample' = seq /\ failed' = FALSE /\ step' = "local"
     /\ status' = Counted(status, "received_frames")
  \/ /\ ~intact
     /\ step' = "error"
     /\ UNCHANGED <<sample, failed, status>>

ReadFrame ==
  /\ step = "poll" /\ link = "up" /\ queue # <<>>
  /\ queue' = Tail(queue)
  /\ LET seq == Head(queue)[1]
         intact == Head(queue)[2]  \* length, header and CRC are right
     IN ProcessFrame(seq, intact)
  /\ UNCHANGED <<published, link, broker, after, sent, flags, outputs, files>>

\* The device is never opened again: every further poll fails at once.
ReadDeadLink ==
  /\ step = "poll" /\ link = "down"
  /\ status.count["invalid_frames"] < MaxInvalid
  /\ step' = "error"
  /\ UNCHANGED <<environment, after, sample, sent, failed, flags, status,
                 outputs, files>>

\* Mutant: the thread gives up after a failed step.
AfterError == "ended"

\* The loop goes on, after usleep(10000).
NextStepAfterError == "poll"

\* Any negative result of a step: also that of a sample an output refused.
CountError ==
  /\ step = "error"
  /\ status' = WithError(Counted(status, "invalid_frames"),
                         "rpmsg_frame_error")
  /\ WriteStatusThen(NextStepAfterError)
  /\ UNCHANGED <<environment, sample, sent, failed, flags, outputs, files>>

-----------------------------------------------------------------------------
(* store_sample: the storages, CAN, MQTT, in this order, whatever fails.   *)

\* Mutant: the last storage decides alone.
LastStorageDecides(earlier, outcome) == outcome \in {"torn", "lost"}

\* storage_result: some storage has failed.
StorageFailed(earlier, outcome) == earlier \/ outcome \in {"torn", "lost"}

\* file_storage_write on one storage.  A write may stop half way, and the
\* half record stays in the file.
Store(l, outcome) ==
  /\ outcome \in IF disabled[l] THEN {"skipped"} ELSE {"whole", "torn", "lost"}
  /\ disk' = [disk EXCEPT ![l] =
                IF outcome \in {"whole", "torn"}
                THEN Append(@, <<sample, outcome>>) ELSE @]
  /\ failed' = StorageFailed(failed, outcome)
  /\ UNCHANGED <<environment, after, sample, sent, flags, bus, stream, files>>

StoreLocal ==
  /\ step = "local"
  /\ step' = "sd"
  /\ \E outcome \in {"skipped", "whole", "torn", "lost"} :
       Store("local", outcome)
  /\ UNCHANGED status

StoreSd ==
  /\ step = "sd"
  /\ step' = "can"
  /\ \E outcome \in {"skipped", "whole", "torn", "lost"} : Store("sd", outcome)
  /\ status' = Record(status, "stored_samples", "storage_errors",
                      "storage_error", ~failed')

SendCanFrame ==
  /\ step = "can" /\ can_enabled /\ sent < CanFrames
  /\ bus' = Append(bus, <<sample, sent>>)
  /\ sent' = sent + 1
  /\ UNCHANGED <<environment, step, after, sample, failed, flags, status,
                 disk, stream, files>>

\* The group is complete, or a frame could not be written and the rest of
\* the group is given up.
CanResult == sent = CanFrames

EndCan ==
  /\ step = "can"
  /\ status' = IF can_enabled
               THEN Record(status, "can_sent_samples", "can_errors",
                           "can_error", CanResult)
               ELSE status
  /\ failed' = (failed \/ (can_enabled /\ ~CanResult))
  /\ step' = "mqtt"
  /\ sent' = 0
  /\ UNCHANGED <<environment, after, sample, flags, outputs, files>>

\* What is sent after the peer has closed goes nowhere, and is answered with
\* a reset.  A broker that reads no more blocks send() once the buffers are
\* full, which is when it counts as stalled here.
SendMqttPart ==
  /\ step = "mqtt" /\ mqtt_enabled /\ sent < MqttParts
  /\ \/ /\ broker = "open"
        /\ stream' = Append(stream, <<sample, sent>>)
        /\ UNCHANGED broker
     \/ /\ broker = "closed"
        /\ broker' \in {"closed", "reset"}
        /\ UNCHANGED stream
  /\ sent' = sent + 1
  /\ UNCHANGED <<queue, published, link, step, after, sample, failed, flags,
                 status, disk, bus, files>>

\* Mutant: a failed publication leaves the connection in use.
MqttStaysEnabled(whole) == mqtt_enabled

\* A failed publication closes the connection, which is never opened again.
MqttEnabledAfter(whole) == mqtt_enabled /\ whole

EndMqtt ==
  /\ step = "mqtt"
  /\ broker = "stalled" => ~mqtt_enabled \/ sent = MqttParts
  /\ LET whole == mqtt_enabled => sent = MqttParts
     IN /\ status' = IF mqtt_enabled
                     THEN Record(status, "mqtt_sent_samples", "mqtt_errors",
                                 "mqtt_error", whole)
                     ELSE status
        /\ mqtt_enabled' = MqttEnabledAfter(whole)
        /\ failed' = (failed \/ ~whole)
  /\ sent' = 0
  /\ WriteStatusThen(IF failed' THEN "error" ELSE "poll")
  /\ UNCHANGED <<environment, sample, can_enabled, status_enabled, disabled,
                 outputs, files>>

\* send() on a connection the peer has reset raises SIGPIPE, which neither
\* the flags of send nor a handler keep from ending the process.
BrokenPipe ==
  /\ step = "mqtt" /\ mqtt_enabled /\ sent < MqttParts /\ broker = "reset"
  /\ step' = "killed"
  /\ UNCHANGED <<environment, after, sample, sent, failed, flags, status,
                 outputs, files>>

-----------------------------------------------------------------------------
(* demo3_runtime_status_write: a temporary file, renamed once closed.      *)

\* Mutant: the temporary file is renamed although closing it failed.
CloseFailureIgnored == step' = "rename" /\ tmp' = Partial

\* fclose failed, a write did not reach the disk: the file is removed.
CloseFailure == step' = after /\ tmp' = Absent

OpenTemporary ==
  /\ step = "write"
  /\ \/ step' = "close" /\ tmp' = Partial
     \/ step' = after /\ UNCHANGED tmp
  /\ UNCHANGED <<environment, after, sample, sent, failed, flags, status,
                 outputs, file>>

CloseTemporary ==
  /\ step = "close"
  /\ \/ step' = "rename" /\ tmp' = status
     \/ CloseFailure
  /\ UNCHANGED <<environment, after, sample, sent, failed, flags, status,
                 outputs, file>>

RenameTemporary ==
  /\ step = "rename"
  /\ step' = after
  /\ tmp' = Absent
  /\ file' \in {tmp, file}
  /\ UNCHANGED <<environment, after, sample, sent, failed, flags, status,
                 outputs>>

-----------------------------------------------------------------------------
(* The environment.                                                        *)

\* The M4 publishes the frame of its next sample; it may arrive damaged.
Publish(intact) ==
  /\ published < MaxFrames
  /\ published' = published + 1
  /\ queue' = Append(queue, <<published', intact>>)
  /\ UNCHANGED <<link, broker, step, after, sample, sent, failed, flags,
                 status, outputs, files>>

\* Seen by poll() alone, so it is enough to let it happen before one.
LinkFails ==
  /\ link = "up" /\ step = "poll"
  /\ link' = "down"
  /\ UNCHANGED <<queue, published, broker, step, after, sample, sent, failed,
                 flags, status, outputs, files>>

\* Seen by send() and recv() alone, so it is enough to let it happen before
\* one.  A stalled broker may be stopped in the end, or stay as it is.
BrokerFails ==
  /\ step \in {"handshake", "mqtt"}
  /\ \/ broker = "open" /\ broker' \in {"stalled", "closed"}
     \/ broker = "stalled" /\ broker' = "closed"
  /\ UNCHANGED <<queue, published, link, step, after, sample, sent, failed,
                 flags, status, outputs, files>>

\* The SIGINT handler ends in exit(0), wherever the thread is.
Kill ==
  /\ step' = "killed"
  /\ UNCHANGED <<environment, after, sample, sent, failed, flags, status,
                 outputs, files>>

Service ==
  \/ OpenDevice \/ InitStorage \/ OpenCan \/ OpenMqtt
  \/ Handshake
  \/ ReadFrame \/ ReadDeadLink \/ CountError
  \/ StoreLocal \/ StoreSd \/ SendCanFrame \/ EndCan
  \/ SendMqttPart \/ EndMqtt \/ BrokenPipe
  \/ OpenTemporary \/ CloseTemporary \/ RenameTemporary

Environment ==
  \/ \E intact \in BOOLEAN : Publish(intact)
  \/ LinkFails \/ BrokerFails \/ Kill

\* Once the process is gone nothing it can be seen by changes any more.
Next == Service \/ (step # "killed" /\ Environment)

\* The kernel keeps scheduling the thread; nothing is asked of the rest.
Spec == Init /\ [][Next]_vars /\ WF_vars(Service)

-----------------------------------------------------------------------------
(* Properties.                                                             *)

Whole(l) == {disk[l][i][1] : i \in {j \in DOMAIN disk[l] :
                                      disk[l][j][2] = "whole"}}
StoredEverywhere == {s \in Samples : \A l \in Storages :
                                       disabled[l] \/ s \in Whole(l)}
BeingStored == step \in {"local", "sd"} \/ (step = "killed" /\
                 status.count["received_frames"] =
                   status.count["stored_samples"] +
                   status.count["storage_errors"] + 1)

\* The counters in the status agree with what is on the disks: a sample
\* counts as stored exactly when every storage in use holds it whole, every
\* received sample ends in one of the two storage counters, and the status
\* is "ok" exactly while no error has been counted (store_sample and
\* demo3_runtime_status_record_storage).
StatusTellsTheTruth ==
  /\ TypeOK
  /\ status.count["received_frames"] =
       status.count["stored_samples"] + status.count["storage_errors"]
         + (IF BeingStored THEN 1 ELSE 0)
  /\ Cardinality(StoredEverywhere \ (IF BeingStored THEN {sample} ELSE {}))
       = status.count["stored_samples"]
  /\ step \notin {"ended", "killed", "write", "close", "rename"} =>
       (status.ok <=> \A c \in ErrorCounters : status.count[c] = 0)

CutGroups ==
  {s \in Samples : /\ \E i \in DOMAIN bus : bus[i][1] = s
                   /\ ~ \E i \in DOMAIN bus : bus[i] = <<s, CanFrames - 1>>}

\* A listener tells the samples on the bus and at the broker apart by their
\* order alone.  The CAN frames carry no sequence number: the groups follow
\* each other in order, and every group that was cut short is in can_errors,
\* except the one being sent (demo3_can_linux_send_sample).  The broker reads
\* a stream: the parts of a publication follow each other, and nothing follows
\* a publication that was cut short, because the connection is given up
\* (demo3_mqtt_linux_publish, and the failure branch of store_sample).
OutputsAreDecodable ==
  /\ \A i \in DOMAIN bus : i > 1 =>
       \/ bus[i] = <<bus[i - 1][1], bus[i - 1][2] + 1>>
       \/ bus[i][1] > bus[i - 1][1] /\ bus[i][2] = 0
  /\ LET open == IF step \in {"can", "killed"} THEN {sample} ELSE {}
     IN Cardinality(CutGroups \ open) <= status.count["can_errors"]
  /\ \A i \in DOMAIN stream :
       IF i = 1 THEN stream[i][2] = 0
       ELSE \/ stream[i] = <<stream[i - 1][1], stream[i - 1][2] + 1>>
            \/ /\ stream[i - 1][2] = MqttParts - 1
               /\ stream[i][2] = 0 /\ stream[i][1] > stream[i - 1][1]

\* A reader of the status file never sees a half-written file, whatever write
\* fails and wherever the process is killed, and never a count the collector
\* has not reached once a write of this process has succeeded; until then,
\* or for good if none does, it sees what the process before has left, with
\* counts of its own (demo3_runtime_status_write).
StatusFileIsAPastStatus ==
  \/ file \in {Absent, Earlier}
  \/ /\ file \in Statuses
     /\ \A c \in Counters : file.count[c] <= status.count[c]
     /\ status.ok => file.ok

\* The thread waits for a broker that holds the connection and does nothing.
Blocked == broker = "stalled" /\ step \in {"handshake", "mqtt"}

\* A frame the M4 has published is taken from the device unless the link is
\* lost, the process is killed, the service could not start, or the broker
\* stalls for good: no error of a frame or of an output keeps the loop of
\* run_collector from going on, and a broker that hangs is the only one of
\* its outputs that can.
FramesAreTaken ==
  \A s \in Samples :
    (\E i \in DOMAIN queue : queue[i][1] = s)
      ~> \/ ~ \E i \in DOMAIN queue : queue[i][1] = s
         \/ link = "down" \/ step = "killed"
         \/ status.last_error \in {"rpmsg_open_error", "storage_init_error"}
         \/ []Blocked

=============================================================================
