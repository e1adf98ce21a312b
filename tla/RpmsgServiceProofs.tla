-------------------------- MODULE RpmsgServiceProofs --------------------------
(***************************************************************************)
(* The RPMsg service for any number of frames, any group size, any         *)
(* configuration: its status tells the truth, its outputs can be decoded   *)
(* and its status file is a past status; and the frames it takes and sends *)
(* carry the samples' values (FrameCodec).                                 *)
(*                                                                         *)
(* The three properties relate counters, disks, bus, stream and file, and  *)
(* none is inductive.  Inv ties each of them to the step the thread is at: *)
(* what is on the disks, the bus and the stream is of the sample being     *)
(* handed out or of earlier ones, how far the sample has got is in step    *)
(* and sent, and every counter is bounded by the frames taken so far,      *)
(* which also shows that no counter leaves its range.  The lemmas before   *)
(* InvNext say, per variable, which steps change it and how (StatusChange, *)
(* QueueNext, ControlNext, StoredNext ...); then one lemma per conjunct of *)
(* Inv shows that every step keeps it.                                     *)
(***************************************************************************)
EXTENDS RpmsgService, FrameCodec, SequenceTheorems, FiniteSetTheorems, TLAPS

-----------------------------------------------------------------------------
(* The inductive invariant.                                                *)

Handing == {"local", "sd", "can", "mqtt"}
Writing == {"write", "close", "rename"}

\* Frames taken from the device.
Taken == published - Len(queue)

\* Before the loop of run_collector.
Preparing ==
  \/ step \in {"open", "init_storage", "open_can", "open_mqtt", "handshake"}
  \/ step \in Writing /\ after = "open"

\* An error of the current step is still to be counted as an invalid frame.
Pending ==
  \/ step \in Handing \cup {"error"}
  \/ step \in Writing /\ after = "error"

One(condition) == IF condition THEN 1 ELSE 0

QueueInv ==
  /\ Taken \in Nat
  /\ \A i \in 1 .. Len(queue) : queue[i][1] = Taken + i
  /\ sample <= Taken
  /\ step \in Handing => sample \in Samples
  /\ IF step = "can" THEN sent <= CanFrames
     ELSE IF step = "mqtt" THEN sent <= MqttParts
     ELSE step # "killed" => sent = 0

PrepareInv ==
  /\ ~disabled["local"]
  /\ Preparing => /\ \A l \in Storages : disk[l] = <<>>
                  /\ bus = <<>> /\ stream = <<>>

CounterInv ==
  /\ status.count["received_frames"] =
       status.count["stored_samples"] + status.count["storage_errors"]
         + One(BeingStored)
  /\ status.count["received_frames"] <= Taken
  /\ status.count["can_sent_samples"] + status.count["can_errors"]
       + One(step \in {"local", "sd", "can"})
       <= status.count["received_frames"]
  /\ status.count["mqtt_sent_samples"] + status.count["mqtt_errors"]
       + One(step \in Handing) <= status.count["received_frames"]
  /\ status.count["invalid_frames"] + One(Pending)
       <= Taken + IF link = "up" THEN 0 ELSE MaxInvalid

OkInv ==
  \/ step \in {"ended", "killed"}
  \/ step \in Writing /\ after = "ended"
  \/ status.ok <=> \A c \in ErrorCounters : status.count[c] = 0

\* What is on the disks is of samples handed out before.
DiskInv ==
  /\ \A l \in Storages : \A i \in DOMAIN disk[l] :
       /\ disk[l][i][1] <= sample
       /\ step = "local" \/ (step = "sd" /\ l = "sd") => disk[l][i][1] < sample
  /\ step = "local" => ~failed
  /\ step = "sd" => (failed <=> sample \notin Whole("local"))
  /\ Cardinality(StoredEverywhere \ (IF BeingStored THEN {sample} ELSE {}))
       = status.count["stored_samples"]

BusInv ==
  /\ \A i \in DOMAIN bus :
       /\ bus[i][1] <= sample
       /\ step \in {"local", "sd"} \/ (step = "can" /\ sent = 0)
            => bus[i][1] < sample
  /\ step = "can" /\ sent > 0 =>
       bus # <<>> /\ bus[Len(bus)] = <<sample, sent - 1>>
  /\ step = "can" /\ ~can_enabled => sent = 0

StreamInv ==
  /\ \A i \in DOMAIN stream :
       /\ stream[i][1] <= sample
       /\ step \in {"local", "sd", "can"} \/ (step = "mqtt" /\ sent = 0)
            => stream[i][1] < sample
  /\ mqtt_enabled /\ broker = "open" /\ step # "killed" =>
       IF step = "mqtt" /\ sent > 0
       THEN stream # <<>> /\ stream[Len(stream)] = <<sample, sent - 1>>
       ELSE stream # <<>> => stream[Len(stream)][2] = MqttParts - 1

FileInv ==
  /\ step = "rename" => tmp = status
  /\ StatusFileIsAPastStatus

Inv ==
  /\ TypeOK /\ QueueInv /\ PrepareInv /\ CounterInv /\ OkInv /\ DiskInv
  /\ BusInv /\ StreamInv /\ OutputsAreDecodable /\ FileInv

-----------------------------------------------------------------------------
(* What the steps do.                                                      *)

Top == MaxFrames + MaxInvalid + 1

\* Counting one event raises its counter alone.
LEMMA CountedFacts ==
  ASSUME NEW st \in Statuses, NEW k \in Counters, st.count[k] < Top
  PROVE  /\ Counted(st, k) \in Statuses
         /\ Counted(st, k).ok = st.ok
         /\ Counted(st, k).count[k] = st.count[k] + 1
         /\ \A c \in Counters \ {k} : Counted(st, k).count[c] = st.count[c]
<1>1. st.count[k] + 1 \in 0 .. Top
  BY BoundsAssumption DEF Statuses, Top
<1>2. Counted(st, k) = [ok |-> st.ok, last_error |-> st.last_error,
                        count |-> [st.count EXCEPT ![k] = @ + 1]]
  BY DEF Counted, Statuses
<1>. QED
  BY <1>1, <1>2 DEF Statuses, Top

\* An error clears ok and changes no counter.
LEMMA ErrorFacts ==
  ASSUME NEW st \in Statuses, NEW message \in Messages
  PROVE  /\ WithError(st, message) \in Statuses
         /\ WithError(st, message).ok = FALSE
         /\ WithError(st, message).count = st.count
<1>1. WithError(st, message).ok = FALSE
  BY DEF WithError, Statuses
<1>2. WithError(st, message).count = st.count
  BY DEF WithError, Statuses
<1>3. WithError(st, message) \in Statuses
  BY DEF WithError, Statuses
<1>. QED
  BY <1>1, <1>2, <1>3

\* A failed output counts its error and clears ok.
LEMMA FailureFacts ==
  ASSUME NEW st \in Statuses, NEW k \in Counters, NEW message \in Messages,
         st.count[k] < Top
  PROVE  LET r == WithError(Counted(st, k), message)
         IN  /\ r \in Statuses
             /\ r.ok = FALSE
             /\ r.count[k] = st.count[k] + 1
             /\ \A c \in Counters \ {k} : r.count[c] = st.count[c]
<1>. DEFINE s == Counted(st, k)
<1>1. /\ s \in Statuses /\ s.count[k] = st.count[k] + 1
      /\ \A c \in Counters \ {k} : s.count[c] = st.count[c]
  BY CountedFacts
<1>. HIDE DEF s
<1>2. /\ WithError(s, message) \in Statuses
      /\ WithError(s, message).ok = FALSE
      /\ WithError(s, message).count = s.count
  BY <1>1, ErrorFacts
<1>. QED
  BY <1>1, <1>2 DEF s

\* Every counter is below its bound as long as a step may increase it.
LEMMA Bounded ==
  ASSUME TypeOK, QueueInv, CounterInv
  PROVE  /\ Taken <= MaxFrames
         /\ \A c \in Counters : status.count[c] \in 0 .. Top
         /\ \A c \in Counters \ {"ota_staged", "invalid_frames"} :
              status.count[c] <= Taken
         /\ Pending => status.count["invalid_frames"] < Top
<1>1. \A c \in Counters : status.count[c] \in 0 .. Top
  BY DEF TypeOK, Statuses, Top
<1>2. Len(queue) \in Nat /\ published \in 0 .. MaxFrames /\ MaxFrames \in Nat
      /\ MaxInvalid \in Nat
  BY LenProperties, BoundsAssumption DEF TypeOK
<1>3. Taken <= MaxFrames /\ Taken \in Nat
  BY <1>2 DEF Taken, QueueInv
<1>4. \A p \in BOOLEAN : One(p) \in Nat /\ (p => One(p) = 1)
  BY DEF One
<1>5. \A c \in Counters : status.count[c] \in Nat
  BY <1>1
<1>6. {"received_frames", "stored_samples", "can_sent_samples",
       "mqtt_sent_samples", "invalid_frames", "storage_errors", "can_errors",
       "mqtt_errors"} \subseteq Counters
  BY DEF Counters
<1>7. \A c \in Counters \ {"ota_staged", "invalid_frames"} :
        status.count[c] <= Taken
  <2>1. One(BeingStored) \in Nat /\ One(step \in {"local", "sd", "can"}) \in Nat
        /\ One(step \in Handing) \in Nat
    BY DEF One
  <2>. QED
    BY <1>3, <1>5, <1>6, <2>1 DEF CounterInv, Counters
<1>8. Pending => status.count["invalid_frames"] < Top
  <2>2. Pending => status.count["invalid_frames"] + 1
          <= Taken + IF link = "up" THEN 0 ELSE MaxInvalid
    BY DEF CounterInv, One
  <2>3. status.count["invalid_frames"] \in Nat
    BY <1>5, <1>6
  <2>4. (IF link = "up" THEN 0 ELSE MaxInvalid) \in 0 .. MaxInvalid
    BY <1>2
  <2>5. Pending => status.count["invalid_frames"] + 1 <= MaxFrames + MaxInvalid
    BY <1>2, <1>3, <2>2, <2>3, <2>4
  <2>. QED
    BY <1>2, <2>3, <2>5 DEF Top
<1>. QED
  BY <1>1, <1>3, <1>7, <1>8

Quiet ==
  \/ OpenCan \/ OpenMqtt \/ Handshake \/ ReadDeadLink \/ StoreLocal
  \/ SendCanFrame \/ SendMqttPart \/ BrokenPipe
  \/ OpenTemporary \/ CloseTemporary \/ RenameTemporary \/ Environment

\* Counters and error marks only grow.
Grows == /\ \A c \in Counters : status.count[c] <= status'.count[c]
         /\ status'.ok => status.ok

\* What an action does to the status: which counter it raises.
Raises(c) == /\ status'.count[c] = status.count[c] + 1
             /\ \A d \in Counters \ {c} : status'.count[d] = status.count[d]

\* The counters a step may raise, step by step.
LEMMA StatusChange ==
  ASSUME TypeOK, QueueInv, CounterInv, Next
  PROVE  /\ status' \in Statuses
         /\ Quiet => status' = status
         /\ OpenDevice \/ InitStorage =>
              \/ status' = status
              \/ status'.count = status.count /\ status'.ok = FALSE
         /\ ReadFrame =>
              \/ step' = "error" /\ status' = status
              \/ /\ step' = "local" /\ Raises("received_frames")
                 /\ status'.ok = status.ok
         /\ CountError => Raises("invalid_frames") /\ status'.ok = FALSE
         /\ StoreSd => \/ /\ ~failed' /\ Raises("stored_samples")
                          /\ status'.ok = status.ok
                       \/ failed' /\ Raises("storage_errors") /\ status'.ok = FALSE
         /\ EndCan =>
              \/ ~can_enabled /\ status' = status
              \/ /\ can_enabled /\ sent = CanFrames
                 /\ Raises("can_sent_samples") /\ status'.ok = status.ok
              \/ /\ can_enabled /\ sent # CanFrames
                 /\ Raises("can_errors") /\ status'.ok = FALSE
         /\ EndMqtt =>
              \/ ~mqtt_enabled /\ status' = status
              \/ /\ mqtt_enabled /\ sent = MqttParts
                 /\ Raises("mqtt_sent_samples") /\ status'.ok = status.ok
              \/ /\ mqtt_enabled /\ sent # MqttParts
                 /\ Raises("mqtt_errors") /\ status'.ok = FALSE
<1>0. status \in Statuses
  BY DEF TypeOK
<1>1. /\ \A c \in Counters : status.count[c] \in 0 .. Top
      /\ \A c \in Counters \ {"ota_staged", "invalid_frames"} :
           status.count[c] < Top
      /\ Pending => status.count["invalid_frames"] < Top
  <2>1. Taken \in Nat /\ Taken < Top
    BY Bounded, BoundsAssumption DEF Top, QueueInv
  <2>2. \A c \in Counters : status.count[c] \in Int
    BY Bounded
  <2>. QED
    BY Bounded, <2>1, <2>2, BoundsAssumption DEF Top, TypeOK
<1>2. Quiet => status' = status
  BY DEF Quiet, OpenCan, OpenMqtt, Handshake, ReadDeadLink, StoreLocal,
         SendCanFrame, SendMqttPart, BrokenPipe, OpenTemporary,
         CloseTemporary, RenameTemporary, Environment, Publish, LinkFails,
         BrokerFails, Kill
<1>3. ASSUME OpenDevice \/ InitStorage
      PROVE  /\ status' \in Statuses
             /\ \/ status' = status
                \/ status'.count = status.count /\ status'.ok = FALSE
  <2>1. \/ status' = status
        \/ status' = WithError(status, "rpmsg_open_error")
        \/ status' = WithError(status, "storage_init_error")
    BY <1>3 DEF OpenDevice, InitStorage
  <2>2. \A message \in Messages :
          /\ WithError(status, message) \in Statuses
          /\ WithError(status, message).ok = FALSE
          /\ WithError(status, message).count = status.count
    BY <1>0, ErrorFacts
  <2>. QED
    BY <1>0, <2>1, <2>2 DEF Messages
<1>4. ASSUME ReadFrame
      PROVE  /\ status' \in Statuses
             /\ \/ step' = "error" /\ status' = status
                \/ /\ step' = "local" /\ Raises("received_frames")
                   /\ status'.ok = status.ok
  <2>1. \/ step' = "error" /\ status' = status
        \/ step' = "local" /\ status' = Counted(status, "received_frames")
    BY <1>4 DEF ReadFrame, ProcessFrame
  <2>2. /\ "received_frames" \in Counters
        /\ status.count["received_frames"] < Top
    BY <1>1 DEF Counters
  <2>. QED
    BY <1>0, <2>1, <2>2, CountedFacts DEF Raises
<1>5. ASSUME CountError
      PROVE  status' \in Statuses /\ Raises("invalid_frames") /\ status'.ok = FALSE
  <2>1. /\ "invalid_frames" \in Counters /\ "rpmsg_frame_error" \in Messages
        /\ status.count["invalid_frames"] < Top
    BY <1>1, <1>5 DEF Counters, Messages, Pending, CountError
  <2>2. status' = WithError(Counted(status, "invalid_frames"),
                            "rpmsg_frame_error")
    BY <1>5 DEF CountError
  <2>. QED
    BY <1>0, <2>1, <2>2, FailureFacts DEF Raises
<1>6. ASSUME StoreSd
      PROVE  /\ status' \in Statuses
             /\ \/ /\ ~failed'
                   /\ Raises("stored_samples") /\ status'.ok = status.ok
                \/ /\ failed'
                   /\ Raises("storage_errors") /\ status'.ok = FALSE
  <2>1. \/ /\ ~failed'
           /\ status' = Counted(status, "stored_samples")
        \/ /\ failed'
           /\ status' = WithError(Counted(status, "storage_errors"),
                                "storage_error")
    BY <1>6 DEF StoreSd, Record
  <2>2. /\ "stored_samples" \in Counters /\ "storage_errors" \in Counters
        /\ "storage_error" \in Messages
        /\ status.count["stored_samples"] < Top
        /\ status.count["storage_errors"] < Top
    BY <1>0, <1>1 DEF Counters, Messages
  <2>3. ASSUME status' = Counted(status, "stored_samples")
        PROVE  /\ status' \in Statuses /\ Raises("stored_samples")
               /\ status'.ok = status.ok
    BY <1>0, <2>2, <2>3, CountedFacts DEF Raises
  <2>4. ASSUME status' = WithError(Counted(status, "storage_errors"), "storage_error")
        PROVE  /\ status' \in Statuses /\ Raises("storage_errors")
               /\ status'.ok = FALSE
    BY <1>0, <2>2, <2>4, FailureFacts DEF Raises
  <2>. QED
    BY <1>0, <2>1, <2>3, <2>4
<1>7. ASSUME EndCan
      PROVE  /\ status' \in Statuses
             /\ \/ ~can_enabled /\ status' = status
                \/ /\ can_enabled /\ sent = CanFrames
                   /\ Raises("can_sent_samples") /\ status'.ok = status.ok
                \/ /\ can_enabled /\ sent # CanFrames
                   /\ Raises("can_errors") /\ status'.ok = FALSE
  <2>1. \/ ~can_enabled /\ status' = status
        \/ /\ can_enabled /\ sent = CanFrames
           /\ status' = Counted(status, "can_sent_samples")
        \/ /\ can_enabled /\ sent # CanFrames
           /\ status' = WithError(Counted(status, "can_errors"),
                                "can_error")
    BY <1>7 DEF EndCan, CanResult, Record
  <2>2. /\ "can_sent_samples" \in Counters /\ "can_errors" \in Counters
        /\ "can_error" \in Messages
        /\ status.count["can_sent_samples"] < Top
        /\ status.count["can_errors"] < Top
    BY <1>0, <1>1 DEF Counters, Messages
  <2>3. ASSUME status' = Counted(status, "can_sent_samples")
        PROVE  /\ status' \in Statuses /\ Raises("can_sent_samples")
               /\ status'.ok = status.ok
    BY <1>0, <2>2, <2>3, CountedFacts DEF Raises
  <2>4. ASSUME status' = WithError(Counted(status, "can_errors"), "can_error")
        PROVE  /\ status' \in Statuses /\ Raises("can_errors")
               /\ status'.ok = FALSE
    BY <1>0, <2>2, <2>4, FailureFacts DEF Raises
  <2>. QED
    BY <1>0, <2>1, <2>3, <2>4
<1>8. ASSUME EndMqtt
      PROVE  /\ status' \in Statuses
             /\ \/ ~mqtt_enabled /\ status' = status
                \/ /\ mqtt_enabled /\ sent = MqttParts
                   /\ Raises("mqtt_sent_samples") /\ status'.ok = status.ok
                \/ /\ mqtt_enabled /\ sent # MqttParts
                   /\ Raises("mqtt_errors") /\ status'.ok = FALSE
  <2>1. \/ ~mqtt_enabled /\ status' = status
        \/ /\ mqtt_enabled /\ sent = MqttParts
           /\ status' = Counted(status, "mqtt_sent_samples")
        \/ /\ mqtt_enabled /\ sent # MqttParts
           /\ status' = WithError(Counted(status, "mqtt_errors"),
                                "mqtt_error")
    BY <1>8 DEF EndMqtt, Record
  <2>2. /\ "mqtt_sent_samples" \in Counters /\ "mqtt_errors" \in Counters
        /\ "mqtt_error" \in Messages
        /\ status.count["mqtt_sent_samples"] < Top
        /\ status.count["mqtt_errors"] < Top
    BY <1>0, <1>1 DEF Counters, Messages
  <2>3. ASSUME status' = Counted(status, "mqtt_sent_samples")
        PROVE  /\ status' \in Statuses /\ Raises("mqtt_sent_samples")
               /\ status'.ok = status.ok
    BY <1>0, <2>2, <2>3, CountedFacts DEF Raises
  <2>4. ASSUME status' = WithError(Counted(status, "mqtt_errors"), "mqtt_error")
        PROVE  /\ status' \in Statuses /\ Raises("mqtt_errors")
               /\ status'.ok = FALSE
    BY <1>0, <2>2, <2>4, FailureFacts DEF Raises
  <2>. QED
    BY <1>0, <2>1, <2>3, <2>4
<1>9. \/ Quiet \/ OpenDevice \/ InitStorage \/ ReadFrame \/ CountError
      \/ StoreSd \/ EndCan \/ EndMqtt
  BY DEF Next, Service, Quiet
<1>10. status' \in Statuses
  BY <1>0, <1>2, <1>3, <1>4, <1>5, <1>6, <1>7, <1>8, <1>9
<1>. QED
  BY <1>2, <1>3, <1>4, <1>5, <1>6, <1>7, <1>8, <1>10

\* The frames that wait are the next ones of the M4, in order.
LEMMA QueueNext ==
  ASSUME TypeOK, QueueInv, Next
  PROVE  /\ queue' \in Seq(Samples \X BOOLEAN)
         /\ published' \in 0 .. MaxFrames
         /\ \/ /\ ReadFrame /\ Taken' = Taken + 1
               /\ step = "poll" /\ step' \in {"local", "error"} /\ link = "up"
            \/ ~ReadFrame /\ Taken' = Taken
         /\ Taken' \in Nat
         /\ \A i \in 1 .. Len(queue') : queue'[i][1] = Taken' + i
         /\ ReadFrame => Head(queue)[1] = Taken' /\ Taken' \in Samples
<1>1. /\ queue \in Seq(Samples \X BOOLEAN) /\ Len(queue) \in Nat
      /\ published \in 0 .. MaxFrames /\ MaxFrames \in Nat
      /\ Taken \in Nat /\ Taken = published - Len(queue)
      /\ \A i \in 1 .. Len(queue) : queue[i][1] = Taken + i
  BY LenProperties, BoundsAssumption DEF TypeOK, QueueInv, Taken
<1>2. CASE ReadFrame
  <2>1. /\ queue # <<>> /\ queue' = Tail(queue) /\ published' = published
    BY <1>2 DEF ReadFrame
  <2>2. /\ Tail(queue) \in Seq(Samples \X BOOLEAN)
        /\ Len(Tail(queue)) = Len(queue) - 1
        /\ Head(queue) = queue[1] /\ Len(queue) >= 1
        /\ \A i \in 1 .. Len(queue) - 1 : Tail(queue)[i] = queue[i + 1]
    BY <1>1, <2>1, HeadTailProperties, EmptySeq
  <2>3. Taken' = Taken + 1
    BY <1>1, <2>1, <2>2 DEF Taken
  <2>4. \A i \in 1 .. Len(queue') : queue'[i][1] = Taken' + i
    BY <1>1, <2>1, <2>2, <2>3
  <2>5. Head(queue)[1] = Taken' /\ Taken' \in Samples
    <3>1. Taken' >= 1 /\ Taken' <= published
      BY <1>1, <2>2, <2>3
    <3>. QED
      BY <1>1, <2>2, <2>3, <3>1 DEF Samples
  <2>6. step = "poll" /\ step' \in {"local", "error"} /\ link = "up"
    BY <1>2 DEF ReadFrame, ProcessFrame
  <2>. QED
    BY <1>1, <1>2, <2>1, <2>2, <2>3, <2>4, <2>5, <2>6
<1>3. CASE ~ReadFrame /\ \E intact \in BOOLEAN : Publish(intact)
  <2>1. PICK intact \in BOOLEAN :
          /\ published < MaxFrames /\ published' = published + 1
          /\ queue' = Append(queue, <<published + 1, intact>>)
    BY <1>3 DEF Publish
  <2>2. <<published + 1, intact>> \in Samples \X BOOLEAN
    BY <1>1, <2>1 DEF Samples
  <2>3. /\ queue' \in Seq(Samples \X BOOLEAN)
        /\ Len(queue') = Len(queue) + 1
        /\ \A i \in 1 .. Len(queue) : queue'[i] = queue[i]
        /\ queue'[Len(queue) + 1] = <<published + 1, intact>>
    BY <1>1, <2>1, <2>2, AppendProperties
  <2>4. Taken' = Taken
    BY <1>1, <2>1, <2>3 DEF Taken
  <2>5. \A i \in 1 .. Len(queue') : queue'[i][1] = Taken' + i
    <3>1. queue'[Len(queue) + 1][1] = Taken' + (Len(queue) + 1)
      BY <1>1, <2>3, <2>4
    <3>. QED
      BY <1>1, <2>3, <2>4, <3>1
  <2>. QED
    BY <1>1, <1>3, <2>1, <2>3, <2>4, <2>5
<1>4. CASE ~ReadFrame /\ UNCHANGED <<queue, published>>
  BY <1>1, <1>4 DEF Taken
<1>. QED
  BY <1>2, <1>3, <1>4
     DEF Next, Service, Environment, OpenDevice, InitStorage, OpenCan,
         OpenMqtt, Handshake, ReadDeadLink, CountError, StoreLocal, StoreSd,
         Store, SendCanFrame, EndCan, SendMqttPart, EndMqtt, BrokenPipe,
         OpenTemporary, CloseTemporary, RenameTemporary, LinkFails,
         BrokerFails, Kill, environment

\* Variables of the control that keep their types.
LEMMA ControlNext ==
  ASSUME TypeOK, QueueInv, Next
  PROVE  /\ link' \in {"up", "down"}
         /\ broker' \in {"open", "stalled", "closed", "reset"}
         /\ step' \in {"open", "init_storage", "open_can", "open_mqtt",
               "handshake", "poll", "local", "sd", "can", "mqtt", "error",
               "write", "close", "rename", "ended", "killed"}
         /\ after' \in {"open", "poll", "error", "ended"}
         /\ {failed, can_enabled, mqtt_enabled, status_enabled}' \subseteq BOOLEAN
         /\ disabled' \in [Storages -> BOOLEAN]
<1>1. CASE OpenDevice \/ InitStorage \/ OpenCan \/ OpenMqtt \/ Handshake
  BY <1>1 DEF TypeOK, OpenDevice, InitStorage, OpenCan, OpenMqtt, Handshake,
              WriteStatusThen, environment, flags, Storages
<1>2. CASE ReadFrame \/ ReadDeadLink \/ CountError
  BY <1>2 DEF TypeOK, ReadFrame, ProcessFrame, ReadDeadLink, CountError,
              WriteStatusThen, NextStepAfterError, environment, flags
<1>3. CASE StoreLocal \/ StoreSd \/ SendCanFrame \/ EndCan
  BY <1>3 DEF TypeOK, StoreLocal, StoreSd, Store, StorageFailed, SendCanFrame,
              EndCan, CanResult, environment, flags
<1>4. CASE SendMqttPart \/ EndMqtt \/ BrokenPipe
  BY <1>4 DEF TypeOK, SendMqttPart, EndMqtt, MqttEnabledAfter, BrokenPipe,
              WriteStatusThen, environment, flags
<1>5. CASE OpenTemporary \/ CloseTemporary \/ RenameTemporary \/ Environment
  BY <1>5 DEF TypeOK, OpenTemporary, CloseTemporary, CloseFailure,
              RenameTemporary, Environment, Publish, LinkFails, BrokerFails,
              Kill, environment, flags
<1>. QED
  BY <1>1, <1>2, <1>3, <1>4, <1>5 DEF Next, Service

\* A step other than the next frame leaves the sample alone.
LEMMA SampleNext ==
  ASSUME TypeOK, QueueInv, Next
  PROVE  /\ sample' \in 0 .. MaxFrames
         /\ sample' <= Taken'
         /\ \/ /\ ReadFrame /\ step = "poll" /\ step' = "local"
               /\ sample < sample'
            \/ sample' = sample /\ (step' = "local" => step = "local")
         /\ step' \in Handing => sample' \in Samples
         /\ IF step' = "can" THEN sent' <= CanFrames
            ELSE IF step' = "mqtt" THEN sent' <= MqttParts
            ELSE step' # "killed" => sent' = 0
         /\ sent' \in 0 .. (CanFrames + MqttParts)
<1>1. /\ Taken \in Nat /\ sample \in 0 .. MaxFrames /\ sample <= Taken
      /\ CanFrames \in Nat /\ CanFrames > 0
      /\ sent \in 0 .. (CanFrames + MqttParts) /\ MqttParts = 4
      /\ MaxFrames \in Nat
  BY CanFramesAssumption, BoundsAssumption DEF TypeOK, QueueInv, MqttParts
<1>2. CASE ReadFrame
  <2>1. /\ Taken' = Taken + 1 /\ Head(queue)[1] = Taken' /\ Taken' \in Samples
    BY <1>2, QueueNext
  <2>2. /\ step = "poll" /\ sent' = sent
        /\ \/ sample' = Head(queue)[1] /\ step' = "local"
           \/ sample' = sample /\ step' = "error"
    BY <1>2 DEF ReadFrame, ProcessFrame
  <2>3. sent = 0
    BY <2>2 DEF QueueInv
  <2>. QED
    BY <1>1, <1>2, <2>1, <2>2, <2>3 DEF Samples, Handing
<1>3. CASE ~ReadFrame
  <2>1. Taken' = Taken
    BY <1>1, <1>3, QueueNext
  <2>2. sample' = sample
    BY <1>3 DEF Next, Service, Environment, OpenDevice, InitStorage, OpenCan,
         OpenMqtt, Handshake, ReadDeadLink, CountError, StoreLocal, StoreSd,
         Store, SendCanFrame, EndCan, SendMqttPart, EndMqtt, BrokenPipe,
         OpenTemporary, CloseTemporary, RenameTemporary, Publish, LinkFails,
         BrokerFails, Kill
  <2>. DEFINE Moved ==
         /\ step' \in Handing => step \in Handing
         /\ step' = "local" => step = "local"
         /\ IF step' = "can" THEN sent' <= CanFrames
            ELSE IF step' = "mqtt" THEN sent' <= MqttParts
            ELSE step' # "killed" => sent' = 0
         /\ sent' \in 0 .. (CanFrames + MqttParts)
  <2>3. CASE OpenDevice \/ InitStorage \/ OpenCan \/ OpenMqtt \/ Handshake
               \/ ReadDeadLink \/ CountError
    <3>1. Moved
      BY <1>1, <2>3
         DEF OpenDevice, InitStorage, OpenCan, OpenMqtt, Handshake,
             ReadDeadLink, CountError, WriteStatusThen, NextStepAfterError,
             Handing, QueueInv
    <3>. QED
      BY <3>1, <1>1, <2>1, <2>2 DEF QueueInv
  <2>4. CASE StoreLocal \/ StoreSd \/ SendCanFrame \/ EndCan
    <3>1. Moved
      BY <1>1, <2>4
         DEF StoreLocal, StoreSd, Store, SendCanFrame, EndCan, Handing,
             QueueInv
    <3>. QED
      BY <3>1, <1>1, <2>1, <2>2 DEF QueueInv
  <2>5. CASE SendMqttPart \/ EndMqtt \/ BrokenPipe
    <3>1. Moved
      BY <1>1, <2>5
         DEF SendMqttPart, EndMqtt, BrokenPipe, WriteStatusThen, Handing,
             QueueInv
    <3>. QED
      BY <3>1, <1>1, <2>1, <2>2 DEF QueueInv
  <2>6. CASE OpenTemporary \/ CloseTemporary \/ RenameTemporary \/ Environment
    <3>1. Moved
      BY <1>1, <2>6
         DEF OpenTemporary, CloseTemporary, RenameTemporary, CloseFailure,
             Environment, Publish, LinkFails, BrokerFails, Kill, Handing,
             QueueInv, TypeOK
    <3>. QED
      BY <3>1, <1>1, <2>1, <2>2 DEF QueueInv
  <2>. QED
    BY <1>3, <2>3, <2>4, <2>5, <2>6 DEF Next, Service
<1>. QED
  BY <1>2, <1>3

\* The frames that wait, and how far the sample has got.
LEMMA QueueInvNext ==
  ASSUME TypeOK, QueueInv, Next
  PROVE  QueueInv'
<1>1. Taken' \in Nat /\ \A i \in 1 .. Len(queue') : queue'[i][1] = Taken' + i
  BY QueueNext
<1>. QED
  BY <1>1, SampleNext DEF QueueInv

\* Sequences that grow at the end.
LEMMA Appended ==
  ASSUME NEW S, NEW s \in Seq(S), NEW e \in S, NEW t, t = Append(s, e)
  PROVE  /\ t \in Seq(S) /\ Len(t) = Len(s) + 1 /\ t # <<>>
         /\ DOMAIN s = 1 .. Len(s) /\ DOMAIN t = 1 .. Len(s) + 1
         /\ Len(s) \in Nat
         /\ t[Len(s) + 1] = e
         /\ \A i \in 1 .. Len(s) : t[i] = s[i]
  BY AppendProperties, LenProperties

\* The counters agree with each other and are bounded by the frames taken.
LEMMA CounterInvNext ==
  ASSUME TypeOK, QueueInv, CounterInv, Next
  PROVE  CounterInv'
<1>. DEFINE c == status.count
            d == status'.count
<1>1. /\ c["received_frames"] \in Nat /\ c["stored_samples"] \in Nat
      /\ c["storage_errors"] \in Nat /\ c["can_sent_samples"] \in Nat
      /\ c["can_errors"] \in Nat /\ c["mqtt_sent_samples"] \in Nat
      /\ c["mqtt_errors"] \in Nat /\ c["invalid_frames"] \in Nat
      /\ Taken \in Nat /\ MaxInvalid \in Nat
  <2>1. \A k \in Counters : status.count[k] \in 0 .. Top
    BY Bounded
  <2>. QED
    BY <2>1, BoundsAssumption DEF Counters, QueueInv
<1>2. \/ /\ Taken' = Taken + 1
         /\ step = "poll" /\ step' \in {"local", "error"} /\ link = "up"
      \/ Taken' = Taken
  BY QueueNext
<1>. USE DEF CounterInv, One, BeingStored, Pending, Handing, Writing
<1>3. CASE OpenDevice \/ InitStorage
  <2>1. d = c /\ Taken' = Taken /\ link' = link
    BY <1>2, <1>3, StatusChange
       DEF OpenDevice, InitStorage, environment
  <2>2. step \in {"open", "init_storage"}
        /\ \/ step' \in {"init_storage", "open_can", "ended"}
           \/ step' = "write" /\ after' = "ended"
    BY <1>3 DEF OpenDevice, InitStorage, WriteStatusThen
  <2>. QED
    BY <1>1, <2>1, <2>2
<1>4. CASE OpenCan \/ OpenMqtt \/ Handshake
  <2>1. d = c /\ Taken' = Taken /\ link' = link
    BY <1>2, <1>4, StatusChange
       DEF OpenCan, OpenMqtt, Handshake, environment, Quiet
  <2>2. step \in {"open_can", "open_mqtt", "handshake"}
        /\ step' \in {"open_mqtt", "handshake", "poll"}
    BY <1>4 DEF OpenCan, OpenMqtt, Handshake
  <2>. QED
    BY <1>1, <2>1, <2>2
<1>5. CASE ReadFrame
  <2>1. /\ step = "poll" /\ link = "up" /\ link' = "up"
        /\ step' \in {"local", "error"} /\ Taken' = Taken + 1
    BY <1>5, QueueNext DEF ReadFrame, ProcessFrame
  <2>2. \/ step' = "error" /\ d = c
        \/ step' = "local" /\ Raises("received_frames")
    BY <1>5, StatusChange
  <2>. QED
    BY <1>1, <2>1, <2>2 DEF Raises, Counters
<1>6. CASE ReadDeadLink
  <2>1. /\ step = "poll" /\ link = "down" /\ link' = "down" /\ step' = "error"
        /\ c["invalid_frames"] < MaxInvalid /\ Taken' = Taken /\ d = c
    BY <1>2, <1>6, StatusChange DEF ReadDeadLink, Quiet, environment
  <2>. QED
    BY <1>1, <2>1
<1>7. CASE CountError
  <2>1. /\ step = "error" /\ link' = link /\ Taken' = Taken
        /\ \/ step' = "poll"
           \/ step' = "write" /\ after' = "poll"
        /\ Raises("invalid_frames")
    BY <1>2, <1>7, StatusChange
       DEF CountError, WriteStatusThen, NextStepAfterError,
           environment
  <2>. QED
    BY <1>1, <2>1 DEF Raises, Counters
<1>8. CASE StoreLocal
  <2>1. step = "local" /\ step' = "sd" /\ d = c /\ Taken' = Taken
        /\ link' = link
    BY <1>2, <1>8, StatusChange
       DEF StoreLocal, Store, environment, Quiet
  <2>. QED
    BY <1>1, <2>1
<1>9. CASE StoreSd
  <2>1. step = "sd" /\ step' = "can" /\ Taken' = Taken /\ link' = link
    BY <1>2, <1>9 DEF StoreSd, Store, environment
  <2>2. Raises("stored_samples") \/ Raises("storage_errors")
    BY <1>9, StatusChange
  <2>. QED
    BY <1>1, <2>1, <2>2 DEF Raises, Counters
<1>10. CASE SendCanFrame \/ SendMqttPart
  <2>1. step' = step /\ after' = after /\ d = c /\ Taken' = Taken
        /\ link' = link /\ step # "killed"
    BY <1>2, <1>10, StatusChange
       DEF SendCanFrame, SendMqttPart, environment, Quiet
  <2>. QED
    BY <1>1, <2>1
<1>11. CASE EndCan
  <2>1. step = "can" /\ step' = "mqtt" /\ Taken' = Taken /\ link' = link
    BY <1>2, <1>11 DEF EndCan, environment
  <2>2. d = c \/ Raises("can_sent_samples") \/ Raises("can_errors")
    BY <1>11, StatusChange
  <2>. QED
    BY <1>1, <2>1, <2>2 DEF Raises, Counters
<1>12. CASE EndMqtt
  <2>1. /\ step = "mqtt" /\ Taken' = Taken /\ link' = link
        /\ step' \in {"poll", "error", "write"}
    BY <1>2, <1>12 DEF EndMqtt, environment, WriteStatusThen
  <2>2. d = c \/ Raises("mqtt_sent_samples") \/ Raises("mqtt_errors")
    BY <1>12, StatusChange
  <2>. QED
    BY <1>1, <2>1, <2>2 DEF Raises, Counters
<1>13. CASE BrokenPipe \/ Kill
  <2>1. step' = "killed" /\ d = c /\ Taken' = Taken /\ link' = link
    BY <1>2, <1>13, StatusChange
       DEF BrokenPipe, Kill, environment, Quiet, Environment
  <2>. QED
    BY <1>1, <2>1
<1>14. CASE OpenTemporary \/ CloseTemporary \/ RenameTemporary
  <2>1. /\ step \in Writing /\ d = c /\ Taken' = Taken /\ link' = link
        /\ step' \in {"close", "rename", after} /\ after' = after
        /\ after \in {"open", "poll", "error", "ended"}
    BY <1>2, <1>14, StatusChange
       DEF OpenTemporary, CloseTemporary, CloseFailure, RenameTemporary,
           environment, Quiet, TypeOK
  <2>. QED
    BY <1>1, <2>1
<1>15. CASE (\E intact \in BOOLEAN : Publish(intact)) \/ LinkFails \/ BrokerFails
  <2>1. /\ step' = step /\ after' = after /\ d = c /\ Taken' = Taken
        /\ link' = "up" => link = "up"
    BY <1>2, <1>15, StatusChange
       DEF Publish, LinkFails, BrokerFails, environment, Quiet,
           Environment
  <2>. QED
    BY <1>1, <2>1
<1>. QED
  BY <1>3, <1>4, <1>5, <1>6, <1>7, <1>8, <1>9, <1>10, <1>11, <1>12, <1>13,
     <1>14, <1>15 DEF Next, Service, Environment

\* The status is ok while no error has been counted.
LEMMA OkInvNext ==
  ASSUME TypeOK, QueueInv, CounterInv, OkInv, Next
  PROVE  OkInv'
<1>1. /\ \A k \in Counters : status.count[k] \in Nat
      /\ ErrorCounters \subseteq Counters /\ status.ok \in BOOLEAN
      /\ status'.ok \in BOOLEAN
  <2>1. \A k \in Counters : status.count[k] \in Nat
    BY Bounded
  <2>2. status.ok \in BOOLEAN /\ status'.ok \in BOOLEAN
    BY StatusChange DEF TypeOK, Statuses
  <2>. QED
    BY <2>1, <2>2 DEF ErrorCounters, Counters
<1>. USE DEF OkInv, Writing
<1>2. CASE OpenDevice \/ InitStorage
  <2>1. \/ step' = "ended"
        \/ step' = "write" /\ after' = "ended"
        \/ step \in {"open", "init_storage"} /\ status' = status
    BY <1>2 DEF OpenDevice, InitStorage, WriteStatusThen
  <2>. QED
    BY <2>1
<1>3. CASE ReadFrame \/ StoreSd \/ EndCan \/ EndMqtt \/ CountError
  <2>1. step \in {"poll", "error", "sd", "can", "mqtt"}
    BY <1>3 DEF ReadFrame, StoreSd, EndCan, EndMqtt, CountError
  <2>2. status.ok <=> \A k \in ErrorCounters : status.count[k] = 0
    BY <2>1
  <2>3. \/ status' = status
        \/ /\ status'.ok = status.ok
           /\ \E k \in Counters \ ErrorCounters : Raises(k)
        \/ /\ status'.ok = FALSE
           /\ \E k \in ErrorCounters : Raises(k)
    BY <1>3, StatusChange DEF ErrorCounters, Counters
  <2>4. CASE status' = status
    BY <2>2, <2>4
  <2>5. ASSUME NEW k \in Counters \ ErrorCounters, Raises(k),
               status'.ok = status.ok
        PROVE  status'.ok <=> \A e \in ErrorCounters : status'.count[e] = 0
    BY <1>1, <2>2, <2>5 DEF Raises
  <2>6. ASSUME NEW k \in ErrorCounters, Raises(k), status'.ok = FALSE
        PROVE  status'.ok <=> \A e \in ErrorCounters : status'.count[e] = 0
    <3>1. status'.count[k] # 0
      BY <1>1, <2>6 DEF Raises
    <3>. QED
      BY <2>6, <3>1
  <2>. QED
    BY <2>3, <2>4, <2>5, <2>6
<1>4. CASE Quiet
  <2>1. status' = status
    BY <1>4, StatusChange
  <2>2. \/ step' \in {"ended", "killed"}
        \/ step \notin {"ended", "killed"} \/ step' = step
    BY <1>4 DEF Quiet, OpenCan, OpenMqtt, Handshake, ReadDeadLink, StoreLocal,
         SendCanFrame, SendMqttPart, BrokenPipe, OpenTemporary,
         CloseTemporary, RenameTemporary, Environment, Publish, LinkFails,
         BrokerFails, Kill
  <2>3. after' = after
    BY <1>4 DEF Quiet, OpenCan, OpenMqtt, Handshake, ReadDeadLink, StoreLocal,
         Store, SendCanFrame, SendMqttPart, BrokenPipe, OpenTemporary,
         CloseTemporary, RenameTemporary, Environment, Publish, LinkFails,
         BrokerFails, Kill
  <2>4. step \in Writing /\ after = "ended" =>
          \/ step' \in Writing
          \/ step' \in {"ended", "killed"}
    BY <1>4 DEF Quiet, OpenCan, OpenMqtt, Handshake, ReadDeadLink, StoreLocal,
         SendCanFrame, SendMqttPart, BrokenPipe, OpenTemporary, CloseFailure,
         CloseTemporary, RenameTemporary, Environment, Publish, LinkFails,
         BrokerFails, Kill
  <2>. QED
    BY <2>1, <2>2, <2>3, <2>4
<1>. QED
  BY <1>2, <1>3, <1>4 DEF Next, Service, Quiet

\* A sample is being stored between its reading and the end of its storing.
LEMMA BeingStoredNext ==
  ASSUME TypeOK, QueueInv, CounterInv, Next
  PROVE  \/ /\ ReadFrame /\ step = "poll" /\ step' = "local"
            /\ ~BeingStored /\ BeingStored'
            /\ status'.count["stored_samples"] = status.count["stored_samples"]
         \/ /\ StoreSd /\ BeingStored /\ ~BeingStored'
         \/ /\ ~StoreSd
            /\ sample' = sample /\ (step' = "local" => step = "local")
            /\ BeingStored' <=> BeingStored
            /\ status'.count["stored_samples"] = status.count["stored_samples"]
<1>1. /\ status.count["received_frames"] \in Nat
      /\ status.count["stored_samples"] \in Nat
      /\ status.count["storage_errors"] \in Nat
      /\ status.count["received_frames"] =
           status.count["stored_samples"] + status.count["storage_errors"]
             + IF BeingStored THEN 1 ELSE 0
  <2>1. \A k \in Counters : status.count[k] \in 0 .. Top
    BY Bounded
  <2>. QED
    BY <2>1 DEF Counters, CounterInv, One
<1>2. status'.count["received_frames"] =
        status'.count["stored_samples"] + status'.count["storage_errors"]
          + IF BeingStored' THEN 1 ELSE 0
  BY CounterInvNext DEF CounterInv, One
<1>3. CASE ReadFrame /\ step' = "local"
  <2>1. step = "poll" /\ Raises("received_frames")
    BY <1>3, StatusChange, QueueNext
  <2>. QED
    BY <1>3, <2>1 DEF BeingStored, Raises, Counters
<1>4. CASE StoreSd
  BY <1>4 DEF StoreSd, BeingStored
<1>5. CASE ~StoreSd /\ ~(ReadFrame /\ step' = "local")
  <2>1. /\ status'.count["received_frames"] = status.count["received_frames"]
        /\ status'.count["stored_samples"] = status.count["stored_samples"]
        /\ status'.count["storage_errors"] = status.count["storage_errors"]
    <3>1. \/ status'.count = status.count
          \/ Raises("invalid_frames") \/ Raises("can_sent_samples")
          \/ Raises("can_errors") \/ Raises("mqtt_sent_samples")
          \/ Raises("mqtt_errors")
      <4>1. Quiet \/ OpenDevice \/ InitStorage => status'.count = status.count
        BY StatusChange
      <4>2. ReadFrame => status'.count = status.count
        BY <1>5, StatusChange
      <4>. QED
        BY <1>5, <4>1, <4>2, StatusChange DEF Next, Service, Quiet
    <3>. QED
      BY <3>1 DEF Raises, Counters
  <2>2. sample' = sample /\ (step' = "local" => step = "local")
    BY <1>5, SampleNext
  <2>3. BeingStored' <=> BeingStored
    <3>. HIDE DEF BeingStored
    <3>. QED
      BY <1>1, <1>2, <2>1
  <2>. QED
    BY <1>5, <2>1, <2>2, <2>3
<1>. QED
  BY <1>3, <1>4, <1>5

\* What storing one sample leaves on the disks.
LEMMA StoreFacts ==
  ASSUME TypeOK, NEW l \in Storages,
         NEW outcome \in {"skipped", "whole", "torn", "lost"},
         Store(l, outcome), sample \in Samples
  PROVE  /\ disk' \in [Storages -> Seq(Samples \X {"whole", "torn"})]
         /\ \A m \in Storages \ {l} : disk'[m] = disk[m]
         /\ \A i \in DOMAIN disk'[l] :
              \/ i \in DOMAIN disk[l] /\ disk'[l][i] = disk[l][i]
              \/ disk'[l][i][1] = sample
         /\ Whole(l)' = IF outcome = "whole" THEN Whole(l) \cup {sample}
                                             ELSE Whole(l)
         /\ \A m \in Storages \ {l} : Whole(m)' = Whole(m)
<1>1. /\ disk \in [Storages -> Seq(Samples \X {"whole", "torn"})]
      /\ disk[l] \in Seq(Samples \X {"whole", "torn"})
  BY DEF TypeOK
<1>2. \A m \in Storages \ {l} : disk'[m] = disk[m]
  BY <1>1 DEF Store
<1>3. \A m \in Storages \ {l} : Whole(m)' = Whole(m)
  BY <1>2 DEF Whole
<1>4. CASE outcome \notin {"whole", "torn"}
  <2>1. disk' = disk
    BY <1>1, <1>4 DEF Store
  <2>. QED
    BY <1>1, <1>3, <1>4, <2>1 DEF Whole
<1>5. CASE outcome \in {"whole", "torn"}
  <2>1. disk'[l] = Append(disk[l], <<sample, outcome>>)
        /\ disk' = [disk EXCEPT ![l] = Append(disk[l], <<sample, outcome>>)]
    BY <1>1, <1>5 DEF Store
  <2>. DEFINE n == Len(disk[l])
  <2>2. /\ disk'[l] \in Seq(Samples \X {"whole", "torn"})
        /\ DOMAIN disk[l] = 1 .. n /\ DOMAIN disk'[l] = 1 .. n + 1
        /\ n \in Nat
        /\ disk'[l][n + 1] = <<sample, outcome>>
        /\ \A i \in 1 .. n : disk'[l][i] = disk[l][i]
    BY <1>1, <1>5, <2>1, Appended
  <2>. HIDE DEF n
  <2>3. DOMAIN disk'[l] = (1 .. n) \cup {n + 1} /\ n + 1 \notin 1 .. n
    BY <2>2
  <2>4. disk' \in [Storages -> Seq(Samples \X {"whole", "torn"})]
    BY <1>1, <2>1, <2>2
  <2>5. Whole(l)' = IF outcome = "whole" THEN Whole(l) \cup {sample}
                                         ELSE Whole(l)
    <3>1. Whole(l)' = {disk'[l][i][1] : i \in {j \in DOMAIN disk'[l] :
                                                 disk'[l][j][2] = "whole"}}
      BY DEF Whole
    <3>2. Whole(l) = {disk[l][i][1] : i \in {j \in 1 .. n :
                                               disk[l][j][2] = "whole"}}
      BY <2>2 DEF Whole
    <3>3. ASSUME NEW x
          PROVE  x \in Whole(l)'
                   <=> x \in Whole(l) \/ (outcome = "whole" /\ x = sample)
      <4>1. x \in Whole(l)' <=> \E j \in (1 .. n) \cup {n + 1} :
                                 disk'[l][j][2] = "whole" /\ x = disk'[l][j][1]
        BY ONLY <3>1, <2>2, <2>3
      <4>2. x \in Whole(l) <=> \E j \in 1 .. n :
                                 disk[l][j][2] = "whole" /\ x = disk[l][j][1]
        BY ONLY <3>2
      <4>3. \A j \in 1 .. n : disk'[l][j] = disk[l][j]
        BY <2>2
      <4>4. disk'[l][n + 1][1] = sample /\ disk'[l][n + 1][2] = outcome
        BY <2>2
      <4>. QED
        BY ONLY <4>1, <4>2, <4>3, <4>4
    <3>. QED
      BY ONLY <3>3
  <2>6. \A i \in DOMAIN disk'[l] :
          \/ i \in DOMAIN disk[l] /\ disk'[l][i] = disk[l][i]
          \/ disk'[l][i][1] = sample
    BY <2>2, <2>3
  <2>. QED
    BY <1>2, <1>3, <2>4, <2>5, <2>6
<1>. QED
  BY <1>4, <1>5

\* Nothing is stored or sent before the loop; the local storage stays in use.
LEMMA PrepareInvNext ==
  ASSUME TypeOK, PrepareInv, Next
  PROVE  PrepareInv'
<1>. USE DEF PrepareInv, Preparing, Writing
<1>1. CASE OpenDevice \/ InitStorage \/ OpenCan \/ OpenMqtt \/ Handshake
  BY <1>1 DEF TypeOK, OpenDevice, InitStorage, OpenCan, OpenMqtt, Handshake,
              WriteStatusThen, outputs, flags, Storages
<1>2. CASE ReadFrame \/ ReadDeadLink \/ CountError
  BY <1>2 DEF ReadFrame, ProcessFrame, ReadDeadLink, CountError,
              WriteStatusThen, NextStepAfterError, outputs, flags
<1>3. CASE StoreLocal \/ StoreSd \/ SendCanFrame \/ EndCan
  BY <1>3 DEF StoreLocal, StoreSd, Store, SendCanFrame, EndCan, outputs, flags
<1>4. CASE SendMqttPart \/ EndMqtt \/ BrokenPipe
  BY <1>4 DEF SendMqttPart, EndMqtt, BrokenPipe, WriteStatusThen, outputs,
              flags
<1>5. CASE OpenTemporary \/ CloseTemporary \/ RenameTemporary \/ Environment
  BY <1>5 DEF OpenTemporary, CloseTemporary, CloseFailure, RenameTemporary,
              Environment, Publish, LinkFails, BrokerFails, Kill, outputs,
              flags, TypeOK
<1>. QED
  BY <1>1, <1>2, <1>3, <1>4, <1>5 DEF Next, Service

BeingHandled == IF BeingStored THEN {sample} ELSE {}
StoredBefore == StoredEverywhere \ BeingHandled

\* The samples that count as stored: one more once the second storage holds
\* it and the first one did not fail.
LEMMA StoredNext ==
  ASSUME TypeOK, QueueInv, PrepareInv, CounterInv, DiskInv, Next
  PROVE  /\ disk' \in [Storages -> Seq(Samples \X {"whole", "torn"})]
         /\ \A l \in Storages : \A i \in DOMAIN disk'[l] :
              /\ disk'[l][i][1] <= sample'
              /\ step' = "local" \/ (step' = "sd" /\ l = "sd") =>
                   disk'[l][i][1] < sample'
         /\ step' = "local" => ~failed'
         /\ step' = "sd" => (failed' <=> sample' \notin Whole("local")')
         /\ \/ /\ StoredBefore' = StoredBefore
               /\ status'.count["stored_samples"]
                    = status.count["stored_samples"]
            \/ /\ StoredBefore' = StoredBefore \cup {sample}
               /\ sample \notin StoredBefore /\ sample \in Samples
               /\ status'.count["stored_samples"]
                    = status.count["stored_samples"] + 1
<1>1. /\ sample \in Int /\ sample' \in Int
      /\ disk \in [Storages -> Seq(Samples \X {"whole", "torn"})]
      /\ \A l \in Storages : \A i \in DOMAIN disk[l] : disk[l][i][1] \in Int
  <2>1. \A l \in Storages : \A i \in DOMAIN disk[l] : disk[l][i][1] \in Int
    <3>1. SUFFICES ASSUME NEW l \in Storages, NEW i \in DOMAIN disk[l]
                   PROVE  disk[l][i][1] \in Int
      OBVIOUS
    <3>2. disk[l] \in Seq(Samples \X {"whole", "torn"})
      BY DEF TypeOK
    <3>3. disk[l][i] \in Samples \X {"whole", "torn"}
      BY <3>1, <3>2, LenProperties
    <3>. QED
      BY <3>3 DEF Samples
  <2>. QED
    BY <2>1, SampleNext DEF TypeOK
<1>2. /\ StoredEverywhere \subseteq Whole("local")
      /\ \A s \in Whole("local") : s <= sample
      /\ step = "local" => sample \notin Whole("local")
      /\ step = "sd" => sample \notin Whole("sd")
  <2>1. "local" \in Storages /\ "sd" \in Storages
    BY DEF Storages
  <2>. QED
    BY <1>1, <2>1 DEF StoredEverywhere, PrepareInv, Whole, DiskInv
<1>3. CASE InitStorage
  <2>1. /\ step = "init_storage" /\ disk' = disk /\ sample' = sample
        /\ \A l \in Storages : disk[l] = <<>>
        /\ step' \notin {"local", "sd"}
        /\ disabled'["local"] = FALSE
    BY <1>3 DEF InitStorage, PrepareInv, Preparing, outputs, WriteStatusThen,
                TypeOK, Storages
  <2>2. StoredEverywhere' = {} /\ StoredEverywhere = {}
    BY <2>1 DEF StoredEverywhere, PrepareInv, Whole, Storages
  <2>3. status'.count["stored_samples"] = status.count["stored_samples"]
    BY <2>1, BeingStoredNext DEF StoreSd
  <2>. QED
    BY <1>1, <2>1, <2>2, <2>3 DEF StoredBefore
<1>4. CASE ReadFrame /\ step = "poll" /\ step' = "local"
  <2>1. /\ disk' = disk /\ disabled' = disabled /\ ~failed'
        /\ sample < sample'
        /\ ~BeingStored /\ BeingStored'
        /\ status'.count["stored_samples"] = status.count["stored_samples"]
    <3>1. ~failed' /\ disk' = disk /\ disabled' = disabled
      BY <1>4 DEF ReadFrame, ProcessFrame, outputs, flags
    <3>2. ~StoreSd /\ sample < sample' /\ sample' # sample
      BY <1>1, <1>4, SampleNext DEF StoreSd
    <3>. QED
      BY <1>4, <3>1, <3>2, BeingStoredNext
  <2>2. StoredEverywhere' = StoredEverywhere
    BY <2>1 DEF StoredEverywhere, Whole
  <2>3. sample' \notin StoredEverywhere
    BY <1>1, <1>2, <2>1
  <2>4. StoredBefore' = StoredBefore
    BY <2>1, <2>2, <2>3 DEF StoredBefore, BeingHandled
  <2>. QED
    BY <1>1, <1>4, <2>1, <2>4 DEF DiskInv
<1>5. CASE StoreLocal
  <2>1. PICK outcome \in {"skipped", "whole", "torn", "lost"} :
          Store("local", outcome)
    BY <1>5 DEF StoreLocal
  <2>2. /\ "local" \in Storages /\ "sd" \in Storages
        /\ step = "local" /\ step' = "sd" /\ sample' = sample
        /\ sample \in Samples /\ ~failed /\ ~disabled["local"]
        /\ disabled' = disabled
    BY <1>5, <2>1 DEF StoreLocal, Store, QueueInv, Handing, DiskInv,
                      PrepareInv, flags, Storages
  <2>3. outcome \in {"whole", "torn", "lost"}
        /\ failed' = (outcome \in {"torn", "lost"})
    BY <2>1, <2>2 DEF Store, StorageFailed
  <2>4. /\ disk' \in [Storages -> Seq(Samples \X {"whole", "torn"})]
        /\ disk'["sd"] = disk["sd"]
        /\ \A i \in DOMAIN disk'["local"] :
             \/ i \in DOMAIN disk["local"]
                /\ disk'["local"][i] = disk["local"][i]
             \/ disk'["local"][i][1] = sample
        /\ Whole("local")' = IF outcome = "whole"
                             THEN Whole("local") \cup {sample}
                             ELSE Whole("local")
        /\ Whole("sd")' = Whole("sd")
    BY <2>1, <2>2, StoreFacts
  <2>5. failed' <=> sample' \notin Whole("local")'
    BY <1>2, <2>2, <2>3, <2>4
  <2>6. /\ BeingStored /\ BeingStored'
        /\ status'.count["stored_samples"] = status.count["stored_samples"]
    BY <2>2, BeingStoredNext DEF BeingStored, StoreSd
  <2>7. StoredBefore' = StoredBefore
    BY <2>2, <2>4, <2>6
       DEF StoredBefore, BeingHandled, StoredEverywhere, Storages
  <2>8. \A l \in Storages : \A i \in DOMAIN disk'[l] :
          /\ disk'[l][i][1] <= sample'
          /\ l = "sd" => disk'[l][i][1] < sample'
    <3>1. \A i \in DOMAIN disk["local"] : disk["local"][i][1] <= sample
      BY <2>2 DEF DiskInv
    <3>2. \A i \in DOMAIN disk["sd"] : disk["sd"][i][1] < sample
      BY <2>2 DEF DiskInv
    <3>3. \A i \in DOMAIN disk'["local"] : disk'["local"][i][1] <= sample'
      BY <1>1, <2>2, <2>4, <3>1
    <3>4. \A i \in DOMAIN disk'["sd"] :
            disk'["sd"][i][1] <= sample' /\ disk'["sd"][i][1] < sample'
      BY <1>1, <2>2, <2>4, <3>2
    <3>. QED
      BY <3>3, <3>4 DEF Storages
  <2>. QED
    BY <2>2, <2>4, <2>5, <2>6, <2>7, <2>8
<1>6. CASE StoreSd
  <2>1. PICK outcome \in {"skipped", "whole", "torn", "lost"} :
          Store("sd", outcome)
    BY <1>6 DEF StoreSd
  <2>2. /\ "local" \in Storages /\ "sd" \in Storages
        /\ step = "sd" /\ step' = "can" /\ sample' = sample
        /\ sample \in Samples /\ ~disabled["local"]
        /\ disabled' = disabled
        /\ failed <=> sample \notin Whole("local")
    BY <1>6, <2>1 DEF StoreSd, Store, QueueInv, Handing, DiskInv,
                      PrepareInv, flags, Storages
  <2>3. /\ disabled["sd"] <=> outcome = "skipped"
        /\ failed' <=> failed \/ outcome \in {"torn", "lost"}
    BY <2>1, <2>2 DEF Store, StorageFailed
  <2>4. /\ disk' \in [Storages -> Seq(Samples \X {"whole", "torn"})]
        /\ disk'["local"] = disk["local"]
        /\ \A i \in DOMAIN disk'["sd"] :
             \/ i \in DOMAIN disk["sd"] /\ disk'["sd"][i] = disk["sd"][i]
             \/ disk'["sd"][i][1] = sample
        /\ Whole("sd")' = IF outcome = "whole"
                           THEN Whole("sd") \cup {sample} ELSE Whole("sd")
        /\ Whole("local")' = Whole("local")
    BY <2>1, <2>2, StoreFacts
  <2>5. /\ BeingStored /\ ~BeingStored'
    BY <1>6, <2>2 DEF BeingStored
  <2>6. sample \in StoredEverywhere' <=> ~failed'
    BY <1>2, <2>2, <2>3, <2>4 DEF StoredEverywhere, Storages
  <2>7. \A s \in Samples \ {sample} :
          s \in StoredEverywhere' <=> s \in StoredEverywhere
    BY <2>2, <2>4 DEF StoredEverywhere, Storages
  <2>8. /\ StoredEverywhere \subseteq Samples
        /\ StoredEverywhere' \subseteq Samples
    BY DEF StoredEverywhere
  <2>9. \A l \in Storages : \A i \in DOMAIN disk'[l] : disk'[l][i][1] <= sample'
    <3>1. \A i \in DOMAIN disk'["local"] : disk'["local"][i][1] <= sample'
      BY <2>2, <2>4 DEF DiskInv
    <3>2. \A i \in DOMAIN disk'["sd"] : disk'["sd"][i][1] <= sample'
      <4>1. \A i \in DOMAIN disk["sd"] : disk["sd"][i][1] <= sample
        BY <2>2 DEF DiskInv
      <4>2. sample' = sample /\ sample <= sample
        BY <1>1, <2>2
      <4>3. \A i \in DOMAIN disk'["sd"] :
              \/ i \in DOMAIN disk["sd"] /\ disk'["sd"][i] = disk["sd"][i]
              \/ disk'["sd"][i][1] = sample
        BY <2>4
      <4>. QED
        BY ONLY <4>1, <4>2, <4>3
    <3>. QED
      BY <3>1, <3>2 DEF Storages
  <2>10. CASE failed'
    <3>1. StoredBefore' = StoredBefore
      BY <2>2, <2>5, <2>6, <2>7, <2>8, <2>10 DEF StoredBefore, BeingHandled
    <3>2. status'.count["stored_samples"] = status.count["stored_samples"]
      <4>1. Raises("storage_errors")
        BY <1>6, <2>10, StatusChange
      <4>. QED
        BY <4>1 DEF Raises, Counters
    <3>. QED
      BY <2>2, <2>4, <2>9, <3>1, <3>2
  <2>11. CASE ~failed'
    <3>1. StoredBefore' = StoredBefore \cup {sample}
      BY <2>2, <2>5, <2>6, <2>7, <2>8, <2>11 DEF StoredBefore, BeingHandled
    <3>2. status'.count["stored_samples"] = status.count["stored_samples"] + 1
      <4>1. Raises("stored_samples")
        BY <1>6, <2>11, StatusChange
      <4>. QED
        BY <4>1 DEF Raises, Counters
    <3>3. sample \notin StoredBefore
      BY <2>5 DEF StoredBefore, BeingHandled
    <3>. QED
      BY <2>2, <2>4, <2>9, <3>1, <3>2, <3>3
  <2>. QED
    BY <2>10, <2>11
<1>7. CASE ~InitStorage /\ ~StoreLocal /\ ~StoreSd
             /\ ~(ReadFrame /\ step = "poll" /\ step' = "local")
  <2>1. disk' = disk /\ disabled' = disabled
    BY <1>7 DEF Next, Service, Environment, OpenDevice, OpenCan,
         OpenMqtt, Handshake, ReadFrame, ReadDeadLink, CountError,
         SendCanFrame, EndCan, SendMqttPart, EndMqtt, BrokenPipe,
         OpenTemporary, CloseTemporary, RenameTemporary, Publish, LinkFails,
         BrokerFails, Kill, outputs, flags
  <2>2. /\ sample' = sample /\ (step' = "local" => step = "local")
        /\ BeingStored' <=> BeingStored
        /\ status'.count["stored_samples"] = status.count["stored_samples"]
    BY <1>7, BeingStoredNext
  <2>3. StoredEverywhere' = StoredEverywhere
    BY <2>1 DEF StoredEverywhere, Whole
  <2>4. StoredBefore' = StoredBefore
    BY <2>2, <2>3 DEF StoredBefore, BeingHandled
  <2>5. /\ step' = "sd" => step = "sd"
        /\ step' \in {"local", "sd"} => failed' = failed
    BY <1>7 DEF Next, Service, Environment, OpenDevice, OpenCan,
         OpenMqtt, Handshake, ReadFrame, ProcessFrame, ReadDeadLink,
         CountError, SendCanFrame, EndCan, SendMqttPart, EndMqtt, BrokenPipe,
         OpenTemporary, CloseTemporary, CloseFailure, RenameTemporary,
         Publish, LinkFails, BrokerFails, Kill, WriteStatusThen,
         NextStepAfterError, TypeOK
  <2>6. Whole("local")' = Whole("local")
    BY <2>1 DEF Whole
  <2>. QED
    BY <1>1, <2>1, <2>2, <2>4, <2>5, <2>6 DEF DiskInv
<1>. QED
  BY <1>3, <1>4, <1>5, <1>6, <1>7

\* The samples on the disks are those the counter counts.
LEMMA DiskInvNext ==
  ASSUME TypeOK, QueueInv, PrepareInv, CounterInv, DiskInv, Next
  PROVE  DiskInv'
<1>1. /\ IsFiniteSet(StoredBefore)
      /\ Cardinality(StoredBefore) = status.count["stored_samples"]
  <2>1. StoredBefore \subseteq 1 .. MaxFrames
    BY DEF StoredBefore, StoredEverywhere, Samples
  <2>2. IsFiniteSet(1 .. MaxFrames)
    BY FS_Interval, BoundsAssumption
  <2>. QED
    BY <2>1, <2>2, FS_Subset DEF DiskInv, StoredBefore, BeingHandled
<1>2. Cardinality(StoredBefore') = status'.count["stored_samples"]
  BY <1>1, StoredNext, FS_AddElement
<1>3. StoredBefore' = StoredEverywhere' \ (IF BeingStored' THEN {sample'} ELSE {})
  BY DEF StoredBefore, BeingHandled
<1>. QED
  BY <1>2, <1>3, StoredNext DEF DiskInv

\* How the thread gets to CAN and to MQTT, and what it leaves alone.
LEMMA OutputControl ==
  ASSUME TypeOK, Next
  PROVE  /\ step # "killed"
         /\ bus' = bus \/ SendCanFrame
         /\ stream' = stream \/ SendMqttPart
         /\ step' = "sd" => step \in {"local", "sd"}
         /\ step' = "can" =>
              /\ step \in {"sd", "can"}
              /\ UNCHANGED <<sample, can_enabled>>
              /\ sent' = sent \/ SendCanFrame
         /\ step = "can" => step' \in {"can", "killed"} \/ EndCan
         /\ step' = "mqtt" =>
              /\ step = "mqtt" \/ EndCan
              /\ UNCHANGED <<sample, mqtt_enabled>>
              /\ sent' = sent \/ EndCan \/ SendMqttPart
         /\ step = "mqtt" => step' \in {"mqtt", "killed"} \/ EndMqtt
         /\ mqtt_enabled' => mqtt_enabled
         /\ broker' = "open" => broker = "open" \/ step = "open_mqtt"
<1>1. CASE OpenDevice \/ InitStorage \/ OpenCan \/ OpenMqtt \/ Handshake
  <2>1. CASE OpenDevice \/ InitStorage
    BY <2>1 DEF OpenDevice, InitStorage, WriteStatusThen, environment, flags,
                outputs
  <2>2. CASE OpenCan
    BY <2>2 DEF OpenCan, environment, outputs
  <2>3. CASE OpenMqtt
    BY <2>3 DEF OpenMqtt, outputs
  <2>4. CASE Handshake
    BY <2>4 DEF Handshake, environment, outputs
  <2>. QED
    BY <1>1, <2>1, <2>2, <2>3, <2>4
<1>2. CASE ReadFrame \/ ReadDeadLink \/ CountError
  BY <1>2 DEF TypeOK, ReadFrame, ProcessFrame, ReadDeadLink, CountError,
              WriteStatusThen, NextStepAfterError, environment, flags, outputs
<1>3. CASE StoreLocal \/ StoreSd \/ SendCanFrame \/ EndCan
  BY <1>3 DEF TypeOK, StoreLocal, StoreSd, Store, SendCanFrame, EndCan,
              environment, flags, outputs
<1>4. CASE SendMqttPart \/ EndMqtt \/ BrokenPipe
  BY <1>4 DEF TypeOK, SendMqttPart, EndMqtt, MqttEnabledAfter, BrokenPipe,
              WriteStatusThen, environment, flags, outputs
<1>5. CASE OpenTemporary \/ CloseTemporary \/ RenameTemporary
             \/ (step # "killed" /\ Environment)
  BY <1>5 DEF TypeOK, OpenTemporary, CloseTemporary, CloseFailure,
              RenameTemporary, Environment, Publish, LinkFails, BrokerFails,
              Kill, environment, flags, outputs
<1>. QED
  BY <1>1, <1>2, <1>3, <1>4, <1>5 DEF Next, Service

BusOrder ==
  \A i \in DOMAIN bus : i > 1 =>
    \/ bus[i] = <<bus[i - 1][1], bus[i - 1][2] + 1>>
    \/ bus[i][1] > bus[i - 1][1] /\ bus[i][2] = 0

CutBefore ==
  CutGroups \ (IF step \in {"can", "killed"} THEN {sample} ELSE {})

\* The groups on the bus follow each other.
LEMMA BusInvNext ==
  ASSUME TypeOK, QueueInv, BusInv, BusOrder, Next
  PROVE  /\ bus' \in Seq(Samples \X (0 .. CanFrames - 1))
         /\ BusInv' /\ BusOrder'
<1>1. /\ bus \in Seq(Samples \X (0 .. CanFrames - 1))
      /\ CanFrames \in Nat /\ sample \in Int /\ sample' \in Int /\ sent \in Nat
      /\ DOMAIN bus = 1 .. Len(bus) /\ Len(bus) \in Nat
      /\ \A i \in DOMAIN bus : bus[i][1] \in Int /\ bus[i][1] <= sample
  <2>1. /\ bus \in Seq(Samples \X (0 .. CanFrames - 1))
        /\ sample \in Int /\ sample' \in Int /\ sent \in Nat
    BY SampleNext, CanFramesAssumption, BoundsAssumption
       DEF TypeOK, MqttParts
  <2>2. DOMAIN bus = 1 .. Len(bus) /\ Len(bus) \in Nat
    BY <2>1, LenProperties
  <2>3. \A i \in DOMAIN bus : bus[i] \in Samples \X (0 .. CanFrames - 1)
    BY <2>1, <2>2
  <2>. QED
    BY <2>1, <2>2, <2>3, CanFramesAssumption DEF Samples, BusInv
<1>2. CASE SendCanFrame
  <2>1. /\ step = "can" /\ step' = "can" /\ can_enabled /\ sent < CanFrames
        /\ sent' = sent + 1 /\ sample' = sample /\ can_enabled'
        /\ bus' = Append(bus, <<sample, sent>>)
        /\ sample \in Samples
    BY <1>2 DEF SendCanFrame, QueueInv, Handing, flags
  <2>. DEFINE n == Len(bus)
  <2>2. /\ bus' \in Seq(Samples \X (0 .. CanFrames - 1))
        /\ Len(bus') = n + 1 /\ bus' # <<>>
        /\ DOMAIN bus' = 1 .. n + 1
        /\ bus'[n + 1] = <<sample, sent>>
        /\ \A i \in 1 .. n : bus'[i] = bus[i]
    <3>1. <<sample, sent>> \in Samples \X (0 .. CanFrames - 1)
      BY <1>1, <2>1
    <3>. QED
      BY <1>1, <2>1, <3>1, Appended
  <2>3. BusInv'
    <3>1. \A i \in DOMAIN bus' : bus'[i][1] <= sample'
      BY <1>1, <2>1, <2>2
    <3>. QED
      BY <1>1, <2>1, <2>2, <3>1 DEF BusInv
  <2>4. n > 0 => \/ <<sample, sent>> = <<bus[n][1], bus[n][2] + 1>>
                 \/ sample > bus[n][1] /\ sent = 0
    <3>1. CASE sent = 0
      BY <1>1, <2>1, <3>1 DEF BusInv
    <3>2. CASE sent > 0
      <4>1. bus[n] = <<sample, sent - 1>>
        BY <2>1, <3>2 DEF BusInv
      <4>. QED
        BY <1>1, <4>1
    <3>. QED
      BY <1>1, <3>1, <3>2
  <2>5. BusOrder'
    <3>. SUFFICES ASSUME NEW i \in DOMAIN bus', i > 1
                  PROVE  \/ bus'[i] = <<bus'[i - 1][1], bus'[i - 1][2] + 1>>
                         \/ bus'[i][1] > bus'[i - 1][1] /\ bus'[i][2] = 0
      BY DEF BusOrder
    <3>1. CASE i = n + 1
      <4>1. n > 0 /\ i - 1 = n /\ n \in 1 .. n
        BY <1>1, <3>1
      <4>2. bus'[i] = <<sample, sent>> /\ bus'[i - 1] = bus[n]
        BY <2>2, <3>1, <4>1
      <4>. QED
        BY <2>4, <4>1, <4>2
    <3>2. CASE i \in 1 .. n
      <4>1. i - 1 \in 1 .. n
        BY <1>1, <3>2
      <4>. QED
        BY <1>1, <2>2, <3>2, <4>1 DEF BusOrder
    <3>. QED
      BY <1>1, <2>2, <3>1, <3>2
  <2>. QED
    BY <2>2, <2>3, <2>5
<1>3. CASE ~SendCanFrame
  <2>1. bus' = bus
    BY <1>3, OutputControl
  <2>2. \/ step' = "local" /\ sample < sample'
        \/ sample' = sample /\ (step' = "local" => step = "local")
    BY SampleNext
  <2>3. /\ step' = "sd" => step \in {"local", "sd"}
        /\ step' = "can" => /\ step \in {"sd", "can"}
                            /\ can_enabled' = can_enabled /\ sent' = sent
    BY <1>3, OutputControl
  <2>4. step = "sd" => sent = 0
    BY DEF QueueInv
  <2>5. \A i \in DOMAIN bus : bus[i][1] <= sample'
    BY <1>1, <2>2
  <2>6. step' \in {"local", "sd"} \/ (step' = "can" /\ sent' = 0) =>
          \A i \in DOMAIN bus : bus[i][1] < sample'
    BY <1>1, <2>2, <2>3 DEF BusInv
  <2>7. BusInv'
    BY <1>1, <2>1, <2>2, <2>3, <2>4, <2>5, <2>6 DEF BusInv
  <2>. QED
    BY <1>1, <2>1, <2>7 DEF BusOrder
<1>. QED
  BY <1>2, <1>3

\* Only EndCan adds a group that was cut short to those before, and counts it.
LEMMA CutNext ==
  ASSUME TypeOK, QueueInv, CounterInv, BusInv, Next,
         Cardinality(CutBefore) <= status.count["can_errors"]
  PROVE  Cardinality(CutBefore') <= status'.count["can_errors"]
<1>1. /\ status.count["can_errors"] \in Nat
      /\ status'.count["can_errors"] >= status.count["can_errors"]
  <2>1. \A k \in Counters : status.count[k] \in 0 .. Top
    BY Bounded
  <2>2. \/ status'.count = status.count
        \/ \E k \in Counters : Raises(k)
    BY StatusChange DEF Next, Service, Quiet, Counters
  <2>3. "can_errors" \in Counters
    BY DEF Counters
  <2>. QED
    BY <2>1, <2>2, <2>3 DEF Raises
<1>2. /\ CutBefore \subseteq 1 .. MaxFrames /\ CutBefore' \subseteq 1 .. MaxFrames
      /\ IsFiniteSet(1 .. MaxFrames)
  BY FS_Interval, BoundsAssumption DEF CutBefore, CutGroups, Samples
<1>3. /\ IsFiniteSet(CutBefore) /\ IsFiniteSet(CutBefore')
      /\ Cardinality(CutBefore) \in Nat /\ Cardinality(CutBefore') \in Nat
  BY <1>2, FS_Subset, FS_CardinalityType
<1>4. ASSUME CutBefore' \subseteq CutBefore
      PROVE  Cardinality(CutBefore') <= status'.count["can_errors"]
  <2>1. Cardinality(CutBefore') <= Cardinality(CutBefore)
    BY <1>3, <1>4, FS_Subset
  <2>. QED
    BY <1>1, <1>3, <2>1, StatusChange
       DEF Statuses, Counters
<1>5. CASE EndCan /\ can_enabled /\ sent # CanFrames
  <2>1. Raises("can_errors")
    BY <1>5, StatusChange
  <2>2. CutBefore' \subseteq CutBefore \cup {sample}
    BY <1>5 DEF EndCan, CutBefore, CutGroups, outputs
  <2>3. /\ IsFiniteSet(CutBefore \cup {sample})
        /\ Cardinality(CutBefore \cup {sample}) <= Cardinality(CutBefore) + 1
    BY <1>3, FS_AddElement
  <2>4. Cardinality(CutBefore') <= Cardinality(CutBefore \cup {sample})
    BY <2>2, <2>3, FS_Subset
  <2>5. /\ Cardinality(CutBefore \cup {sample}) \in Nat
    BY <2>3, FS_CardinalityType
  <2>. QED
    BY <1>1, <1>3, <2>1, <2>3, <2>4, <2>5 DEF Raises
<1>6. CASE EndCan /\ ~(can_enabled /\ sent # CanFrames)
  <2>1. /\ step = "can" /\ step' = "mqtt" /\ bus' = bus /\ sample' = sample
    BY <1>6 DEF EndCan, outputs
  <2>2. sample \notin CutGroups
    <3>1. CASE ~can_enabled
      <4>1. \A i \in DOMAIN bus : bus[i][1] < sample
        BY <2>1, <3>1 DEF BusInv
      <4>2. \A i \in DOMAIN bus : bus[i][1] # sample
        <5>1. sample \in Int
          BY DEF TypeOK
        <5>. QED
          BY <4>1, <5>1
      <4>. QED
        BY <4>2 DEF CutGroups
    <3>2. CASE can_enabled
      <4>1. sent = CanFrames /\ sent > 0
        BY <1>6, <3>2, CanFramesAssumption
      <4>2. bus # <<>> /\ bus[Len(bus)] = <<sample, CanFrames - 1>>
        BY <2>1, <4>1 DEF BusInv
      <4>3. bus \in Seq(Samples \X (0 .. CanFrames - 1))
        BY DEF TypeOK
      <4>4. Len(bus) \in DOMAIN bus
        <5>1. Len(bus) \in Nat /\ Len(bus) # 0 /\ DOMAIN bus = 1 .. Len(bus)
          BY <4>2, <4>3, LenProperties, EmptySeq
        <5>. QED
          BY <5>1
      <4>. QED
        BY <4>2, <4>4 DEF CutGroups
    <3>. QED
      BY <3>1, <3>2
  <2>3. CutBefore' \subseteq CutBefore
    BY <2>1, <2>2 DEF CutBefore, CutGroups
  <2>. QED
    BY <1>4, <2>3
<1>7. CASE SendCanFrame
  <2>1. /\ step = "can" /\ step' = "can" /\ sample' = sample
        /\ bus' = Append(bus, <<sample, sent>>)
        /\ <<sample, sent>> \in Samples \X (0 .. CanFrames - 1)
        /\ bus \in Seq(Samples \X (0 .. CanFrames - 1))
    BY <1>7, CanFramesAssumption
       DEF SendCanFrame, TypeOK, QueueInv, Handing, MqttParts
  <2>. DEFINE n == Len(bus)
  <2>2. /\ n \in Nat /\ DOMAIN bus = 1 .. n /\ DOMAIN bus' = 1 .. n + 1
        /\ bus'[n + 1] = <<sample, sent>>
        /\ \A i \in 1 .. n : bus'[i] = bus[i]
    BY <2>1, Appended
  <2>. HIDE DEF n
  <2>3. DOMAIN bus' = (1 .. n) \cup {n + 1}
    BY <2>2
  <2>4. ASSUME NEW s \in Samples \ {sample}
        PROVE  s \in CutGroups' <=> s \in CutGroups
    BY <2>2, <2>3 DEF CutGroups
  <2>5. CutBefore' \subseteq CutBefore
    BY <2>1, <2>4 DEF CutBefore, CutGroups
  <2>. QED
    BY <1>4, <2>5
<1>8. CASE ~EndCan /\ ~SendCanFrame
  <2>1. bus' = bus /\ step # "killed"
    BY <1>8, OutputControl
  <2>2. CutGroups' = CutGroups
    BY <2>1 DEF CutGroups
  <2>3. step = "can" => step' \in {"can", "killed"} /\ sample' = sample
    BY <1>8, OutputControl, SampleNext
  <2>4. CutBefore' \subseteq CutBefore
    BY <2>1, <2>2, <2>3 DEF CutBefore
  <2>. QED
    BY <1>4, <2>4
<1>. QED
  BY <1>5, <1>6, <1>7, <1>8

StreamOrder ==
  \A i \in DOMAIN stream :
    IF i = 1 THEN stream[i][2] = 0
    ELSE \/ stream[i] = <<stream[i - 1][1], stream[i - 1][2] + 1>>
         \/ /\ stream[i - 1][2] = MqttParts - 1
            /\ stream[i][2] = 0 /\ stream[i][1] > stream[i - 1][1]

\* The parts at the broker follow each other.
LEMMA StreamInvNext ==
  ASSUME TypeOK, QueueInv, PrepareInv, StreamInv, StreamOrder, Next
  PROVE  /\ stream' \in Seq(Samples \X (0 .. MqttParts - 1))
         /\ StreamInv' /\ StreamOrder'
<1>1. /\ stream \in Seq(Samples \X (0 .. MqttParts - 1))
      /\ MqttParts = 4 /\ sample \in Int /\ sample' \in Int /\ sent \in Nat
      /\ DOMAIN stream = 1 .. Len(stream) /\ Len(stream) \in Nat
      /\ stream # <<>> => Len(stream) > 0
      /\ \A i \in DOMAIN stream :
           stream[i][1] \in Int /\ stream[i][2] \in Int /\ stream[i][1] <= sample
  <2>1. /\ stream \in Seq(Samples \X (0 .. MqttParts - 1))
        /\ sample \in Int /\ sample' \in Int /\ sent \in Nat
    BY SampleNext, CanFramesAssumption, BoundsAssumption
       DEF TypeOK, MqttParts
  <2>2. /\ DOMAIN stream = 1 .. Len(stream) /\ Len(stream) \in Nat
        /\ stream # <<>> => Len(stream) > 0
    BY <2>1, LenProperties, EmptySeq
  <2>3. \A i \in DOMAIN stream : stream[i] \in Samples \X (0 .. MqttParts - 1)
    BY <2>1, <2>2
  <2>. QED
    BY <2>1, <2>2, <2>3 DEF Samples, StreamInv, MqttParts
<1>2. CASE SendMqttPart /\ broker = "open"
  <2>1. /\ step = "mqtt" /\ step' = "mqtt" /\ mqtt_enabled
        /\ sent < MqttParts /\ sent' = sent + 1 /\ sample' = sample
        /\ stream' = Append(stream, <<sample, sent>>)
        /\ sample \in Samples
    BY <1>2 DEF SendMqttPart, QueueInv, Handing
  <2>. DEFINE n == Len(stream)
  <2>2. /\ stream' \in Seq(Samples \X (0 .. MqttParts - 1))
        /\ Len(stream') = n + 1 /\ stream' # <<>>
        /\ DOMAIN stream' = 1 .. n + 1
        /\ stream'[n + 1] = <<sample, sent>>
        /\ \A i \in 1 .. n : stream'[i] = stream[i]
    <3>1. <<sample, sent>> \in Samples \X (0 .. MqttParts - 1)
      BY <1>1, <2>1
    <3>. QED
      BY <1>1, <2>1, <3>1, Appended
  <2>3. StreamInv'
    <3>1. \A i \in DOMAIN stream' : stream'[i][1] <= sample'
      BY <1>1, <2>1, <2>2
    <3>. QED
      BY <1>1, <2>1, <2>2, <3>1 DEF StreamInv
  <2>4. IF n = 0 THEN sent = 0
        ELSE \/ <<sample, sent>> = <<stream[n][1], stream[n][2] + 1>>
             \/ /\ stream[n][2] = MqttParts - 1
                /\ sent = 0 /\ sample > stream[n][1]
    <3>1. CASE sent = 0
      BY <1>1, <1>2, <2>1, <3>1, EmptySeq DEF StreamInv
    <3>2. CASE sent > 0
      <4>1. stream # <<>> /\ stream[n] = <<sample, sent - 1>>
        BY <1>2, <2>1, <3>2 DEF StreamInv
      <4>. QED
        BY <1>1, <4>1
    <3>. QED
      BY <1>1, <3>1, <3>2
  <2>5. StreamOrder'
    <3>. SUFFICES ASSUME NEW i \in DOMAIN stream'
         PROVE  IF i = 1 THEN stream'[i][2] = 0
                ELSE \/ stream'[i] = <<stream'[i - 1][1], stream'[i - 1][2] + 1>>
                     \/ /\ stream'[i - 1][2] = MqttParts - 1
                        /\ stream'[i][2] = 0
                        /\ stream'[i][1] > stream'[i - 1][1]
      BY DEF StreamOrder
    <3>1. CASE i = n + 1
      <4>1. CASE n = 0
        BY <2>2, <2>4, <3>1, <4>1
      <4>2. CASE n # 0
        <5>1. i # 1 /\ i - 1 = n /\ n \in 1 .. n
          BY <1>1, <3>1, <4>2
        <5>2. stream'[i] = <<sample, sent>> /\ stream'[i - 1] = stream[n]
          BY <2>2, <3>1, <5>1
        <5>. QED
          BY <2>4, <4>2, <5>1, <5>2
      <4>. QED
        BY <4>1, <4>2
    <3>2. CASE i \in 1 .. n
      <4>1. i = 1 \/ i - 1 \in 1 .. n
        BY <1>1, <3>2
      <4>. QED
        BY <1>1, <2>2, <3>2, <4>1 DEF StreamOrder
    <3>. QED
      BY <1>1, <2>2, <3>1, <3>2
  <2>. QED
    BY <2>2, <2>3, <2>5
<1>3. CASE SendMqttPart /\ broker # "open"
  <2>1. /\ step = "mqtt" /\ step' = "mqtt" /\ broker' # "open"
        /\ sample' = sample /\ stream' = stream /\ sent' = sent + 1
    BY <1>3 DEF SendMqttPart
  <2>. QED
    BY <1>1, <2>1 DEF StreamInv, StreamOrder
<1>4. CASE ~SendMqttPart
  <2>1. stream' = stream
    BY <1>4, OutputControl
  <2>2. \/ step' = "local" /\ sample < sample'
        \/ sample' = sample /\ (step' = "local" => step = "local")
    BY SampleNext
  <2>3. /\ step' = "sd" => step \in {"local", "sd"}
        /\ step' = "can" => step \in {"sd", "can"}
        /\ step' = "mqtt" => \/ step = "can" /\ sent' = 0
                             \/ step = "mqtt" /\ sent' = sent
    BY <1>4, OutputControl DEF EndCan
  <2>4. \A i \in DOMAIN stream : stream[i][1] <= sample'
    BY <1>1, <2>2
  <2>5. step' \in {"local", "sd", "can"} \/ (step' = "mqtt" /\ sent' = 0) =>
          \A i \in DOMAIN stream : stream[i][1] < sample'
    <3>1. step' \in {"local", "sd", "can"} \/ (step' = "mqtt" /\ sent' = 0) =>
            \/ sample < sample'
            \/ step \in {"local", "sd", "can"} \/ (step = "mqtt" /\ sent = 0)
      BY <2>2, <2>3
    <3>. QED
      BY <1>1, <2>2, <3>1 DEF StreamInv
  <2>6. mqtt_enabled' /\ broker' = "open" /\ step' # "killed" =>
          IF step' = "mqtt" /\ sent' > 0
          THEN stream # <<>> /\ stream[Len(stream)] = <<sample', sent' - 1>>
          ELSE stream # <<>> => stream[Len(stream)][2] = MqttParts - 1
    <3>. SUFFICES ASSUME mqtt_enabled', broker' = "open", step' # "killed"
         PROVE  IF step' = "mqtt" /\ sent' > 0
                THEN stream # <<>> /\ stream[Len(stream)] = <<sample', sent' - 1>>
                ELSE stream # <<>> => stream[Len(stream)][2] = MqttParts - 1
      OBVIOUS
    <3>1. mqtt_enabled /\ step # "killed"
      BY OutputControl
    <3>2. CASE step = "open_mqtt"
      <4>1. stream = <<>>
        BY <3>2 DEF PrepareInv, Preparing
      <4>2. step' # "mqtt"
        BY <2>3, <3>2
      <4>. QED
        BY <4>1, <4>2
    <3>3. CASE step # "open_mqtt"
      <4>1. broker = "open"
        BY <3>3, OutputControl
      <4>2. CASE step = "mqtt" /\ step' = "mqtt"
        BY <2>2, <2>3, <3>1, <4>1, <4>2 DEF StreamInv
      <4>3. CASE step = "mqtt" /\ step' # "mqtt"
        <5>1. EndMqtt
          BY <4>3, OutputControl
        <5>2. sent = MqttParts
          BY <5>1 DEF EndMqtt, MqttEnabledAfter
        <5>3. stream[Len(stream)] = <<sample, sent - 1>>
          BY <1>1, <3>1, <4>1, <4>3, <5>2 DEF StreamInv
        <5>. QED
          BY <4>3, <5>2, <5>3
      <4>4. CASE step # "mqtt"
        BY <1>1, <2>3, <3>1, <4>1, <4>4 DEF StreamInv
      <4>. QED
        BY <4>2, <4>3, <4>4
    <3>. QED
      BY <3>2, <3>3
  <2>. QED
    BY <1>1, <2>1, <2>4, <2>5, <2>6 DEF StreamInv, StreamOrder
<1>. QED
  BY <1>2, <1>3, <1>4

\* OutputsAreDecodable in its three parts.
LEMMA DecodableParts ==
  OutputsAreDecodable <=>
    /\ BusOrder /\ StreamOrder
    /\ Cardinality(CutBefore) <= status.count["can_errors"]
  BY DEF OutputsAreDecodable, BusOrder, StreamOrder, CutBefore

\* Nothing but a closed temporary file is renamed.
LEMMA FileInvNext ==
  ASSUME TypeOK, QueueInv, CounterInv, FileInv, Next
  PROVE  /\ FileInv'
         /\ file' \in Statuses \cup {Absent, Partial, Earlier}
         /\ tmp' \in Statuses \cup {Absent, Partial}
<1>1. /\ status \in Statuses /\ status' \in Statuses
      /\ \A k \in Counters : status.count[k] <= status'.count[k]
      /\ status'.ok => status.ok
  <2>1. \A k \in Counters : status.count[k] \in 0 .. Top
    BY Bounded
  <2>2. \/ status' = status
        \/ status'.count = status.count /\ status'.ok = FALSE
        \/ /\ \E k \in Counters : Raises(k)
           /\ status'.ok = FALSE \/ status'.ok = status.ok
    BY StatusChange DEF Next, Service, Quiet, Counters
  <2>3. \A k \in Counters : status.count[k] <= status'.count[k]
    BY <2>1, <2>2 DEF Raises
  <2>. QED
    BY <2>2, <2>3, StatusChange DEF TypeOK
<1>2. CASE CloseTemporary
  <2>1. /\ file' = file /\ status' = status
        /\ tmp' \in {status, Absent}
        /\ step' = "rename" => tmp' = status \/ after = "rename"
    BY <1>2 DEF CloseTemporary, CloseFailure
  <2>2. after # "rename"
    BY DEF TypeOK
  <2>. QED
    BY <1>1, <2>1, <2>2 DEF FileInv, StatusFileIsAPastStatus, TypeOK
<1>3. CASE RenameTemporary
  <2>1. /\ step = "rename" /\ tmp = status /\ tmp' = Absent /\ status' = status
        /\ file' \in {status, file} /\ step' = after /\ after # "rename"
    BY <1>3 DEF RenameTemporary, FileInv, TypeOK
  <2>2. \A k \in Counters : status.count[k] <= status.count[k]
    <3>1. \A k \in Counters : status.count[k] \in 0 .. Top
      BY Bounded
    <3>. QED
      BY <3>1
  <2>. QED
    BY <1>1, <2>1, <2>2 DEF FileInv, StatusFileIsAPastStatus, TypeOK
<1>4. CASE OpenTemporary
  <2>1. /\ file' = file /\ status' = status /\ tmp' \in {tmp, Partial}
        /\ step' # "rename"
    BY <1>4 DEF OpenTemporary, TypeOK
  <2>. QED
    BY <1>1, <2>1 DEF FileInv, StatusFileIsAPastStatus, TypeOK
<1>5. CASE ~CloseTemporary /\ ~RenameTemporary /\ ~OpenTemporary
  <2>1. /\ file' = file /\ tmp' = tmp
        /\ step' = "rename" => step = "rename" /\ status' = status
    <3>1. CASE OpenDevice \/ InitStorage \/ OpenCan \/ OpenMqtt \/ Handshake
      BY <3>1 DEF TypeOK, OpenDevice, InitStorage, OpenCan, OpenMqtt,
                  Handshake, WriteStatusThen, files
    <3>2. CASE ReadFrame \/ ReadDeadLink \/ CountError
      BY <3>2 DEF TypeOK, ReadFrame, ProcessFrame, ReadDeadLink, CountError,
                  WriteStatusThen, NextStepAfterError, files
    <3>3. CASE StoreLocal \/ StoreSd \/ SendCanFrame \/ EndCan
      BY <3>3 DEF StoreLocal, StoreSd, Store, SendCanFrame, EndCan, files
    <3>4. CASE SendMqttPart \/ EndMqtt \/ BrokenPipe
      BY <3>4 DEF SendMqttPart, EndMqtt, BrokenPipe, WriteStatusThen, files
    <3>5. CASE Environment
      BY <3>5 DEF Environment, Publish, LinkFails, BrokerFails, Kill, files
    <3>. QED
      BY <1>5, <3>1, <3>2, <3>3, <3>4, <3>5 DEF Next, Service
  <2>2. StatusFileIsAPastStatus'
    <3>1. CASE file \in {Absent, Earlier}
      BY <2>1, <3>1 DEF StatusFileIsAPastStatus
    <3>2. CASE file \notin {Absent, Earlier}
      <4>1. /\ file \in Statuses
            /\ \A k \in Counters : file.count[k] <= status.count[k]
            /\ status.ok => file.ok
        BY <3>2 DEF FileInv, StatusFileIsAPastStatus
      <4>2. \A k \in Counters : /\ file.count[k] \in Int
                                /\ status.count[k] \in Int
                                /\ status'.count[k] \in Int
        BY <1>1, <4>1 DEF Statuses
      <4>. QED
        BY <1>1, <2>1, <4>1, <4>2 DEF StatusFileIsAPastStatus
    <3>. QED
      BY <3>1, <3>2
  <2>. QED
    BY <2>1, <2>2 DEF FileInv, TypeOK
<1>. QED
  BY <1>2, <1>3, <1>4, <1>5

\* Init establishes the invariant.
LEMMA InvInit == Init => Inv
<1>. SUFFICES ASSUME Init PROVE Inv
  OBVIOUS
<1>1. PICK configuration \in Configurations :
        /\ can_enabled = configuration[1] /\ mqtt_enabled = configuration[2]
        /\ status_enabled = configuration[3]
        /\ status = InitialStatus(configuration[4])
  BY DEF Init
<1>2. /\ configuration[1] \in BOOLEAN /\ configuration[2] \in BOOLEAN
      /\ configuration[3] \in BOOLEAN /\ configuration[4] \in BOOLEAN
  BY ConfigurationsAssumption
<1>3. /\ status \in Statuses /\ status.ok = TRUE
      /\ status.count["ota_staged"] \in 0 .. 1
      /\ \A k \in Counters \ {"ota_staged"} : status.count[k] = 0
  <2>1. status = [ok |-> TRUE, last_error |-> "",
                  count |-> [k \in Counters |->
                    IF k = "ota_staged" /\ configuration[4] THEN 1 ELSE 0]]
    BY <1>1 DEF InitialStatus
  <2>2. [k \in Counters |-> IF k = "ota_staged" /\ configuration[4] THEN 1
                                                                   ELSE 0]
          \in [Counters -> 0 .. MaxFrames + MaxInvalid + 1]
    BY BoundsAssumption
  <2>3. status \in Statuses
    <3>1. "" \in Messages /\ TRUE \in BOOLEAN
      BY DEF Messages
    <3>. QED
      BY <2>1, <2>2, <3>1 DEF Statuses
  <2>4. \A k \in Counters : status.count[k] =
          IF k = "ota_staged" /\ configuration[4] THEN 1 ELSE 0
    BY <2>1
  <2>5. "ota_staged" \in Counters
    BY DEF Counters
  <2>6. status.count["ota_staged"] \in 0 .. 1
    BY ONLY <2>4, <2>5
  <2>7. \A k \in Counters \ {"ota_staged"} : status.count[k] = 0
    BY ONLY <2>4
  <2>. QED
    BY <2>1, <2>3, <2>6, <2>7
<1>4. TypeOK
  <2>1. queue \in Seq(Samples \X BOOLEAN) /\ bus \in Seq(Samples \X (0 .. CanFrames - 1))
        /\ stream \in Seq(Samples \X (0 .. MqttParts - 1))
    BY DEF Init
  <2>2. disk \in [Storages -> Seq(Samples \X {"whole", "torn"})]
    BY DEF Init
  <2>3. /\ published \in 0 .. MaxFrames /\ sample \in 0 .. MaxFrames
        /\ sent \in 0 .. (CanFrames + MqttParts)
    BY BoundsAssumption, CanFramesAssumption DEF Init, MqttParts
  <2>4. {failed, can_enabled, mqtt_enabled, status_enabled} \subseteq BOOLEAN
    <3>1. failed = FALSE
      BY DEF Init
    <3>. QED
      BY <1>1, <1>2, <3>1
  <2>5. /\ link \in {"up", "down"}
        /\ broker \in {"open", "stalled", "closed", "reset"}
        /\ step \in {"open", "write"} /\ after = "open"
        /\ disabled \in [Storages -> BOOLEAN]
        /\ file \in Statuses \cup {Absent, Partial, Earlier}
        /\ tmp \in Statuses \cup {Absent, Partial}
    BY DEF Init
  <2>6. status \in Statuses
    BY <1>3
  <2>. QED
    <3>1. step \in {"open", "init_storage", "open_can", "open_mqtt",
                     "handshake", "poll", "local", "sd", "can", "mqtt",
                     "error", "write", "close", "rename", "ended", "killed"}
      BY ONLY <2>5
    <3>2. after \in {"open", "poll", "error", "ended"}
      BY ONLY <2>5
    <3>. QED
      BY ONLY <2>1, <2>2, <2>3, <2>4, <2>5, <2>6, <3>1, <3>2, Zenon
         DEF TypeOK
<1>5. step \in {"open", "write"} /\ after = "open" /\ sample = 0 /\ sent = 0
  BY DEF Init
<1>6. Taken = 0 /\ queue = <<>>
  <2>1. queue = <<>> /\ published = 0
    BY DEF Init
  <2>2. Len(queue) = 0
    BY <2>1, EmptySeq, Zenon
  <2>3. published = 0
    BY <2>1
  <2>4. Taken = 0
    BY ONLY <2>2, <2>3 DEF Taken
  <2>. QED
    BY <2>1, <2>4
<1>7. QueueInv
  BY <1>5, <1>6, BoundsAssumption DEF QueueInv, Handing
<1>8. PrepareInv
  BY DEF Init, PrepareInv, Storages
<1>9. ~BeingStored
  BY <1>5 DEF BeingStored
<1>10. CounterInv
  BY <1>3, <1>5, <1>6, <1>9, BoundsAssumption
     DEF CounterInv, One, Pending, Handing, Writing, Counters, Init
<1>11. OkInv
  BY <1>3 DEF OkInv, ErrorCounters, Counters
<1>12. DiskInv
  <2>1. \A l \in Storages : disk[l] = <<>>
    BY DEF Init
  <2>2. StoredEverywhere = {}
    BY <2>1 DEF StoredEverywhere, Whole, Storages, Init
  <2>3. status.count["stored_samples"] = 0
    BY <1>3 DEF Counters
  <2>. QED
    BY <1>5, <1>9, <2>1, <2>2, <2>3, FS_EmptySet DEF DiskInv
<1>13. BusInv /\ BusOrder /\ StreamInv /\ StreamOrder
  BY <1>5 DEF BusInv, BusOrder, StreamInv, StreamOrder, Init
<1>14. Cardinality(CutBefore) <= status.count["can_errors"]
  <2>1. CutBefore = {}
    BY DEF CutBefore, CutGroups, Init
  <2>2. status.count["can_errors"] = 0
    BY <1>3 DEF Counters
  <2>. QED
    BY <2>1, <2>2, FS_EmptySet
<1>15. FileInv
  BY <1>5 DEF FileInv, StatusFileIsAPastStatus, Init
<1>. QED
  BY <1>4, <1>7, <1>8, <1>10, <1>11, <1>12, <1>13, <1>14, <1>15,
     DecodableParts DEF Inv

\* Every step keeps it.
LEMMA InvNext == Inv /\ [Next]_vars => Inv'
<1>. SUFFICES ASSUME Inv, [Next]_vars PROVE Inv'
  OBVIOUS
<1>. USE DEF Inv
<1>1. CASE Next
  <2>1. BusOrder /\ StreamOrder
        /\ Cardinality(CutBefore) <= status.count["can_errors"]
    BY DecodableParts
  <2>2. BusOrder' /\ StreamOrder'
        /\ Cardinality(CutBefore') <= status'.count["can_errors"]
    BY <1>1, <2>1, BusInvNext, StreamInvNext, CutNext
  <2>3. OutputsAreDecodable'
    BY <2>2 DEF OutputsAreDecodable, BusOrder, StreamOrder, CutBefore
  <2>4. TypeOK'
    <3>1. /\ queue' \in Seq(Samples \X BOOLEAN) /\ published' \in 0 .. MaxFrames
          /\ sample' \in 0 .. MaxFrames /\ sent' \in 0 .. (CanFrames + MqttParts)
      BY <1>1, QueueNext, SampleNext
    <3>2. status' \in Statuses
      BY <1>1, StatusChange
    <3>3. disk' \in [Storages -> Seq(Samples \X {"whole", "torn"})]
      BY <1>1, StoredNext
    <3>4. /\ bus' \in Seq(Samples \X (0 .. CanFrames - 1))
          /\ stream' \in Seq(Samples \X (0 .. MqttParts - 1))
      BY <1>1, <2>1, BusInvNext, StreamInvNext
    <3>5. /\ file' \in Statuses \cup {Absent, Partial, Earlier}
          /\ tmp' \in Statuses \cup {Absent, Partial}
      BY <1>1, FileInvNext
    <3>. QED
      BY <1>1, <3>1, <3>2, <3>3, <3>4, <3>5, ControlNext DEF TypeOK
  <2>. QED
    BY <1>1, <2>1, <2>3, <2>4, QueueInvNext, PrepareInvNext, CounterInvNext,
       OkInvNext, DiskInvNext, BusInvNext, StreamInvNext, FileInvNext
<1>2. CASE UNCHANGED vars
  <2>1. /\ UNCHANGED <<queue, published, link, broker, step, after, sample,
                       sent, failed, can_enabled, mqtt_enabled,
                       status_enabled, disabled, status, disk, bus, stream,
                       file, tmp>>
    BY <1>2 DEF vars, environment, flags, outputs, files
  <2>2. TypeOK' /\ OkInv'
    BY <2>1 DEF TypeOK, OkInv
  <2>6. QueueInv'
    BY <2>1 DEF QueueInv, Taken
  <2>7. PrepareInv'
    BY <2>1 DEF PrepareInv, Preparing
  <2>8. CounterInv'
    BY <2>1 DEF CounterInv, Taken, BeingStored, Pending, One
  <2>3. DiskInv'
    BY <2>1 DEF DiskInv, StoredEverywhere, Whole, BeingStored
  <2>4. BusInv' /\ StreamInv' /\ FileInv'
    BY <2>1 DEF BusInv, StreamInv, FileInv, StatusFileIsAPastStatus
  <2>5. OutputsAreDecodable'
    BY <2>1 DEF OutputsAreDecodable, CutGroups
  <2>. QED
    BY <2>2, <2>3, <2>4, <2>5, <2>6, <2>7, <2>8
<1>. QED
  BY <1>1, <1>2

\* It always holds.
LEMMA InvAlways == Spec => []Inv
  BY InvInit, InvNext, PTL DEF Spec

\* The counters of the status agree with what is on the disks, whatever fails
\* and wherever the process is killed (store_sample and
\* demo3_runtime_status_record_storage).
THEOREM StatusIsTrue == Spec => []StatusTellsTheTruth
<1>1. Inv => StatusTellsTheTruth
  BY DEF Inv, StatusTellsTheTruth, CounterInv, One, DiskInv, OkInv, Writing
<1>. QED
  BY <1>1, InvAlways, PTL

\* A listener can tell the samples on the bus and at the broker apart
\* (demo3_can_linux_send_sample, demo3_mqtt_linux_publish).
THEOREM OutputsCanBeDecoded == Spec => []OutputsAreDecodable
<1>1. Inv => OutputsAreDecodable
  BY DEF Inv
<1>. QED
  BY <1>1, InvAlways, PTL

\* A reader of the status file sees a status the service has had, or until
\* the first write has succeeded what the process before left; and what it
\* sees never goes back, neither to that file nor to a lower count
\* (demo3_runtime_status_write).
THEOREM StatusFileIsOld ==
  Spec => /\ []StatusFileIsAPastStatus
          /\ [][(file \in Statuses) =>
                 /\ file' \in Statuses
                 /\ \A c \in Counters : file.count[c] <= file'.count[c]]_vars
<1>1. Inv => StatusFileIsAPastStatus
  BY DEF Inv, FileInv
<1>2. ASSUME Inv, [Next]_vars, file \in Statuses
      PROVE  /\ file' \in Statuses
             /\ \A c \in Counters : file.count[c] <= file'.count[c]
  <2>1. /\ TypeOK
        /\ \A c \in Counters : file.count[c] \in Int
    BY <1>2 DEF Inv, TypeOK, Statuses
  <2>2. file' = file \/ RenameTemporary
    BY <1>2 DEF TypeOK, vars, files, Next, Service, Environment, OpenDevice,
                InitStorage, OpenCan, OpenMqtt, Handshake, ReadFrame,
                ProcessFrame, ReadDeadLink, CountError, StoreLocal, StoreSd,
                Store, SendCanFrame, EndCan, SendMqttPart, EndMqtt,
                BrokenPipe, OpenTemporary, CloseTemporary, Publish,
                LinkFails, BrokerFails, Kill, outputs
  <2>3. CASE file' = file
    BY <1>2, <2>1, <2>3
  <2>4. CASE RenameTemporary /\ file' # file
    <3>1. file' = status /\ status \in Statuses
      BY <1>2, <2>4 DEF RenameTemporary, Inv, FileInv, TypeOK
    <3>2. file \notin {Absent, Earlier}
      <4>1. \A s \in Statuses : DOMAIN s = {"ok", "last_error", "count"}
        BY DEF Statuses
      <4>2. DOMAIN Absent = {"ok"} /\ DOMAIN Earlier = {"ok"}
        BY DEF Absent, Earlier
      <4>3. {"ok", "last_error", "count"} # {"ok"}
        OBVIOUS
      <4>. QED
        BY <1>2, <4>1, <4>2, <4>3
    <3>. QED
      BY <1>2, <3>1, <3>2 DEF Inv, FileInv, StatusFileIsAPastStatus
  <2>. QED
    BY <2>2, <2>3, <2>4
<1>. QED
  BY <1>1, <1>2, InvAlways, PTL DEF Spec

-----------------------------------------------------------------------------
(* A round of run_collector is short.  StepsToPoll bounds the steps of the *)
(* thread before its next poll; each of its steps makes it smaller, and    *)
(* nothing that happens around the thread makes it larger.                 *)

\* From each place, with nothing of the group or publication sent yet.
StepsFrom ==
  [open |-> 5, init_storage |-> 4, open_can |-> 3, open_mqtt |-> 2,
   handshake |-> 1, poll |-> 0, ended |-> 0, killed |-> 0,
   error |-> 4, write |-> 3, close |-> 2, rename |-> 1,
   mqtt |-> 8 + MqttParts, can |-> 9 + MqttParts + CanFrames,
   sd |-> 10 + MqttParts + CanFrames, local |-> 11 + MqttParts + CanFrames]

StepsToPoll ==
  StepsFrom[step] - (IF step \in {"can", "mqtt"} THEN sent ELSE 0)
    + (IF step \in Writing THEN StepsFrom[after] ELSE 0)

LongestRound == 11 + MqttParts + CanFrames

\* It is a number of steps.
LEMMA StepsToPollRange ==
  ASSUME TypeOK, QueueInv
  PROVE  StepsToPoll \in 0 .. LongestRound
<1>1. CanFrames \in Nat \ {0} /\ MqttParts = 4
  BY CanFramesAssumption DEF MqttParts
<1>2. CASE step \in Writing
  BY <1>1, <1>2
     DEF StepsToPoll, StepsFrom, LongestRound, TypeOK, Writing
<1>3. CASE step \in {"can", "mqtt"}
  BY <1>1, <1>3
     DEF StepsToPoll, StepsFrom, LongestRound, TypeOK, QueueInv, Writing
<1>4. CASE step \notin Writing \cup {"can", "mqtt"}
  BY <1>1, <1>4
     DEF StepsToPoll, StepsFrom, LongestRound, TypeOK, Writing
<1>. QED
  BY <1>2, <1>3, <1>4

\* Every step of the thread away from poll brings it nearer to the next one.
LEMMA ServiceIsNearer ==
  ASSUME TypeOK, QueueInv, Service, step # "poll"
  PROVE  StepsToPoll' < StepsToPoll
<1>1. /\ CanFrames \in Nat \ {0} /\ MqttParts = 4
      /\ sent \in 0 .. (CanFrames + MqttParts)
  BY CanFramesAssumption DEF MqttParts, TypeOK
<1>. USE <1>1 DEF StepsToPoll, StepsFrom, Writing
<1>2. CASE OpenDevice \/ InitStorage
  BY <1>2 DEF OpenDevice, InitStorage, WriteStatusThen
<1>3. CASE OpenCan \/ OpenMqtt \/ Handshake
  <2>1. \/ step = "open_can" /\ step' = "open_mqtt"
        \/ step = "open_mqtt" /\ step' \in {"handshake", "poll"}
        \/ step = "handshake" /\ step' = "poll"
    BY <1>3 DEF OpenCan, OpenMqtt, Handshake
  <2>. QED
    BY <2>1
<1>4. CASE ReadFrame \/ ReadDeadLink
  BY <1>4 DEF ReadFrame, ReadDeadLink
<1>5. CASE CountError
  BY <1>5 DEF CountError, WriteStatusThen, NextStepAfterError
<1>6. CASE StoreLocal \/ StoreSd
  <2>1. sent = 0 /\ sent' = sent
    BY <1>6 DEF StoreLocal, StoreSd, Store, QueueInv
  <2>. QED
    BY <1>6, <2>1 DEF StoreLocal, StoreSd
<1>7. CASE SendCanFrame
  BY <1>7 DEF SendCanFrame
<1>8. CASE EndCan
  <2>1. step = "can" /\ sent <= CanFrames /\ step' = "mqtt" /\ sent' = 0
    BY <1>8 DEF EndCan, QueueInv
  <2>. QED
    BY <2>1
<1>9. CASE SendMqttPart
  BY <1>9 DEF SendMqttPart
<1>10. CASE EndMqtt \/ BrokenPipe
  <2>1. step = "mqtt" /\ sent <= MqttParts
    BY <1>10 DEF EndMqtt, BrokenPipe, QueueInv
  <2>2. \/ step' = "killed"
        \/ step' \in {"error", "poll"}
        \/ step' = "write" /\ after' \in {"error", "poll"}
    BY <1>10 DEF EndMqtt, BrokenPipe, WriteStatusThen
  <2>. QED
    BY <2>1, <2>2
<1>11. CASE OpenTemporary \/ CloseTemporary \/ RenameTemporary
  <2>1. /\ after' = after /\ after \in {"open", "poll", "error", "ended"}
        /\ \/ step = "write" /\ step' \in {"close", after}
           \/ step = "close" /\ step' \in {"rename", after}
           \/ step = "rename" /\ step' = after
    BY <1>11 DEF OpenTemporary, CloseTemporary, CloseFailure,
                 RenameTemporary, TypeOK
  <2>. QED
    BY <2>1
<1>. QED
  BY <1>2, <1>3, <1>4, <1>5, <1>6, <1>7, <1>8, <1>9, <1>10, <1>11 DEF Service

\* Around the thread nothing changes where it is; SIGINT ends it.
LEMMA EnvironmentIsNoFarther ==
  ASSUME TypeOK, QueueInv, Environment
  PROVE  StepsToPoll' <= StepsToPoll
<1>1. StepsToPoll \in 0 .. LongestRound
  BY StepsToPollRange
<1>2. CASE Kill
  <2>1. StepsToPoll' = 0
    BY <1>2 DEF Kill, StepsToPoll, StepsFrom, Writing
  <2>. QED
    BY <1>1, <2>1
<1>3. CASE ~Kill
  <2>1. step' = step /\ after' = after /\ sent' = sent
    BY <1>3 DEF Environment, Publish, LinkFails, BrokerFails
  <2>2. StepsToPoll' = StepsToPoll
    BY <2>1 DEF StepsToPoll, StepsFrom
  <2>. QED
    BY <1>1, <2>2, CanFramesAssumption DEF LongestRound, MqttParts
<1>. QED
  BY <1>2, <1>3

\* Between two polls the thread takes at most LongestRound steps, whatever is
\* refused, lost or published meanwhile: no failure of a storage, the bus, the
\* broker or the status file makes it go round in a circle (run_collector,
\* store_sample, demo3_runtime_status_write).  This is what FramesAreTaken
\* rests on besides the fairness of the thread.
THEOREM RoundsAreShort ==
  Spec => /\ [](StepsToPoll \in 0 .. LongestRound)
          /\ [][step # "poll" =>
                  /\ StepsToPoll' <= StepsToPoll
                  /\ Service => StepsToPoll' < StepsToPoll]_vars
<1>1. Inv => StepsToPoll \in 0 .. LongestRound
  BY StepsToPollRange DEF Inv
<1>2. Inv /\ [Next]_vars
        => [step # "poll" =>
              /\ StepsToPoll' <= StepsToPoll
              /\ Service => StepsToPoll' < StepsToPoll]_vars
  <2>. SUFFICES ASSUME Inv, Next, step # "poll"
                PROVE  /\ StepsToPoll' <= StepsToPoll
                       /\ Service => StepsToPoll' < StepsToPoll
    OBVIOUS
  <2>1. Inv'
    BY InvNext
  <2>2. StepsToPoll \in Int /\ StepsToPoll' \in Int
    <3>1. StepsToPoll \in 0 .. LongestRound
      BY StepsToPollRange DEF Inv
    <3>2. (StepsToPoll \in 0 .. LongestRound)'
      BY <2>1, <1>1, PTL
    <3>. QED
      BY <3>1, <3>2
  <2>. QED
    BY <2>2, ServiceIsNearer, EnvironmentIsNoFarther DEF Next, Inv
<1>. QED
  BY <1>1, <1>2, InvAlways, PTL DEF Spec

-----------------------------------------------------------------------------
(* The frames: the A53 decodes the frame of the M4 to the sample the M4    *)
(* encoded, and the CAN frames of two samples differ as their values do.   *)

\* Division with remainder, as the provers need it spelled out.
LEMMA DivMod ==
  ASSUME NEW n \in Nat \ {0}, NEW a \in Int
  PROVE  /\ a \div n \in Int
         /\ a % n \in 0 .. n - 1
         /\ a = n * (a \div n) + (a % n)
  OBVIOUS

\* Distinct multiples of n are at least n apart.
LEMMA MultiplesApart ==
  ASSUME NEW n \in Nat \ {0}, NEW d \in Int, NEW e \in Int, d > e
  PROVE  n * d >= n * e + n
  OBVIOUS

\* A value below ByteBase * bound is taken apart into a byte and a rest below
\* bound, and put together again.
LEMMA ByteAndRest ==
  ASSUME NEW bound \in Nat, NEW v \in 0 .. ByteBase * bound - 1
  PROVE  /\ LowByte(v) \in Byte
         /\ Shifted(v) \in 0 .. bound - 1
         /\ LowByte(v) + ByteBase * Shifted(v) = v
<1> USE ByteAssumption
<1>1. v \in Nat /\ v < ByteBase * bound /\ ByteBase \in Nat /\ ByteBase > 0
  OBVIOUS
<1>2. LowByte(v) \in Byte
  BY <1>1, DivMod DEF LowByte, Byte
<1>3. Shifted(v) \in Int /\ v = ByteBase * Shifted(v) + LowByte(v)
  BY <1>1, DivMod DEF LowByte, Shifted
<1> HIDE DEF LowByte, Shifted
<1>4. Shifted(v) >= 0
  <2>1. SUFFICES ASSUME 0 > Shifted(v) PROVE FALSE
    BY <1>3
  <2>2. ByteBase * 0 >= ByteBase * Shifted(v) + ByteBase
    BY <1>1, <1>3, <2>1, MultiplesApart
  <2> QED BY <1>1, <1>2, <1>3, <2>2 DEF Byte
<1>5. Shifted(v) < bound
  <2>1. SUFFICES ASSUME Shifted(v) >= bound PROVE FALSE
    BY <1>3
  <2>2. ByteBase * Shifted(v) >= ByteBase * bound
    <3>1. CASE Shifted(v) = bound
      BY <1>1, <3>1
    <3>2. CASE Shifted(v) > bound
      BY <1>1, <1>3, <3>2, MultiplesApart
    <3> QED BY <1>3, <2>1, <3>1, <3>2
  <2> QED BY <1>1, <1>2, <1>3, <2>2 DEF Byte
<1> QED BY <1>1, <1>2, <1>3, <1>4, <1>5 DEF Byte

\* Two bytes give a 16-bit value back.
LEMMA U16RoundTrip ==
  ASSUME NEW v \in Word
  PROVE  PutU16(v) \in Bytes2 /\ ReadU16(PutU16(v)) = v
<1>1. v \in 0 .. ByteBase * ByteBase - 1
  BY ByteAssumption DEF Word
<1>2. /\ LowByte(v) \in Byte /\ Shifted(v) \in Byte
      /\ LowByte(v) + ByteBase * Shifted(v) = v
  BY <1>1, ByteAndRest, ByteAssumption DEF Byte
<1> QED BY <1>2 DEF PutU16, ReadU16, Bytes2

\* Four bytes give a 32-bit value back.
LEMMA U32RoundTrip ==
  ASSUME NEW v \in Unsigned32
  PROVE  PutU32(v) \in Bytes4 /\ ReadU32(PutU32(v)) = v
<1> USE ByteAssumption
<1> DEFINE square == ByteBase * ByteBase
           v1 == Shifted(v)
           v2 == Shifted(v1)
           v3 == Shifted(v2)
<1>1. square \in Nat /\ ByteBase * square \in Nat
  OBVIOUS
<1>2. v \in 0 .. ByteBase * (ByteBase * square) - 1
  <2>1. WordBase * WordBase = square * square
    OBVIOUS
  <2>2. square * square = ByteBase * (ByteBase * square)
    OBVIOUS
  <2> QED BY <2>1, <2>2 DEF Unsigned32
<1>3. /\ LowByte(v) \in Byte /\ v1 \in 0 .. ByteBase * square - 1
      /\ LowByte(v) + ByteBase * v1 = v
  BY <1>1, <1>2, ByteAndRest
<1>4. /\ LowByte(v1) \in Byte /\ v2 \in 0 .. square - 1
      /\ LowByte(v1) + ByteBase * v2 = v1
  BY <1>1, <1>3, ByteAndRest
<1>5. /\ LowByte(v2) \in Byte /\ v3 \in 0 .. ByteBase - 1
      /\ LowByte(v2) + ByteBase * v3 = v2
  BY <1>4, ByteAndRest
<1>6. PutU32(v) = <<LowByte(v), LowByte(v1), LowByte(v2), v3>>
  BY DEF PutU32
<1> HIDE DEF v1, v2, v3
<1>7. PutU32(v) \in Bytes4
  BY <1>3, <1>4, <1>5, <1>6 DEF Bytes4, Byte
<1>8. ReadU32(PutU32(v)) =
        LowByte(v) + ByteBase * (LowByte(v1) + ByteBase * (LowByte(v2)
          + ByteBase * v3))
  BY <1>6 DEF ReadU32
<1> QED BY <1>3, <1>4, <1>5, <1>7, <1>8

\* The conversions between int32_t and uint32_t undo each other.
LEMMA SignedRoundTrip ==
  ASSUME NEW v \in Signed32
  PROVE  Raw(v) \in Unsigned32 /\ Signed(Raw(v)) = v
<1> USE HalfWordAssumption
<1>1. /\ WordBase \in Nat /\ HalfWord * WordBase \in Nat
      /\ WordBase * WordBase = HalfWord * WordBase + HalfWord * WordBase
  BY DEF WordBase
<1> DEFINE half == HalfWord * WordBase
           all == WordBase * WordBase
<1>2. half \in Nat /\ all \in Nat /\ all = half + half
  BY <1>1
<1>3. v \in -half .. half - 1
  BY DEF Signed32
<1>4. Raw(v) = IF v < 0 THEN v + all ELSE v
  BY DEF Raw
<1>5. \A r : Signed(r) = IF r < half THEN r ELSE r - all
  BY DEF Signed
<1>6. Unsigned32 = 0 .. all - 1
  BY DEF Unsigned32
<1> HIDE DEF half, all
<1> QED BY <1>2, <1>3, <1>4, <1>5, <1>6

\* A number written big-endian is read back, and so is a float; a short is
\* read right where char is unsigned (write_int, read_int, write_float,
\* read_float, read_short_lsb).
THEOREM NumbersRoundTrip ==
  ASSUME NEW v \in Signed32, NEW float \in Bytes4, NEW short \in Word
  PROVE  /\ ReadInt(WriteInt(v)) = v
         /\ ReadFloat(WriteFloat(float)) = float
         /\ ReadShortLsb(PutU16(short), FALSE) = short
<1>1. ReadInt(WriteInt(v)) = v
  <2>1. PutU32(Raw(v)) \in Bytes4 /\ ReadU32(PutU32(Raw(v))) = Raw(v)
    BY SignedRoundTrip, U32RoundTrip
  <2>2. Swapped(Swapped(PutU32(Raw(v)))) = PutU32(Raw(v))
    BY <2>1 DEF Swapped, Bytes4
  <2> QED BY <2>1, <2>2, SignedRoundTrip DEF ReadInt, ReadIntLsb, WriteInt
<1>2. ReadFloat(WriteFloat(float)) = float
  BY DEF ReadFloat, WriteFloat, Swapped, Bytes4
<1>3. ReadShortLsb(PutU16(short), FALSE) = short
  <2>1. PutU16(short) \in Bytes2 /\ ReadU16(PutU16(short)) = short
    BY U16RoundTrip
  <2>2. ReadShortLsb(PutU16(short), FALSE) = ReadU16(PutU16(short))
    BY <2>1 DEF ReadShortLsb, WithHighByte, Char, ReadU16, Bytes2, Byte
  <2> QED BY <2>1, <2>2
<1> QED BY <1>1, <1>2, <1>3

\* What the M4 sends the A53 decodes to the same sample, time stamp and sign
\* included (demo3_m4_rpmsg_publish, demo3_m4_rpmsg_decode).
THEOREM FrameRoundTrip ==
  ASSUME NEW s \in Sample
  PROVE  /\ DecodeResult(EncodeFrame(s)) = 0
         /\ DecodeFrame(EncodeFrame(s)) = s
<1>1. /\ s.sequence \in Unsigned32 /\ s.timestamp_ms \in Unsigned32
      /\ s.speed_rpm \in Unsigned32
      /\ s.digital_bits \in Word /\ s.flags \in Word
      /\ s.analog \in [1 .. Channels -> Signed32]
  BY DEF Sample
<1>2. s = [sequence |-> s.sequence, timestamp_ms |-> s.timestamp_ms,
           analog |-> s.analog, digital_bits |-> s.digital_bits,
           speed_rpm |-> s.speed_rpm, flags |-> s.flags]
  BY DEF Sample
<1>3. \A c \in 1 .. Channels :
        Signed(ReadU32(PutU32(Raw(s.analog[c])))) = s.analog[c]
  BY <1>1, SignedRoundTrip, U32RoundTrip
<1>4. DecodeFrame(EncodeFrame(s)) =
        [sequence |-> ReadU32(PutU32(s.sequence)),
         timestamp_ms |-> ReadU32(PutU32(s.timestamp_ms)),
         analog |-> [c \in 1 .. Channels |->
                       Signed(ReadU32(PutU32(Raw(s.analog[c]))))],
         digital_bits |-> ReadU16(PutU16(s.digital_bits)),
         speed_rpm |-> ReadU32(PutU32(s.speed_rpm)),
         flags |-> ReadU16(PutU16(s.flags))]
  BY DEF DecodeFrame, EncodeFrame, Contents
<1>5. [c \in 1 .. Channels |-> Signed(ReadU32(PutU32(Raw(s.analog[c]))))]
        = s.analog
  BY <1>1, <1>3
<1>6. DecodeFrame(EncodeFrame(s)) = s
  BY <1>1, <1>2, <1>4, <1>5, U32RoundTrip, U16RoundTrip
<1>7. DecodeResult(EncodeFrame(s)) = 0
  BY DEF DecodeResult, EncodeFrame, Contents
<1> QED BY <1>6, <1>7

\* Samples whose CAN frames are equal have the same values: the frames lose
\* the sequence number and the time stamp, and nothing else
\* (demo3_can_encode_sample, all frames of a group).
THEOREM BusTellsValues ==
  ASSUME NEW s \in Sample, NEW t \in Sample,
         \A index \in 0 .. FrameCount - 1 :
           CanData(s, index) = CanData(t, index)
  PROVE  OnTheBus(s) = OnTheBus(t)
<1> USE ChannelsAssumption
<1>1. /\ s.speed_rpm \in Unsigned32 /\ t.speed_rpm \in Unsigned32
      /\ s.digital_bits \in Word /\ t.digital_bits \in Word
      /\ s.flags \in Word /\ t.flags \in Word
      /\ s.analog \in [1 .. Channels -> Signed32]
      /\ t.analog \in [1 .. Channels -> Signed32]
  BY DEF Sample
<1> DEFINE pairs == Channels \div 2
<1>2. pairs \in Nat /\ Channels = 2 * pairs
  BY PairsAssumption
<1>3. AnalogFrames = pairs /\ FrameCount = pairs + 1
  BY DEF AnalogFrames, FrameCount
<1> HIDE DEF pairs
<1>4. /\ s.digital_bits = t.digital_bits
      /\ s.speed_rpm = t.speed_rpm
      /\ s.flags = t.flags
  <2>1. pairs \in 0 .. FrameCount - 1 /\ ~(pairs < AnalogFrames)
    BY <1>2, <1>3
  <2>2. CanData(s, pairs) = CanData(t, pairs)
    BY <2>1
  <2>3. /\ PutU16(s.digital_bits) = PutU16(t.digital_bits)
        /\ PutU32(s.speed_rpm) = PutU32(t.speed_rpm)
        /\ PutU16(s.flags) = PutU16(t.flags)
    BY <2>1, <2>2 DEF CanData
  <2> QED BY <1>1, <2>3, U16RoundTrip, U32RoundTrip
<1>5. ASSUME NEW c \in 1 .. Channels
      PROVE  s.analog[c] = t.analog[c]
  <2>1. PICK index \in 0 .. pairs - 1 : c = 2 * index + 1 \/ c = 2 * index + 2
    <3>1. CASE c % 2 = 1
      <4>1. c = 2 * ((c - 1) \div 2) + 1 /\ (c - 1) \div 2 \in 0 .. pairs - 1
        BY <1>2, <3>1
      <4> QED BY <4>1
    <3>2. CASE c % 2 = 0
      <4>1. c = 2 * ((c - 2) \div 2) + 2 /\ (c - 2) \div 2 \in 0 .. pairs - 1
        BY <1>2, <3>2
      <4> QED BY <4>1
    <3> QED BY <3>1, <3>2
  <2>2. index \in 0 .. FrameCount - 1 /\ index < AnalogFrames
    BY <1>2, <1>3
  <2>3. CanData(s, index) = CanData(t, index)
    BY <2>2
  <2>4. /\ PutU32(Raw(s.analog[2 * index + 1]))
             = PutU32(Raw(t.analog[2 * index + 1]))
        /\ PutU32(Raw(s.analog[2 * index + 2]))
             = PutU32(Raw(t.analog[2 * index + 2]))
    BY <2>2, <2>3 DEF CanData
  <2>5. PutU32(Raw(s.analog[c])) = PutU32(Raw(t.analog[c]))
    BY <2>1, <2>4
  <2>6. s.analog[c] \in Signed32 /\ t.analog[c] \in Signed32
    BY <1>1
  <2> QED BY <2>5, <2>6, SignedRoundTrip, U32RoundTrip
<1>6. s.analog = t.analog
  BY <1>1, <1>5
<1> QED BY <1>4, <1>6 DEF OnTheBus

=============================================================================
