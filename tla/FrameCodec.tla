----------------------------- MODULE FrameCodec -----------------------------
(***************************************************************************)
(* The bytes of a sample on its way from the M4 to the outputs of the A53: *)
(* the RPMsg frame that the M4 builds (okmx8mm-m4/src/rpmsg) and the A53   *)
(* decodes (data-collector-demo3/src/bridge), the CAN frames (src/can) and *)
(* the lengths in an MQTT packet (src/mqtt); and the numbers in the packets *)
(* of other devices (src/util).  Numbers are little-endian in the frames   *)
(* and big-endian in MQTT.                                                 *)
(*                                                                         *)
(* The CRC of a frame is the contents it was computed from: the models     *)
(* take the CRC to tell any two contents apart.                            *)
(***************************************************************************)
EXTENDS RegisterCodec, Sequences

CONSTANTS ByteBase,     \* 2^8
          FrameHeader,  \* magic, version, type and length of a sample frame
          LastCanId     \* 0x7FF, the largest identifier of a standard frame

ASSUME ByteAssumption ==
  ByteBase \in Nat \ {0} /\ ByteBase * ByteBase = WordBase
ASSUME CanIdAssumption == LastCanId \in Nat
\* A CAN frame carries two channels.
ASSUME PairsAssumption == Channels % 2 = 0

Byte == 0 .. ByteBase - 1
Bytes2 == Byte \X Byte
Bytes4 == Byte \X Byte \X Byte \X Byte

\* value & 0xFF and value >> 8
LowByte(value) == value % ByteBase
Shifted(value) == value \div ByteBase

PutU16(value) == <<LowByte(value), Shifted(value)>>

PutU32(value) ==
  <<LowByte(value), LowByte(Shifted(value)), LowByte(Shifted(Shifted(value))),
    Shifted(Shifted(Shifted(value)))>>

ReadU16(bytes) == bytes[1] + ByteBase * bytes[2]

ReadU32(bytes) ==
  bytes[1] + ByteBase * (bytes[2] + ByteBase * (bytes[3] + ByteBase * bytes[4]))

\* The conversion of a uint32_t to int32_t.
Signed(raw) ==
  IF raw < HalfWord * WordBase THEN raw ELSE raw - WordBase * WordBase

-----------------------------------------------------------------------------
(* The RPMsg frame.                                                        *)

Contents(sample) ==
  [header |-> FrameHeader,
   sequence |-> PutU32(sample.sequence),
   timestamp_ms |-> PutU32(sample.timestamp_ms),
   analog |-> [c \in 1 .. Channels |-> PutU32(Raw(sample.analog[c]))],
   digital_bits |-> PutU16(sample.digital_bits),
   speed_rpm |-> PutU32(sample.speed_rpm),
   flags |-> PutU16(sample.flags)]

\* complete: as many bytes arrive as were sent.
EncodeFrame(sample) ==
  [contents |-> Contents(sample), crc |-> Contents(sample), complete |-> TRUE]

DecodeResult(frame) ==
  IF ~frame.complete \/ frame.contents.header # FrameHeader THEN -2
  ELSE IF frame.crc # frame.contents THEN -3
  ELSE 0

DecodeFrame(frame) ==
  LET in == frame.contents
  IN [sequence |-> ReadU32(in.sequence),
      timestamp_ms |-> ReadU32(in.timestamp_ms),
      analog |-> [c \in 1 .. Channels |-> Signed(ReadU32(in.analog[c]))],
      digital_bits |-> ReadU16(in.digital_bits),
      speed_rpm |-> ReadU32(in.speed_rpm),
      flags |-> ReadU16(in.flags)]

-----------------------------------------------------------------------------
(* The CAN frames: two analog values each, and one for the rest.  Neither  *)
(* the sequence number nor the time stamp is sent.                         *)

AnalogFrames == Channels \div 2
FrameCount == AnalogFrames + 1

EncodeCanResult(base_id, index) ==
  IF index >= FrameCount THEN -2
  ELSE IF base_id > LastCanId - (FrameCount - 1) THEN -3
  ELSE 0

CanData(sample, index) ==
  IF index < AnalogFrames
  THEN <<PutU32(Raw(sample.analog[2 * index + 1])),
         PutU32(Raw(sample.analog[2 * index + 2]))>>
  ELSE <<PutU16(sample.digital_bits), PutU32(sample.speed_rpm),
         PutU16(sample.flags)>>

EncodeCan(sample, base_id, index) ==
  [id |-> base_id + index, data |-> CanData(sample, index)]

-----------------------------------------------------------------------------
(* The numbers in the answers and packets of other devices (src/util).     *)

\* What a byte is in a plain char, which may be signed or not.
Char(byte, is_signed) ==
  IF is_signed /\ byte >= ByteBase \div 2 THEN byte - ByteBase ELSE byte

\* l | (h << 8) of two ints: a negative l has all the bits of h already.
WithHighByte(l, h) == IF l < 0 THEN l ELSE l + ByteBase * h

ReadShortLsb(bytes, is_signed) ==
  WithHighByte(Char(bytes[1], is_signed), Char(bytes[2], is_signed))
ReadShort(bytes, is_signed) == ReadShortLsb(<<bytes[2], bytes[1]>>, is_signed)

Swapped(bytes) == <<bytes[4], bytes[3], bytes[2], bytes[1]>>

\* The four bytes of an int are masked: the sign of char makes no difference.
ReadIntLsb(bytes) == Signed(ReadU32(bytes))
ReadInt(bytes) == ReadIntLsb(Swapped(bytes))
WriteInt(value) == Swapped(PutU32(Raw(value)))

\* A float is its four bytes, in memory from the lowest to the highest.
ReadFloat(bytes) == Swapped(bytes)
WriteFloat(float) == Swapped(float)

-----------------------------------------------------------------------------
(* The payload of an MQTT publication: a text of some length.              *)

Digits[value \in Nat] == IF value < 10 THEN 1 ELSE 1 + Digits[value \div 10]
TextOf(value) == IF value < 0 THEN 1 + Digits[-value] ELSE Digits[value]

\* The length with the text appended, or -1 when that and the final NUL are
\* more than the buffer holds.
AppendText(length, written, capacity) ==
  IF length >= capacity \/ written >= capacity - length THEN -1
  ELSE length + written

\* The lengths of the texts: numbers between 39 and 40 letters of names.
PayloadTexts(sample) ==
  <<39 + TextOf(sample.sequence) + TextOf(sample.timestamp_ms)>>
    \o [c \in 1 .. Len(sample.analog) |->
          TextOf(sample.analog[c]) + IF c = 1 THEN 0 ELSE 1]
    \o <<40 + TextOf(sample.digital_bits) + TextOf(sample.speed_rpm)
            + TextOf(sample.flags)>>

\* The length of the payload, or -1.
BuildPayload(texts, capacity) ==
  LET built[i \in 0 .. Len(texts)] ==
        IF i = 0 THEN 0
        ELSE IF built[i - 1] = -1 THEN -1
        ELSE AppendText(built[i - 1], texts[i], capacity)
  IN built[Len(texts)]

-----------------------------------------------------------------------------
(* The lengths in an MQTT packet.                                          *)

PutU16BigEndian(value) == <<Shifted(value), LowByte(value)>>

\* Seven bits to a byte, the lowest first; 128 announces another byte.
RemainingLength[value \in Nat] ==
  IF value < 128 THEN <<value>>
  ELSE <<(value % 128) + 128>> \o RemainingLength[value \div 128]

\* The header of a publication has room for four bytes of length.
LengthFits(value) == Len(RemainingLength[value]) <= 4

\* The parts demo3_mqtt_linux_publish sends one after the other: packet type
\* with the remaining length, topic length, topic, payload.
PublicationParts(topic_length, payload_length) ==
  <<1 + Len(RemainingLength[2 + topic_length + payload_length]), 2,
    topic_length, payload_length>>

\* The parts of a CONNECT: type and remaining length, protocol name with its
\* length, level, flags, keep-alive, client name with its length.
ConnectParts(client_length) ==
  <<1 + Len(RemainingLength[10 + 2 + client_length]), 2 + 4, 1, 1, 2,
    2 + client_length>>

-----------------------------------------------------------------------------
(* What the far end makes of them.                                         *)

\* The value of the length bytes, as the MQTT standard has it decoded.
DecodedLength[bytes \in Seq(0 .. 255)] ==
  IF Head(bytes) < 128 THEN Head(bytes)
  ELSE Head(bytes) - 128 + 128 * DecodedLength[Tail(bytes)]

\* What a listener on the bus learns of a sample.
OnTheBus(sample) ==
  [analog |-> sample.analog, digital_bits |-> sample.digital_bits,
   speed_rpm |-> sample.speed_rpm, flags |-> sample.flags]

=============================================================================
