--------------------------- MODULE MCRpmsgService ---------------------------
(***************************************************************************)
(* RpmsgService on few frames and groups of two CAN frames: a group can be *)
(* whole, cut, or not begun.                                               *)
(***************************************************************************)
EXTENDS RpmsgService, FrameCodec, SequencesExt

\* What is enabled may still be disabled when it cannot be opened.
OutputPairs == {<<TRUE, TRUE, FALSE, FALSE>>, <<FALSE, TRUE, TRUE, TRUE>>}

\* The codec on words of two bytes of two bits.
Edges == {0, 1, 7, 128, 255}
Sampled == [sequence : {0, 200}, timestamp_ms : Edges,
            analog : [1 .. Channels -> {-128, -1, 0, 5, 127}],
            digital_bits : {0, 13}, speed_rpm : {0, 255}, flags : {0, 15}]

\* The A53 decodes what the M4 encoded, and refuses a frame that was changed.
ASSUME FrameCheck ==
  \A s \in Sampled :
    /\ DecodeResult(EncodeFrame(s)) = 0 /\ DecodeFrame(EncodeFrame(s)) = s
    /\ \A changed \in {<<0, 1>>, <<2, 2>>} :
         LET frame == [EncodeFrame(s) EXCEPT !.contents.flags = changed]
         IN DecodeResult(frame) = 0 => changed = PutU16(s.flags)

\* A whole group tells the values of a sample, and uses its own identifiers.
ASSUME CanCheck ==
  LET Group(s) == [k \in 0 .. FrameCount - 1 |-> EncodeCan(s, 1, k)]
      some == {s \in Sampled : s.sequence = 0 /\ s.timestamp_ms = 0
                                 /\ s.flags = 0}
  IN \A s, t \in some : Group(s) = Group(t) <=> OnTheBus(s) = OnTheBus(t)

\* A base identifier is accepted exactly if the whole group has room.
ASSUME CanIdCheck ==
  \A base_id \in 0 .. LastCanId + 1, k \in 0 .. FrameCount :
    EncodeCanResult(base_id, k) = 0
      <=> k < FrameCount /\ base_id + FrameCount - 1 <= LastCanId

\* The remaining length is decoded to what it was, in four bytes up to
\* 128^4 - 1, and is the number of bytes that follow it.
Lengths == (0 .. 300) \cup {16383, 16384, 2097151, 2097152,
                             268435455, 268435456}
ASSUME LengthCheck ==
  \A n \in Lengths :
    /\ DecodedLength[RemainingLength[n]] = n
    /\ LengthFits(n) <=> n < 268435456

SumOver(parts) == FoldSeq(LAMBDA a, b : a + b, 0, parts)
ASSUME PartsCheck ==
  \A topic, payload \in {0, 1, 124, 125, 126, 127, 128, 300} :
    /\ LET parts == PublicationParts(topic, payload)
           length == SumOver(Tail(parts))
       IN Head(parts) = 1 + Len(RemainingLength[length])
    /\ LET parts == ConnectParts(topic)
           length == SumOver(Tail(parts))
       IN Head(parts) = 1 + Len(RemainingLength[length])

\* Numbers of other devices are read as they were written; a short whose low
\* byte has its highest bit set is not, where char is signed.
ASSUME NumbersCheck ==
  /\ \A v \in -128 .. 127 :
       /\ ReadInt(WriteInt(v)) = v
       /\ ReadIntLsb(Swapped(WriteInt(v))) = v
  /\ \A v \in Word, is_signed \in BOOLEAN :
       ReadShortLsb(PutU16(v), is_signed) = v
         <=> ~is_signed \/ (LowByte(v) < ByteBase \div 2
                               /\ Shifted(v) < ByteBase \div 2)

\* A payload is built whole or not at all, and the longest one of ten channels
\* fits the 2048 bytes of process_sample.
Longest == [sequence |-> 2147483647, timestamp_ms |-> 2147483647,
            analog |-> [c \in 1 .. 10 |-> -2147483647], digital_bits |-> 65535,
            speed_rpm |-> 2147483647, flags |-> 65535]
ASSUME PayloadCheck ==
  LET texts == PayloadTexts(Longest)
      length == SumOver(texts)
  IN /\ BuildPayload(texts, 2048) = length
     /\ \A capacity \in 1 .. 300 :
          BuildPayload(texts, capacity) = IF length < capacity THEN length ELSE -1

=============================================================================
