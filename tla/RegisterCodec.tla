--------------------------- MODULE RegisterCodec ---------------------------
(***************************************************************************)
(* The registers of a sample: common/protocol/demo3_protocol.c, which the  *)
(* STM32F407 encodes with and the M4 and the A53 decode with.  Analog      *)
(* values, speed and sequence number take two 16-bit registers each, high  *)
(* word first; the time stamp takes none.                                  *)
(***************************************************************************)
EXTENDS Integers

CONSTANTS HalfWord,   \* 2^15
          Channels    \* DEMO3_ANALOG_CHANNEL_COUNT

ASSUME HalfWordAssumption == HalfWord \in Nat \ {0}
ASSUME ChannelsAssumption == Channels \in Nat \ {0}

WordBase == 2 * HalfWord
Word == 0 .. WordBase - 1
\* uint32_t and int32_t
Unsigned32 == 0 .. WordBase * WordBase - 1
Signed32 == -(HalfWord * WordBase) .. HalfWord * WordBase - 1

Sample == [sequence : Unsigned32, timestamp_ms : Unsigned32,
           analog : [1 .. Channels -> Signed32], digital_bits : Word,
           speed_rpm : Unsigned32, flags : Word]

High(value) == value \div WordBase
Low(value) == value % WordBase

\* The conversion of an int32_t to uint32_t.
Raw(value) == IF value < 0 THEN value + WordBase * WordBase ELSE value

JoinUnsigned(high, low) == high * WordBase + low

JoinSigned(high, low) ==
  IF high < HalfWord THEN high * WordBase + low
  ELSE high * WordBase + low - WordBase * WordBase

Registers == [analog_high : [1 .. Channels -> Word],
              analog_low : [1 .. Channels -> Word],
              digital_bits : Word,
              speed_high : Word, speed_low : Word, flags : Word,
              sequence_high : Word, sequence_low : Word]

ToRegisters(sample) ==
  [analog_high |-> [c \in 1 .. Channels |-> High(Raw(sample.analog[c]))],
   analog_low |-> [c \in 1 .. Channels |-> Low(Raw(sample.analog[c]))],
   digital_bits |-> sample.digital_bits,
   speed_high |-> High(sample.speed_rpm),
   speed_low |-> Low(sample.speed_rpm),
   flags |-> sample.flags,
   sequence_high |-> High(sample.sequence),
   sequence_low |-> Low(sample.sequence)]

FromRegisters(registers) ==
  [sequence |-> JoinUnsigned(registers.sequence_high, registers.sequence_low),
   timestamp_ms |-> 0,
   analog |-> [c \in 1 .. Channels |->
                 JoinSigned(registers.analog_high[c], registers.analog_low[c])],
   digital_bits |-> registers.digital_bits,
   speed_rpm |-> JoinUnsigned(registers.speed_high, registers.speed_low),
   flags |-> registers.flags]

\* What the M4 gets of a sample of the board.
Received(sample) == [sample EXCEPT !.timestamp_ms = 0]

=============================================================================
