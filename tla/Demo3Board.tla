----------------------------- MODULE Demo3Board -----------------------------
(***************************************************************************)
(* The field side of Demo3.  The STM32F407 (Core/Src/main.c) samples its   *)
(* inputs once a period, queues the sample into the CAN controller and     *)
(* answers the reads of its Modbus registers between two samples, all in   *)
(* one loop that waits for nothing but the UART.  The M4 reads the         *)
(* registers (demo3_m4_gateway_poll) and publishes what it decodes.        *)
(*                                                                         *)
(* A request and an answer travel in pieces.  The bus between the two, the *)
(* CAN bus, and the functions with which the M4 writes to and reads from   *)
(* its port (the caller passes them) are not in the repository.            *)
(***************************************************************************)
EXTENDS RegisterCodec, Sequences, FiniteSets, SequencesExt

CONSTANTS AnalogInputs,     \* what the converter may read: functions of the channel
          Conversions,      \* channels converted before the converter fails
          DigitalInputs,    \* what the two digital pins may show
          Movements,        \* pulses of the encoder before each sample: sets
          Mailboxes,        \* transmit mailboxes of the CAN controller (3)
          TickModulus,      \* HAL_GetTick is a uint32_t
          Period,           \* 1000 ms
          Minute,           \* 60000 ms
          FrameTimeout,     \* DEMO3_STM32F407_MODBUS_FRAME_TIMEOUT_MS
          TransmitLimit,    \* the 50 ms of HAL_UART_Transmit
          AnswerPieces,     \* pieces of the answer of 57 bytes
          PieceTicks,       \* ticks a piece may take at the bit rate of the build
          MaxSamples,       \* bound: samples taken in a behaviour
          LineRoom          \* bound: pieces that wait in the port of the M4

ASSUME BoardAssumption ==
  /\ {Mailboxes, TickModulus, Period, Minute, AnswerPieces} \subseteq Nat \ {0}
  /\ {FrameTimeout, TransmitLimit, MaxSamples, LineRoom} \subseteq Nat
  /\ AnalogInputs \subseteq [1 .. Channels -> 0 .. HalfWord - 1]
  /\ Conversions \subseteq 0 .. Channels /\ DigitalInputs \subseteq Word
  /\ \A s \in 1 .. MaxSamples : Movements[s] \subseteq -(HalfWord - 1) .. HalfWord - 1
  /\ PieceTicks \subseteq {0, 1}

\* DEMO3_SAMPLE_VALID, DEMO3_SAMPLE_ANALOG_ERROR
VALID == 1
ANALOG_ERROR == 2

\* The numbers of a sample fit their types, a speed as well, and the tick count
\* does not go around between two samples.
ASSUME RangesAssumption ==
  /\ {TickModulus - 1, MaxSamples, Minute * (HalfWord - 1)} \subseteq Unsigned32
  /\ VALID + ANALOG_ERROR \in Word
  /\ Period + 2 * (FrameTimeout + 1) + TransmitLimit + 1 < TickModulus

\* Two channels fill a frame, the last frame takes the other inputs.
Frames == Channels \div 2 + 1

NoSample == [sequence |-> -1]
NoFrame == [sequence |-> -1, frame |-> 0]
Piece == {"none", "first", "rest"}
Positions == {"start", "halted", "acquire", "can", "loop", "first", "rest",
              "transmit"}

VARIABLES
  pc, now, sample, sequence, last_sample_tick,  \* main, demo3_acquisition
  previous_tick, previous_counter,              \* demo3_stm32f407_read_speed
  frame, mailbox,                               \* demo3_can_send_sample
  held, rx, waited, transmitted,                \* demo3_modbus_slave_poll, USART3
  line, published,                              \* demo3_m4_gateway_poll
  taken, moved, on_bus, since_sample            \* history, for the properties

acquisition == <<sample, sequence, previous_tick, previous_counter>>
uart == <<held, rx, waited, transmitted>>
gateway == <<line, published>>
history == <<taken, moved, on_bus, since_sample>>
vars == <<pc, now, acquisition, last_sample_tick, frame, mailbox, uart,
          gateway, history>>

TypeOK ==
  /\ pc \in Positions
  /\ {now, last_sample_tick, previous_tick} \subseteq 0 .. TickModulus - 1
  /\ sample \in Sample \cup {NoSample} /\ sequence \in 0 .. MaxSamples
  /\ previous_counter \in Word
  /\ frame \in 1 .. Frames + 1
  /\ \A m \in 1 .. Mailboxes :
       /\ mailbox[m].sequence < sequence
       /\ mailbox[m].frame <= Frames
  /\ {held, rx} \subseteq Piece
  /\ waited \in 0 .. TransmitLimit + FrameTimeout + 1
  /\ transmitted \in 0 .. AnswerPieces
  /\ \A i \in 1 .. Len(line) : line[i].registers \in Registers
  /\ published \in Sample \cup {NoSample}

Init ==
  /\ pc = "start" /\ now = 0
  /\ sample = NoSample /\ sequence = 0 /\ last_sample_tick = 0
  /\ previous_tick = 0 /\ previous_counter = 0
  /\ frame = 1 /\ mailbox = [m \in 1 .. Mailboxes |-> NoFrame]
  /\ held = "none" /\ rx = "none"
  /\ waited = 0 /\ transmitted = 0
  /\ line = << >> /\ published = NoSample
  /\ taken = << >> /\ moved = 0 /\ since_sample = 0
  /\ on_bus = [s \in 0 .. MaxSamples - 1 |-> {}]

-----------------------------------------------------------------------------
(* The board: start, sampling, CAN.                                        *)

\* The outcome of demo3_stm32f407_clock_init, and that of
\* demo3_stm32f407_hal_init, which stops at the first of pins, converter, UART,
\* encoder and CAN controller that cannot be set up.
ClockInit == BOOLEAN
HalInit == BOOLEAN

\* main returns if any part of the start fails.
Start ==
  /\ pc = "start"
  /\ \E clock \in ClockInit, hal \in HalInit :
       pc' = IF clock /\ hal THEN "acquire" ELSE "halted"
  /\ UNCHANGED <<now, acquisition, last_sample_tick, frame, mailbox, uart,
                 gateway, history>>

\* Mutant: the counter is not expected to wrap.
DifferenceWithoutWrap(new, old) == new - old

\* (int16_t)(counter - previous_counter)
Difference(new, old) ==
  LET d == (new - old) % WordBase IN IF d < HalfWord THEN d ELSE d - WordBase

Magnitude(d) == IF d < 0 THEN -d ELSE d

\* demo3_stm32f407_read_speed: nothing to compare with after the start, and
\* neither when the last sample fell on tick 0.
SpeedAt(tick, count) ==
  LET elapsed == (tick - previous_tick) % TickModulus
  IN  IF previous_tick = 0 \/ elapsed = 0 THEN 0
      ELSE (Magnitude(Difference(count, previous_counter)) * Minute)
             \div elapsed

\* demo3_acquisition_read.  The converter fails to start, at a channel (it is
\* waited for in vain then), or at the stop; pins and encoder cannot fail.
Acquire ==
  /\ pc = "acquire" /\ sequence < MaxSamples
  /\ \E input \in AnalogInputs, digital \in DigitalInputs, movement \in Movements[sequence + 1],
        converted \in Conversions, stopped \in BOOLEAN, wait \in 0 .. 1 :
       LET after == (now + wait) % TickModulus
           count == (previous_counter + movement) % WordBase
       IN  /\ IF converted \in 1 .. Channels - 1 THEN wait = 1
              ELSE converted = Channels => wait = 0
           /\ sample' =
                [sequence |-> sequence, timestamp_ms |-> now,
                 analog |-> [c \in 1 .. Channels |->
                               IF c <= converted THEN input[c] ELSE 0],
                 digital_bits |-> digital,
                 speed_rpm |-> SpeedAt(after, count),
                 flags |-> VALID + IF converted = Channels /\ stopped
                                   THEN 0 ELSE ANALOG_ERROR]
           /\ now' = after /\ previous_tick' = after
           /\ previous_counter' = count
           /\ moved' = [pulses |-> movement, elapsed |-> since_sample + wait]
  /\ sequence' = sequence + 1
  /\ pc' = "can" /\ frame' = 1
  /\ taken' = Append(taken, sample') /\ since_sample' = 0
  /\ UNCHANGED <<last_sample_tick, mailbox, uart, gateway, on_bus>>

\* Mutant: the other frames of the sample are tried all the same.
NextFrameAfterRefusal == IF frame < Frames THEN "can" ELSE "loop"

\* What follows a frame that the controller does not take.
AfterRefusal == "loop"

\* One turn of the loop of demo3_can_send_sample: HAL_CAN_AddTxMessage puts the
\* frame into a free mailbox.
QueueFrame ==
  /\ pc = "can" /\ frame <= Frames
  /\ \/ \E m \in 1 .. Mailboxes :
          /\ mailbox[m] = NoFrame
          /\ mailbox' = [mailbox EXCEPT ![m] =
                           [sequence |-> sample.sequence, frame |-> frame]]
          /\ pc' = "can" /\ frame' = frame + 1
          /\ UNCHANGED last_sample_tick
     \/ /\ \A m \in 1 .. Mailboxes : mailbox[m] # NoFrame
        /\ pc' = AfterRefusal /\ last_sample_tick' = now
        /\ frame' = IF pc' = "can" THEN frame + 1 ELSE 1
        /\ UNCHANGED mailbox
  /\ UNCHANGED <<now, acquisition, uart, gateway, history>>

FramesQueued ==
  /\ pc = "can" /\ frame > Frames
  /\ pc' = "loop" /\ last_sample_tick' = now /\ frame' = 1
  /\ UNCHANGED <<now, acquisition, mailbox, uart, gateway, history>>

\* The controller sends the waiting frame with the lowest identifier, of two
\* with the same one that in the lowest mailbox.
Before(m, n) ==
  \/ mailbox[m].frame < mailbox[n].frame
  \/ mailbox[m].frame = mailbox[n].frame /\ m < n

SendFrame ==
  \E m \in {n \in 1 .. Mailboxes : mailbox[n] # NoFrame} :
    /\ \A n \in 1 .. Mailboxes \ {m} : mailbox[n] = NoFrame \/ Before(m, n)
    /\ mailbox' = [mailbox EXCEPT ![m] = NoFrame]
    /\ on_bus' = [on_bus EXCEPT ![mailbox[m].sequence] =
                    @ \cup {mailbox[m].frame}]
    /\ UNCHANGED <<pc, now, acquisition, last_sample_tick, frame, uart,
                   gateway, taken, moved, since_sample>>

-----------------------------------------------------------------------------
(* The board: the Modbus slave.                                            *)

\* Mutant: the period must be met exactly.
SampleDueExactly == (now - last_sample_tick) % TickModulus = Period

SampleDue == (now - last_sample_tick) % TickModulus >= Period

Loop ==
  /\ pc = "loop"
  /\ pc' = IF SampleDue THEN "acquire" ELSE "first"
  /\ UNCHANGED <<now, acquisition, last_sample_tick, frame, mailbox, uart,
                 gateway, history>>

\* The variables of demo3_modbus_slave_poll end with it.
PollEnds ==
  pc' = "loop" /\ waited' = 0 /\ held' = "none" /\ transmitted' = 0

\* Time passes while HAL_UART_Receive waits.
Tick ==
  /\ pc \in {"first", "rest"} /\ waited <= FrameTimeout
  /\ now' = (now + 1) % TickModulus
  /\ waited' = waited + 1 /\ since_sample' = since_sample + 1
  /\ UNCHANGED <<pc, acquisition, last_sample_tick, frame, mailbox, held, rx,
                 transmitted, gateway, taken, moved,
                 on_bus>>

\* HAL_TIMEOUT of the first byte (0) or of the others (-2).
ReceiveTimeout ==
  /\ pc \in {"first", "rest"} /\ waited > FrameTimeout
  /\ PollEnds
  /\ UNCHANGED <<now, acquisition, last_sample_tick, frame, mailbox, rx,
                 gateway, history>>

\* HAL_ERROR (-2): bytes were damaged, or lost while nobody read them.
ReceiveError ==
  /\ pc \in {"first", "rest"} /\ rx # "none"
  /\ PollEnds /\ rx' = "none"
  /\ UNCHANGED <<now, acquisition, last_sample_tick, frame, mailbox,
                 gateway, history>>

ReceiveFirst ==
  /\ pc = "first" /\ rx # "none"
  /\ held' = rx /\ rx' = "none"
  /\ pc' = "rest" /\ waited' = 0
  /\ UNCHANGED <<now, acquisition, last_sample_tick, frame, mailbox,
                 transmitted, gateway, history>>

\* The slave identifier and demo3_modbus_slave_build_response accept the
\* pieces of one request in their order, and no others.
IsRequest(first, rest) == first = "first" /\ rest = "rest"

ReceiveRest ==
  /\ pc = "rest" /\ rx # "none"
  /\ rx' = "none"
  /\ IF IsRequest(held, rx)
     THEN pc' = "transmit" /\ waited' = 0 /\ held' = "none" /\ UNCHANGED transmitted
     ELSE PollEnds
  /\ UNCHANGED <<now, acquisition, last_sample_tick, frame, mailbox,
                 gateway, history>>

\* What the limit of HAL_UART_Transmit allows.
MayTransmit == waited <= TransmitLimit

\* A piece of the answer leaves, with the registers of the sample in it.  It
\* is lost to noise, to a request of the M4 that meets it on the bus, or to a
\* port without room.
TransmitPiece ==
  /\ pc = "transmit" /\ transmitted < AnswerPieces /\ MayTransmit
  /\ transmitted' = transmitted + 1
  /\ \E ticks \in PieceTicks :
       /\ waited' = waited + ticks
       /\ now' = (now + ticks) % TickModulus
       /\ since_sample' = since_sample + ticks
  /\ \/ UNCHANGED line
     \/ /\ Len(line) < LineRoom
        /\ line' = Append(line, [registers |-> ToRegisters(sample),
                                 piece |-> transmitted'])
  /\ UNCHANGED <<pc, acquisition, last_sample_tick, frame, mailbox, held, rx,
                 published, taken, moved, on_bus>>

\* HAL_OK after the last piece, HAL_TIMEOUT before it (-5); the receiver is
\* switched on again.
TransmitEnds ==
  /\ pc = "transmit" /\ (transmitted = AnswerPieces \/ ~MayTransmit)
  /\ PollEnds
  /\ UNCHANGED <<now, acquisition, last_sample_tick, frame, mailbox, rx,
                 gateway, history>>

-----------------------------------------------------------------------------
(* The M4: demo3_m4_gateway_poll, and the bus between the two.             *)

\* A piece of a request reaches the board: the M4 polls when it likes, and
\* what noise leaves of its requests comes in any order.  The UART holds one
\* piece and loses those that come then; the transceiver hears nothing in
\* transmit mode, nor before the UART is set up.
Arrive ==
  /\ pc \notin {"start", "halted", "transmit"}
  /\ rx = "none" /\ rx' \in {"first", "rest"}
  /\ UNCHANGED <<pc, now, acquisition, last_sample_tick, frame, mailbox, held,
                 waited, transmitted, gateway, history>>

\* Mutant: the CRC is not compared.
IsAnswerWithoutCrc(pieces) ==
  /\ Len(pieces) = AnswerPieces
  /\ \A i \in 1 .. AnswerPieces : pieces[i].piece = i

\* Length, identifier, function code, byte count and CRC of the answer.
IsAnswer(pieces) ==
  /\ Len(pieces) = AnswerPieces
  /\ \A i \in 1 .. AnswerPieces :
       pieces[i] = [registers |-> pieces[1].registers, piece |-> i]

\* The registers of an answer: the last ones, with the sequence number, come
\* from its last piece.
RegistersOf(pieces) ==
  [pieces[1].registers EXCEPT
     !.sequence_high = pieces[Len(pieces)].registers.sequence_high,
     !.sequence_low = pieces[Len(pieces)].registers.sequence_low]

\* demo3_m4_rpmsg_publish sends the sample in one frame, or fails (-6).
Publish(received) == published' = received \/ UNCHANGED published

\* demo3_m4_gateway_poll, after the request went out: the read function
\* returns the bytes that are there, or fails with or without dropping them;
\* what comes after them is found by the next read.  An answer that passes
\* the checks is published.
ReadAnswer ==
  /\ \E n \in 1 .. Len(line) :
       LET answer == SubSeq(line, 1, n)
       IN  /\ line' = SubSeq(line, n + 1, Len(line))
           /\ \/ IsAnswer(answer) /\ Publish(FromRegisters(RegistersOf(answer)))
              \/ UNCHANGED published
  /\ UNCHANGED <<pc, now, acquisition, last_sample_tick, frame, mailbox, uart,
                 history>>

-----------------------------------------------------------------------------
Next ==
  \/ Start \/ Acquire \/ QueueFrame \/ FramesQueued \/ SendFrame
  \/ Loop \/ Tick \/ ReceiveTimeout \/ ReceiveError \/ ReceiveFirst
  \/ ReceiveRest \/ TransmitPiece \/ TransmitEnds
  \/ Arrive \/ ReadAnswer

Spec == Init /\ [][Next]_vars

-----------------------------------------------------------------------------
(* Properties                                                              *)

\* What the M4 publishes is one sample of the board, all of it and nothing of
\* another, however late, torn or mixed the answers are
\* (demo3_m4_modbus_read_sample, demo3_sample_from_registers).
PublishedWasSampled ==
  /\ TypeOK
  /\ published # NoSample =>
       \E i \in 1 .. Len(taken) : published = Received(taken[i])

\* A receiver on the CAN bus that has a frame of a sample has all frames
\* before it: a sample is cut short, never holed
\* (demo3_can_send_sample stops at the first frame that is refused).
CanGroupsArePrefixes ==
  \A s \in 0 .. MaxSamples - 1 :
    \E k \in 0 .. Frames : on_bus[s] = 1 .. k

\* The speed is what the encoder moved, also over a wrap of its counter or
\* of the tick count, or zero (demo3_stm32f407_read_speed).
SpeedIsMovement ==
  sequence > 1 =>
    \/ sample.speed_rpm = 0
    \/ sample.speed_rpm =
         (Magnitude(moved.pulses) * Minute) \div moved.elapsed

\* However long the slave keeps the loop busy, the next sample is late by at
\* most one poll (main).
SamplesKeepPace ==
  since_sample <= Period - 1 + 2 * (FrameTimeout + 1) + TransmitLimit + 1

=============================================================================
