--------------------------- MODULE M4Acquisition ---------------------------
(***************************************************************************)
(* The Demo2 Cortex-M4 (OKMX8MM-Demo2/m4/demo1): after every SysTick the   *)
(* main loop reads the wheel board over RS485, adds the sample to a batch  *)
(* and prints a batch when it is full.                                     *)
(*                                                                         *)
(* A tick is the unit of time (DEMO1_TICK_PERIOD_US).  The program runs    *)
(* much faster than that, but for the two UARTs, which keep it until they  *)
(* have put out the request or the line of the console: between two waits  *)
(* at most one tick interrupts it.  An answer of the wheel board is a few pieces, each damaged, lost   *)
(* or late; its first piece stands for the three bytes that end with the   *)
(* length, its last one ends with the CRC.  It does not say which request  *)
(* it answers.                                                             *)
(***************************************************************************)
EXTENDS Integers, Sequences

CONSTANTS Pieces,        \* pieces of one answer with all registers
          Capacity,      \* pieces response[64] holds
          FifoPieces,    \* pieces the receiver of the UART holds
          BatchSamples,  \* DEMO1_BATCH_SAMPLE_COUNT
          Timeout,       \* DEMO1_M4_RS485_RESPONSE_TIMEOUT_US, in ticks
          WriteTicks,    \* longest time the request takes to go out
          ConsoleTicks,  \* longest time the console takes for a line
          TickModulus,   \* 2^32: g_tick_count is uint32_t
          MaxTries       \* bound: samples the loop asks for

ASSUME PiecesAssumption == Pieces \in Nat /\ Pieces >= 2
ASSUME CapacityAssumption == Capacity \in Nat /\ Capacity >= Pieces
ASSUME BatchAssumption == BatchSamples \in Nat \ {0}
ASSUME TimesAssumption ==
         Timeout \in Nat /\ WriteTicks \in Nat /\ ConsoleTicks \in Nat
ASSUME TickAssumption == TickModulus \in Nat /\ TickModulus > Timeout + 4
ASSUME M4BoundsAssumption == FifoPieces \in Nat /\ MaxTries \in Nat

VARIABLES
  loop,          \* where the main loop is
  g_tick_count,
  observed,      \* in demo1_board_wait_next_tick
  interrupted,   \* a tick came since the loop last waited
  blocked_ticks, \* ticks a UART has taken for this request or line
  initialized,   \* g_rs485_port.initialized
  try,           \* number of the request
  timestamp_us,  \* what demo1_engine_tick was given, in ticks
  start_us,      \* start of the wait for the answer, in ticks
  data,          \* pieces read of the answer
  expected_length,  \* in pieces, or 0
  uart,          \* received, not yet read
  overrun,       \* kUART_RxOverrunFlag
  slave,         \* the answer the wheel board gives
  line_busy,     \* a request or a piece was on the line since the last tick
  current_batch, ready_batch, sample_index, next_sequence, batch_ready,
  since_try,     \* history: ticks since the last try began
  accepted,      \* history: samples the engine accepted
  printed        \* history: batches printed

tickVars == <<g_tick_count, interrupted, blocked_ticks, line_busy, since_try>>
transportVars == <<start_us, data, expected_length>>
engineVars == <<current_batch, ready_batch, sample_index, next_sequence,
                batch_ready, accepted>>
lineVars == <<uart, overrun, slave>>
m4Vars == <<loop, tickVars, observed, initialized, try, timestamp_us,
            transportVars, lineVars, engineVars, printed>>

Requests == 1 .. MaxTries
Times == 0 .. TickModulus - 1
Kinds == {"data", "short", "exception"}
Piece == [answer : 0 .. MaxTries, index : 1 .. Pieces, kind : Kinds,
          intact : BOOLEAN]
\* What the receiver yields when it is empty.
StaleByte == [answer |-> 0, index |-> 1, kind |-> "data", intact |-> FALSE]
NoAnswer == [answer |-> 0, sent |-> 0, kind |-> "data"]
Sample == [try : Requests, answer : 0 .. MaxTries, time : Times]
NoSample == [try |-> 0, answer |-> 0, time |-> 0]
Batch == [sequence : 0 .. MaxTries, start_timestamp_us : Times,
          samples : [1 .. BatchSamples -> Sample \cup {NoSample}]]

\* How long a UART keeps the loop.
Longest == IF loop = "write" THEN WriteTicks
           ELSE IF loop = "console" THEN ConsoleTicks ELSE 0

M4TypeOK ==
  /\ loop \in {"observe", "compare", "before_wfi", "asleep", "tick", "write",
               "read", "parse", "consume", "console"}
  /\ g_tick_count \in Times /\ observed \in Times
  /\ interrupted \in BOOLEAN /\ initialized \in BOOLEAN
  /\ blocked_ticks \in Nat /\ blocked_ticks <= Longest
  /\ try \in 0 .. MaxTries
  /\ timestamp_us \in Times /\ start_us \in Times
  /\ data \in Seq(Piece) /\ Len(data) <= Capacity
  /\ expected_length \in 0 .. Capacity
  /\ uart \in Seq(Piece) /\ Len(uart) <= FifoPieces
  /\ overrun \in BOOLEAN
  /\ slave \in [answer : 0 .. MaxTries, sent : 0 .. Pieces, kind : Kinds]
  /\ line_busy \in BOOLEAN
  /\ current_batch \in Batch /\ ready_batch \in Batch
  /\ sample_index \in 0 .. BatchSamples - 1
  /\ next_sequence \in 0 .. MaxTries
  /\ batch_ready \in BOOLEAN
  /\ since_try \in Nat
  /\ accepted \in Seq(Sample)
  /\ printed \in Seq(Batch)

-----------------------------------------------------------------------------
(* Time.                                                                   *)

\* demo1_board_now_us: the first tick is time 0, and so is what is before it.
NowAt(count) == IF count = 0 THEN 0 ELSE count - 1
Now == NowAt(g_tick_count)

\* Mutant: the time-out starts again with every byte.
TimedOutSinceLastByte ==
  data = <<>> /\ ~(start_us <= Now /\ Now - start_us <= Timeout)

\* now_us() - start_us in uint64_t: huge when the count has wrapped around.
TimedOut == ~(start_us <= Now /\ Now - start_us <= Timeout)

\* A UART puts out what it was given: UART_WriteBlocking, DbgConsole_Putchar.
PuttingOut == /\ loop = "console" \/ (loop = "write" /\ initialized)
              /\ blocked_ticks < Longest

\* The loop has nothing to do until something else happens.
Waiting == \/ loop = "asleep"
           \/ loop = "read" /\ uart = <<>> /\ ~overrun /\ ~TimedOut
           \/ PuttingOut

\* SysTick_Handler.
SysTick ==
  /\ Waiting \/ ~interrupted
  /\ g_tick_count' = (g_tick_count + 1) % TickModulus
  /\ loop' = IF loop = "asleep" THEN "compare" ELSE loop
  /\ interrupted' = ~Waiting
  /\ blocked_ticks' = IF PuttingOut THEN blocked_ticks + 1 ELSE blocked_ticks
  /\ line_busy' = FALSE
  /\ since_try' = IF loop = "observe" /\ try = MaxTries THEN since_try
                  ELSE since_try + 1
  /\ UNCHANGED <<observed, initialized, try, timestamp_us, transportVars,
                 lineVars, engineVars, printed>>

-----------------------------------------------------------------------------
(* The wheel board answers one request at a time, when it likes.           *)

Arrives(r) ==
  \/ UNCHANGED slave
  \/ /\ slave = NoAnswer
     /\ \E kind \in Kinds : slave' = [answer |-> r, sent |-> 0, kind |-> kind]

PiecesOf(kind) == IF kind = "data" THEN Pieces ELSE 1

\* One more piece; like the request, it takes longer than a tick.
SendPiece ==
  /\ slave # NoAnswer /\ ~line_busy
  /\ line_busy' = TRUE
  /\ slave' = IF slave.sent + 1 = PiecesOf(slave.kind) THEN NoAnswer
              ELSE [slave EXCEPT !.sent = @ + 1]
  /\ \/ UNCHANGED <<uart, overrun>>
     \/ \E intact \in {TRUE, slave.kind # "data"} :
          IF Len(uart) < FifoPieces
          THEN /\ uart' = Append(uart, [answer |-> slave.answer,
                                        index |-> slave.sent + 1,
                                        kind |-> slave.kind,
                                        intact |-> intact])
               /\ UNCHANGED overrun
          ELSE overrun' = TRUE /\ UNCHANGED uart
  /\ UNCHANGED <<loop, g_tick_count, interrupted, blocked_ticks, since_try,
                 observed, initialized, try, timestamp_us, transportVars,
                 engineVars, printed>>

-----------------------------------------------------------------------------
(* Waiting for the next tick: demo1_board_wait_next_tick.                  *)

Observe ==
  /\ loop = "observe" /\ try < MaxTries
  /\ observed' = g_tick_count
  /\ loop' = "compare"
  /\ UNCHANGED <<tickVars, initialized, try, timestamp_us, transportVars,
                 lineVars, engineVars, printed>>

Compare ==
  /\ loop = "compare"
  /\ IF observed = g_tick_count
     THEN loop' = "before_wfi" /\ UNCHANGED observed
     ELSE loop' = "tick" /\ observed' = 0
  /\ UNCHANGED <<tickVars, initialized, try, timestamp_us,
                 transportVars, lineVars, engineVars, printed>>

\* A tick between the comparison and the instruction does not wake it.
WaitForInterrupt ==
  /\ loop = "before_wfi"
  /\ loop' = "asleep"
  /\ interrupted' = FALSE
  /\ UNCHANGED <<g_tick_count, blocked_ticks, line_busy, since_try, observed,
                 initialized, try, timestamp_us, transportVars, lineVars,
                 engineVars, printed>>

-----------------------------------------------------------------------------
(* One try: demo1_engine_tick calls demo1_wheel_board_source_read_tick.    *)

BeginTry ==
  /\ loop = "tick"
  /\ timestamp_us' = Now
  /\ try' = try + 1
  /\ since_try' = 0
  /\ loop' = "write"
  /\ UNCHANGED <<g_tick_count, interrupted, blocked_ticks, line_busy, observed,
                 initialized, transportVars, lineVars, engineVars, printed>>

\* The request has gone out, or the port was never initialized.
WriteRequest ==
  /\ loop = "write" /\ blocked_ticks' = 0
  /\ IF initialized
     THEN /\ Arrives(try)
          /\ start_us' = Now /\ data' = <<>> /\ expected_length' = 0
          /\ line_busy' = TRUE
          /\ loop' = "read"
     ELSE /\ loop' = "observe"
          /\ UNCHANGED <<slave, transportVars, line_busy>>
  /\ UNCHANGED <<g_tick_count, interrupted, since_try, observed, initialized,
                 try, timestamp_us, uart, overrun, engineVars, printed>>

\* What the third byte can say.  It is the length only where an answer
\* starts; an exception has its code there, which is more than follows.
LengthsFrom(piece) ==
  CASE piece.index = 1 /\ piece.intact /\ piece.kind # "exception" ->
         {PiecesOf(piece.kind)}
    [] piece.index = 1 /\ piece.intact /\ piece.kind = "exception" ->
         2 .. Capacity
    [] OTHER -> 1 .. Capacity + 1

\* The locals of the read are gone when it returns.
ReadReturns == start_us' = 0 /\ data' = <<>> /\ expected_length' = 0

\* demo1_board_rs485_read_byte.  The flag of an overrun is never cleared.
ByteIsThere == uart # <<>> \/ overrun
NextByte == IF uart # <<>> THEN Head(uart) ELSE StaleByte

FitsResponse(length) == length <= Capacity

\* demo1_rs485_transport_read takes what is there; what it leaves behind
\* when it returns stays in the receiver.
ReadPiece ==
  /\ loop = "read" /\ ~TimedOut /\ ByteIsThere
  /\ uart' = IF uart # <<>> THEN Tail(uart) ELSE uart
  /\ interrupted' = (interrupted /\ (uart' # <<>> \/ overrun))
  /\ \E length \in IF data = <<>> THEN LengthsFrom(NextByte)
                   ELSE {expected_length} :
       IF FitsResponse(length)
       THEN /\ data' = Append(data, NextByte)
            /\ expected_length' = length
            /\ UNCHANGED start_us
            /\ loop' = IF Len(data') = length THEN "parse" ELSE "read"
       ELSE loop' = "observe" /\ ReadReturns
  /\ UNCHANGED <<g_tick_count, blocked_ticks, line_busy, since_try, observed,
                 initialized, try, timestamp_us, overrun, slave,
                 engineVars, printed>>

TimeOut ==
  /\ loop = "read" /\ TimedOut
  /\ loop' = "observe"
  /\ ReadReturns
  /\ UNCHANGED <<tickVars, observed, initialized, try, timestamp_us,
                 lineVars, engineVars, printed>>

\* One whole answer, and nothing else, has the CRC.
CrcMatches(frame) ==
  /\ Len(frame) = PiecesOf(frame[1].kind)
  /\ \A i \in DOMAIN frame :
       frame[i] = [frame[1] EXCEPT !.index = i, !.intact = TRUE]

\* Mutant: the CRC of the answer is not looked at.
ParseWithoutCrc(frame) == Len(frame) = Pieces /\ frame[1].kind = "data"

\* demo1_modbus_parse_read_response and wheel_registers_to_sample: the CRC is
\* right, and the answer holds all registers.
ParseReadResponse(frame) == CrcMatches(frame) /\ frame[1].kind = "data"

\* The answer whose registers are in the frame, 0 when they are of none.
AnswerIn(frame) == IF CrcMatches(frame) THEN frame[1].answer ELSE 0

-----------------------------------------------------------------------------
(* The engine.                                                             *)

ResetBatch == [sequence |-> 0, start_timestamp_us |-> 0,
               samples |-> [i \in 1 .. BatchSamples |-> NoSample]]

\* A batch is started when its first sample is there.
StartedBatch ==
  IF sample_index = 0
  THEN [ResetBatch EXCEPT !.sequence = next_sequence,
                          !.start_timestamp_us = timestamp_us]
  ELSE current_batch

\* Mutant: the index of a full batch is not set back to the start.
IndexNotReset(index) == IF index = BatchSamples THEN 1 ELSE index

NextIndex(index) == IF index = BatchSamples THEN 0 ELSE index

AddSample(sample) ==
  /\ accepted' = Append(accepted, sample)
  /\ current_batch' = [StartedBatch EXCEPT !.samples[sample_index + 1] = sample]
  /\ sample_index' = NextIndex(sample_index + 1)
  /\ IF sample_index + 1 < BatchSamples
     THEN /\ loop' = "observe"
          /\ UNCHANGED <<ready_batch, batch_ready, next_sequence>>
     ELSE /\ loop' = "consume"
          /\ ready_batch' = current_batch'
          /\ batch_ready' = TRUE
          /\ next_sequence' = next_sequence + 1

EngineTick ==
  /\ loop = "parse"
  /\ IF ParseReadResponse(data)
     THEN AddSample([try |-> try, answer |-> AnswerIn(data),
                     time |-> timestamp_us])
     ELSE loop' = "observe" /\ UNCHANGED engineVars
  /\ ReadReturns
  /\ UNCHANGED <<tickVars, observed, initialized, try, timestamp_us,
                 lineVars, printed>>

ConsumeBatch ==
  /\ loop = "consume" /\ batch_ready
  /\ printed' = Append(printed, ready_batch)
  /\ batch_ready' = FALSE
  /\ loop' = "console"
  /\ UNCHANGED <<tickVars, observed, initialized, try, timestamp_us,
                 transportVars, lineVars, current_batch, ready_batch,
                 sample_index, next_sequence, accepted>>

\* demo1_board_uart_write has put out the line.
ConsoleDone ==
  /\ loop = "console"
  /\ loop' = "observe"
  /\ blocked_ticks' = 0
  /\ UNCHANGED <<g_tick_count, interrupted, line_busy, since_try, observed,
                 initialized, try, timestamp_us, transportVars, lineVars,
                 engineVars, printed>>

-----------------------------------------------------------------------------

BoardInit == /\ g_tick_count = 0 /\ observed = 0
             /\ interrupted = FALSE /\ blocked_ticks = 0 /\ line_busy = FALSE
             /\ initialized \in BOOLEAN

TransportInit == start_us = 0 /\ data = <<>> /\ expected_length = 0

EngineInit == /\ current_batch = ResetBatch /\ ready_batch = ResetBatch
              /\ sample_index = 0 /\ next_sequence = 0 /\ batch_ready = FALSE

M4Init ==
  /\ loop = "observe"
  /\ BoardInit /\ TransportInit /\ EngineInit
  /\ try = 0 /\ timestamp_us = 0
  /\ uart = <<>> /\ overrun = FALSE /\ slave = NoAnswer
  /\ since_try = 0 /\ accepted = <<>> /\ printed = <<>>

MainLoop ==
  \/ Observe \/ Compare \/ WaitForInterrupt
  \/ BeginTry \/ WriteRequest \/ ReadPiece \/ TimeOut
  \/ EngineTick \/ ConsumeBatch \/ ConsoleDone

M4Next == MainLoop \/ SysTick \/ SendPiece

M4Spec == M4Init /\ [][M4Next]_m4Vars

-----------------------------------------------------------------------------
(* Properties.                                                             *)

\* The engine gets whole answers, never the same one twice, nor an older one after a
\* newer one, although late answers stay in the receiver and every read
\* starts wherever the last one stopped (demo1_rs485_transport_read).
AnswersInOrder ==
  /\ M4TypeOK
  /\ \A i \in DOMAIN accepted :
       /\ accepted[i].answer \in 1 .. accepted[i].try
       /\ i > 1 => accepted[i - 1].answer < accepted[i].answer

\* Samples the engine has accepted and not printed yet.
Unprinted == sample_index + (IF loop = "consume" THEN BatchSamples ELSE 0)

\* Whatever ticks fail in between, every sample the engine accepted is in
\* one batch, the batches are numbered without a gap and start with their
\* first sample: no ready batch is overwritten before it is consumed
\* (demo1_engine_tick and the loop of main).
BatchesHoldEverySample ==
  /\ Len(accepted) = Len(printed) * BatchSamples + Unprinted
  /\ \A b \in DOMAIN printed :
       LET first == (b - 1) * BatchSamples IN
       /\ printed[b].sequence = b - 1
       /\ printed[b].start_timestamp_us = accepted[first + 1].time
       /\ \A i \in 1 .. BatchSamples :
            printed[b].samples[i] = accepted[first + i]

\* The time from one try to the next: the ticks missed are those of the
\* request, the time-out, the console and, now and then, a tick that comes at
\* the wrong moment (demo1_board_rs485_write_bytes,
\* demo1_rs485_transport_read, demo1_board_wait_next_tick).
PaceIsKept == since_try <= WriteTicks + Timeout + ConsoleTicks + 6

=============================================================================
