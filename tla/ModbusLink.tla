----------------------------- MODULE ModbusLink -----------------------------
(***************************************************************************)
(* Reading registers over the RS485 line: modbus_rtu_read_registers of the *)
(* A53 collector (data-collector-demo3/src/modbus-rtu/modbus-rtu.c) as the *)
(* master, and one slave, for instance the STM32F407's                     *)
(* (stm32f407/applications/rs485).                                         *)
(*                                                                         *)
(* The slave answers one request at a time, piece by piece, early, late or *)
(* not at all; pieces may be damaged or lost.  An answer does not say      *)
(* which request it answers.  Its first piece stands for address, function *)
(* code and length, the last one ends with the CRC.                        *)
(*                                                                         *)
(* The UART fails now and then, for some time or for ever: a write() or    *)
(* select() or ioctl() on it returns -1.                                   *)
(***************************************************************************)
EXTENDS Integers, Sequences

CONSTANTS Pieces,         \* pieces of one answer
          BufferPieces,   \* response_data_buffer_length
          MaxRequests     \* bound: requests the master makes

ASSUME PiecesAssumption == Pieces \in Nat \ {0}
ASSUME BufferAssumption == BufferPieces \in Nat /\ BufferPieces >= Pieces
ASSUME MaxRequestsAssumption == MaxRequests \in Nat

VARIABLES
  step,       \* where the master is
  request,    \* number of the last request that went out
  buffer,     \* response_data_buffer
  uart,       \* received, not yet read
  slave,      \* the request the slave works on, or 0
  slave_sent, \* pieces of its answer sent
  uart_down,  \* the device of the UART fails
  shutdown_flag,
  delivered   \* history: <<request, the request whose answer it was given>>

masterVars == <<step, request, buffer, delivered>>
slaveVars == <<slave, slave_sent>>
flags == <<uart_down, shutdown_flag>>
vars == <<masterVars, uart, slaveVars, flags>>

Requests == 1 .. MaxRequests
Piece == [answer : Requests, index : 1 .. Pieces, intact : BOOLEAN]

TypeOK ==
  /\ step \in {"idle", "send", "wait", "check", "skip", "stopped", "overrun"}
  /\ request \in 0 .. MaxRequests
  /\ buffer \in Seq(Piece) /\ Len(buffer) <= BufferPieces
  /\ uart \in Seq(Piece)
  /\ slave \in 0 .. MaxRequests
  /\ slave_sent \in 0 .. Pieces
  /\ uart_down \in BOOLEAN /\ shutdown_flag \in BOOLEAN
  /\ delivered \in Seq(Requests \X Requests)

Init ==
  /\ step = "idle" /\ request = 0 /\ buffer = <<>> /\ uart = <<>>
  /\ slave = 0 /\ slave_sent = 0
  /\ uart_down = FALSE /\ shutdown_flag = FALSE /\ delivered = <<>>

-----------------------------------------------------------------------------
(* The slave: demo3_modbus_slave_poll.                                     *)

\* The slave takes the request if it listens and accepts it, or misses it.
Arrives(r) ==
  \/ UNCHANGED slaveVars
  \/ /\ slave = 0
     /\ slave' = r /\ slave_sent' = 0

\* One more piece of the answer goes out; it arrives, damaged or not, or is
\* lost on the line.
SendPiece ==
  /\ slave # 0
  /\ slave_sent' = slave_sent + 1
  /\ slave' = IF slave_sent' = Pieces THEN 0 ELSE slave
  /\ \/ \E intact \in BOOLEAN :
          uart' = Append(uart, [answer |-> slave, index |-> slave_sent',
                                intact |-> intact])
     \/ UNCHANGED uart
  /\ UNCHANGED <<masterVars, flags>>

\* The slave is switched off or reset in the middle.
GiveUp ==
  /\ slave # 0
  /\ slave' = 0
  /\ UNCHANGED <<masterVars, uart, slave_sent, flags>>

-----------------------------------------------------------------------------
(* The master.  Nothing is read from the device between two requests.      *)

\* Mutant: the count of bytes read so far is not set back.
KeptBuffer == buffer

NewBuffer == <<>>

BuildRequest ==
  /\ step = "idle" /\ ~shutdown_flag /\ request < MaxRequests
  /\ step' = "send"
  /\ UNCHANGED <<request, buffer, delivered, uart, slaveVars, flags>>

\* The loop of write() goes on until it has counted all bytes; it counts a
\* failure as minus one and does not look at shutdown_flag.  What goes out
\* after a failure begins before the request: the slave may not answer it
\* (Arrives).
WriteRequest ==
  /\ step = "send" /\ ~uart_down
  /\ step' = "wait"
  /\ request' = request + 1
  /\ buffer' = NewBuffer
  /\ Arrives(request')
  /\ UNCHANGED <<delivered, uart, flags>>

\* Address, function code and length are looked at as soon as they are
\* there; a piece from the middle of an answer does not pass for them.
HeaderMatches(b) == b[1].index = 1 /\ b[1].intact

FitsBuffer(available) == available <= BufferPieces - Len(buffer)

ReadAvailable ==
  /\ step = "wait" /\ ~shutdown_flag /\ ~uart_down /\ uart # <<>>
  /\ IF FitsBuffer(Len(uart))
     THEN /\ buffer' = buffer \o uart
          /\ uart' = <<>>
          /\ step' = CASE ~HeaderMatches(buffer')  -> "skip"
                       [] HeaderMatches(buffer') /\ Len(buffer') >= Pieces
                                                   -> "check"
                       [] OTHER                    -> "wait"
     ELSE step' = "skip" /\ UNCHANGED <<buffer, uart>>
  /\ UNCHANGED <<request, delivered, slaveVars, flags>>

\* The CRC over the expected length: only one whole answer has it.
CrcMatches(b) ==
  \A i \in 1 .. Pieces : b[i] = [answer |-> b[1].answer, index |-> i,
                                 intact |-> TRUE]

AfterAnswer == IF Len(buffer) > Pieces THEN "skip" ELSE "idle"

CheckAnswer ==
  /\ step = "check"
  /\ delivered' = IF CrcMatches(buffer)
                  THEN Append(delivered, <<request, buffer[1].answer>>)
                  ELSE delivered
  /\ step' = AfterAnswer
  /\ UNCHANGED <<request, buffer, uart, slaveVars, flags>>

\* select() saw nothing for 200 ms: the request is abandoned.
Timeout ==
  /\ step = "wait" /\ ~uart_down /\ uart = <<>>
  /\ step' = "idle"
  /\ UNCHANGED <<request, buffer, delivered, uart, slaveVars, flags>>

\* select() or ioctl() returns -1, which ends either loop.
SelectFails ==
  /\ step \in {"wait", "skip"}
  /\ step' = "idle"
  /\ UNCHANGED <<request, buffer, delivered, uart, slaveVars, flags>>

\* The loop that skips data does not look at shutdown_flag, and a device that
\* always has something to read and yields nothing keeps it.  It reads all
\* there is into dummy_buffer, which is as long as response_data_buffer: more
\* than that overwrites the stack, and what happens then is undefined.
SkipData ==
  /\ step = "skip" /\ ~uart_down /\ uart # <<>>
  /\ uart' = <<>>
  /\ step' = IF Len(uart) <= BufferPieces THEN "skip" ELSE "overrun"
  /\ UNCHANGED <<request, buffer, delivered, slaveVars, flags>>

\* Mutant: skipping goes on although the line is quiet.
SkipForEver == "skip"

AfterQuiet == "idle"

\* Nothing came for 50 ms.
SkipDone ==
  /\ step = "skip" /\ ~uart_down /\ uart = <<>>
  /\ step' = AfterQuiet
  /\ UNCHANGED <<request, buffer, delivered, uart, slaveVars, flags>>

\* The loops of the read and of the collector end when the flag is set.
Stop ==
  /\ shutdown_flag /\ step \in {"idle", "wait"}
  /\ step' = "stopped"
  /\ UNCHANGED <<request, buffer, delivered, uart, slaveVars, flags>>

SetShutdownFlag ==
  /\ ~shutdown_flag
  /\ shutdown_flag' = TRUE
  /\ UNCHANGED <<masterVars, uart, slaveVars, uart_down>>

UartFailsOrRecovers ==
  /\ uart_down' = ~uart_down
  /\ UNCHANGED <<masterVars, uart, slaveVars, shutdown_flag>>

Master == BuildRequest \/ WriteRequest \/ ReadAvailable \/ CheckAnswer
            \/ Timeout \/ SkipData \/ SkipDone \/ Stop
Next == Master \/ SelectFails \/ SendPiece \/ GiveUp \/ SetShutdownFlag
          \/ UartFailsOrRecovers

\* The thread of the master is scheduled; select() has its timeouts.
Spec == Init /\ [][Next]_vars /\ WF_vars(Master)

-----------------------------------------------------------------------------
(* Properties.                                                             *)

\* What a request is given is one whole answer, each answer is given at most
\* once, and answers are given in the order of their requests, whatever was
\* late, lost, damaged or left over (modbus_rtu_read_registers), as long as
\* never more than dummy_buffer holds is read into it: from then on nothing
\* is said, which is what the step "overrun" stands for.
AnswersInOrder ==
  /\ TypeOK
  /\ \A i \in DOMAIN delivered :
       /\ delivered[i][2] <= delivered[i][1]
       /\ i > 1 => delivered[i - 1][2] < delivered[i][2]

\* Once the flag is set the master's thread stops, so that on_shutdown can
\* join it (do_start_modbus_collector), unless the UART fails for ever: the
\* loops that write the request and skip data do not look at the flag.
\* Nothing is said of what an overrun of dummy_buffer leads to.
ShutdownStops ==
  <>[]~uart_down => (shutdown_flag ~> step \in {"stopped", "overrun"})

=============================================================================
