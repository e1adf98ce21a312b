------------------------------ MODULE MCModbus ------------------------------
(***************************************************************************)
(* The Modbus collector on small instances: its loop with the UDP thread,  *)
(* and the line it reads the registers from.                               *)
(*                                                                         *)
(* ModbusCollector runs with a module alone, and with a gateway and oil    *)
(* sensors on one bus.  The clock is ahead at boot: by 4 or 5, which a     *)
(* publication may or may not wait for, depending on the moment, or by 8,  *)
(* which it never does.                                                    *)
(*                                                                         *)
(* ModbusLink runs with answers of two pieces and a buffer that one answer *)
(* and a half fill: an answer can be torn, late, or arrive with the next   *)
(* one.  The two share nothing but the thread, so the line is used once    *)
(* the collector sleeps for the first time, and the collector then stays   *)
(* asleep.  That its clock is then 8 ahead only picks one of the states in  *)
(* which the line could be used.                                           *)
(*                                                                         *)
(* The assumptions check the operators of SerialLine on which the model's  *)
(* line rests.                                                             *)
(***************************************************************************)
EXTENDS ModbusCollector, ModbusLink, SerialLine

EveryType == {<<"module">>, <<"gateway", "oil">>}
WrongClocks(c) == IF Len(c) = 1 THEN {5, 8} ELSE {4}

\* The line has been used.
LineInUse == step # "idle" \/ request > 0 \/ shutdown_flag \/ uart_down
FirstSleep == /\ collector = "asleep" /\ now = 0 /\ udp = "start"
              /\ bad_reads = 0 /\ offset = 8

MCInit == CollectorInit /\ Init
MCNext ==
  \/ ~LineInUse /\ CollectorNext /\ UNCHANGED vars
  \/ FirstSleep /\ Next /\ UNCHANGED collectorVars

\* The fairness of the two specifications.
MCSpec == /\ MCInit /\ [][MCNext]_<<collectorVars, vars>>
          /\ WF_collectorVars((Collect \/ PublishMetrics) /\ UNCHANGED vars)
          /\ WF_collectorVars(HandlePacket /\ UNCHANGED vars)
          /\ WF_vars(LineInUse /\ Master /\ UNCHANGED collectorVars)

\* Whatever is configured and however the UART was left, the line runs with
\* 8 data bits and no parity, as the STM32F407's does: the speed and the
\* number of stop bits are all that a configuration can change (init_uart).
Termios == [bps : {9600}, stop_bits : {1, 2}, parity : BOOLEAN, size : 5 .. 8,
            raw : BOOLEAN]
Configs == [bps : {9600, 115200}, stop_bits : 0 .. 3, parity_bits : {0, 1},
            data_bits : 4 .. 9]
ASSUME UartCheck ==
  \A termios \in Termios, config \in Configs :
    LET line == InitUart(termios, config)
    IN /\ line.size = 8 /\ ~line.parity /\ line.raw
       /\ line.bps = config.bps
       /\ config.stop_bits \in {1, 2} => line.stop_bits = config.stop_bits

\* Every entry of the collector's table, on every byte and behind the bytes of
\* a request, gives the CRC that the STM32F407 and the M4 compute.
Request == <<1, 4, 0, 0, 0, 26>>
ASSUME CrcCheck ==
  /\ Crc16Digest(Request) = Crc16Modbus(Request)
  /\ \A byte \in Bytes : /\ Crc16Digest(<<byte>>) = Crc16Modbus(<<byte>>)
                         /\ Crc16Digest(Request \o <<byte>>)
                              = Crc16Modbus(Request \o <<byte>>)

\* An answer with one damaged byte has another CRC, and a packet with one
\* damaged byte another sum: what SendPiece takes for granted of a damaged
\* piece.
ASSUME DamageCheck ==
  \A i \in 1 .. Len(Request) : \A byte \in Bytes \ {Request[i]} :
    LET damaged == [Request EXCEPT ![i] = byte]
    IN /\ Crc16Modbus(damaged) # Crc16Modbus(Request)
       /\ SumDigest(damaged) # SumDigest(Request)
=============================================================================
