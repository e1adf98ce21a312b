----------------------------- MODULE Demo2Proofs -----------------------------
(***************************************************************************)
(* Proofs about Demo2: the A53 program, A53Pipeline, for lines, sequence   *)
(* numbers and runs of any length; the scripts that publish what it        *)
(* writes, OutboxPublisher, for any number of appends; and the M4 program, *)
(* M4Acquisition, for answers, batches, time-outs and lines on the console *)
(* of any length.                                                          *)
(*                                                                         *)
(* OutboxPublisher: LinesStayUntilSent is lost by the step that empties    *)
(* the file, and says nothing about what a script has sent by then.        *)
(* PublisherInv adds that                                                  *)
(*   - only whole fragments hold lines that count (WholeFragments),        *)
(*   - the whole lines a script has passed were sent, but for the one it   *)
(*     is sending (PassedAreSent).                                         *)
(* A text that is sent ends at the first newline, so that no whole line is *)
(* hidden in it: that is what the minimum in TextEnd is for.               *)
(*                                                                         *)
(* A53Pipeline: that the outputs are nested is lost by a recovery, which   *)
(* cuts the storage file.  PipelineInv counts only the lines up to what    *)
(* the cursor would keep (OutputsAreBacked) and the line that is on its    *)
(* way from one output to the next; the line that the next cursor will     *)
(* describe is whole when the old one is emptied (LineIsWritten).          *)
(*                                                                         *)
(* M4Acquisition: M4Inv gives the pieces of all answers one order, which   *)
(* what is read, what waits in the receiver and what the wheel board still *)
(* sends keep (PiecesInOrder, SlaveIsBehind); it says which samples are in *)
(* each buffer (BatchesAreFilled); and it bounds the time at every step of *)
(* the loop, with the tick that is not yet waited for (WaitIsShort,        *)
(* ReadIsShort).                                                           *)
(***************************************************************************)
EXTENDS A53Pipeline, OutboxPublisher, M4Acquisition, SequenceTheorems,
        FiniteSetTheorems, TLAPS

-----------------------------------------------------------------------------
(* M4Acquisition.                                                          *)

\* The requests that have been sent, and what the engine accepted last.
Asked == IF loop = "write" THEN try - 1 ELSE try
LastAccepted ==
  IF accepted = <<>> THEN 0 ELSE accepted[Len(accepted)].answer

LoopInv ==
  /\ loop \in {"observe", "compare", "before_wfi", "asleep", "tick", "write",
               "read", "parse", "consume", "console"}
  /\ g_tick_count \in Times /\ observed \in Times
  /\ interrupted \in BOOLEAN /\ initialized \in BOOLEAN
  /\ line_busy \in BOOLEAN
  /\ try \in 0 .. MaxTries
  /\ timestamp_us \in Times /\ start_us \in Times
  /\ loop \in {"compare", "before_wfi", "asleep", "tick"} => try < MaxTries
  /\ loop \in {"write", "read", "parse"} => try > 0

\* Pieces come in this order.
Earlier(p, q) ==
  \/ p.answer < q.answer
  \/ p.answer = q.answer /\ p.index < q.index

\* The piece that the wheel board sends next.
NextPiece == [answer |-> slave.answer, index |-> slave.sent + 1]

Answer == [answer : 0 .. MaxTries, sent : 0 .. Pieces, kind : Kinds]

TransportTypes ==
  /\ data \in Seq(Piece) /\ Len(data) <= Capacity
  /\ expected_length \in 0 .. Capacity
  /\ uart \in Seq(Piece) /\ Len(uart) <= FifoPieces
  /\ overrun \in BOOLEAN
  /\ slave \in Answer
  /\ loop \notin {"read", "parse"} => data = <<>>
  /\ loop = "read" /\ data # <<>> => Len(data) < expected_length

PiecesInOrder ==
  /\ \A i, j \in 1 .. Len(uart) : i < j => Earlier(uart[i], uart[j])
  /\ \A i \in 1 .. Len(data), j \in 1 .. Len(uart) : Earlier(data[i], uart[j])

PiecesAreNew ==
  /\ \A j \in 1 .. Len(uart) : uart[j].answer \in LastAccepted + 1 .. Asked
  /\ \A i \in 1 .. Len(data) :
       /\ data[i].answer <= Asked
       /\ data[i].intact => data[i].answer > LastAccepted
  /\ LastAccepted \in 0 .. Asked

\* The answer that is on its way follows everything that has arrived.
SlaveIsBehind ==
  slave # NoAnswer =>
    /\ slave.sent < PiecesOf(slave.kind)
    /\ slave.answer \in LastAccepted + 1 .. Asked
    /\ \A j \in 1 .. Len(uart) : Earlier(uart[j], NextPiece)
    /\ \A i \in 1 .. Len(data) : Earlier(data[i], NextPiece)

AcceptedInOrder ==
  \A i \in DOMAIN accepted :
    /\ accepted[i].answer \in 1 .. accepted[i].try
    /\ i > 1 => accepted[i - 1].answer < accepted[i].answer

TransportInv ==
  /\ TransportTypes /\ PiecesInOrder /\ PiecesAreNew /\ SlaveIsBehind
  /\ AcceptedInOrder

\* Batch b is number k and has its first n samples.
Holds(b, k, n) ==
  /\ b.sequence = k
  /\ b.start_timestamp_us = accepted[k * BatchSamples + 1].time
  /\ \A i \in 1 .. n : b.samples[i] = accepted[k * BatchSamples + i]

EngineTypes ==
  /\ current_batch \in Batch /\ ready_batch \in Batch
  /\ sample_index \in 0 .. BatchSamples - 1
  /\ batch_ready \in BOOLEAN /\ (batch_ready <=> loop = "consume")
  /\ accepted \in Seq(Sample) /\ printed \in Seq(Batch)
  /\ Len(accepted) <= IF loop \in {"write", "read", "parse"} THEN try - 1
                                                             ELSE try

BatchesAreFilled ==
  /\ next_sequence = Len(printed) + (IF loop = "consume" THEN 1 ELSE 0)
  /\ loop = "consume" => /\ sample_index = 0
                         /\ Holds(ready_batch, Len(printed), BatchSamples)
  /\ sample_index > 0 => Holds(current_batch, Len(printed), sample_index)

EngineInv == EngineTypes /\ BatchesAreFilled /\ BatchesHoldEverySample

\* Ticks since the loop began to wait.
Missed == IF g_tick_count >= observed THEN g_tick_count - observed
          ELSE g_tick_count - observed + TickModulus
OneMore == IF interrupted THEN 1 ELSE 0

\* The longest time from the start of a try to the end of its time-out.
Slowest == WriteTicks + Timeout

\* How late the loop can be, step by step.
WaitIsShort ==
  /\ loop = "observe" => since_try <= Slowest + ConsoleTicks + 3 + OneMore
  /\ loop = "compare" =>
       \/ /\ Missed <= OneMore
          /\ since_try <= Slowest + ConsoleTicks + 3 + OneMore
       \/ /\ Missed \in 1 .. 2 + OneMore
          /\ since_try <= Slowest + ConsoleTicks + 5 + OneMore
  /\ loop = "before_wfi" =>
       /\ Missed <= OneMore
       /\ since_try <= Slowest + ConsoleTicks + 3 + OneMore
  /\ loop = "asleep" =>
       Missed <= 1 /\ since_try <= Slowest + ConsoleTicks + 4 /\ ~interrupted
  /\ loop = "tick" => since_try <= Slowest + ConsoleTicks + 5 + OneMore

ReadIsShort ==
  /\ loop = "write" => since_try <= blocked_ticks + OneMore
  /\ loop = "write" /\ PuttingOut => since_try <= blocked_ticks
  /\ loop = "read" =>
       \/ /\ ~TimedOut
          /\ since_try <= WriteTicks + (IF g_tick_count = 0 THEN 1
                                       ELSE 2 + (Now - start_us))
       \/ /\ TimedOut
          /\ since_try <= Slowest + 3 + OneMore
          /\ \/ start_us > 0 /\ g_tick_count <= OneMore
             \/ start_us <= Now /\ Now - start_us <= Timeout + 1 + OneMore
  /\ loop \in {"parse", "consume"} => since_try <= Slowest + 2 + OneMore
  /\ loop = "console" => since_try <= Slowest + 3 + blocked_ticks + OneMore
  /\ loop = "console" /\ blocked_ticks < ConsoleTicks =>
       since_try <= Slowest + 3 + blocked_ticks

PaceInv ==
  /\ blocked_ticks \in Nat /\ blocked_ticks <= Longest /\ since_try \in Nat
  /\ WaitIsShort /\ ReadIsShort

M4Inv == LoopInv /\ TransportInv /\ EngineInv /\ PaceInv

-----------------------------------------------------------------------------
(* The loop and the ticks of M4Acquisition.                                *)

LEMMA DivMod ==
  ASSUME NEW n \in Nat \ {0}, NEW a \in Int
  PROVE  /\ a \div n \in Int
         /\ a % n \in 0 .. n - 1
         /\ a = n * (a \div n) + (a % n)
  OBVIOUS

LEMMA MultiplesApart ==
  ASSUME NEW n \in Nat \ {0}, NEW d \in Int, NEW e \in Int, d > e
  PROVE  n * d >= n * e + n
  OBVIOUS

LEMMA M4Sizes ==
  /\ Pieces \in Nat /\ Pieces >= 2 /\ Capacity \in Nat /\ Capacity >= Pieces
  /\ BatchSamples \in Nat /\ BatchSamples > 0
  /\ Timeout \in Nat /\ WriteTicks \in Nat /\ ConsoleTicks \in Nat
  /\ Slowest \in Nat /\ Slowest = WriteTicks + Timeout
  /\ TickModulus \in Nat /\ TickModulus > Timeout + 4
  /\ FifoPieces \in Nat /\ MaxTries \in Nat
BY PiecesAssumption, CapacityAssumption, BatchAssumption, TimesAssumption,
   TickAssumption, M4BoundsAssumption DEF Slowest

LEMMA NextTick ==
  ASSUME NEW g \in Times
  PROVE  /\ (g + 1) % TickModulus \in Times
         /\ (g + 1) % TickModulus = IF g + 1 = TickModulus THEN 0 ELSE g + 1
<1> DEFINE n == TickModulus
           a == g + 1
           q == a \div n
           r == a % n
<1>1. n \in Nat \ {0} /\ a \in 1 .. n
  <2>1. TickModulus \in Nat \ {0}
    BY M4Sizes
  <2> QED
    BY <2>1 DEF Times
<1> HIDE DEF n, a
<1>2. q \in Int /\ r \in 0 .. n - 1 /\ a = n * q + r
  <2>1. a \in Int
    BY <1>1
  <2> QED
    BY <1>1, <2>1, DivMod
<1> HIDE DEF q, r
<1>3. n * q \in Int /\ n * 0 = 0 /\ n * 1 = n
  BY <1>1, <1>2
<1>4. q >= 0
  <2>1. SUFFICES ASSUME 0 > q PROVE FALSE
    BY <1>2
  <2>2. n * 0 >= n * q + n
    BY <1>1, <1>2, <2>1, MultiplesApart
  <2> QED
    BY <1>1, <1>2, <1>3, <2>2
<1>5. q <= 1
  <2>1. SUFFICES ASSUME q > 1 PROVE FALSE
    BY <1>2
  <2>2. n * q >= n * 1 + n
    BY <1>1, <1>2, <2>1, MultiplesApart
  <2> QED
    BY <1>1, <1>2, <1>3, <2>2
<1>6. q = 0 \/ q = 1
  BY <1>2, <1>4, <1>5
<1>7. r = IF a = n THEN 0 ELSE a
  <2>1. CASE q = 0
    BY <1>1, <1>2, <1>3, <2>1
  <2>2. CASE q = 1
    BY <1>1, <1>2, <1>3, <2>2
  <2> QED
    BY <1>6, <2>1, <2>2
<1> QED
  BY <1>2, <1>7 DEF n, a, r, Times

LEMMA NowIsATime == \A g \in Times : NowAt(g) \in Times
BY M4Sizes DEF Times, NowAt

LEMMA LoopNext ==
  ASSUME LoopInv, [M4Next]_m4Vars PROVE LoopInv'
<1> USE M4Sizes DEF LoopInv
<1>1. 0 \in Times /\ Now \in Times
  BY NowIsATime DEF Now, Times
<1>2. CASE UNCHANGED m4Vars
  BY <1>2 DEF m4Vars, tickVars, transportVars
<1>3. CASE SysTick
  <2>1. g_tick_count' \in Times
    BY <1>3, NextTick DEF SysTick
  <2>2. interrupted' \in BOOLEAN /\ line_busy' \in BOOLEAN
    BY <1>3 DEF SysTick, Waiting, PuttingOut
  <2> QED
    BY <1>3, <2>1, <2>2 DEF SysTick, transportVars
<1>4. CASE SendPiece
  BY <1>4 DEF SendPiece, transportVars
<1>5. CASE Observe
  BY <1>5 DEF Observe, tickVars, transportVars
<1>6. CASE Compare
  BY <1>1, <1>6 DEF Compare, tickVars, transportVars
<1>7. CASE WaitForInterrupt
  BY <1>7 DEF WaitForInterrupt, transportVars
<1>8. CASE BeginTry
  BY <1>1, <1>8 DEF BeginTry, transportVars
<1>9. CASE WriteRequest
  BY <1>1, <1>9 DEF WriteRequest, transportVars
<1>10. CASE ReadPiece
  <2>1. interrupted' \in BOOLEAN
    BY <1>10 DEF ReadPiece
  <2>2. start_us' \in Times /\ loop' \in {"parse", "read", "observe"}
    BY <1>1, <1>10 DEF ReadPiece, ReadReturns
  <2> QED
    BY <1>10, <2>1, <2>2 DEF ReadPiece
<1>11. CASE TimeOut
  BY <1>1, <1>11 DEF TimeOut, ReadReturns, tickVars
<1>12. CASE EngineTick
  <2>1. loop' \in {"observe", "consume"}
    BY <1>12 DEF EngineTick, AddSample
  <2> QED
    BY <1>1, <1>12, <2>1 DEF EngineTick, ReadReturns, tickVars
<1>13. CASE ConsumeBatch
  BY <1>13 DEF ConsumeBatch, tickVars, transportVars
<1>14. CASE ConsoleDone
  BY <1>14 DEF ConsoleDone, tickVars, transportVars
<1> QED
  BY <1>2, <1>3, <1>4, <1>5, <1>6, <1>7, <1>8, <1>9, <1>10, <1>11, <1>12,
     <1>13, <1>14 DEF M4Next, MainLoop

\* Time goes on while the loop waits, and once while it does not.
LEMMA TickPace ==
  ASSUME LoopInv, PaceInv, SysTick PROVE PaceInv'
<1> USE M4Sizes
<1>1. /\ g_tick_count \in Times /\ observed \in Times /\ start_us \in Times
      /\ interrupted \in BOOLEAN /\ interrupted' = ~Waiting
      /\ interrupted => Waiting
      /\ since_try \in Nat /\ since_try' \in {since_try, since_try + 1}
      /\ UNCHANGED <<observed, start_us>>
      /\ blocked_ticks \in Nat /\ blocked_ticks <= Longest
      /\ blocked_ticks' = IF PuttingOut THEN blocked_ticks + 1
                          ELSE blocked_ticks
  BY DEF LoopInv, PaceInv, SysTick, transportVars
<1>2. g_tick_count' \in Times
      /\ g_tick_count' = IF g_tick_count + 1 = TickModulus THEN 0
                         ELSE g_tick_count + 1
  BY <1>1, NextTick DEF SysTick
<1>3. WaitIsShort'
  <2>1. loop' = IF loop = "asleep" THEN "compare" ELSE loop
    BY DEF SysTick
  <2>2. loop \notin {"read", "write", "console", "asleep"}
          => OneMore = 0 /\ OneMore' = 1
    BY <1>1 DEF Waiting, PuttingOut, OneMore
  <2>3. loop = "asleep" => Waiting
    BY DEF Waiting
  <2>4. Missed' = Missed + 1 \/ (Missed' = 0 /\ Missed = TickModulus - 1)
    <3>1. /\ g_tick_count \in Times /\ observed \in Times /\ observed' = observed
      BY <1>1
    <3> QED
      BY <1>2, <3>1 DEF Missed, Times
  <2>5. Missed \in Nat
    BY <1>1 DEF Missed, Times
  <2>6. loop' = "observe" => since_try' <= Slowest + ConsoleTicks + 3 + OneMore'
    <3>1. SUFFICES ASSUME loop' = "observe"
                   PROVE  since_try' <= Slowest + ConsoleTicks + 3 + OneMore'
      OBVIOUS
    <3>2. loop = "observe" /\ OneMore = 0 /\ OneMore' = 1
      BY <2>1, <2>2, <3>1
    <3>3. since_try <= Slowest + ConsoleTicks + 3
      BY <1>1, <3>2 DEF PaceInv, WaitIsShort
    <3> QED
      BY <1>1, <3>2, <3>3
  <2>7. loop' = "before_wfi" =>
          /\ Missed' <= OneMore'
          /\ since_try' <= Slowest + ConsoleTicks + 3 + OneMore'
    BY <1>1, <2>1, <2>2, <2>4, <2>5 DEF PaceInv, WaitIsShort, OneMore
  <2>8. loop' # "asleep"
    BY <2>1
  <2>9. loop' = "tick" => since_try' <= Slowest + ConsoleTicks + 5 + OneMore'
    <3>1. SUFFICES ASSUME loop' = "tick"
                   PROVE  since_try' <= Slowest + ConsoleTicks + 5 + OneMore'
      OBVIOUS
    <3>2. loop = "tick" /\ OneMore = 0 /\ OneMore' = 1
      BY <2>1, <2>2, <3>1
    <3>3. since_try <= Slowest + ConsoleTicks + 5
      BY <1>1, <3>2 DEF PaceInv, WaitIsShort
    <3> QED
      BY <1>1, <3>2, <3>3
  <2>10. loop' = "compare" =>
           \/ /\ Missed' <= OneMore'
              /\ since_try' <= Slowest + ConsoleTicks + 3 + OneMore'
           \/ /\ Missed' \in 1 .. 2 + OneMore'
              /\ since_try' <= Slowest + ConsoleTicks + 5 + OneMore'
    <3>1. CASE loop = "asleep"
      <4>1. Missed' \in 1 .. 2 /\ OneMore' = 0
        BY <1>1, <2>3, <2>4, <2>5, <3>1 DEF PaceInv, WaitIsShort, OneMore
      <4>2. since_try' <= Slowest + ConsoleTicks + 5
        BY <1>1, <3>1 DEF PaceInv, WaitIsShort
      <4> QED
        BY <4>1, <4>2
    <3>2. CASE loop = "compare"
      <4>1. OneMore = 0 /\ OneMore' = 1
        BY <2>2, <3>2
      <4> QED
        BY <1>1, <2>4, <2>5, <3>2, <4>1 DEF PaceInv, WaitIsShort
    <3> QED
      BY <2>1, <3>1, <3>2
  <2> QED
    BY <2>6, <2>7, <2>8, <2>9, <2>10 DEF WaitIsShort
<1>4. ReadIsShort'
  <2>1. CASE loop = "read"
    <3>1. loop' = "read"
      BY <2>1 DEF SysTick
    <3>2. Now \in Times /\ Now' \in Times
          /\ Now = (IF g_tick_count = 0 THEN 0 ELSE g_tick_count - 1)
          /\ Now' = (IF g_tick_count' = 0 THEN 0 ELSE g_tick_count' - 1)
      BY <1>1, <1>2, NowIsATime DEF Now, NowAt
    <3>3. CASE ~TimedOut
      BY <1>1, <1>2, <2>1, <3>1, <3>2, <3>3
      DEF PaceInv, ReadIsShort, TimedOut, OneMore, Times
    <3>4. CASE TimedOut
      <4>1. OneMore = 0 /\ OneMore' = 1
        BY <1>1, <2>1, <3>4 DEF OneMore, Waiting, PuttingOut
      <4> QED
        BY <1>1, <1>2, <2>1, <3>1, <3>2, <3>4, <4>1
        DEF PaceInv, ReadIsShort, TimedOut, Times
    <3> QED
      BY <3>3, <3>4
  <2>2. CASE loop = "console"
    <3>1. loop' = "console" /\ since_try' = since_try + 1
      BY <2>2 DEF SysTick
    <3>2. CASE blocked_ticks < ConsoleTicks
      <4>1. blocked_ticks' = blocked_ticks + 1
        BY <1>1, <2>2, <3>2 DEF PuttingOut, Longest
      <4>2. since_try <= Slowest + 3 + blocked_ticks
        BY <2>2, <3>2 DEF PaceInv, ReadIsShort
      <4>3. since_try' <= Slowest + 3 + blocked_ticks'
        BY <1>1, <3>1, <4>1, <4>2
      <4>4. /\ OneMore' = 0 \/ OneMore' = 1
            /\ blocked_ticks' \in Int /\ since_try' \in Int
        BY <1>1, <4>1 DEF OneMore
      <4>5. since_try' <= Slowest + 3 + blocked_ticks' + OneMore'
        <5>1. OneMore' >= 0
          BY <4>4
        <5>2. OneMore' \in Int
          BY <4>4
        <5>3. \A a, b, c, m \in Int :
                a <= b + 3 + c /\ m >= 0 => a <= b + 3 + c + m
          OBVIOUS
        <5>4. since_try' \in Int /\ Slowest \in Int /\ blocked_ticks' \in Int
          BY <4>4
        <5> HIDE M4Sizes
        <5> QED
          BY <4>3, <5>1, <5>2, <5>3, <5>4, Zenon
      <4> QED
        BY <3>1, <4>3, <4>5 DEF ReadIsShort
    <3>3. CASE ~(blocked_ticks < ConsoleTicks)
      <4>1. blocked_ticks' = blocked_ticks
        BY <1>1, <2>2, <3>3 DEF PuttingOut, Longest
      <4>2. OneMore = 0 /\ OneMore' = 1
        BY <1>1, <2>2, <3>3 DEF Waiting, PuttingOut, Longest, OneMore
      <4>3. since_try <= Slowest + 3 + blocked_ticks
        BY <1>1, <2>2, <4>2 DEF PaceInv, ReadIsShort
      <4>4. since_try' <= Slowest + 3 + blocked_ticks' + OneMore'
        BY <1>1, <3>1, <4>1, <4>2, <4>3
      <4> QED
        BY <3>1, <3>3, <4>1, <4>4 DEF ReadIsShort
    <3> QED
      BY <3>2, <3>3
  <2>3. CASE loop \in {"parse", "consume"}
    <3>1. loop' = loop
      BY <2>3 DEF SysTick
    <3>2. OneMore = 0 /\ OneMore' = 1
      BY <1>1, <2>3 DEF Waiting, PuttingOut, OneMore
    <3> QED
      BY <1>1, <2>3, <3>1, <3>2 DEF PaceInv, ReadIsShort
  <2>5. CASE loop = "write"
    <3>1. loop' = "write" /\ UNCHANGED initialized
      BY <2>5 DEF SysTick
    <3>2. CASE PuttingOut
      <4>1. Waiting /\ blocked_ticks' = blocked_ticks + 1
        BY <1>1, <3>2 DEF Waiting
      <4>2. since_try <= blocked_ticks /\ OneMore' = 0
        BY <1>1, <2>5, <3>2, <4>1 DEF PaceInv, ReadIsShort, OneMore
      <4>3. since_try' <= blocked_ticks'
        BY <1>1, <4>1, <4>2
      <4> QED
        BY <1>1, <3>1, <4>1, <4>2, <4>3 DEF ReadIsShort
    <3>3. CASE ~PuttingOut
      <4>1. OneMore = 0 /\ OneMore' = 1 /\ blocked_ticks' = blocked_ticks
        BY <1>1, <2>5, <3>3 DEF Waiting, OneMore
      <4>2. ~PuttingOut'
        BY <2>5, <3>1, <3>3, <4>1 DEF PuttingOut, Longest
      <4> QED
        BY <1>1, <2>5, <3>1, <4>1, <4>2 DEF PaceInv, ReadIsShort
    <3> QED
      BY <3>2, <3>3
  <2>4. CASE loop \notin {"read", "console", "write", "parse", "consume"}
    <3>1. loop' \notin {"read", "console", "write", "parse", "consume"}
      BY <2>4 DEF SysTick
    <3> QED
      BY <3>1 DEF ReadIsShort
  <2> QED
    BY <2>1, <2>2, <2>3, <2>4, <2>5
<1>5. blocked_ticks' \in Nat /\ blocked_ticks' <= Longest'
  BY <1>1 DEF SysTick, PuttingOut, Longest
<1>6. since_try' \in Nat
  BY <1>1
<1> QED
  BY <1>3, <1>4, <1>5, <1>6 DEF PaceInv

LEMMA PaceNext ==
  ASSUME LoopInv, PaceInv, [M4Next]_m4Vars PROVE PaceInv'
<1> USE M4Sizes
<1>1. /\ OneMore \in 0 .. 1 /\ OneMore' \in 0 .. 1
      /\ since_try \in Nat /\ blocked_ticks \in Nat
      /\ blocked_ticks <= Longest
      /\ Longest = IF loop = "write" THEN WriteTicks
                   ELSE IF loop = "console" THEN ConsoleTicks ELSE 0
      /\ Longest' = IF loop' = "write" THEN WriteTicks
                    ELSE IF loop' = "console" THEN ConsoleTicks ELSE 0
  BY DEF OneMore, PaceInv, Longest
<1> DEFINE Waits == UNCHANGED <<loop, g_tick_count, interrupted, observed,
                                start_us, since_try, blocked_ticks,
                                initialized>>
<1>2. CASE Waits
  BY <1>2 DEF PaceInv, WaitIsShort, ReadIsShort, Missed, OneMore, Now, NowAt,
              TimedOut, PuttingOut, Longest
<1>3. CASE UNCHANGED m4Vars
  BY <1>2, <1>3 DEF m4Vars, tickVars, transportVars
<1>4. CASE SysTick
  BY <1>4, TickPace
<1>5. CASE SendPiece
  BY <1>2, <1>5 DEF SendPiece, transportVars
<1>6. CASE Observe
  <2>1. /\ loop = "observe" /\ loop' = "compare" /\ observed' = g_tick_count
        /\ UNCHANGED <<g_tick_count, interrupted, since_try, blocked_ticks>>
    BY <1>6 DEF Observe, tickVars
  <2>2. Missed' = 0 /\ OneMore' = OneMore
    BY <2>1 DEF Missed, OneMore, LoopInv, Times
  <2> QED
    BY <1>1, <2>1, <2>2 DEF PaceInv, WaitIsShort, ReadIsShort
<1>7. CASE Compare
  <2>1. /\ loop = "compare"
        /\ UNCHANGED <<g_tick_count, interrupted, since_try, blocked_ticks>>
        /\ OneMore' = OneMore
    BY <1>7 DEF Compare, tickVars, OneMore
  <2>2. CASE observed = g_tick_count
    <3>1. Missed = 0 /\ loop' = "before_wfi" /\ Missed' = Missed
      BY <1>7, <2>1, <2>2 DEF Compare, Missed, LoopInv, Times
    <3> QED
      BY <1>1, <2>1, <3>1 DEF PaceInv, WaitIsShort, ReadIsShort
  <2>3. CASE observed # g_tick_count
    <3>1. loop' = "tick"
      BY <1>7, <2>3 DEF Compare
    <3> QED
      BY <1>1, <2>1, <3>1 DEF PaceInv, WaitIsShort, ReadIsShort
  <2> QED
    BY <2>2, <2>3
<1>8. CASE WaitForInterrupt
  <2>1. /\ loop = "before_wfi" /\ loop' = "asleep" /\ interrupted' = FALSE
        /\ UNCHANGED <<g_tick_count, observed, since_try, blocked_ticks>>
        /\ Missed' = Missed
    BY <1>8 DEF WaitForInterrupt, Missed
  <2>2. Missed <= OneMore /\ since_try <= Slowest + ConsoleTicks + 3 + OneMore
    BY <2>1 DEF PaceInv, WaitIsShort
  <2>3. Missed' <= 1 /\ since_try' <= Slowest + ConsoleTicks + 4
    <3>1. Missed \in Int
      BY DEF LoopInv, Missed, Times
    <3> QED
      BY <1>1, <2>1, <2>2, <3>1
  <2>4. WaitIsShort'
    BY <2>1, <2>3 DEF WaitIsShort
  <2> QED
    BY <1>1, <2>1, <2>4 DEF PaceInv, ReadIsShort
<1>9. CASE BeginTry
  <2>1. /\ loop = "tick" /\ loop' = "write" /\ since_try' = 0
        /\ blocked_ticks = 0 /\ blocked_ticks' = 0
    BY <1>1, <1>9 DEF BeginTry
  <2>2. WaitIsShort'
    BY <2>1 DEF WaitIsShort
  <2>3. since_try' <= blocked_ticks' + OneMore' /\ since_try' <= blocked_ticks'
    <3>1. \A m \in 0 .. 1 : 0 <= 0 + m /\ 0 <= 0
      OBVIOUS
    <3>2. 0 <= 0 + OneMore' /\ 0 <= 0
      BY <1>1, <3>1
    <3> QED
      BY ONLY <2>1, <3>2
  <2>4. ReadIsShort'
    BY <2>1, <2>3 DEF ReadIsShort
  <2> QED
    BY <1>1, <2>1, <2>2, <2>4 DEF PaceInv
<1>10. CASE WriteRequest
  <2>1. /\ loop = "write" /\ UNCHANGED <<g_tick_count, interrupted, since_try>>
        /\ blocked_ticks' = 0
        /\ OneMore' = OneMore
    BY <1>10 DEF WriteRequest, OneMore
  <2>2. CASE loop' = "observe"
    BY <1>1, <2>1, <2>2 DEF PaceInv, WaitIsShort, ReadIsShort
  <2>3. CASE loop' = "read"
    <3>1. start_us' = Now /\ Now' = Now
      BY <1>10, <2>1, <2>3 DEF WriteRequest, Now
    <3>2. Now \in Nat
      BY NowIsATime DEF LoopInv, Now, Times
    <3>3. ~TimedOut'
      BY <3>1, <3>2 DEF TimedOut
    <3> QED
      BY <1>1, <2>1, <2>3, <3>1, <3>2, <3>3 DEF PaceInv, WaitIsShort, ReadIsShort
  <2> QED
    BY <1>10, <2>2, <2>3 DEF WriteRequest
<1>11. CASE ReadPiece
  <2>1. /\ loop = "read" /\ ~TimedOut
        /\ UNCHANGED <<g_tick_count, observed, since_try, blocked_ticks>>
        /\ Now' = Now /\ blocked_ticks = 0
    BY <1>1, <1>11 DEF ReadPiece, Now
  <2>2. since_try <= 2 + Slowest
        /\ since_try <= WriteTicks + (IF g_tick_count = 0 THEN 1
                                      ELSE 2 + (Now - start_us))
    <3>1. Now \in Nat /\ start_us \in Nat
      BY NowIsATime DEF LoopInv, Now, Times
    <3> QED
      BY <1>1, <2>1, <3>1 DEF PaceInv, ReadIsShort, TimedOut
  <2>3. CASE loop' = "read"
    <3>1. UNCHANGED start_us
      BY <1>11, <2>3 DEF ReadPiece
    <3>2. ~TimedOut'
      BY <2>1, <3>1 DEF TimedOut
    <3> QED
      BY <1>1, <2>1, <2>2, <2>3, <3>1, <3>2 DEF PaceInv, WaitIsShort, ReadIsShort
  <2>4. since_try' <= Slowest + 2 + OneMore'
        /\ since_try' <= Slowest + ConsoleTicks + 3 + OneMore'
    <3>1. since_try <= 2 + Slowest
      BY <2>2
    <3>2. since_try' = since_try /\ (OneMore' = 0 \/ OneMore' = 1)
      BY <1>1, <2>1
    <3>3. since_try' \in Int /\ since_try' <= 2 + Slowest
      BY <1>1, <3>1, <3>2
    <3> QED
      BY <3>2, <3>3
  <2>5. CASE loop' = "parse" \/ loop' = "observe"
    <3>1. since_try' \in Nat /\ blocked_ticks' = 0 /\ Longest' = 0
      BY <1>1, <2>1, <2>5
    <3>2. WaitIsShort' /\ ReadIsShort'
      BY <2>4, <2>5 DEF WaitIsShort, ReadIsShort
    <3> QED
      BY <3>1, <3>2 DEF PaceInv
  <2> QED
    BY <1>11, <2>3, <2>5 DEF ReadPiece
<1>12. CASE TimeOut
  BY <1>1, <1>12 DEF TimeOut, tickVars, OneMore, PaceInv, WaitIsShort,
                     ReadIsShort, PuttingOut
<1>13. CASE EngineTick
  <2>1. loop = "parse" /\ loop' \in {"observe", "consume"}
        /\ UNCHANGED <<interrupted, since_try, blocked_ticks>>
        /\ OneMore' = OneMore
    BY <1>13 DEF EngineTick, AddSample, tickVars, OneMore
  <2> QED
    BY <1>1, <2>1 DEF PaceInv, WaitIsShort, ReadIsShort
<1>14. CASE ConsumeBatch
  <2>1. /\ loop = "consume" /\ loop' = "console"
        /\ blocked_ticks = 0 /\ blocked_ticks' = 0
        /\ UNCHANGED <<interrupted, since_try>> /\ OneMore' = OneMore
    BY <1>1, <1>14 DEF ConsumeBatch, tickVars, OneMore
  <2> QED
    BY <1>1, <2>1 DEF PaceInv, WaitIsShort, ReadIsShort
<1>15. CASE ConsoleDone
  <2>1. /\ loop = "console" /\ loop' = "observe" /\ OneMore' = OneMore
        /\ UNCHANGED <<interrupted, since_try>> /\ blocked_ticks' = 0
    BY <1>15 DEF ConsoleDone, OneMore
  <2> QED
    BY <1>1, <2>1 DEF PaceInv, WaitIsShort, ReadIsShort
<1> QED
  BY <1>3, <1>4, <1>5, <1>6, <1>7, <1>8, <1>9, <1>10, <1>11, <1>12,
     <1>13, <1>14, <1>15 DEF M4Next, MainLoop

-----------------------------------------------------------------------------
(* The pieces of the answers.                                              *)

LEMMA PieceFacts ==
  ASSUME NEW p \in Piece
  PROVE  /\ p.answer \in 0 .. MaxTries /\ p.index \in 1 .. Pieces
         /\ p.kind \in Kinds /\ p.intact \in BOOLEAN
BY DEF Piece

LEMMA StaleByteIsAPiece == StaleByte \in Piece
BY M4Sizes DEF StaleByte, Piece, Kinds

LEMMA KindsHavePieces ==
  \A k \in Kinds : PiecesOf(k) \in 1 .. Pieces
BY M4Sizes DEF PiecesOf

LEMMA TransportKept ==
  ASSUME TransportInv, LoopInv,
         UNCHANGED <<data, expected_length, uart, overrun, slave, accepted>>,
         Asked' \in Int, Asked <= Asked',
         \/ loop' = loop
         \/ loop \notin {"read", "parse"} /\ loop' \notin {"read", "parse"}
  PROVE  TransportInv'
<1> USE M4Sizes
<1>1. LastAccepted' = LastAccepted /\ NextPiece' = NextPiece
  BY DEF LastAccepted, NextPiece
<1>2. Asked \in Int /\ LastAccepted \in Int
  BY DEF Asked, LoopInv, TransportInv, PiecesAreNew
<1>3. /\ data \in Seq(Piece) /\ uart \in Seq(Piece)
      /\ \A i \in 1 .. Len(uart) : uart[i] \in Piece
      /\ \A i \in 1 .. Len(data) : data[i] \in Piece
  BY ElementOfSeq DEF TransportInv, TransportTypes
<1>4. TransportTypes' /\ PiecesInOrder' /\ AcceptedInOrder'
  BY DEF TransportInv, TransportTypes, PiecesInOrder, AcceptedInOrder
<1>5. PiecesAreNew'
  <2>1. /\ \A j \in 1 .. Len(uart) : uart[j].answer \in Int
        /\ \A j \in 1 .. Len(data) : data[j].answer \in Int
    BY <1>3, PieceFacts
  <2> QED
    BY <1>1, <1>2, <2>1 DEF TransportInv, PiecesAreNew
<1>6. SlaveIsBehind'
  <2>1. slave.answer \in Int
    BY DEF TransportInv, TransportTypes, Answer
  <2> QED
    BY <1>1, <1>2, <2>1 DEF TransportInv, SlaveIsBehind
<1> QED
  BY <1>4, <1>5, <1>6 DEF TransportInv

\* The piece that is sent is the last of all.
LEMMA TransportSend ==
  ASSUME TransportInv, LoopInv, SendPiece PROVE TransportInv'
<1> USE M4Sizes
<1>1. /\ data \in Seq(Piece) /\ uart \in Seq(Piece) /\ Len(uart) \in Nat
      /\ \A i \in 1 .. Len(uart) : uart[i] \in Piece
      /\ \A i \in 1 .. Len(data) : data[i] \in Piece
  BY ElementOfSeq DEF TransportInv, TransportTypes
<1>2. /\ slave # NoAnswer
      /\ slave.sent < PiecesOf(slave.kind)
      /\ slave.answer \in LastAccepted + 1 .. Asked
      /\ \A j \in 1 .. Len(uart) : Earlier(uart[j], NextPiece)
      /\ \A i \in 1 .. Len(data) : Earlier(data[i], NextPiece)
  BY DEF SendPiece, TransportInv, SlaveIsBehind
<1>3. /\ slave \in Answer
      /\ slave.answer \in 0 .. MaxTries /\ slave.sent \in 0 .. Pieces
      /\ slave.kind \in Kinds /\ PiecesOf(slave.kind) \in 1 .. Pieces
  BY KindsHavePieces DEF TransportInv, TransportTypes, Answer
<1>12. slave.sent + 1 \in 1 .. Pieces /\ slave.sent \in Int /\ slave.answer \in Int
  <2>1. slave.sent \in Int /\ slave.sent >= 0 /\ slave.answer \in Int
    BY <1>3
  <2>2. PiecesOf(slave.kind) \in Int /\ PiecesOf(slave.kind) <= Pieces
    BY <1>3
  <2> QED
    BY <1>2, <2>1, <2>2
<1>4. /\ UNCHANGED <<data, expected_length, loop, try, accepted>>
      /\ Asked' = Asked /\ LastAccepted' = LastAccepted
  BY DEF SendPiece, transportVars, engineVars, Asked, LastAccepted
<1>5. Asked \in Int /\ LastAccepted \in Nat
  BY DEF Asked, LoopInv, TransportInv, PiecesAreNew
<1>6. SlaveIsBehind' /\ slave' \in Answer
  <2>1. CASE slave' = NoAnswer
    BY <2>1 DEF SlaveIsBehind, NoAnswer, Kinds, Answer
  <2>2. CASE slave' # NoAnswer
    <3>1. slave' = [slave EXCEPT !.sent = @ + 1]
          /\ slave.sent + 1 # PiecesOf(slave.kind)
      BY <2>2 DEF SendPiece
    <3>2. /\ slave'.answer = slave.answer /\ slave'.sent = slave.sent + 1
          /\ slave'.kind = slave.kind
          /\ slave' \in Answer
      <4>1. slave.sent + 1 \in 0 .. Pieces
        BY <1>12
      <4> QED
        BY <1>3, <3>1, <4>1 DEF Answer
    <3>3. \A p \in Piece : Earlier(p, NextPiece) =>
            \/ p.answer < slave.answer
            \/ p.answer = slave.answer /\ p.index < slave.sent + 1
      BY DEF Earlier, NextPiece
    <3>4. \A p \in Piece :
            (\/ p.answer < slave.answer
             \/ p.answer = slave.answer /\ p.index < slave.sent + 2)
            => Earlier(p, [answer |-> slave'.answer, index |-> slave'.sent + 1])
      BY <1>12, <3>2, PieceFacts DEF Earlier
    <3>7. ASSUME NEW p \in Piece, Earlier(p, NextPiece)
          PROVE  Earlier(p, [answer |-> slave'.answer,
                             index |-> slave'.sent + 1])
      <4>1. p.index \in Int /\ p.answer \in Int
        BY PieceFacts
      <4> QED
        BY <1>12, <3>3, <3>4, <3>7, <4>1
    <3>8. slave'.sent < PiecesOf(slave'.kind)
      <4>1. PiecesOf(slave.kind) \in Int
        BY <1>3
      <4> QED
        BY <1>2, <1>12, <3>1, <3>2, <4>1
    <3>5. ASSUME NEW j \in 1 .. Len(uart')
          PROVE  Earlier(uart'[j], [answer |-> slave'.answer,
                                    index |-> slave'.sent + 1])
      <4>1. CASE uart' = uart
        BY <1>1, <1>2, <3>5, <3>7, <4>1
      <4>2. CASE uart' # uart
        <5>1. PICK q : /\ q \in Piece /\ uart' = Append(uart, q)
                       /\ q.answer = slave.answer /\ q.index = slave.sent + 1
          <6>1. PICK intact \in {TRUE, slave.kind # "data"} :
                  uart' = Append(uart, [answer |-> slave.answer,
                                        index |-> slave.sent + 1,
                                        kind |-> slave.kind,
                                        intact |-> intact])
            BY <4>2 DEF SendPiece
          <6>2. slave.sent + 1 \in 1 .. Pieces /\ intact \in BOOLEAN
            BY <1>12
          <6> QED
            BY <1>3, <6>1, <6>2 DEF Piece
        <5>2. CASE j = Len(uart) + 1
          BY <1>1, <1>12, <3>4, <5>1, <5>2
        <5>3. CASE j \in 1 .. Len(uart)
          <6>1. uart'[j] = uart[j]
            BY <1>1, <5>1, <5>3
          <6> QED
            BY <1>1, <1>2, <3>7, <5>3, <6>1
        <5> QED
          BY <1>1, <3>5, <5>1, <5>2, <5>3
      <4> QED
        BY <4>1, <4>2
    <3>6. \A i \in 1 .. Len(data) : Earlier(data[i], [answer |-> slave'.answer,
                                    index |-> slave'.sent + 1])
      BY <1>1, <1>2, <3>7
    <3> QED
      BY <1>2, <1>4, <3>2, <3>5, <3>6, <3>8 DEF SlaveIsBehind, NextPiece
  <2> QED
    BY <2>1, <2>2
<1>7. CASE UNCHANGED <<uart, overrun>>
  BY <1>4, <1>6, <1>7
  DEF TransportInv, TransportTypes, PiecesInOrder, PiecesAreNew,
      AcceptedInOrder
<1>8. CASE overrun' = TRUE /\ UNCHANGED uart
  BY <1>4, <1>6, <1>8
  DEF TransportInv, TransportTypes, PiecesInOrder, PiecesAreNew,
      AcceptedInOrder
<1>9. ASSUME NEW q \in Piece, uart' = Append(uart, q), UNCHANGED overrun,
             Len(uart) < FifoPieces,
             q.answer = slave.answer, q.index = slave.sent + 1
      PROVE  TransportInv'
  <2>1. /\ uart' \in Seq(Piece) /\ Len(uart') = Len(uart) + 1
        /\ uart'[Len(uart) + 1] = q
        /\ \A i \in 1 .. Len(uart) : uart'[i] = uart[i]
    BY <1>1, <1>9
  <2>2. TransportTypes'
    BY <1>1, <1>4, <1>6, <1>9, <2>1 DEF TransportInv, TransportTypes
  <2>3. \A p \in Piece : Earlier(p, NextPiece) => Earlier(p, q)
    BY <1>9 DEF Earlier, NextPiece
  <2>4. PiecesInOrder'
    <3>1. ASSUME NEW i \in 1 .. Len(uart'), NEW j \in 1 .. Len(uart'), i < j
          PROVE  Earlier(uart'[i], uart'[j])
      <4>1. i \in 1 .. Len(uart) /\ j \in 1 .. Len(uart) + 1
        BY <1>1, <2>1, <3>1
      <4>2. CASE j = Len(uart) + 1
        BY <1>1, <1>2, <2>1, <2>3, <4>1, <4>2
      <4>3. CASE j \in 1 .. Len(uart)
        BY <2>1, <3>1, <4>1, <4>3 DEF TransportInv, PiecesInOrder
      <4> QED
        BY <1>1, <4>1, <4>2, <4>3
    <3>2. ASSUME NEW i \in 1 .. Len(data), NEW j \in 1 .. Len(uart')
          PROVE  Earlier(data[i], uart'[j])
      <4>1. CASE j = Len(uart) + 1
        BY <1>1, <1>2, <2>1, <2>3, <4>1
      <4>2. CASE j \in 1 .. Len(uart)
        BY <2>1, <4>2 DEF TransportInv, PiecesInOrder
      <4> QED
        BY <1>1, <2>1, <4>1, <4>2
    <3> QED
      BY <1>4, <3>1, <3>2 DEF PiecesInOrder
  <2>5. PiecesAreNew'
    <3>1. ASSUME NEW j \in 1 .. Len(uart')
          PROVE  uart'[j].answer \in LastAccepted + 1 .. Asked
      <4>1. CASE j = Len(uart) + 1
        BY <1>2, <1>9, <2>1, <4>1
      <4>2. CASE j \in 1 .. Len(uart)
        BY <2>1, <4>2 DEF TransportInv, PiecesAreNew
      <4> QED
        BY <1>1, <2>1, <4>1, <4>2
    <3> QED
      BY <1>4, <3>1 DEF TransportInv, PiecesAreNew
  <2> QED
    BY <1>4, <1>6, <2>2, <2>4, <2>5 DEF TransportInv, AcceptedInOrder
<1>10. CASE \E intact \in {TRUE, slave.kind # "data"} :
              /\ Len(uart) < FifoPieces
              /\ uart' = Append(uart, [answer |-> slave.answer,
                                       index |-> slave.sent + 1,
                                       kind |-> slave.kind,
                                       intact |-> intact])
              /\ UNCHANGED overrun
  <2>1. PICK intact \in {TRUE, slave.kind # "data"} :
              /\ Len(uart) < FifoPieces
              /\ uart' = Append(uart, [answer |-> slave.answer,
                                       index |-> slave.sent + 1,
                                       kind |-> slave.kind,
                                       intact |-> intact])
              /\ UNCHANGED overrun
    BY <1>10
  <2>2. slave.sent + 1 \in 1 .. Pieces /\ intact \in BOOLEAN
    BY <1>12
  <2> DEFINE q == [answer |-> slave.answer, index |-> slave.sent + 1,
                   kind |-> slave.kind, intact |-> intact]
  <2>3. /\ q \in Piece /\ uart' = Append(uart, q)
        /\ q.answer = slave.answer /\ q.index = slave.sent + 1
    BY <1>3, <2>1, <2>2 DEF Piece
  <2> HIDE DEF q
  <2> QED
    BY <1>9, <2>1, <2>3
<1> QED
  BY <1>7, <1>8, <1>10 DEF SendPiece

\* What a read takes is the oldest of what is there, or is damaged.
LEMMA TransportRead ==
  ASSUME TransportInv, LoopInv, ReadPiece PROVE TransportInv'
<1> USE M4Sizes
<1>1. /\ data \in Seq(Piece) /\ uart \in Seq(Piece) /\ Len(uart) \in Nat
      /\ Len(data) \in Nat /\ Len(uart) <= FifoPieces
      /\ \A i \in 1 .. Len(uart) : uart[i] \in Piece
      /\ \A i \in 1 .. Len(data) : data[i] \in Piece
  BY ElementOfSeq DEF TransportInv, TransportTypes
<1>2. /\ UNCHANGED <<try, overrun, slave, accepted>>
      /\ loop = "read" /\ loop' \in {"read", "parse", "observe"}
      /\ Asked' = Asked /\ LastAccepted' = LastAccepted
      /\ NextPiece' = NextPiece
  BY DEF ReadPiece, engineVars, Asked, LastAccepted, NextPiece
<1>3. Asked \in Nat /\ LastAccepted \in 0 .. Asked
  BY <1>2 DEF Asked, LoopInv, TransportInv, PiecesAreNew
<1>4. /\ NextByte \in Piece
      /\ NextByte.answer <= Asked
      /\ NextByte.intact => NextByte.answer > LastAccepted
      /\ \A j \in 1 .. Len(uart') : Earlier(NextByte, uart'[j])
      /\ slave # NoAnswer => Earlier(NextByte, NextPiece)
  <2>1. CASE uart = <<>>
    <3>1. NextByte = StaleByte /\ uart' = <<>>
      BY <2>1 DEF NextByte, ReadPiece
    <3>2. NextByte.answer = 0 /\ NextByte.intact = FALSE
      BY <3>1 DEF StaleByte
    <3>3. slave # NoAnswer => Earlier(NextByte, NextPiece)
      <4>1. slave # NoAnswer => slave.answer > 0
        BY <1>3 DEF TransportInv, SlaveIsBehind
      <4> QED
        BY <3>2, <4>1 DEF Earlier, NextPiece
    <3> QED
      BY <1>3, <3>1, <3>2, <3>3, StaleByteIsAPiece
  <2>2. CASE uart # <<>>
    <3>1. /\ NextByte = uart[1] /\ Len(uart) >= 1
          /\ Len(uart') = Len(uart) - 1
          /\ \A j \in 1 .. Len(uart') : uart'[j] = uart[j + 1]
      BY <1>1, <2>2 DEF NextByte, ReadPiece
    <3>2. /\ 1 \in 1 .. Len(uart)
          /\ \A j \in 1 .. Len(uart') : j + 1 \in 1 .. Len(uart) /\ 1 < j + 1
      BY <1>1, <3>1
    <3>3. NextByte \in Piece
      BY <1>1, <3>1, <3>2
    <3>4. NextByte.answer \in LastAccepted + 1 .. Asked
      BY <3>1, <3>2 DEF TransportInv, PiecesAreNew
    <3>5. slave # NoAnswer => Earlier(NextByte, NextPiece)
      BY <3>1, <3>2 DEF TransportInv, SlaveIsBehind
    <3>6. \A j \in 1 .. Len(uart') : Earlier(NextByte, uart'[j])
      BY <3>1, <3>2 DEF TransportInv, PiecesInOrder
    <3> QED
      BY <1>3, <3>3, <3>4, <3>5, <3>6
  <2> QED
    BY <2>1, <2>2
<1>5. /\ uart' \in Seq(Piece) /\ Len(uart') \in 0 .. Len(uart)
      /\ \A j \in 1 .. Len(uart') :
           \E k \in 1 .. Len(uart) : uart'[j] = uart[k]
      /\ \A i, j \in 1 .. Len(uart') : i < j => Earlier(uart'[i], uart'[j])
  <2>1. CASE uart = <<>>
    BY <1>1, <2>1 DEF ReadPiece
  <2>2. CASE uart # <<>>
    <3>1. /\ uart' = Tail(uart) /\ Len(uart) >= 1
          /\ Len(uart') = Len(uart) - 1 /\ uart' \in Seq(Piece)
          /\ \A j \in 1 .. Len(uart') : uart'[j] = uart[j + 1]
      BY <1>1, <2>2 DEF ReadPiece
    <3>2. \A j \in 1 .. Len(uart') : j + 1 \in 1 .. Len(uart)
      BY <1>1, <3>1
    <3>3. \A i, j \in 1 .. Len(uart') : i < j => Earlier(uart'[i], uart'[j])
      BY <3>1, <3>2 DEF TransportInv, PiecesInOrder
    <3> QED
      BY <1>1, <3>1, <3>2, <3>3
  <2> QED
    BY <2>1, <2>2
<1>6. PICK length \in IF data = <<>> THEN LengthsFrom(NextByte)
                      ELSE {expected_length} :
        IF FitsResponse(length)
        THEN /\ data' = Append(data, NextByte)
             /\ expected_length' = length
             /\ UNCHANGED start_us
             /\ loop' = IF Len(data') = length THEN "parse" ELSE "read"
        ELSE loop' = "observe" /\ ReadReturns
  BY DEF ReadPiece
<1>7. length \in Nat /\ Len(data) < length
  <2>1. CASE data = <<>>
    <3>1. NextByte.kind \in Kinds /\ Len(data) = 0
      BY <1>4, <2>1, PieceFacts
    <3>2. PiecesOf(NextByte.kind) \in 1 .. Pieces
      BY <3>1, KindsHavePieces
    <3>3. length \in LengthsFrom(NextByte)
      BY <1>6, <2>1
    <3>4. length \in {PiecesOf(NextByte.kind)} \cup 1 .. Capacity + 1
      BY <3>3 DEF LengthsFrom
    <3> QED
      BY <3>1, <3>2, <3>4
  <2>2. CASE data # <<>>
    <3>1. length = expected_length
      BY <1>6, <2>2
    <3> QED
      BY <1>2, <2>2, <3>1 DEF TransportInv, TransportTypes
  <2> QED
    BY <2>1, <2>2
<1>8. /\ data' \in Seq(Piece) /\ Len(data') \in 0 .. Capacity
      /\ expected_length' \in 0 .. Capacity
      /\ loop' \notin {"read", "parse"} => data' = <<>>
      /\ loop' = "read" /\ data' # <<>> => Len(data') < expected_length'
      /\ \/ data' = <<>>
         \/ /\ Len(data') = Len(data) + 1
            /\ data'[Len(data) + 1] = NextByte
            /\ \A i \in 1 .. Len(data) : data'[i] = data[i]
  <2>1. CASE FitsResponse(length)
    <3>1. /\ data' = Append(data, NextByte) /\ expected_length' = length
          /\ length <= Capacity
          /\ loop' = IF Len(data') = length THEN "parse" ELSE "read"
      BY <1>6, <2>1 DEF FitsResponse
    <3>2. /\ data' \in Seq(Piece) /\ Len(data') = Len(data) + 1
          /\ data'[Len(data) + 1] = NextByte
          /\ \A i \in 1 .. Len(data) : data'[i] = data[i]
      BY <1>1, <1>4, <3>1
    <3>3. Len(data') <= length
      BY <1>1, <1>7, <3>2
    <3> QED
      BY <1>1, <1>7, <3>1, <3>2, <3>3
  <2>2. CASE ~FitsResponse(length)
    BY <1>6, <2>2 DEF ReadReturns
  <2> QED
    BY <2>1, <2>2
<1>9. ASSUME NEW i \in 1 .. Len(data')
      PROVE  \/ data'[i] = NextByte
             \/ \E k \in 1 .. Len(data) : data'[i] = data[k]
  <2>1. CASE i = Len(data) + 1
    BY <1>8, <1>9, <2>1
  <2>2. CASE i # Len(data) + 1
    <3>1. data' # <<>>
      BY <1>9
    <3>2. i \in 1 .. Len(data)
      BY <1>1, <1>8, <1>9, <2>2, <3>1
    <3> QED
      BY <1>8, <3>1, <3>2
  <2> QED
    BY <2>1, <2>2
<1>10. TransportTypes'
  <2>1. Len(uart') <= FifoPieces
    BY <1>1, <1>5
  <2>2. overrun \in BOOLEAN /\ slave \in Answer
    BY DEF TransportInv, TransportTypes
  <2>3. Answer' = Answer
    OBVIOUS
  <2> QED
    BY <1>2, <1>5, <1>8, <2>1, <2>2 DEF TransportTypes
<1>11. PiecesInOrder'
  <2>1. ASSUME NEW i \in 1 .. Len(data'), NEW j \in 1 .. Len(uart')
        PROVE  Earlier(data'[i], uart'[j])
    <3>1. CASE data'[i] = NextByte
      BY <1>4, <3>1
    <3>2. CASE \E k \in 1 .. Len(data) : data'[i] = data[k]
      BY <1>5, <3>2 DEF TransportInv, PiecesInOrder
    <3> QED
      BY <1>9, <3>1, <3>2
  <2> QED
    BY <1>5, <2>1 DEF PiecesInOrder
<1>12. PiecesAreNew'
  <2>1. ASSUME NEW i \in 1 .. Len(data')
        PROVE  /\ data'[i].answer <= Asked
               /\ data'[i].intact => data'[i].answer > LastAccepted
    BY <1>4, <1>9 DEF TransportInv, PiecesAreNew
  <2> QED
    BY <1>2, <1>3, <1>5, <2>1 DEF TransportInv, PiecesAreNew
<1>13. SlaveIsBehind'
  <2>1. SUFFICES ASSUME slave # NoAnswer PROVE SlaveIsBehind'
    BY <1>2 DEF SlaveIsBehind
  <2>2. ASSUME NEW i \in 1 .. Len(data')
        PROVE  Earlier(data'[i], NextPiece)
    BY <1>4, <1>9, <2>1 DEF TransportInv, SlaveIsBehind
  <2>3. ASSUME NEW j \in 1 .. Len(uart')
        PROVE  Earlier(uart'[j], NextPiece)
    BY <1>5, <2>1 DEF TransportInv, SlaveIsBehind
  <2> QED
    BY <1>2, <2>1, <2>2, <2>3 DEF TransportInv, SlaveIsBehind
<1> QED
  BY <1>2, <1>10, <1>11, <1>12, <1>13 DEF TransportInv, AcceptedInOrder

\* An answer with the CRC ends with its last piece: what follows is newer.
LEMMA TransportEngine ==
  ASSUME TransportInv, LoopInv, accepted \in Seq(Sample), EngineTick
  PROVE  TransportInv'
<1> USE M4Sizes
<1>1. /\ data \in Seq(Piece) /\ uart \in Seq(Piece) /\ Len(uart) \in Nat
      /\ \A i \in 1 .. Len(uart) : uart[i] \in Piece
      /\ \A i \in 1 .. Len(data) : data[i] \in Piece
  BY ElementOfSeq DEF TransportInv, TransportTypes
<1>2. /\ UNCHANGED <<try, uart, overrun, slave>>
      /\ loop = "parse" /\ loop' \in {"observe", "consume"}
      /\ data' = <<>> /\ expected_length' = 0
      /\ Asked = try /\ Asked' = try /\ NextPiece' = NextPiece
  BY DEF EngineTick, AddSample, ReadReturns, lineVars, Asked, NextPiece
<1>3. try \in Nat /\ try > 0 /\ LastAccepted \in 0 .. try
  BY <1>2 DEF LoopInv, TransportInv, PiecesAreNew
<1>4. TransportTypes' /\ PiecesInOrder'
  BY <1>2 DEF TransportInv, TransportTypes, PiecesInOrder
<1>5. CASE UNCHANGED accepted
  <2>1. LastAccepted' = LastAccepted
    BY <1>5 DEF LastAccepted
  <2> QED
    BY <1>2, <1>4, <1>5, <2>1
    DEF TransportInv, PiecesAreNew, SlaveIsBehind, AcceptedInOrder
<1>6. CASE ParseReadResponse(data)
  <2> DEFINE a == data[1].answer
             s == [try |-> try, answer |-> AnswerIn(data),
                   time |-> timestamp_us]
  <2>1. /\ CrcMatches(data) /\ Len(data) = Pieces
        /\ data[1].intact = TRUE
        /\ data[Pieces].answer = a /\ data[Pieces].index = Pieces
    <3>1. CrcMatches(data) /\ data[1].kind = "data"
      BY <1>6 DEF ParseReadResponse
    <3>2. Len(data) = Pieces /\ DOMAIN data = 1 .. Pieces
      <4>1. Len(data) = PiecesOf(data[1].kind)
        BY <3>1 DEF CrcMatches
      <4>2. PiecesOf(data[1].kind) = Pieces
        BY <3>1 DEF PiecesOf
      <4> QED
        BY <1>1, <4>1, <4>2
    <3>3. 1 \in 1 .. Pieces /\ Pieces \in 1 .. Pieces
      OBVIOUS
    <3>4. /\ data[1] = [data[1] EXCEPT !.index = 1, !.intact = TRUE]
          /\ data[Pieces] = [data[1] EXCEPT !.index = Pieces, !.intact = TRUE]
      BY <3>1, <3>2, <3>3 DEF CrcMatches
    <3>5. data[1] \in [answer : 0 .. MaxTries, index : 1 .. Pieces,
                       kind : Kinds, intact : BOOLEAN]
      BY <1>1, <3>2, <3>3 DEF Piece
    <3> QED
      BY <3>1, <3>2, <3>4, <3>5
  <2>2. a \in LastAccepted + 1 .. try /\ a \in Nat
    <3>1. 1 \in 1 .. Len(data) /\ data[1] \in Piece
      BY <1>1, <2>1
    <3>2. a <= try /\ a > LastAccepted
      BY <1>2, <2>1, <3>1 DEF TransportInv, PiecesAreNew
    <3> QED
      BY <1>3, <3>1, <3>2, PieceFacts
  <2>3. accepted' = Append(accepted, s) /\ s.answer = a /\ s.try = try
    BY <1>6, <2>1 DEF EngineTick, AddSample, AnswerIn
  <2>4. Pieces \in 1 .. Len(data)
    BY <2>1
  <2> HIDE DEF a, s
  <2>5. /\ Len(accepted) \in Nat /\ Len(accepted') = Len(accepted) + 1
        /\ accepted'[Len(accepted) + 1] = s
        /\ \A i \in 1 .. Len(accepted) : accepted'[i] = accepted[i]
        /\ DOMAIN accepted' = 1 .. Len(accepted) + 1
        /\ DOMAIN accepted = 1 .. Len(accepted)
    BY <2>3
  <2>6. LastAccepted' = a
    BY <2>3, <2>5 DEF LastAccepted
  <2>7. \A j \in 1 .. Len(uart) : uart[j].answer \in a + 1 .. try
    <3>1. SUFFICES ASSUME NEW j \in 1 .. Len(uart)
                   PROVE  uart[j].answer \in a + 1 .. try
      OBVIOUS
    <3>2. uart[j].answer \in Int /\ uart[j].index \in Int
          /\ uart[j].index <= Pieces /\ uart[j].answer <= try
      <4>1. uart[j] \in Piece
        BY <1>1
      <4> QED
        BY <1>2, <4>1, PieceFacts DEF TransportInv, PiecesAreNew
    <3>3. Earlier(data[Pieces], uart[j])
      BY <2>4 DEF TransportInv, PiecesInOrder
    <3> QED
      BY <2>1, <2>2, <3>2, <3>3 DEF Earlier
  <2>8. PiecesAreNew'
    BY <1>2, <1>3, <2>2, <2>6, <2>7 DEF PiecesAreNew
  <2>9. SlaveIsBehind'
    <3>1. SUFFICES ASSUME slave # NoAnswer PROVE SlaveIsBehind'
      BY <1>2 DEF SlaveIsBehind
    <3>2. slave.sent < PiecesOf(slave.kind) /\ slave.sent \in Int
          /\ slave.answer \in Int /\ slave.answer <= try
          /\ PiecesOf(slave.kind) \in 1 .. Pieces
      <4>1. slave \in Answer
        BY DEF TransportInv, TransportTypes
      <4> QED
        BY <1>2, <3>1, <4>1, KindsHavePieces
        DEF Answer, TransportInv, SlaveIsBehind
    <3>3. Earlier(data[Pieces], NextPiece)
      BY <2>4, <3>1 DEF TransportInv, SlaveIsBehind
    <3>4. a < slave.answer \/ (a = slave.answer /\ Pieces < slave.sent + 1)
      BY <2>1, <3>3 DEF Earlier, NextPiece
    <3>5. slave.answer \in a + 1 .. try
      <4>1. slave.sent + 1 <= Pieces
        BY <3>2
      <4> QED
        BY <1>3, <2>2, <3>2, <3>4, <4>1
    <3> QED
      BY <1>2, <2>6, <3>1, <3>2, <3>5 DEF TransportInv, SlaveIsBehind
  <2>10. AcceptedInOrder'
    <3>1. SUFFICES ASSUME NEW i \in 1 .. Len(accepted) + 1
          PROVE  /\ accepted'[i].answer \in 1 .. accepted'[i].try
                 /\ i > 1 => accepted'[i - 1].answer < accepted'[i].answer
      BY <2>5 DEF AcceptedInOrder
    <3>2. CASE i \in 1 .. Len(accepted)
      <4>1. i > 1 => i - 1 \in 1 .. Len(accepted)
        BY <2>5, <3>2
      <4> QED
        BY <2>5, <3>2, <4>1 DEF TransportInv, AcceptedInOrder
    <3>3. CASE i = Len(accepted) + 1
      <4>1. accepted'[i].answer = a /\ accepted'[i].try = try
        BY <2>3, <2>5, <3>3
      <4>2. i > 1 => accepted'[i - 1].answer = LastAccepted
        BY <2>5, <3>3 DEF LastAccepted
      <4> QED
        BY <1>3, <2>2, <4>1, <4>2
    <3> QED
      BY <2>5, <3>1, <3>2, <3>3
  <2> QED
    BY <1>4, <2>8, <2>9, <2>10 DEF TransportInv
<1> QED
  BY <1>5, <1>6 DEF EngineTick, engineVars

LEMMA TransportNext ==
  ASSUME LoopInv, TransportInv, accepted \in Seq(Sample), [M4Next]_m4Vars
  PROVE  TransportInv'
<1> USE M4Sizes
<1> DEFINE Same == UNCHANGED <<data, expected_length, uart, overrun, slave,
                               accepted>>
<1>1. Asked \in Int /\ try \in Nat
  BY DEF Asked, LoopInv
<1>2. CASE UNCHANGED m4Vars
  <2>1. Asked' = Asked /\ Same /\ loop' = loop
    BY <1>2 DEF m4Vars, transportVars, lineVars, engineVars, Asked
  <2> QED
    BY <1>1, <2>1, TransportKept
<1>3. CASE SysTick
  <2>1. /\ Asked' = Asked /\ Same
        /\ loop' = IF loop = "asleep" THEN "compare" ELSE loop
    BY <1>3 DEF SysTick, transportVars, lineVars, engineVars, Asked
  <2> QED
    BY <1>1, <2>1, TransportKept
<1>4. CASE SendPiece
  BY <1>4, TransportSend
<1>5. CASE Observe \/ Compare \/ WaitForInterrupt
  <2>1. Asked' = Asked /\ Same
    BY <1>5 DEF Observe, Compare, WaitForInterrupt, transportVars, lineVars,
                engineVars, Asked
  <2>2. loop \notin {"read", "parse"} /\ loop' \notin {"read", "parse"}
    BY <1>5 DEF Observe, Compare, WaitForInterrupt
  <2> QED
    BY <1>1, <2>1, <2>2, TransportKept
<1>6. CASE BeginTry
  <2>1. Same /\ loop = "tick" /\ loop' = "write" /\ try' = try + 1
    BY <1>6 DEF BeginTry, transportVars, lineVars, engineVars
  <2>2. Asked' = Asked
    BY <1>1, <2>1 DEF Asked
  <2> QED
    BY <1>1, <2>1, <2>2, TransportKept
<1>7. CASE WriteRequest
  <2>1. loop = "write" /\ Asked = try - 1 /\ try > 0 /\ try' = try
        /\ UNCHANGED <<uart, overrun, accepted>>
    BY <1>7 DEF WriteRequest, Asked, LoopInv, engineVars
  <2>2. CASE ~initialized
    <3>1. Same /\ loop' = "observe" /\ Asked' = try
      BY <1>7, <2>1, <2>2 DEF WriteRequest, transportVars, Asked
    <3> QED
      BY <1>1, <2>1, <3>1, TransportKept
  <2>3. CASE initialized
    <3>1. /\ data' = <<>> /\ expected_length' = 0 /\ loop' = "read"
          /\ Asked' = try /\ LastAccepted' = LastAccepted
          /\ \/ UNCHANGED slave
             \/ \E k \in Kinds :
                  slave' = [answer |-> try, sent |-> 0, kind |-> k]
      BY <1>7, <2>1, <2>3
      DEF WriteRequest, Arrives, engineVars, Asked, LastAccepted
    <3>2. /\ LastAccepted \in 0 .. try - 1
          /\ \A j \in 1 .. Len(uart) : uart[j].answer \in LastAccepted + 1 .. try - 1
      BY <2>1 DEF TransportInv, PiecesAreNew
    <3>3. PiecesInOrder' /\ PiecesAreNew' /\ AcceptedInOrder'
      <4>1. PiecesInOrder'
        BY <2>1, <3>1 DEF TransportInv, PiecesInOrder
      <4>2. AcceptedInOrder'
        BY <2>1 DEF TransportInv, AcceptedInOrder
      <4>3. PiecesAreNew'
        <5>1. Len(data') = 0 /\ LastAccepted' \in 0 .. Asked'
          BY <1>1, <2>1, <3>1, <3>2
        <5>2. \A j \in 1 .. Len(uart') :
                uart'[j].answer \in LastAccepted' + 1 .. Asked'
          BY <1>1, <2>1, <3>1, <3>2
        <5> QED
          BY <5>1, <5>2 DEF PiecesAreNew
      <4> QED
        BY <4>1, <4>2, <4>3
    <3>4. CASE UNCHANGED slave
      <4>1. TransportTypes'
        BY <2>1, <3>1, <3>4 DEF TransportInv, TransportTypes
      <4>2. SlaveIsBehind'
        <5>1. NextPiece' = NextPiece /\ Len(data') = 0
          BY <3>1, <3>4 DEF NextPiece
        <5>2. slave # NoAnswer => slave.answer \in LastAccepted + 1 .. try
          BY <1>1, <2>1, <3>2 DEF TransportInv, SlaveIsBehind
        <5> QED
          BY <2>1, <3>1, <3>4, <5>1, <5>2 DEF TransportInv, SlaveIsBehind
      <4> QED
        BY <3>3, <4>1, <4>2 DEF TransportInv
    <3>5. CASE \E k \in Kinds :
                 slave' = [answer |-> try, sent |-> 0, kind |-> k]
      <4>1. PICK k \in Kinds :
              slave' = [answer |-> try, sent |-> 0, kind |-> k]
        BY <3>5
      <4>2. slave' \in Answer /\ slave'.answer = try /\ slave'.sent = 0
            /\ slave'.kind = k
        BY <1>1, <2>1, <4>1 DEF Answer, LoopInv
      <4>3. TransportTypes'
        BY <2>1, <3>1, <4>2 DEF TransportInv, TransportTypes
      <4>4. PiecesOf(k) \in 1 .. Pieces
        BY KindsHavePieces
      <4>5. \A j \in 1 .. Len(uart) : Earlier(uart[j], NextPiece')
        BY <1>1, <3>2, <4>2 DEF Earlier, NextPiece
      <4>6. SlaveIsBehind'
        <5>1. slave'.answer \in LastAccepted' + 1 .. Asked'
          BY <1>1, <2>1, <3>1, <3>2, <4>2
        <5>2. slave'.sent < PiecesOf(slave'.kind)
          BY <4>2, <4>4
        <5>3. Len(data') = 0 /\ Len(uart') = Len(uart)
          BY <2>1, <3>1
        <5> QED
          BY <2>1, <4>5, <5>1, <5>2, <5>3 DEF SlaveIsBehind
      <4> QED
        BY <3>3, <4>3, <4>6 DEF TransportInv
    <3> QED
      BY <3>1, <3>4, <3>5
  <2> QED
    BY <2>2, <2>3 DEF LoopInv
<1>8. CASE ReadPiece
  BY <1>8, TransportRead
<1>9. CASE TimeOut
  <2>1. /\ UNCHANGED <<try, uart, overrun, slave, accepted>>
        /\ loop' = "observe" /\ data' = <<>> /\ expected_length' = 0
        /\ Asked' = Asked /\ LastAccepted' = LastAccepted
        /\ NextPiece' = NextPiece
    BY <1>9 DEF TimeOut, ReadReturns, lineVars, engineVars, Asked,
                LastAccepted, NextPiece
  <2> QED
    BY <2>1 DEF TransportInv, TransportTypes, PiecesInOrder, PiecesAreNew,
                SlaveIsBehind, AcceptedInOrder
<1>10. CASE EngineTick
  BY <1>10, TransportEngine
<1>11. CASE ConsumeBatch \/ ConsoleDone
  <2>1. Asked' = Asked /\ Same
    BY <1>11 DEF ConsumeBatch, ConsoleDone, transportVars, lineVars,
                 engineVars, Asked
  <2>2. loop \notin {"read", "parse"} /\ loop' \notin {"read", "parse"}
    BY <1>11 DEF ConsumeBatch, ConsoleDone
  <2> QED
    BY <1>1, <2>1, <2>2, TransportKept
<1> QED
  BY <1>2, <1>3, <1>4, <1>5, <1>6, <1>7, <1>8, <1>9, <1>10, <1>11
  DEF M4Next, MainLoop

-----------------------------------------------------------------------------
(* The batches.                                                            *)

LEMMA Positions ==
  ASSUME NEW n \in Nat
  PROVE  /\ n * BatchSamples \in Nat /\ n * BatchSamples >= n
         /\ (n + 1) * BatchSamples = n * BatchSamples + BatchSamples
         /\ \A b \in 1 .. n : /\ (b - 1) * BatchSamples \in Nat
                              /\ (b - 1) * BatchSamples + BatchSamples
                                   <= n * BatchSamples
<1>1. BatchSamples \in Nat \ {0}
  BY M4Sizes
<1>2. \A B \in Nat \ {0}, m \in Nat :
        m * B \in Nat /\ m * B >= m /\ (m + 1) * B = m * B + B
  OBVIOUS
<1>3. ASSUME NEW B \in Nat \ {0}, NEW b \in 1 .. n
      PROVE  (b - 1) * B \in Nat /\ (b - 1) * B + B <= n * B
  <2>1. CASE b - 1 < n - 1
    <3>1. B * (n - 1) >= B * (b - 1) + B
      BY <2>1, MultiplesApart
    <3> QED
      BY <3>1
  <2>2. CASE b = n
    OBVIOUS
  <2> QED
    BY <2>1, <2>2
<1> QED
  BY <1>1, <1>2, <1>3

\* How many samples there can be.
Attempted == IF loop \in {"write", "read", "parse"} THEN try - 1 ELSE try

LEMMA EngineSizes ==
  ASSUME LoopInv, EngineInv
  PROVE  /\ Attempted \in 0 .. MaxTries /\ Len(accepted) <= Attempted
         /\ Len(printed) \in Nat /\ Len(accepted) \in Nat
         /\ sample_index \in 0 .. BatchSamples - 1
         /\ Len(accepted) = Len(printed) * BatchSamples + Unprinted
         /\ next_sequence \in 0 .. MaxTries
<1>1. /\ Attempted \in 0 .. MaxTries /\ Len(accepted) <= Attempted
      /\ Len(printed) \in Nat /\ Len(accepted) \in Nat
      /\ sample_index \in 0 .. BatchSamples - 1
      /\ Len(accepted) = Len(printed) * BatchSamples + Unprinted
  BY M4Sizes DEF LoopInv, EngineInv, EngineTypes, BatchesHoldEverySample,
                 Attempted
<1>2. next_sequence = Len(printed) + (IF loop = "consume" THEN 1 ELSE 0)
  BY DEF EngineInv, BatchesAreFilled
<1> DEFINE n == Len(printed)
           first == n * BatchSamples
           m == Len(accepted)
<1>3. first \in Nat /\ first >= n /\ n \in Nat
  BY <1>1, Positions
<1>4. m = first + Unprinted /\ m \in Nat /\ m <= MaxTries
  BY <1>1, M4Sizes
<1> HIDE DEF n, first, m
<1>5. next_sequence \in 0 .. MaxTries
  <2>1. CASE loop = "consume"
    <3>1. next_sequence = n + 1 /\ Unprinted = sample_index + BatchSamples
      BY <1>2, <2>1 DEF n, Unprinted
    <3>2. BatchSamples >= 1 /\ sample_index >= 0 /\ sample_index \in Int
      BY <1>1, M4Sizes
    <3> QED
      BY <1>3, <1>4, <3>1, <3>2, M4Sizes
  <2>2. CASE loop # "consume"
    <3>1. next_sequence = n /\ Unprinted = sample_index
      BY <1>1, <1>2, <2>2, M4Sizes DEF n, Unprinted
    <3>2. sample_index >= 0 /\ sample_index \in Int
      BY <1>1, M4Sizes
    <3> QED
      BY <1>3, <1>4, <3>1, <3>2, M4Sizes
  <2> QED
    BY <2>1, <2>2
<1> QED
  BY <1>1, <1>5

\* A batch keeps its samples when there are more.
LEMMA HoldsOn ==
  ASSUME NEW b \in Batch, NEW k \in Nat, NEW n \in Nat,
         Holds(b, k, n), accepted \in Seq(Sample),
         n > 0, k * BatchSamples \in Nat,
         k * BatchSamples + n <= Len(accepted),
         \A i \in 1 .. Len(accepted) : accepted'[i] = accepted[i]
  PROVE  /\ b.sequence = k
         /\ b.start_timestamp_us = accepted'[k * BatchSamples + 1].time
         /\ \A i \in 1 .. n : b.samples[i] = accepted'[k * BatchSamples + i]
<1> DEFINE first == k * BatchSamples
<1>1. first \in Nat /\ Len(accepted) \in Nat /\ first + n <= Len(accepted)
  OBVIOUS
<1>2. /\ b.sequence = k
      /\ b.start_timestamp_us = accepted[first + 1].time
      /\ \A i \in 1 .. n : b.samples[i] = accepted[first + i]
  BY DEF Holds
<1> HIDE DEF first
<1>3. first + 1 \in 1 .. Len(accepted)
      /\ \A i \in 1 .. n : first + i \in 1 .. Len(accepted)
  BY <1>1
<1>4. /\ b.start_timestamp_us = accepted'[first + 1].time
      /\ \A i \in 1 .. n : b.samples[i] = accepted'[first + i]
  BY <1>2, <1>3
<1> QED
  BY <1>2, <1>4 DEF first

LEMMA PrintedHold ==
  ASSUME EngineInv
  PROVE  \A b \in 1 .. Len(printed) :
           /\ printed[b] \in Batch
           /\ Holds(printed[b], b - 1, BatchSamples)
<1>1. printed \in Seq(Batch) /\ DOMAIN printed = 1 .. Len(printed)
  BY DEF EngineInv, EngineTypes
<1>2. \A b \in 1 .. Len(printed) : printed[b] \in Batch
  BY <1>1, ElementOfSeq
<1> QED
  BY <1>1, <1>2 DEF EngineInv, BatchesHoldEverySample, Holds

LEMMA EngineKept ==
  ASSUME EngineInv, UNCHANGED <<engineVars, printed>>,
         loop = "consume" <=> loop' = "consume",
         Attempted \in Int, Attempted' \in Int, Attempted <= Attempted'
  PROVE  EngineInv'
<1>1. EngineTypes'
  <2>1. Len(accepted) \in Nat /\ Len(accepted) <= Attempted
    BY DEF EngineInv, EngineTypes, Attempted
  <2>2. Len(accepted') <= Attempted'
    BY <2>1 DEF engineVars
  <2> QED
    BY <2>2 DEF EngineInv, EngineTypes, engineVars, Attempted
<1>2. BatchesAreFilled'
  BY DEF EngineInv, BatchesAreFilled, engineVars, Holds
<1>3. BatchesHoldEverySample'
  BY DEF EngineInv, BatchesHoldEverySample, Unprinted, engineVars
<1> QED
  BY <1>1, <1>2, <1>3 DEF EngineInv

LEMMA BatchFacts ==
  ASSUME NEW b \in Batch
  PROVE  /\ b.sequence \in 0 .. MaxTries /\ b.start_timestamp_us \in Times
         /\ b.samples \in [1 .. BatchSamples -> Sample \cup {NoSample}]
BY DEF Batch

LEMMA ResetBatchIsABatch == ResetBatch \in Batch
<1>1. 0 \in Times
  BY M4Sizes DEF Times
<1> QED
  BY <1>1, M4Sizes DEF ResetBatch, Batch

\* The sample goes to its place in the batch, and into the next one when the
\* last has been completed.
LEMMA EngineAdds ==
  ASSUME LoopInv, EngineInv, NEW s \in Sample, s.time = timestamp_us,
         loop = "parse", AddSample(s),
         UNCHANGED <<try, timestamp_us, printed>>
  PROVE  EngineInv'
<1> DEFINE n == Len(printed)
           first == n * BatchSamples
           k == sample_index
           len == Len(accepted)
<1>1. /\ n \in Nat /\ first \in Nat /\ len \in Nat
      /\ k \in 0 .. BatchSamples - 1 /\ len = first + k
      /\ next_sequence = n /\ n \in 0 .. MaxTries
      /\ (n + 1) * BatchSamples = first + BatchSamples
      /\ BatchSamples \in Nat /\ BatchSamples > 0
  <2>1. Unprinted = sample_index /\ next_sequence = n
    BY M4Sizes DEF Unprinted, EngineInv, EngineTypes, BatchesAreFilled
  <2> QED
    BY <2>1, EngineSizes, Positions, M4Sizes
<1>2. /\ accepted \in Seq(Sample) /\ accepted' = Append(accepted, s)
      /\ accepted' \in Seq(Sample) /\ Len(accepted') = len + 1
      /\ accepted'[len + 1] = s
      /\ \A i \in 1 .. len : accepted'[i] = accepted[i]
  BY DEF AddSample, EngineInv, EngineTypes
<1>3. len + 1 <= try /\ try \in Nat
  BY <1>1 DEF EngineInv, EngineTypes, LoopInv
<1> HIDE DEF n, k, len
<1>4. k + 1 \in 1 .. BatchSamples
  BY <1>1
<1>5. StartedBatch \in Batch /\ StartedBatch.sequence = n
      /\ StartedBatch.start_timestamp_us = accepted'[first + 1].time
      /\ \A i \in 1 .. k : StartedBatch.samples[i] = accepted'[first + i]
  <2>1. CASE sample_index = 0
    <3>1. StartedBatch = [ResetBatch EXCEPT !.sequence = n,
                                            !.start_timestamp_us = timestamp_us]
      BY <1>1, <2>1 DEF StartedBatch
    <3>2. StartedBatch \in Batch
      <4>1. ResetBatch \in Batch /\ timestamp_us \in Times
        BY ResetBatchIsABatch DEF LoopInv
      <4> QED
        BY <1>1, <3>1, <4>1 DEF Batch
    <3>3. StartedBatch.sequence = n
          /\ StartedBatch.start_timestamp_us = timestamp_us
      BY <3>1 DEF ResetBatch
    <3>4. first + 1 = len + 1
      BY <1>1, <2>1 DEF k
    <3> QED
      BY <1>1, <1>2, <2>1, <3>2, <3>3, <3>4 DEF k
  <2>2. CASE sample_index # 0
    <3>1. StartedBatch = current_batch /\ current_batch \in Batch
          /\ Holds(current_batch, n, k) /\ k > 0 /\ k \in Nat
      BY <1>1, <2>2
      DEF StartedBatch, EngineInv, EngineTypes, BatchesAreFilled, n, k
    <3>2. first + k <= Len(accepted)
      BY <1>1 DEF len
    <3>3. \A i \in 1 .. Len(accepted) : accepted'[i] = accepted[i]
      BY <1>2 DEF len
    <3>4. n * BatchSamples \in Nat /\ n \in Nat
      BY <1>1
    <3> QED
      BY <1>2, <3>1, <3>2, <3>3, <3>4, HoldsOn
  <2> QED
    BY <2>1, <2>2
<1> HIDE DEF first
<1>6. /\ current_batch' = [StartedBatch EXCEPT !.samples[k + 1] = s]
      /\ current_batch' \in Batch
      /\ current_batch'.sequence = n
      /\ current_batch'.start_timestamp_us = accepted'[first + 1].time
      /\ \A i \in 1 .. k + 1 : current_batch'.samples[i] = accepted'[first + i]
  <2>1. current_batch' = [StartedBatch EXCEPT !.samples[k + 1] = s]
    BY DEF AddSample, k
  <2>2. PICK b \in Batch : b = StartedBatch
    BY <1>5
  <2>3. /\ b.sequence = n
        /\ b.start_timestamp_us = accepted'[first + 1].time
        /\ b.samples \in [1 .. BatchSamples -> Sample \cup {NoSample}]
        /\ \A i \in 1 .. k : b.samples[i] = accepted'[first + i]
    BY <1>5, <2>2, BatchFacts
  <2>4. PICK c : c = [b.samples EXCEPT ![k + 1] = s]
    OBVIOUS
  <2>5. current_batch' = [b EXCEPT !.samples = c]
    BY <2>1, <2>2, <2>4
  <2>6. c \in [1 .. BatchSamples -> Sample \cup {NoSample}] /\ c[k + 1] = s
        /\ \A i \in 1 .. k : c[i] = b.samples[i]
    BY <1>1, <1>4, <2>3, <2>4
  <2>7. /\ current_batch' \in Batch /\ current_batch'.sequence = n
        /\ current_batch'.start_timestamp_us = accepted'[first + 1].time
        /\ current_batch'.samples = c
    <3>1. b \in [sequence : 0 .. MaxTries, start_timestamp_us : Times,
                 samples : [1 .. BatchSamples -> Sample \cup {NoSample}]]
      BY DEF Batch
    <3>2. current_batch' \in Batch
      BY <2>5, <2>6, <3>1 DEF Batch
    <3>3. current_batch'.samples = c /\ current_batch'.sequence = b.sequence
          /\ current_batch'.start_timestamp_us = b.start_timestamp_us
      BY <2>5, <3>1
    <3> QED
      BY <2>3, <3>2, <3>3
  <2>8. ASSUME NEW i \in 1 .. k + 1
        PROVE  c[i] = accepted'[first + i]
    <3>1. CASE i = k + 1
      <4>1. first + i = len + 1
        BY <1>1, <3>1
      <4> QED
        BY <1>2, <2>6, <3>1, <4>1
    <3>2. CASE i \in 1 .. k
      BY <2>3, <2>6, <3>2
    <3> QED
      BY <1>1, <3>1, <3>2
  <2> QED
    BY <2>1, <2>7, <2>8
<1>7. \A b \in 1 .. n :
        /\ printed[b].sequence = b - 1
        /\ printed[b].start_timestamp_us
             = accepted'[(b - 1) * BatchSamples + 1].time
        /\ \A i \in 1 .. BatchSamples :
             printed[b].samples[i] = accepted'[(b - 1) * BatchSamples + i]
  <2>1. SUFFICES ASSUME NEW b \in 1 .. n
        PROVE  /\ printed[b].sequence = b - 1
               /\ printed[b].start_timestamp_us
                    = accepted'[(b - 1) * BatchSamples + 1].time
               /\ \A i \in 1 .. BatchSamples :
                    printed[b].samples[i]
                      = accepted'[(b - 1) * BatchSamples + i]
    OBVIOUS
  <2>2. printed[b] \in Batch /\ Holds(printed[b], b - 1, BatchSamples)
    BY PrintedHold DEF n
  <2>3. /\ (b - 1) * BatchSamples \in Nat /\ b - 1 \in Nat
        /\ (b - 1) * BatchSamples + BatchSamples <= first
    BY <1>1, Positions DEF first
  <2>4. (b - 1) * BatchSamples + BatchSamples <= Len(accepted)
    <3>1. PICK x \in Int : x = (b - 1) * BatchSamples + BatchSamples
      BY <1>1, <2>3
    <3> QED
      BY <1>1, <2>3, <3>1 DEF len
  <2>5. \A i \in 1 .. Len(accepted) : accepted'[i] = accepted[i]
    BY <1>2 DEF len
  <2> QED
    BY <1>1, <1>2, <2>2, <2>3, <2>4, <2>5, HoldsOn
<1>8. Len(printed') = n /\ printed' = printed /\ DOMAIN printed = 1 .. n
      /\ printed \in Seq(Batch)
  BY DEF n, EngineInv, EngineTypes
<1>9. CASE k + 1 < BatchSamples
  <2>1. /\ loop' = "observe" /\ sample_index' = k + 1
        /\ UNCHANGED <<ready_batch, batch_ready, next_sequence>>
    BY <1>1, <1>9 DEF AddSample, NextIndex, k
  <2>2. EngineTypes'
    <3>1. /\ ready_batch \in Batch /\ batch_ready = FALSE
      BY DEF EngineInv, EngineTypes
    <3>2. k + 1 \in 0 .. BatchSamples - 1
      BY <1>1, <1>9
    <3> QED
      BY <1>2, <1>3, <1>6, <1>8, <2>1, <3>1, <3>2 DEF EngineTypes
  <2>3. BatchesAreFilled'
    <3>1. next_sequence' = Len(printed')
      BY <1>1, <1>8, <2>1
    <3>2. Holds(current_batch, Len(printed), sample_index)'
      BY <1>6, <1>8, <2>1 DEF Holds, first
    <3> QED
      BY <1>1, <1>8, <2>1, <3>1, <3>2 DEF BatchesAreFilled
  <2>4. BatchesHoldEverySample'
    <3>1. Unprinted' = k + 1
      BY <1>1, <2>1 DEF Unprinted
    <3>2. Len(accepted') = Len(printed') * BatchSamples + Unprinted'
      BY <1>1, <1>2, <1>8, <3>1 DEF first
    <3> QED
      BY <1>7, <1>8, <3>2 DEF BatchesHoldEverySample
  <2> QED
    BY <2>2, <2>3, <2>4 DEF EngineInv
<1>10. CASE k + 1 = BatchSamples
  <2>1. /\ loop' = "consume" /\ sample_index' = 0
        /\ ready_batch' = current_batch' /\ batch_ready' = TRUE
        /\ next_sequence' = n + 1
    BY <1>1, <1>10 DEF AddSample, NextIndex, k
  <2>2. EngineTypes'
    BY <1>1, <1>2, <1>3, <1>6, <1>8, <2>1 DEF EngineTypes
  <2>3. BatchesAreFilled'
    <3>1. Holds(ready_batch, Len(printed), BatchSamples)'
      BY <1>6, <1>8, <1>10, <2>1 DEF Holds, first
    <3> QED
      BY <1>8, <2>1, <3>1 DEF BatchesAreFilled
  <2>4. BatchesHoldEverySample'
    <3>1. Unprinted' = BatchSamples
      BY <1>1, <2>1 DEF Unprinted
    <3>2. Len(accepted') = Len(printed') * BatchSamples + Unprinted'
      <4>1. len + 1 = first + BatchSamples
        BY <1>1, <1>10
      <4> QED
        BY <1>2, <1>8, <3>1, <4>1 DEF first
    <3> QED
      BY <1>7, <1>8, <3>2 DEF BatchesHoldEverySample
  <2> QED
    BY <2>2, <2>3, <2>4 DEF EngineInv
<1> QED
  BY <1>1, <1>4, <1>9, <1>10

\* The batch that is printed is the next one.
LEMMA EnginePrints ==
  ASSUME LoopInv, EngineInv, ConsumeBatch PROVE EngineInv'
<1> DEFINE n == Len(printed)
           first == n * BatchSamples
<1>1. /\ n \in Nat /\ Len(accepted) \in Nat
      /\ sample_index = 0 /\ loop = "consume"
      /\ Len(accepted) = first + BatchSamples
      /\ (n + 1) * BatchSamples = first + BatchSamples
      /\ BatchSamples \in Nat /\ BatchSamples > 0 /\ first \in Nat
  <2>1. sample_index = 0 /\ Unprinted = BatchSamples
    BY M4Sizes DEF ConsumeBatch, EngineInv, BatchesAreFilled, Unprinted
  <2> QED
    BY <2>1, EngineSizes, Positions, M4Sizes DEF ConsumeBatch
<1>2. /\ loop' = "console" /\ batch_ready' = FALSE
      /\ UNCHANGED <<try, current_batch, ready_batch, sample_index,
                     next_sequence, accepted>>
      /\ printed' = Append(printed, ready_batch)
  BY DEF ConsumeBatch
<1>3. printed \in Seq(Batch) /\ ready_batch \in Batch
      /\ Holds(ready_batch, n, BatchSamples) /\ next_sequence = n + 1
  BY <1>1 DEF EngineInv, EngineTypes, BatchesAreFilled
<1> HIDE DEF n
<1>4. /\ printed' \in Seq(Batch) /\ Len(printed') = n + 1
      /\ DOMAIN printed' = 1 .. n + 1
      /\ printed'[n + 1] = ready_batch
      /\ \A b \in 1 .. n : printed'[b] = printed[b]
  BY <1>2, <1>3 DEF n
<1>5. EngineTypes'
  BY <1>1, <1>2, <1>4 DEF EngineInv, EngineTypes
<1>6. BatchesAreFilled'
  BY <1>1, <1>2, <1>3, <1>4 DEF BatchesAreFilled
<1>7. BatchesHoldEverySample'
  <2>1. Len(accepted') = Len(printed') * BatchSamples + Unprinted'
    <3>1. Unprinted' = 0
      BY <1>1, <1>2 DEF Unprinted
    <3> QED
      BY <1>1, <1>2, <1>4, <3>1
  <2>2. ASSUME NEW b \in 1 .. n + 1
        PROVE  Holds(printed'[b], b - 1, BatchSamples)
    <3>1. CASE b = n + 1
      BY <1>1, <1>3, <1>4, <3>1
    <3>2. CASE b \in 1 .. n
      BY <1>4, <3>2, PrintedHold DEF n
    <3> QED
      BY <1>1, <3>1, <3>2
  <2> QED
    BY <1>2, <1>4, <2>1, <2>2 DEF BatchesHoldEverySample, Holds
<1> QED
  BY <1>5, <1>6, <1>7 DEF EngineInv

LEMMA EngineNext ==
  ASSUME LoopInv, TransportTypes, EngineInv, [M4Next]_m4Vars PROVE EngineInv'
<1> DEFINE Same == UNCHANGED <<engineVars, printed>>
<1>1. Attempted \in Int /\ try \in Nat
  BY DEF Attempted, LoopInv
<1>2. CASE UNCHANGED m4Vars
  <2>1. Attempted' = Attempted /\ Same /\ loop' = loop
    BY <1>2 DEF m4Vars, Attempted
  <2> QED
    BY <1>1, <2>1, EngineKept
<1>3. CASE SysTick \/ SendPiece
  <2>1. /\ Attempted' = Attempted /\ Same
        /\ loop' = IF loop = "asleep" /\ loop' # loop THEN "compare" ELSE loop
    BY <1>3 DEF SysTick, SendPiece, Attempted
  <2> QED
    BY <1>1, <2>1, EngineKept
<1>4. CASE \/ Observe \/ Compare \/ WaitForInterrupt \/ WriteRequest
           \/ ReadPiece \/ TimeOut \/ ConsoleDone
  <2>1. Same /\ try' = try /\ loop # "consume" /\ loop' # "consume"
    BY <1>4 DEF Observe, Compare, WaitForInterrupt, WriteRequest, ReadPiece,
                TimeOut, ConsoleDone
  <2>2. loop \notin {"write", "read", "parse"}
          => loop' \notin {"write", "read", "parse"}
    BY <1>4 DEF Observe, Compare, WaitForInterrupt, WriteRequest, ReadPiece,
                TimeOut, ConsoleDone
  <2>3. Attempted' \in Int /\ Attempted <= Attempted'
    BY <1>1, <2>1, <2>2 DEF Attempted
  <2> QED
    BY <1>1, <2>1, <2>3, EngineKept
<1>5. CASE BeginTry
  <2>1. Same /\ try' = try + 1 /\ loop = "tick" /\ loop' = "write"
    BY <1>5 DEF BeginTry
  <2>2. Attempted' = Attempted
    BY <1>1, <2>1 DEF Attempted
  <2> QED
    BY <1>1, <2>1, <2>2, EngineKept
<1>6. CASE EngineTick
  <2>1. loop = "parse" /\ UNCHANGED <<try, timestamp_us, printed>>
    BY <1>6 DEF EngineTick
  <2>2. CASE ParseReadResponse(data)
    <3> DEFINE s == [try |-> try, answer |-> AnswerIn(data),
                     time |-> timestamp_us]
    <3>1. AddSample(s)
      BY <1>6, <2>2 DEF EngineTick
    <3>2. AnswerIn(data) \in 0 .. MaxTries
      <4>1. CrcMatches(data)
        BY <2>2 DEF ParseReadResponse
      <4>2. PiecesOf(data[1].kind) \in 1 .. Pieces
        BY M4Sizes DEF PiecesOf
      <4>3. 1 \in 1 .. Len(data)
        <5>1. Len(data) = PiecesOf(data[1].kind)
          BY <4>1 DEF CrcMatches
        <5>2. Len(data) \in Nat /\ Len(data) >= 1
          BY <4>2, <5>1
        <5> QED
          BY <5>2
      <4>4. data[1] \in Piece
        BY <4>3, ElementOfSeq DEF TransportTypes
      <4> QED
        BY <4>1, <4>4, PieceFacts DEF AnswerIn
    <3>3. s \in Sample /\ s.time = timestamp_us
      BY <2>1, <3>2 DEF LoopInv, Sample, Requests
    <3> HIDE DEF s
    <3> QED
      BY <2>1, <3>1, <3>3, EngineAdds
  <2>3. CASE ~ParseReadResponse(data)
    <3>1. Same /\ loop' = "observe" /\ loop = "parse" /\ try' = try
      BY <1>6, <2>3 DEF EngineTick
    <3>2. Attempted' \in Int /\ Attempted <= Attempted'
      BY <1>1, <3>1 DEF Attempted
    <3> QED
      BY <1>1, <3>1, <3>2, EngineKept
  <2> QED
    BY <2>2, <2>3
<1>7. CASE ConsumeBatch
  BY <1>7, EnginePrints
<1> QED
  BY <1>2, <1>3, <1>4, <1>5, <1>6, <1>7 DEF M4Next, MainLoop

-----------------------------------------------------------------------------

LEMMA M4InitInv == M4Init => M4Inv
<1> SUFFICES ASSUME M4Init PROVE M4Inv
  OBVIOUS
<1> USE M4Sizes
<1>1. /\ loop = "observe" /\ g_tick_count = 0 /\ observed = 0
      /\ interrupted = FALSE /\ blocked_ticks = 0 /\ line_busy = FALSE
      /\ initialized \in BOOLEAN
      /\ start_us = 0 /\ data = <<>> /\ expected_length = 0
      /\ try = 0 /\ timestamp_us = 0
      /\ uart = <<>> /\ overrun = FALSE /\ slave = NoAnswer
      /\ since_try = 0 /\ accepted = <<>> /\ printed = <<>>
  BY DEF M4Init, BoardInit, TransportInit
<1>2. /\ current_batch = ResetBatch /\ ready_batch = ResetBatch
      /\ sample_index = 0 /\ next_sequence = 0 /\ batch_ready = FALSE
  BY DEF M4Init, EngineInit
<1>3. LoopInv
  <2>1. 0 \in Times /\ 0 \in 0 .. MaxTries
    BY DEF Times
  <2> QED
    BY <1>1, <2>1 DEF LoopInv
<1>4. TransportInv
  <2>1. slave \in Answer
    BY <1>1 DEF NoAnswer, Answer, Kinds
  <2>2. Len(data) = 0 /\ Len(uart) = 0 /\ LastAccepted = 0 /\ Asked = 0
    BY <1>1 DEF LastAccepted, Asked
  <2>3. data \in Seq(Piece) /\ uart \in Seq(Piece)
    BY <1>1
  <2>4. TransportTypes
    <3>1. 0 <= Capacity /\ 0 <= FifoPieces /\ 0 \in 0 .. Capacity
      OBVIOUS
    <3>2. Len(data) <= Capacity /\ Len(uart) <= FifoPieces
      BY <2>2, <3>1
    <3> QED
      BY <1>1, <2>1, <2>3, <3>1, <3>2 DEF TransportTypes
  <2>5. PiecesInOrder /\ PiecesAreNew
    BY <2>2 DEF PiecesInOrder, PiecesAreNew
  <2>6. SlaveIsBehind /\ AcceptedInOrder
    BY <1>1 DEF SlaveIsBehind, AcceptedInOrder
  <2> QED
    BY <2>4, <2>5, <2>6 DEF TransportInv
<1>5. EngineInv
  <2>1. 0 * BatchSamples = 0
    OBVIOUS
  <2>2. /\ accepted \in Seq(Sample) /\ printed \in Seq(Batch)
        /\ Len(accepted) = 0 /\ Len(printed) = 0 /\ DOMAIN printed = 1 .. 0
    BY <1>1
  <2>3. EngineTypes
    <3>1. 0 \in 0 .. BatchSamples - 1
      OBVIOUS
    <3>2. Len(accepted) <= 0
      BY <2>2
    <3> QED
      BY <1>1, <1>2, <2>2, <3>1, <3>2, ResetBatchIsABatch DEF EngineTypes
  <2>4. BatchesAreFilled
    BY <1>1, <1>2, <2>2 DEF BatchesAreFilled
  <2>5. BatchesHoldEverySample
    <3>1. Unprinted = 0
      BY <1>1, <1>2 DEF Unprinted
    <3> QED
      BY <2>1, <2>2, <3>1 DEF BatchesHoldEverySample
  <2> QED
    BY <2>3, <2>4, <2>5 DEF EngineInv
<1>6. PaceInv
  <2>1. OneMore = 0 /\ Longest = 0
    BY <1>1 DEF OneMore, Longest
  <2> QED
    BY <1>1, <2>1 DEF PaceInv, WaitIsShort, ReadIsShort
<1> QED
  BY <1>3, <1>4, <1>5, <1>6 DEF M4Inv

LEMMA M4NextInv == M4Inv /\ [M4Next]_m4Vars => M4Inv'
<1>1. SUFFICES ASSUME M4Inv, [M4Next]_m4Vars PROVE M4Inv'
  OBVIOUS
<1>2. LoopInv'
  BY <1>1, LoopNext DEF M4Inv
<1>3. TransportInv'
  BY <1>1, TransportNext DEF M4Inv, EngineInv, EngineTypes
<1>4. EngineInv'
  BY <1>1, EngineNext DEF M4Inv, TransportInv
<1>5. PaceInv'
  BY <1>1, PaceNext DEF M4Inv
<1> QED
  BY <1>2, <1>3, <1>4, <1>5 DEF M4Inv

LEMMA M4InvHolds == M4Spec => []M4Inv
BY M4InitInv, M4NextInv, PTL DEF M4Spec

\* The engine of the M4 gets whole answers, in the order of the requests,
\* and every variable has its type.
THEOREM AnswersComeInOrder == M4Spec => []AnswersInOrder
<1>1. M4Inv => AnswersInOrder
  <2>1. SUFFICES ASSUME M4Inv PROVE AnswersInOrder
    OBVIOUS
  <2>2. blocked_ticks \in Nat /\ blocked_ticks <= Longest /\ since_try \in Nat
    BY <2>1 DEF M4Inv, PaceInv
  <2>3. next_sequence \in 0 .. MaxTries
    BY <2>1, EngineSizes DEF M4Inv
  <2>4. slave \in [answer : 0 .. MaxTries, sent : 0 .. Pieces, kind : Kinds]
    BY <2>1 DEF M4Inv, TransportInv, TransportTypes, Answer
  <2>5. M4TypeOK
    BY <2>1, <2>2, <2>3, <2>4
    DEF M4Inv, LoopInv, TransportInv, TransportTypes, EngineInv, EngineTypes,
        M4TypeOK
  <2> QED
    BY <2>1, <2>5 DEF M4Inv, TransportInv, AcceptedInOrder, AnswersInOrder
<1> QED
  BY <1>1, M4InvHolds, PTL

\* Every sample the engine of the M4 accepted is in one batch, at its place.
THEOREM NoSampleIsLost == M4Spec => []BatchesHoldEverySample
<1>1. M4Inv => BatchesHoldEverySample
  BY DEF M4Inv, EngineInv
<1> QED
  BY <1>1, M4InvHolds, PTL

\* The time between two tries has a bound, for every length of the time-out
\* and of a line on the console.
THEOREM TriesKeepPace == M4Spec => []PaceIsKept
<1>1. M4Inv => PaceIsKept
  <2>1. SUFFICES ASSUME M4Inv PROVE PaceIsKept
    OBVIOUS
  <2>2. /\ since_try \in Nat /\ blocked_ticks \in Nat
        /\ blocked_ticks <= Longest
        /\ Longest = IF loop = "write" THEN WriteTicks
                     ELSE IF loop = "console" THEN ConsoleTicks ELSE 0
        /\ (OneMore = 0 \/ OneMore = 1)
        /\ WriteTicks \in Nat /\ Slowest \in Nat /\ ConsoleTicks \in Nat
        /\ Timeout \in Nat /\ Slowest = WriteTicks + Timeout
    BY <2>1, M4Sizes DEF M4Inv, PaceInv, OneMore, Longest
  <2>3. since_try <= Slowest + ConsoleTicks + 6
    <3>1. CASE loop \in {"observe", "before_wfi", "asleep", "tick", "compare"}
      BY <2>1, <2>2, <3>1 DEF M4Inv, PaceInv, WaitIsShort
    <3>2. CASE loop \in {"write", "parse", "consume", "console"}
      BY <2>1, <2>2, <3>2 DEF M4Inv, PaceInv, ReadIsShort
    <3>3. CASE loop = "read"
      <4>1. Now \in Nat /\ start_us \in Nat
        BY <2>1, NowIsATime DEF M4Inv, LoopInv, Now, Times
      <4>2. since_try <= Slowest + 3 + OneMore
        BY <2>1, <2>2, <3>3, <4>1 DEF M4Inv, PaceInv, ReadIsShort, TimedOut
      <4> QED
        BY <2>2, <4>2
    <3> QED
      BY <2>1, <3>1, <3>2, <3>3 DEF M4Inv, LoopInv
  <2> QED
    BY <2>2, <2>3 DEF PaceIsKept
<1> QED
  BY <1>1, M4InvHolds, PTL

-----------------------------------------------------------------------------
(* OutboxPublisher.                                                        *)

WholeFragments ==
  /\ whole \subseteq 1 .. appended
  /\ \A e \in 1 .. Len(file) :
       /\ file[e].line <= appended
       /\ file[e].line \in whole => file[e].part = "whole"

\* The lines that the script has dealt with, or deals with now.
Handled == sent \cup (IF script = "send" THEN {sending} ELSE {})

PassedAreSent ==
  script # "off" =>
    \A e \in 1 .. position : file[e].part = "whole" => file[e].line \in Handled

PublisherInv == LinesStayUntilSent /\ WholeFragments /\ PassedAreSent

USE MaxLinesAssumption

-----------------------------------------------------------------------------

LEMMA MinOfNaturals ==
  ASSUME NEW S, S \subseteq Nat, S # {}
  PROVE  Min(S) \in S /\ \A y \in S : Min(S) <= y
<1> DEFINE R == OpToRel(<, Nat)
<1>1. PICK x \in S : \A y \in S : ~(<<y, x>> \in R)
  <2>1. IsWellFoundedOn(R, Nat)
    BY NatLessThanWellFounded
  <2> HIDE DEF R
  <2> QED
    BY <2>1, WFMin
<1>2. ASSUME NEW y \in S PROVE x <= y
  <2>1. <<y, x>> \notin R /\ y \in Nat /\ x \in Nat
    BY <1>1
  <2> QED
    BY <2>1 DEF OpToRel
<1> QED
  BY <1>2 DEF Min

\* A text ends at a newline or with the file, and there is no newline in it.
LEMMA TextEnds ==
  ASSUME PublisherTypeOK, position < Len(file)
  PROVE  /\ TextEnd \in position + 1 .. Len(file)
         /\ \A e \in position + 1 .. TextEnd - 1 : file[e].part # "whole"
<1> DEFINE Ends == {e \in position + 1 .. Len(file) :
                      e = Len(file) \/ file[e].part = "whole"}
<1>1. position \in Nat /\ Len(file) \in Nat
  BY DEF PublisherTypeOK
<1>2. Ends \subseteq Nat /\ Ends # {}
  <2>1. Len(file) \in Ends
    BY <1>1
  <2> QED
    BY <1>1, <2>1
<1>3. TextEnd \in Ends /\ \A e \in Ends : TextEnd <= e
  <2>1. TextEnd = Min(Ends)
    BY DEF TextEnd
  <2> HIDE DEF Ends
  <2> QED
    BY <1>2, <2>1, MinOfNaturals
<1>4. ASSUME NEW e \in position + 1 .. TextEnd - 1 PROVE file[e].part # "whole"
  <2>1. e \in position + 1 .. Len(file) /\ ~(TextEnd <= e)
    BY <1>1, <1>3
  <2> QED
    BY <1>3, <2>1
<1> QED
  BY <1>3, <1>4

\* What a text means is its last fragment, if that is whole.
LEMMA MeaningIsLast ==
  ASSUME PublisherTypeOK, position < Len(file), NEW m \in Meanings
  PROVE  /\ m \in 0 .. MaxLines
         /\ file[TextEnd].part = "whole" => file[TextEnd].line = m
<1>1. /\ position \in Nat /\ Len(file) \in Nat
      /\ TextEnd \in position + 1 .. Len(file)
  BY TextEnds DEF PublisherTypeOK
<1>2. /\ Len(Text) = TextEnd - position /\ Len(Text) \in Nat
      /\ Text[Len(Text)] = file[TextEnd]
  <2>1. \A k \in position + 1 .. TextEnd :
          file[k] \in Fragment
    BY <1>1 DEF PublisherTypeOK
  <2>2. /\ Len(Text) = TextEnd - (position + 1) + 1
        /\ \A k \in 1 .. TextEnd - (position + 1) + 1 :
             Text[k] = file[(position + 1) + k - 1]
    BY <1>1, <2>1, SubSeqProperties DEF Text
  <2>3. TextEnd - position \in 1 .. TextEnd - (position + 1) + 1
    BY <1>1
  <2> QED
    BY <1>1, <2>2, <2>3
<1>3. file[TextEnd].line \in Lines
  <2>1. file[TextEnd] \in Fragment
    BY <1>1 DEF PublisherTypeOK
  <2> QED
    BY <2>1 DEF Fragment
<1>4. CASE m \in OutboxMeanings(Text)
  BY <1>2, <1>3, <1>4 DEF OutboxMeanings, Lines
<1>5. CASE m \in TraceMeanings(Text)
  BY <1>2, <1>3, <1>5 DEF TraceMeanings, Last, Lines
<1> QED
  BY <1>4, <1>5 DEF Meanings

-----------------------------------------------------------------------------
(* The steps, one by one.                                                  *)

LEMMA PublisherStarts == PublisherInit => PublisherInv
<1> SUFFICES ASSUME PublisherInit PROVE PublisherInv
  OBVIOUS
<1>1. /\ Len(file) = 0 /\ appended = 0 /\ position = 0 /\ whole = {}
      /\ script = "off" /\ sending = 0 /\ sent = {} /\ late = {}
      /\ clear_on_success = FALSE /\ kind \in {"outbox", "trace"}
  BY DEF PublisherInit
<1>2. file \in Seq(Fragment)
  BY EmptySeq DEF PublisherInit
<1>3. PublisherTypeOK
  <2>1. appended \in 0 .. MaxLines /\ sending \in 0 .. MaxLines
    BY <1>1
  <2>2. position \in 0 .. Len(file)
    BY <1>1
  <2> QED
    BY <1>1, <1>2, <2>1, <2>2 DEF PublisherTypeOK
<1> QED
  BY <1>1, <1>3 DEF PublisherInv, LinesStayUntilSent, WholeFragments,
                    PassedAreSent

\* The new line is newer than all others.
LEMMA AppendLineKeeps == PublisherInv /\ AppendLine => PublisherInv'
<1> SUFFICES ASSUME PublisherInv, AppendLine PROVE PublisherInv'
  OBVIOUS
<1> USE DEF AppendLine, scriptVars
<1>1. PICK part \in Parts :
        /\ file' = Append(file, [line |-> appended + 1, part |-> part])
        /\ whole' = IF part = "whole" THEN whole \cup {appended + 1} ELSE whole
  OBVIOUS
<1>2. /\ file \in Seq(Fragment) /\ Len(file) \in Nat
      /\ appended \in Nat /\ appended + 1 \in Lines
      /\ [line |-> appended + 1, part |-> part] \in Fragment
  BY DEF PublisherInv, LinesStayUntilSent, PublisherTypeOK, Lines, Fragment
<1>3. /\ file' \in Seq(Fragment)
      /\ Len(file') = Len(file) + 1
      /\ file'[Len(file) + 1] = [line |-> appended + 1, part |-> part]
      /\ \A e \in 1 .. Len(file) : file'[e] = file[e]
  BY <1>1, <1>2, AppendProperties
<1>4. PublisherTypeOK'
  BY <1>1, <1>2, <1>3 DEF PublisherInv, LinesStayUntilSent, PublisherTypeOK,
                          Lines
<1>5. WholeFragments'
  <2>1. whole' \subseteq 1 .. appended'
    BY <1>1, <1>2 DEF PublisherInv, WholeFragments
  <2>2. ASSUME NEW e \in 1 .. Len(file')
        PROVE  /\ file'[e].line <= appended'
               /\ file'[e].line \in whole' => file'[e].part = "whole"
    <3>1. CASE e = Len(file) + 1
      <4>1. file'[e].line = appended + 1 /\ file'[e].part = part
        BY <1>3, <3>1
      <4>2. appended + 1 \notin whole
        BY <1>2 DEF PublisherInv, WholeFragments
      <4> QED
        BY <1>1, <1>2, <4>1, <4>2
    <3>2. CASE e \in 1 .. Len(file)
      <4>1. file'[e] = file[e] /\ file[e].line <= appended
        BY <1>2, <1>3, <3>2 DEF PublisherInv, WholeFragments
      <4>2. file[e].line \in Nat
        <5>1. file[e] \in Fragment
          BY <1>2, <3>2
        <5> QED
          BY <5>1 DEF Fragment, Lines
      <4> QED
        BY <1>1, <1>2, <3>2, <4>1, <4>2 DEF PublisherInv, WholeFragments
    <3> QED
      BY <1>2, <1>3, <3>1, <3>2
  <2> QED
    BY <2>1, <2>2 DEF WholeFragments
<1>6. PassedAreSent'
  <2>1. ASSUME NEW e \in 1 .. position PROVE file'[e] = file[e]
    BY <1>2, <1>3 DEF PublisherInv, LinesStayUntilSent, PublisherTypeOK
  <2> QED
    BY <2>1 DEF PublisherInv, PassedAreSent, Handled
<1>7. whole' \subseteq LinesOf(file') \cup sent' \cup late'
  <2>1. ASSUME NEW l \in LinesOf(file) PROVE l \in LinesOf(file')
    BY <1>2, <1>3 DEF LinesOf
  <2>2. appended + 1 \in LinesOf(file')
    <3>1. Len(file) + 1 \in DOMAIN file'
      BY <1>2, <1>3
    <3> QED
      BY <1>3, <3>1 DEF LinesOf
  <2> QED
    BY <1>1, <2>1, <2>2 DEF PublisherInv, LinesStayUntilSent
<1> QED
  BY <1>4, <1>5, <1>6, <1>7 DEF PublisherInv, LinesStayUntilSent

LEMMA ReadTextKeeps == PublisherInv /\ ReadText => PublisherInv'
<1> SUFFICES ASSUME PublisherInv, ReadText PROVE PublisherInv'
  OBVIOUS
<1> USE DEF ReadText, programVars
<1>1. PublisherTypeOK /\ position \in Nat /\ Len(file) \in Nat
  BY DEF PublisherInv, LinesStayUntilSent, PublisherTypeOK
<1>2. LinesStayUntilSent' <=> PublisherTypeOK'
  BY DEF PublisherInv, LinesStayUntilSent, LinesOf
<1>3. WholeFragments'
  BY DEF PublisherInv, WholeFragments
<1>4. CASE script' = "off" /\ UNCHANGED <<sending, position>>
  BY <1>1, <1>2, <1>3, <1>4 DEF PublisherInv, PublisherTypeOK, PassedAreSent
<1>5. CASE sending' \in Meanings /\ script' = "send" /\ position' = TextEnd
  <2>1. /\ TextEnd \in position + 1 .. Len(file)
        /\ \A e \in position + 1 .. TextEnd - 1 : file[e].part # "whole"
    BY <1>1, TextEnds
  <2>2. /\ sending' \in 0 .. MaxLines
        /\ file[TextEnd].part = "whole" => file[TextEnd].line = sending'
    BY <1>1, <1>5, MeaningIsLast
  <2>3. PublisherTypeOK'
    BY <1>1, <1>5, <2>1, <2>2 DEF PublisherTypeOK
  <2>4. ASSUME NEW e \in 1 .. position', file[e].part = "whole"
        PROVE  file[e].line \in sent \cup {sending'}
    <3>1. CASE e \in 1 .. position
      BY <2>4, <3>1 DEF PublisherInv, PassedAreSent, Handled
    <3>2. CASE e \in position + 1 .. TextEnd - 1
      BY <2>1, <2>4, <3>2
    <3>3. CASE e = TextEnd
      BY <2>2, <2>4, <3>3
    <3> QED
      BY <1>1, <1>5, <2>1, <3>1, <3>2, <3>3
  <2>5. PassedAreSent'
    BY <1>5, <2>4 DEF PassedAreSent, Handled
  <2> QED
    BY <1>2, <1>3, <2>3, <2>5 DEF PublisherInv
<1> QED
  BY <1>4, <1>5

LEMMA SendKeeps == PublisherInv /\ Send => PublisherInv'
<1> SUFFICES ASSUME PublisherInv, Send PROVE PublisherInv'
  OBVIOUS
<1> USE DEF Send, AfterFailure, programVars
<1>1. PublisherTypeOK'
  BY DEF PublisherInv, LinesStayUntilSent, PublisherTypeOK, Lines
<1>2. LinesStayUntilSent'
  BY <1>1 DEF PublisherInv, LinesStayUntilSent, LinesOf
<1>3. WholeFragments'
  BY DEF PublisherInv, WholeFragments
<1>4. PassedAreSent'
  <2>1. CASE script' = "off"
    BY <2>1 DEF PassedAreSent
  <2>2. CASE script' = "read" /\ sent' = sent \cup ({sending} \ {0})
    <3>1. ASSUME NEW e \in 1 .. position, file[e].part = "whole"
          PROVE  file[e].line \in sent'
      <4>1. file[e].line \in sent \cup {sending}
        BY <3>1 DEF PublisherInv, PassedAreSent, Handled
      <4>2. file[e].line # 0
        <5>1. e \in 1 .. Len(file) /\ file[e] \in Fragment
          BY DEF PublisherInv, LinesStayUntilSent, PublisherTypeOK
        <5> QED
          BY <5>1 DEF Fragment, Lines
      <4> QED
        BY <2>2, <4>1, <4>2
    <3> QED
      BY <2>2, <3>1 DEF PassedAreSent, Handled
  <2> QED
    BY <2>1, <2>2
<1> QED
  BY <1>2, <1>3, <1>4 DEF PublisherInv

\* What the script had passed was sent, and what it had not is late.
LEMMA ClearFileKeeps == PublisherInv /\ ClearFile => PublisherInv'
<1> SUFFICES ASSUME PublisherInv, ClearFile PROVE PublisherInv'
  OBVIOUS
<1> USE DEF ClearFile, programVars
<1> DEFINE rest == SubSeq(file, position + 1, Len(file))
<1>1. /\ PublisherTypeOK /\ position \in 0 .. Len(file) /\ Len(file) \in Nat
      /\ DOMAIN file = 1 .. Len(file)
      /\ file \in Seq(Fragment)
  BY DEF PublisherInv, LinesStayUntilSent, PublisherTypeOK
<1>2. /\ file' \in Seq(Fragment) /\ Len(file') = 0
      /\ position' = 0 /\ script' = "off"
  BY EmptySeq
<1>3. /\ rest \in Seq(Fragment)
      /\ Len(rest) = Len(file) - position
      /\ \A k \in 1 .. Len(file) - position : rest[k] = file[position + k]
  <2>1. \A k \in position + 1 .. Len(file) :
          file[k] \in Fragment
    BY <1>1
  <2>2. /\ rest \in Seq(Fragment)
        /\ Len(rest) = IF position + 1 <= Len(file)
                       THEN Len(file) - (position + 1) + 1 ELSE 0
        /\ \A k \in 1 .. Len(file) - (position + 1) + 1 :
             rest[k] = file[(position + 1) + k - 1]
    BY <1>1, <2>1, SubSeqProperties
  <2> HIDE DEF rest
  <2>3. Len(rest) = Len(file) - position
    <3>1. CASE position + 1 <= Len(file)
      BY <1>1, <2>2, <3>1
    <3>2. CASE position = Len(file)
      BY <1>1, <2>2, <3>2
    <3>3. position \in Nat /\ Len(file) \in Nat /\ position <= Len(file)
      BY <1>1
    <3> QED
      BY <3>1, <3>2, <3>3
  <2>4. ASSUME NEW k \in 1 .. Len(file) - position
        PROVE  rest[k] = file[position + k]
    <3>1. /\ k \in 1 .. Len(file) - (position + 1) + 1
          /\ (position + 1) + k - 1 = position + k
      BY <1>1
    <3> QED
      BY <2>2, <3>1
  <2> QED
    BY <2>2, <2>3, <2>4
<1> HIDE DEF rest
<1>4. late' = late \cup LinesOf(rest)
  BY DEF rest
<1>5. LinesOf(rest) \subseteq Lines
  <2>1. ASSUME NEW k \in DOMAIN rest PROVE rest[k].line \in Lines
    <3>1. rest[k] \in Fragment
      BY <1>3
    <3> QED
      BY <3>1 DEF Fragment
  <2> QED
    BY <2>1 DEF LinesOf
<1>6. PublisherTypeOK'
  BY <1>1, <1>2, <1>4, <1>5 DEF PublisherTypeOK
<1>7. ASSUME NEW l \in whole PROVE l \in sent \cup late'
  <2>1. CASE l \in LinesOf(file)
    <3>1. PICK e \in 1 .. Len(file) : l = file[e].line
      BY <1>1, <2>1 DEF LinesOf
    <3>2. CASE e \in 1 .. position
      BY <3>1, <3>2 DEF PublisherInv, WholeFragments, PassedAreSent, Handled
    <3>3. CASE e \notin 1 .. position
      <4>1. e - position \in 1 .. Len(rest) /\ rest[e - position] = file[e]
        <5>1. /\ e - position \in 1 .. Len(file) - position
              /\ position + (e - position) = e
          BY <1>1, <3>3
        <5> QED
          BY <1>3, <5>1
      <4>2. e - position \in DOMAIN rest
        BY <1>3, <4>1
      <4> QED
        BY <1>4, <3>1, <4>1, <4>2 DEF LinesOf
    <3> QED
      BY <3>2, <3>3
  <2>2. CASE l \in sent \cup late
    BY <1>4, <2>2
  <2> QED
    BY <2>1, <2>2 DEF PublisherInv, LinesStayUntilSent
<1>8. LinesStayUntilSent'
  BY <1>6, <1>7 DEF LinesStayUntilSent
<1>9. WholeFragments'
  BY <1>2 DEF PublisherInv, WholeFragments
<1>10. PassedAreSent'
  BY <1>2 DEF PassedAreSent
<1> QED
  BY <1>8, <1>9, <1>10 DEF PublisherInv

\* The steps that leave the file and what was sent alone, and have read no
\* more than the script had.
LEMMA ScriptStepKeeps ==
  ASSUME PublisherInv, UNCHANGED <<kind, file, programVars, sent, late>>,
         sending' \in 0 .. MaxLines, clear_on_success' \in BOOLEAN,
         \/ script' = "off" /\ position' \in {0, position}
         \/ script' \in {"read", "clear"} /\ position' = 0
         \/ script' \in {"read", "clear"} /\ script = "read"
              /\ position' = position
  PROVE  PublisherInv'
<1>1. PublisherTypeOK'
  BY DEF PublisherInv, LinesStayUntilSent, PublisherTypeOK, programVars
<1>2. LinesStayUntilSent' /\ WholeFragments'
  BY <1>1 DEF PublisherInv, LinesStayUntilSent, WholeFragments, LinesOf,
              programVars
<1>3. PassedAreSent'
  BY DEF PublisherInv, PassedAreSent, Handled
<1> QED
  BY <1>2, <1>3 DEF PublisherInv

LEMMA PublisherSteps ==
  PublisherInv /\ [PublisherNext]_publisherVars => PublisherInv'
<1> SUFFICES ASSUME PublisherInv, [PublisherNext]_publisherVars
             PROVE  PublisherInv'
  OBVIOUS
<1>1. sending \in 0 .. MaxLines /\ clear_on_success \in BOOLEAN /\ 0 \in 0 .. MaxLines
  BY DEF PublisherInv, LinesStayUntilSent, PublisherTypeOK
<1>2. CASE AppendLine
  BY <1>2, AppendLineKeeps
<1>3. CASE StartScript
  BY <1>1, <1>3, ScriptStepKeeps DEF StartScript
<1>4. CASE ReadText
  BY <1>4, ReadTextKeeps
<1>5. CASE Send
  BY <1>5, SendKeeps
<1>6. CASE FindEnd
  BY <1>1, <1>6, ScriptStepKeeps DEF FindEnd
<1>7. CASE ClearFile
  BY <1>7, ClearFileKeeps
<1>8. CASE StopScript
  BY <1>1, <1>8, ScriptStepKeeps DEF StopScript
<1>9. CASE UNCHANGED publisherVars
  BY <1>9 DEF publisherVars, programVars, scriptVars, PublisherInv,
              LinesStayUntilSent, PublisherTypeOK, WholeFragments,
              PassedAreSent, Handled, LinesOf
<1> QED
  BY <1>2, <1>3, <1>4, <1>5, <1>6, <1>7, <1>8, <1>9 DEF PublisherNext

\* However often the program appends to the file, in whole or in part, and
\* scripts read, fail, are stopped and empty it, a whole line is in the file
\* until it was sent, but for those that come between the end of the reading
\* and the emptying (publish-mqtt-outbox.sh, send-can-trace.sh).
THEOREM NoLineIsLost == PublisherSpec => []LinesStayUntilSent
<1>1. PublisherInit => PublisherInv
  BY PublisherStarts
<1>2. PublisherInv /\ [PublisherNext]_publisherVars => PublisherInv'
  BY PublisherSteps
<1>3. PublisherInv => LinesStayUntilSent
  BY DEF PublisherInv
<1> QED
  BY <1>1, <1>2, <1>3, PTL DEF PublisherSpec

-----------------------------------------------------------------------------
\* A line of s ends in the cells c at e.
EndsIn(c, s, e) == /\ e \in LineBytes .. Len(c)
                   /\ \A i \in 1 .. LineBytes : c[e - LineBytes + i] = <<s, i>>

EndsUpTo(c, s, n) == {e \in 1 .. n : EndsIn(c, s, e)}

\* What a recovery would keep of the storage file.
Kept == IF CursorReadable THEN cursor.byte_offset ELSE Len(storage)

\* One line of the batch is on its way.
OnItsWay(at, s) == IF step = at /\ s = batch THEN 1 ELSE 0

CountsAgree ==
  /\ step # "idle" => cycles >= 1
  /\ step \in {"storage", "cursor_open", "cursor_write", "outbox", "can",
               "heartbeat"} => processed_batches < cycles
  /\ processed_batches <= Len(heartbeat)
  /\ processed_batches > 0 => LinesIn(heartbeat, last_sequence) > 0
  /\ status.ok => /\ status.processed <= Len(heartbeat)
                  /\ LinesIn(heartbeat, status.last) > 0

CursorIsTrue ==
  CursorReadable => /\ cursor.line_bytes = LineBytes
                    /\ cursor.line_checksum = Line(cursor.sequence)
                    /\ EndsIn(storage, cursor.sequence, cursor.byte_offset)

LineIsWritten ==
  step \in {"cursor_open", "cursor_write"} =>
    /\ line_start + LineBytes = Len(storage)
    /\ EndsIn(storage, batch, Len(storage))
    /\ \A s \in SequenceNumbers :
         Cardinality(EndsUpTo(storage, s, line_start)) >= LinesIn(mqtt_outbox, s)

\* Every output is backed by what a recovery would leave of the one before it.
OutputsAreBacked ==
  \A s \in SequenceNumbers :
    /\ Cardinality(EndsUpTo(storage, s, Kept))
         >= LinesIn(mqtt_outbox, s) + OnItsWay("outbox", s)
    /\ LinesIn(mqtt_outbox, s) >= LinesIn(can_trace, s) + OnItsWay("can", s)
    /\ LinesIn(can_trace, s) >= LinesIn(heartbeat, s) + OnItsWay("heartbeat", s)

Follows(s) == /\ Len(mqtt_outbox) > 0
              /\ s = NextSequence(mqtt_outbox[Len(mqtt_outbox)])

BatchesFollow ==
  /\ step = "read" /\ processed_batches > 0 => Follows(expected)
  /\ step \in {"storage", "cursor_open", "cursor_write", "outbox"} =>
       /\ processed_batches > 0 => Follows(batch)
       /\ expected = NextSequence(batch)
  /\ step \in {"can", "heartbeat"} => Follows(expected)

PipelineInv == TypeOK /\ CountsAgree /\ CursorIsTrue /\ LineIsWritten
                 /\ OutputsAreBacked /\ BatchesFollow

-----------------------------------------------------------------------------
(* The pipeline: lines in the storage file, and lines in the outputs.      *)

USE LineAssumption, ModulusAssumption, BoundsAssumption

LEMMA LineIsCells ==
  ASSUME NEW s \in SequenceNumbers
  PROVE  /\ Line(s) \in Seq(Cells) /\ Len(Line(s)) = LineBytes
         /\ \A i \in 1 .. LineBytes : Line(s)[i] = <<s, i>>
<1>1. \A i \in 1 .. LineBytes : <<s, i>> \in Cells
  BY DEF Cells
<1>2. Line(s) \in [1 .. LineBytes -> Cells]
  BY <1>1 DEF Line
<1>3. Line(s) \in Seq(Cells) /\ Len(Line(s)) = LineBytes
  BY <1>2, LineBytes \in Nat, LenProperties, SeqDef
<1> QED
  BY <1>3 DEF Line

\* A part of the cells.
LEMMA PartOf ==
  ASSUME NEW c \in Seq(Cells), NEW m \in Nat \ {0}, NEW n \in Nat,
         m <= n + 1, n <= Len(c)
  PROVE  /\ SubSeq(c, m, n) \in Seq(Cells)
         /\ Len(SubSeq(c, m, n)) = n - m + 1
         /\ \A i \in 1 .. n - m + 1 : SubSeq(c, m, n)[i] = c[m + i - 1]
<1>1. \A i \in m .. n : c[i] \in Cells
  <2>1. Len(c) \in Nat
    OBVIOUS
  <2> QED
    BY <2>1
<1>2. /\ SubSeq(c, m, n) \in Seq(Cells)
      /\ Len(SubSeq(c, m, n)) = IF m <= n THEN n - m + 1 ELSE 0
      /\ \A i \in 1 .. n - m + 1 : SubSeq(c, m, n)[i] = c[m + i - 1]
  BY <1>1, SubSeqProperties
<1>3. ~(m <= n) => n - m + 1 = 0
  OBVIOUS
<1> QED
  BY <1>2, <1>3

LEMMA EndsIsPart ==
  ASSUME NEW c \in Seq(Cells), NEW s \in SequenceNumbers, NEW e \in Int
  PROVE  EndsIn(c, s, e) <=>
           /\ e \in LineBytes .. Len(c)
           /\ SubSeq(c, e - LineBytes + 1, e) = Line(s)
<1> SUFFICES ASSUME e \in LineBytes .. Len(c)
             PROVE  (\A i \in 1 .. LineBytes : c[e - LineBytes + i] = <<s, i>>)
                      <=> SubSeq(c, e - LineBytes + 1, e) = Line(s)
  BY DEF EndsIn
<1> DEFINE m == e - LineBytes + 1
           part == SubSeq(c, m, e)
<1>1. m \in Nat \ {0} /\ e \in Nat /\ m <= e + 1 /\ e <= Len(c)
      /\ e - m + 1 = LineBytes
  OBVIOUS
<1>2. /\ part \in Seq(Cells) /\ Len(part) = LineBytes
      /\ \A i \in 1 .. LineBytes : part[i] = c[m + i - 1]
  BY <1>1, PartOf
<1>3. \A i \in 1 .. LineBytes : m + i - 1 = e - LineBytes + i
  OBVIOUS
<1>4. /\ Line(s) \in Seq(Cells) /\ Len(Line(s)) = LineBytes
      /\ \A i \in 1 .. LineBytes : Line(s)[i] = <<s, i>>
  BY LineIsCells
<1> HIDE DEF part
<1>5. part = Line(s) <=> \A i \in 1 .. LineBytes : part[i] = Line(s)[i]
  BY <1>2, <1>4, SeqEqual
<1> QED
  BY <1>2, <1>3, <1>4, <1>5 DEF part

\* Lines stay where they are when cells are appended, and when cells behind
\* them are cut off.
LEMMA EndsStay ==
  ASSUME NEW c \in Seq(Cells), NEW d \in Seq(Cells), NEW n \in Nat,
         n <= Len(c), n <= Len(d), \A i \in 1 .. n : d[i] = c[i],
         NEW s \in SequenceNumbers
  PROVE  /\ \A e \in 1 .. n : EndsIn(c, s, e) <=> EndsIn(d, s, e)
         /\ EndsUpTo(c, s, n) = EndsUpTo(d, s, n)
<1>1. ASSUME NEW e \in 1 .. n PROVE EndsIn(c, s, e) <=> EndsIn(d, s, e)
  <2>1. e \in LineBytes .. Len(c) <=> e \in LineBytes .. Len(d)
    BY Len(c) \in Nat, Len(d) \in Nat
  <2>2. CASE e >= LineBytes
    <3>1. \A i \in 1 .. LineBytes : c[e - LineBytes + i] = d[e - LineBytes + i]
      <4>1. \A i \in 1 .. LineBytes : e - LineBytes + i \in 1 .. n
        BY <2>2
      <4> QED
        BY <4>1
    <3> QED
      BY <2>1, <3>1 DEF EndsIn
  <2>3. CASE ~(e >= LineBytes)
    BY <2>3 DEF EndsIn
  <2> QED
    BY <2>2, <2>3
<1> QED
  BY <1>1 DEF EndsUpTo

LEMMA EndsFinite ==
  ASSUME NEW c, NEW s, NEW n \in Nat
  PROVE  /\ IsFiniteSet(EndsUpTo(c, s, n))
         /\ Cardinality(EndsUpTo(c, s, n)) \in Nat
<1>1. IsFiniteSet(1 .. n)
  BY FS_Interval
<1>2. EndsUpTo(c, s, n) \subseteq 1 .. n
  BY DEF EndsUpTo
<1> QED
  BY <1>1, <1>2, FS_Subset, FS_CardinalityType

LEMMA EndsMonotone ==
  ASSUME NEW c, NEW s, NEW n \in Nat, NEW m \in Nat, m <= n
  PROVE  Cardinality(EndsUpTo(c, s, m)) <= Cardinality(EndsUpTo(c, s, n))
<1>1. EndsUpTo(c, s, m) \subseteq EndsUpTo(c, s, n)
  BY DEF EndsUpTo
<1> QED
  BY <1>1, EndsFinite, FS_Subset

\* A line that ends later counts for one more.
LEMMA OneMoreEnds ==
  ASSUME NEW c, NEW s, NEW n \in Nat, NEW m \in Nat, m < n, EndsIn(c, s, n)
  PROVE  Cardinality(EndsUpTo(c, s, n)) >= Cardinality(EndsUpTo(c, s, m)) + 1
<1> DEFINE M == EndsUpTo(c, s, m)
<1>1. n \notin M /\ M \cup {n} \subseteq EndsUpTo(c, s, n)
  BY DEF EndsUpTo
<1>2. IsFiniteSet(M) /\ Cardinality(M) \in Nat
  BY EndsFinite
<1> HIDE DEF M
<1>3. Cardinality(M \cup {n}) = Cardinality(M) + 1
  BY <1>1, <1>2, FS_AddElement
<1>4. /\ IsFiniteSet(EndsUpTo(c, s, n))
      /\ Cardinality(EndsUpTo(c, s, n)) \in Nat
  BY EndsFinite
<1>5. Cardinality(M \cup {n}) <= Cardinality(EndsUpTo(c, s, n))
  BY <1>1, <1>4, FS_Subset
<1> QED
  BY <1>2, <1>3, <1>4, <1>5 DEF M

\* An output that a line is appended to has one more of it.
LEMMA LinesInType ==
  ASSUME NEW output \in Seq(SequenceNumbers), NEW s
  PROVE  /\ LinesIn(output, s) \in Nat
         /\ LinesIn(output, s) <= Len(output)
<1> DEFINE at == {i \in DOMAIN output : output[i] = s}
<1>1. IsFiniteSet(1 .. Len(output)) /\ Cardinality(1 .. Len(output)) = Len(output)
  BY Len(output) \in Nat, FS_Interval
<1>2. at \subseteq 1 .. Len(output)
  OBVIOUS
<1>3. Cardinality(at) \in Nat /\ Cardinality(at) <= Len(output)
  <2> HIDE DEF at
  <2> QED
    BY <1>1, <1>2, FS_Subset, FS_CardinalityType
<1> QED
  BY <1>3 DEF LinesIn

LEMMA OneMoreLine ==
  ASSUME NEW output \in Seq(SequenceNumbers), NEW b \in SequenceNumbers,
         NEW s \in SequenceNumbers
  PROVE  LinesIn(Append(output, b), s)
           = LinesIn(output, s) + (IF s = b THEN 1 ELSE 0)
<1> DEFINE n == Len(output) + 1
           longer == Append(output, b)
           before == {i \in DOMAIN output : output[i] = s}
           after == {i \in DOMAIN longer : longer[i] = s}
<1>1. /\ DOMAIN output = 1 .. Len(output) /\ Len(output) \in Nat
      /\ DOMAIN longer = 1 .. n /\ longer[n] = b
      /\ \A i \in 1 .. Len(output) : longer[i] = output[i]
  BY AppendProperties
<1>2. IsFiniteSet(before) /\ n \notin before /\ Cardinality(before) \in Nat
  <2>1. before \subseteq 1 .. Len(output)
    BY <1>1
  <2>2. IsFiniteSet(1 .. Len(output))
    BY <1>1, FS_Interval
  <2>3. n \notin before
    BY <1>1, <2>1
  <2> HIDE DEF before
  <2>4. IsFiniteSet(before)
    BY <2>1, <2>2, FS_Subset
  <2> QED
    BY <2>3, <2>4, FS_CardinalityType
<1> HIDE DEF longer
<1>3. CASE s = b
  <2>1. after = before \cup {n}
    BY <1>1, <1>3
  <2>2. Cardinality(before \cup {n}) = Cardinality(before) + 1
    <3> HIDE DEF before, n
    <3> QED
      BY <1>2, FS_AddElement
  <2> QED
    BY <1>3, <2>1, <2>2 DEF LinesIn, longer
<1>4. CASE s # b
  <2>1. after = before
    BY <1>1, <1>4
  <2>2. LinesIn(longer, s) = LinesIn(output, s)
    BY <2>1 DEF LinesIn
  <2>3. LinesIn(output, s) \in Nat
    BY <1>2 DEF LinesIn
  <2> QED
    BY <1>4, <2>2, <2>3 DEF longer
<1> QED
  BY <1>3, <1>4

-----------------------------------------------------------------------------
(* Types.                                                                  *)

LEMMA PipelineBounds ==
  /\ MaxCycles \in Nat /\ MaxRuns \in Nat
  /\ LineBytes \in Nat \ {0} /\ SeqModulus \in Nat \ {0}
OBVIOUS

CursorFiles == [sequence : SequenceNumbers, byte_offset : Nat,
                line_bytes : Nat, line_checksum : Seq(Cells)]

LEMMA PipelineTypes ==
  TypeOK => /\ storage \in Seq(Cells) /\ Len(storage) \in Nat
            /\ Kept \in Nat /\ line_start \in Nat
            /\ mqtt_outbox \in Seq(SequenceNumbers)
            /\ can_trace \in Seq(SequenceNumbers)
            /\ heartbeat \in Seq(SequenceNumbers)
            /\ batch \in SequenceNumbers /\ cursor \in CursorFiles
            /\ cursor.byte_offset \in Nat /\ cursor.line_bytes \in Nat
            /\ cursor.sequence \in SequenceNumbers
            /\ cycles \in Nat /\ processed_batches \in Nat
            /\ processed_batches <= cycles
<1> SUFFICES ASSUME TypeOK
             PROVE  /\ storage \in Seq(Cells) /\ Len(storage) \in Nat
                    /\ Kept \in Nat /\ line_start \in Nat
                    /\ mqtt_outbox \in Seq(SequenceNumbers)
                    /\ can_trace \in Seq(SequenceNumbers)
                    /\ heartbeat \in Seq(SequenceNumbers)
                    /\ batch \in SequenceNumbers /\ cursor \in CursorFiles
                    /\ cursor.byte_offset \in Nat /\ cursor.line_bytes \in Nat
                    /\ cursor.sequence \in SequenceNumbers
                    /\ cycles \in Nat /\ processed_batches \in Nat
                    /\ processed_batches <= cycles
  OBVIOUS
<1>1. storage \in Seq(Cells) /\ Len(storage) \in Nat
  BY DEF TypeOK
<1>2. cursor \in CursorFiles
  BY DEF TypeOK, CursorFiles
<1>3. /\ cursor.byte_offset \in Nat /\ cursor.line_bytes \in Nat
      /\ cursor.sequence \in SequenceNumbers
  BY <1>2 DEF CursorFiles
<1>4. Kept \in Nat
  BY <1>1, <1>3 DEF Kept
<1>5. cycles \in Nat /\ processed_batches \in Nat
      /\ processed_batches <= cycles
  BY DEF TypeOK
<1> QED
  BY <1>1, <1>2, <1>3, <1>4, <1>5 DEF TypeOK

LEMMA NextSequenceType ==
  ASSUME NEW s \in SequenceNumbers
  PROVE  NextSequence(s) \in SequenceNumbers /\ NextSequence(s) # NoSequence
<1>1. SeqModulus \in Nat \ {0} /\ s + 1 \in Int
  BY DEF SequenceNumbers
<1>2. (s + 1) % SeqModulus \in 0 .. SeqModulus - 1
  BY <1>1
<1> QED
  BY <1>2 DEF NextSequence, SequenceNumbers, NoSequence

LEMMA UnreadableIsUnreadable ==
  UnreadableCursor \in CursorFiles /\ UnreadableCursor.byte_offset = 0
<1>1. 0 \in SequenceNumbers /\ 0 \in Nat
  BY DEF SequenceNumbers
<1>2. <<>> \in Seq(Cells)
  BY EmptySeq
<1> QED
  BY <1>1, <1>2 DEF UnreadableCursor, CursorFiles

LEMMA PipelineTypeInit == Init => TypeOK
<1> SUFFICES ASSUME Init PROVE TypeOK
  OBVIOUS
<1>1. /\ runs \in 0 .. MaxRuns /\ cycles \in 0 .. MaxCycles
      /\ processed_batches \in 0 .. cycles /\ line_start \in Nat
      /\ batch \in SequenceNumbers /\ last_sequence \in SequenceNumbers
  BY DEF Init, SequenceNumbers
<1>2. cursor \in CursorFiles
  BY UnreadableIsUnreadable DEF Init
<1>3. storage \in Seq(Cells)
  BY EmptySeq DEF Init
<1>4. /\ mqtt_outbox \in Seq(SequenceNumbers)
      /\ can_trace \in Seq(SequenceNumbers)
      /\ heartbeat \in Seq(SequenceNumbers)
  BY EmptySeq DEF Init
<1>5. status \in Statuses
  <2>1. 0 \in SequenceNumbers /\ 0 \in 0 .. MaxCycles
    BY DEF SequenceNumbers
  <2> QED
    BY <2>1 DEF Init, Statuses
<1>6. /\ step = "idle" /\ source_kind = "replay" /\ expected = NoSequence
  BY DEF Init
<1> QED
  BY <1>1, <1>2, <1>3, <1>4, <1>5, <1>6 DEF TypeOK, CursorFiles

LEMMA StatusNumbers ==
  ASSUME TypeOK
  PROVE  /\ processed_batches \in 0 .. MaxCycles
         /\ last_sequence \in SequenceNumbers
         /\ 0 \in 0 .. MaxCycles /\ 0 \in SequenceNumbers
<1>1. cycles \in 0 .. MaxCycles /\ processed_batches \in 0 .. cycles
  BY DEF TypeOK
<1>2. last_sequence \in SequenceNumbers
  BY DEF TypeOK
<1> QED
  BY <1>1, <1>2 DEF SequenceNumbers

LEMMA StatusType ==
  ASSUME TypeOK, NEW ok \in BOOLEAN,
         NEW error \in {"", "source_open", "source_read", "sequence_gap",
                        "output_write"},
         WriteStatus(ok, error)
  PROVE  status' \in Statuses
<1>1. processed_batches \in 0 .. MaxCycles /\ last_sequence \in SequenceNumbers
  BY StatusNumbers
<1>2. 0 \in 0 .. MaxCycles /\ 0 \in SequenceNumbers
  BY StatusNumbers
<1>3. CASE status' = status
  BY <1>3 DEF TypeOK
<1>4. CASE status' = [ok |-> FALSE, processed |-> 0, last |-> 0,
                      error |-> "truncated"]
  BY <1>2, <1>4 DEF Statuses
<1>5. CASE status' = [ok |-> ok, processed |-> processed_batches,
                      last |-> last_sequence, error |-> error]
  BY <1>1, <1>5 DEF Statuses
<1> QED
  BY <1>3, <1>4, <1>5 DEF WriteStatus

LEMMA PipelineTypeNext == PipelineInv /\ [Next]_vars => TypeOK'
<1> SUFFICES ASSUME PipelineInv, [Next]_vars PROVE TypeOK'
  OBVIOUS
<1> USE DEF runVars, outputVars
<1>t. TypeOK
  BY DEF PipelineInv
<1>1. CASE StartRun
  <2>1. PICK options \in RunOptions :
          /\ cycles' = options.cycles /\ source_kind' = options.source_kind
          /\ step' \in {"read", "source_open"}
    BY <1>1 DEF StartRun
  <2>2. /\ cycles' \in 0 .. MaxCycles
        /\ source_kind' \in {"replay", "file"}
    BY <2>1, CommandLinesAssumption DEF RunOptions
  <2>3. /\ runs' \in 0 .. MaxRuns /\ processed_batches' = 0
        /\ last_sequence' = 0 /\ expected' = NoSequence
        /\ UNCHANGED <<batch, line_start, storage, cursor, outputVars, status>>
    BY <1>1, <1>t DEF StartRun, TypeOK
  <2>4. processed_batches' \in 0 .. cycles' /\ last_sequence' \in SequenceNumbers
    BY <2>2, <2>3 DEF SequenceNumbers
  <2> QED
    BY <1>t, <2>1, <2>2, <2>3, <2>4 DEF TypeOK
<1>2. CASE ReadBatch
  <2>1. ASSUME NEW s \in NumbersRead
        PROVE  s \in SequenceNumbers /\ NextSequence(s) \in SequenceNumbers
    <3>1. processed_batches \in Int /\ SeqModulus \in Nat \ {0}
      BY <1>t, PipelineTypes
    <3>2. processed_batches % SeqModulus \in 0 .. SeqModulus - 1
      BY <3>1
    <3>3. s \in SequenceNumbers
      BY <3>2 DEF NumbersRead, SequenceNumbers
    <3> QED
      BY <3>3, NextSequenceType
  <2>2. /\ batch' \in SequenceNumbers
        /\ expected' \in SequenceNumbers \cup {NoSequence}
        /\ step' \in {"storage", "sequence_gap", "source_read"}
    BY <1>2, <1>t, <2>1 DEF ReadBatch, TypeOK
  <2> QED
    BY <1>2, <1>t, <2>2 DEF ReadBatch, TypeOK
<1>3. CASE AppendStorage
  <2>1. PICK written \in 0 .. LineBytes :
          /\ storage' = storage \o SubSeq(Line(batch), 1, written)
          /\ step' \in {"cursor_open", "output_write"}
    BY <1>3 DEF AppendStorage
  <2>2. /\ Line(batch) \in Seq(Cells) /\ Len(Line(batch)) = LineBytes
        /\ storage \in Seq(Cells)
    BY <1>t, LineIsCells, PipelineTypes
  <2>3. SubSeq(Line(batch), 1, written) \in Seq(Cells)
    BY <2>2, PartOf
  <2>4. storage' \in Seq(Cells)
    BY <2>1, <2>2, <2>3, ConcatProperties
  <2>5. line_start' \in Nat
    BY <1>3, <1>t, PipelineTypes DEF AppendStorage
  <2> QED
    BY <1>3, <1>t, <2>1, <2>4, <2>5 DEF AppendStorage, TypeOK
<1>4. CASE OpenCursor
  <2>1. cursor' \in CursorFiles /\ step' \in {"cursor_write", "output_write"}
    BY <1>4, <1>t, PipelineTypes, UnreadableIsUnreadable DEF OpenCursor
  <2> QED
    BY <1>4, <1>t, <2>1 DEF OpenCursor, TypeOK, CursorFiles
<1>5. CASE WriteCursor
  <2>1. Len(storage) \in Nat /\ Len(storage) - line_start \in Nat
    <3>1. line_start + LineBytes = Len(storage)
      BY <1>5 DEF WriteCursor, PipelineInv, LineIsWritten
    <3> QED
      BY <1>t, <3>1, PipelineTypes
  <2>2. [sequence |-> batch, byte_offset |-> EndOffset,
         line_bytes |-> Len(storage) - line_start,
         line_checksum |-> Line(batch)] \in CursorFiles
    BY <1>t, <2>1, LineIsCells, PipelineTypes DEF CursorFiles, EndOffset
  <2>3. cursor' \in CursorFiles /\ step' \in {"outbox", "output_write"}
    BY <1>5, <1>t, <2>2, PipelineTypes DEF WriteCursor
  <2> QED
    BY <1>5, <1>t, <2>3 DEF WriteCursor, TypeOK, CursorFiles
<1>6. CASE AppendOutbox
  <2>1. mqtt_outbox' \in Seq(SequenceNumbers)
    <3>1. batch \in SequenceNumbers /\ mqtt_outbox \in Seq(SequenceNumbers)
      BY <1>t, PipelineTypes
    <3>2. Append(mqtt_outbox, batch) \in Seq(SequenceNumbers)
      BY <3>1, AppendProperties
    <3> QED
      BY <1>6, <3>1, <3>2 DEF AppendOutbox
  <2> QED
    BY <1>6, <1>t, <2>1 DEF AppendOutbox, TypeOK
<1>7. CASE AppendCanTrace
  <2>1. can_trace' \in Seq(SequenceNumbers)
    <3>1. batch \in SequenceNumbers /\ can_trace \in Seq(SequenceNumbers)
      BY <1>t, PipelineTypes
    <3>2. Append(can_trace, batch) \in Seq(SequenceNumbers)
      BY <3>1, AppendProperties
    <3> QED
      BY <1>7, <3>1, <3>2 DEF AppendCanTrace
  <2> QED
    BY <1>7, <1>t, <2>1 DEF AppendCanTrace, TypeOK
<1>8. CASE AppendHeartbeat
  <2>1. heartbeat' \in Seq(SequenceNumbers)
    <3>1. batch \in SequenceNumbers /\ heartbeat \in Seq(SequenceNumbers)
      BY <1>t, PipelineTypes
    <3>2. Append(heartbeat, batch) \in Seq(SequenceNumbers)
      BY <3>1, AppendProperties
    <3> QED
      BY <1>8, <3>1, <3>2 DEF AppendHeartbeat
  <2>2. /\ processed_batches' \in 0 .. cycles
        /\ last_sequence' \in SequenceNumbers
        /\ step' \in {"read", "output_write"}
    <3>1. processed_batches < cycles
      BY <1>8 DEF AppendHeartbeat, PipelineInv, CountsAgree
    <3>2. processed_batches + 1 \in 0 .. cycles
      BY <1>t, <3>1, PipelineTypes
    <3> QED
      BY <1>8, <1>t, <3>2 DEF AppendHeartbeat, TypeOK
  <2> QED
    BY <1>8, <1>t, <2>1, <2>2 DEF AppendHeartbeat, TypeOK
<1>9. CASE EndRun \/ FailRun
  <2>1. /\ status' \in Statuses /\ step' = "idle"
        /\ UNCHANGED <<runVars, storage, cursor, outputVars>>
    BY <1>9, <1>t, StatusType DEF EndRun, FailRun, WriteStatus
  <2> QED
    BY <1>t, <2>1 DEF TypeOK
<1>10. CASE Crash
  BY <1>10, <1>t DEF Crash, TypeOK
<1>11. CASE Recover
  <2>1. SubSeq(storage, 1, cursor.byte_offset) \in Seq(Cells)
    <3>1. /\ cursor.byte_offset <= Len(storage) /\ cursor.byte_offset \in Nat
          /\ storage \in Seq(Cells)
      BY <1>11, <1>t, PipelineTypes DEF Recover, Recoverable,
                                     CursorLineVerified
    <3> QED
      BY <3>1, PartOf
  <2> QED
    BY <1>11, <1>t, <2>1 DEF Recover, RecoverOffset, TypeOK
<1>12. CASE UNCHANGED vars
  BY <1>12, <1>t DEF vars, TypeOK
<1> QED
  BY <1>1, <1>2, <1>3, <1>4, <1>5, <1>6, <1>7, <1>8, <1>9, <1>10, <1>11,
     <1>12 DEF Next

-----------------------------------------------------------------------------
(* The invariant, part by part.                                            *)

LEMMA PipelineInit == Init => PipelineInv
<1> SUFFICES ASSUME Init PROVE PipelineInv
  OBVIOUS
<1>1. /\ step = "idle" /\ processed_batches = 0 /\ cursor = UnreadableCursor
      /\ status.ok = FALSE /\ Len(storage) = 0
      /\ mqtt_outbox = can_trace /\ can_trace = heartbeat
  BY DEF Init
<1>2. TypeOK
  BY PipelineTypeInit
<1>3. ~CursorReadable
  BY <1>1, UnreadableIsUnreadable DEF CursorReadable
<1>4. CountsAgree
  <2>1. Len(heartbeat) \in Nat
    BY <1>2, PipelineTypes
  <2> QED
    BY <1>1, <2>1 DEF CountsAgree
<1>5. CursorIsTrue /\ LineIsWritten /\ BatchesFollow
  BY <1>1, <1>3 DEF CursorIsTrue, LineIsWritten, BatchesFollow
<1>6. OutputsAreBacked
  <2>1. ASSUME NEW s \in SequenceNumbers
        PROVE  LinesIn(mqtt_outbox, s) = 0
    <3>1. /\ LinesIn(mqtt_outbox, s) \in Nat
          /\ LinesIn(mqtt_outbox, s) <= Len(mqtt_outbox)
      BY <1>2, PipelineTypes, LinesInType
    <3>2. Len(mqtt_outbox) = 0
      BY DEF Init
    <3> QED
      BY <3>1, <3>2
  <2>2. ASSUME NEW s \in SequenceNumbers
        PROVE  Cardinality(EndsUpTo(storage, s, Kept)) >= 0
    <3>1. Cardinality(EndsUpTo(storage, s, Kept)) \in Nat
      BY <1>2, PipelineTypes, EndsFinite
    <3> QED
      BY <3>1
  <2>3. \A s \in SequenceNumbers, at \in {"outbox", "can", "heartbeat"} :
          OnItsWay(at, s) = 0
    BY <1>1 DEF OnItsWay
  <2> QED
    BY <1>1, <2>1, <2>2, <2>3 DEF OutputsAreBacked
<1> QED
  BY <1>2, <1>4, <1>5, <1>6 DEF PipelineInv

LEMMA FieldsOfStatus ==
  ASSUME NEW Errors,
         NEW s \in [ok : BOOLEAN, processed : 0 .. MaxCycles,
                    last : SequenceNumbers, error : Errors]
  PROVE  s.last \in SequenceNumbers /\ s.processed \in Int
OBVIOUS

LEMMA StatusFields ==
  ASSUME NEW s \in Statuses
  PROVE  s.last \in SequenceNumbers /\ s.processed \in Int
BY FieldsOfStatus DEF Statuses

LEMMA StatusWritten ==
  ASSUME NEW ok \in BOOLEAN, NEW error, WriteStatus(ok, error)
  PROVE  \/ status' = status
         \/ status'.ok = FALSE
         \/ /\ status'.processed = processed_batches
            /\ status'.last = last_sequence
BY DEF WriteStatus

LEMMA CountsNext == PipelineInv /\ [Next]_vars => CountsAgree'
<1> SUFFICES ASSUME PipelineInv, [Next]_vars PROVE CountsAgree'
  OBVIOUS
<1> USE DEF runVars, outputVars
<1>t. TypeOK /\ CountsAgree
  BY DEF PipelineInv
<1>p. cycles \in Nat /\ processed_batches \in Nat /\ Len(heartbeat) \in Nat
      /\ processed_batches <= cycles
  BY <1>t, PipelineTypes
<1>1. CASE StartRun
  <2>1. PICK options \in RunOptions : cycles' = options.cycles
    BY <1>1 DEF StartRun
  <2>2. cycles' \in 1 .. MaxCycles
    BY <2>1, CommandLinesAssumption DEF RunOptions
  <2>3. /\ processed_batches' = 0 /\ step' \in {"read", "source_open"}
        /\ UNCHANGED <<heartbeat, status>>
    BY <1>1 DEF StartRun
  <2> QED
    BY <1>t, <1>p, <2>2, <2>3 DEF CountsAgree, LinesIn
<1>2. CASE ReadBatch
  BY <1>2, <1>t, <1>p DEF ReadBatch, CountsAgree, LinesIn
<1>3. CASE AppendStorage \/ OpenCursor \/ WriteCursor \/ AppendOutbox
             \/ AppendCanTrace
  <2>1. /\ step # "idle" /\ step' # "idle"
        /\ UNCHANGED <<cycles, processed_batches, last_sequence, heartbeat,
                       status>>
        /\ step \in {"storage", "cursor_open", "cursor_write", "outbox", "can"}
    BY <1>3 DEF AppendStorage, OpenCursor, WriteCursor, AppendOutbox,
                AppendCanTrace
  <2> QED
    BY <1>t, <2>1 DEF CountsAgree, LinesIn
<1>4. CASE AppendHeartbeat
  <2>1. /\ step = "heartbeat" /\ step' \in {"read", "output_write"}
        /\ UNCHANGED <<cycles, status>>
    BY <1>4 DEF AppendHeartbeat
  <2>2. CASE /\ heartbeat' = Append(heartbeat, batch)
             /\ processed_batches' = processed_batches + 1
             /\ last_sequence' = batch
    <3>1. /\ heartbeat \in Seq(SequenceNumbers) /\ batch \in SequenceNumbers
          /\ status \in Statuses
      BY <1>t, PipelineTypes DEF TypeOK
    <3>2. Len(heartbeat') = Len(heartbeat) + 1
      BY <2>2, <3>1, AppendProperties
    <3>3. \A s \in SequenceNumbers :
            /\ LinesIn(heartbeat', s)
                 = LinesIn(heartbeat, s) + (IF s = batch THEN 1 ELSE 0)
            /\ LinesIn(heartbeat, s) \in Nat
      BY <2>2, <3>1, OneMoreLine, LinesInType
    <3>4. LinesIn(heartbeat', last_sequence') > 0
      BY <2>2, <3>1, <3>3
    <3>5. status.ok => /\ status.processed <= Len(heartbeat')
                       /\ LinesIn(heartbeat', status.last) > 0
      <4>1. status.last \in SequenceNumbers /\ status.processed \in Int
        BY <3>1, StatusFields
      <4> QED
        BY <1>t, <1>p, <3>2, <3>3, <4>1 DEF CountsAgree
    <3> QED
      BY <1>t, <1>p, <2>1, <2>2, <3>2, <3>4, <3>5 DEF CountsAgree
  <2>3. CASE /\ step' = "output_write"
             /\ UNCHANGED <<heartbeat, processed_batches, last_sequence>>
    BY <1>t, <2>1, <2>3 DEF CountsAgree
  <2> QED
    BY <1>4, <2>2, <2>3 DEF AppendHeartbeat
<1>5. CASE EndRun
  <2>1. /\ step' = "idle" /\ step # "idle" /\ processed_batches = cycles
        /\ UNCHANGED <<cycles, processed_batches, last_sequence, heartbeat>>
        /\ \/ status' = status
           \/ status'.ok = FALSE
           \/ /\ status'.processed = processed_batches
              /\ status'.last = last_sequence
    <3>1. PICK error : WriteStatus(TRUE, error)
      BY <1>5 DEF EndRun
    <3>2. step = "read" /\ processed_batches = cycles
      BY <1>5 DEF EndRun
    <3> QED
      BY <3>1, <3>2, StatusWritten DEF WriteStatus
  <2>2. processed_batches > 0 /\ processed_batches <= Len(heartbeat)
        /\ LinesIn(heartbeat, last_sequence) > 0
    BY <1>t, <1>p, <2>1 DEF CountsAgree
  <2> QED
    BY <1>t, <2>1, <2>2 DEF CountsAgree
<1>6. CASE FailRun
  <2>1. /\ step' = "idle"
        /\ UNCHANGED <<cycles, processed_batches, last_sequence, heartbeat>>
        /\ status' = status \/ status'.ok = FALSE
    BY <1>6 DEF FailRun, WriteStatus
  <2> QED
    BY <1>t, <2>1 DEF CountsAgree
<1>7. CASE Crash \/ Recover \/ UNCHANGED vars
  <2>1. /\ step' \in {step, "idle"}
        /\ UNCHANGED <<cycles, processed_batches, last_sequence, heartbeat,
                       status>>
    BY <1>7 DEF Crash, Recover, vars
  <2> QED
    BY <1>t, <2>1 DEF CountsAgree
<1> QED
  BY <1>1, <1>2, <1>3, <1>4, <1>5, <1>6, <1>7 DEF Next

LEMMA FollowsNext == PipelineInv /\ [Next]_vars => BatchesFollow'
<1> SUFFICES ASSUME PipelineInv, [Next]_vars PROVE BatchesFollow'
  OBVIOUS
<1> USE DEF runVars, outputVars
<1>t. TypeOK /\ BatchesFollow
  BY DEF PipelineInv
<1>1. CASE StartRun
  <2>1. processed_batches' = 0 /\ step' \in {"read", "source_open"}
    BY <1>1 DEF StartRun
  <2> QED
    BY <2>1 DEF BatchesFollow
<1>2. CASE ReadBatch
  <2>1. /\ step = "read" /\ UNCHANGED <<mqtt_outbox, processed_batches>>
    BY <1>2 DEF ReadBatch
  <2>2. CASE step' \in {"source_read", "sequence_gap"}
    BY <2>2 DEF BatchesFollow
  <2>3. CASE /\ step' = "storage" /\ InOrder(batch')
             /\ expected' = NextSequence(batch')
    <3>1. processed_batches > 0 => Follows(batch')
      <4> SUFFICES ASSUME processed_batches > 0 PROVE Follows(batch')
        OBVIOUS
      <4>1. Follows(expected)
        BY <1>t, <2>1 DEF BatchesFollow
      <4>2. mqtt_outbox[Len(mqtt_outbox)] \in SequenceNumbers
        BY <1>t, <4>1, PipelineTypes DEF Follows
      <4>3. expected # NoSequence
        BY <4>1, <4>2, NextSequenceType DEF Follows
      <4> QED
        BY <2>3, <4>1, <4>3 DEF InOrder
    <3> QED
      BY <2>1, <2>3, <3>1 DEF BatchesFollow, Follows
  <2> QED
    BY <1>2, <2>2, <2>3 DEF ReadBatch
<1>3. CASE AppendStorage \/ OpenCursor \/ WriteCursor
  <2>1. /\ UNCHANGED <<mqtt_outbox, batch, expected, processed_batches>>
        /\ step \in {"storage", "cursor_open", "cursor_write"}
        /\ step' \in {"cursor_open", "cursor_write", "outbox", "output_write"}
    BY <1>3 DEF AppendStorage, OpenCursor, WriteCursor
  <2> QED
    BY <1>t, <2>1 DEF BatchesFollow, Follows
<1>4. CASE AppendOutbox
  <2>1. step = "outbox" /\ UNCHANGED <<batch, expected>>
    BY <1>4 DEF AppendOutbox
  <2>2. CASE step' = "output_write"
    BY <2>2 DEF BatchesFollow
  <2>3. CASE step' = "can" /\ mqtt_outbox' = Append(mqtt_outbox, batch)
    <3>1. /\ Len(mqtt_outbox') = Len(mqtt_outbox) + 1
          /\ mqtt_outbox'[Len(mqtt_outbox) + 1] = batch
          /\ Len(mqtt_outbox) \in Nat
      BY <1>t, <2>3, PipelineTypes, AppendProperties
    <3>2. expected = NextSequence(batch)
      BY <1>t, <2>1 DEF BatchesFollow
    <3> QED
      BY <2>1, <2>3, <3>1, <3>2 DEF BatchesFollow, Follows
  <2> QED
    BY <1>4, <2>2, <2>3 DEF AppendOutbox
<1>5. CASE AppendCanTrace \/ AppendHeartbeat
  <2>1. /\ step \in {"can", "heartbeat"} /\ UNCHANGED <<mqtt_outbox, expected>>
        /\ step' \in {"heartbeat", "read", "output_write"}
    BY <1>5 DEF AppendCanTrace, AppendHeartbeat
  <2> QED
    BY <1>t, <2>1 DEF BatchesFollow, Follows
<1>6. CASE EndRun \/ FailRun \/ Crash \/ Recover \/ UNCHANGED vars
  <2>1. /\ step' = "idle" \/ UNCHANGED step
        /\ UNCHANGED <<mqtt_outbox, batch, expected, processed_batches>>
    BY <1>6 DEF EndRun, FailRun, WriteStatus, Crash, Recover, vars
  <2> QED
    BY <1>t, <2>1 DEF BatchesFollow, Follows
<1> QED
  BY <1>1, <1>2, <1>3, <1>4, <1>5, <1>6 DEF Next

\* What AppendStorage appends.
LEMMA StorageGrows ==
  ASSUME TypeOK, AppendStorage
  PROVE  /\ storage' \in Seq(Cells) /\ Len(storage') >= Len(storage)
         /\ \A i \in 1 .. Len(storage) : storage'[i] = storage[i]
         /\ step' = "cursor_open" =>
              /\ Len(storage') = Len(storage) + LineBytes
              /\ EndsIn(storage', batch, Len(storage'))
<1>1. PICK written \in 0 .. LineBytes :
        /\ storage' = storage \o SubSeq(Line(batch), 1, written)
        /\ step' = "cursor_open" => written = LineBytes
  BY DEF AppendStorage, AppendSucceeded
<1>2. /\ Line(batch) \in Seq(Cells) /\ Len(Line(batch)) = LineBytes
      /\ \A i \in 1 .. LineBytes : Line(batch)[i] = <<batch, i>>
      /\ storage \in Seq(Cells) /\ Len(storage) \in Nat
  BY LineIsCells, PipelineTypes
<1> DEFINE part == SubSeq(Line(batch), 1, written)
<1>3. /\ part \in Seq(Cells) /\ Len(part) = written
      /\ \A i \in 1 .. written : part[i] = Line(batch)[i]
  <2>1. /\ 1 \in Nat \ {0} /\ written \in Nat /\ written <= LineBytes
        /\ 1 <= written + 1
    OBVIOUS
  <2>2. /\ part \in Seq(Cells) /\ Len(part) = written - 1 + 1
        /\ \A i \in 1 .. written - 1 + 1 : part[i] = Line(batch)[1 + i - 1]
    BY <1>2, <2>1, PartOf
  <2> HIDE DEF part
  <2>3. \A i \in 1 .. written : 1 + i - 1 = i
    OBVIOUS
  <2> QED
    BY <2>1, <2>2, <2>3
<1>4. storage' = storage \o part
  BY <1>1
<1> HIDE DEF part
<1>5. /\ storage' \in Seq(Cells) /\ Len(storage') = Len(storage) + written
      /\ \A i \in 1 .. Len(storage) : storage'[i] = storage[i]
      /\ \A i \in 1 .. written : storage'[Len(storage) + i] = part[i]
  <2>1. /\ storage' \in Seq(Cells) /\ Len(storage') = Len(storage) + Len(part)
        /\ \A i \in 1 .. Len(storage) + Len(part) :
             storage'[i] = IF i <= Len(storage) THEN storage[i]
                           ELSE part[i - Len(storage)]
    BY <1>2, <1>3, <1>4, ConcatProperties
  <2>2. ASSUME NEW i \in 1 .. Len(storage) PROVE storage'[i] = storage[i]
    BY <1>2, <1>3, <2>1
  <2>3. ASSUME NEW i \in 1 .. written PROVE storage'[Len(storage) + i] = part[i]
    <3>1. /\ Len(storage) + i \in 1 .. Len(storage) + Len(part)
          /\ ~(Len(storage) + i <= Len(storage))
          /\ Len(storage) + i - Len(storage) = i
      BY <1>2, <1>3
    <3> QED
      BY <2>1, <3>1
  <2> QED
    BY <1>3, <2>1, <2>2, <2>3
<1>6. ASSUME step' = "cursor_open"
      PROVE  /\ Len(storage') = Len(storage) + LineBytes
             /\ EndsIn(storage', batch, Len(storage'))
  <2>1. written = LineBytes
    BY <1>1, <1>6
  <2>2. /\ Len(storage') = Len(storage) + LineBytes
        /\ Len(storage') - LineBytes = Len(storage)
        /\ Len(storage') \in LineBytes .. Len(storage')
    BY <1>2, <1>5, <2>1
  <2>3. \A i \in 1 .. LineBytes : storage'[Len(storage) + i] = <<batch, i>>
    BY <1>2, <1>3, <1>5, <2>1
  <2> QED
    BY <2>2, <2>3 DEF EndsIn
<1> QED
  BY <1>2, <1>5, <1>6

\* What Recover leaves.
LEMMA StorageIsCut ==
  ASSUME TypeOK, Recover
  PROVE  /\ storage' \in Seq(Cells) /\ Len(storage') = cursor.byte_offset
         /\ cursor.byte_offset <= Len(storage)
         /\ \A i \in 1 .. cursor.byte_offset : storage'[i] = storage[i]
<1> DEFINE n == cursor.byte_offset
<1>1. /\ storage \in Seq(Cells) /\ n \in Nat /\ n <= Len(storage)
      /\ storage' = SubSeq(storage, 1, n)
  BY PipelineTypes DEF Recover, Recoverable, RecoverOffset,
                       CursorLineVerified
<1> HIDE DEF n
<1>2. 1 \in Nat \ {0} /\ 1 <= n + 1 /\ n - 1 + 1 = n
      /\ \A i \in 1 .. n : 1 + i - 1 = i
  BY <1>1
<1>3. /\ storage' \in Seq(Cells) /\ Len(storage') = n - 1 + 1
      /\ \A i \in 1 .. n - 1 + 1 : storage'[i] = storage[1 + i - 1]
  BY <1>1, <1>2, PartOf
<1> QED
  BY <1>1, <1>2, <1>3 DEF n

LEMMA CursorNext == PipelineInv /\ [Next]_vars => CursorIsTrue'
<1> SUFFICES ASSUME PipelineInv, [Next]_vars PROVE CursorIsTrue'
  OBVIOUS
<1> USE DEF runVars, outputVars
<1>t. TypeOK /\ CursorIsTrue
  BY DEF PipelineInv
<1>p. /\ storage \in Seq(Cells) /\ Len(storage) \in Nat
      /\ cursor.byte_offset \in Nat /\ cursor.sequence \in SequenceNumbers
      /\ batch \in SequenceNumbers
  BY <1>t, PipelineTypes
<1>1. CASE AppendStorage
  <2>1. UNCHANGED cursor
    BY <1>1 DEF AppendStorage
  <2>2. ASSUME CursorReadable
        PROVE  EndsIn(storage', cursor.sequence, cursor.byte_offset)
    <3>1. /\ EndsIn(storage, cursor.sequence, cursor.byte_offset)
          /\ cursor.byte_offset > 0
      BY <1>t, <2>2 DEF CursorIsTrue, CursorReadable
    <3>2. cursor.byte_offset <= Len(storage)
      BY <1>p, <3>1 DEF EndsIn
    <3>3. /\ storage' \in Seq(Cells) /\ cursor.byte_offset <= Len(storage')
          /\ \A i \in 1 .. cursor.byte_offset : storage'[i] = storage[i]
      BY <1>1, <1>t, <1>p, <3>2, StorageGrows
    <3>4. cursor.byte_offset \in 1 .. cursor.byte_offset
      BY <1>p, <3>1
    <3> QED
      BY <1>p, <3>1, <3>2, <3>3, <3>4, EndsStay
  <2> QED
    BY <1>t, <2>1, <2>2 DEF CursorIsTrue, CursorReadable
<1>2. CASE OpenCursor
  <2>1. CASE cursor' = UnreadableCursor
    BY <2>1, UnreadableIsUnreadable DEF CursorIsTrue, CursorReadable
  <2>2. CASE UNCHANGED cursor
    BY <1>2, <1>t, <2>2 DEF OpenCursor, CursorIsTrue, CursorReadable
  <2> QED
    BY <1>2, <2>1, <2>2 DEF OpenCursor
<1>3. CASE WriteCursor
  <2>1. CASE UNCHANGED cursor
    BY <1>3, <1>t, <2>1 DEF WriteCursor, CursorIsTrue, CursorReadable
  <2>2. CASE cursor' = [sequence |-> batch, byte_offset |-> EndOffset,
                        line_bytes |-> Len(storage) - line_start,
                        line_checksum |-> Line(batch)]
    <3>1. /\ line_start + LineBytes = Len(storage)
          /\ EndsIn(storage, batch, Len(storage)) /\ UNCHANGED storage
      BY <1>3 DEF WriteCursor, PipelineInv, LineIsWritten
    <3>2. Len(storage) - line_start = LineBytes
      BY <1>t, <1>p, <3>1, PipelineTypes
    <3>3. /\ cursor'.sequence = batch /\ cursor'.byte_offset = Len(storage)
          /\ cursor'.line_bytes = LineBytes
          /\ cursor'.line_checksum = Line(batch)
      BY <2>2, <3>2 DEF EndOffset
    <3> QED
      BY <3>1, <3>3 DEF CursorIsTrue
  <2> QED
    BY <1>3, <2>1, <2>2 DEF WriteCursor
<1>4. CASE Recover
  <2>1. UNCHANGED cursor
    BY <1>4 DEF Recover
  <2>2. ASSUME CursorReadable
        PROVE  EndsIn(storage', cursor.sequence, cursor.byte_offset)
    <3>1. /\ EndsIn(storage, cursor.sequence, cursor.byte_offset)
          /\ cursor.byte_offset > 0
      BY <1>t, <2>2 DEF CursorIsTrue, CursorReadable
    <3>2. /\ storage' \in Seq(Cells) /\ cursor.byte_offset <= Len(storage')
          /\ cursor.byte_offset <= Len(storage)
          /\ \A i \in 1 .. cursor.byte_offset : storage'[i] = storage[i]
      BY <1>4, <1>t, <1>p, StorageIsCut
    <3>3. cursor.byte_offset \in 1 .. cursor.byte_offset
      BY <1>p, <3>1
    <3> QED
      BY <1>p, <3>1, <3>2, <3>3, EndsStay
  <2> QED
    BY <1>t, <2>1, <2>2 DEF CursorIsTrue, CursorReadable
<1>5. CASE UNCHANGED <<storage, cursor>>
  BY <1>5, <1>t DEF CursorIsTrue, CursorReadable
<1> QED
  BY <1>1, <1>2, <1>3, <1>4, <1>5
     DEF Next, StartRun, ReadBatch, AppendOutbox, AppendCanTrace,
         AppendHeartbeat, EndRun, FailRun, WriteStatus, Crash, vars

\* Everything that the cursor lets a recovery keep is in the file.
LEMMA KeptIsStored ==
  ASSUME TypeOK, CursorIsTrue
  PROVE  Kept \in Nat /\ Kept <= Len(storage)
<1>1. Len(storage) \in Nat /\ Kept \in Nat
  BY PipelineTypes
<1>2. CursorReadable => cursor.byte_offset <= Len(storage)
  BY <1>1, PipelineTypes DEF CursorIsTrue, EndsIn
<1> QED
  BY <1>1, <1>2 DEF Kept

LEMMA LineNext == PipelineInv /\ [Next]_vars => LineIsWritten'
<1> SUFFICES ASSUME PipelineInv, [Next]_vars PROVE LineIsWritten'
  OBVIOUS
<1> USE DEF runVars, outputVars
<1>t. TypeOK /\ CursorIsTrue /\ LineIsWritten /\ OutputsAreBacked
  BY DEF PipelineInv
<1>1. CASE AppendStorage
  <2> SUFFICES ASSUME step' = "cursor_open"
               PROVE  /\ line_start' + LineBytes = Len(storage')
                      /\ EndsIn(storage', batch', Len(storage'))
                      /\ \A s \in SequenceNumbers :
                           Cardinality(EndsUpTo(storage', s, line_start'))
                             >= LinesIn(mqtt_outbox', s)
    BY <1>1 DEF AppendStorage, LineIsWritten
  <2>1. /\ line_start' = Len(storage) /\ UNCHANGED <<batch, mqtt_outbox>>
        /\ step = "storage"
    BY <1>1 DEF AppendStorage
  <2>2. /\ storage' \in Seq(Cells) /\ Len(storage') >= Len(storage)
        /\ \A i \in 1 .. Len(storage) : storage'[i] = storage[i]
        /\ Len(storage') = Len(storage) + LineBytes
        /\ EndsIn(storage', batch, Len(storage'))
    BY <1>1, <1>t, StorageGrows
  <2>3. ASSUME NEW s \in SequenceNumbers
        PROVE  Cardinality(EndsUpTo(storage', s, line_start'))
                 >= LinesIn(mqtt_outbox', s)
    <3>1. storage \in Seq(Cells) /\ Len(storage) \in Nat
      BY <1>t, PipelineTypes
    <3>2. EndsUpTo(storage', s, line_start') = EndsUpTo(storage, s, Len(storage))
      BY <2>1, <2>2, <3>1, EndsStay
    <3>3. Kept \in Nat /\ Kept <= Len(storage)
      BY <1>t, KeptIsStored
    <3>4. Cardinality(EndsUpTo(storage, s, Kept))
            <= Cardinality(EndsUpTo(storage, s, Len(storage)))
      BY <3>1, <3>3, EndsMonotone
    <3>5. /\ Cardinality(EndsUpTo(storage, s, Kept)) \in Nat
          /\ Cardinality(EndsUpTo(storage, s, Len(storage))) \in Nat
          /\ LinesIn(mqtt_outbox, s) \in Nat
      BY <1>t, <3>1, <3>3, EndsFinite, LinesInType, PipelineTypes
    <3>6. Cardinality(EndsUpTo(storage, s, Kept)) >= LinesIn(mqtt_outbox, s)
      <4>1. OnItsWay("outbox", s) = 0
        BY <2>1 DEF OnItsWay
      <4> QED
        BY <1>t, <3>5, <4>1 DEF OutputsAreBacked
    <3>7. UNCHANGED mqtt_outbox
      BY <2>1
    <3> QED
      BY <3>2, <3>4, <3>5, <3>6, <3>7
  <2> QED
    BY <2>1, <2>2, <2>3
<1>2. CASE OpenCursor
  <2>1. /\ step = "cursor_open"
        /\ UNCHANGED <<line_start, storage, batch, mqtt_outbox>>
    BY <1>2 DEF OpenCursor
  <2> QED
    BY <1>t, <2>1 DEF LineIsWritten
<1>3. CASE UNCHANGED vars
  BY <1>3, <1>t DEF vars, LineIsWritten
<1>4. CASE step' \notin {"cursor_open", "cursor_write"}
  BY <1>4 DEF LineIsWritten
<1>5. CASE Recover
  <2>1. step' = "idle"
    BY <1>5 DEF Recover
  <2> QED
    BY <2>1 DEF LineIsWritten
<1> QED
  BY <1>1, <1>2, <1>3, <1>4, <1>5
     DEF Next, StartRun, ReadBatch, WriteCursor, AppendOutbox, AppendCanTrace,
         AppendHeartbeat, EndRun, FailRun, WriteStatus, Crash

LEMMA KeptLater == TypeOK' => (Kept \in Nat)'
<1>1. TypeOK => Kept \in Nat
  BY PipelineTypes
<1> QED
  BY <1>1, PTL

\* Steps that leave the outputs alone, and what a recovery would keep of the
\* lines, except that the storage may get more.
LEMMA BackedStays ==
  ASSUME PipelineInv, TypeOK', UNCHANGED <<batch, outputVars>>,
         \A s \in SequenceNumbers :
           Cardinality(EndsUpTo(storage', s, Kept'))
             >= Cardinality(EndsUpTo(storage, s, Kept)),
         step' \notin {"outbox", "can", "heartbeat"} \/ UNCHANGED step
  PROVE  OutputsAreBacked'
<1> SUFFICES ASSUME NEW s \in SequenceNumbers
             PROVE  /\ Cardinality(EndsUpTo(storage', s, Kept'))
                         >= LinesIn(mqtt_outbox', s) + OnItsWay("outbox", s)'
                    /\ LinesIn(mqtt_outbox', s)
                         >= LinesIn(can_trace', s) + OnItsWay("can", s)'
                    /\ LinesIn(can_trace', s)
                         >= LinesIn(heartbeat', s) + OnItsWay("heartbeat", s)'
  BY DEF OutputsAreBacked
<1>t. TypeOK /\ OutputsAreBacked
  BY DEF PipelineInv
<1>1. /\ Cardinality(EndsUpTo(storage, s, Kept)) \in Nat
      /\ Cardinality(EndsUpTo(storage', s, Kept')) \in Nat
      /\ LinesIn(mqtt_outbox, s) \in Nat /\ LinesIn(can_trace, s) \in Nat
      /\ LinesIn(heartbeat, s) \in Nat
  <2>1. Kept' \in Nat
    BY KeptLater
  <2> QED
    BY <1>t, <2>1, PipelineTypes, EndsFinite, LinesInType
<1>2. \A at \in {"outbox", "can", "heartbeat"} :
        /\ OnItsWay(at, s) \in Nat /\ OnItsWay(at, s)' \in Nat
        /\ OnItsWay(at, s)' <= OnItsWay(at, s)
  BY DEF OnItsWay
<1>3. /\ Cardinality(EndsUpTo(storage, s, Kept))
           >= LinesIn(mqtt_outbox, s) + OnItsWay("outbox", s)
      /\ LinesIn(mqtt_outbox, s) >= LinesIn(can_trace, s) + OnItsWay("can", s)
      /\ LinesIn(can_trace, s) >= LinesIn(heartbeat, s) + OnItsWay("heartbeat", s)
  BY <1>t DEF OutputsAreBacked
<1>4. UNCHANGED <<mqtt_outbox, can_trace, heartbeat>>
  BY DEF outputVars
<1> QED
  BY <1>1, <1>2, <1>3, <1>4

LEMMA BackedNext == PipelineInv /\ [Next]_vars /\ TypeOK' => OutputsAreBacked'
<1> SUFFICES ASSUME PipelineInv, [Next]_vars, TypeOK' PROVE OutputsAreBacked'
  OBVIOUS
<1>t. TypeOK /\ CursorIsTrue /\ OutputsAreBacked
  BY DEF PipelineInv
<1>p. /\ storage \in Seq(Cells) /\ Len(storage) \in Nat
      /\ Kept \in Nat /\ Kept' \in Nat /\ Kept <= Len(storage)
      /\ batch \in SequenceNumbers
  BY <1>t, PipelineTypes, KeptIsStored, KeptLater
<1>c. \A s \in SequenceNumbers :
        /\ Cardinality(EndsUpTo(storage, s, Kept)) \in Nat
        /\ LinesIn(mqtt_outbox, s) \in Nat /\ LinesIn(can_trace, s) \in Nat
        /\ LinesIn(heartbeat, s) \in Nat
  BY <1>t, <1>p, PipelineTypes, EndsFinite, LinesInType
<1>b. ASSUME NEW s \in SequenceNumbers
      PROVE  /\ Cardinality(EndsUpTo(storage, s, Kept))
                  >= LinesIn(mqtt_outbox, s) + OnItsWay("outbox", s)
             /\ LinesIn(mqtt_outbox, s) >= LinesIn(can_trace, s) + OnItsWay("can", s)
             /\ LinesIn(can_trace, s)
                  >= LinesIn(heartbeat, s) + OnItsWay("heartbeat", s)
             /\ \A at \in {"outbox", "can", "heartbeat"} : OnItsWay(at, s) \in Nat
  BY <1>t DEF OutputsAreBacked, OnItsWay
<1>1. CASE AppendStorage
  <2>1. /\ UNCHANGED <<batch, outputVars, cursor>>
        /\ step' \in {"cursor_open", "output_write"}
    BY <1>1 DEF AppendStorage
  <2>2. /\ storage' \in Seq(Cells) /\ Len(storage') >= Len(storage)
        /\ \A i \in 1 .. Len(storage) : storage'[i] = storage[i]
    BY <1>1, <1>t, StorageGrows
  <2>3. Kept' >= Kept /\ Kept <= Len(storage')
    <3>1. Len(storage') \in Nat
      BY <2>2
    <3>2. CASE CursorReadable
      BY <1>p, <2>1, <2>2, <3>1, <3>2 DEF Kept, CursorReadable
    <3>3. CASE ~CursorReadable
      BY <1>p, <2>1, <2>2, <3>1, <3>3 DEF Kept, CursorReadable
    <3> QED
      BY <3>2, <3>3
  <2>4. ASSUME NEW s \in SequenceNumbers
        PROVE  Cardinality(EndsUpTo(storage', s, Kept'))
                 >= Cardinality(EndsUpTo(storage, s, Kept))
    <3>1. \A i \in 1 .. Kept : storage'[i] = storage[i]
      BY <1>p, <2>2
    <3>2. EndsUpTo(storage', s, Kept) = EndsUpTo(storage, s, Kept)
      <4> DEFINE n == Kept
      <4>1. n \in Nat /\ n <= Len(storage) /\ n <= Len(storage')
            /\ \A i \in 1 .. n : storage'[i] = storage[i]
        BY <1>p, <2>3, <3>1
      <4> HIDE DEF n
      <4>2. EndsUpTo(storage', s, n) = EndsUpTo(storage, s, n)
        BY <1>p, <2>2, <4>1, EndsStay
      <4> QED
        BY <4>2 DEF n
    <3>3. Cardinality(EndsUpTo(storage', s, Kept))
            <= Cardinality(EndsUpTo(storage', s, Kept'))
      BY <1>p, <2>3, EndsMonotone
    <3>4. Cardinality(EndsUpTo(storage', s, Kept')) \in Nat
      BY <1>p, EndsFinite
    <3> QED
      BY <1>c, <3>2, <3>3, <3>4
  <2> QED
    BY <2>1, <2>4, BackedStays
<1>2. CASE OpenCursor
  <2>1. /\ UNCHANGED <<batch, outputVars, storage>>
        /\ step' \in {"cursor_write", "output_write"}
        /\ cursor' = UnreadableCursor \/ UNCHANGED cursor
    BY <1>2 DEF OpenCursor, runVars
  <2>2. Kept' >= Kept
    <3>1. CASE cursor' = UnreadableCursor
      <4>1. ~CursorReadable'
        BY <3>1, UnreadableIsUnreadable DEF CursorReadable
      <4> QED
        BY <1>p, <2>1, <4>1 DEF Kept
    <3>2. CASE UNCHANGED cursor
      BY <1>p, <2>1, <3>2 DEF Kept, CursorReadable
    <3> QED
      BY <2>1, <3>1, <3>2
  <2>3. ASSUME NEW s \in SequenceNumbers
        PROVE  Cardinality(EndsUpTo(storage', s, Kept'))
                 >= Cardinality(EndsUpTo(storage, s, Kept))
    <3>1. /\ Cardinality(EndsUpTo(storage, s, Kept))
               <= Cardinality(EndsUpTo(storage, s, Kept'))
          /\ Cardinality(EndsUpTo(storage, s, Kept')) \in Nat
      BY <1>p, <2>2, EndsMonotone, EndsFinite
    <3> QED
      BY <1>c, <2>1, <3>1
  <2> QED
    BY <2>1, <2>3, BackedStays
<1>3. CASE WriteCursor
  <2>1. /\ step = "cursor_write" /\ UNCHANGED <<batch, outputVars, storage>>
    BY <1>3 DEF WriteCursor, runVars
  <2>2. CASE step' = "output_write" /\ UNCHANGED cursor
    <3>1. Kept' = Kept
      BY <2>1, <2>2 DEF Kept, CursorReadable
    <3> QED
      BY <1>c, <2>1, <2>2, <3>1, BackedStays
  <2>3. CASE /\ step' = "outbox"
             /\ cursor' = [sequence |-> batch, byte_offset |-> EndOffset,
                           line_bytes |-> Len(storage) - line_start,
                           line_checksum |-> Line(batch)]
    <3>1. /\ line_start + LineBytes = Len(storage)
          /\ EndsIn(storage, batch, Len(storage))
          /\ \A s \in SequenceNumbers :
               Cardinality(EndsUpTo(storage, s, line_start))
                 >= LinesIn(mqtt_outbox, s)
      BY <2>1 DEF PipelineInv, LineIsWritten
    <3>2. line_start \in Nat /\ line_start < Len(storage)
      BY <1>t, <1>p, <3>1, PipelineTypes
    <3>3. Kept' = Len(storage)
      <4>1. cursor'.byte_offset = Len(storage)
        BY <2>3 DEF EndOffset
      <4> QED
        BY <2>1, <4>1 DEF Kept
    <3>4. ASSUME NEW s \in SequenceNumbers
          PROVE  Cardinality(EndsUpTo(storage', s, Kept'))
                   >= LinesIn(mqtt_outbox, s) + (IF s = batch THEN 1 ELSE 0)
      <4>1. /\ Cardinality(EndsUpTo(storage, s, line_start)) \in Nat
            /\ Cardinality(EndsUpTo(storage, s, Len(storage))) \in Nat
            /\ Cardinality(EndsUpTo(storage, s, line_start))
                 >= LinesIn(mqtt_outbox, s)
        BY <1>p, <3>1, <3>2, EndsFinite
      <4>2. CASE s = batch
        <5>1. Cardinality(EndsUpTo(storage, s, Len(storage)))
                >= Cardinality(EndsUpTo(storage, s, line_start)) + 1
          BY <1>p, <3>1, <3>2, <4>2, OneMoreEnds
        <5> QED
          BY <1>c, <2>1, <3>3, <4>1, <4>2, <5>1
      <4>3. CASE s # batch
        <5>1. Cardinality(EndsUpTo(storage, s, line_start))
                <= Cardinality(EndsUpTo(storage, s, Len(storage)))
          BY <1>p, <3>2, EndsMonotone
        <5> QED
          BY <1>c, <2>1, <3>3, <4>1, <4>3, <5>1
      <4> QED
        BY <4>2, <4>3
    <3>5. ASSUME NEW s \in SequenceNumbers
          PROVE  /\ OnItsWay("outbox", s)' = IF s = batch THEN 1 ELSE 0
                 /\ OnItsWay("can", s)' = 0 /\ OnItsWay("heartbeat", s)' = 0
      BY <2>1, <2>3 DEF OnItsWay
    <3>6. \A s \in SequenceNumbers :
            /\ LinesIn(mqtt_outbox, s) >= LinesIn(can_trace, s)
            /\ LinesIn(can_trace, s) >= LinesIn(heartbeat, s)
      BY <1>b, <1>c
    <3>7. UNCHANGED <<mqtt_outbox, can_trace, heartbeat>>
      BY <2>1 DEF outputVars
    <3> QED
      BY <1>c, <3>4, <3>5, <3>6, <3>7 DEF OutputsAreBacked
  <2> QED
    BY <1>3, <2>2, <2>3 DEF WriteCursor
<1>o. /\ mqtt_outbox \in Seq(SequenceNumbers)
      /\ can_trace \in Seq(SequenceNumbers)
      /\ heartbeat \in Seq(SequenceNumbers)
  BY <1>t, PipelineTypes
<1>4. CASE AppendOutbox
  <2>1. /\ step = "outbox" /\ UNCHANGED <<batch, storage, cursor>>
        /\ UNCHANGED <<can_trace, heartbeat>>
    BY <1>4 DEF AppendOutbox, runVars
  <2>2. Kept' = Kept
    BY <2>1 DEF Kept, CursorReadable
  <2>3. CASE step' = "output_write" /\ UNCHANGED mqtt_outbox
    BY <1>c, <2>1, <2>2, <2>3, BackedStays DEF outputVars
  <2>4. CASE step' = "can" /\ mqtt_outbox' = Append(mqtt_outbox, batch)
    <3>1. ASSUME NEW s \in SequenceNumbers
          PROVE  LinesIn(mqtt_outbox', s)
                   = LinesIn(mqtt_outbox, s) + (IF s = batch THEN 1 ELSE 0)
      BY <1>o, <1>p, <2>4, OneMoreLine
    <3>2. ASSUME NEW s \in SequenceNumbers
          PROVE  /\ OnItsWay("outbox", s) = IF s = batch THEN 1 ELSE 0
                 /\ OnItsWay("can", s)' = IF s = batch THEN 1 ELSE 0
                 /\ OnItsWay("outbox", s)' = 0
                 /\ OnItsWay("heartbeat", s)' = 0
      BY <2>1, <2>4 DEF OnItsWay
    <3>3. ASSUME NEW s \in SequenceNumbers
          PROVE  /\ LinesIn(mqtt_outbox, s) >= LinesIn(can_trace, s)
                 /\ LinesIn(can_trace, s) >= LinesIn(heartbeat, s)
      BY <1>b, <1>c
    <3> QED
      BY <1>b, <1>c, <2>1, <2>2, <3>1, <3>2, <3>3 DEF OutputsAreBacked
  <2> QED
    BY <1>4, <2>3, <2>4 DEF AppendOutbox
<1>5. CASE AppendCanTrace
  <2>1. /\ step = "can" /\ UNCHANGED <<batch, storage, cursor>>
        /\ UNCHANGED <<mqtt_outbox, heartbeat>>
    BY <1>5 DEF AppendCanTrace, runVars
  <2>2. Kept' = Kept
    BY <2>1 DEF Kept, CursorReadable
  <2>3. CASE step' = "output_write" /\ UNCHANGED can_trace
    BY <1>c, <2>1, <2>2, <2>3, BackedStays DEF outputVars
  <2>4. CASE step' = "heartbeat" /\ can_trace' = Append(can_trace, batch)
    <3>1. ASSUME NEW s \in SequenceNumbers
          PROVE  LinesIn(can_trace', s)
                   = LinesIn(can_trace, s) + (IF s = batch THEN 1 ELSE 0)
      BY <1>o, <1>p, <2>4, OneMoreLine
    <3>2. ASSUME NEW s \in SequenceNumbers
          PROVE  /\ OnItsWay("can", s) = IF s = batch THEN 1 ELSE 0
                 /\ OnItsWay("heartbeat", s)' = IF s = batch THEN 1 ELSE 0
                 /\ OnItsWay("outbox", s)' = 0 /\ OnItsWay("can", s)' = 0
      BY <2>1, <2>4 DEF OnItsWay
    <3>3. ASSUME NEW s \in SequenceNumbers
          PROVE  /\ Cardinality(EndsUpTo(storage, s, Kept))
                      >= LinesIn(mqtt_outbox, s)
                 /\ LinesIn(can_trace, s) >= LinesIn(heartbeat, s)
      BY <1>b, <1>c
    <3> QED
      BY <1>b, <1>c, <2>1, <2>2, <3>1, <3>2, <3>3 DEF OutputsAreBacked
  <2> QED
    BY <1>5, <2>3, <2>4 DEF AppendCanTrace
<1>6. CASE AppendHeartbeat
  <2>1. /\ step = "heartbeat" /\ UNCHANGED <<batch, storage, cursor>>
        /\ UNCHANGED <<mqtt_outbox, can_trace>>
        /\ step' \in {"read", "output_write"}
        /\ heartbeat' = Append(heartbeat, batch) \/ UNCHANGED heartbeat
    BY <1>6 DEF AppendHeartbeat
  <2>2. Kept' = Kept
    BY <2>1 DEF Kept, CursorReadable
  <2>3. CASE UNCHANGED heartbeat
    BY <1>c, <2>1, <2>2, <2>3, BackedStays DEF outputVars
  <2>4. CASE heartbeat' = Append(heartbeat, batch)
    <3>1. ASSUME NEW s \in SequenceNumbers
          PROVE  LinesIn(heartbeat', s)
                   = LinesIn(heartbeat, s) + (IF s = batch THEN 1 ELSE 0)
      BY <1>o, <1>p, <2>4, OneMoreLine
    <3>2. ASSUME NEW s \in SequenceNumbers
          PROVE  /\ OnItsWay("heartbeat", s) = IF s = batch THEN 1 ELSE 0
                 /\ OnItsWay("outbox", s)' = 0 /\ OnItsWay("can", s)' = 0
                 /\ OnItsWay("heartbeat", s)' = 0
      BY <2>1 DEF OnItsWay
    <3>3. ASSUME NEW s \in SequenceNumbers
          PROVE  /\ Cardinality(EndsUpTo(storage, s, Kept))
                      >= LinesIn(mqtt_outbox, s)
                 /\ LinesIn(mqtt_outbox, s) >= LinesIn(can_trace, s)
      BY <1>b, <1>c
    <3> QED
      BY <1>b, <1>c, <2>1, <2>2, <3>1, <3>2, <3>3 DEF OutputsAreBacked
  <2> QED
    BY <2>1, <2>3, <2>4
<1>7. CASE Recover
  <2>1. /\ step = "idle" /\ UNCHANGED <<step, batch, outputVars, cursor>>
        /\ CursorReadable
    BY <1>7 DEF Recover, Recoverable, runVars
  <2>2. /\ storage' \in Seq(Cells) /\ Len(storage') = cursor.byte_offset
        /\ cursor.byte_offset <= Len(storage)
        /\ \A i \in 1 .. cursor.byte_offset : storage'[i] = storage[i]
    BY <1>7, <1>t, StorageIsCut
  <2>3. Kept = cursor.byte_offset /\ Kept' = cursor.byte_offset
    BY <2>1 DEF Kept, CursorReadable
  <2>4. ASSUME NEW s \in SequenceNumbers
        PROVE  EndsUpTo(storage', s, Kept') = EndsUpTo(storage, s, Kept)
    <3>1. cursor.byte_offset \in Nat /\ cursor.byte_offset <= Len(storage')
      BY <1>t, <2>2, PipelineTypes
    <3>2. EndsUpTo(storage', s, cursor.byte_offset)
            = EndsUpTo(storage, s, cursor.byte_offset)
      BY <1>p, <2>2, <3>1, EndsStay
    <3> QED
      BY <2>3, <3>2
  <2> QED
    BY <1>c, <2>1, <2>4, BackedStays
<1>8. CASE ReadBatch
  <2>1. /\ step' \notin {"outbox", "can", "heartbeat"} /\ step = "read"
        /\ UNCHANGED <<storage, cursor, outputVars>>
    BY <1>8 DEF ReadBatch
  <2>2. Kept' = Kept
    BY <2>1 DEF Kept, CursorReadable
  <2>3. ASSUME NEW s \in SequenceNumbers, NEW at \in {"outbox", "can", "heartbeat"}
        PROVE  OnItsWay(at, s) = 0 /\ OnItsWay(at, s)' = 0
    BY <2>1 DEF OnItsWay
  <2>4. UNCHANGED <<mqtt_outbox, can_trace, heartbeat>>
    BY <2>1 DEF outputVars
  <2>5. ASSUME NEW s \in SequenceNumbers
        PROVE  /\ Cardinality(EndsUpTo(storage', s, Kept'))
                    >= LinesIn(mqtt_outbox', s) + OnItsWay("outbox", s)'
               /\ LinesIn(mqtt_outbox', s)
                    >= LinesIn(can_trace', s) + OnItsWay("can", s)'
               /\ LinesIn(can_trace', s)
                    >= LinesIn(heartbeat', s) + OnItsWay("heartbeat", s)'
    BY <1>b, <2>1, <2>2, <2>3, <2>4
  <2> QED
    BY <2>5 DEF OutputsAreBacked
<1>9. CASE StartRun \/ EndRun \/ FailRun \/ Crash \/ UNCHANGED vars
  <2>1. /\ UNCHANGED <<storage, cursor, batch, outputVars>>
        /\ step' \notin {"outbox", "can", "heartbeat"} \/ UNCHANGED step
    BY <1>9 DEF StartRun, EndRun, FailRun, WriteStatus, Crash, vars, runVars
  <2>2. Kept' = Kept
    BY <2>1 DEF Kept, CursorReadable
  <2> QED
    BY <1>c, <2>1, <2>2, BackedStays
<1> QED
  BY <1>1, <1>2, <1>3, <1>4, <1>5, <1>6, <1>7, <1>8, <1>9 DEF Next

LEMMA PipelineNext == PipelineInv /\ [Next]_vars => PipelineInv'
BY PipelineTypeNext, CountsNext, FollowsNext, CursorNext, LineNext, BackedNext
   DEF PipelineInv

\* What the cursor says of the file, by the checks that the program makes.
LEMMA CursorVerified ==
  ASSUME TypeOK, CursorIsTrue, CursorReadable
  PROVE  CursorLineVerified /\ LineEndsAt(cursor.sequence, cursor.byte_offset)
<1> DEFINE s == cursor.sequence
           e == cursor.byte_offset
<1>1. /\ storage \in Seq(Cells) /\ s \in SequenceNumbers /\ e \in Nat
      /\ cursor.line_bytes = LineBytes /\ cursor.line_checksum = Line(s)
      /\ EndsIn(storage, s, e)
  BY PipelineTypes DEF CursorIsTrue
<1>2. e \in LineBytes .. Len(storage)
      /\ SubSeq(storage, e - LineBytes + 1, e) = Line(s)
  BY <1>1, EndsIsPart
<1>3. LineEndsAt(s, e)
  BY <1>2 DEF LineEndsAt
<1>4. CursorLine = Line(s) /\ e <= Len(storage)
  BY <1>1, <1>2 DEF CursorLine
<1>5. \E i \in DOMAIN CursorLine : CursorLine[i][1] = s
  <2>1. /\ Line(s) \in Seq(Cells) /\ Len(Line(s)) = LineBytes
        /\ \A i \in 1 .. LineBytes : Line(s)[i] = <<s, i>>
    BY <1>1, LineIsCells
  <2>2. 1 \in 1 .. LineBytes /\ 1 \in DOMAIN Line(s)
    BY <2>1
  <2>3. Line(s)[1] = <<s, 1>>
    BY <2>1, <2>2
  <2> QED
    BY <1>4, <2>2, <2>3
<1> QED
  BY <1>1, <1>3, <1>4, <1>5 DEF CursorLineVerified

LEMMA VerifiedLater ==
  TypeOK' /\ CursorIsTrue' /\ CursorReadable' => CursorLineVerified'
<1>1. TypeOK /\ CursorIsTrue /\ CursorReadable => CursorLineVerified
  BY CursorVerified
<1> QED
  BY <1>1, PTL

LEMMA DescribesALine == PipelineInv => CursorDescribesALine
BY CursorVerified DEF PipelineInv, CursorDescribesALine

LEMMA Nested == PipelineInv => OutputsAreNested
<1> SUFFICES ASSUME PipelineInv PROVE OutputsAreNested
  OBVIOUS
<1>t. TypeOK /\ CountsAgree /\ CursorIsTrue /\ OutputsAreBacked
  BY DEF PipelineInv
<1>1. ASSUME NEW s \in SequenceNumbers
      PROVE  /\ LinesStored(s) >= LinesIn(mqtt_outbox, s)
             /\ LinesIn(mqtt_outbox, s) >= LinesIn(can_trace, s)
             /\ LinesIn(can_trace, s) >= LinesIn(heartbeat, s)
  <2>1. /\ storage \in Seq(Cells) /\ Len(storage) \in Nat
        /\ Kept \in Nat /\ Kept <= Len(storage)
    BY <1>t, PipelineTypes, KeptIsStored
  <2>2. LinesStored(s) = Cardinality(EndsUpTo(storage, s, Len(storage)))
    <3>1. ASSUME NEW e \in 1 .. Len(storage)
          PROVE  LineEndsAt(s, e) <=> EndsIn(storage, s, e)
      BY <2>1, EndsIsPart DEF LineEndsAt
    <3>2. DOMAIN storage = 1 .. Len(storage)
      BY <2>1
    <3>3. {e \in DOMAIN storage : LineEndsAt(s, e)}
            = EndsUpTo(storage, s, Len(storage))
      BY <3>1, <3>2 DEF EndsUpTo
    <3> QED
      BY <3>3 DEF LinesStored
  <2>3. Cardinality(EndsUpTo(storage, s, Kept))
          <= Cardinality(EndsUpTo(storage, s, Len(storage)))
    BY <2>1, EndsMonotone
  <2>4. /\ Cardinality(EndsUpTo(storage, s, Kept)) \in Nat
        /\ Cardinality(EndsUpTo(storage, s, Len(storage))) \in Nat
        /\ LinesIn(mqtt_outbox, s) \in Nat /\ LinesIn(can_trace, s) \in Nat
        /\ LinesIn(heartbeat, s) \in Nat
    BY <1>t, <2>1, EndsFinite, LinesInType, PipelineTypes
  <2>5. \A at \in {"outbox", "can", "heartbeat"} : OnItsWay(at, s) \in Nat
    BY DEF OnItsWay
  <2>6. /\ Cardinality(EndsUpTo(storage, s, Kept))
             >= LinesIn(mqtt_outbox, s) + OnItsWay("outbox", s)
        /\ LinesIn(mqtt_outbox, s) >= LinesIn(can_trace, s) + OnItsWay("can", s)
        /\ LinesIn(can_trace, s)
             >= LinesIn(heartbeat, s) + OnItsWay("heartbeat", s)
    BY <1>t DEF OutputsAreBacked
  <2> QED
    BY <2>2, <2>3, <2>4, <2>5, <2>6
<1> QED
  BY <1>t, <1>1 DEF OutputsAreNested, CountsAgree

LEMMA RecoveryStep ==
  PipelineInv /\ [Next]_vars /\ PipelineInv' =>
    [step = "idle" /\ storage' # storage => CheckPasses']_vars
<1> SUFFICES ASSUME PipelineInv, [Next]_vars, PipelineInv', step = "idle",
                    storage' # storage
             PROVE  CheckPasses'
  OBVIOUS
<1>1. Recover
  BY DEF Next, StartRun, ReadBatch, AppendStorage, OpenCursor, WriteCursor,
         AppendOutbox, AppendCanTrace, AppendHeartbeat, EndRun, FailRun,
         WriteStatus, Crash, vars
<1>2. CursorReadable /\ UNCHANGED cursor
  BY <1>1 DEF Recover, Recoverable
<1>3. CursorReadable'
  BY <1>2 DEF CursorReadable
<1>4. Len(storage') = cursor'.byte_offset
  BY <1>1, <1>2, StorageIsCut DEF PipelineInv
<1>5. CursorLineVerified'
  BY <1>3, VerifiedLater DEF PipelineInv
<1> QED
  BY <1>3, <1>4, <1>5 DEF CheckPasses

LEMMA GapStep ==
  PipelineInv /\ [Next]_vars =>
    [mqtt_outbox' # mqtt_outbox /\ processed_batches > 0 =>
       batch = (mqtt_outbox[Len(mqtt_outbox)] + 1) % SeqModulus]_vars
<1> SUFFICES ASSUME PipelineInv, [Next]_vars, mqtt_outbox' # mqtt_outbox,
                    processed_batches > 0
             PROVE  batch = NextSequence(mqtt_outbox[Len(mqtt_outbox)])
  BY DEF NextSequence
<1>1. AppendOutbox
  BY DEF Next, StartRun, ReadBatch, AppendStorage, OpenCursor, WriteCursor,
         AppendCanTrace, AppendHeartbeat, EndRun, FailRun, WriteStatus, Crash,
         Recover, vars, outputVars
<1> QED
  BY <1>1 DEF AppendOutbox, PipelineInv, BatchesFollow, Follows

\* Whatever failed half way, was killed or was recovered before, a cursor that
\* can be read describes a whole line of the storage file
\* (a53_storage_append_batch, a53_storage_recover_tail).
THEOREM CursorIsRight == Spec => []CursorDescribesALine
BY PipelineInit, PipelineNext, DescribesALine, PTL DEF Spec

\* What was published, sent or counted alive is backed by a whole line in the
\* storage file, in any number of runs, failures and recoveries, and a status
\* that says "ok" counts what is in every output (a53_pipeline_run).
THEOREM OutputsAreStored == Spec => []OutputsAreNested
BY PipelineInit, PipelineNext, Nested, PTL DEF Spec

\* After a recovery that cut something off the check of the storage passes
\* (a53_storage_recover_tail, a53_storage_validate_cursor).
THEOREM RecoveryIsComplete == Spec => RecoveredStoragePassesCheck
<1>1. PipelineInv /\ [Next]_vars /\ PipelineInv' =>
        [step = "idle" /\ storage' # storage => CheckPasses']_vars
  BY RecoveryStep
<1> QED
  BY <1>1, PipelineInit, PipelineNext, PTL
     DEF Spec, RecoveredStoragePassesCheck

\* Within a run every batch in the outbox follows the one before it, also
\* where the sequence number wraps around (a53_pipeline_run).
THEOREM GapsStopTheRun == Spec => OutboxHasNoGap
<1>1. PipelineInv /\ [Next]_vars =>
        [mqtt_outbox' # mqtt_outbox /\ processed_batches > 0 =>
           batch = (mqtt_outbox[Len(mqtt_outbox)] + 1) % SeqModulus]_vars
  BY GapStep
<1> QED
  BY <1>1, PipelineInit, PipelineNext, PTL DEF Spec, OutboxHasNoGap

=============================================================================
