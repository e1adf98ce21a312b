-------------------------- MODULE Demo3BoardProofs --------------------------
(***************************************************************************)
(* Proofs about the field side of Demo3, for words, channels, mailboxes,   *)
(* time limits and numbers of samples of any size.                         *)
(*                                                                         *)
(* The register code (RegisterCodec): decoding the registers of a sample   *)
(* gives the sample back, but for its time stamp.                          *)
(*                                                                         *)
(* The board (Demo3Board): none of its four properties says enough to      *)
(* survive a step.  BoardInv adds                                          *)
(*   - what each point of the loop knows of the sample and of the last     *)
(*     polls (SampleIsLast, ClockIsTrue, PollIsShort): the time a poll     *)
(*     has taken so far is waited and what was waited for before it,       *)
(*   - that every piece on the line is of a sample that was taken          *)
(*     (LineHasSamples),                                                   *)
(*   - that the frames of a sample that wait in the mailboxes follow those *)
(*     that the bus has seen, without a hole (FramesFollow), and that no   *)
(*     frame waits twice (FramesDiffer).                                   *)
(***************************************************************************)
EXTENDS Demo3Board, TLAPS

-----------------------------------------------------------------------------
(* What is preserved.                                                      *)

Waiting == [sequence : -1 .. MaxSamples - 1, frame : 0 .. Frames]

MailboxesHoldFrames ==
  /\ mailbox \in [1 .. Mailboxes -> Waiting]
  /\ \A m \in 1 .. Mailboxes :
       mailbox[m] # NoFrame => mailbox[m].sequence >= 0 /\ mailbox[m].frame >= 1

SampleIsLast ==
  /\ taken \in Seq(Sample) /\ Len(taken) = sequence
  /\ sequence = 0 => pc \in {"start", "halted", "acquire"} /\ sample = NoSample
  /\ sequence > 0 => /\ pc \notin {"start", "halted"}
                     /\ sample = taken[sequence]
                     /\ sample.sequence = sequence - 1

\* The clock is since_sample past the last sample, once around at most.
ClockIsTrue ==
  /\ since_sample \in Nat
  /\ now = previous_tick + since_sample
       \/ now = previous_tick + since_sample - TickModulus
  /\ pc = "can" => since_sample = 0
  /\ pc # "can" => last_sample_tick = previous_tick

PollIsShort ==
  /\ pc \notin {"first", "rest", "transmit"} => waited = 0
  /\ pc = "first" => /\ waited <= FrameTimeout + 1
                     /\ since_sample <= Period - 1 + waited
  /\ pc = "rest" => /\ waited <= FrameTimeout + 1
                    /\ since_sample <= Period - 1 + FrameTimeout + 1 + waited
  /\ pc = "transmit" =>
       /\ waited <= TransmitLimit + 1
       /\ since_sample <= Period - 1 + 2 * (FrameTimeout + 1) + waited

Fragments == [registers : Registers, piece : Int]

LineHasSamples ==
  /\ line \in Seq(Fragments)
  /\ \A i \in 1 .. Len(line) :
       \E j \in 1 .. Len(taken) : line[i].registers = ToRegisters(taken[j])

\* Of sample s, the bus has the frames up to k and the mailboxes hold those
\* from there to q.
FollowUpTo(s, k, q) ==
  /\ k <= q /\ on_bus[s] = 1 .. k
  /\ \A m \in 1 .. Mailboxes :
       mailbox[m].sequence = s => mailbox[m].frame \in k + 1 .. q
  /\ \A f \in k + 1 .. q :
       \E m \in 1 .. Mailboxes : mailbox[m] = [sequence |-> s, frame |-> f]
  /\ pc = "can" /\ s = sequence - 1 => q = frame - 1
  /\ s >= sequence => q = 0

FramesFollow ==
  /\ DOMAIN on_bus = 0 .. MaxSamples - 1
  /\ \A s \in 0 .. MaxSamples - 1 :
       \E k \in 0 .. Frames, q \in 0 .. Frames : FollowUpTo(s, k, q)

FramesDiffer ==
  \A m, n \in 1 .. Mailboxes :
    m # n /\ mailbox[m] # NoFrame => mailbox[m] # mailbox[n]

\* The parts of what is preserved, each with its share of TypeOK.
TimeInv ==
  /\ pc \in Positions
  /\ now \in 0 .. TickModulus - 1 /\ previous_tick \in 0 .. TickModulus - 1
  /\ last_sample_tick \in 0 .. TickModulus - 1
  /\ waited \in 0 .. TransmitLimit + FrameTimeout + 1
  /\ ClockIsTrue /\ PollIsShort /\ SamplesKeepPace

PiecesInv ==
  /\ frame \in 1 .. Frames + 1 /\ held \in Piece /\ rx \in Piece
  /\ transmitted \in 0 .. AnswerPieces

SampleInv ==
  /\ sample \in Sample \cup {NoSample} /\ sequence \in 0 .. MaxSamples
  /\ previous_counter \in Word
  /\ SampleIsLast /\ SpeedIsMovement

MailboxInv ==
  /\ \A m \in 1 .. Mailboxes : mailbox[m].sequence < sequence
  /\ MailboxesHoldFrames /\ FramesFollow /\ FramesDiffer

LineInv ==
  /\ LineHasSamples
  /\ published # NoSample =>
       \E i \in 1 .. Len(taken) : published = Received(taken[i])

BoardInv == TimeInv /\ PiecesInv /\ SampleInv /\ MailboxInv /\ LineInv

\* Division with remainder, as the provers need it spelled out.
LEMMA DivMod ==
  ASSUME NEW n \in Nat \ {0}, NEW a \in Int
  PROVE  /\ a \div n \in Int
         /\ a % n \in 0 .. n - 1
         /\ a = n * (a \div n) + (a % n)
  OBVIOUS

\* Distinct multiples of n are at least n apart.
LEMMA MultiplesApart ==
  ASSUME NEW n \in Nat \ {0}, NEW d \in Int, NEW e \in Int, d > e
  PROVE  n * d >= n * e + n
  OBVIOUS

\* The two words of an unsigned value are words and give it back.
LEMMA SplitJoin ==
  ASSUME NEW v \in Unsigned32
  PROVE  /\ High(v) \in Word /\ Low(v) \in Word
         /\ JoinUnsigned(High(v), Low(v)) = v
<1> USE HalfWordAssumption
<1>1. WordBase \in Nat /\ WordBase > 0
  BY DEF WordBase
<1>2. v \in Nat /\ v < WordBase * WordBase
  BY <1>1 DEF Unsigned32
<1>3. Low(v) \in Word
  BY <1>1, <1>2 DEF Low, Word
<1>4. High(v) \in Int /\ v = WordBase * High(v) + Low(v)
  BY <1>1, <1>2, DivMod DEF High, Low
<1> HIDE DEF High, Low
<1>5. High(v) >= 0
  <2>1. SUFFICES ASSUME 0 > High(v) PROVE FALSE
    BY <1>4
  <2>2. WordBase * 0 >= WordBase * High(v) + WordBase
    BY <1>1, <1>4, <2>1, MultiplesApart
  <2> QED BY <1>1, <1>2, <1>3, <1>4, <2>2 DEF Word
<1>6. High(v) < WordBase
  <2>1. SUFFICES ASSUME High(v) >= WordBase PROVE FALSE
    BY <1>1, <1>4
  <2>2. WordBase * High(v) >= WordBase * WordBase
    <3>1. CASE High(v) = WordBase
      BY <1>1, <3>1
    <3>2. CASE High(v) > WordBase
      BY <1>1, <1>4, <3>2, MultiplesApart
    <3> QED BY <1>1, <1>4, <2>1, <3>1, <3>2
  <2> QED BY <1>1, <1>2, <1>3, <1>4, <2>2 DEF Word
<1>7. JoinUnsigned(High(v), Low(v)) = v
  BY <1>1, <1>3, <1>4 DEF JoinUnsigned, Word
<1> QED BY <1>1, <1>3, <1>4, <1>5, <1>6, <1>7 DEF Word

\* The two words of a signed value give it back.
LEMMA SplitJoinSigned ==
  ASSUME NEW v \in Signed32
  PROVE  /\ High(Raw(v)) \in Word /\ Low(Raw(v)) \in Word
         /\ JoinSigned(High(Raw(v)), Low(Raw(v))) = v
<1> USE HalfWordAssumption
<1>1. WordBase \in Nat /\ WordBase > 0 /\ WordBase = 2 * HalfWord
  BY DEF WordBase
<1>2. WordBase * WordBase = HalfWord * WordBase + HalfWord * WordBase
  BY <1>1
<1>3. HalfWord * WordBase \in Nat
  BY <1>1
<1>4. Raw(v) \in Unsigned32
  BY <1>1, <1>2, <1>3 DEF Raw, Unsigned32, Signed32
<1> DEFINE h == High(Raw(v))
           l == Low(Raw(v))
<1>5. h \in Word /\ l \in Word /\ h * WordBase + l = Raw(v)
  BY <1>4, SplitJoin DEF JoinUnsigned
<1>6. CASE v < 0
  <2>1. Raw(v) >= HalfWord * WordBase
    BY <1>2, <1>3, <1>6 DEF Raw, Signed32
  <2>2. ~(h < HalfWord)
    <3>1. SUFFICES ASSUME h + 1 <= HalfWord PROVE FALSE
      BY <1>1, <1>5 DEF Word
    <3>2. (h + 1) * WordBase <= HalfWord * WordBase
      BY <1>1, <1>5, <3>1 DEF Word
    <3>3. (h + 1) * WordBase = h * WordBase + WordBase
      BY <1>1, <1>5 DEF Word
    <3> QED BY <1>1, <1>3, <1>5, <2>1, <3>2, <3>3 DEF Word
  <2>3. Raw(v) = v + WordBase * WordBase
    BY <1>6 DEF Raw
  <2>4. JoinSigned(h, l) = h * WordBase + l - WordBase * WordBase
    BY <2>2 DEF JoinSigned
  <2>5. /\ WordBase * WordBase \in Int /\ v \in Int
        /\ h * WordBase \in Int /\ l \in Int
    BY <1>1, <1>3, <1>5 DEF Signed32, Word
  <2>6. h * WordBase + l = v + WordBase * WordBase
    BY <1>5, <2>3
  <2>7. JoinSigned(h, l) = v
    <3> HIDE DEF h, l
    <3> QED BY ONLY <2>4, <2>5, <2>6
  <2> QED BY <1>5, <2>7
<1>7. CASE v >= 0
  <2>1. Raw(v) < HalfWord * WordBase
    BY <1>3, <1>7 DEF Raw, Signed32
  <2>2. h < HalfWord
    <3>1. SUFFICES ASSUME h >= HalfWord PROVE FALSE
      BY <1>1, <1>5 DEF Word
    <3>2. h * WordBase >= HalfWord * WordBase
      BY <1>1, <1>5, <3>1 DEF Word
    <3> QED BY <1>1, <1>3, <1>5, <2>1, <3>2 DEF Word
  <2> QED BY <1>1, <1>5, <1>7, <2>2 DEF JoinSigned, Raw, Signed32
<1> QED BY <1>3, <1>5, <1>6, <1>7 DEF Signed32

\* What the board encodes the gateway decodes, but for the time stamp.
THEOREM CodecRoundTrip ==
  ASSUME NEW s \in Sample
  PROVE  /\ ToRegisters(s) \in Registers
         /\ FromRegisters(ToRegisters(s)) = Received(s)
<1>1. /\ s.sequence \in Unsigned32 /\ s.speed_rpm \in Unsigned32
      /\ s.digital_bits \in Word /\ s.flags \in Word
      /\ s.analog \in [1 .. Channels -> Signed32]
  BY DEF Sample
<1>2. \A c \in 1 .. Channels :
        /\ High(Raw(s.analog[c])) \in Word /\ Low(Raw(s.analog[c])) \in Word
        /\ JoinSigned(High(Raw(s.analog[c])), Low(Raw(s.analog[c])))
             = s.analog[c]
  BY <1>1, SplitJoinSigned
<1>3. ToRegisters(s) \in Registers
  BY <1>1, <1>2, SplitJoin DEF ToRegisters, Registers
<1>4. FromRegisters(ToRegisters(s)).analog = s.analog
  BY <1>1, <1>2 DEF FromRegisters, ToRegisters
<1>5. FromRegisters(ToRegisters(s)) =
        [sequence |-> s.sequence, timestamp_ms |-> 0, analog |-> s.analog,
         digital_bits |-> s.digital_bits, speed_rpm |-> s.speed_rpm,
         flags |-> s.flags]
  BY <1>1, <1>4, SplitJoin DEF FromRegisters, ToRegisters
<1>6. Received(s) =
        [sequence |-> s.sequence, timestamp_ms |-> 0, analog |-> s.analog,
         digital_bits |-> s.digital_bits, speed_rpm |-> s.speed_rpm,
         flags |-> s.flags]
  BY DEF Received, Sample
<1> QED BY <1>3, <1>5, <1>6


-----------------------------------------------------------------------------
(* Counters that wrap.                                                     *)

\* What adds or takes away n once or not at all leaves the remainder alone.
LEMMA ModIs ==
  ASSUME NEW n \in Nat \ {0}, NEW r \in 0 .. n - 1
  PROVE  r % n = r /\ (r - n) % n = r /\ (r + n) % n = r
<1>1. ASSUME NEW a \in {r, r - n, r + n} PROVE a % n = r
  <2> DEFINE q == a \div n
             t == a % n
  <2>1. a \in Int /\ r \in Int /\ r >= 0 /\ r < n /\ n \in Int
    OBVIOUS
  <2>2. q \in Int /\ t \in 0 .. n - 1 /\ a = n * q + t
    BY <2>1, DivMod
  <2> HIDE DEF q, t
  <2>3. PICK e \in {-1, 0, 1} : a = n * e + r
    <3>1. n * (-1) = -n /\ n * 0 = 0 /\ n * 1 = n
      BY <2>1
    <3> QED
      BY <2>1, <3>1
  <2>4. n * q \in Int /\ n * e \in Int
    BY <2>1, <2>2
  <2>5. ~(q > e)
    <3>1. SUFFICES ASSUME q > e PROVE FALSE
      OBVIOUS
    <3>2. n * q >= n * e + n
      BY <2>2, <3>1, MultiplesApart
    <3> QED
      BY <2>1, <2>2, <2>3, <2>4, <3>2
  <2>6. ~(q < e)
    <3>1. SUFFICES ASSUME e > q PROVE FALSE
      BY <2>2
    <3>2. n * e >= n * q + n
      BY <2>2, <3>1, MultiplesApart
    <3> QED
      BY <2>1, <2>2, <2>3, <2>4, <3>2
  <2>7. q = e
    BY <2>2, <2>5, <2>6
  <2>8. t = r
    BY <2>1, <2>2, <2>3, <2>4, <2>7
  <2> QED
    BY <2>8 DEF t
<1> QED
  BY <1>1

LEMMA Sizes ==
  /\ TickModulus \in Nat /\ Period \in Nat /\ Minute \in Nat
  /\ TickModulus > 0 /\ Period > 0 /\ Minute > 0
  /\ Mailboxes \in Nat /\ AnswerPieces \in Nat /\ AnswerPieces > 0
  /\ FrameTimeout \in Nat /\ TransmitLimit \in Nat /\ MaxSamples \in Nat
  /\ Frames \in Nat /\ Frames > 0
  /\ HalfWord \in Nat /\ HalfWord > 0 /\ WordBase = 2 * HalfWord
  /\ Period + 2 * (FrameTimeout + 1) + TransmitLimit + 1 < TickModulus
<1>1. Channels \div 2 \in Nat
  BY ChannelsAssumption
<1>2. WordBase = 2 * HalfWord
  BY DEF WordBase
<1>3. Period + 2 * (FrameTimeout + 1) + TransmitLimit + 1 < TickModulus
  BY RangesAssumption
<1>4. Frames \in Nat /\ Frames > 0
  BY <1>1 DEF Frames
<1> QED
  BY <1>2, <1>3, <1>4, BoardAssumption, HalfWordAssumption

\* The tick count goes on by w, and its difference to p tells the time since.
LEMMA TicksPass ==
  ASSUME NEW p \in 0 .. TickModulus - 1, NEW n \in 0 .. TickModulus - 1,
         NEW s \in Nat, NEW w \in 0 .. 1, s + w < TickModulus,
         n = p + s \/ n = p + s - TickModulus
  PROVE  /\ (n + w) % TickModulus \in 0 .. TickModulus - 1
         /\ \/ (n + w) % TickModulus = p + (s + w)
            \/ (n + w) % TickModulus = p + (s + w) - TickModulus
         /\ (((n + w) % TickModulus) - p) % TickModulus = s + w
<1> DEFINE M == TickModulus
           a == (n + w) % M
<1>1. M \in Nat \ {0}
  BY Sizes
<1>2. a \in 0 .. M - 1 /\ (a = n + w \/ a = n + w - M)
  <2>1. CASE n + w < M
    <3>1. n + w \in 0 .. M - 1
      BY <1>1, <2>1
    <3> QED
      BY <1>1, <3>1, ModIs
  <2>2. CASE n + w >= M
    <3>1. n + w - M \in 0 .. M - 1 /\ (n + w - M) + M = n + w
      BY <1>1, <2>2
    <3>2. (n + w) % M = n + w - M
      BY <1>1, <3>1, ModIs
    <3> QED
      BY <3>1, <3>2
  <2> QED
    BY <1>1, <2>1, <2>2
<1> HIDE DEF M, a
<1>3. a = p + (s + w) \/ a = p + (s + w) - M
  BY <1>1, <1>2 DEF M
<1>4. s + w \in 0 .. M - 1
  BY <1>1 DEF M
<1>5. a - p = s + w \/ a - p = (s + w) - M
  BY <1>1, <1>2, <1>3 DEF M
<1>6. (a - p) % M = s + w
  BY <1>1, <1>4, <1>5, ModIs
<1> QED
  BY <1>2, <1>3, <1>6 DEF a, M

\* A movement that the 16 bits can tell is what their difference shows.
LEMMA DifferenceIsMovement ==
  ASSUME NEW old \in Word, NEW m \in -(HalfWord - 1) .. HalfWord - 1
  PROVE  /\ (old + m) % WordBase \in Word
         /\ Difference((old + m) % WordBase, old) = m
<1> DEFINE W == WordBase
           c == (old + m) % W
           r == IF m < 0 THEN m + W ELSE m
<1>1. W \in Nat \ {0} /\ W = 2 * HalfWord /\ HalfWord \in Nat
  BY Sizes
<1>2. c \in 0 .. W - 1 /\ (c = old + m \/ c = old + m - W \/ c = old + m + W)
  <2>1. CASE old + m \in 0 .. W - 1
    BY <1>1, <2>1, ModIs
  <2>2. CASE old + m < 0
    <3>1. old + m + W \in 0 .. W - 1 /\ (old + m + W) - W = old + m
      BY <1>1, <2>2 DEF Word
    <3>2. (old + m) % W = old + m + W
      BY <1>1, <3>1, ModIs
    <3> QED
      BY <3>1, <3>2
  <2>3. CASE old + m >= W
    <3>1. old + m - W \in 0 .. W - 1 /\ (old + m - W) + W = old + m
      BY <1>1, <2>3 DEF Word
    <3>2. (old + m) % W = old + m - W
      BY <1>1, <3>1, ModIs
    <3> QED
      BY <3>1, <3>2
  <2> QED
    BY <1>1, <2>1, <2>2, <2>3 DEF Word
<1> HIDE DEF c, W
<1>3. r \in 0 .. W - 1
  BY <1>1
<1>4. c - old = r \/ c - old = r - W \/ c - old = r + W
  BY <1>1, <1>2 DEF W, Word
<1>5. (c - old) % W = r
  BY <1>1, <1>3, <1>4, ModIs
<1>6. Difference(c, old) = IF r < HalfWord THEN r ELSE r - W
  BY <1>5 DEF Difference, W
<1>7. Difference(c, old) = m
  BY <1>1, <1>6
<1> QED
  BY <1>2, <1>7 DEF c, W, Word

\* The speed of a movement fits its register.
LEMMA SpeedFits ==
  ASSUME NEW m \in -(HalfWord - 1) .. HalfWord - 1, NEW e \in Nat \ {0}
  PROVE  (Magnitude(m) * Minute) \div e \in Unsigned32
<1> DEFINE x == Magnitude(m) * Minute
           y == Minute * (HalfWord - 1)
           q == x \div e
<1>1. Minute \in Nat /\ HalfWord \in Nat /\ HalfWord > 0
  BY Sizes
<1>2. Magnitude(m) \in 0 .. HalfWord - 1
  BY <1>1 DEF Magnitude
<1>3. x \in Nat /\ y \in Nat /\ x <= y
  BY <1>1, <1>2
<1>4. y \in Unsigned32
  BY RangesAssumption
<1> HIDE DEF x, y
<1>5. q \in Int /\ x = e * q + (x % e) /\ x % e \in 0 .. e - 1
  BY <1>3, DivMod
<1> HIDE DEF q
<1>6. q >= 0
  <2>1. SUFFICES ASSUME 0 > q PROVE FALSE
    BY <1>5
  <2>2. e * 0 >= e * q + e /\ e * q \in Int
    BY <1>5, <2>1, MultiplesApart
  <2> QED
    BY <1>3, <1>5, <2>2
<1>7. q <= e * q
  BY <1>5, <1>6
<1>8. e * q \in Int
  BY <1>5
<1>9. q \in 0 .. y
  BY <1>3, <1>5, <1>6, <1>7, <1>8
<1>10. q \in Unsigned32
  <2>1. ASSUME NEW n \in Int, y \in 0 .. n PROVE q \in 0 .. n
    BY <1>3, <1>9, <2>1
  <2>2. WordBase * WordBase - 1 \in Int
    BY Sizes
  <2> HIDE DEF q
  <2> QED
    BY <1>4, <2>1, <2>2 DEF Unsigned32
<1> QED
  BY <1>10 DEF q, x

-----------------------------------------------------------------------------
(* The clock and the polls.                                                *)

\* The time since the last sample is what the loop computes.
LEMMA SinceSample ==
  ASSUME TimeInv, pc # "can"
  PROVE  (now - last_sample_tick) % TickModulus = since_sample
<1>1. since_sample \in 0 .. TickModulus - 1
  BY Sizes DEF TimeInv, ClockIsTrue, SamplesKeepPace
<1>2. \/ now - last_sample_tick = since_sample
      \/ now - last_sample_tick = since_sample - TickModulus
  BY Sizes DEF TimeInv, ClockIsTrue
<1> QED
  BY <1>1, <1>2, Sizes, ModIs

\* A step that waits w: the clock stays true.
LEMMA ClockGoesOn ==
  ASSUME TimeInv, pc # "can", pc' # "can", NEW w \in 0 .. 1,
         now' = (now + w) % TickModulus, since_sample' = since_sample + w,
         UNCHANGED <<previous_tick, last_sample_tick>>,
         since_sample + w < TickModulus
  PROVE  /\ now' \in 0 .. TickModulus - 1 /\ previous_tick' \in 0 .. TickModulus - 1
         /\ last_sample_tick' \in 0 .. TickModulus - 1
         /\ ClockIsTrue'
<1>1. /\ (now + w) % TickModulus \in 0 .. TickModulus - 1
      /\ \/ (now + w) % TickModulus = previous_tick + (since_sample + w)
         \/ (now + w) % TickModulus
              = previous_tick + (since_sample + w) - TickModulus
  BY TicksPass DEF TimeInv, ClockIsTrue
<1> QED
  BY <1>1, Sizes DEF TimeInv, ClockIsTrue

LEMMA AcquireTime ==
  ASSUME TimeInv, Acquire PROVE TimeInv'
<1>1. PICK w \in 0 .. 1 : now' = (now + w) % TickModulus /\ previous_tick' = now'
  BY DEF Acquire
<1>2. since_sample + w < TickModulus
  BY Sizes DEF TimeInv, ClockIsTrue, SamplesKeepPace
<1>3. now' \in 0 .. TickModulus - 1
  BY <1>1, <1>2, TicksPass DEF TimeInv, ClockIsTrue
<1>4. /\ pc = "acquire" /\ pc' = "can" /\ since_sample' = 0
      /\ UNCHANGED <<last_sample_tick, waited>>
  BY DEF Acquire, uart
<1> QED
  BY <1>1, <1>3, <1>4, Sizes
  DEF TimeInv, ClockIsTrue, PollIsShort, SamplesKeepPace, Positions

LEMMA TimeNext ==
  ASSUME TimeInv, [Next]_vars PROVE TimeInv'
<1> USE Sizes
<1>1. CASE UNCHANGED vars
  BY <1>1 DEF vars, acquisition, uart, history,
              TimeInv, ClockIsTrue, PollIsShort, SamplesKeepPace
<1>2. CASE Start
  BY <1>2 DEF Start, acquisition, uart, history, ClockInit, HalInit,
              TimeInv, ClockIsTrue, PollIsShort, SamplesKeepPace, Positions
<1>3. CASE Acquire
  BY <1>3, AcquireTime
<1>4. CASE QueueFrame
  BY <1>4 DEF QueueFrame, AfterRefusal, acquisition, uart, history,
              TimeInv, ClockIsTrue, PollIsShort, SamplesKeepPace, Positions
<1>5. CASE FramesQueued
  BY <1>5 DEF FramesQueued, acquisition, uart, history,
              TimeInv, ClockIsTrue, PollIsShort, SamplesKeepPace, Positions
<1>6. CASE SendFrame
  BY <1>6 DEF SendFrame, acquisition, uart,
              TimeInv, ClockIsTrue, PollIsShort, SamplesKeepPace
<1>7. CASE Loop
  <2>1. (now - last_sample_tick) % TickModulus = since_sample
    BY <1>7, SinceSample DEF Loop
  <2>2. ~SampleDue => since_sample < Period
    BY <2>1 DEF SampleDue, TimeInv, ClockIsTrue
  <2> QED
    BY <1>7, <2>2 DEF Loop, acquisition, uart, history,
              TimeInv, ClockIsTrue, PollIsShort, SamplesKeepPace, Positions
<1>8. CASE Tick
  <2>1. since_sample + 1 < TickModulus
    BY <1>8 DEF Tick, TimeInv, ClockIsTrue, PollIsShort
  <2>2. /\ now' \in 0 .. TickModulus - 1 /\ previous_tick' \in 0 .. TickModulus - 1
        /\ last_sample_tick' \in 0 .. TickModulus - 1
        /\ ClockIsTrue'
    BY <1>8, <2>1, ClockGoesOn DEF Tick, acquisition
  <2>3. PollIsShort' /\ SamplesKeepPace'
        /\ waited' \in 0 .. TransmitLimit + FrameTimeout + 1
    BY <1>8 DEF Tick, TimeInv, ClockIsTrue, PollIsShort, SamplesKeepPace
  <2> QED
    BY <1>8, <2>2, <2>3 DEF Tick, TimeInv
<1>9. CASE TransmitPiece
  <2>1. PICK t \in 0 .. 1 : /\ waited' = waited + t
                            /\ now' = (now + t) % TickModulus
                            /\ since_sample' = since_sample + t
    BY <1>9, BoardAssumption DEF TransmitPiece
  <2>2. since_sample + 1 < TickModulus
    BY <1>9 DEF TransmitPiece, MayTransmit, TimeInv, ClockIsTrue, PollIsShort
  <2>3. /\ now' \in 0 .. TickModulus - 1 /\ previous_tick' \in 0 .. TickModulus - 1
        /\ last_sample_tick' \in 0 .. TickModulus - 1
        /\ ClockIsTrue'
    <3>1. /\ pc # "can" /\ pc' # "can"
          /\ UNCHANGED <<previous_tick, last_sample_tick>>
      BY <1>9 DEF TransmitPiece, acquisition
    <3>2. since_sample + t < TickModulus
      BY <2>1, <2>2 DEF TimeInv, ClockIsTrue
    <3> QED
      BY <2>1, <3>1, <3>2, ClockGoesOn
  <2>4. PollIsShort' /\ SamplesKeepPace'
        /\ waited' \in 0 .. TransmitLimit + FrameTimeout + 1
    BY <1>9, <2>1 DEF TransmitPiece, MayTransmit,
                      TimeInv, ClockIsTrue, PollIsShort, SamplesKeepPace
  <2> QED
    BY <1>9, <2>3, <2>4 DEF TransmitPiece, TimeInv
<1>10. CASE ReceiveTimeout
  BY <1>10 DEF ReceiveTimeout, PollEnds, acquisition, history,
              TimeInv, ClockIsTrue, PollIsShort, SamplesKeepPace, Positions
<1>11. CASE ReceiveError
  BY <1>11 DEF ReceiveError, PollEnds, acquisition, history,
              TimeInv, ClockIsTrue, PollIsShort, SamplesKeepPace, Positions
<1>12. CASE ReceiveFirst
  BY <1>12 DEF ReceiveFirst, acquisition, history,
              TimeInv, ClockIsTrue, PollIsShort, SamplesKeepPace, Positions
<1>13. CASE ReceiveRest
  BY <1>13 DEF ReceiveRest, PollEnds, acquisition, history,
              TimeInv, ClockIsTrue, PollIsShort, SamplesKeepPace, Positions
<1>14. CASE TransmitEnds
  BY <1>14 DEF TransmitEnds, PollEnds, acquisition, history,
              TimeInv, ClockIsTrue, PollIsShort, SamplesKeepPace, Positions
<1>15. CASE Arrive
  BY <1>15 DEF Arrive, acquisition, history,
              TimeInv, ClockIsTrue, PollIsShort, SamplesKeepPace
<1>16. CASE ReadAnswer
  BY <1>16 DEF ReadAnswer, acquisition, uart, history,
              TimeInv, ClockIsTrue, PollIsShort, SamplesKeepPace
<1> QED
  BY <1>1, <1>2, <1>3, <1>4, <1>5, <1>6, <1>7, <1>8, <1>9, <1>10, <1>11,
     <1>12, <1>13, <1>14, <1>15, <1>16 DEF Next

LEMMA PiecesNext ==
  ASSUME PiecesInv, [Next]_vars PROVE PiecesInv'
<1> USE Sizes DEF PiecesInv
<1>1. CASE UNCHANGED vars
  BY <1>1 DEF vars, uart
<1>2. CASE Start
  BY <1>2 DEF Start, uart
<1>3. CASE Acquire
  BY <1>3 DEF Acquire, uart
<1>4. CASE QueueFrame
  BY <1>4 DEF QueueFrame, AfterRefusal, uart
<1>5. CASE FramesQueued
  BY <1>5 DEF FramesQueued, uart
<1>6. CASE SendFrame
  BY <1>6 DEF SendFrame, uart
<1>7. CASE Loop
  BY <1>7 DEF Loop, uart
<1>8. CASE Tick
  BY <1>8 DEF Tick
<1>9. CASE ReceiveTimeout \/ ReceiveError \/ TransmitEnds
  BY <1>9 DEF ReceiveTimeout, ReceiveError, TransmitEnds, PollEnds, Piece
<1>10. CASE ReceiveFirst \/ ReceiveRest
  BY <1>10 DEF ReceiveFirst, ReceiveRest, PollEnds, Piece
<1>11. CASE TransmitPiece
  BY <1>11 DEF TransmitPiece
<1>12. CASE Arrive
  BY <1>12 DEF Arrive, Piece
<1>13. CASE ReadAnswer
  BY <1>13 DEF ReadAnswer, uart
<1> QED
  BY <1>1, <1>2, <1>3, <1>4, <1>5, <1>6, <1>7, <1>8, <1>9, <1>10, <1>11,
     <1>12, <1>13 DEF Next

-----------------------------------------------------------------------------
(* The samples.                                                            *)

\* Every step but Acquire leaves the samples alone.
SamplesUntouched ==
  /\ UNCHANGED <<sample, sequence, previous_tick, previous_counter, taken, moved>>
  /\ pc \in {"start", "halted", "acquire"}
       => pc' \in {"start", "halted", "acquire"} /\ (pc = "acquire" => pc' = "acquire")
  /\ pc \notin {"start", "halted", "acquire"}
       => pc' \notin {"start", "halted"}

LEMMA OnlyAcquireSamples ==
  ASSUME PiecesInv, [Next]_vars, ~Acquire PROVE SamplesUntouched
<1> USE DEF SamplesUntouched, acquisition, history
<1>1. CASE UNCHANGED vars
  BY <1>1 DEF vars
<1>2. CASE Start
  BY <1>2 DEF Start
<1>3. CASE QueueFrame
  BY <1>3 DEF QueueFrame, AfterRefusal
<1>4. CASE FramesQueued
  BY <1>4 DEF FramesQueued
<1>5. CASE SendFrame
  BY <1>5 DEF SendFrame
<1>6. CASE Loop
  BY <1>6 DEF Loop
<1>7. CASE Tick
  BY <1>7 DEF Tick
<1>8. CASE ReceiveTimeout \/ ReceiveError \/ TransmitEnds
  BY <1>8 DEF ReceiveTimeout, ReceiveError, TransmitEnds, PollEnds
<1>9. CASE ReceiveFirst \/ ReceiveRest
  BY <1>9 DEF ReceiveFirst, ReceiveRest, PollEnds
<1>10. CASE TransmitPiece
  BY <1>10 DEF TransmitPiece
<1>11. CASE Arrive
  BY <1>11 DEF Arrive
<1>12. CASE ReadAnswer
  BY <1>12 DEF ReadAnswer
<1> QED
  BY <1>1, <1>2, <1>3, <1>4, <1>5, <1>6, <1>7, <1>8, <1>9, <1>10, <1>11,
     <1>12 DEF Next

\* The time since the last sample is what read_speed computes.
LEMMA SpeedIsMeasured ==
  ASSUME TimeInv, pc = "acquire", NEW old \in Word, old = previous_counter,
         NEW w \in 0 .. 1, NEW m \in -(HalfWord - 1) .. HalfWord - 1
  PROVE  LET v == SpeedAt((now + w) % TickModulus, (old + m) % WordBase)
         IN  /\ v \in Unsigned32
             /\ v = 0 \/ v = (Magnitude(m) * Minute) \div (since_sample + w)
<1> DEFINE a == (now + w) % TickModulus
           c == (old + m) % WordBase
           e == since_sample + w
           q == (Magnitude(m) * Minute) \div e
           v == SpeedAt(a, c)
<1>1. e \in Nat /\ e < TickModulus
  BY Sizes DEF TimeInv, ClockIsTrue, SamplesKeepPace
<1>2. (a - previous_tick) % TickModulus = e
  BY <1>1, TicksPass DEF TimeInv, ClockIsTrue
<1>3. Difference(c, previous_counter) = m
  BY DifferenceIsMovement
<1> HIDE DEF a, c, e
<1>4. v = IF previous_tick = 0 \/ e = 0 THEN 0 ELSE q
  BY <1>2, <1>3 DEF SpeedAt
<1>5. e # 0 => q \in Unsigned32
  BY <1>1, SpeedFits
<1>6. 0 \in Unsigned32
  <2>1. WordBase * WordBase \in Nat /\ WordBase * WordBase > 0
    BY Sizes
  <2> QED
    BY <2>1 DEF Unsigned32
<1> HIDE DEF q, v
<1>7. v \in Unsigned32 /\ (v = 0 \/ v = q)
  BY <1>4, <1>5, <1>6
<1> QED
  BY <1>7 DEF v, q, a, c, e

\* The numbers of a sample fit their types.
LEMMA NumbersFit ==
  /\ 0 .. MaxSamples \subseteq Unsigned32 /\ 0 .. TickModulus - 1 \subseteq Unsigned32
  /\ 0 .. HalfWord - 1 \subseteq Signed32 /\ 0 \in Signed32
  /\ VALID \in Word /\ VALID + ANALOG_ERROR \in Word
<1>1. ASSUME NEW n \in Nat, NEW b \in Int, b \in 0 .. n
      PROVE  0 .. b \subseteq 0 .. n
  BY <1>1
<1>2. WordBase * WordBase - 1 \in Nat
  BY Sizes
<1>3. MaxSamples \in Unsigned32 /\ TickModulus - 1 \in Unsigned32
  BY RangesAssumption
<1>4. /\ 0 .. MaxSamples \subseteq Unsigned32
      /\ 0 .. TickModulus - 1 \subseteq Unsigned32
  <2>1. MaxSamples \in Int /\ TickModulus - 1 \in Int
    BY Sizes
  <2> QED
    BY <1>1, <1>2, <1>3, <2>1 DEF Unsigned32
<1>5. 0 .. HalfWord - 1 \subseteq Signed32 /\ 0 \in Signed32
  <2> DEFINE p == HalfWord * WordBase
  <2>1. p \in Int /\ p >= HalfWord /\ HalfWord \in Nat /\ HalfWord > 0
    BY Sizes
  <2> HIDE DEF p
  <2>2. 0 .. HalfWord - 1 \subseteq -p .. p - 1 /\ 0 \in -p .. p - 1
    BY <2>1
  <2> QED
    BY <2>2 DEF Signed32, p
<1>6. VALID \in Word /\ VALID + ANALOG_ERROR \in Word
  <2>1. VALID + ANALOG_ERROR \in Word
    BY RangesAssumption
  <2> QED
    BY <2>1, Sizes DEF Word, VALID, ANALOG_ERROR
<1> QED
  BY <1>4, <1>5, <1>6

\* What Acquire adds is a sample, with the sequence number that was next.
LEMMA AcquireSamples ==
  ASSUME TimeInv, SampleInv, Acquire
  PROVE  /\ sample' \in Sample /\ sample'.sequence = sequence
         /\ previous_counter' \in Word
         /\ taken' = Append(taken, sample') /\ sequence' = sequence + 1
         /\ \/ sample'.speed_rpm = 0
            \/ sample'.speed_rpm = (Magnitude(moved'.pulses) * Minute)
                                      \div moved'.elapsed
<1>1. /\ pc = "acquire" /\ sequence \in 0 .. MaxSamples
      /\ sequence < MaxSamples /\ sequence + 1 \in 1 .. MaxSamples
      /\ previous_counter \in Word
  BY Sizes DEF Acquire, SampleInv
<1>2. PICK input \in AnalogInputs, digital \in DigitalInputs,
           movement \in Movements[sequence + 1], converted \in Conversions,
           stopped \in BOOLEAN, wait \in 0 .. 1 :
        LET after == (now + wait) % TickModulus
            count == (previous_counter + movement) % WordBase
        IN  /\ sample' =
                 [sequence |-> sequence, timestamp_ms |-> now,
                  analog |-> [c \in 1 .. Channels |->
                                IF c <= converted THEN input[c] ELSE 0],
                  digital_bits |-> digital,
                  speed_rpm |-> SpeedAt(after, count),
                  flags |-> VALID + IF converted = Channels /\ stopped
                                    THEN 0 ELSE ANALOG_ERROR]
            /\ previous_counter' = count
            /\ moved' = [pulses |-> movement, elapsed |-> since_sample + wait]
  BY DEF Acquire
<1> DEFINE after == (now + wait) % TickModulus
           count == (previous_counter + movement) % WordBase
           speed == SpeedAt(after, count)
           analog == [c \in 1 .. Channels |->
                        IF c <= converted THEN input[c] ELSE 0]
           flags == VALID + IF converted = Channels /\ stopped
                            THEN 0 ELSE ANALOG_ERROR
<1>3. /\ sample' = [sequence |-> sequence, timestamp_ms |-> now,
                    analog |-> analog, digital_bits |-> digital,
                    speed_rpm |-> speed, flags |-> flags]
      /\ previous_counter' = count
      /\ moved' = [pulses |-> movement, elapsed |-> since_sample + wait]
  BY <1>2
<1>4. movement \in -(HalfWord - 1) .. HalfWord - 1
  BY <1>1, BoardAssumption
<1>5. /\ speed \in Unsigned32
      /\ speed = 0
           \/ speed = (Magnitude(movement) * Minute) \div (since_sample + wait)
  BY <1>1, <1>4, SpeedIsMeasured
<1>6. count \in Word
  BY <1>1, <1>4, DifferenceIsMovement
<1>7. analog \in [1 .. Channels -> Signed32]
  <2>1. input \in [1 .. Channels -> 0 .. HalfWord - 1]
    BY BoardAssumption
  <2> QED
    BY <2>1, NumbersFit
<1>8. flags \in Word /\ digital \in Word
  <2>1. flags = VALID + 0 \/ flags = VALID + ANALOG_ERROR
    OBVIOUS
  <2>2. VALID + 0 = VALID
    BY DEF VALID
  <2> QED
    BY <2>1, <2>2, NumbersFit, BoardAssumption
<1>9. sequence \in Unsigned32 /\ now \in Unsigned32
  BY <1>1, NumbersFit DEF TimeInv
<1> HIDE DEF speed, analog, flags, count
<1>10. sample' \in Sample
  BY <1>3, <1>5, <1>7, <1>8, <1>9 DEF Sample
<1>11. taken' = Append(taken, sample') /\ sequence' = sequence + 1
  BY DEF Acquire
<1> QED
  BY <1>3, <1>5, <1>6, <1>10, <1>11

LEMMA SampleNext ==
  ASSUME TimeInv, PiecesInv, SampleInv, [Next]_vars PROVE SampleInv'
<1>1. CASE Acquire
  <2>1. sample' \in Sample /\ taken \in Seq(Sample) /\ Len(taken) = sequence
    BY <1>1, AcquireSamples DEF SampleInv, SampleIsLast
  <2>2. sequence \in Nat /\ sequence < MaxSamples /\ pc' = "can"
    BY <1>1, Sizes DEF Acquire, SampleInv
  <2>3. /\ taken' \in Seq(Sample) /\ Len(taken') = sequence'
        /\ taken'[sequence'] = sample'
    BY <1>1, <2>1, <2>2, AcquireSamples
  <2>4. SampleIsLast'
    BY <1>1, <2>2, <2>3, AcquireSamples DEF SampleIsLast
  <2>5. SpeedIsMovement'
    BY <1>1, AcquireSamples DEF SpeedIsMovement
  <2>6. sequence' \in 0 .. MaxSamples
    BY <1>1, <2>2, Sizes, AcquireSamples
  <2> QED
    BY <1>1, <2>1, <2>4, <2>5, <2>6, AcquireSamples DEF SampleInv
<1>2. CASE ~Acquire
  <2>1. SamplesUntouched
    BY <1>2, OnlyAcquireSamples
  <2>2. SampleIsLast'
    BY <2>1 DEF SamplesUntouched, SampleInv, SampleIsLast
  <2>3. SpeedIsMovement'
    BY <2>1 DEF SamplesUntouched, SampleInv, SpeedIsMovement
  <2> QED
    BY <2>1, <2>2, <2>3 DEF SamplesUntouched, SampleInv
<1> QED
  BY <1>1, <1>2

-----------------------------------------------------------------------------
(* The mailboxes and the CAN bus.                                          *)

MailboxesUntouched ==
  /\ UNCHANGED <<mailbox, on_bus, sequence>>
  /\ pc' = "can" => pc = "can" /\ frame' = frame

LEMMA FewTouchMailboxes ==
  ASSUME [Next]_vars, ~Acquire, ~QueueFrame, ~SendFrame
  PROVE  MailboxesUntouched
<1> USE DEF MailboxesUntouched, acquisition, history
<1>1. CASE UNCHANGED vars
  BY <1>1 DEF vars
<1>2. CASE Start
  BY <1>2 DEF Start
<1>3. CASE FramesQueued
  BY <1>3 DEF FramesQueued
<1>4. CASE Loop
  BY <1>4 DEF Loop
<1>5. CASE Tick
  BY <1>5 DEF Tick
<1>6. CASE ReceiveTimeout \/ ReceiveError \/ TransmitEnds
  BY <1>6 DEF ReceiveTimeout, ReceiveError, TransmitEnds, PollEnds
<1>7. CASE ReceiveFirst \/ ReceiveRest
  BY <1>7 DEF ReceiveFirst, ReceiveRest, PollEnds
<1>8. CASE TransmitPiece
  BY <1>8 DEF TransmitPiece
<1>9. CASE Arrive
  BY <1>9 DEF Arrive
<1>10. CASE ReadAnswer
  BY <1>10 DEF ReadAnswer
<1> QED
  BY <1>1, <1>2, <1>3, <1>4, <1>5, <1>6, <1>7, <1>8, <1>9, <1>10 DEF Next

LEMMA UntouchedMailboxes ==
  ASSUME MailboxInv, MailboxesUntouched PROVE MailboxInv'
<1>1. MailboxesHoldFrames' /\ FramesDiffer'
      /\ \A m \in 1 .. Mailboxes : mailbox'[m].sequence < sequence'
  BY DEF MailboxesUntouched, MailboxInv, MailboxesHoldFrames, FramesDiffer
<1>2. ASSUME NEW s \in 0 .. MaxSamples - 1, NEW k \in 0 .. Frames,
             NEW q \in 0 .. Frames, FollowUpTo(s, k, q)
      PROVE  FollowUpTo(s, k, q)'
  BY <1>2 DEF MailboxesUntouched, FollowUpTo
<1>3. FramesFollow'
  BY <1>2 DEF MailboxesUntouched, MailboxInv, FramesFollow
<1> QED
  BY <1>1, <1>3 DEF MailboxInv

LEMMA AcquireMailboxes ==
  ASSUME SampleInv, MailboxInv, Acquire PROVE MailboxInv'
<1>1. /\ UNCHANGED <<mailbox, on_bus>> /\ sequence' = sequence + 1
      /\ sequence \in Nat /\ pc' = "can" /\ frame' = 1
  BY Sizes DEF Acquire, SampleInv
<1>2. MailboxesHoldFrames' /\ FramesDiffer'
  BY <1>1 DEF MailboxInv, MailboxesHoldFrames, FramesDiffer
<1>3. \A m \in 1 .. Mailboxes : mailbox'[m].sequence < sequence'
  BY <1>1, Sizes DEF MailboxInv, MailboxesHoldFrames, Waiting
<1>4. ASSUME NEW s \in 0 .. MaxSamples - 1, NEW k \in 0 .. Frames,
             NEW q \in 0 .. Frames, FollowUpTo(s, k, q)
      PROVE  FollowUpTo(s, k, q)'
  BY <1>1, <1>4, Sizes DEF FollowUpTo
<1>5. FramesFollow'
  BY <1>1, <1>4 DEF MailboxInv, FramesFollow
<1> QED
  BY <1>2, <1>3, <1>5 DEF MailboxInv

LEMMA QueueFrameMailboxes ==
  ASSUME PiecesInv, SampleInv, MailboxInv, QueueFrame PROVE MailboxInv'
<1>1. CASE MailboxesUntouched
  BY <1>1, UntouchedMailboxes
<1>2. CASE ~MailboxesUntouched
  <2>1. /\ pc = "can" /\ frame \in 1 .. Frames
        /\ UNCHANGED <<on_bus, sequence>>
        /\ sequence \in 1 .. MaxSamples /\ sample.sequence = sequence - 1
    BY Sizes DEF QueueFrame, PiecesInv, SampleInv, SampleIsLast, acquisition, history
  <2> DEFINE new == [sequence |-> sequence - 1, frame |-> frame]
  <2>2. PICK m \in 1 .. Mailboxes :
          /\ mailbox[m] = NoFrame /\ mailbox' = [mailbox EXCEPT ![m] = new]
          /\ pc' = "can" /\ frame' = frame + 1
    BY <1>2, <2>1 DEF QueueFrame, AfterRefusal, MailboxesUntouched
  <2>3. mailbox \in [1 .. Mailboxes -> Waiting] /\ new \in Waiting
    BY <2>1, Sizes DEF MailboxInv, MailboxesHoldFrames, Waiting
  <2>4. /\ mailbox' \in [1 .. Mailboxes -> Waiting]
        /\ mailbox'[m] = new
        /\ \A n \in 1 .. Mailboxes : n # m => mailbox'[n] = mailbox[n]
    BY <2>2, <2>3
  <2>5. new.sequence = sequence - 1 /\ new.frame = frame
        /\ NoFrame.sequence = -1
    BY DEF NoFrame
  <2> HIDE DEF new
  <2>6. ASSUME NEW s \in 0 .. MaxSamples - 1, NEW k \in 0 .. Frames,
               NEW q \in 0 .. Frames, FollowUpTo(s, k, q), s # sequence - 1
        PROVE  FollowUpTo(s, k, q)'
    <3>1. \A n \in 1 .. Mailboxes :
            mailbox'[n].sequence = s => n # m /\ mailbox[n].sequence = s
      BY <2>4, <2>5, <2>6
    <3>2. \A f \in k + 1 .. q :
            \E n \in 1 .. Mailboxes : mailbox'[n] = [sequence |-> s, frame |-> f]
      <4>1. SUFFICES ASSUME NEW f \in k + 1 .. q
                     PROVE  \E n \in 1 .. Mailboxes :
                              mailbox'[n] = [sequence |-> s, frame |-> f]
        OBVIOUS
      <4>2. PICK n \in 1 .. Mailboxes : mailbox[n] = [sequence |-> s, frame |-> f]
        BY <2>6 DEF FollowUpTo
      <4>3. n # m
        BY <2>2, <2>5, <4>2
      <4> QED
        BY <2>4, <4>2, <4>3
    <3> QED
      BY <2>1, <2>4, <2>6, <3>1, <3>2 DEF FollowUpTo
  <2>7. ASSUME NEW k \in 0 .. Frames, NEW q \in 0 .. Frames,
               FollowUpTo(sequence - 1, k, q)
        PROVE  FollowUpTo(sequence - 1, k, q + 1)' /\ q + 1 = frame
    <3>1. q + 1 = frame
      BY <2>1, <2>7 DEF FollowUpTo
    <3>2. \A n \in 1 .. Mailboxes :
            mailbox'[n].sequence = sequence - 1
              => mailbox'[n].frame \in k + 1 .. q + 1
      BY <2>1, <2>4, <2>5, <2>7, <3>1, Sizes DEF FollowUpTo
    <3>3. \A f \in k + 1 .. q + 1 :
            \E n \in 1 .. Mailboxes :
              mailbox'[n] = [sequence |-> sequence - 1, frame |-> f]
      <4>1. SUFFICES ASSUME NEW f \in k + 1 .. q + 1
                     PROVE  \E n \in 1 .. Mailboxes :
                              mailbox'[n] = [sequence |-> sequence - 1, frame |-> f]
        OBVIOUS
      <4>2. CASE f = q + 1
        BY <2>4, <3>1, <4>2 DEF new
      <4>3. CASE f # q + 1
        <5>1. f \in k + 1 .. q
          BY <4>1, <4>3
        <5>2. PICK n \in 1 .. Mailboxes :
                mailbox[n] = [sequence |-> sequence - 1, frame |-> f]
          BY <2>7, <5>1 DEF FollowUpTo
        <5>3. n # m
          BY <2>1, <2>2, <2>5, <5>2
        <5> QED
          BY <2>4, <5>2, <5>3
      <4> QED
        BY <4>2, <4>3
    <3> QED
      BY <2>1, <2>2, <2>7, <3>1, <3>2, <3>3 DEF FollowUpTo
  <2>8. FramesFollow'
    <3>1. SUFFICES ASSUME NEW s \in 0 .. MaxSamples - 1
                   PROVE  \E k \in 0 .. Frames, q \in 0 .. Frames :
                            FollowUpTo(s, k, q)'
      BY <2>1 DEF FramesFollow, MailboxInv
    <3>2. PICK k \in 0 .. Frames, q \in 0 .. Frames : FollowUpTo(s, k, q)
      BY DEF FramesFollow, MailboxInv
    <3>3. CASE s = sequence - 1
      BY <2>1, <2>7, <3>2, <3>3, Sizes
    <3>4. CASE s # sequence - 1
      BY <2>6, <3>2, <3>4
    <3> QED
      BY <3>3, <3>4
  <2>9. ASSUME NEW n \in 1 .. Mailboxes, n # m PROVE mailbox[n] # new
    <3>1. PICK k \in 0 .. Frames, q \in 0 .. Frames :
            FollowUpTo(sequence - 1, k, q)
      BY <2>1, Sizes DEF FramesFollow, MailboxInv
    <3>2. q + 1 = frame
      BY <2>7, <3>1
    <3> QED
      BY <2>5, <3>1, <3>2 DEF FollowUpTo
  <2>10. FramesDiffer'
    BY <2>2, <2>4, <2>9 DEF FramesDiffer, MailboxInv
  <2>11. MailboxesHoldFrames'
         /\ \A n \in 1 .. Mailboxes : mailbox'[n].sequence < sequence'
    BY <2>1, <2>4, <2>5 DEF MailboxesHoldFrames, MailboxInv
  <2> QED
    BY <2>8, <2>10, <2>11 DEF MailboxInv
<1> QED
  BY <1>1, <1>2

\* The frame that leaves is the first of its sample that waits, and so the
\* next one for the bus.
LEMMA SendFrameMailboxes ==
  ASSUME SampleInv, MailboxInv, SendFrame PROVE MailboxInv'
<1>1. PICK m \in 1 .. Mailboxes :
        /\ mailbox[m] # NoFrame
        /\ \A n \in 1 .. Mailboxes \ {m} : mailbox[n] = NoFrame \/ Before(m, n)
        /\ mailbox' = [mailbox EXCEPT ![m] = NoFrame]
        /\ on_bus' = [on_bus EXCEPT ![mailbox[m].sequence] =
                        @ \cup {mailbox[m].frame}]
        /\ UNCHANGED <<pc, sequence, frame>>
  BY DEF SendFrame, acquisition
<1>2. /\ mailbox \in [1 .. Mailboxes -> Waiting] /\ NoFrame \in Waiting
      /\ NoFrame.sequence = -1
  BY Sizes DEF MailboxInv, MailboxesHoldFrames, Waiting, NoFrame
<1>3. PICK z \in 0 .. MaxSamples - 1, g \in 1 .. Frames :
        mailbox[m] = [sequence |-> z, frame |-> g]
  BY <1>1, <1>2, Sizes DEF MailboxInv, MailboxesHoldFrames, Waiting
<1>4. /\ mailbox' \in [1 .. Mailboxes -> Waiting]
      /\ mailbox'[m] = NoFrame
      /\ \A n \in 1 .. Mailboxes : n # m => mailbox'[n] = mailbox[n]
  BY <1>1, <1>2
<1>5. /\ DOMAIN on_bus' = 0 .. MaxSamples - 1
      /\ on_bus'[z] = on_bus[z] \cup {g}
      /\ \A s \in 0 .. MaxSamples - 1 : s # z => on_bus'[s] = on_bus[s]
  BY <1>1, <1>3 DEF MailboxInv, FramesFollow
<1>6. ASSUME NEW s \in 0 .. MaxSamples - 1, NEW k \in 0 .. Frames,
             NEW q \in 0 .. Frames, FollowUpTo(s, k, q), s # z
      PROVE  FollowUpTo(s, k, q)'
  <2>1. \A n \in 1 .. Mailboxes :
          mailbox'[n].sequence = s => n # m /\ mailbox[n].sequence = s
    BY <1>2, <1>4
  <2>2. \A f \in k + 1 .. q :
          \E n \in 1 .. Mailboxes : mailbox'[n] = [sequence |-> s, frame |-> f]
    <3>1. SUFFICES ASSUME NEW f \in k + 1 .. q
                   PROVE  \E n \in 1 .. Mailboxes :
                            mailbox'[n] = [sequence |-> s, frame |-> f]
      OBVIOUS
    <3>2. PICK n \in 1 .. Mailboxes : mailbox[n] = [sequence |-> s, frame |-> f]
      BY <1>6 DEF FollowUpTo
    <3>3. n # m
      BY <1>3, <1>6, <3>2
    <3> QED
      BY <1>4, <3>2, <3>3
  <2> QED
    BY <1>1, <1>4, <1>5, <1>6, <2>1, <2>2 DEF FollowUpTo
<1>7. ASSUME NEW k \in 0 .. Frames, NEW q \in 0 .. Frames, FollowUpTo(z, k, q)
      PROVE  FollowUpTo(z, k + 1, q)' /\ k + 1 \in 0 .. Frames
  <2>1. g \in k + 1 .. q
    BY <1>3, <1>7 DEF FollowUpTo
  <2>2. g = k + 1
    <3>1. SUFFICES ASSUME g # k + 1 PROVE FALSE
      OBVIOUS
    <3>2. k + 1 \in k + 1 .. q
      BY <2>1
    <3>3. PICK n \in 1 .. Mailboxes :
            mailbox[n] = [sequence |-> z, frame |-> k + 1]
      BY <1>7, <3>2 DEF FollowUpTo
    <3>4. n # m /\ mailbox[n] # NoFrame
      BY <1>2, <1>3, <3>1, <3>3
    <3>5. Before(m, n)
      BY <1>1, <3>4
    <3> QED
      BY <1>3, <2>1, <3>1, <3>3, <3>5 DEF Before
  <2>3. on_bus'[z] = 1 .. k + 1
    BY <1>5, <1>7, <2>2 DEF FollowUpTo
  <2>4. \A n \in 1 .. Mailboxes :
          mailbox'[n].sequence = z => mailbox'[n].frame \in (k + 1) + 1 .. q
    <3>1. SUFFICES ASSUME NEW n \in 1 .. Mailboxes, mailbox'[n].sequence = z
                   PROVE  mailbox'[n].frame \in (k + 1) + 1 .. q
      OBVIOUS
    <3>2. n # m /\ mailbox'[n] = mailbox[n] /\ mailbox[n].sequence = z
      BY <1>2, <1>4, <3>1
    <3>3. mailbox[n].frame \in k + 1 .. q
      BY <1>7, <3>2 DEF FollowUpTo
    <3>4. mailbox[n] # mailbox[m]
      BY <1>1, <3>2 DEF MailboxInv, FramesDiffer
    <3>5. mailbox[n] = [sequence |-> mailbox[n].sequence,
                        frame |-> mailbox[n].frame]
      BY <1>2 DEF Waiting
    <3>6. mailbox[n].frame # k + 1
      BY <1>3, <2>2, <3>2, <3>4, <3>5
    <3> QED
      BY <3>2, <3>3, <3>6
  <2>5. \A f \in (k + 1) + 1 .. q :
          \E n \in 1 .. Mailboxes : mailbox'[n] = [sequence |-> z, frame |-> f]
    <3>1. SUFFICES ASSUME NEW f \in (k + 1) + 1 .. q
                   PROVE  \E n \in 1 .. Mailboxes :
                            mailbox'[n] = [sequence |-> z, frame |-> f]
      OBVIOUS
    <3>2. f \in k + 1 .. q /\ f # k + 1
      BY <3>1
    <3>3. PICK n \in 1 .. Mailboxes : mailbox[n] = [sequence |-> z, frame |-> f]
      BY <1>7, <3>2 DEF FollowUpTo
    <3>4. n # m
      BY <1>3, <2>2, <3>2, <3>3
    <3> QED
      BY <1>4, <3>3, <3>4
  <2>6. k + 1 <= q /\ k + 1 \in 0 .. Frames
    BY <2>1, <2>2, Sizes
  <2> QED
    BY <1>1, <1>7, <2>3, <2>4, <2>5, <2>6 DEF FollowUpTo
<1>8. FramesFollow'
  <2>1. SUFFICES ASSUME NEW s \in 0 .. MaxSamples - 1
                 PROVE  \E k \in 0 .. Frames, q \in 0 .. Frames :
                          FollowUpTo(s, k, q)'
    BY <1>5 DEF FramesFollow
  <2>2. PICK k \in 0 .. Frames, q \in 0 .. Frames : FollowUpTo(s, k, q)
    BY DEF FramesFollow, MailboxInv
  <2>3. CASE s = z
    BY <1>7, <2>2, <2>3
  <2>4. CASE s # z
    BY <1>6, <2>2, <2>4
  <2> QED
    BY <2>3, <2>4
<1>9. FramesDiffer'
  BY <1>4 DEF FramesDiffer, MailboxInv
<1>10. MailboxesHoldFrames'
  BY <1>4 DEF MailboxesHoldFrames, MailboxInv
<1>11. \A n \in 1 .. Mailboxes : mailbox'[n].sequence < sequence'
  BY <1>1, <1>2, <1>4, Sizes DEF MailboxInv, SampleInv
<1> QED
  BY <1>8, <1>9, <1>10, <1>11 DEF MailboxInv

LEMMA MailboxNext ==
  ASSUME PiecesInv, SampleInv, MailboxInv, [Next]_vars PROVE MailboxInv'
BY AcquireMailboxes, QueueFrameMailboxes, SendFrameMailboxes,
   FewTouchMailboxes, UntouchedMailboxes

-----------------------------------------------------------------------------
(* The line and what is published.                                         *)

\* A sample that was taken stays the one it was.
LEMMA TakenStays ==
  ASSUME TimeInv, PiecesInv, SampleInv, [Next]_vars
  PROVE  /\ Len(taken) \in Nat /\ Len(taken') \in Nat
         /\ Len(taken) <= Len(taken')
         /\ \A j \in 1 .. Len(taken) : taken'[j] = taken[j]
<1>1. CASE Acquire
  BY <1>1, AcquireSamples DEF SampleInv, SampleIsLast
<1>2. CASE ~Acquire
  BY <1>2, OnlyAcquireSamples DEF SamplesUntouched, SampleInv, SampleIsLast
<1> QED
  BY <1>1, <1>2

LineUntouched == UNCHANGED <<line, published>>

LEMMA FewTouchTheLine ==
  ASSUME [Next]_vars, ~TransmitPiece, ~ReadAnswer PROVE LineUntouched
BY DEF Next, LineUntouched, gateway, vars, Start, Acquire, QueueFrame,
       FramesQueued, SendFrame, Loop, Tick, ReceiveTimeout, ReceiveError,
       ReceiveFirst, ReceiveRest, TransmitEnds, Arrive

OfSample(registers) ==
  \E j \in 1 .. Len(taken) : registers = ToRegisters(taken[j])

LEMMA FrontOf ==
  ASSUME NEW S, NEW s \in Seq(S), NEW n \in 1 .. Len(s)
  PROVE  Len(SubSeq(s, 1, n)) = n /\ SubSeq(s, 1, n)[1] = s[1]
<1>1. Len(s) \in Nat /\ n \in Nat /\ 1 \in 1 .. n
  OBVIOUS
<1> QED
  BY <1>1

\* An answer that passes the checks is one sample's, from its first piece to
\* its last.
LEMMA AnswerIsOneSample ==
  ASSUME SampleInv, LineInv, NEW n \in 1 .. Len(line),
         IsAnswer(SubSeq(line, 1, n))
  PROVE  \E j \in 1 .. Len(taken) :
           FromRegisters(RegistersOf(SubSeq(line, 1, n))) = Received(taken[j])
<1> DEFINE answer == SubSeq(line, 1, n)
           r == answer[1].registers
<1>1. /\ line \in Seq(Fragments)
      /\ Len(line) \in Nat /\ n \in Nat /\ n >= 1 /\ n <= Len(line)
  BY DEF LineInv, LineHasSamples
<1>2. Len(answer) = n /\ answer[1] = line[1]
  BY <1>1, FrontOf
<1>3. r \in Registers
  <2>1. line[1] \in Fragments
    BY <1>1
  <2> QED
    BY <1>2, <2>1 DEF Fragments
<1>4. answer[Len(answer)].registers = r
  <2>1. Len(answer) \in 1 .. AnswerPieces
    BY <1>1, <1>2, Sizes DEF IsAnswer
  <2>2. answer[Len(answer)] = [registers |-> r, piece |-> Len(answer)]
    BY <2>1 DEF IsAnswer
  <2> QED
    BY <2>2
<1>5. PICK j \in 1 .. Len(taken) : r = ToRegisters(taken[j])
  BY <1>1, <1>2 DEF LineInv, LineHasSamples
<1> HIDE DEF answer, r
<1>6. RegistersOf(answer) = r
  <2>1. RegistersOf(answer) = [r EXCEPT !.sequence_high = r.sequence_high,
                                        !.sequence_low = r.sequence_low]
    BY <1>4 DEF RegistersOf, r
  <2>2. [r EXCEPT !.sequence_high = r.sequence_high,
                  !.sequence_low = r.sequence_low] = r
    BY <1>3 DEF Registers
  <2> QED
    BY <2>1, <2>2
<1>7. taken[j] \in Sample
  BY DEF SampleInv, SampleIsLast
<1>8. FromRegisters(RegistersOf(answer)) = Received(taken[j])
  BY <1>5, <1>6, <1>7, CodecRoundTrip
<1> QED
  BY <1>8 DEF answer

LEMMA LineNext ==
  ASSUME TimeInv, PiecesInv, SampleInv, LineInv, [Next]_vars PROVE LineInv'
<1>1. /\ line \in Seq(Fragments) /\ Len(line) \in Nat
      /\ \A i \in 1 .. Len(line) :
           \E j \in 1 .. Len(taken) : line[i].registers = ToRegisters(taken[j])
  BY DEF LineInv, LineHasSamples
<1>2. \A i \in 1 .. Len(line) :
        \E j \in 1 .. Len(taken') : line[i].registers = ToRegisters(taken'[j])
  BY <1>1, TakenStays
<1>3. \A x : (\E j \in 1 .. Len(taken) : x = Received(taken[j]))
               => \E j \in 1 .. Len(taken') : x = Received(taken'[j])
  BY TakenStays
<1>4. CASE LineUntouched
  BY <1>1, <1>2, <1>3, <1>4 DEF LineInv, LineHasSamples, LineUntouched
<1>5. CASE TransmitPiece
  <2>1. pc = "transmit" /\ UNCHANGED <<published, taken>>
    BY <1>5 DEF TransmitPiece
  <2>2. CASE UNCHANGED line
    BY <1>4, <2>1, <2>2 DEF LineUntouched
  <2>3. CASE line' = Append(line, [registers |-> ToRegisters(sample),
                                   piece |-> transmitted'])
    <3>1. /\ sample = taken[sequence] /\ sequence \in 1 .. Len(taken)
          /\ sample \in Sample
      BY <2>1, Sizes DEF SampleInv, SampleIsLast
    <3>2. transmitted' \in Int
      BY <1>5 DEF TransmitPiece, PiecesInv
    <3> DEFINE new == [registers |-> ToRegisters(sample), piece |-> transmitted']
    <3>3. new \in Fragments
      BY <3>1, <3>2, CodecRoundTrip DEF Fragments
    <3>4. new.registers = ToRegisters(taken[sequence])
      BY <3>1
    <3>5. line' = Append(line, new)
      BY <2>3
    <3> HIDE DEF new
    <3>6. /\ line' \in Seq(Fragments) /\ Len(line') = Len(line) + 1
          /\ line'[Len(line) + 1] = new
          /\ \A i \in 1 .. Len(line) : line'[i] = line[i]
      BY <1>1, <3>3, <3>5
    <3>7. ASSUME NEW i \in 1 .. Len(line')
          PROVE  \E j \in 1 .. Len(taken) :
                   line'[i].registers = ToRegisters(taken[j])
      <4>1. CASE i = Len(line) + 1
        BY <3>1, <3>4, <3>6, <4>1
      <4>2. CASE i \in 1 .. Len(line)
        BY <1>1, <3>6, <4>2
      <4> QED
        BY <1>1, <3>6, <4>1, <4>2
    <3> QED
      BY <2>1, <3>6, <3>7 DEF LineInv, LineHasSamples
  <2> QED
    BY <1>5, <2>2, <2>3 DEF TransmitPiece
<1>6. CASE ReadAnswer
  <2>1. PICK n \in 1 .. Len(line) :
          /\ line' = SubSeq(line, n + 1, Len(line))
          /\ \/ /\ IsAnswer(SubSeq(line, 1, n))
                /\ Publish(FromRegisters(RegistersOf(SubSeq(line, 1, n))))
             \/ UNCHANGED published
    BY <1>6 DEF ReadAnswer
  <2>2. UNCHANGED taken
    BY <1>6 DEF ReadAnswer, history
  <2>3. published' = published
          \/ \E j \in 1 .. Len(taken) : published' = Received(taken[j])
    BY <2>1, AnswerIsOneSample DEF Publish
  <2>4. /\ line' \in Seq(Fragments) /\ Len(line') = Len(line) - n
        /\ \A i \in 1 .. Len(line) - n : line'[i] = line[i + n]
    <3>1. n \in Nat /\ n + 1 \in 1 .. Len(line) + 1
      BY <1>1, <2>1
    <3> QED
      BY <1>1, <2>1, <3>1
  <2>5. \A i \in 1 .. Len(line') : i + n \in 1 .. Len(line) /\ line'[i] = line[i + n]
    BY <1>1, <2>1, <2>4
  <2> QED
    BY <1>1, <2>2, <2>3, <2>4, <2>5 DEF LineInv, LineHasSamples
<1> QED
  BY <1>4, <1>5, <1>6, FewTouchTheLine

-----------------------------------------------------------------------------
(* The theorems.                                                           *)

LEMMA BoardInit == Init => BoardInv
<1> SUFFICES ASSUME Init PROVE BoardInv
  OBVIOUS
<1> USE Sizes DEF Init
<1>1. TimeInv
  BY DEF TimeInv, ClockIsTrue, PollIsShort, SamplesKeepPace, Positions
<1>2. PiecesInv
  BY DEF PiecesInv, Piece
<1>3. SampleInv
  <2>1. taken = << >> /\ taken \in Seq(Sample) /\ Len(taken) = 0
    OBVIOUS
  <2> QED
    BY <2>1 DEF SampleInv, SampleIsLast, SpeedIsMovement, Word
<1>4. MailboxInv
  <2>1. \A m \in 1 .. Mailboxes : mailbox[m] = NoFrame
    OBVIOUS
  <2>2. NoFrame.sequence = -1 /\ NoFrame.frame = 0 /\ NoFrame \in Waiting
    BY DEF NoFrame, Waiting
  <2>3. MailboxesHoldFrames
    BY <2>2 DEF MailboxesHoldFrames
  <2>4. FramesDiffer
    BY <2>1 DEF FramesDiffer
  <2>5. ASSUME NEW s \in 0 .. MaxSamples - 1 PROVE FollowUpTo(s, 0, 0)
    BY <2>1, <2>2 DEF FollowUpTo
  <2>6. FramesFollow
    BY <2>5 DEF FramesFollow
  <2> QED
    BY <2>1, <2>2, <2>3, <2>4, <2>6 DEF MailboxInv
<1>5. LineInv
  <2>1. line = << >> /\ line \in Seq(Fragments)
        /\ Len(line) = 0
    OBVIOUS
  <2> QED
    BY <2>1 DEF LineInv, LineHasSamples
<1> QED
  BY <1>1, <1>2, <1>3, <1>4, <1>5 DEF BoardInv

LEMMA BoardNext == BoardInv /\ [Next]_vars => BoardInv'
BY TimeNext, PiecesNext, SampleNext, MailboxNext, LineNext DEF BoardInv

LEMMA BoardInvariant == Spec => []BoardInv
BY BoardInit, BoardNext, PTL DEF Spec

\* The type invariant is in the parts.
LEMMA BoardTypes == BoardInv => TypeOK
<1> SUFFICES ASSUME BoardInv PROVE TypeOK
  OBVIOUS
<1> USE DEF BoardInv
<1>1. ASSUME NEW m \in 1 .. Mailboxes
      PROVE  mailbox[m].sequence < sequence /\ mailbox[m].frame <= Frames
  BY Sizes DEF MailboxInv, MailboxesHoldFrames, Waiting
<1>2. ASSUME NEW i \in 1 .. Len(line) PROVE line[i].registers \in Registers
  <2>1. line \in Seq(Fragments)
    BY DEF LineInv, LineHasSamples
  <2>2. line[i] \in Fragments
    BY <2>1
  <2> QED
    BY <2>2 DEF Fragments
<1>3. published \in Sample \cup {NoSample}
  <2>1. SUFFICES ASSUME published # NoSample PROVE published \in Sample
    OBVIOUS
  <2>2. PICK i \in 1 .. Len(taken) : published = Received(taken[i])
    BY <2>1 DEF LineInv
  <2>3. taken[i] \in Sample /\ 0 \in Unsigned32
    <3>1. WordBase * WordBase \in Nat /\ WordBase * WordBase > 0
      BY Sizes
    <3> QED
      BY <3>1 DEF SampleInv, SampleIsLast, Unsigned32
  <2> QED
    BY <2>2, <2>3 DEF Received, Sample
<1> QED
  BY <1>1, <1>2, <1>3
  DEF TypeOK, TimeInv, PiecesInv, SampleInv

\* What the M4 publishes is one sample of the board: the pieces of an answer
\* that pass its checks are of one sample, and decode to it.
THEOREM PublishedIsASample == Spec => []PublishedWasSampled
<1>1. BoardInv => PublishedWasSampled
  BY BoardTypes DEF BoardInv, LineInv, PublishedWasSampled
<1> QED
  BY <1>1, BoardInvariant, PTL

\* The CAN bus has the first frames of a sample, and no others: the mailboxes
\* hold those that follow, and the controller sends the first of them.
THEOREM CanSamplesHaveNoHoles == Spec => []CanGroupsArePrefixes
<1>1. BoardInv => CanGroupsArePrefixes
  BY DEF BoardInv, MailboxInv, FramesFollow, FollowUpTo, CanGroupsArePrefixes
<1> QED
  BY <1>1, BoardInvariant, PTL

\* The speed of a sample is the movement since the one before, whatever wraps
\* in between, as long as the tick count does not go all the way around.
THEOREM SpeedIsRight == Spec => []SpeedIsMovement
<1>1. BoardInv => SpeedIsMovement
  BY DEF BoardInv, SampleInv
<1> QED
  BY <1>1, BoardInvariant, PTL

\* A poll delays the next sample by its three limits at most, however many
\* requests come and whatever they hold.
THEOREM SamplingKeepsPace == Spec => []SamplesKeepPace
<1>1. BoardInv => SamplesKeepPace
  BY DEF BoardInv, TimeInv
<1> QED
  BY <1>1, BoardInvariant, PTL

=============================================================================
