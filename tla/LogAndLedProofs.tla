--------------------------- MODULE LogAndLedProofs ---------------------------
(***************************************************************************)
(* The log and the LEDs, for any number and size of files, any check       *)
(* interval and any number of messages, and for any intervals of the LEDs: *)
(* what rolling loses, what a failed opening costs, and when the first LED *)
(* shows a silence.                                                        *)
(*                                                                         *)
(* LogInv adds to the properties of the log what the loop of do_rolling    *)
(* relies on: the file it renames to is gone while nothing has failed, and *)
(* how far file 0 has grown, and the log has gone without a file, since    *)
(* the last check, counted in log_ticks.  LedInv relates the age the       *)
(* thread keeps to the silence it stands for: they differ only while the   *)
(* LED shows a silence, or while a packet is being noted.                  *)
(***************************************************************************)
EXTENDS LogAndLeds, SequenceTheorems, FiniteSetTheorems, TLAPS

-----------------------------------------------------------------------------
(* The log.                                                                *)

\* The message in hand is not yet in a file.
Logging == at = "write" \/ (at \in {"check", "roll", "reopen"} /\ ~starting)

Entries(k) == {files[k][m] : m \in DOMAIN files[k]}

\* What is written next does not reach file 0.
NoFile == ~fd_is_file /\ stdin # 0

Interval == CheckInterval + 2

LogType ==
  /\ TypeOK
  /\ missed \in Nat /\ not_opened \in Nat /\ clean \in BOOLEAN
  /\ at \in {"idle", "write"} => ~starting

\* The higher its file, the older a message.
Ordered ==
  \A j \in Indices : \A k \in 0 .. j - 1 :
    \A old \in In(j), new \in In(k) : old < new

\* The message in hand is newer than all in the files.
OrderInv ==
  /\ \A k \in Indices : \A n \in Entries(k) : n <= messages
  /\ Logging => /\ messages >= 1 /\ messages \notin logged
                /\ \A k \in Indices : messages \notin Entries(k)
  /\ Ordered

Kept == UNION {In(k) : k \in Indices}

\* While nothing fails, the file the loop renames to is not there, so that
\* only the oldest file is ever lost.
CleanInv ==
  clean => /\ \A lost \in logged \ Kept : \A m \in Kept : lost < m
           /\ at = "roll" /\ i + 1 \in Indices => files[i + 1] = Absent

\* While nothing fails, file 0 grows by the messages since its last check.
SizeInv ==
  clean => /\ \A k \in Indices : Cardinality(In(k)) <= RollingSize + Interval
           /\ at = "idle" => Cardinality(In(0)) <= RollingSize + log_ticks + 1
           /\ at = "write" => Cardinality(In(0)) <= RollingSize + log_ticks
           /\ at = "reopen" => Cardinality(In(0)) <= RollingSize

\* Without a file, less than an interval has passed since an opening failed.
MissedInv ==
  /\ stdin = Closed => ~fd_is_file
  /\ at = "roll" /\ ~fd_is_file => stdin = Closed
  /\ missed <= not_opened * Interval
  /\ at \in {"check", "roll", "reopen"} => (starting => missed = 0)
  /\ at \in {"check", "roll", "reopen"} => log_ticks = 0
  /\ NoFile /\ at = "idle" =>
       missed + Interval <= not_opened * Interval + log_ticks + 1
  /\ NoFile /\ at = "write" =>
       missed + Interval <= not_opened * Interval + log_ticks

LogInv == LogType /\ OrderInv /\ CleanInv /\ SizeInv /\ MissedInv

\* The constants of the log.
LEMMA Bounds ==
  /\ RollingSize \in Nat /\ CheckInterval \in Nat /\ MaxMessages \in Nat
  /\ RollingCount \in Nat /\ RollingCount > 0 /\ Interval \in Nat
  /\ 0 \in Indices
  BY CountAssumption, SizeAssumption DEF Interval, Indices

\* No message has the number that stands for a file that is not there.
LEMMA InIs ==
  ASSUME TypeOK, NEW k \in Indices
  PROVE  /\ In(k) = logged \cap Entries(k)
         /\ files[k] = Absent => In(k) = {}
         /\ 0 \notin logged /\ logged \subseteq 1 .. messages
<1>1. 0 \notin logged /\ logged \subseteq 1 .. messages
  BY DEF TypeOK
<1>2. CASE files[k] = Absent
  <2>1. DOMAIN <<0>> = {1} /\ <<0>>[1] = 0
    OBVIOUS
  <2>2. Entries(k) = {0}
    BY <1>2, <2>1 DEF Entries, Absent
  <2>3. In(k) = {}
    BY <1>2 DEF In, Exists
  <2>. QED
    BY <1>1, <2>2, <2>3
<1>3. CASE files[k] # Absent
  BY <1>1, <1>3 DEF In, Exists, Entries
<1>. QED
  BY <1>2, <1>3

\* A file that is created when it is opened holds no message.
LEMMA CreatedFile ==
  ASSUME TypeOK, files' = [files EXCEPT ![0] = Created(0)]
  PROVE  /\ files' \in [Indices -> Seq(0 .. MaxMessages)]
         /\ \A k \in Indices : /\ Entries(k)' \subseteq Entries(k)
                               /\ Entries(k) \subseteq Entries(k)' \cup {0}
         /\ \A k \in Indices \ {0} : files'[k] = files[k]
<1>1. files \in [Indices -> Seq(0 .. MaxMessages)] /\ 0 \in Indices
  BY Bounds DEF TypeOK
<1>2. \A k \in Indices \ {0} : files'[k] = files[k]
  BY <1>1
<1>3. files'[0] = Created(0)
  BY <1>1
<1>4. <<>> \in Seq(0 .. MaxMessages) /\ DOMAIN <<>> = {}
  OBVIOUS
<1>5. Created(0) \in Seq(0 .. MaxMessages)
  BY <1>1, <1>4 DEF Created
<1>6. CASE Exists(0)
  BY <1>1, <1>2, <1>3, <1>5, <1>6 DEF Created, Entries
<1>7. CASE ~Exists(0)
  <2>1. DOMAIN <<0>> = {1} /\ <<0>>[1] = 0
    OBVIOUS
  <2>2. Entries(0) = {0}
    BY <1>7, <2>1 DEF Entries, Exists, Absent
  <2>3. Entries(0)' = {}
    BY <1>3, <1>4, <1>7 DEF Created, Entries
  <2>4. \A k \in Indices \ {0} : Entries(k)' = Entries(k)
    BY <1>2 DEF Entries
  <2>. QED
    BY <1>1, <1>2, <1>3, <1>5, <2>2, <2>3, <2>4
<1>. QED
  BY <1>6, <1>7

\* A message that is appended to a file.
LEMMA AppendedEntry ==
  ASSUME TypeOK, NEW t \in Indices,
         files' = [files EXCEPT ![t] = Append(files[t], messages)]
  PROVE  /\ files' \in [Indices -> Seq(0 .. MaxMessages)]
         /\ Entries(t)' = Entries(t) \cup {messages}
         /\ \A k \in Indices \ {t} : Entries(k)' = Entries(k)
         /\ \A k \in Indices \ {t} : files'[k] = files[k]
<1>1. /\ files \in [Indices -> Seq(0 .. MaxMessages)]
      /\ messages \in 0 .. MaxMessages
  BY DEF TypeOK
<1>2. \A k \in Indices \ {t} : files'[k] = files[k]
  BY <1>1
<1>3. files'[t] = Append(files[t], messages)
  BY <1>1
<1>4. /\ files'[t] \in Seq(0 .. MaxMessages)
      /\ Len(files[t]) \in Nat
      /\ DOMAIN files[t] = 1 .. Len(files[t])
      /\ DOMAIN files'[t] = (1 .. Len(files[t])) \cup {Len(files[t]) + 1}
      /\ files'[t][Len(files[t]) + 1] = messages
      /\ \A m \in 1 .. Len(files[t]) : files'[t][m] = files[t][m]
  BY <1>1, <1>3, AppendProperties, LenProperties
<1>5. Entries(t)' = Entries(t) \cup {messages}
  <2>1. ASSUME NEW x
        PROVE  x \in Entries(t)' <=> x \in Entries(t) \/ x = messages
    BY <1>4 DEF Entries
  <2>. QED
    BY <2>1
<1>6. \A k \in Indices \ {t} : Entries(k)' = Entries(k)
  BY <1>2 DEF Entries
<1>. QED
  BY <1>1, <1>2, <1>3, <1>4, <1>5, <1>6

\* A file that takes the place of the next older one, or is removed.
LEMMA MovedFile ==
  ASSUME TypeOK, NEW n \in Indices,
         files' = IF n = RollingCount - 1
                  THEN [files EXCEPT ![n] = Absent]
                  ELSE [files EXCEPT ![n] = Absent, ![n + 1] = files[n]]
  PROVE  /\ files' \in [Indices -> Seq(0 .. MaxMessages)]
         /\ files'[n] = Absent /\ Entries(n)' = {0}
         /\ n + 1 \in Indices <=> n # RollingCount - 1
         /\ n + 1 \in Indices => files'[n + 1] = files[n]
                                 /\ Entries(n + 1)' = Entries(n)
         /\ \A k \in Indices \ {n, n + 1} : files'[k] = files[k]
         /\ \A k \in Indices \ {n, n + 1} : Entries(k)' = Entries(k)
<1>1. /\ files \in [Indices -> Seq(0 .. MaxMessages)]
      /\ Absent \in Seq(0 .. MaxMessages)
      /\ DOMAIN <<0>> = {1} /\ <<0>>[1] = 0
  BY Bounds DEF TypeOK, Absent
<1>2. n + 1 \in Indices <=> n # RollingCount - 1
  BY Bounds DEF Indices
<1>3. n \in Int /\ n + 1 # n
  BY DEF Indices
<1>4. /\ files' \in [Indices -> Seq(0 .. MaxMessages)]
      /\ files'[n] = Absent
      /\ n + 1 \in Indices => files'[n + 1] = files[n]
      /\ \A k \in Indices \ {n, n + 1} : files'[k] = files[k]
  <2>1. CASE n = RollingCount - 1
    BY <1>1, <1>2, <2>1
  <2>2. CASE n # RollingCount - 1
    BY <1>1, <1>2, <1>3, <2>2
  <2>. QED
    BY <2>1, <2>2
<1>5. Entries(n)' = {0}
  BY <1>1, <1>4 DEF Entries, Absent
<1>6. /\ n + 1 \in Indices => Entries(n + 1)' = Entries(n)
      /\ \A k \in Indices \ {n, n + 1} : Entries(k)' = Entries(k)
  BY <1>4 DEF Entries
<1>. QED
  BY <1>2, <1>4, <1>5, <1>6

\* Every step keeps the types.
LEMMA LogTypeNext ==
  ASSUME LogType, OrderInv, Next
  PROVE  LogType'
<1>. USE DEF LogType
<1>1. /\ files \in [Indices -> Seq(0 .. MaxMessages)]
      /\ messages \in 0 .. MaxMessages /\ logged \subseteq 1 .. messages
      /\ stdin \in Indices \cup {Closed, Elsewhere}
      /\ i \in -1 .. RollingCount - 1 /\ log_ticks \in 0 .. CheckInterval + 1
  BY DEF TypeOK
<1>2. CASE StartRun
  <2>1. starting' \in BOOLEAN /\ fd_is_file' \in BOOLEAN
    BY <1>2 DEF StartRun
  <2>2. 0 \in 0 .. CheckInterval + 1
    BY Bounds
  <2>. QED
    BY <1>2, <2>1, <2>2 DEF StartRun, TypeOK
<1>3. CASE Message
  BY <1>3, Bounds DEF Message, TypeOK
<1>4. CASE CheckSize
  <2>1. files' \in [Indices -> Seq(0 .. MaxMessages)]
    BY <1>1, <1>4, CreatedFile DEF CheckSize
  <2>2. /\ at' \in {"write", "idle", "off", "roll", "reopen"}
        /\ starting' \in BOOLEAN
        /\ at' \in {"idle", "write"} => ~starting'
        /\ i' \in -1 .. RollingCount - 1
        /\ stdin' \in Indices \cup {Closed, Elsewhere}
        /\ not_opened' \in Nat /\ clean' \in BOOLEAN
    <3>1. CASE OpenFails /\ Returns(FALSE) /\ UNCHANGED <<i, stdin>>
      <4>1. starting' = FALSE /\ clean' = FALSE
        BY <3>1 DEF OpenFails, Returns
      <4>2. at' \in {"write", "idle", "off"} /\ not_opened' \in Nat
        BY <3>1 DEF OpenFails, Returns
      <4>. QED
        BY <1>1, <3>1, <4>1, <4>2 DEF TypeOK
    <3>2. CASE /\ at' = "roll" /\ i' = RollingCount - 1
               /\ stdin' = IF fd_is_file THEN stdin ELSE Closed
               /\ UNCHANGED <<starting, not_opened, clean>>
      BY <1>1, <3>2, Bounds DEF TypeOK
    <3>3. CASE /\ Returns(TRUE) \/ (at' = "reopen" /\ UNCHANGED starting)
               /\ UNCHANGED <<i, stdin, not_opened, clean>>
      BY <1>1, <3>3 DEF Returns, TypeOK
    <3>. QED
      BY <1>4, <3>1, <3>2, <3>3 DEF CheckSize
  <2>. QED
    BY <1>4, <2>1, <2>2 DEF CheckSize, TypeOK
<1>5. CASE RollFile
  <2>1. i \in Indices /\ i' \in -1 .. RollingCount - 1
    BY <1>1, <1>5, Bounds DEF RollFile, NextIndex, Indices
  <2>2. files' \in [Indices -> Seq(0 .. MaxMessages)]
    BY <1>1, <1>5, <2>1, MovedFile DEF RollFile
  <2>3. stdin' \in Indices \cup {Closed, Elsewhere}
    <3>1. i = RollingCount - 1 \/ i + 1 \in Indices
      BY <2>1, Bounds DEF Indices
    <3>2. stdin' \in {stdin, Elsewhere} \cup
                     {IF i = RollingCount - 1 THEN Elsewhere ELSE i + 1}
      BY <1>5 DEF RollFile, StdinMoved
    <3>. QED
      BY <1>1, <3>1, <3>2
  <2>. QED
    BY <1>5, <2>1, <2>2, <2>3 DEF RollFile, TypeOK
<1>6. CASE EndRoll
  BY <1>6 DEF EndRoll, TypeOK, history
<1>7. CASE Reopen
  <2>1. files' \in [Indices -> Seq(0 .. MaxMessages)]
    BY <1>1, <1>7, CreatedFile DEF Reopen
  <2>2. /\ at' \in {"write", "idle", "off"} /\ starting' \in BOOLEAN
        /\ at' \in {"idle", "write"} => ~starting'
        /\ fd_is_file' \in BOOLEAN
        /\ stdin' \in Indices \cup {Closed, Elsewhere}
        /\ not_opened' \in Nat /\ clean' \in BOOLEAN
    <3>1. CASE /\ OpenFails /\ fd_is_file' = FALSE /\ Returns(FALSE)
               /\ UNCHANGED stdin
      <4>1. starting' = FALSE /\ clean' = FALSE
        BY <3>1 DEF OpenFails, Returns
      <4>2. at' \in {"write", "idle", "off"} /\ not_opened' \in Nat
        BY <3>1 DEF OpenFails, Returns
      <4>. QED
        BY <1>1, <3>1, <4>1, <4>2 DEF TypeOK
    <3>2. CASE /\ fd_is_file' = (stdin # Closed)
               /\ stdin' = IF stdin = Closed THEN 0 ELSE stdin
               /\ Returns(TRUE) /\ UNCHANGED <<not_opened, clean>>
      BY <1>1, <3>2, Bounds DEF Returns, TypeOK
    <3>. QED
      BY <1>7, <3>1, <3>2 DEF Reopen
  <2>. QED
    BY <1>7, <2>1, <2>2 DEF Reopen, TypeOK
<1>8. CASE Write
  <2>1. files' \in [Indices -> Seq(0 .. MaxMessages)]
    <3>1. CASE files' = files
      BY <1>1, <3>1
    <3>2. CASE \E t \in Indices :
                 files' = [files EXCEPT ![t] = Append(files[t], messages)]
      BY <3>2, AppendedEntry
    <3>. QED
      BY <1>8, <3>1, <3>2 DEF Write
  <2>2. messages \in 1 .. messages
    BY <1>1, <1>8 DEF Write, OrderInv, Logging
  <2>3. logged' \subseteq 1 .. messages
    BY <1>1, <1>8, <2>2 DEF Write
  <2>4. missed' \in Nat /\ not_opened' \in Nat
    BY <1>8 DEF Write
  <2>. QED
    BY <1>8, <2>1, <2>3, <2>4 DEF Write, TypeOK
<1>9. CASE End
  BY <1>9 DEF End, TypeOK, history
<1>. QED
  BY <1>2, <1>3, <1>4, <1>5, <1>6, <1>7, <1>8, <1>9 DEF Next

\* InIs after a step.
LEMMA InIsNext ==
  ASSUME TypeOK'
  PROVE  \A k \in Indices : In(k)' = logged' \cap Entries(k)'
  BY DEF TypeOK, In, Exists, Entries, Absent

\* Steps that move no message between the files.
SameFiles ==
  /\ logged' = logged
  /\ \A k \in Indices : In(k)' = In(k)
  /\ \A k \in Indices : Entries(k)' \subseteq Entries(k)

\* A step moves no message, moves one file, or writes a message.
LEMMA SameFilesSteps ==
  ASSUME LogType, OrderInv, Next
  PROVE  \/ SameFiles
         \/ RollFile /\ Exists(i) /\ clean' = clean /\
              files' = IF i = RollingCount - 1
                       THEN [files EXCEPT ![i] = Absent]
                       ELSE [files EXCEPT ![i] = Absent, ![i + 1] = files[i]]
         \/ Write
<1>. USE DEF LogType
<1>1. TypeOK' /\ TypeOK
  BY LogTypeNext
<1>2. CASE logged' = logged /\ files' = files
  <2>1. \A k \in Indices : In(k)' = In(k)
    BY <1>2 DEF In, Exists
  <2>2. \A k \in Indices : Entries(k)' = Entries(k)
    BY <1>2 DEF Entries
  <2>. QED
    BY <1>2, <2>1, <2>2 DEF SameFiles
<1>3. CASE logged' = logged /\ files' = [files EXCEPT ![0] = Created(0)]
  <2>1. \A k \in Indices : /\ Entries(k)' \subseteq Entries(k)
                           /\ Entries(k) \subseteq Entries(k)' \cup {0}
    BY <1>1, <1>3, CreatedFile
  <2>2. 0 \notin logged
    BY Bounds, InIs
  <2>3. \A k \in Indices : In(k) = logged \cap Entries(k)
    BY InIs
  <2>4. \A k \in Indices : In(k)' = logged \cap Entries(k)'
    BY <1>1, <1>3, InIsNext
  <2>. QED
    BY <1>3, <2>1, <2>2, <2>3, <2>4 DEF SameFiles
<1>. QED
  BY <1>2, <1>3 DEF Next, StartRun, Message, CheckSize, RollFile, EndRoll,
                    Reopen, End, history

\* The step of the loop that moves file n.
Moves(n) ==
  /\ logged' = logged /\ n \in Indices
  /\ In(n)' = {} /\ Entries(n)' = {0} /\ files'[n] = Absent
  /\ n + 1 \in Indices <=> n # RollingCount - 1
  /\ n + 1 \in Indices => /\ In(n + 1)' = In(n)
                          /\ Entries(n + 1)' = Entries(n)
  /\ \A k \in Indices \ {n, n + 1} : /\ In(k)' = In(k)
                                     /\ Entries(k)' = Entries(k)

\* What the step of the loop does to the messages in the files.
LEMMA MovesFacts ==
  ASSUME LogType, OrderInv, Next, RollFile, Exists(i),
         files' = IF i = RollingCount - 1
                  THEN [files EXCEPT ![i] = Absent]
                  ELSE [files EXCEPT ![i] = Absent, ![i + 1] = files[i]]
  PROVE  \E n \in Indices : n = i /\ Moves(n)
<1>1. TypeOK /\ TypeOK'
  BY LogTypeNext DEF LogType
<1>2. i \in Indices /\ logged' = logged
  BY <1>1, Bounds DEF RollFile, Indices, TypeOK
<1>3. PICK n \in Indices : n = i
  BY <1>2
<1>4. files' = IF n = RollingCount - 1
               THEN [files EXCEPT ![n] = Absent]
               ELSE [files EXCEPT ![n] = Absent, ![n + 1] = files[n]]
  BY <1>3
<1>5. /\ files'[n] = Absent /\ Entries(n)' = {0}
      /\ n + 1 \in Indices <=> n # RollingCount - 1
      /\ n + 1 \in Indices => Entries(n + 1)' = Entries(n)
      /\ \A k \in Indices \ {n, n + 1} : Entries(k)' = Entries(k)
  BY <1>1, <1>4, MovedFile
<1>6. /\ \A k \in Indices : In(k)' = logged' \cap Entries(k)'
      /\ \A k \in Indices : In(k) = logged \cap Entries(k)
      /\ 0 \notin logged
  BY <1>1, InIs, InIsNext, Bounds
<1>7. Moves(n)
  BY <1>2, <1>5, <1>6 DEF Moves
<1>. QED
  BY <1>3, <1>7

\* A message is written to the file that is open, or to none of the log.
LEMMA WriteFacts ==
  ASSUME LogType, OrderInv, Next, Write
  PROVE  /\ messages' = messages
         /\ messages \in 1 .. messages /\ messages \notin logged
         /\ \A k \in Indices : Entries(k)' \subseteq Entries(k) \cup {messages}
         /\ \A k \in Indices \ {0} : In(k)' = In(k)
         /\ \/ SameFiles \/ (logged' = logged /\ In(0)' = In(0))
            \/ /\ logged' = logged \cup {messages}
               /\ In(0)' = In(0) \cup {messages}
<1>1. TypeOK /\ TypeOK'
  BY LogTypeNext DEF LogType
<1>2. /\ messages' = messages /\ messages \in 1 .. messages
      /\ messages \notin logged
      /\ \A k \in Indices : messages \notin Entries(k)
  BY <1>1 DEF Write, OrderInv, Logging, TypeOK
<1>3. /\ \A k \in Indices : In(k)' = logged' \cap Entries(k)'
      /\ \A k \in Indices : In(k) = logged \cap Entries(k)
  BY <1>1, InIs, InIsNext
<1>4. CASE files' = files /\ logged' = logged
  <2>1. \A k \in Indices : Entries(k)' = Entries(k)
    BY <1>4 DEF Entries
  <2>. QED
    BY <1>2, <1>3, <1>4, <2>1, Bounds DEF SameFiles
<1>5. ASSUME NEW t \in Indices,
             files' = [files EXCEPT ![t] = Append(files[t], messages)],
             logged' = IF t = 0 THEN logged \cup {messages} ELSE logged
      PROVE  /\ \A k \in Indices : Entries(k)' \subseteq Entries(k) \cup {messages}
             /\ \A k \in Indices \ {0} : In(k)' = In(k)
             /\ IF t = 0 THEN In(0)' = In(0) \cup {messages}
                         ELSE In(0)' = In(0)
  <2>1. /\ Entries(t)' = Entries(t) \cup {messages}
        /\ \A k \in Indices \ {t} : Entries(k)' = Entries(k)
    BY <1>1, <1>5, AppendedEntry
  <2>2. ASSUME NEW k \in Indices
        PROVE  /\ Entries(k)' \subseteq Entries(k) \cup {messages}
               /\ k # 0 \/ t # 0 => In(k)' = In(k)
               /\ k = 0 /\ t = 0 => In(k)' = In(k) \cup {messages}
    <3>1. /\ In(k)' = logged' \cap Entries(k)'
          /\ In(k) = logged \cap Entries(k)
          /\ messages \notin Entries(k) /\ messages \notin logged
      BY <1>2, <1>3
    <3>2. /\ k = t => Entries(k)' = Entries(k) \cup {messages}
          /\ k # t => Entries(k)' = Entries(k)
          /\ t = 0 => logged' = logged \cup {messages}
          /\ t # 0 => logged' = logged
      BY <1>5, <2>1
    <3>. QED
      BY <3>1, <3>2
  <2>. QED
    BY <2>2, Bounds
<1>6. \/ files' = files /\ logged' = logged
      \/ \E t \in Indices :
           /\ files' = [files EXCEPT ![t] = Append(files[t], messages)]
           /\ logged' = IF t = 0 THEN logged \cup {messages} ELSE logged
  BY Bounds DEF Write
<1>. QED
  BY <1>2, <1>4, <1>5, <1>6

\* The order depends on the messages in the files alone.
LEMMA SameOrder ==
  ASSUME Ordered, \A k \in Indices : In(k)' = In(k)
  PROVE  Ordered'
<1>1. \A j \in Indices : \A k \in 0 .. j - 1 : k \in Indices
  BY Bounds DEF Indices
<1>. QED
  BY <1>1 DEF Ordered

\* Every step keeps the order of the messages.
LEMMA OrderInvNext ==
  ASSUME LogType, OrderInv, Next
  PROVE  OrderInv'
<1>1. /\ messages \in Nat /\ logged \subseteq 1 .. messages
      /\ \A j \in Indices : j \in Int
  BY DEF LogType, TypeOK, Indices
<1>2. \A k \in Indices : \A n \in Entries(k) : n \in Nat
  <2>1. \A k \in Indices : files[k] \in Seq(0 .. MaxMessages)
    BY DEF LogType, TypeOK
  <2>2. \A k \in Indices : \A m \in DOMAIN files[k] :
          files[k][m] \in 0 .. MaxMessages
    BY <2>1, LenProperties, ElementOfSeq
  <2>. QED
    BY <2>2 DEF Entries
<1>3. CASE Message
  <2>1. messages' = messages + 1 /\ SameFiles
    BY <1>3, SameFilesSteps DEF Message, SameFiles, In, Entries, Exists
  <2>2. \A k \in Indices : \A n \in Entries(k)' : n <= messages
    BY <2>1 DEF SameFiles, OrderInv
  <2>3. \A k \in Indices : \A n \in Entries(k)' : n <= messages' /\ n # messages'
    BY <1>1, <1>2, <2>1, <2>2 DEF SameFiles
  <2>4. messages' >= 1 /\ messages' \notin logged'
    BY <1>1, <2>1 DEF SameFiles
  <2>. QED
    BY <2>1, <2>3, <2>4, SameOrder DEF OrderInv, SameFiles
<1>4. CASE ~Message
  <2>1. messages' = messages
    BY <1>4 DEF Next, StartRun, CheckSize, RollFile, EndRoll, Reopen, Write,
                End, history
  <2>2. Logging' => Logging
    BY <1>4 DEF Next, StartRun, CheckSize, RollFile, EndRoll, Reopen, Write,
                End, Returns, Logging
  <2>3. CASE SameFiles
    <3>1. \A k \in Indices : \A x \in Entries(k)' : x <= messages'
      BY <2>1, <2>3 DEF OrderInv, SameFiles
    <3>2. Logging' => /\ messages' >= 1 /\ messages' \notin logged'
                      /\ \A k \in Indices : messages' \notin Entries(k)'
      BY <2>1, <2>2, <2>3 DEF OrderInv, SameFiles
    <3>. QED
      BY <2>3, <3>1, <3>2, SameOrder DEF OrderInv, SameFiles
  <2>4. ASSUME NEW n \in Indices, n = i, Moves(n) PROVE OrderInv'
    <3>1. \A k \in Indices : Entries(k)' \subseteq {0} \cup Entries(k)
                             \/ \E m \in Indices : Entries(k)' = Entries(m)
      BY <2>4 DEF Moves
    <3>2. \A k \in Indices : \A x \in Entries(k)' : x <= messages'
      BY <1>1, <2>1, <3>1 DEF OrderInv
    <3>3. Logging' => /\ messages' >= 1 /\ messages' \notin logged'
                      /\ \A k \in Indices : messages' \notin Entries(k)'
      BY <2>1, <2>2, <2>4, <3>1 DEF OrderInv, Moves
    <3>4. ASSUME NEW j \in Indices, NEW k \in 0 .. j - 1,
                 NEW old \in In(j)', NEW new \in In(k)'
          PROVE  old < new
      <4>1. k \in Indices /\ k < j
        BY <1>1, Bounds DEF Indices
      <4>2. j # n /\ k # n
        BY <2>4 DEF Moves
      <4>3. CASE j = n + 1
        <5>1. old \in In(n) /\ k # n + 1 /\ k \in 0 .. n - 1
          BY <1>1, <2>4, <4>1, <4>2, <4>3, <3>4 DEF Moves, Indices
        <5>2. new \in In(k)
          BY <2>4, <4>1, <4>2, <5>1, <3>4 DEF Moves
        <5>. QED
          BY <5>1, <5>2 DEF OrderInv, Ordered
      <4>4. CASE k = n + 1
        <5>1. new \in In(n) /\ old \in In(j) /\ n \in 0 .. j - 1
          BY <1>1, <2>4, <4>1, <4>2, <4>4, <3>4 DEF Moves, Indices
        <5>. QED
          BY <5>1 DEF OrderInv, Ordered
      <4>5. CASE j # n + 1 /\ k # n + 1
        BY <2>4, <4>1, <4>2, <4>5, <3>4 DEF Moves, OrderInv, Ordered
      <4>. QED
        BY <4>3, <4>4, <4>5
    <3>. QED
      BY <3>2, <3>3, <3>4 DEF OrderInv, Ordered
  <2>5. CASE Write
    <3>1. /\ \A k \in Indices : Entries(k)' \subseteq Entries(k) \cup {messages}
          /\ \A k \in Indices \ {0} : In(k)' = In(k)
          /\ In(0)' \subseteq In(0) \cup {messages}
          /\ messages' = messages
      BY <2>5, WriteFacts, Bounds DEF SameFiles
    <3>2. ~Logging'
      BY <2>5 DEF Write, Logging
    <3>3. \A k \in Indices : \A x \in Entries(k)' : x <= messages'
      BY <1>1, <3>1 DEF OrderInv
    <3>4. ASSUME NEW j \in Indices, NEW k \in 0 .. j - 1,
                 NEW old \in In(j)', NEW new \in In(k)'
          PROVE  old < new
      <4>1. k \in Indices /\ j # 0
        BY <1>1, Bounds DEF Indices
      <4>2. old \in In(j) /\ old \in logged
        BY <3>1, <4>1, <3>4, InIs DEF LogType
      <4>3. old < messages
        <5>1. messages \notin logged
          BY <2>5, WriteFacts
        <5>. QED
          BY <1>1, <4>2, <5>1
      <4>4. new \in In(k) \/ new = messages
        BY <3>1, <4>1, <3>4
      <4>. QED
        BY <4>2, <4>3, <4>4 DEF OrderInv, Ordered
    <3>. QED
      BY <3>2, <3>3, <3>4 DEF OrderInv, Ordered
  <2>. QED
    BY <2>3, <2>4, <2>5, SameFilesSteps, MovesFacts
<1>. QED
  BY <1>3, <1>4

\* While nothing fails, only the oldest messages are lost.
LEMMA CleanInvNext ==
  ASSUME LogType, OrderInv, CleanInv, Next
  PROVE  CleanInv'
<1>. SUFFICES ASSUME clean'
              PROVE  /\ \A lost \in logged' \ Kept' : \A m \in Kept' : lost < m
                     /\ at' = "roll" /\ i' + 1 \in Indices =>
                          files'[i' + 1] = Absent
  BY DEF CleanInv
<1>1. clean
  BY DEF Next, StartRun, Message, CheckSize, OpenFails, RollFile, EndRoll,
         Reopen, Write, End, history
<1>2. /\ \A x : x \in Kept <=> \E k \in Indices : x \in In(k)
      /\ \A x : x \in Kept' <=> \E k \in Indices : x \in In(k)'
  BY DEF Kept
<1>3. TypeOK /\ i \in Int /\ logged \subseteq 1 .. messages /\ messages \in Nat
  BY Bounds DEF LogType, TypeOK
<1>4. \A lost \in logged \ Kept : \A m \in Kept : lost < m
  BY <1>1 DEF CleanInv
<1>5. \A lost \in logged' \ Kept' : \A m \in Kept' : lost < m
  <2>1. CASE SameFiles
    BY <1>2, <1>4, <2>1 DEF SameFiles
  <2>2. ASSUME NEW n \in Indices, n = i, Moves(n), RollFile
        PROVE  \A lost \in logged' \ Kept' : \A m \in Kept' : lost < m
    <3>1. CASE n + 1 \in Indices
      <4>1. files[n + 1] = Absent
        BY <1>1, <2>2, <3>1 DEF CleanInv, RollFile
      <4>2. In(n + 1) = {}
        BY <3>1, <4>1 DEF In, Exists
      <4>3. ASSUME NEW x PROVE x \in Kept' <=> x \in Kept
        <5>1. ASSUME NEW k \in Indices, x \in In(k)'
              PROVE  \E j \in Indices : x \in In(j)
          BY <2>2, <3>1, <5>1 DEF Moves
        <5>2. ASSUME NEW k \in Indices, x \in In(k)
              PROVE  \E j \in Indices : x \in In(j)'
          BY <2>2, <3>1, <4>2, <5>2 DEF Moves
        <5>. QED
          BY <1>2, <5>1, <5>2
      <4>. QED
        BY <1>4, <2>2, <4>3 DEF Moves
    <3>2. CASE n + 1 \notin Indices
      <4>1. \A k \in Indices : k # n => In(k)' = In(k) /\ k \in 0 .. n - 1
        BY <2>2, <3>2, Bounds DEF Moves, Indices
      <4>2. ASSUME NEW m \in Kept', NEW lost \in logged \ Kept'
            PROVE  lost < m
        <5>1. PICK k \in Indices : m \in In(k)'
          BY <1>2
        <5>2. k # n /\ m \in In(k) /\ m \in Kept /\ k \in 0 .. n - 1
          BY <1>2, <2>2, <4>1, <5>1 DEF Moves
        <5>3. CASE lost \in Kept
          <6>1. lost \in In(n)
            BY <1>2, <4>1, <5>3
          <6>. QED
            BY <5>2, <6>1 DEF OrderInv, Ordered
        <5>. QED
          BY <1>4, <5>2, <5>3
      <4>. QED
        BY <2>2, <4>2 DEF Moves
    <3>. QED
      BY <3>1, <3>2
  <2>3. CASE Write
    <3>1. /\ messages \notin logged
          /\ \A k \in Indices \ {0} : In(k)' = In(k)
          /\ \/ logged' = logged /\ In(0)' = In(0)
             \/ /\ logged' = logged \cup {messages}
                /\ In(0)' = In(0) \cup {messages}
      BY <2>3, WriteFacts, Bounds DEF SameFiles
    <3>2. CASE logged' = logged /\ In(0)' = In(0)
      BY <1>2, <1>4, <3>1, <3>2
    <3>3. CASE logged' = logged \cup {messages} /\ In(0)' = In(0) \cup {messages}
      <4>1. \A x : x \in Kept' <=> x \in Kept \/ x = messages
        BY <1>2, <3>1, <3>3, Bounds
      <4>2. \A lost \in logged : lost < messages
        BY <1>3, <3>1
      <4>. QED
        BY <1>4, <3>3, <4>1, <4>2
    <3>. QED
      BY <3>1, <3>2, <3>3
  <2>. QED
    BY <2>1, <2>2, <2>3, SameFilesSteps, MovesFacts
<1>6. ASSUME at' = "roll", i' + 1 \in Indices
      PROVE  files'[i' + 1] = Absent
  <2>1. CASE CheckSize
    <3>1. i' = RollingCount - 1
      BY <1>6, <2>1 DEF CheckSize, Returns
    <3>. QED
      BY <1>6, <3>1, Bounds DEF Indices
  <2>2. CASE RollFile
    <3>1. i' + 1 = i /\ i \in Indices
      BY <1>3, <1>6, <2>2 DEF RollFile, NextIndex
    <3>2. CASE ~Exists(i)
      BY <2>2, <3>1, <3>2 DEF RollFile, Exists
    <3>3. CASE Exists(i)
      <4>1. files' = IF i = RollingCount - 1
                     THEN [files EXCEPT ![i] = Absent]
                     ELSE [files EXCEPT ![i] = Absent, ![i + 1] = files[i]]
        BY <2>2, <3>3 DEF RollFile
      <4>2. PICK n \in Indices : n = i /\ Moves(n)
        BY <2>2, <3>3, <4>1, MovesFacts
      <4>. QED
        BY <3>1, <4>2 DEF Moves
    <3>. QED
      BY <3>2, <3>3
  <2>. QED
    BY <1>6, <2>1, <2>2 DEF Next, StartRun, Message, EndRoll, Reopen, Write,
                            End, Returns
<1>. QED
  BY <1>5, <1>6

\* No more messages than entries.
LEMMA FiniteIn ==
  ASSUME TypeOK, NEW k \in Indices
  PROVE  /\ IsFiniteSet(In(k)) /\ Cardinality(In(k)) \in Nat
         /\ Cardinality(In(k)) <= Len(files[k])
<1>1. files[k] \in Seq(0 .. MaxMessages)
  BY DEF TypeOK
<1>. DEFINE n == Len(files[k])
<1>2. n \in Nat /\ DOMAIN files[k] = 1 .. n
  BY <1>1, LenProperties
<1>3. files[k] \in Surjection(1 .. n, Entries(k))
  <2>1. files[k] \in [1 .. n -> Entries(k)]
    BY <1>1, <1>2, LenProperties DEF Entries
  <2>. QED
    BY <1>2, <2>1 DEF Surjection, Entries
<1>4. IsFiniteSet(1 .. n) /\ Cardinality(1 .. n) = n
  BY <1>2, FS_Interval
<1>5. IsFiniteSet(Entries(k)) /\ Cardinality(Entries(k)) <= n
  BY <1>3, <1>4, FS_Surjection
<1>6. In(k) \in SUBSET Entries(k)
  BY InIs
<1>7. IsFiniteSet(In(k)) /\ Cardinality(In(k)) <= Cardinality(Entries(k))
  BY <1>5, <1>6, FS_Subset
<1>8. Cardinality(In(k)) \in Nat /\ Cardinality(Entries(k)) \in Nat
  BY <1>5, <1>7, FS_CardinalityType
<1>. QED
  BY <1>2, <1>5, <1>7, <1>8

\* FiniteIn after a step.
LEMMA FiniteInNext ==
  ASSUME TypeOK', NEW k \in Indices
  PROVE  Cardinality(In(k)') \in Nat
<1>1. In(k)' \in SUBSET (1 .. messages')
  BY InIsNext DEF TypeOK
<1>2. messages' \in Nat
  BY DEF TypeOK
<1>3. IsFiniteSet(1 .. messages')
  BY <1>2, FS_Interval
<1>. QED
  BY <1>1, <1>3, FS_Subset, FS_CardinalityType

\* While nothing fails, no file outgrows the limit by more than an interval.
LEMMA SizeInvNext ==
  ASSUME LogType, OrderInv, CleanInv, SizeInv, MissedInv, Next, clean'
  PROVE  SizeInv'
<1>1. clean
  BY DEF Next, StartRun, Message, CheckSize, OpenFails, RollFile, EndRoll,
         Reopen, Write, End, history
<1>2. /\ \A k \in Indices : Cardinality(In(k)) <= RollingSize + Interval
      /\ at = "idle" => Cardinality(In(0)) <= RollingSize + log_ticks + 1
      /\ at = "write" => Cardinality(In(0)) <= RollingSize + log_ticks
      /\ at = "reopen" => Cardinality(In(0)) <= RollingSize
  BY <1>1 DEF SizeInv
<1>3. /\ \A k \in Indices : Cardinality(In(k)) \in Nat
      /\ log_ticks \in Nat /\ log_ticks <= CheckInterval + 1
      /\ RollingSize \in Nat /\ CheckInterval \in Nat /\ 0 \in Indices
      /\ Interval = CheckInterval + 2
  BY Bounds, FiniteIn DEF LogType, TypeOK, Interval
<1>4. CASE Write
  <2>1. /\ at = "write" /\ at' = "idle" /\ log_ticks' = log_ticks
        /\ \A k \in Indices \ {0} : In(k)' = In(k)
        /\ In(0)' = In(0) \/ In(0)' = In(0) \cup {messages}
    BY <1>4, <1>3, WriteFacts DEF Write, SameFiles
  <2>2. Cardinality(In(0)') <= Cardinality(In(0)) + 1
    <3>1. IsFiniteSet(In(0))
      BY <1>3, FiniteIn DEF LogType
    <3>2. Cardinality(In(0) \cup {messages}) \in
            {Cardinality(In(0)), Cardinality(In(0)) + 1}
      BY <3>1, FS_AddElement
    <3>. QED
      BY <1>3, <2>1, <3>2
  <2>3. Cardinality(In(0)') \in Int
    <3>1. \A k \in Indices : Cardinality(In(k)') \in Nat
      BY LogTypeNext, FiniteInNext DEF LogType
    <3>. QED
      BY <1>3, <3>1
  <2>4. Cardinality(In(0)') <= RollingSize + log_ticks + 1
    BY <1>2, <1>3, <2>1, <2>2, <2>3
  <2>5. \A k \in Indices : Cardinality(In(k)') <= RollingSize + Interval
    BY <1>2, <1>3, <2>1, <2>3, <2>4
  <2>. QED
    BY <2>1, <2>4, <2>5 DEF SizeInv
<1>5. ASSUME NEW n \in Indices, n = i, Moves(n), RollFile
      PROVE  SizeInv'
  <2>1. Cardinality({}) = 0
    BY FS_EmptySet
  <2>2. ASSUME NEW k \in Indices
        PROVE  Cardinality(In(k)') <= RollingSize + Interval
    <3>1. CASE k = n
      BY <1>3, <1>5, <2>1, <3>1 DEF Moves
    <3>2. CASE k = n + 1
      BY <1>2, <1>5, <3>2 DEF Moves
    <3>3. CASE k # n /\ k # n + 1
      BY <1>2, <1>5, <3>3 DEF Moves
    <3>. QED
      BY <3>1, <3>2, <3>3
  <2>3. at' = "roll"
    BY <1>5 DEF RollFile
  <2>. QED
    BY <2>2, <2>3 DEF SizeInv
<1>6. CASE SameFiles
  <2>1. \A k \in Indices : Cardinality(In(k)') = Cardinality(In(k))
    BY <1>6 DEF SameFiles
  <2>2. \A k \in Indices : Cardinality(In(k)') <= RollingSize + Interval
    BY <1>2, <2>1
  <2>3. Cardinality(In(0)') = Cardinality(In(0))
    BY <1>3, <2>1
  <2>4. CASE CheckSize
    <3>1. at' \in {"write", "idle", "reopen"} =>
            Cardinality(In(0)) <= RollingSize
      <4>1. SUFFICES ASSUME at' # "roll", at' # "off"
                     PROVE  Cardinality(In(0)) <= RollingSize
        OBVIOUS
      <4>2. Len(Created(0)) <= RollingSize
        <5>1. ~OpenFails
          BY DEF OpenFails
        <5>2. files[0] \in Seq(0 .. MaxMessages)
          BY <1>3 DEF LogType, TypeOK
        <5>3. Created(0) \in Seq(0 .. MaxMessages)
          BY <5>2, EmptySeq DEF Created
        <5>4. Len(Created(0)) \in Nat
          BY <5>3, LenProperties
        <5>5. Len(Created(0)) > RollingSize => at' = "roll"
          BY <2>4, <5>1 DEF CheckSize
        <5>. QED
          BY <1>3, <4>1, <5>4, <5>5
      <4>3. CASE Exists(0)
        <5>1. Cardinality(In(0)) <= Len(files[0])
          BY <1>3, FiniteIn DEF LogType
        <5>2. files[0] \in Seq(0 .. MaxMessages)
          BY <1>3 DEF LogType, TypeOK
        <5>3. Len(files[0]) \in Nat
          BY <5>2, LenProperties
        <5>. QED
          BY <1>3, <4>2, <4>3, <5>1, <5>3 DEF Created
      <4>4. CASE ~Exists(0)
        <5>1. In(0) = {}
          BY <4>4 DEF In
        <5>. QED
          BY <1>3, <5>1, FS_EmptySet
      <4>. QED
        BY <4>3, <4>4
    <3>2. log_ticks' = 0
      BY <2>4 DEF CheckSize, MissedInv
    <3>. QED
      BY <1>3, <2>2, <2>3, <3>1, <3>2 DEF SizeInv
  <2>5. CASE EndRoll
    <3>1. i + 1 = 0
      BY <2>5 DEF EndRoll, LogType, TypeOK
    <3>2. files[0] = Absent
      BY <1>1, <1>3, <2>5, <3>1 DEF CleanInv, EndRoll
    <3>3. In(0) = {}
      BY <3>2 DEF In, Exists
    <3>4. Cardinality(In(0)) = 0
      BY <3>3, FS_EmptySet
    <3>5. at' = "reopen"
      BY <2>5 DEF EndRoll
    <3>. QED
      BY <1>3, <2>2, <2>3, <3>4, <3>5 DEF SizeInv
  <2>6. CASE Message
    <3>1. /\ at = "idle"
          /\ at' = "check" \/ (at' = "write" /\ log_ticks' = log_ticks + 1)
      BY <2>6 DEF Message
    <3>. QED
      BY <1>2, <1>3, <2>2, <2>3, <3>1 DEF SizeInv
  <2>7. CASE Reopen
    <3>1. /\ at = "reopen" /\ log_ticks' = log_ticks
          /\ at' \in {"write", "idle", "off"}
      BY <2>7 DEF Reopen, Returns
    <3>. QED
      BY <1>2, <1>3, <2>2, <2>3, <3>1 DEF SizeInv
  <2>8. CASE StartRun \/ RollFile \/ End
    <3>1. at' \in {"check", "roll", "off"}
      BY <2>8 DEF StartRun, RollFile, End
    <3>. QED
      BY <2>2, <3>1 DEF SizeInv
  <2>. QED
    BY <1>4, <2>4, <2>5, <2>6, <2>7, <2>8 DEF Next
<1>. QED
  BY <1>4, <1>5, <1>6, SameFilesSteps, MovesFacts

\* Each opening that fails costs an interval at most.
LEMMA MissedInvNext ==
  ASSUME LogType, MissedInv, Next
  PROVE  MissedInv'
<1>. DEFINE owed == not_opened * Interval
<1>1. /\ Interval \in Nat /\ Interval = CheckInterval + 2
      /\ missed \in Nat /\ not_opened \in Nat
      /\ log_ticks \in Nat /\ log_ticks <= CheckInterval + 1
      /\ stdin \in Indices \cup {Closed, Elsewhere} /\ i \in Int
  BY Bounds DEF LogType, TypeOK, Interval
<1>2. /\ owed \in Nat /\ (not_opened + 1) * Interval = owed + Interval
      /\ 0 * Interval = 0
  BY <1>1
<1>3. \A k \in Indices : k \in Nat
  BY DEF Indices
<1>. HIDE DEF owed
<1>4. /\ stdin = Closed => ~fd_is_file
      /\ at = "roll" /\ ~fd_is_file => stdin = Closed
      /\ missed <= owed
      /\ at \in {"check", "roll", "reopen"} => (starting => missed = 0)
      /\ at \in {"check", "roll", "reopen"} => log_ticks = 0
      /\ NoFile /\ at = "idle" => missed + Interval <= owed + log_ticks + 1
      /\ NoFile /\ at = "write" => missed + Interval <= owed + log_ticks
  BY DEF MissedInv, owed
<1>5. CASE StartRun
  <2>1. /\ at' = "check" /\ stdin' = Elsewhere /\ missed' = 0
        /\ not_opened' = 0 /\ log_ticks' = 0
    BY <1>5 DEF StartRun
  <2>. QED
    BY <1>2, <2>1 DEF MissedInv, Closed, Elsewhere
<1>6. CASE Message
  <2>1. /\ UNCHANGED <<fd_is_file, stdin, missed, not_opened, starting>>
        /\ at = "idle" /\ ~starting
        /\ \/ at' = "check" /\ log_ticks' = 0
           \/ at' = "write" /\ log_ticks' = log_ticks + 1
    BY <1>6 DEF Message, LogType
  <2>2. NoFile' = NoFile
    BY <2>1 DEF NoFile
  <2>. QED
    BY <1>1, <1>2, <1>4, <2>1, <2>2 DEF MissedInv, owed
<1>7. CASE CheckSize
  <2>1. /\ UNCHANGED <<fd_is_file, log_ticks, missed>> /\ log_ticks = 0
        /\ at = "check"
        /\ starting => missed = 0
    BY <1>4, <1>7 DEF CheckSize
  <2>2. CASE OpenFails /\ Returns(FALSE) /\ UNCHANGED <<i, stdin>>
    <3>1. /\ not_opened' = not_opened + 1 /\ at' \in {"write", "off"}
          /\ stdin' = stdin
      BY <2>2 DEF OpenFails, Returns
    <3>2. not_opened' * Interval = owed + Interval
      BY <1>2, <3>1
    <3>. QED
      BY <1>1, <1>2, <1>4, <2>1, <3>1, <3>2 DEF MissedInv
  <2>3. CASE /\ at' = "roll" /\ stdin' = IF fd_is_file THEN stdin ELSE Closed
             /\ UNCHANGED <<starting, not_opened>>
    <3>1. not_opened' * Interval = owed
      BY <2>3 DEF owed
    <3>2. /\ stdin' = Closed => ~fd_is_file'
          /\ ~fd_is_file' => stdin' = Closed
          /\ missed' <= not_opened' * Interval
      BY <1>4, <2>1, <2>3, <3>1
    <3>. QED
      BY <2>1, <2>3, <3>2 DEF MissedInv
  <2>4. CASE /\ IF HasFile THEN Returns(TRUE)
                           ELSE at' = "reopen" /\ UNCHANGED starting
             /\ UNCHANGED <<stdin, not_opened>>
    <3>1. CASE fd_is_file
      <4>1. at' \in {"write", "idle"} /\ ~NoFile'
        BY <2>1, <2>4, <3>1 DEF HasFile, Returns, NoFile
      <4>. QED
        BY <1>1, <1>2, <1>4, <2>1, <2>4, <4>1 DEF MissedInv, owed
    <3>2. CASE ~fd_is_file
      <4>1. at' = "reopen" /\ starting' = starting
        BY <2>4, <3>2 DEF HasFile
      <4>. QED
        <5>1. not_opened' * Interval = owed
          BY <2>4 DEF owed
        <5>2. stdin' = stdin
          BY <2>4
        <5>. QED
          BY <1>1, <1>2, <1>4, <2>1, <4>1, <5>1, <5>2 DEF MissedInv
    <3>. QED
      BY <3>1, <3>2
  <2>. QED
    BY <1>7, <2>2, <2>3, <2>4 DEF CheckSize
<1>8. CASE RollFile
  <2>1. /\ UNCHANGED <<at, starting, fd_is_file, log_ticks, missed, not_opened>>
        /\ at = "roll" /\ i \in Nat
    BY <1>1, <1>8 DEF RollFile
  <2>2. stdin' = Closed <=> stdin = Closed
    BY <1>1, <1>3, <1>8, <2>1 DEF RollFile, StdinMoved, Closed, Elsewhere
  <2>. QED
    BY <1>1, <1>2, <1>4, <2>1, <2>2 DEF MissedInv, owed
<1>9. CASE EndRoll
  <2>1. /\ UNCHANGED <<starting, fd_is_file, stdin, log_ticks, missed,
                       not_opened>>
        /\ at = "roll" /\ at' = "reopen"
    BY <1>9 DEF EndRoll, history
  <2>. QED
    BY <1>1, <1>2, <1>4, <2>1 DEF MissedInv, owed
<1>10. CASE Reopen
  <2>1. /\ UNCHANGED <<log_ticks, missed>> /\ log_ticks = 0 /\ at = "reopen"
    BY <1>4, <1>10 DEF Reopen
  <2>2. CASE OpenFails /\ fd_is_file' = FALSE /\ Returns(FALSE) /\ UNCHANGED stdin
    <3>1. /\ not_opened' = not_opened + 1 /\ at' \in {"write", "idle", "off"}
          /\ stdin' = stdin /\ ~fd_is_file'
      BY <2>2 DEF OpenFails, Returns
    <3>2. not_opened' * Interval = owed + Interval
      BY <1>2, <3>1
    <3>. QED
      BY <1>1, <1>2, <1>4, <2>1, <3>1, <3>2 DEF MissedInv
  <2>3. CASE /\ fd_is_file' = (stdin # Closed)
             /\ stdin' = IF stdin = Closed THEN 0 ELSE stdin
             /\ Returns(TRUE) /\ UNCHANGED not_opened
    <3>1. at' \in {"write", "idle"} /\ ~NoFile' /\ stdin' # Closed
      <4>1. at' \in {"write", "idle"}
        BY <2>3 DEF Returns
      <4>2. CASE stdin = Closed
        BY <2>3, <4>1, <4>2 DEF NoFile, Closed
      <4>3. CASE stdin # Closed
        BY <2>3, <4>1, <4>3 DEF NoFile
      <4>. QED
        BY <4>2, <4>3
    <3>2. not_opened' * Interval = owed
      BY <2>3 DEF owed
    <3>. QED
      BY <1>1, <1>2, <1>4, <2>1, <3>1, <3>2 DEF MissedInv
  <2>. QED
    BY <1>10, <2>2, <2>3 DEF Reopen
<1>11. CASE Write
  <2>1. /\ UNCHANGED <<starting, fd_is_file, stdin, log_ticks>>
        /\ at = "write" /\ at' = "idle"
        /\ IF NoFile THEN missed' = missed + 1 /\ not_opened' = not_opened
                     ELSE missed' = 0 /\ not_opened' = 0
    BY <1>11 DEF Write, NoFile
  <2>2. NoFile' = NoFile
    BY <2>1 DEF NoFile
  <2>3. CASE NoFile
    <3>1. not_opened' * Interval = owed /\ missed' = missed + 1
      BY <2>1, <2>3 DEF owed
    <3>2. missed + Interval <= owed + log_ticks
      BY <1>4, <2>1, <2>3
    <3>3. /\ missed' <= not_opened' * Interval
          /\ missed' + Interval <= not_opened' * Interval + log_ticks' + 1
      <4>1. missed + 1 <= owed /\ missed + 1 + Interval <= owed + log_ticks + 1
        <5>1. CheckInterval \in Nat
          BY Bounds
        <5>. QED
          BY ONLY <1>1, <1>2, <3>2, <5>1
      <4>2. log_ticks' = log_ticks
        BY <2>1
      <4>. QED
        BY <3>1, <4>1, <4>2
    <3>4. stdin' = Closed => ~fd_is_file'
      BY <1>4, <2>1
    <3>. QED
      BY <2>1, <3>3, <3>4 DEF MissedInv
  <2>4. CASE ~NoFile
    BY <1>1, <1>2, <1>4, <2>1, <2>2, <2>4 DEF MissedInv
  <2>. QED
    BY <2>3, <2>4
<1>12. CASE End
  <2>1. at' = "off" /\ UNCHANGED <<fd_is_file, stdin, missed, not_opened>>
    BY <1>12 DEF End, history
  <2>. QED
    BY <1>1, <1>2, <1>4, <2>1 DEF MissedInv, owed
<1>. QED
  BY <1>5, <1>6, <1>7, <1>8, <1>9, <1>10, <1>11, <1>12 DEF Next

\* Init establishes the invariant.
LEMMA LogInvInit == Init => LogInv
<1>. SUFFICES ASSUME Init PROVE LogInv
  OBVIOUS
<1>1. /\ at = "off" /\ files = [k \in Indices |-> Absent] /\ logged = {}
      /\ messages = 0 /\ missed = 0 /\ not_opened = 0 /\ stdin = Elsewhere
      /\ clean = TRUE
  BY DEF Init
<1>2. LogType
  <2>1. Absent \in Seq(0 .. MaxMessages)
    BY Bounds DEF Absent
  <2>2. files \in [Indices -> Seq(0 .. MaxMessages)]
    BY <1>1, <2>1
  <2>3. /\ starting \in BOOLEAN /\ fd_is_file \in BOOLEAN /\ clean \in BOOLEAN
    BY DEF Init
  <2>4. /\ i \in -1 .. RollingCount - 1 /\ log_ticks \in 0 .. CheckInterval + 1
        /\ messages \in 0 .. MaxMessages
    BY Bounds DEF Init
  <2>. QED
    BY <1>1, <2>2, <2>3, <2>4 DEF LogType, TypeOK
<1>3. \A k \in Indices : In(k) = {}
  BY <1>1 DEF In, Exists
<1>4. \A k \in Indices : Entries(k) = {0}
  <2>1. DOMAIN <<0>> = {1} /\ <<0>>[1] = 0
    OBVIOUS
  <2>2. \A k \in Indices : files[k] = <<0>>
    BY <1>1 DEF Absent
  <2>. QED
    BY <2>1, <2>2 DEF Entries
<1>5. OrderInv
  <2>1. Ordered
    <3>1. \A j \in Indices : \A k \in 0 .. j - 1 : k \in Indices
      BY Bounds DEF Indices
    <3>. QED
      BY <1>3, <3>1 DEF Ordered
  <2>. QED
    BY <1>1, <1>4, <2>1 DEF OrderInv, Logging
<1>6. CleanInv
  BY <1>1 DEF CleanInv
<1>7. SizeInv
  BY <1>1, <1>3, Bounds, FS_EmptySet DEF SizeInv
<1>8. MissedInv
  BY <1>1, Bounds DEF MissedInv, Closed, Elsewhere
<1>. QED
  BY <1>2, <1>5, <1>6, <1>7, <1>8 DEF LogInv

\* Every step keeps it.
LEMMA LogInvNext == LogInv /\ [Next]_vars => LogInv'
<1>. SUFFICES ASSUME LogInv, [Next]_vars PROVE LogInv'
  OBVIOUS
<1>. USE DEF LogInv
<1>1. CASE Next
  <2>1. SizeInv'
    <3>1. CASE clean'
      BY <1>1, <3>1, SizeInvNext
    <3>2. CASE ~clean'
      BY <3>2 DEF SizeInv
    <3>. QED
      BY <3>1, <3>2
  <2>. QED
    BY <1>1, <2>1, LogTypeNext, OrderInvNext, CleanInvNext, MissedInvNext
<1>2. CASE UNCHANGED vars
  <2>1. /\ UNCHANGED <<at, starting, i, fd_is_file, stdin, log_ticks, files,
                       messages, logged, missed, not_opened, clean>>
    BY <1>2 DEF vars, history
  <2>2. LogType'
    BY <2>1 DEF LogType, TypeOK
  <2>3. OrderInv'
    BY <2>1 DEF OrderInv, Ordered, Logging, Entries, In, Exists
  <2>4. CleanInv'
    BY <2>1 DEF CleanInv, Kept, In, Exists
  <2>5. SizeInv'
    BY <2>1 DEF SizeInv, In, Exists
  <2>6. MissedInv'
    BY <2>1 DEF MissedInv, NoFile
  <2>. QED
    BY <2>2, <2>3, <2>4, <2>5, <2>6
<1>. QED
  BY <1>1, <1>2

\* It always holds.
LEMMA LogInvAlways == Spec => []LogInv
  BY LogInvInit, LogInvNext, PTL DEF Spec

\* Whatever fails and wherever the program is killed, the log keeps its
\* messages in order, and as long as no call fails loses only the oldest and
\* stays within its size (do_rolling, do_m_log).
THEOREM NewestAreKept == Spec => []LogKeepsTheNewest
<1>1. LogInv => LogKeepsTheNewest
  <2>. SUFFICES ASSUME LogInv PROVE LogKeepsTheNewest
    OBVIOUS
  <2>1. TypeOK
    BY DEF LogInv, LogType
  <2>2. \A j \in Indices : \A k \in 0 .. j - 1 :
          \A old \in In(j), new \in In(k) : old < new
    BY DEF LogInv, OrderInv, Ordered
  <2>3. ASSUME clean
        PROVE  /\ \A lost \in logged \ Kept : \A m \in Kept : lost < m
               /\ \A k \in Indices :
                    Cardinality(In(k)) <= RollingSize + CheckInterval + 2
    <3>1. RollingSize + Interval = RollingSize + CheckInterval + 2
      BY Bounds DEF Interval
    <3>. QED
      BY <2>3, <3>1 DEF LogInv, CleanInv, SizeInv
  <2>. QED
    BY <2>1, <2>2, <2>3 DEF LogKeepsTheNewest, Kept
<1>. QED
  BY <1>1, LogInvAlways, PTL

\* A log without a file misses at most the messages of one check interval
\* per opening that failed (do_rolling, lines 147 to 151).
THEOREM FailuresCostAnInterval == Spec => []MissesOneInterval
<1>1. LogInv => MissesOneInterval
  BY DEF LogInv, MissedInv, MissesOneInterval, Interval
<1>. QED
  BY <1>1, LogInvAlways, PTL

-----------------------------------------------------------------------------
(* The first LED.                                                          *)

\* The silence the thread has seen.
AgeInv ==
  /\ public_age <= silence
  /\ public_packet_status = "active" /\ setter = "idle" =>
       /\ public_age = silence
       /\ public_age = PublicReset => step \in {"public", "inactive"}

\* A reaction that is under way, or its packet came at the end of a silence.
SilenceInv ==
  /\ step = "inactive" =>
       silence >= PublicReset \/ (silence = 0 /\ setter = "idle" /\ late)
  /\ public_packet_status = "inactive" =>
       IF setter = "set" THEN silence >= PublicReset
                         ELSE late \/ silence >= PublicReset

\* The index has not moved on without wrapping more often than is bounded.
IndexInv == step = "blink" /\ error_sensor_flags # {} =>
              error_sensor_index <= 7 + IndexBound

LedInv == Led!TypeOK /\ AgeInv /\ SilenceInv /\ IndexInv

\* The constants of the LEDs.
LEMMA LedConstants ==
  /\ Sensors \subseteq 0 .. 7 /\ IndexBound \in Nat
  /\ ActiveFlip \in Nat /\ SensorFlip \in Nat /\ ErrorFlip \in Nat
  /\ RunningReset \in Nat /\ SensorReset \in Nat /\ ErrorReset \in Nat
  /\ PublicReset \in Nat /\ PublicReset > 0
  BY LedAssumption DEF Led!ConstantsAreSound

\* Some sensor of a set has the lowest index.
LEMMA LowestSensor ==
  ASSUME NEW S \in SUBSET (0 .. 7), S # {}
  PROVE  Led!Min(S) \in S
<1>1. \E x \in S : \A y \in S : x <= y
  <2>1. ASSUME NEW k \in 0 .. 7, k \in S, \A y \in S : y >= k
        PROVE  \E x \in S : \A y \in S : x <= y
    BY <2>1
  <2>2. 0 \in S \/ \A y \in S : y >= 1
    OBVIOUS
  <2>3. 0 \in S \/ 1 \in S \/ \A y \in S : y >= 2
    BY <2>2
  <2>4. 0 \in S \/ 1 \in S \/ 2 \in S \/ \A y \in S : y >= 3
    BY <2>3
  <2>5. 0 \in S \/ 1 \in S \/ 2 \in S \/ 3 \in S \/ \A y \in S : y >= 4
    BY <2>4
  <2>6. \/ \E k \in 0 .. 3 : k \in S /\ \A y \in S : y >= k
        \/ \A y \in S : y >= 4
    BY <2>2, <2>3, <2>4, <2>5
  <2>7. 4 \in S \/ (\A y \in S : y >= 5) \/ ~ \A y \in S : y >= 4
    OBVIOUS
  <2>8. 5 \in S \/ (\A y \in S : y >= 6) \/ ~ \A y \in S : y >= 5
    OBVIOUS
  <2>9. 6 \in S \/ (\A y \in S : y >= 7) \/ ~ \A y \in S : y >= 6
    OBVIOUS
  <2>10. (\A y \in S : y >= 7) => 7 \in S
    <3>1. PICK y \in S : TRUE
      OBVIOUS
    <3>2. y \in 0 .. 7
      OBVIOUS
    <3>3. y >= 7 => y = 7
      BY <3>2
    <3>. QED
      BY <3>1, <3>3
  <2>. QED
    BY <2>1, <2>6, <2>7, <2>8, <2>9, <2>10
<1>. QED
  BY <1>1 DEF Led!Min

\* An age stops at its interval.
LEMMA OlderAge ==
  ASSUME NEW n \in Nat, NEW a \in 0 .. n
  PROVE  Led!Older(a, n) \in 0 .. n
  BY DEF Led!Older

\* A step of the thread keeps the fields of an LED in their ranges.
LEMMA LedRanges ==
  ASSUME NEW flips \in Nat, NEW flicker \in Nat, NEW reset \in Nat,
         NEW led \in Led!Leds(flips, flicker, reset)
  PROVE  /\ \A n : Led!Reset(led, n) \in Led!Leds(flips, flicker, reset)
         /\ \A n : \A max \in 0 .. flips :
              Led!Flicker(led, n, max) \in Led!Leds(flips, flicker, reset)
         /\ Led!Dark(led) \in Led!Leds(flips, flicker, reset)
         /\ Led!OlderLed(led, flicker, reset) \in Led!Leds(flips, flicker, reset)
<1>1. /\ led \in [on : BOOLEAN, flips : 0 .. flips, flicker : 0 .. flicker,
                  reset : 0 .. reset]
      /\ led.on \in BOOLEAN /\ led.flips \in 0 .. flips
      /\ led.flicker \in 0 .. flicker /\ led.reset \in 0 .. reset
  BY DEF Led!Leds
<1>2. 0 \in 0 .. flips /\ 0 \in 0 .. flicker /\ 0 \in 0 .. reset
  OBVIOUS
<1>3. [led EXCEPT !.flips = 0, !.reset = 0] \in Led!Leds(flips, flicker, reset)
      /\ [led EXCEPT !.on = FALSE, !.flips = 0]
           \in Led!Leds(flips, flicker, reset)
  BY <1>1, <1>2 DEF Led!Leds
<1>4. \A n : Led!Reset(led, n) \in Led!Leds(flips, flicker, reset)
  BY <1>2, <1>3 DEF Led!Reset
<1>5. ASSUME NEW n, NEW max \in 0 .. flips
      PROVE  Led!Flicker(led, n, max) \in Led!Leds(flips, flicker, reset)
  <2>1. CASE led.flips < max /\ ~led.on
    <3>1. led.flips + 1 \in 0 .. flips
      BY <1>1, <2>1
    <3>2. Led!Flicker(led, n, max) =
            IF led.flicker < n THEN led
            ELSE [led EXCEPT !.on = TRUE, !.flicker = 0, !.flips = led.flips + 1]
      BY <2>1 DEF Led!Flicker
    <3>3. [led EXCEPT !.on = TRUE, !.flicker = 0, !.flips = led.flips + 1]
            \in Led!Leds(flips, flicker, reset)
      BY <1>1, <1>2, <3>1 DEF Led!Leds
    <3>. QED
      BY <3>2, <3>3
  <2>2. CASE ~(led.flips < max /\ ~led.on)
    <3>1. Led!Flicker(led, n, max) =
            IF led.flicker < n THEN led
            ELSE [led EXCEPT !.on = FALSE, !.flicker = 0, !.flips = led.flips]
      BY <2>2 DEF Led!Flicker
    <3>2. [led EXCEPT !.on = FALSE, !.flicker = 0, !.flips = led.flips]
            \in Led!Leds(flips, flicker, reset)
      BY <1>1, <1>2 DEF Led!Leds
    <3>. QED
      BY <3>1, <3>2
  <2>. QED
    BY <2>1, <2>2
<1>6. Led!Dark(led) \in Led!Leds(flips, flicker, reset)
  BY <1>2, <1>3 DEF Led!Dark
<1>7. Led!OlderLed(led, flicker, reset) \in Led!Leds(flips, flicker, reset)
  <2>1. Led!OlderLed(led, flicker, reset) =
          [led EXCEPT !.flicker = Led!Older(led.flicker, flicker),
                      !.reset = Led!Older(led.reset, reset)]
    BY DEF Led!OlderLed
  <2>2. /\ Led!Older(led.flicker, flicker) \in 0 .. flicker
        /\ Led!Older(led.reset, reset) \in 0 .. reset
    BY <1>1, OlderAge
  <2>. QED
    BY <1>1, <2>1, <2>2 DEF Led!Leds
<1>. QED
  BY <1>4, <1>5, <1>6, <1>7

\* Every step keeps the types, the index of the sensor included.
LEMMA LedTypeNext ==
  ASSUME Led!TypeOK, IndexInv, Led!Next
  PROVE  Led!TypeOK' /\ IndexInv'
<1>. DEFINE R == Led!Leds(3, ActiveFlip, RunningReset)
            S == Led!Leds(9 + IndexBound, SensorFlip, SensorReset)
            E == Led!Leds(3, ErrorFlip, ErrorReset)
<1>1. /\ running \in R /\ sensor \in S /\ error \in E
      /\ error_sensor_flags \in SUBSET (0 .. 7)
      /\ error_sensor_index \in 0 .. 8 + IndexBound
      /\ public_age \in 0 .. PublicReset /\ silence \in 0 .. PublicReset + 2
  BY LedConstants DEF Led!TypeOK
<1>2. /\ 0 \in Nat /\ 3 \in Nat /\ 9 + IndexBound \in Nat /\ IndexBound \in Nat
      /\ ActiveFlip \in Nat /\ SensorFlip \in Nat /\ ErrorFlip \in Nat
      /\ RunningReset \in Nat /\ SensorReset \in Nat /\ ErrorReset \in Nat
      /\ PublicReset \in Nat /\ PublicReset + 2 \in Nat
  BY LedConstants
<1>3. /\ \A n : Led!Reset(running, n) \in R
      /\ \A n : \A max \in 0 .. 3 : Led!Flicker(running, n, max) \in R
      /\ Led!OlderLed(running, ActiveFlip, RunningReset) \in R
  BY <1>1, <1>2, LedRanges
<1>4. ASSUME NEW led \in S
      PROVE  /\ \A n : Led!Reset(led, n) \in S
             /\ \A n : \A max \in 0 .. 9 + IndexBound :
                  Led!Flicker(led, n, max) \in S
             /\ Led!Dark(led) \in S
             /\ Led!OlderLed(led, SensorFlip, SensorReset) \in S
  BY <1>2, LedRanges
<1>5. ASSUME NEW led \in E
      PROVE  /\ \A n : Led!Reset(led, n) \in E
             /\ \A n : \A max \in 0 .. 3 : Led!Flicker(led, n, max) \in E
             /\ Led!Dark(led) \in E
             /\ Led!OlderLed(led, ErrorFlip, ErrorReset) \in E
  BY <1>2, LedRanges
<1>. HIDE DEF R, S, E
<1>. USE DEF Led!publicVars, Led!flags, Led!leds
<1>6. CASE Led!TestPublic
  BY <1>3, <1>6 DEF Led!TestPublic, Led!TypeOK, IndexInv, R
<1>7. CASE Led!SetInactive
  <2>1. 0 \in 0 .. PublicReset
    BY <1>2
  <2>. QED
    BY <1>7, <2>1 DEF Led!SetInactive, Led!TypeOK, IndexInv
<1>8. CASE Led!Walk
  <2>1. running' \in R
    <3>1. 1 \in 0 .. 3 /\ 3 \in 0 .. 3
      OBVIOUS
    <3>. QED
      BY <1>3, <1>8, <3>1 DEF Led!Walk
  <2>2. /\ error_sensor_index' \in 0 .. 8 + IndexBound
        /\ error_sensor_flags # {} => error_sensor_index' <= 7 + IndexBound
    <3>1. CASE error_sensor_flags = {}
      BY <1>1, <1>8, <3>1 DEF Led!Walk
    <3>2. CASE error_sensor_flags # {}
      <4>. DEFINE following ==
                    {s \in error_sensor_flags : s >= error_sensor_index}
      <4>1. /\ following \in SUBSET (0 .. 7)
            /\ error_sensor_index' =
                 Led!Min(IF following = {} THEN error_sensor_flags ELSE following)
        BY <1>1, <1>8, <3>2 DEF Led!Walk
      <4>. HIDE DEF following
      <4>2. error_sensor_index' \in 0 .. 7
        BY <1>1, <3>2, <4>1, LowestSensor
      <4>. QED
        BY <1>2, <4>2
    <3>. QED
      BY <3>1, <3>2
  <2>. QED
    BY <1>8, <2>1, <2>2 DEF Led!Walk, Led!TypeOK, IndexInv, R
<1>9. CASE Led!Blink
  <2>1. /\ sensor' \in S
        /\ error_sensor_index' \in 0 .. 8 + IndexBound
    <3>1. CASE error_sensor_flags = {}
      BY <1>1, <1>4, <1>9, <3>1 DEF Led!Blink
    <3>2. CASE error_sensor_flags # {}
      <4>1. /\ error_sensor_index + 1 \in 0 .. 9 + IndexBound
            /\ error_sensor_index + 1 \in 0 .. 8 + IndexBound
        BY <1>1, <1>2, <1>9, <3>2 DEF Led!Blink, IndexInv
      <4>2. Led!Reset(sensor, SensorReset) \in S
        BY <1>1, <1>4
      <4>3. Led!Flicker(Led!Reset(sensor, SensorReset), SensorFlip,
                        error_sensor_index + 1) \in S
        BY <1>4, <4>1, <4>2
      <4>. QED
        BY <1>1, <1>9, <3>2, <4>1, <4>3 DEF Led!Blink, Led!NextSensor
    <3>. QED
      BY <3>1, <3>2
  <2>2. error' \in E
    <3>1. Led!ErrorStatus \in 0 .. 3
      BY DEF Led!ErrorStatus, Led!TypeOK
    <3>2. Led!Reset(error, ErrorReset) \in E
      BY <1>1, <1>5
    <3>3. Led!Flicker(Led!Reset(error, ErrorReset), ErrorFlip, Led!ErrorStatus)
            \in E
      BY <1>5, <3>1, <3>2
    <3>. QED
      BY <1>1, <1>5, <1>9, <3>3 DEF Led!Blink
  <2>. QED
    BY <1>9, <2>1, <2>2 DEF Led!Blink, Led!TypeOK, IndexInv, S, E
<1>10. CASE Led!Sleep
  <2>1. /\ Led!Older(public_age, PublicReset) \in 0 .. PublicReset
        /\ Led!Older(silence, PublicReset + 2) \in 0 .. PublicReset + 2
    BY <1>1, <1>2, OlderAge
  <2>2. /\ running' \in R /\ sensor' \in S /\ error' \in E
    BY <1>1, <1>3, <1>4, <1>5, <1>10 DEF Led!Sleep
  <2>. QED
    BY <1>10, <2>1, <2>2 DEF Led!Sleep, Led!TypeOK, IndexInv, R, S, E
<1>11. CASE Led!SetPublicStatus
  <2>1. 0 \in 0 .. PublicReset /\ 0 \in 0 .. PublicReset + 2
    BY <1>2
  <2>2. CASE Led!SetActive
    BY <2>2 DEF Led!SetActive, Led!TypeOK, IndexInv
  <2>3. CASE Led!SetLastPacket
    <3>1. late' \in BOOLEAN
      BY <2>3 DEF Led!SetLastPacket
    <3>. QED
      BY <2>1, <2>3, <3>1 DEF Led!SetLastPacket, Led!AgeOfPacket, Led!TypeOK,
                              IndexInv
  <2>. QED
    BY <1>11, <2>2, <2>3 DEF Led!SetPublicStatus
<1>12. CASE Led!SetSensorStatus
  <2>1. error_sensor_flags' \subseteq Sensors
    BY <1>12 DEF Led!SetSensorStatus, Led!TypeOK
  <2>2. step = "blink" => error_sensor_index <= 7 + IndexBound
    BY <1>1, <1>2, <1>12 DEF Led!SetSensorStatus
  <2>. QED
    BY <1>12, <2>1, <2>2 DEF Led!SetSensorStatus, Led!TypeOK, IndexInv
<1>13. CASE Led!SetErrorStatus
  BY <1>13 DEF Led!SetErrorStatus, Led!TypeOK, IndexInv
<1>. QED
  BY <1>6, <1>7, <1>8, <1>9, <1>10, <1>11, <1>12, <1>13
     DEF Led!Next, Led!Thread

\* Every step keeps the age in line with the silence.
LEMMA AgeInvNext ==
  ASSUME Led!TypeOK, AgeInv, Led!Next
  PROVE  AgeInv'
<1>. USE DEF Led!publicVars, Led!flags, Led!leds
<1>1. /\ public_age \in 0 .. PublicReset /\ silence \in 0 .. PublicReset + 2
      /\ PublicReset \in Nat /\ PublicReset > 0
  BY LedConstants DEF Led!TypeOK
<1>2. CASE Led!Sleep
  <2>1. /\ UNCHANGED <<setter, public_packet_status>>
        /\ step = "sleep" /\ step' = "public"
        /\ public_age' = IF public_age < PublicReset THEN public_age + 1
                                                     ELSE public_age
        /\ silence' = IF silence < PublicReset + 2 THEN silence + 1 ELSE silence
    BY <1>2 DEF Led!Sleep, Led!Older
  <2>. QED
    BY <1>1, <2>1 DEF AgeInv
<1>3. CASE Led!TestPublic \/ Led!SetInactive
  BY <1>1, <1>3 DEF Led!TestPublic, Led!SetInactive, AgeInv
<1>4. CASE Led!Walk \/ Led!Blink
  <2>1. UNCHANGED <<setter, public_packet_status, public_age, silence>>
        /\ step \in {"walk", "blink"}
    BY <1>4 DEF Led!Walk, Led!Blink
  <2>. QED
    BY <2>1 DEF AgeInv
<1>5. CASE Led!SetPublicStatus
  BY <1>1, <1>5 DEF Led!SetPublicStatus, Led!SetActive, Led!SetLastPacket,
                    Led!AgeOfPacket, AgeInv
<1>6. CASE Led!SetSensorStatus \/ Led!SetErrorStatus
  BY <1>6 DEF Led!SetSensorStatus, Led!SetErrorStatus, AgeInv
<1>. QED
  BY <1>2, <1>3, <1>4, <1>5, <1>6 DEF Led!Next, Led!Thread

\* Every step keeps what an inactive status says.
LEMMA SilenceInvNext ==
  ASSUME Led!TypeOK, AgeInv, SilenceInv, Led!Next
  PROVE  SilenceInv'
<1>. USE DEF Led!publicVars, Led!flags, Led!leds
<1>1. /\ public_age \in 0 .. PublicReset /\ silence \in 0 .. PublicReset + 2
      /\ PublicReset \in Nat /\ PublicReset > 0 /\ public_age <= silence
  BY LedConstants DEF Led!TypeOK, AgeInv
<1>2. CASE Led!Sleep
  <2>1. /\ UNCHANGED <<setter, public_packet_status, late>> /\ step' = "public"
        /\ silence' \in Nat /\ silence' >= silence
    BY <1>1, <1>2 DEF Led!Sleep, Led!Older
  <2>. QED
    BY <1>1, <2>1 DEF SilenceInv
<1>3. CASE Led!TestPublic
  <2>1. /\ UNCHANGED <<setter, public_packet_status, late, silence>>
        /\ step' = "inactive" => silence >= PublicReset
    BY <1>1, <1>3 DEF Led!TestPublic
  <2>. QED
    BY <2>1 DEF SilenceInv
<1>4. CASE Led!SetInactive
  <2>1. /\ UNCHANGED <<setter, late, silence>> /\ step = "inactive"
        /\ step' = "walk" /\ public_packet_status' = "inactive"
    BY <1>4 DEF Led!SetInactive
  <2>. QED
    BY <1>1, <2>1 DEF SilenceInv
<1>5. CASE Led!Walk \/ Led!Blink
  <2>1. UNCHANGED <<setter, public_packet_status, late, silence>>
        /\ step' \in {"blink", "sleep"}
    BY <1>5 DEF Led!Walk, Led!Blink
  <2>. QED
    BY <2>1 DEF SilenceInv
<1>6. CASE Led!SetActive
  <2>1. /\ UNCHANGED <<step, silence, late>> /\ silence > 0
        /\ setter = "idle" /\ setter' = "set" /\ public_packet_status' = "active"
    BY <1>6 DEF Led!SetActive
  <2>. QED
    BY <1>1, <2>1 DEF SilenceInv
<1>7. CASE Led!SetLastPacket
  <2>1. /\ UNCHANGED <<step, public_packet_status>> /\ silence' = 0
        /\ setter = "set" /\ setter' = "idle"
        /\ silence >= PublicReset => late'
    BY <1>7 DEF Led!SetLastPacket
  <2>. QED
    BY <1>1, <2>1 DEF SilenceInv
<1>8. CASE Led!SetSensorStatus \/ Led!SetErrorStatus
  BY <1>8 DEF Led!SetSensorStatus, Led!SetErrorStatus, SilenceInv
<1>. QED
  BY <1>2, <1>3, <1>4, <1>5, <1>6, <1>7, <1>8
     DEF Led!Next, Led!Thread, Led!SetPublicStatus

\* Init establishes the invariant of the LED.
LEMMA LedInvInit == Led!Init => LedInv
<1>. SUFFICES ASSUME Led!Init PROVE LedInv
  OBVIOUS
<1>1. \A a \in Nat, b \in Nat, c \in Nat :
        Led!Led(TRUE, 0, 0, 0) \in Led!Leds(a, b, c)
  BY DEF Led!Led, Led!Leds
<1>2. Led!TypeOK
  <2>1. /\ 3 \in Nat /\ 9 + IndexBound \in Nat
        /\ 0 \in 0 .. 8 + IndexBound /\ 0 \in 0 .. PublicReset
        /\ 0 \in 0 .. PublicReset + 2
    BY LedConstants
  <2>2. /\ running \in Led!Leds(3, ActiveFlip, RunningReset)
        /\ sensor \in Led!Leds(9 + IndexBound, SensorFlip, SensorReset)
        /\ error \in Led!Leds(3, ErrorFlip, ErrorReset)
    BY <1>1, <2>1, LedConstants DEF Led!Init
  <2>3. late \in BOOLEAN
    BY DEF Led!Init
  <2>4. /\ step = "public" /\ setter = "idle" /\ public_packet_status = "active"
        /\ public_age = 0 /\ error_sensor_flags = {} /\ error_sensor_index = 0
        /\ storage_error_status = 0 /\ mysql_error_status = 0 /\ silence = 0
    BY DEF Led!Init
  <2>. QED
    BY ONLY <2>1, <2>2, <2>3, <2>4 DEF Led!TypeOK
<1>3. AgeInv /\ SilenceInv /\ IndexInv
  BY LedConstants DEF Led!Init, AgeInv, SilenceInv, IndexInv
<1>. QED
  BY <1>2, <1>3 DEF LedInv

\* Every step keeps it.
LEMMA LedInvNext == LedInv /\ [Led!Next]_Led!vars => LedInv'
<1>. SUFFICES ASSUME LedInv, [Led!Next]_Led!vars PROVE LedInv'
  OBVIOUS
<1>1. CASE Led!Next
  BY <1>1, LedTypeNext, AgeInvNext, SilenceInvNext DEF LedInv
<1>2. CASE UNCHANGED Led!vars
  BY <1>2 DEF Led!vars, Led!publicVars, Led!flags, Led!leds, LedInv,
              Led!TypeOK, AgeInv, SilenceInv, IndexInv
<1>. QED
  BY <1>1, <1>2

\* The first LED shows a silence only if there is one or its packet came at
\* the end of one, and shows one that lasts (led_controller_thread,
\* led_set_public_packet_status).
THEOREM FirstLedIsTimely == Led!Spec => []PublicStatusIsTimely
<1>1. LedInv => PublicStatusIsTimely
  <2>. SUFFICES ASSUME LedInv PROVE PublicStatusIsTimely
    OBVIOUS
  <2>1. Led!TypeOK /\ AgeInv /\ SilenceInv
    BY DEF LedInv
  <2>2. /\ public_age \in 0 .. PublicReset /\ silence \in 0 .. PublicReset + 2
        /\ PublicReset \in Nat
        /\ public_packet_status \in {"active", "inactive"}
        /\ setter \in {"idle", "set"}
    BY <2>1, LedConstants DEF Led!TypeOK
  <2>3. public_packet_status = "inactive" => late \/ silence >= PublicReset
    BY <2>1 DEF SilenceInv
  <2>4. setter = "idle" /\ silence > PublicReset + 1 =>
          public_packet_status = "inactive"
    BY <2>1, <2>2 DEF AgeInv
  <2>. QED
    BY <2>1, <2>3, <2>4 DEF PublicStatusIsTimely, Led!PublicStatusIsTimely
<1>. QED
  BY <1>1, LedInvInit, LedInvNext, PTL DEF Led!Spec

=============================================================================
