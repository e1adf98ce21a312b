------------------------- MODULE MysqlExecutorProofs -------------------------
(***************************************************************************)
(* MysqlExecutor for any number of producers, any queue_size and any       *)
(* number of calls: type correctness, mutual exclusion, the contents of    *)
(* the ring, and that the executor implements the bounded queue SqlFifo.   *)
(*                                                                         *)
(* Only Enqueue and Dequeue touch the ring.  What a dequeue returns is a   *)
(* statement because of where the statements lie, so the types of the      *)
(* queue and SlotsFollowCounts are proved together (QueueInv); the types   *)
(* of the threads' variables follow separately (ThreadInv).                *)
(***************************************************************************)
EXTENDS MysqlExecutor, SequenceTheorems, TLAPS

-----------------------------------------------------------------------------
(* Indices modulo the size n of a ring (task_queue_t), for any n.          *)

\* Division with remainder, as the provers need it spelled out.
LEMMA DivMod ==
  ASSUME NEW n \in Nat \ {0}, NEW a \in Int
  PROVE  /\ a \div n \in Int
         /\ a % n \in 0 .. n - 1
         /\ a = n * (a \div n) + (a % n)
  OBVIOUS

\* Distinct multiples of n are at least n apart.
LEMMA MultiplesApart ==
  ASSUME NEW n \in Nat \ {0}, NEW d \in Int, NEW e \in Int, d > e
  PROVE  n * d >= n * e + n
  OBVIOUS

\* Quotient and remainder are unique.
LEMMA ModUnique ==
  ASSUME NEW n \in Nat \ {0}, NEW a \in Int, NEW q \in Int,
         NEW r \in 0 .. n - 1, a = n * q + r
  PROVE  a % n = r
<1>. DEFINE d == a \div n
            m == a % n
<1>1. d \in Int /\ m \in 0 .. n - 1 /\ a = n * d + m
  BY DivMod
<1>. HIDE DEF d
<1>2. CASE d = q
  BY <1>1, <1>2
<1>3. CASE d > q
  <2>1. n * d >= n * q + n
    BY <1>1, <1>3, MultiplesApart
  <2>. QED
    BY <1>1, <2>1
<1>4. CASE q > d
  <2>1. n * q >= n * d + n
    BY <1>1, <1>4, MultiplesApart
  <2>. QED
    BY <1>1, <2>1
<1>. QED
  BY <1>1, <1>2, <1>3, <1>4

\* A remainder is its own remainder.
LEMMA ModSmall ==
  ASSUME NEW n \in Nat \ {0}, NEW a \in 0 .. n - 1
  PROVE  a % n = a
<1>1. a = n * 0 + a
  OBVIOUS
<1>. QED
  BY <1>1, ModUnique

\* Adding k to an index of the ring or to the count it stands for.
LEMMA ModAdd ==
  ASSUME NEW n \in Nat \ {0}, NEW a \in Int, NEW k \in Int
  PROVE  ((a % n) + k) % n = (a + k) % n
<1>. DEFINE d == a \div n
            m == a % n
            e == (a + k) \div n
            r == (a + k) % n
<1>1. d \in Int /\ m \in 0 .. n - 1 /\ a = n * d + m
  BY DivMod
<1>2. e \in Int /\ r \in 0 .. n - 1 /\ a + k = n * e + r
  <2>1. a + k \in Int
    OBVIOUS
  <2>. QED
    BY <2>1, DivMod
<1>. HIDE DEF d, m, e, r
<1>3. m + k \in Int /\ e - d \in Int /\ r \in 0 .. n - 1
  BY <1>1, <1>2
<1>4. m + k = n * (e - d) + r
  BY <1>1, <1>2
<1>5. (m + k) % n = r
  BY ONLY <1>3, <1>4, ModUnique, n \in Nat \ {0}
<1>. QED
  BY <1>5 DEF m, r

\* The distance between two indices is the distance between their counts.
LEMMA ModDifference ==
  ASSUME NEW n \in Nat \ {0}, NEW a \in Int, NEW b \in Int,
         a - b \in 0 .. n - 1
  PROVE  ((a % n) - (b % n)) % n = a - b
<1>. DEFINE d == a \div n
            m == a % n
            e == b \div n
            r == b % n
<1>1. d \in Int /\ m \in 0 .. n - 1 /\ a = n * d + m
  BY DivMod
<1>2. e \in Int /\ r \in 0 .. n - 1 /\ b = n * e + r
  BY DivMod
<1>. HIDE DEF d, m, e, r
<1>3. m - r \in Int /\ e - d \in Int
  BY <1>1, <1>2
<1>4. m - r = n * (e - d) + (a - b)
  BY <1>1, <1>2
<1>5. (m - r) % n = a - b
  BY ONLY <1>3, <1>4, ModUnique, n \in Nat \ {0}, a - b \in 0 .. n - 1
<1>. QED
  BY <1>5 DEF m, r

\* Counts less than n apart use different slots.
LEMMA ModInjective ==
  ASSUME NEW n \in Nat \ {0}, NEW a \in Int, NEW b \in Int,
         a - b \in 0 .. n - 1, a % n = b % n
  PROVE  a = b
<1>1. ((a % n) - (b % n)) % n = a - b
  BY ModDifference
<1>2. (a % n) - (b % n) = 0
  BY DivMod
<1>3. 0 % n = 0
  BY ModSmall
<1>. QED
  BY <1>1, <1>2, <1>3

-----------------------------------------------------------------------------
(* The ring and the threads.                                               *)

QueueType ==
  /\ queue_elements \in [Slots -> Statements \cup {NoSql}]
  /\ front \in Slots
  /\ rear \in Slots
  /\ accepted \in Seq(Statements)
  /\ taken \in Seq(Statements)

QueueInv == QueueType /\ SlotsFollowCounts

ThreadType ==
  /\ queue_mutex \in Producers \cup {Executor, NoThread}
  /\ shutdown_flag \in BOOLEAN
  /\ executor \in {"loop", "lock", "test", "waiting", "woken", "take",
                   "unlock", "connect", "sleep", "query", "exited"}
  /\ sql \in Statements \cup {NoSql}
  /\ producer \in [Producers ->
                     {"idle", "lock", "enqueue", "unlock", "signal"}]
  /\ calls \in [Producers -> 0 .. MaxCalls]
  /\ shutdown \in {"running", "signal", "join", "joined"}
  /\ mysql_led \in {"normal", "error"}
  /\ connection \in Connections

\* A call under way has started: its statement has a number.
CallStarted == \A p \in Producers : producer[p] # "idle" => calls[p] >= 1

ThreadInv == ThreadType /\ CallStarted

LEMMA NextSlotType ==
  ASSUME NEW i \in Slots
  PROVE  NextSlot(i) \in Slots
<1>1. i + 1 \in Int
  BY QueueSizeAssumption DEF Slots
<1>. QED
  BY <1>1, QueueSizeAssumption, DivMod DEF Slots, NextSlot

\* The next slot is the slot of the next count.
LEMMA NextSlotOfCount ==
  ASSUME NEW k \in Nat
  PROVE  NextSlot(k % QueueSize) = (k + 1) % QueueSize
<1>1. k \in Int /\ 1 \in Int
  OBVIOUS
<1>. QED
  BY ONLY <1>1, QueueSizeAssumption, ModAdd DEF NextSlot

\* An action other than Enqueue and Dequeue leaves the ring alone.
LEMMA QueueFrame ==
  ASSUME Next, \A p \in Producers : ~Enqueue(p), ~Dequeue
  PROVE  UNCHANGED queueVars
  BY DEF Next, ProducerNext, ExecutorNext, ShutdownNext, Call, ProducerLock,
         ProducerUnlock, ProducerSignal, TestShutdown, ExecutorLock,
         SeeStatement, Wait, SpuriousWakeup, Relock, ExecutorUnlock,
         TestConnection, AbandonStatement, QueryAnyway, Query,
         FinishStatement, SetShutdownFlag, ShutdownSignal, Join

-----------------------------------------------------------------------------
(* The ring.                                                               *)

LEMMA QueueInit == Init => QueueInv
<1>1. 0 \in Slots /\ 0 % QueueSize = 0
  BY QueueSizeAssumption, ModSmall DEF Slots
<1>. QED
  BY <1>1, QueueSizeAssumption
     DEF Init, CreateTaskQueue, QueueInv, QueueType, SlotsFollowCounts

\* A ring that is not full has room for one more pending statement.
LEMMA RoomLeft ==
  ASSUME QueueInv, ~IsFull
  PROVE  Len(accepted) + 1 - Len(taken) \in 0 .. QueueSize - 1
<1>. DEFINE a == Len(accepted)
            t == Len(taken)
<1>1. a \in Nat /\ t \in Nat /\ a - t \in 0 .. QueueSize - 1
  BY DEF QueueInv, QueueType, SlotsFollowCounts
<1>2. (a + 1) % QueueSize # t % QueueSize
  BY NextSlotOfCount, <1>1 DEF IsFull, QueueInv, SlotsFollowCounts
<1>3. a + 1 - t # QueueSize
  <2>1. SUFFICES ASSUME a + 1 = t + QueueSize
                 PROVE  FALSE
    BY <1>1, QueueSizeAssumption
  <2>. DEFINE d == t \div QueueSize
              m == t % QueueSize
  <2>2. d \in Int /\ m \in 0 .. QueueSize - 1 /\ t = QueueSize * d + m
    <3>1. t \in Int
      BY <1>1
    <3>. QED
      BY ONLY <3>1, QueueSizeAssumption, DivMod
  <2>. HIDE DEF d, m
  <2>3. a + 1 = QueueSize * (d + 1) + m
    BY <1>1, <2>1, <2>2, QueueSizeAssumption
  <2>4. a + 1 \in Int /\ d + 1 \in Int
    BY <1>1, <2>2
  <2>5. (a + 1) % QueueSize = m
    BY ONLY <2>2, <2>3, <2>4, QueueSizeAssumption, ModUnique
  <2>. QED
    BY <1>2, <2>5 DEF m
<1>. QED
  BY <1>1, <1>3, QueueSizeAssumption

LEMMA QueueEnqueue ==
  ASSUME QueueInv, ThreadInv, NEW p \in Producers, Enqueue(p)
  PROVE  QueueInv'
<1>. DEFINE s == <<p, calls[p]>>
            a == Len(accepted)
            t == Len(taken)
<1>1. s \in Statements
  BY MaxCallsAssumption
     DEF Enqueue, ProducerGoto, Statements, ThreadInv, ThreadType, CallStarted
<1>2. CASE IsFull
  <2>1. UNCHANGED queueVars
    BY <1>2 DEF Enqueue, queueVars
  <2>. QED
    BY <2>1 DEF queueVars, QueueInv, QueueType, SlotsFollowCounts
<1>3. CASE ~IsFull
  <2>1. /\ queue_elements' = [queue_elements EXCEPT ![front] = s]
        /\ front' = NextSlot(front)
        /\ accepted' = Append(accepted, s)
        /\ rear' = rear
        /\ taken' = taken
    BY <1>3 DEF Enqueue
  <2>2. a \in Nat /\ t \in Nat /\ front = a % QueueSize
    BY DEF QueueInv, QueueType, SlotsFollowCounts
  <2>3. accepted' \in Seq(Statements) /\ Len(accepted') = a + 1
    BY <1>1, <2>1, AppendProperties DEF QueueInv, QueueType
  <2>4. QueueType'
    BY <1>1, <2>1, <2>3, NextSlotType DEF QueueInv, QueueType
  <2>5. front' = Len(accepted') % QueueSize
    BY <2>1, <2>2, <2>3, NextSlotOfCount
  <2>6. Len(accepted') - Len(taken') \in 0 .. QueueSize - 1
    BY <1>3, <2>1, <2>3, RoomLeft
  <2>7. ASSUME NEW n \in Len(taken') + 1 .. Len(accepted')
        PROVE  queue_elements'[(n - 1) % QueueSize] = accepted'[n]
    <3>1. n \in t + 1 .. a + 1 /\ a + 1 - t \in 0 .. QueueSize - 1
      BY <1>3, <2>1, <2>3, RoomLeft
    <3>2. CASE n = a + 1
      <4>1. accepted'[n] = s
        BY <2>1, <3>2, <1>1, AppendProperties DEF QueueInv, QueueType
      <4>2. (n - 1) % QueueSize = front
        BY <2>2, <3>2
      <4>. QED
        BY <2>1, <4>1, <4>2 DEF QueueInv, QueueType
    <3>3. CASE n # a + 1
      <4>1. n \in t + 1 .. a /\ n - 1 \in Int
        BY <2>2, <3>1, <3>3
      <4>2. accepted'[n] = accepted[n]
        BY <2>1, <4>1, <2>2, <1>1, AppendProperties DEF QueueInv, QueueType
      <4>3. a - (n - 1) \in 0 .. QueueSize - 1 /\ a # n - 1
        BY <2>2, <3>1, <4>1, QueueSizeAssumption
      <4>4. (n - 1) % QueueSize # front
        <5>1. a \in Int
          BY <2>2
        <5>2. a % QueueSize = (n - 1) % QueueSize => a = n - 1
          BY ONLY <5>1, <4>1, <4>3, ModInjective, QueueSizeAssumption
        <5>. QED
          BY <2>2, <4>3, <5>2
      <4>5. (n - 1) % QueueSize \in Slots
        BY <4>1, DivMod, QueueSizeAssumption DEF Slots
      <4>. QED
        BY <2>1, <4>1, <4>2, <4>4, <4>5
           DEF QueueInv, QueueType, SlotsFollowCounts
    <3>. QED
      BY <3>2, <3>3
  <2>. QED
    BY <2>1, <2>4, <2>5, <2>6, <2>7 DEF QueueInv, SlotsFollowCounts
<1>. QED
  BY <1>2, <1>3

\* Two different indices are two different counts: the queue is empty only
\* when everything accepted has been taken.
LEMMA NonEmptyHasPending ==
  ASSUME QueueInv, ~IsEmpty
  PROVE  /\ Len(taken) + 1 <= Len(accepted)
         /\ queue_elements[rear] = accepted[Len(taken) + 1]
         /\ queue_elements[rear] \in Statements
<1>. DEFINE a == Len(accepted)
            t == Len(taken)
<1>1. /\ a \in Nat /\ t \in Nat /\ a - t \in 0 .. QueueSize - 1
      /\ front = a % QueueSize /\ rear = t % QueueSize
  BY DEF QueueInv, QueueType, SlotsFollowCounts
<1>2. a # t
  BY <1>1 DEF IsEmpty
<1>3. t + 1 \in t + 1 .. a /\ t + 1 \in 1 .. a
  BY <1>1, <1>2, QueueSizeAssumption
<1>4. queue_elements[((t + 1) - 1) % QueueSize] = accepted[t + 1]
  BY <1>3 DEF QueueInv, SlotsFollowCounts
<1>5. (t + 1) - 1 = t
  BY <1>1
<1>6. accepted[t + 1] \in Statements
  BY <1>3, ElementOfSeq DEF QueueInv, QueueType
<1>. QED
  BY <1>1, <1>3, <1>4, <1>5, <1>6

LEMMA QueueDequeue ==
  ASSUME QueueInv, Dequeue
  PROVE  QueueInv'
<1>. DEFINE a == Len(accepted)
            t == Len(taken)
<1>1. CASE shutdown_flag \/ IsEmpty
  <2>1. UNCHANGED queueVars
    BY <1>1 DEF Dequeue, queueVars
  <2>. QED
    BY <2>1 DEF queueVars, QueueInv, QueueType, SlotsFollowCounts
<1>2. CASE ~(shutdown_flag \/ IsEmpty)
  <2>1. /\ rear' = NextSlot(rear)
        /\ taken' = Append(taken, queue_elements[rear])
        /\ UNCHANGED <<queue_elements, front, accepted>>
    BY <1>2 DEF Dequeue
  <2>2. queue_elements[rear] \in Statements /\ t + 1 <= a
    BY <1>2, NonEmptyHasPending
  <2>3. a \in Nat /\ t \in Nat /\ a - t \in 0 .. QueueSize - 1
    BY DEF QueueInv, QueueType, SlotsFollowCounts
  <2>4. taken' \in Seq(Statements) /\ Len(taken') = t + 1
    BY <2>1, <2>2, AppendProperties DEF QueueInv, QueueType
  <2>5. QueueType'
    BY <2>1, <2>4, NextSlotType DEF QueueInv, QueueType
  <2>6. rear' = Len(taken') % QueueSize
    BY <2>1, <2>3, <2>4, NextSlotOfCount DEF QueueInv, SlotsFollowCounts
  <2>7. Len(accepted') - Len(taken') \in 0 .. QueueSize - 1
    BY <2>1, <2>2, <2>3, <2>4, QueueSizeAssumption
  <2>8. Len(taken') + 1 .. Len(accepted') \subseteq t + 1 .. a
    BY <2>1, <2>3, <2>4
  <2>. QED
    BY <2>1, <2>5, <2>6, <2>7, <2>8 DEF QueueInv, SlotsFollowCounts
<1>. QED
  BY <1>1, <1>2

LEMMA QueueNext ==
  ASSUME QueueInv, ThreadInv, [Next]_vars
  PROVE  QueueInv'
<1>1. CASE UNCHANGED queueVars
  BY <1>1 DEF queueVars, QueueInv, QueueType, SlotsFollowCounts
<1>2. CASE \E p \in Producers : Enqueue(p)
  BY <1>2, QueueEnqueue
<1>3. CASE Dequeue
  BY <1>3, QueueDequeue
<1>4. CASE UNCHANGED vars
  BY <1>1, <1>4 DEF vars, queueVars
<1>. QED
  BY <1>1, <1>2, <1>3, <1>4, QueueFrame

-----------------------------------------------------------------------------
(* The threads' variables.                                                 *)

LEMMA ThreadInit == Init => ThreadInv
<1>1. 0 \in 0 .. MaxCalls
  BY MaxCallsAssumption
<1>2. ASSUME Init
      PROVE  /\ producer \in [Producers ->
                                {"idle", "lock", "enqueue", "unlock", "signal"}]
             /\ \A p \in Producers : producer[p] = "idle"
             /\ calls \in [Producers -> 0 .. MaxCalls]
  BY <1>1, <1>2 DEF Init
<1>. QED
  BY <1>2 DEF Init, InitMysql, ThreadInv, ThreadType, CallStarted

LEMMA ThreadProducer ==
  ASSUME ThreadInv, NEW p \in Producers, ProducerNext(p)
  PROVE  ThreadInv'
<1>. USE DEF ThreadInv, ThreadType, CallStarted, mysqlVars, ProducerGoto
<1>1. CASE Call(p)
  BY <1>1, MaxCallsAssumption DEF Call
<1>2. CASE ProducerLock(p)
  BY <1>2 DEF ProducerLock
<1>3. CASE Enqueue(p)
  BY <1>3 DEF Enqueue
<1>4. CASE ProducerUnlock(p)
  BY <1>4 DEF ProducerUnlock
<1>5. CASE ProducerSignal(p)
  BY <1>5 DEF ProducerSignal, CondSignal
<1>. QED
  BY <1>1, <1>2, <1>3, <1>4, <1>5 DEF ProducerNext

LEMMA ThreadExecutor ==
  ASSUME ThreadInv, QueueInv, ExecutorNext \/ SpuriousWakeup
  PROVE  ThreadInv'
<1>. USE DEF ThreadInv, ThreadType, CallStarted, mysqlVars, ExecutorGoto
<1>1. CASE TestShutdown
  BY <1>1 DEF TestShutdown
<1>2. CASE ExecutorLock
  BY <1>2 DEF ExecutorLock
<1>3. CASE SeeStatement
  BY <1>3 DEF SeeStatement
<1>4. CASE Wait
  BY <1>4 DEF Wait
<1>5. CASE Relock
  BY <1>5 DEF Relock
<1>6. CASE Dequeue
  BY <1>6, NonEmptyHasPending DEF Dequeue
<1>7. CASE ExecutorUnlock
  BY <1>7 DEF ExecutorUnlock
<1>8. CASE TestConnection
  <2>1. /\ UNCHANGED <<queueVars, queue_mutex, shutdown_flag, sql, producer,
                       calls, shutdown, mysql_led>>
        /\ executor = "connect"
        /\ executor' \in {"query", "sleep"}
    BY <1>8 DEF TestConnection, ConnectionAnswers, Reconnect
  <2>2. connection' \in Connections
    BY <1>8 DEF TestConnection, ConnectionAnswers, Reconnect, InitConnection
  <2>. QED
    BY <2>1, <2>2
<1>9. CASE AbandonStatement
  BY <1>9 DEF AbandonStatement, FinishStatement
<1>10. CASE QueryAnyway
  BY <1>10 DEF QueryAnyway
<1>11. CASE Query
  BY <1>11 DEF Query, FinishStatement
<1>12. CASE SpuriousWakeup
  BY <1>12 DEF SpuriousWakeup
<1>. QED
  BY <1>1, <1>2, <1>3, <1>4, <1>5, <1>6, <1>7, <1>8, <1>9, <1>10, <1>11,
     <1>12 DEF ExecutorNext

LEMMA ThreadShutdown ==
  ASSUME ThreadInv, ShutdownNext
  PROVE  ThreadInv'
<1>. USE DEF ThreadInv, ThreadType, CallStarted, mysqlVars
<1>1. CASE SetShutdownFlag
  BY <1>1 DEF SetShutdownFlag
<1>2. CASE ShutdownSignal
  BY <1>2 DEF ShutdownSignal, CondSignal
<1>3. CASE Join
  BY <1>3 DEF Join
<1>. QED
  BY <1>1, <1>2, <1>3 DEF ShutdownNext

LEMMA ThreadNext ==
  ASSUME ThreadInv, QueueInv, [Next]_vars
  PROVE  ThreadInv'
<1>1. CASE UNCHANGED vars
  BY <1>1 DEF vars, ThreadInv, ThreadType, CallStarted
<1>. QED
  BY <1>1, ThreadProducer, ThreadExecutor, ThreadShutdown DEF Next

-----------------------------------------------------------------------------
(* Type correctness and the ring.                                          *)

\* The inductive invariant behind the two theorems that follow.
LEMMA Invariance == Spec => [](QueueInv /\ ThreadInv)
<1>1. Init => QueueInv /\ ThreadInv
  BY QueueInit, ThreadInit
<1>2. QueueInv /\ ThreadInv /\ [Next]_vars => (QueueInv /\ ThreadInv)'
  BY QueueNext, ThreadNext
<1>. QED
  BY <1>1, <1>2, PTL DEF Spec

\* Every variable of the executor keeps its type: in particular the indices
\* of the ring stay inside it, and what is dequeued is a statement.
THEOREM TypeCorrect == Spec => []TypeOK
<1>1. QueueInv /\ ThreadInv => TypeOK
  BY DEF QueueInv, QueueType, ThreadInv, ThreadType, TypeOK
<1>. QED
  BY <1>1, Invariance, PTL

\* The n-th accepted statement lies in slot (n - 1) % QueueSize until it is
\* taken, and less than QueueSize statements are pending.
THEOREM CountsCorrect == Spec => []SlotsFollowCounts
<1>1. QueueInv => SlotsFollowCounts
  BY DEF QueueInv
<1>. QED
  BY <1>1, Invariance, PTL

\* The slots between rear and front are the statements still to be taken.
THEOREM RingCorrect == Spec => []RingHoldsPending
<1>1. ASSUME QueueInv
      PROVE  RingHoldsPending
  <2>. DEFINE a == Len(accepted)
              t == Len(taken)
  <2>1. /\ a \in Int /\ t \in Nat /\ a - t \in 0 .. QueueSize - 1
        /\ front = a % QueueSize /\ rear = t % QueueSize
    BY <1>1 DEF QueueInv, QueueType, SlotsFollowCounts
  <2>2. ((a % QueueSize) - (t % QueueSize)) % QueueSize = a - t
    <3>1. t \in Int
      BY <2>1
    <3>. QED
      BY ONLY <2>1, <3>1, ModDifference, QueueSizeAssumption
  <2>3. Occupied = a - t
    BY <2>1, <2>2 DEF Occupied
  <2>4. ASSUME NEW i \in 1 .. Occupied
        PROVE  queue_elements[(rear + i - 1) % QueueSize] = accepted[t + i]
    <3>1. /\ i \in Int /\ t \in Int /\ i - 1 \in Int
          /\ t + i \in t + 1 .. a
      BY <2>1, <2>3
    <3>2. ((t % QueueSize) + (i - 1)) % QueueSize = (t + (i - 1)) % QueueSize
      BY ONLY <3>1, ModAdd, QueueSizeAssumption
    <3>3. rear + i - 1 = rear + (i - 1) /\ t + i - 1 = t + (i - 1)
      <4>1. rear \in Int
        BY <1>1 DEF QueueInv, QueueType, Slots
      <4>. QED
        BY <3>1, <4>1
    <3>4. queue_elements[(t + i - 1) % QueueSize] = accepted[t + i]
      BY <1>1, <3>1 DEF QueueInv, SlotsFollowCounts
    <3>. QED
      BY <2>1, <3>2, <3>3, <3>4
  <2>. QED
    BY <2>3, <2>4 DEF RingHoldsPending
<1>. QED
  BY <1>1, Invariance, PTL

-----------------------------------------------------------------------------
(* Mutual exclusion.                                                       *)

\* The thread inside a critical section is the owner of queue_mutex.
THEOREM MutualExclusion == Spec => []MutexOwner
<1>. USE ThreadAssumption DEF MutexOwner
<1>1. Init => MutexOwner
  BY DEF Init
<1>2. ASSUME MutexOwner, ThreadInv, NEW p \in Producers, ProducerNext(p)
      PROVE  MutexOwner'
  <2>. USE <1>2 DEF ProducerGoto, ThreadInv, ThreadType
  <2>1. CASE Call(p)
    BY <2>1 DEF Call
  <2>2. CASE ProducerLock(p)
    BY <2>2 DEF ProducerLock
  <2>3. CASE Enqueue(p)
    BY <2>3 DEF Enqueue
  <2>4. CASE ProducerUnlock(p)
    BY <2>4 DEF ProducerUnlock
  <2>5. CASE ProducerSignal(p)
    BY <2>5 DEF ProducerSignal, CondSignal
  <2>. QED
    BY <2>1, <2>2, <2>3, <2>4, <2>5 DEF ProducerNext
<1>3. ASSUME MutexOwner, ThreadInv, ExecutorNext \/ SpuriousWakeup
      PROVE  MutexOwner'
  <2>. USE <1>3 DEF ExecutorGoto, ThreadInv, ThreadType
  <2>1. CASE TestShutdown
    BY <2>1 DEF TestShutdown
  <2>2. CASE ExecutorLock
    BY <2>2 DEF ExecutorLock
  <2>3. CASE SeeStatement
    BY <2>3 DEF SeeStatement
  <2>4. CASE Wait
    BY <2>4 DEF Wait
  <2>5. CASE Relock
    BY <2>5 DEF Relock
  <2>6. CASE Dequeue
    BY <2>6 DEF Dequeue
  <2>7. CASE ExecutorUnlock
    BY <2>7 DEF ExecutorUnlock
  <2>8. CASE TestConnection
    BY <2>8 DEF TestConnection, ConnectionAnswers, Reconnect
  <2>9. CASE AbandonStatement \/ Query
    BY <2>9 DEF AbandonStatement, Query, FinishStatement
  <2>10. CASE QueryAnyway
    BY <2>10 DEF QueryAnyway
  <2>11. CASE SpuriousWakeup
    BY <2>11 DEF SpuriousWakeup
  <2>. QED
    BY <1>3, <2>1, <2>2, <2>3, <2>4, <2>5, <2>6, <2>7, <2>8, <2>9, <2>10,
       <2>11 DEF ExecutorNext
<1>4. ASSUME MutexOwner, ShutdownNext
      PROVE  MutexOwner'
  BY <1>4 DEF ShutdownNext, SetShutdownFlag, ShutdownSignal, Join, CondSignal
<1>5. MutexOwner /\ ThreadInv /\ [Next]_vars => MutexOwner'
  <2>1. MutexOwner /\ UNCHANGED vars => MutexOwner'
    BY DEF vars
  <2>. QED
    BY <1>2, <1>3, <1>4, <2>1 DEF Next
<1>. QED
  BY <1>1, <1>5, Invariance, PTL DEF Spec

-----------------------------------------------------------------------------
(* Execution in order, and the abstract queue.                             *)

\* The executor only ever works on the statement it took last.
THEOREM ExecutesLastTaken == Spec => []WorksOnLastTaken
<1>1. Init => WorksOnLastTaken
  BY DEF Init, WorksOnLastTaken
<1>2. ASSUME WorksOnLastTaken, QueueInv, Dequeue
      PROVE  WorksOnLastTaken'
  <2>1. CASE shutdown_flag \/ IsEmpty
    BY <1>2, <2>1 DEF Dequeue, WorksOnLastTaken
  <2>2. CASE ~(shutdown_flag \/ IsEmpty)
    <3>1. queue_elements[rear] \in Statements /\ taken \in Seq(Statements)
      BY <1>2, <2>2, NonEmptyHasPending DEF QueueInv, QueueType
    <3>2. /\ sql' = queue_elements[rear]
          /\ taken' = Append(taken, queue_elements[rear])
          /\ executor' = "unlock"
      BY <1>2, <2>2 DEF Dequeue, ExecutorGoto
    <3>3. /\ Len(taken') = Len(taken) + 1
          /\ taken'[Len(taken) + 1] = queue_elements[rear]
          /\ taken' # <<>>
      BY <3>1, <3>2, AppendProperties
    <3>. QED
      BY <3>2, <3>3 DEF WorksOnLastTaken
  <2>. QED
    BY <2>1, <2>2
<1>3. ASSUME WorksOnLastTaken, Next, ~Dequeue
      PROVE  WorksOnLastTaken'
  <2>1. taken' = taken
    BY <1>3 DEF Next, ProducerNext, ExecutorNext, ShutdownNext, Call,
         ProducerLock, Enqueue, ProducerUnlock, ProducerSignal, TestShutdown,
         ExecutorLock, SeeStatement, Wait, SpuriousWakeup, Relock,
         ExecutorUnlock, TestConnection, AbandonStatement, QueryAnyway, Query,
         FinishStatement, SetShutdownFlag, ShutdownSignal, Join, queueVars
  <2>2. CASE \E p \in Producers : ProducerNext(p)
    BY <1>3, <2>1, <2>2
       DEF WorksOnLastTaken, ProducerNext, Call, ProducerLock, Enqueue,
           ProducerUnlock, ProducerSignal, CondSignal
  <2>3. CASE ExecutorNext \/ SpuriousWakeup
    BY <1>3, <2>1, <2>3
       DEF WorksOnLastTaken, ExecutorNext, ExecutorGoto, TestShutdown,
           ExecutorLock, SeeStatement, Wait, SpuriousWakeup, Relock,
           ExecutorUnlock, TestConnection, ConnectionAnswers, Reconnect,
           AbandonStatement, QueryAnyway, Query, FinishStatement
  <2>4. CASE ShutdownNext
    BY <1>3, <2>1, <2>4
       DEF WorksOnLastTaken, ShutdownNext, SetShutdownFlag, ShutdownSignal,
           Join, CondSignal
  <2>. QED
    BY <1>3, <2>2, <2>3, <2>4 DEF Next
<1>4. WorksOnLastTaken /\ QueueInv /\ [Next]_vars => WorksOnLastTaken'
  <2>1. WorksOnLastTaken /\ UNCHANGED vars => WorksOnLastTaken'
    BY DEF WorksOnLastTaken, vars
  <2>. QED
    BY <1>2, <1>3, <2>1
<1>. QED
  BY <1>1, <1>4, Invariance, PTL DEF Spec

-----------------------------------------------------------------------------
(* The signals, and the way out.  What PendingIsTaken and                  *)
(* ShutdownCompletesOrIsLost rest on, apart from the fairness: the executor *)
(* waits only where a signal is still to come or one was lost, and once    *)
(* the flag is set it comes nearer to its end with every step.             *)

\* The executor is not left waiting beside a statement, and has ended when
\* the join returns.
THEOREM SignalsAreSeen == Spec => []NoSignalIsMissed
<1>. DEFINE Inv == NoSignalIsMissed /\ WorksOnLastTaken
<1>1. Init => NoSignalIsMissed
  BY DEF Init, CreateTaskQueue, NoSignalIsMissed
<1>2. ASSUME NoSignalIsMissed, ThreadInv, NEW p \in Producers, ProducerNext(p)
      PROVE  NoSignalIsMissed'
  <2>. USE <1>2 DEF ProducerGoto, ThreadInv, ThreadType, NoSignalIsMissed,
                    IsEmpty
  <2>1. CASE Call(p)
    BY <2>1 DEF Call, queueVars
  <2>2. CASE ProducerLock(p)
    BY <2>2 DEF ProducerLock, queueVars
  <2>3. CASE Enqueue(p)
    BY <2>3 DEF Enqueue
  <2>4. CASE ProducerUnlock(p)
    BY <2>4 DEF ProducerUnlock, queueVars
  <2>5. CASE ProducerSignal(p)
    BY <2>5 DEF ProducerSignal, CondSignal, queueVars
  <2>. QED
    BY <2>1, <2>2, <2>3, <2>4, <2>5 DEF ProducerNext
<1>3. ASSUME NoSignalIsMissed, WorksOnLastTaken, ExecutorNext \/ SpuriousWakeup
      PROVE  NoSignalIsMissed'
  BY <1>3 DEF ExecutorNext, ExecutorGoto, TestShutdown, ExecutorLock,
       SeeStatement, Wait, SpuriousWakeup, Relock, Dequeue, ExecutorUnlock,
       TestConnection, ConnectionAnswers, Reconnect, AbandonStatement,
       QueryAnyway, Query, FinishStatement, NoSignalIsMissed, IsEmpty,
       queueVars
<1>4. ASSUME NoSignalIsMissed, WorksOnLastTaken, ShutdownNext
      PROVE  NoSignalIsMissed'
  BY <1>4 DEF ShutdownNext, SetShutdownFlag, ShutdownSignal, Join, CondSignal,
       NoSignalIsMissed, WorksOnLastTaken, IsEmpty, queueVars
<1>5. NoSignalIsMissed /\ WorksOnLastTaken /\ ThreadInv /\ [Next]_vars
        => NoSignalIsMissed'
  <2>1. NoSignalIsMissed /\ UNCHANGED vars => NoSignalIsMissed'
    BY DEF vars, NoSignalIsMissed, IsEmpty
  <2>. QED
    BY <1>2, <1>3, <1>4, <2>1 DEF Next
<1>. QED
  BY <1>1, <1>5, Invariance, ExecutesLastTaken, PTL DEF Spec

\* Steps of the executor until its end, at most, once the flag is set.
Ahead == [exited |-> 0, loop |-> 1, query |-> 2, sleep |-> 2, connect |-> 3,
          unlock |-> 4, take |-> 5, woken |-> 6, waiting |-> 7, test |-> 8,
          lock |-> 9]
StepsLeft == Ahead[executor]

\* Its steps, or those that wake it, that are not away from its end.
Onward ==
  {<<"lock", "test">>, <<"test", "waiting">>, <<"test", "take">>,
   <<"waiting", "woken">>, <<"woken", "take">>, <<"take", "unlock">>,
   <<"unlock", "loop">>, <<"unlock", "connect">>, <<"connect", "query">>,
   <<"connect", "sleep">>, <<"sleep", "loop">>, <<"query", "loop">>,
   <<"loop", "exited">>}

LEMMA OnwardIsShorter ==
  ASSUME NEW from, NEW to, <<from, to>> \in Onward
  PROVE  Ahead[to] < Ahead[from]
  BY DEF Onward, Ahead

\* Once the flag is set every step of the executor, or that wakes it, is one
\* towards its end, and no further statement is taken.
THEOREM ShutdownIsShort ==
  Spec => [][shutdown_flag =>
               /\ taken' = taken
               /\ executor' # executor => StepsLeft' < StepsLeft]_vars
<1>1. ASSUME Next, shutdown_flag
      PROVE  /\ taken' = taken
             /\ executor' # executor => <<executor, executor'>> \in Onward
  <2>1. CASE \E p \in Producers : ProducerNext(p)
    BY <1>1, <2>1 DEF ProducerNext, Call, ProducerLock, Enqueue,
         ProducerUnlock, ProducerSignal, CondSignal, queueVars, Onward
  <2>2. CASE ExecutorNext \/ SpuriousWakeup
    BY <1>1, <2>2 DEF ExecutorNext, ExecutorGoto, TestShutdown, ExecutorLock,
         SeeStatement, Wait, SpuriousWakeup, Relock, Dequeue, ExecutorUnlock,
         TestConnection, ConnectionAnswers, Reconnect, AbandonStatement,
         QueryAnyway, Query, FinishStatement, queueVars, Onward
  <2>3. CASE ShutdownNext
    BY <1>1, <2>3 DEF ShutdownNext, SetShutdownFlag, ShutdownSignal, Join,
         CondSignal, queueVars, Onward
  <2>. QED
    BY <1>1, <2>1, <2>2, <2>3 DEF Next
<1>2. ASSUME Next, shutdown_flag
      PROVE  /\ taken' = taken
             /\ executor' # executor => StepsLeft' < StepsLeft
  BY <1>1, <1>2, OnwardIsShorter DEF StepsLeft
<1>. QED
  BY <1>2, PTL DEF Spec

\* The executor is sound: the mutex, the ring and the statement at work agree
\* for every number of producers and every size of the ring.
THEOREM ExecutorCorrect == Spec => []ExecutorIsSound
<1>1. TypeOK /\ MutexOwner /\ RingHoldsPending /\ SlotsFollowCounts
        /\ WorksOnLastTaken /\ NoSignalIsMissed => ExecutorIsSound
  BY DEF ExecutorIsSound
<1>. QED
  BY <1>1, TypeCorrect, MutualExclusion, RingCorrect, CountsCorrect,
     ExecutesLastTaken, SignalsAreSeen, PTL

\* execute_sql_async and the executor thread together are a bounded queue:
\* every statement accepted is handed over at most once and in order, and at
\* most QueueSize - 1 wait.
THEOREM Refinement == Spec => ImplementsFifo
<1>1. Init => Fifo!Init
  BY DEF Init, CreateTaskQueue, Fifo!Init
<1>2. ASSUME QueueInv, ThreadInv, NEW p \in Producers, Enqueue(p)
      PROVE  [Fifo!Next]_Fifo!fifoVars
  <2>1. CASE IsFull
    BY <1>2, <2>1 DEF Enqueue, Fifo!fifoVars
  <2>2. CASE ~IsFull
    <3>1. <<p, calls[p]>> \in Statements
      BY <1>2, MaxCallsAssumption
         DEF Enqueue, ProducerGoto, Statements, ThreadInv, ThreadType,
             CallStarted
    <3>2. Len(accepted) - Len(taken) < QueueSize - 1
      BY <1>2, <2>2, RoomLeft, QueueSizeAssumption
         DEF QueueInv, QueueType
    <3>3. Fifo!Accept(<<p, calls[p]>>)
      BY <1>2, <2>2, <3>2 DEF Enqueue, Fifo!Accept
    <3>. QED
      BY <3>1, <3>3 DEF Fifo!Next
  <2>. QED
    BY <2>1, <2>2
<1>3. ASSUME QueueInv, Dequeue
      PROVE  [Fifo!Next]_Fifo!fifoVars
  <2>1. CASE shutdown_flag \/ IsEmpty
    BY <1>3, <2>1 DEF Dequeue, Fifo!fifoVars
  <2>2. CASE ~(shutdown_flag \/ IsEmpty)
    <3>1. /\ Len(taken) + 1 <= Len(accepted)
          /\ queue_elements[rear] = accepted[Len(taken) + 1]
      BY <1>3, <2>2, NonEmptyHasPending
    <3>2. Len(taken) < Len(accepted)
      BY <1>3, <3>1 DEF QueueInv, QueueType
    <3>3. Fifo!Take
      BY <1>3, <2>2, <3>1, <3>2 DEF Dequeue, Fifo!Take
    <3>. QED
      BY <3>3 DEF Fifo!Next
  <2>. QED
    BY <2>1, <2>2
<1>4. QueueInv /\ ThreadInv /\ [Next]_vars => [Fifo!Next]_Fifo!fifoVars
  <2>1. UNCHANGED vars \/ UNCHANGED queueVars => UNCHANGED Fifo!fifoVars
    BY DEF vars, queueVars, Fifo!fifoVars
  <2>. QED
    BY <1>2, <1>3, <2>1, QueueFrame
<1>. QED
  BY <1>1, <1>4, Invariance, PTL DEF Spec, Fifo!Spec, ImplementsFifo
=============================================================================
