--------------------------- MODULE MysqlExecutor ---------------------------
(***************************************************************************)
(* The asynchronous SQL executor of the A53 data collector                 *)
(* (data-collector-demo3/src/mysql-executor/mysql-executor.c; the copy in  *)
(* data-collector/ is identical).                                          *)
(*                                                                         *)
(* Collector threads call execute_sql_async, which copies a statement into *)
(* a ring of queue_size slots under queue_mutex and signals queue_cond.    *)
(* One executor thread takes statements out and runs them on its MySQL     *)
(* connection.  on_shutdown, run by the SIGINT handler, sets shutdown_flag *)
(* and signals queue_cond, both without queue_mutex, and joins the thread. *)
(*                                                                         *)
(* One action per step that another thread can observe: each lock, each    *)
(* critical section, each unlock, each signal.                             *)
(***************************************************************************)
EXTENDS Integers, Sequences

CONSTANTS Producers,    \* threads that call execute_sql_async
          Executor,     \* the thread "MYSQL_EXECUTOR"
          NoThread,     \* the owner of a mutex nobody holds
          NoSql,        \* the NULL statement
          QueueSize,    \* mysql_executor_config.queue_size
          MaxCalls      \* bound: calls each producer makes

ASSUME ThreadAssumption == /\ Executor \notin Producers
                           /\ NoThread \notin Producers \cup {Executor}
ASSUME QueueSizeAssumption == QueueSize \in Nat \ {0}
ASSUME MaxCallsAssumption == MaxCalls \in Nat

\* The n-th statement of a producer: all a property needs of its text.
Statements == Producers \X (1 .. MaxCalls)

ASSUME NoSqlAssumption == NoSql \notin Statements

VARIABLES
  queue_elements,  \* the slots of task_queue_t
  front,           \* index of the next slot to write
  rear,            \* index of the next slot to read
  queue_mutex,     \* the thread that holds the mutex, or NoThread
  shutdown_flag,
  executor,        \* where the executor thread is
  sql,             \* its local variable: the statement it works on
  producer,        \* where each producer is in execute_sql_async
  calls,           \* calls each producer has started
  shutdown,        \* where the SIGINT handler is in on_shutdown
  mysql_led,       \* led_set_mysql_error_status
  connection,      \* what mysql_context->mysql is
  accepted,        \* history: statements enqueued, in order
  taken            \* history: statements dequeued, in order

queueVars == <<queue_elements, front, rear, accepted, taken>>
mysqlVars == <<mysql_led, connection>>
vars == <<queue_elements, front, rear, queue_mutex, shutdown_flag, executor,
          sql, producer, calls, shutdown, mysql_led, connection, accepted,
          taken>>

Slots == 0 .. QueueSize - 1

\* A handle that is not connected, one that is but without its character set,
\* and a good one.
Connections == {"broken", "plain", "utf8mb4"}

TypeOK ==
  /\ queue_elements \in [Slots -> Statements \cup {NoSql}]
  /\ front \in Slots
  /\ rear \in Slots
  /\ queue_mutex \in Producers \cup {Executor, NoThread}
  /\ shutdown_flag \in BOOLEAN
  /\ executor \in {"loop", "lock", "test", "waiting", "woken", "take",
                   "unlock", "connect", "sleep", "query", "exited"}
  /\ sql \in Statements \cup {NoSql}
  /\ producer \in [Producers ->
                     {"idle", "lock", "enqueue", "unlock", "signal"}]
  /\ calls \in [Producers -> 0 .. MaxCalls]
  /\ shutdown \in {"running", "signal", "join", "joined"}
  /\ mysql_led \in {"normal", "error"}
  /\ connection \in Connections
  /\ accepted \in Seq(Statements)
  /\ taken \in Seq(Statements)

-----------------------------------------------------------------------------
(* The ring of slots.  front = rear means empty, so one slot stays free.   *)

NextSlot(i) == (i + 1) % QueueSize
IsEmpty == front = rear
\* Mutant: the test for full forgets the wrap-around.
IsFullNoWrap == front + 1 = rear

IsFull == NextSlot(front) = rear

\* pthread_cond_signal: wakes the executor if it waits, else does nothing.
CondSignal ==
  executor' = IF executor = "waiting" THEN "woken" ELSE executor

\* init_mysql_connection: what there was is closed, and the new one fails at
\* the handle, at the connection, at its character set, or is good.
InitConnection(result) == connection' = result

\* init_mysql_executor_context, with ignore_init_failure: any outcome will do.
InitMysql == connection \in Connections

CreateTaskQueue ==
  /\ queue_elements = [i \in Slots |-> NoSql]
  /\ front = 0
  /\ rear = 0

\* start_mysql_executor has created the ring, the mutex and the thread.
Init ==
  /\ InitMysql
  /\ CreateTaskQueue
  /\ queue_mutex = NoThread
  /\ shutdown_flag = FALSE
  /\ executor = "loop"
  /\ sql = NoSql
  /\ producer = [p \in Producers |-> "idle"]
  /\ calls = [p \in Producers |-> 0]
  /\ shutdown = "running"
  /\ mysql_led = "normal"
  /\ accepted = <<>>
  /\ taken = <<>>

-----------------------------------------------------------------------------
(* execute_sql_async, called by producer p.  The threads stop for good     *)
(* when the SIGINT handler reaches exit(), i.e. once shutdown = "joined".  *)

ProducerGoto(p, from, to) == /\ shutdown # "joined"
                             /\ producer[p] = from
                             /\ producer' = [producer EXCEPT ![p] = to]

\* The flag is read without the mutex; a call that sees it set returns -1.
Call(p) ==
  /\ calls[p] < MaxCalls
  /\ calls' = [calls EXCEPT ![p] = @ + 1]
  /\ ProducerGoto(p, "idle", IF shutdown_flag THEN "idle" ELSE "lock")
  /\ UNCHANGED <<queueVars, queue_mutex, shutdown_flag, executor, sql,
                 shutdown, mysqlVars>>

ProducerLock(p) ==
  /\ queue_mutex = NoThread
  /\ queue_mutex' = p
  /\ ProducerGoto(p, "lock", "enqueue")
  /\ UNCHANGED <<queueVars, shutdown_flag, executor, sql, calls, shutdown,
                 mysqlVars>>

\* Mutant: the statement is stored without a look at the room left.
EnqueueUnchecked(p) ==
  /\ ProducerGoto(p, "enqueue", "unlock")
  /\ queue_elements' = [queue_elements EXCEPT ![front] = <<p, calls[p]>>]
  /\ front' = NextSlot(front)
  /\ accepted' = Append(accepted, <<p, calls[p]>>)
  /\ UNCHANGED <<rear, queue_mutex, shutdown_flag, executor, sql, calls,
                 shutdown, mysqlVars, taken>>

\* A full ring abandons the statement: the call will return -1.
Enqueue(p) ==
  /\ ProducerGoto(p, "enqueue", "unlock")
  /\ IF IsFull
     THEN UNCHANGED <<queue_elements, front, accepted>>
     ELSE /\ queue_elements' =
               [queue_elements EXCEPT ![front] = <<p, calls[p]>>]
          /\ front' = NextSlot(front)
          /\ accepted' = Append(accepted, <<p, calls[p]>>)
  /\ UNCHANGED <<rear, queue_mutex, shutdown_flag, executor, sql, calls,
                 shutdown, mysqlVars, taken>>

ProducerUnlock(p) ==
  /\ queue_mutex' = NoThread
  /\ ProducerGoto(p, "unlock", "signal")
  /\ UNCHANGED <<queueVars, shutdown_flag, executor, sql, calls, shutdown,
                 mysqlVars>>

\* Mutant: the call returns without waking the executor.
ProducerReturn(p) ==
  /\ ProducerGoto(p, "signal", "idle")
  /\ UNCHANGED <<queueVars, queue_mutex, shutdown_flag, executor, sql, calls,
                 shutdown, mysqlVars>>

\* The signal follows the unlock, and is sent for an abandoned one too.
ProducerSignal(p) ==
  /\ ProducerGoto(p, "signal", "idle")
  /\ CondSignal
  /\ UNCHANGED <<queueVars, queue_mutex, shutdown_flag, sql, calls, shutdown,
                 mysqlVars>>

-----------------------------------------------------------------------------
(* do_start_mysql_executor, the executor thread.                           *)

ExecutorGoto(from, to) == /\ shutdown # "joined"
                          /\ executor = from
                          /\ executor' = to

\* Mutant: the loop condition is dropped.
LoopForever ==
  /\ ExecutorGoto("loop", "lock")
  /\ UNCHANGED <<queueVars, queue_mutex, shutdown_flag, sql, producer, calls,
                 shutdown, mysqlVars>>

\* while (shutdown_flag == 0): read without the mutex.
TestShutdown ==
  /\ ExecutorGoto("loop", IF shutdown_flag THEN "exited" ELSE "lock")
  /\ UNCHANGED <<queueVars, queue_mutex, shutdown_flag, sql, producer, calls,
                 shutdown, mysqlVars>>

ExecutorLock ==
  /\ queue_mutex = NoThread
  /\ queue_mutex' = Executor
  /\ ExecutorGoto("lock", "test")
  /\ UNCHANGED <<queueVars, shutdown_flag, sql, producer, calls, shutdown,
                 mysqlVars>>

SeeStatement ==
  /\ ~IsEmpty
  /\ ExecutorGoto("test", "take")
  /\ UNCHANGED <<queueVars, queue_mutex, shutdown_flag, sql, producer, calls,
                 shutdown, mysqlVars>>

\* pthread_cond_wait gives the mutex up and waits, in one step.
Wait ==
  /\ IsEmpty
  /\ queue_mutex' = NoThread
  /\ ExecutorGoto("test", "waiting")
  /\ UNCHANGED <<queueVars, shutdown_flag, sql, producer, calls, shutdown,
                 mysqlVars>>

\* pthread_cond_wait may return with no signal: allowed, never promised.
SpuriousWakeup ==
  /\ ExecutorGoto("waiting", "woken")
  /\ UNCHANGED <<queueVars, queue_mutex, shutdown_flag, sql, producer, calls,
                 shutdown, mysqlVars>>

\* pthread_cond_wait returns with the mutex held again.
Relock ==
  /\ queue_mutex = NoThread
  /\ queue_mutex' = Executor
  /\ ExecutorGoto("woken", "take")
  /\ UNCHANGED <<queueVars, shutdown_flag, sql, producer, calls, shutdown,
                 mysqlVars>>

\* The wait is an if, not a loop: the emptiness is tested again here.
Dequeue ==
  /\ ExecutorGoto("take", "unlock")
  /\ IF shutdown_flag \/ IsEmpty
     THEN /\ sql' = NoSql
          /\ UNCHANGED <<rear, taken>>
     ELSE /\ sql' = queue_elements[rear]
          /\ rear' = NextSlot(rear)
          /\ taken' = Append(taken, queue_elements[rear])
  /\ UNCHANGED <<queue_elements, front, accepted, queue_mutex, shutdown_flag,
                 producer, calls, shutdown, mysqlVars>>

ExecutorUnlock ==
  /\ queue_mutex' = NoThread
  /\ ExecutorGoto("unlock", IF sql = NoSql THEN "loop" ELSE "connect")
  /\ UNCHANGED <<queueVars, shutdown_flag, sql, producer, calls, shutdown,
                 mysqlVars>>

-----------------------------------------------------------------------------
(* do_execute_sql.  A statement that fails is reported on the LED and      *)
(* dropped; it is never tried again.                                       *)

\* test_mysql_connection sends a query on a connection that is younger than
\* its expiry time; any connection may have got older than that meanwhile.
ConnectionAnswers ==
  /\ connection # "broken"
  /\ ExecutorGoto("connect", "query")
  /\ UNCHANGED connection

\* It is made again when it had expired, and once more when it does not
\* answer; when that fails, or it does not answer then, the thread sleeps 10 s.
Reconnect ==
  \E result \in Connections :
    /\ InitConnection(result)
    /\ \/ result = "utf8mb4" /\ ExecutorGoto("connect", "query")
       \/ ExecutorGoto("connect", "sleep")

TestConnection ==
  /\ ConnectionAnswers \/ Reconnect
  /\ UNCHANGED <<queueVars, queue_mutex, shutdown_flag, sql, producer, calls,
                 shutdown, mysql_led>>

FinishStatement(led) == /\ mysql_led' = led
                        /\ sql' = NoSql
                        /\ UNCHANGED <<queueVars, queue_mutex, shutdown_flag,
                                       producer, calls, shutdown, connection>>

\* After the sleep a shutdown abandons the statement without running it.
AbandonStatement == /\ shutdown_flag
                    /\ ExecutorGoto("sleep", "loop")
                    /\ FinishStatement("error")

\* Otherwise the query is tried although the connection test failed.
QueryAnyway ==
  /\ ~shutdown_flag
  /\ ExecutorGoto("sleep", "query")
  /\ UNCHANGED <<queueVars, queue_mutex, shutdown_flag, sql, producer, calls,
                 shutdown, mysqlVars>>

\* mysql_query succeeds or fails, and it fails without a connection.
Query == /\ ExecutorGoto("query", "loop")
         /\ \E led \in {"normal", "error"} :
              /\ connection = "broken" => led = "error"
              /\ FinishStatement(led)

-----------------------------------------------------------------------------
(* on_shutdown, called by the SIGINT handler on the main thread.           *)

SetShutdownFlag ==
  /\ shutdown = "running"
  /\ shutdown' = "signal"
  /\ shutdown_flag' = TRUE
  /\ UNCHANGED <<queueVars, queue_mutex, executor, sql, producer, calls,
                 mysqlVars>>

ShutdownSignal ==
  /\ shutdown = "signal"
  /\ shutdown' = "join"
  /\ CondSignal
  /\ UNCHANGED <<queueVars, queue_mutex, shutdown_flag, sql, producer, calls,
                 mysqlVars>>

\* pthread_join returns once the thread has ended; exit(0) follows.
Join ==
  /\ shutdown = "join"
  /\ executor = "exited"
  /\ shutdown' = "joined"
  /\ UNCHANGED <<queueVars, queue_mutex, shutdown_flag, executor, sql,
                 producer, calls, mysqlVars>>

-----------------------------------------------------------------------------
ProducerNext(p) == \/ Call(p) \/ ProducerLock(p) \/ Enqueue(p)
                   \/ ProducerUnlock(p) \/ ProducerSignal(p)

ExecutorNext == \/ TestShutdown \/ ExecutorLock \/ SeeStatement \/ Wait
                \/ Relock \/ Dequeue \/ ExecutorUnlock
                \/ TestConnection \/ AbandonStatement \/ QueryAnyway \/ Query

ShutdownNext == SetShutdownFlag \/ ShutdownSignal \/ Join

Next == \/ \E p \in Producers : ProducerNext(p)
        \/ ExecutorNext
        \/ SpuriousWakeup
        \/ ShutdownNext

Spec == Init /\ [][Next]_vars

\* What the kernel's scheduler gives: a thread that can run does run, and a
\* lock that keeps being released is eventually granted to each waiter.
\* Nothing obliges a producer to call, a SIGINT to arrive or a wait to
\* return spuriously.
Fairness ==
  /\ WF_vars(ExecutorNext)
  /\ SF_vars(ExecutorLock)
  /\ SF_vars(Relock)
  /\ \A p \in Producers : /\ SF_vars(ProducerLock(p))
                          /\ WF_vars(Enqueue(p))
                          /\ WF_vars(ProducerUnlock(p))
                          /\ WF_vars(ProducerSignal(p))
  /\ WF_vars(ShutdownSignal)
  /\ WF_vars(Join)

FairSpec == Spec /\ Fairness

-----------------------------------------------------------------------------
(* Properties.                                                             *)

\* Exactly the thread inside its critical section owns queue_mutex, so the
\* ring is never touched by two threads at a time.
MutexOwner ==
  /\ \A p \in Producers :
       producer[p] \in {"enqueue", "unlock"} <=> queue_mutex = p
  /\ executor \in {"test", "take", "unlock"} <=> queue_mutex = Executor

\* The number of occupied slots, from the two indices alone.
Occupied == (front - rear) % QueueSize

\* The slots from rear to front hold precisely the statements accepted and
\* not yet taken, oldest first: no wrap-around of front or rear overwrites,
\* skips or repeats a statement.
RingHoldsPending ==
  /\ Occupied = Len(accepted) - Len(taken)
  /\ \A i \in 1 .. Occupied :
       queue_elements[(rear + i - 1) % QueueSize] = accepted[Len(taken) + i]

\* The same ring seen from the counts: the n-th statement ever accepted lies
\* in slot (n - 1) % QueueSize until it is taken, and less than QueueSize
\* statements are pending.  This is what makes RingHoldsPending inductive.
SlotsFollowCounts ==
  /\ front = Len(accepted) % QueueSize
  /\ rear = Len(taken) % QueueSize
  /\ Len(accepted) - Len(taken) \in 0 .. QueueSize - 1
  /\ \A n \in Len(taken) + 1 .. Len(accepted) :
       queue_elements[(n - 1) % QueueSize] = accepted[n]

\* The executor is a bounded queue that hands statements over once, in order.
Fifo == INSTANCE SqlFifo WITH Capacity <- QueueSize - 1
ImplementsFifo == Fifo!Spec

\* The executor works on a statement exactly between its dequeue and the
\* report of its result, and it is the last one taken: a statement is never
\* executed twice or executed after a later one.
WorksOnLastTaken ==
  sql # NoSql => /\ executor \in {"unlock", "connect", "sleep", "query"}
                 /\ taken # <<>>
                 /\ sql = taken[Len(taken)]

\* The executor waits beside a statement only as long as the signal for it is
\* still to be sent, and the join returns only when it runs no statement.
NoSignalIsMissed ==
  /\ executor = "waiting" /\ ~IsEmpty =>
       \E p \in Producers : producer[p] \in {"unlock", "signal"}
  /\ shutdown = "joined" => executor = "exited" /\ sql = NoSql
  /\ executor = "exited" => shutdown_flag

\* All of this at once: the mutex, the ring and the statement at work are
\* consistent whatever the producers, the executor and the shutdown
\* interleave (execute_sql_async, do_start_mysql_executor).
ExecutorIsSound == /\ TypeOK
                   /\ MutexOwner
                   /\ RingHoldsPending
                   /\ SlotsFollowCounts
                   /\ WorksOnLastTaken
                   /\ NoSignalIsMissed

\* Unless a shutdown intervenes, every statement accepted is executed: the
\* signal sent after the unlock never misses an executor about to wait.
IsIn(s, seq) == \E i \in 1 .. Len(seq) : seq[i] = s
PendingIsTaken ==
  \A s \in Statements :
    IsIn(s, accepted) ~> (IsIn(s, taken) \/ shutdown_flag)

\* The lost wake-up: the executor saw the flag clear, on_shutdown signalled,
\* and only then did it wait, on an empty queue.
LostWakeup == /\ shutdown = "join"
              /\ executor = "waiting"
              /\ IsEmpty

\* A shutdown either completes or ends in the lost wake-up: no other state
\* of the two threads can keep the join from returning.
ShutdownCompletesOrIsLost ==
  shutdown = "join" ~> (shutdown = "joined" \/ LostWakeup)

\* "Receive signal SIGINT, program will exit!" (signal-handler.c:51): the
\* join of on_shutdown returns.
ShutdownCompletes == shutdown = "join" ~> shutdown = "joined"
=============================================================================
