------------------------------ MODULE Shutdown ------------------------------
(***************************************************************************)
(* The life of the collector's process: main starts the parts one after    *)
(* the other, SIGINT runs the callbacks they have registered, in reverse   *)
(* order, and the process exits (data-collector-demo3/src/main.c,          *)
(* signal-handler/signal-handler.c, log/log.c, and the on_shutdown of the  *)
(* MySQL executor, the UDP collector and the Modbus collector).            *)
(*                                                                         *)
(* A signal may come at any moment.  It interrupts the main thread, or,    *)
(* while that is in the handler, any other; the interrupted thread keeps   *)
(* the mutexes it holds.  What the threads do besides logging and looking  *)
(* at their flags is in the modules of the parts.                          *)
(***************************************************************************)
EXTENDS Integers, Sequences, FiniteSets

CONSTANTS Sources,     \* "modbus" or "rpmsg", the configured source
          MaxSignals   \* bound: SIGINTs sent while sigint_handler has been
                       \* called fewer than MaxSignals times

ASSUME SourcesAssumption == Sources \subseteq {"modbus", "rpmsg"}
ASSUME MaxSignalsAssumption == MaxSignals \in Nat

Workers == {"executor", "udp", "collector", "cleaner", "rpmsg"}
Threads == Workers \cup {"main"}
Nobody == "nobody"

\* Mutant: the cleaner is not joined.
JoinedByNoCleaner == [executor |-> <<"executor">>, udp |-> <<"udp">>,
                      modbus |-> <<"collector">>]

\* The threads an on_shutdown joins.  Nobody joins the RPMsg thread.
JoinedBy == [executor |-> <<"executor">>, udp |-> <<"udp">>,
             modbus |-> <<"collector", "cleaner">>]
Callbacks == {"log"} \cup DOMAIN JoinedBy

VARIABLES
  source,
  process,         \* "running", "exited" or "crashed"
  main,            \* what main does next
  thread,          \* where each of the others is
  callbacks,       \* shutdown_callbacks[0 .. shutdown_callback_length - 1]
  callback_mutex, log_mutex,
  log_open,        \* the log file is still written to
  shutdown_flags,  \* the parts whose shutdown_flag is set
  handler,         \* per thread, where it is in sigint_handler
  joiner,          \* who has called pthread_join on a thread
  calls            \* of sigint_handler

startup == <<source, main>>
locks == <<callback_mutex, log_mutex>>
shutdownVars == <<startup, process, thread, callbacks, locks, log_open,
                  shutdown_flags, handler, joiner, calls>>

NotCalled == [stage |-> "none", i |-> 0, k |-> 0, from |-> 0, masked |-> FALSE]

\* sigint_handler, entered by the signal (which is masked until it returns)
\* or called by main.
Entered(by_signal) == [NotCalled EXCEPT !.stage = "announce",
                                        !.masked = by_signal]

ShutdownTypeOK ==
  /\ source \in Sources /\ process \in {"running", "exited", "crashed"}
  /\ main \in {"init_log", "add_executor", "executor", "udp", "source",
               "loop", "error"}
  /\ thread \in [Workers -> {"none", "start", "add", "run", "tested",
                             "waiting", "ended"}]
  /\ callbacks \in Seq(Callbacks \cup {"unset"})
  /\ Len(callbacks) <= Cardinality(Callbacks)
  /\ {callback_mutex, log_mutex} \subseteq Threads \cup {Nobody}
  /\ shutdown_flags \subseteq DOMAIN JoinedBy
  /\ \A t \in Threads :
       /\ handler[t].stage \in {"none", "announce", "call", "join", "joining",
                                "joined"}
       /\ {handler[t].i, handler[t].from} \subseteq 0 .. Len(callbacks)
       /\ handler[t].masked \in BOOLEAN
  /\ joiner \in [Workers -> Threads \cup {Nobody}]

ShutdownInit ==
  /\ source \in Sources /\ process = "running" /\ main = "init_log"
  /\ thread = [w \in Workers |-> "none"]
  /\ callbacks = <<>> /\ callback_mutex = Nobody /\ log_mutex = Nobody
  /\ log_open = TRUE /\ shutdown_flags = {}
  /\ handler = [t \in Threads |-> NotCalled]
  /\ joiner = [w \in Workers |-> Nobody] /\ calls = 0

\* The thread does what it normally does: no handler runs on top of it, and
\* it is not inside m_log.
Goes(t) == /\ process = "running" /\ handler[t].stage = "none"
           /\ log_mutex # t

\* A thread at a place where it may log; main sleeps in its loop.
Logs(t) == IF t = "main" THEN main # "loop" ELSE thread[t] \in {"start", "run"}

-----------------------------------------------------------------------------
(* Logging and callbacks.                                                  *)

LockLog(t) ==
  /\ Goes(t) /\ Logs(t) /\ callback_mutex # t
  /\ log_mutex = Nobody /\ log_mutex' = t
  /\ UNCHANGED <<startup, process, thread, callbacks, callback_mutex,
                 log_open, shutdown_flags, handler, joiner, calls>>

UnlockLog(t) ==
  /\ process = "running" /\ handler[t].stage = "none"
  /\ log_mutex = t /\ log_mutex' = Nobody
  /\ UNCHANGED <<startup, process, thread, callbacks, callback_mutex,
                 log_open, shutdown_flags, handler, joiner, calls>>

\* shutdown_callbacks[shutdown_callback_length++] = callback: nothing says
\* whether the length or the entry is written first, and the handler reads
\* both without the mutex.
BeginAdding(t) ==
  /\ callback_mutex = Nobody /\ callback_mutex' = t
  /\ callbacks' = Append(callbacks, "unset")

EndAdding(t, callback) ==
  \/ /\ callback_mutex = t /\ callback_mutex' = Nobody
     /\ callbacks' = [callbacks EXCEPT ![Len(callbacks)] = callback]
  \/ /\ callback_mutex = Nobody /\ UNCHANGED callback_mutex
     /\ callbacks' = Append(callbacks, callback)

-----------------------------------------------------------------------------
(* The main thread.                                                        *)

\* Where main registers a callback, and which.
MainCallback == [init_log |-> "log", add_executor |-> "executor"]

\* Mutant: the executor adds its callback after the UDP thread has started.
AfterLate == [init_log |-> "executor", executor |-> "udp",
              udp |-> "add_executor", add_executor |-> "source",
              source |-> "loop"]

After == [init_log |-> "add_executor", add_executor |-> "executor",
          executor |-> "udp", udp |-> "source", source |-> "loop"]

MainBeginsAdding ==
  /\ Goes("main") /\ main \in DOMAIN MainCallback
  /\ BeginAdding("main")
  /\ UNCHANGED <<startup, process, thread, log_mutex, log_open,
                 shutdown_flags, handler, joiner, calls>>

MainEndsAdding ==
  /\ Goes("main") /\ main \in DOMAIN MainCallback
  /\ EndAdding("main", MainCallback[main])
  /\ main' = After[main]
  /\ UNCHANGED <<source, process, thread, log_mutex, log_open,
                 shutdown_flags, handler, joiner, calls>>

\* Which thread the next step of main creates.
NextThread == CASE main = "executor" -> "executor"
                [] main = "udp" -> "udp"
                [] main = "source" -> IF source = "modbus" THEN "collector"
                                                           ELSE "rpmsg"

\* The executor's callback is there already, the others add their own.
Starts(w) == IF w \in {"udp", "collector"} THEN "start" ELSE "run"

CreateThread ==
  /\ Goes("main") /\ main \in {"executor", "udp", "source"}
  /\ thread' = [thread EXCEPT ![NextThread] = Starts(NextThread)]
  /\ main' = After[main]
  /\ UNCHANGED <<source, process, callbacks, locks, log_open,
                 shutdown_flags, handler, joiner, calls>>

\* A part cannot be initialized, or its thread not be created.
StartFails ==
  /\ Goes("main") /\ callback_mutex # "main"
  /\ main \in {"add_executor", "executor", "udp", "source"}
  /\ main' = "error"
  /\ UNCHANGED <<source, process, thread, callbacks, locks, log_open,
                 shutdown_flags, handler, joiner, calls>>

\* main returns or calls exit before there is anything to shut down.
GiveUp ==
  /\ Goes("main") /\ callback_mutex # "main"
  /\ main \in {"init_log", "add_executor"}
  /\ process' = "exited"
  /\ UNCHANGED <<startup, thread, callbacks, locks, log_open, shutdown_flags,
                 handler, joiner, calls>>

-----------------------------------------------------------------------------
(* The other threads.                                                      *)

CallbackOf == [udp |-> "udp", collector |-> "modbus"]

\* The UDP thread adds its callback first of all.  The collecting thread
\* does so after it has opened the device and started the cleaner.
InitCollector ==
  /\ Goes("collector") /\ thread["collector"] = "start"
  /\ \/ /\ \E cleaner \in {"run", "none"} :  \* its pthread_create may fail
             thread' = [thread EXCEPT !["collector"] = "add",
                                      !["cleaner"] = cleaner]
        /\ UNCHANGED process
     \/ process' = "exited" /\ UNCHANGED thread  \* exit(-1)
  /\ UNCHANGED <<startup, callbacks, locks, log_open, shutdown_flags,
                 handler, joiner, calls>>

Adds(w) == thread[w] = IF w = "udp" THEN "start" ELSE "add"

WorkerBeginsAdding(w) ==
  /\ Goes(w) /\ Adds(w) /\ BeginAdding(w)
  /\ UNCHANGED <<startup, process, thread, log_mutex, log_open,
                 shutdown_flags, handler, joiner, calls>>

\* A UDP thread that cannot bind its socket returns right afterwards.
WorkerEndsAdding(w) ==
  /\ Goes(w) /\ Adds(w) /\ EndAdding(w, CallbackOf[w])
  /\ \E next \in IF w = "udp" THEN {"run", "ended"} ELSE {"run"} :
       thread' = [thread EXCEPT ![w] = next]
  /\ UNCHANGED <<startup, process, log_mutex, log_open, shutdown_flags,
                 handler, joiner, calls>>

\* The flag a thread looks at.  The RPMsg thread has none.
FlagOf == [executor |-> "executor", udp |-> "udp", collector |-> "modbus",
           cleaner |-> "modbus"]

\* The loop sees the flag, and the thread returns.
Return(w) ==
  /\ Goes(w) /\ thread[w] = "run" /\ FlagOf[w] \in shutdown_flags
  /\ thread' = [thread EXCEPT ![w] = "ended"]
  /\ UNCHANGED <<startup, process, callbacks, locks, log_open,
                 shutdown_flags, handler, joiner, calls>>

\* The executor sees no flag and an empty queue, and then waits.
TestFlag ==
  /\ Goes("executor") /\ thread["executor"] = "run"
  /\ "executor" \notin shutdown_flags
  /\ thread' = [thread EXCEPT !["executor"] = "tested"]
  /\ UNCHANGED <<startup, process, callbacks, locks, log_open,
                 shutdown_flags, handler, joiner, calls>>

WaitForSql ==
  /\ Goes("executor") /\ thread["executor"] = "tested"
  /\ thread' = [thread EXCEPT !["executor"] = "waiting"]
  /\ UNCHANGED <<startup, process, callbacks, locks, log_open,
                 shutdown_flags, handler, joiner, calls>>

\* A statement of the collecting thread, or a spurious wake-up.
WakeUp ==
  /\ Goes("executor") /\ thread["executor"] = "waiting"
  /\ thread' = [thread EXCEPT !["executor"] = "run"]
  /\ UNCHANGED <<startup, process, callbacks, locks, log_open,
                 shutdown_flags, handler, joiner, calls>>

-----------------------------------------------------------------------------
(* SIGINT and its handler.                                                 *)

\* A thread that is in the handler has SIGINT masked; a thread that called
\* it as a function has not.
Takes(t) == ~ handler[t].masked
            /\ (t # "main" => thread[t] \notin {"none", "ended"})

\* Linux gives the signal to the main thread whenever that takes it.  The
\* handler never returns, so one on top of another replaces it; that one may
\* have been inside m_log.
Signal ==
  /\ process = "running" /\ calls < MaxSignals /\ calls' = calls + 1
  /\ \E t \in IF Takes("main") THEN {"main"} ELSE {w \in Workers : Takes(w)} :
       /\ handler' = [handler EXCEPT ![t] = Entered(TRUE)]
       /\ \/ UNCHANGED log_mutex
          \/ /\ handler[t].stage \in {"announce", "call", "joined"}
             /\ log_mutex = Nobody /\ log_mutex' = t
  /\ UNCHANGED <<startup, process, thread, callbacks, callback_mutex,
                 log_open, shutdown_flags, joiner>>

Fire ==
  /\ Goes("main") /\ main = "error"
  /\ handler' = [handler EXCEPT !["main"] = Entered(FALSE)]
  /\ calls' = calls + 1
  /\ UNCHANGED <<startup, process, thread, callbacks, locks, log_open,
                 shutdown_flags, joiner>>

IsAt(t, stage) == process = "running" /\ handler[t].stage = stage
Callback(t) == callbacks[handler[t].i]
Joinee(t) == JoinedBy[Callback(t)][handler[t].k]

\* m_log, and then the loop reads how many callbacks there are.
Announce(t) ==
  /\ IsAt(t, "announce") /\ log_mutex = Nobody
  /\ handler' = [handler EXCEPT ![t].stage = "call", ![t].i = Len(callbacks),
                                ![t].from = Len(callbacks)]
  /\ UNCHANGED <<startup, process, thread, callbacks, locks, log_open,
                 shutdown_flags, joiner, calls>>

\* exit(0) after the last callback; a call of NULL when the entry has not
\* been written.
LeaveHandler(t) ==
  /\ IsAt(t, "call")
  /\ \/ handler[t].i = 0 /\ process' = "exited"
     \/ handler[t].i > 0 /\ Callback(t) = "unset" /\ process' = "crashed"
  /\ UNCHANGED <<startup, thread, callbacks, locks, log_open, shutdown_flags,
                 handler, joiner, calls>>

CloseLog(t) ==
  /\ IsAt(t, "call") /\ handler[t].i > 0 /\ Callback(t) = "log"
  /\ log_open' = FALSE
  /\ handler' = [handler EXCEPT ![t].i = @ - 1]
  /\ UNCHANGED <<startup, process, thread, callbacks, locks, shutdown_flags,
                 joiner, calls>>

\* Mutant: the flag is not set before the join.
SetNoFlag(t) ==
  /\ IsAt(t, "call") /\ handler[t].i > 0 /\ Callback(t) \in DOMAIN JoinedBy
  /\ log_mutex = Nobody
  /\ handler' = [handler EXCEPT ![t].stage = "join", ![t].k = 1]
  /\ UNCHANGED <<startup, process, thread, callbacks, locks, log_open,
                 shutdown_flags, joiner, calls>>

\* The start of the other on_shutdowns: m_log, the flag, and the signal to an
\* executor that waits.
SetFlag(t) ==
  /\ IsAt(t, "call") /\ handler[t].i > 0 /\ Callback(t) \in DOMAIN JoinedBy
  /\ log_mutex = Nobody
  /\ shutdown_flags' = shutdown_flags \cup {Callback(t)}
  /\ thread' = IF Callback(t) = "executor" /\ thread["executor"] = "waiting"
               THEN [thread EXCEPT !["executor"] = "run"] ELSE thread
  /\ handler' = [handler EXCEPT ![t].stage = "join", ![t].k = 1]
  /\ UNCHANGED <<startup, process, callbacks, locks, log_open, joiner, calls>>

JoinReturns(t) ==
  handler' = [handler EXCEPT
                ![t].stage = IF handler[t].k = Len(JoinedBy[Callback(t)])
                             THEN "joined" ELSE "join",
                ![t].k = @ + 1]

\* pthread_join: the result, which nobody looks at, is EDEADLK for the thread
\* itself or one that waits for it and EINVAL for one that another thread
\* waits for.  A pthread_t never written is 0, and one whose thread has been
\* joined is no longer valid.
Join(t) ==
  LET w == Joinee(t)
      refused == w = t \/ joiner[w] # Nobody \/ (t # "main" /\ joiner[t] = w)
  IN /\ IsAt(t, "join")
     /\ \/ /\ refused /\ JoinReturns(t) /\ UNCHANGED <<process, joiner>>
        \/ /\ \/ thread[w] = "none"
              \/ thread[w] = "ended" /\ joiner[w] # Nobody
           /\ process' = "crashed" /\ UNCHANGED <<handler, joiner>>
        \/ /\ ~ refused /\ thread[w] # "none"
           /\ joiner' = [joiner EXCEPT ![w] = t]
           /\ handler' = [handler EXCEPT ![t].stage = "joining"]
           /\ UNCHANGED process
     /\ UNCHANGED <<startup, thread, callbacks, locks, log_open,
                    shutdown_flags, calls>>

Joined(t) ==
  /\ IsAt(t, "joining") /\ thread[Joinee(t)] = "ended" /\ JoinReturns(t)
  /\ UNCHANGED <<startup, process, thread, callbacks, locks, log_open,
                 shutdown_flags, joiner, calls>>

\* The m_log at the end of an on_shutdown.
NextCallback(t) ==
  /\ IsAt(t, "joined") /\ log_mutex = Nobody
  /\ handler' = [handler EXCEPT ![t].stage = "call", ![t].i = @ - 1]
  /\ UNCHANGED <<startup, process, thread, callbacks, locks, log_open,
                 shutdown_flags, joiner, calls>>

Handle(t) == \/ Announce(t) \/ LeaveHandler(t) \/ CloseLog(t) \/ SetFlag(t)
             \/ Join(t) \/ Joined(t) \/ NextCallback(t)

-----------------------------------------------------------------------------
Main == MainBeginsAdding \/ MainEndsAdding \/ CreateThread \/ StartFails
        \/ GiveUp \/ Fire

ShutdownNext ==
  \/ Main \/ InitCollector \/ TestFlag \/ WaitForSql \/ WakeUp \/ Signal
  \/ \E w \in DOMAIN CallbackOf : WorkerBeginsAdding(w) \/ WorkerEndsAdding(w)
  \/ \E w \in DOMAIN FlagOf : Return(w)
  \/ \E t \in Threads : LockLog(t) \/ UnlockLog(t) \/ Handle(t)

\* A thread that runs reaches its next unlock, wait and test of the flag, and
\* one that keeps asking for the log's mutex gets it in the end.  Fairness of
\* every thread for itself implies this.
Fairness ==
  /\ WF_shutdownVars(WaitForSql)
  /\ SF_shutdownVars(\E w \in DOMAIN FlagOf : Return(w))
  /\ WF_shutdownVars(\E t \in Threads : UnlockLog(t))
  /\ SF_shutdownVars(\E t \in Threads : Handle(t))

ShutdownSpec == ShutdownInit /\ [][ShutdownNext]_shutdownVars /\ Fairness

-----------------------------------------------------------------------------
(* Properties.                                                             *)

\* The callbacks the one handler found registered.
Found == {callbacks[j] : j \in 1 .. handler["main"].from}

\* As long as sigint_handler is called once, the executor is told to stop only
\* when every thread whose callback the handler found, and that gives it
\* statements, has ended: the threads of a part are created after the part
\* they use has added its callback, and the callbacks are run from the last.
ProducersStopFirst ==
  /\ ShutdownTypeOK
  /\ calls = 1 /\ "executor" \in shutdown_flags =>
       \A w \in DOMAIN FlagOf \ {"executor"} :
         FlagOf[w] \in Found => thread[w] = "ended"

\* As long as sigint_handler is called once, the log file is closed after the
\* last thread the handler knows of has ended, so that nothing these threads
\* log while they stop is lost.
LogOutlivesThreads ==
  calls = 1 /\ ~ log_open =>
    \A w \in DOMAIN FlagOf : FlagOf[w] \in Found => thread[w] = "ended"

\* The two ways a shutdown hangs: the handler runs on top of a thread that is
\* inside m_log, and the executor starts to wait after it was signalled.
SelfDeadlock == \E t \in Threads : log_mutex = t /\ handler[t].stage # "none"
LostWakeUp == "executor" \in shutdown_flags /\ thread["executor"] = "waiting"

\* Once sigint_handler has been called the process comes to an end, unless
\* one of those two happens: no order of the joins, of second signals in other
\* threads and of threads that are still being started makes it hang.
ShutdownEnds ==
  calls > 0 ~> process # "running" \/ SelfDeadlock \/ LostWakeUp
=============================================================================
