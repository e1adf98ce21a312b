# A verification model of the OKMX8MM gateway

The repository holds a vehicle data gateway in two generations: Demo2 (a
Cortex-M4 that samples over Modbus and a Cortex-A53 pipeline that writes files)
and Demo3 (an STM32F407 acquisition board, an M4 gateway, and a multi-threaded
A53 data collector). This directory models their own logic in TLA+, checks small
instances with TLC and proves the most important results with TLAPS for
instances of every size.

All paths below are under `src/`; `D3` is `OKMX8MM-Demo3`, `DC` is
`OKMX8MM-Demo3/data-collector-demo3/src`, `D2` is `OKMX8MM-Demo2`.

## 1. Inventory

### 1.1 Components

| Component | Sources | State it keeps | Operations | Module |
| --- | --- | --- | --- | --- |
| MySQL executor and connection | `DC/mysql-executor`, `mysql-config` | ring of SQL strings, mutex, condition variable, shutdown flag, connection | `execute_sql_async`, executor thread, connection test and reconnections, `on_shutdown` | `MysqlExecutor`, `SqlFifo` |
| RPMsg service with CAN, MQTT and status | `DC/bridge`, `can`, `mqtt`, `runtime` | device, enabled outputs, counters, status file | read a frame, store it twice, send CAN, publish MQTT, rewrite the status file | `RpmsgService`, `FrameCodec` |
| File storage and cleaner | `DC/file-storage`, cleaner in `DC/modbus-rtu` | open file of the day, day and month folders, archives | append, roll the oldest day, compress past days | `FileStorage` |
| Modbus reads | `DC/modbus-rtu`, `DC/crc`, `D3/stm32f407/applications/rs485` | bytes on the line, response buffer | set up the UART, request, collect the answer, time out, skip data | `ModbusLink`, `SerialLine` |
| Modbus collector | `DC/modbus-rtu` | per device: next time, list, index, count; next publish time | read what is due, average, save | `ModbusCollector` |
| Public UDP collector | `DC/public` | latest public packet, mutex, `time_synchronized` | receive, update, set the clock | `ModbusCollector` |
| Signal handler | `DC/signal-handler` | table of callbacks, mutex | register, run in reverse order on SIGINT | `Shutdown` |
| Log | `DC/log` | log files, mutex, message counter | write, roll, close | `LogFiles`, `Shutdown` |
| LED controller | `DC/led` | status variables, error flags, blink index and counts | set a status, blink | `LedController` |
| Start-up, configuration, OTA staging | `DC/main.c`, `config`, `ota` | settings; staged package, marker | parse the file, stage, check, start the parts in order | `Startup`, `Shutdown` |
| STM32F407 firmware | `D3/stm32f407` | sequence and pulse counters, mailboxes, receive position | sample, send CAN, answer Modbus | `Demo3Board` |
| Demo3 M4 gateway and protocol | `D3/okmx8mm-m4`, `D3/common` | last sample, RPMsg sequence | poll over RS485, decode, publish | `Demo3Board`, `RegisterCodec`, `FrameCodec` |
| Demo2 M4 acquisition | `D2/m4/demo1` | tick count, current batch, RS485 transport | wait, read the wheel board, batch, print | `M4Acquisition` |
| Demo2 A53 pipeline and its options | `D2/a53/src` | storage file and cursor, outbox, CAN trace, heartbeat, status | parse options, run, check and recover the storage | `A53Pipeline`, `A53Options` |
| Demo2 A53 publishing scripts | `D2/a53/scripts` | position in the file, what was sent | read, send, empty the file | `OutboxPublisher` |
| GPIO and utilities | `DC/gpio`, `util`, `global` | — | set a pin, byte order | byte order in `FrameCodec`; pins not |
| MySQL cleaner | `DC/mysql-cleaner` | — | delete old rows | not modelled |

`OKMX8MM-A53-demo` and `OKMX8MM-M4-demo1` are earlier copies of Demo2 (the M4 part
is identical byte for byte, the A53 part lacks the heartbeat), and
`OKMX8MM-Demo3/data-collector` is an earlier copy of `data-collector-demo3`:
of the files they share only `main.c` and `modbus-rtu.c` differ.
`DC/util/socketcan` is third-party code.

### 1.2 How they interact

`main.c` reads its settings, stages an update, starts the log, the LEDs, the MySQL
executor and the UDP collector, and then either the RPMsg service or the Modbus
collector, each in its own thread. The threads share memory:

- the Modbus collector calls `execute_sql_async` and the executor thread takes
  statements out (mutex and condition variable);
- the UDP thread writes `public_packet`, the Modbus collector copies it (mutex);
  it also sets the system clock, which every schedule reads without one;
- the Modbus collector, or the RPMsg service, appends to the data files; the
  cleaner, a thread of the Modbus collector only, archives and removes them
  (nothing protects the files);
- all of them set the status variables the LED thread shows (no lock), and log
  (mutex);
- SIGINT runs the shutdown callbacks in whatever thread the kernel chooses; each
  sets a flag and joins a thread.

The processors exchange messages: STM32 to A53 or to M4 over RS485 (Modbus),
M4 to A53 over RPMsg, A53 to the outside over CAN, MQTT and MySQL. In Demo2 the
scripts take the files of the A53 program to MQTT and CAN.

### 1.3 What is hard, and what makes each component correct

| Component | Hard behaviour | Correct when |
| --- | --- | --- |
| MySQL executor | several callers, wrap-around, a full ring, a signal without the mutex | it is a bounded FIFO; accepted statements are executed; the shutdown ends |
| RPMsg service | any output fails in the middle, a broker stalls, the process is killed during a rewrite | counters agree with the outputs; outputs can be told apart; a failure spreads to nothing else |
| File storage | two threads on the same files, midnight, a full disk, a lost card, a restart | records are lost only when a day is rolled; the oldest goes first; passes end |
| Modbus reads | late, torn, damaged and merged answers; a UART that fails | answers are given once and in order; the thread ends when it is told to |
| Modbus collector | the clock is set back while schedules are pending | schedules are late by a known bound; records hold their own period |
| UDP collector | a failure with the mutex held; a freed context | the mutex is always released; the packet in a record is whole |
| Shutdown | a signal during the start, in a thread with a mutex, twice | producers stop before what they use; the process ends |
| Log | a kill or failure between two renames | messages stay in order, the newest are kept |
| LEDs | variables changed while a round of the thread runs | every code is shown in full again and again |
| Start-up, OTA | a kill or failure in the staging, temporary files left | a marker names a whole package; a reported update is the one found |
| STM32 and M4 (Demo3) | a request during sampling, answers cut at 50 ms, six frames for three mailboxes, wraps | what is published was sampled; a CAN group is a prefix |
| Demo2 M4 | late bytes in the receiver, ticks missed, the tick count wraps | whole answers in order; batches hold every sample; the pace is bounded |
| A53 pipeline | every write torn, runs killed anywhere | outputs are backed by storage; what is recovered passes the check |
| Scripts | the program appends while a script reads, sends and empties | no whole line is lost but those of the known window |

`PROJECT.json` lists the hazards line by line, with the properties that cover them.
What the reading showed besides, and no property is about, or a property has to make
an exception for:

Losses and leaks of the collector:

- `mysql-executor.c:164`: statements still queued at a shutdown are neither
  executed nor freed (nothing promises more); `:128`, `:134`: the NULL tests of
  the clean-up are inverted; the `MYSQL` structure of a lost connection is never
  freed, and a statement is run although the connection test failed, or on a
  connection whose character set was not set (`MysqlExecutor` has these paths);
- `modbus-rtu.c:230`, `:297`: contexts freed, and a file closed, under the
  cleaner's hands (`Restart` of `FileStorage`); `:590`: the contexts of oil
  devices are never freed; `:679` and `public-udp-collector.c:138`: the pointer to
  the UDP context may be NULL at shutdown;
- `gpio.c:65`: a failed write to a pin leaks its descriptor;
- `led.c`: the shutdown hook of the LEDs is never registered;
- `demo3_rpmsg_linux.c:49`: a device that reported an error is never reopened,
  `demo3_mqtt_linux.c:16`: a reset connection raises SIGPIPE, which nothing
  ignores, and no PINGREQ keeps the connection of 60 s alive (the first two are
  actions of `RpmsgService`, exempted in `FramesAreTaken`);
- `demo3_runtime_status.c:140`: the status file of an earlier process is not removed at
  a start, so until the first write that succeeds, or for ever if none does, it shows
  counts this process has not reached (`Earlier` of `RpmsgService`);
- `demo3_rpmsg_service.c:232`: a sample whose output failed is counted as an
  invalid frame as well (`CountError` models it).

Files:

- `file-storage.c:151`: rolling stops at a month folder without days (what it does
  when nothing at all is free is in section 5); `:65`: a `statfs()` that fails inside
  the loop counts as no space, so a past day may be rolled although there is space
  (`FreeInLoop`), and if it fails every second time while `rm` fails as well, the free
  space never is what it was a round before and the loop does not end (the premise of
  `CleanerReturns`); `:343`: compression stops at the first month without a past day;
- `file-storage.c:423`: one storage lamp for two storages, the last write wins;
  `:412`: a record written in part shifts every later record of a binary file;
- `file-storage.c`: folders are made with mode `0x777`, hexadecimal instead of
  octal, and files with `O_CREAT` and no mode; the cleaner runs in Modbus mode
  only, so in RPMsg mode nothing is ever rolled;
- `log.c:123`: a roll while no file is open closes descriptor 0, which the log then
  gets itself and takes for no file (`CheckSize` of `LogFiles`);
- `demo3_ota.c:44`: a package replaced in place while it is copied gives a mixed
  copy, and nothing syncs the copy before the rename; a package is staged again at
  every start, and the marker of an earlier start stays after a staging that failed
  later (so it names the earlier whole package);
- `storage_writer.c:366` (line 77 is in section 5): nothing is synced, so a power
  loss may keep the cursor and lose the line; the first line of a run that follows a
  torn line is glued to it, and a recovery can then cut whole lines that came after
  the cursor's;
- `publish-mqtt-outbox.sh:106`: lines appended between the last read and the
  emptying are lost; a torn line stops the script at every start; a CAN trace line
  that was cut off can be sent as a shorter frame, or one with other values
  (`send-can-trace.sh:87`).

Lines and numbers:

- `modbus-rtu.c:849` asks with function code 0x04, the STM32F407 accepts 0x03 only
  (`demo3_modbus_codec.c:26`, `main.c:206`): read directly by this collector, the
  board never answers; `ModbusLink` has a slave that answers;
- `modbus-rtu.c:866`: `write()` may return -1, which is added to the count of bytes
  written, and the loop goes on without looking at `shutdown_flag`: while the UART
  fails, the join of `on_shutdown` does not return; what goes out after a failure
  begins before the request. A failing device that is always readable keeps the loops
  at `:887` and `:1001` going in the same way (the premise of `ShutdownStops`);
- `modbus-rtu.c:1032`: what is skipped is read into `dummy_buffer[256]` without a
  limit, also where it is skipped because more than 256 bytes wait (`:918`): the stack
  is overwritten (step `overrun` of `ModbusLink`, which the run reaches);
- `modbus-rtu.c:924`: an answer that comes after its time-out is taken for the
  answer of the next request, so from then on samples are one request late
  (`AnswersInOrder` allows an old answer, never an older one after a newer one);
- `modbus-rtu.c:1074`: `cfmakeraw` undoes the configured data and parity bits
  (`UartCheck`);
- `modbus-rtu.c:713`: the copy of an eight-character train number clears a byte of
  the record's `time_millis`; `public-udp-collector.c:317`: it clears
  `time_synchronized`, so that the clock is set again (`ModbusCollector` has both
  lengths of the number);
- `crc-16.c` indexes its table with a plain `char`, and `util.c` builds a short from
  plain chars: both are right where `char` is unsigned, as on ARM (`NumbersCheck`);
- `demo3_config.c:135`: a `sample_period_ms` of 0 divides by zero later;
  `cli.c`: `2x` is accepted as two cycles;
- `stm32f407/README.md:18` and `:19` speak of six CAN frames and an answer of 57
  bytes: three mailboxes and 50 ms cut both (`CanGroupsArePrefixes`,
  `PublishedWasSampled`);
- `led.c`: sensor 8's code fills its 3 s, so no pause ends it; the index can pass 8
  when a flag is set between the walk and the reset;
- the OTA counters of the status are set once before the loop, so a failure
  after that is never shown.

## 2. Modules

A module takes one component (or two that act on each other) with its state as
variables and one action per step another actor can observe: a lock, a write, a
call that may fail. Every state module has an `MC` module with its small instance;
pure functions are operators, which the `MC` modules compare with reference
definitions in assumptions that TLC evaluates. The type invariant of every module is the
first conjunct of one of its invariants, so that one run and one proof cover both.

### 2.1 `MysqlExecutor` implements `SqlFifo`

`SqlFifo` is what callers may rely on: statements are accepted while there is
room and handed over once, in order. `MysqlExecutor` is the code: `queue_elements`,
`front`, `rear` are the ring of `task_queue_t`; `queue_mutex` has an owner;
`executor`, `producer[p]` and `shutdown` are program counters named after the
next call. `Enqueue` and `Dequeue` are the critical sections, `Wait` is
`pthread_cond_wait` (release and sleep in one step, with spurious wake-ups), a
signal reaches a thread only if it waits. The connection is tested before a
statement, reconnected twice, and may be opened or not, at start-up with and without
`ignore_init_failure`. `accepted` and `taken` are history variables and the
refinement mapping at the same time.

### 2.2 `RpmsgService` and `FrameCodec`

One thread and its environment: frames arrive (intact or damaged, as the CRC
decides), the link and the broker fail, a broker stalls, the process is killed.
`step` is the next call of `run_collector` and `store_sample`. Every write of a
storage, a CAN frame, an MQTT part and each file operation of the status file may
fail; `disk`, `bus` and `stream` hold what came out, `file` and `tmp` the status
file and the temporary file it is renamed from; both may be there from an earlier
process, whole (`Earlier`) and cut off. `FrameCodec` (on `RegisterCodec`)
is the bytes: the RPMsg frame on both sides, the CAN frames, the lengths in an MQTT
packet, the capacity of the payload and the byte order of `util.c`.

### 2.3 `A53Pipeline`, `A53Options` and `OutboxPublisher`

Runs of the Demo2 pipeline that follow each other on the same files. A storage
line is a sequence of `LineBytes` numbered bytes, so that a torn line is a prefix;
the cursor is emptied, then written (in one piece: it is one short write to an empty
file, and a cut one would fail the verification like an empty one). `Recover` is `--recover-storage`,
`CheckPasses` is `--check-storage`. What a start does is decided by its arguments:
`A53Options` is `cli.c` with its configuration files, where a later setting undoes
or completes an earlier one. Sequence numbers wrap at `SeqModulus` (2^32 in the
code). `OutboxPublisher` is the two scripts on a file the program appends to: a
fragment is a whole line, a line without its newline, or less, and what a text
between two newlines means decides what is sent. `MCA53Pipeline` drives in each
behaviour either the program or the scripts.

### 2.4 `ModbusLink` and `SerialLine`

One master and one slave. An answer is a few pieces that arrive on the `uart` in
order, each possibly damaged or lost, early or late; it does not carry the number of
the request. `buffer` is `response_data_buffer`. While `uart_down` holds, no read or
write of the device succeeds: the loop that writes the request stays where it is, and
so do the others if `select()` says there is something to read (`SelectFails` is the
other outcome). More skipped pieces than `dummy_buffer` holds lead to the step
`overrun`, after which the program may do anything and the model does nothing. The CRC
is abstracted to "all pieces of one answer, undamaged". `SerialLine` justifies that:
the table-driven CRC of the collector and the bit-by-bit CRC of the boards agree, one
damaged byte changes them, and `init_uart` always ends with the settings of the
boards.

### 2.5 `FileStorage`

The collecting thread (`CheckDate`, `OpenFile`, `WriteRecord`) and the cleaner
(`Roll`, `Compress`) on one storage, with nothing between them; on the SD card
(`OnSdCard`) rolling first looks for the mount, which may be missing. A day is a
number; a record and an archive take one block each. `torn_clock` records that the
cleaner's midnight was overwritten through the static structure of `localtime()`;
`late` holds the records appended to a file that had already been archived or
removed. The clock is assumed not to go back here.

### 2.6 `ModbusCollector`

The loop of `collect_modbus_rtu_data` and the UDP thread, against a clock that is
`now + offset`. One tick is the smallest interval; the loop, which goes round
every 5 ms, goes round once a tick, and a reading takes up to one tick. A sample is
its number; a public packet is its number in two parts. `StartRound` reads the clock
once, as the code does, so every comparison of the round uses a value that may be
stale. `SetTime` has the three outcomes of `set_time`: refused, set but not saved to
the hardware clock, done. A UDP thread that could not bind leaves a freed context:
what is then read from it is any value.

### 2.7 `Shutdown`

`main` is the next step of the main thread, `thread[w]` where each other thread is
as far as a shutdown can tell: it logs, it adds its callback, it tests its flag, it
ends; the executor may also be between the test and the wait, or in the wait.
`handler[t]` is the frame of `sigint_handler` on thread `t`: the index of the
loop, the length read at its start, and the number of the join within an
`on_shutdown`. `Signal` interrupts the main thread if that does not have the signal
masked, another one otherwise, between any two steps; the interrupted thread keeps
its mutexes. `fire_sigint_handler` is the same frame without the mask, so a signal
can put a second one on top of it, and since the handler never returns the second
replaces the first. An entry of the table may be counted before it is written. What
`pthread_join` answers for the thread itself, a thread that another one waits for, a
thread already joined and a thread never created is in `Join`; joining a thread a
second time is undefined, and the model takes both outcomes, returning and crashing.

### 2.8 `Startup`

`main` from the first line to the running program: `ReadLine` is one turn of the loop
of `demo3_config_load`, which applies a line to the settings, `EndOfFile` its end
(`line_number` is where it has got to), each step of `main` has its early return, and
between `PrepareStatus` and
`CheckSource` an update is staged: the package is copied buffer by buffer into a
temporary file, which is renamed, and a marker is written and renamed in the same
way. Every call may fail, the process may end at any step, `PlacePackage` replaces
the package by a rename at any time, and starts follow each other on what is left.

### 2.9 `LogFiles` and `LedController`

`LogFiles` is `do_rolling` file by file, with every rename, removal and opening
failing, and the process ending between any two of them. `LedController` is the LED
thread cut at every read of a shared variable, with the setters of the other threads
in between; times are the ages of the last event in wake-ups. `LogAndLeds` has both, for
their proofs and for `MCLogLedsAndShutdown`, which drives the log, one of the three
LEDs or `Shutdown` in each behaviour.

### 2.10 `Demo3Board` and `RegisterCodec`

The STM32F407's main loop (sampling with failing inputs, the speed from a 16-bit
counter, a CAN group through the mailboxes, one poll of the Modbus slave) and the M4
that polls it, with a line on which bytes are lost while the loop is busy and an
answer is cut at the time limit of the transmission. `RegisterCodec` is the shared
protocol: what the registers of a sample are and how they are read back.

### 2.11 `M4Acquisition`

The main loop of the Demo2 M4 against the tick interrupt: wait for a tick, one
transaction with the wheel board, parsing, the batch, the console. The loop is blocked
while a request (`UART_WriteBlocking`, `demo1_board_hooks.c:107`) or a console line goes
out: up to `WriteTicks` and `ConsoleTicks` ticks come meanwhile (`PuttingOut`). That the
call waits for every byte is known of the vendor's SDK, which is not in the repository;
8 bytes at 9600 baud take 8.3 ms, 16 or 17 of the ticks of 500 us. Late bytes stay in
the receiver, which holds `FifoPieces`, an overrun drops what follows, and the
difference of two tick counts is taken modulo `TickModulus`.

## 3. Runs

| Run | Instance | Shows |
| --- | --- | --- |
| `executor` | 2 callers x 2 statements, 3 slots (2 usable) | ring, mutex and hand-over are right; refines `SqlFifo`; accepted statements are taken unless a shutdown comes; the only failure of the shutdown is the lost wake-up |
| `executor_lost_wakeup` (violation) | the same | `on_shutdown` need not return |
| `rpmsg` | 2 frames, groups of 2 CAN frames, 4 MQTT parts, two combinations of outputs; codec on words of two bytes of two bits | counters, outputs and status file agree under every failure; no failure but a stalled broker stops the loop; the codecs round-trip |
| `a53` | 3 runs of up to 2 batches, lines of 2 bytes, numbers modulo 3, 7 command lines; 4 appends for the scripts | cursor, nested outputs, recovery, sequence check; the scripts lose nothing unseen; options mean what was given last |
| `a53_torn_tail` (violation) | the same | a torn last line is not always recovered |
| `m4` | 4 tries, answers of 2 pieces, receiver and buffer of 3, batches of 2, ticks modulo 7, 1 tick for a request and for a console line | answers in order, batches complete, the pace bounded |
| `board` | words of 3 bits, 2 channels, 2 mailboxes, ticks modulo 6, 2 samples | samples arrive whole, CAN groups are prefixes, speed and pace are right |
| `storage` | 3 days in 2 months, 3 records in 2 files, an SD card of 3 blocks, 1 restart | records kept, oldest day rolled, the cleaner ends |
| `storage_full_disk` (violation) | the same | a disk without a free block is never rolled |
| `modbus` | a module alone, its clock ahead by 5 or 8 ticks; a gateway and oil sensors, theirs by 4; publish interval 2; 9 ticks, 1 packet, 1 bad reading; on the line 3 requests, answers of 2 pieces, buffers of 3, a UART that fails and recovers at any moment | delays bounded, records right, packet whole, rounds end; order of answers, buffer limit, shutdown |
| `startup` | 3 starts, 2 versions of 2 buffers, files of up to 2 lines (3 with an update) | a marker names a whole package, a reported update is staged, the parts run with what the file says last |
| `log_leds_shutdown` | 4 files, 8 messages; longer LED intervals shortened to 10 of the shortest; both sources, 2 SIGINTs | the log keeps order and the newest; LEDs tell the truth in time; with one call of the handler the parts stop in order, and the process always ends unless the handler waits for itself in `m_log` or the executor's wake-up is lost |

### 3.1 Why the bounds are enough

- Two callers and four statements against two usable slots fill the ring, overflow
  it and take both indices past the end; a third caller adds no new kind of step.
- Two frames let an output fail for one and work for the next; two CAN frames are
  the shortest group that can be cut. The two combinations of outputs pair the
  outputs that share the thread with the status file.
- A torn line needs two bytes; a number wraps within three runs; three runs allow
  a kill, a torn append after it and a recovery. Four appends put torn and open
  fragments before, between and behind whole lines.
- Two pieces are the shortest answer that can be torn; a buffer of three holds an
  answer and a piece of the next, and four pieces overrun it. Four tries of the M4
  complete one batch and begin the next, with a late answer in each, and its tick
  count wraps within a time-out. One tick within a request or a line is the shortest
  time that can be missed; the bound on the pace is reached, and `TriesKeepPace` proves
  it for every `WriteTicks`.
- Words of three bits wrap within two samples, two mailboxes refuse one frame while
  another waits.
- Three days in two months give the cleaner an older day in the same month and an
  older month; three blocks are filled by the records and one archive.
- A clock ahead by 4 or 5 stays within the slack of a publish period for long enough
  to overfill its list (four slots), and with 5 the bound on the end of a period is
  reached (at tick 9, for a single device); one ahead by 8 exceeds the slack. The slack
  is 2 intervals instead of 10 so that both fit into 9 ticks.
- The second SIGINT is the first that another thread can take while the main thread
  joins; a third would only run the same handler in one more thread.
- The third start finds what two interrupted ones left; two versions tell an old
  package from a new one; two lines repeat or contradict a setting.
- Four log files have one that is renamed twice and one that is dropped; eight
  messages fill them. `Sensors` are the first and one that is not next to it; their
  codes are shorter than the shortened intervals, as in the code. `IndexBound` cuts
  off behaviours in which the index of the sensors grows past 8 again and again.

### 3.2 Fairness

- `executor`: weak fairness of each thread's steps, as the kernel schedules every
  runnable thread; a mutex is handed to a waiter that keeps being able to take it
  (strong fairness where several compete); nothing forces a call, a spurious
  wake-up or a SIGINT.
- `rpmsg`: weak fairness of the service thread only; frames, failures and kills
  are not forced.
- `storage`: weak fairness of the cleaner. The calls it makes return; the writer,
  midnight and restarts are not forced. `CleanerReturns` has the premise that
  `statfs()` does not fail again and again for ever: with a failing `rm` the loop need
  not end then.
- `modbus`: weak fairness of the collecting thread and of the handling of a packet
  already received. Time, packets and failures are not forced. The mutex needs no
  more: the UDP thread takes it once per packet, and packets are bounded. On the line,
  weak fairness of the master: `select()` has a time-out, so its waits end; the slave
  owes nothing. A UART may fail and recover at any moment; `ShutdownStops` has the
  premise that it does not fail for ever, since the code does not stop then.
  `MCModbus` runs the line from a state in which the collector sleeps and keeps it
  asleep meanwhile: the two modules share nothing but the thread.
- `log_leds_shutdown`: weak fairness of the LED thread, which sleeps 50 ms at a time;
  no setter is forced. In the shutdown, the threads reach their next unlock and the
  wait of the executor (weak fairness); a thread that keeps asking for the log's mutex
  gets it, and a loop that goes round tests its flag (strong fairness). Signals,
  start-up and failures are not forced.

The other runs check safety only and assume no fairness. Deadlock checking is off
where the bounds or the code end the behaviour (the cfg or its MC module says so);
`storage` runs with it on, for the cleaner never stops.

## 4. Properties

| Property | Says |
| --- | --- |
| `ExecutorIsSound` | types; only the owner of `queue_mutex` is in a critical section; the ring holds exactly the pending statements, in order; a statement is executed once, between its dequeue and its result; the executor waits beside a pending statement only while its signal is still to come |
| `ImplementsFifo` | refinement of `SqlFifo` |
| `ShutdownCompletes` (violated) | the join of `on_shutdown` returns |
| `PendingIsTaken` | an accepted statement is taken unless a shutdown comes |
| `ShutdownCompletesOrIsLost` | the join returns or the wake-up was lost, nothing else |
| `StatusTellsTheTruth` | the counters agree with the disks, `ok` with the error counters |
| `OutputsAreDecodable` | CAN groups follow each other and cut ones are counted; the broker sees whole packets, a cut one is its last |
| `StatusFileIsAPastStatus` | the status file is never torn or ahead: it is what an earlier process left, or a status of this one |
| `FramesAreTaken` | no error ends the loop, and only a stalled broker holds it |
| `CursorDescribesALine`, `OutputsAreNested` | the files of the pipeline agree, and so does its status |
| `RecoveredStoragePassesCheck`, `OutboxHasNoGap` | recovery and sequence check do what they are for |
| `TornTailIsRecoverable` (violated) | a torn last line can be cut off when an earlier record is there |
| `LinesStayUntilSent` | a whole line leaves the outbox only when it was sent, or came after the last read |
| `AnswersInOrder` (of `M4Acquisition`) | whole answers of earlier requests, each once, in order, whatever stays in the receiver |
| `BatchesHoldEverySample`, `PaceIsKept` | no accepted sample misses its batch; a try begins within a bounded number of ticks, those of the request, the time-out and the console line and 6 more |
| `PublishedWasSampled` | what the M4 publishes is one sample the board took |
| `CanGroupsArePrefixes` | a receiver that has a frame of a sample has those before it |
| `SpeedIsMovement`, `SamplesKeepPace` | the speed survives wraps; the slave delays a sample by one poll at most |
| `AnswersInOrder` (of `ModbusLink`), `ShutdownStops` | whole answers once and in order, and in a buffer that holds them, until `dummy_buffer` is overrun; the thread stops, unless it was or the UART fails for ever |
| `RecordsAreKept`, `MidnightCostsOneRecord` | what failures and the race of writer and cleaner can cost, and no more |
| `RollingTakesOldest`, `CleanerReturns` | rolling removes the oldest day, a past one; every pass ends, unless `statfs()` fails now and then for ever |
| `LowSpaceIsRolled` (violated) | rolling that finds too little space and a past day can remove it |
| `SettingTheClockDelaysLittle` | a device is tried, a period ended, within `Slack + 1` intervals and three rounds of readings |
| `RecordsHoldTheirPeriod` | a record holds the samples of its period, as far as the list reaches |
| `PacketIsWhole`, `RoundsEnd` | the mutex does its work and is always released |
| `ProducersStopFirst`, `LogOutlivesThreads` | of the callbacks the handler finds, those of the threads that use a part have run when its own does |
| `ShutdownEnds` | the process ends, but for two known ways to hang |
| `MarkerNamesWholePackage`, `StagedIsReported` | the boot loader finds a whole package; a reported update is the one found at this start |
| `RunsAsConfigured` | a setting is what the last line that gives it a value says, or its default; the parts run with settings the code has a use for |
| `LogKeepsTheNewest`, `MissesOneInterval` | messages stay in order over the files, what is lost is oldest; a failed opening costs one interval |
| `PublicStatusIsTimely`, `CodesAreShown` | the first LED is right up to a wake-up; every code is shown in full again and again |

## 5. Findings

| Run | Code | What |
| --- | --- | --- |
| `executor_lost_wakeup` | `mysql-executor.c:65` | the flag is set and the signal sent without the mutex: between the test and the wait they are lost, and the join never returns |
| `storage_full_disk` | `file-storage.c:67` | rolling stops when the free space is what it was a round before, and the round before the first counts as 0: a disk without a free block is never rolled, in any pass, although the comment at line 72 says that files are deleted when space is low; no record is stored until someone makes room |
| `a53_torn_tail` | `storage_writer.c:77` | the cursor is emptied before it is rewritten: a run that is killed there, or whose write fails, leaves no cursor; when the next run then tears a line, `--recover-storage` refuses, although whole records are there and `D2/a53/README.md:136` promises to cut back to the last of them |

Other disagreements of code and texts are in section 1.3.

## 6. Proofs

Every invariant and every action property that the runs check and do not refute is a
theorem, and so is the safety part of half of the liveness properties: it holds for
every value of the constants that the assumptions allow. Each proof module extends the
modules it is about; where it is about several, their names differ (`CollectorSpec`
and `Spec`, `ShutdownSpec` and `Spec`).

| Module | Theorem | Establishes |
| --- | --- | --- |
| `MysqlExecutorProofs` | `ExecutorCorrect` | `Spec => []ExecutorIsSound`; its parts are `TypeCorrect`, `MutualExclusion`, `CountsCorrect`, `RingCorrect`, `ExecutesLastTaken` |
| | `Refinement` | `Spec => ImplementsFifo` |
| | `SignalsAreSeen` | no signal is missed: who may wait beside a pending statement, and what the join waits for |
| | `ShutdownIsShort` | once the flag is set nothing is taken any more, and every step of the executor is nearer to its end |
| `RpmsgServiceProofs` | `StatusIsTrue`, `OutputsCanBeDecoded` | two invariants of the service |
| | `StatusFileIsOld` | the third, `StatusFileIsAPastStatus`; and that the file, once it is of this process, stays so and its counts never go back |
| | `RoundsAreShort` | a round of `run_collector` takes at most `LongestRound` steps, every one nearer to the next poll |
| | `FrameRoundTrip`, `BusTellsValues`, `NumbersRoundTrip` | what is encoded is decoded, for every width of a byte and number of channels |
| `Demo2Proofs` | `CursorIsRight`, `OutputsAreStored` | the two invariants of the pipeline |
| | `RecoveryIsComplete`, `GapsStopTheRun` | its two action properties |
| | `NoLineIsLost` | `PublisherSpec => []LinesStayUntilSent` |
| | `AnswersComeInOrder`, `NoSampleIsLost`, `TriesKeepPace` | the three invariants of the M4 program |
| `Demo3BoardProofs` | `PublishedIsASample`, `CanSamplesHaveNoHoles`, `SpeedIsRight`, `SamplingKeepsPace` | the four invariants of the board |
| | `CodecRoundTrip` | a sample is read back from its registers, without its time stamp |
| `ModbusProofs` | `ClockDelaysLittle`, `PacketsAreWhole` | the two invariants of the collector |
| | `RecordsAreOfTheirPeriod` | its action property `RecordsHoldTheirPeriod` |
| | `CollectorRoundsAreShort` | a round of the collector takes at most 6 steps for each device and 2 more, and the mutex it waits for is unlocked within 3 |
| | `LinkInvariant`, `OrderedAnswers` | `Spec => []LinkInv`, `Spec => []AnswersInOrder` |
| | `ShutdownIsNear` | with the shutdown flag set the thread is at most `PiecesToCome + Pieces + 3` steps from its end, and only a UART that fails can hold it where it is |
| `FileStorageProofs` | `NoRecordIsLost`, `MidnightLosesOne` | the two invariants of the storage |
| | `OldestGoesFirst` | its action property `RollingTakesOldest` |
| `StartAndStopProofs` | `ProducersStop`, `LogClosesLast` | the two invariants of the shutdown |
| | `JoinsAreNoCircle` | however many signals come, some call of the handler can go on, or waits for a thread that is told to stop and joins nobody |
| | `StartupTypes`, `PackageIsWhole`, `ReportedIsStaged` | types and two invariants of the start |
| | `StartsAsConfigured` | its invariant `RunsAsConfigured` |
| `LogAndLedProofs` | `NewestAreKept`, `FailuresCostAnInterval` | the two properties of the log |
| | `FirstLedIsTimely` | `PublicStatusIsTimely` of the first LED |

What the proofs take from the constants is in the `ASSUME` of each module, and TLC
evaluates it in the runs: sizes, counts and intervals are natural numbers, those the
code divides by are not 0; configurations are sequences of known devices, at least
one; a configuration file is a finite sequence of lines (`ConfigFilesAssumption`); a
buffer holds an answer (`BufferAssumption`, `CapacityAssumption`); the tick count of
the Demo2 M4 does not go round within a time-out (`TickAssumption`), that of the STM32
not within a sampling period and the longest poll, and the numbers of a sample fit
their types (`RangesAssumption`); a word is two bytes and the channels come in pairs
(`FrameCodec`).

The arguments. No property is inductive; each invariant below is named in the head of
its module, and TLC checked it on the instance of the run before it was proved.

- *Executor.* `RingHoldsPending` speaks of two indices modulo the queue size and is
  not inductive: the indices alone do not say how often they have gone round. The
  inductive `QueueInv` ties them to the lengths of the histories (`SlotsFollowCounts`:
  the n-th accepted statement lies in slot `(n - 1) % QueueSize`). `QueueEnqueue` and
  `QueueDequeue` show that the two steps that touch the ring preserve it; `ThreadInv`
  adds the program counters. `RingCorrect` then needs only arithmetic modulo the
  queue size. `Refinement` maps `Enqueue` to `Accept`, `Dequeue` to `Take` and every
  other step to a stutter. Waiting beside a pending statement is right only while its
  producer is between the unlock and the signal (`NoSignalIsMissed`), and after the
  flag is set the executor has a fixed number of steps to its end (`StepsLeft`).
- *RPMsg service.* What is on the disks, the bus and the stream is of the sample being
  handed out or of earlier ones, how far that one has got is in `step` and `sent`
  (`DiskInv`, `BusInv`, `StreamInv`), and every counter is bounded by the frames taken
  (`CounterInv`, which also shows that none leaves its range). `OkInv` says what the
  status claims at each step, and `FileInv` that the temporary file holds the status
  when it is renamed. That the counts in the file never go back follows from the same
  invariant: what is renamed is the status of this moment, which no earlier one exceeds.
  `StepsToPoll` is where the loop stands on its longest way round,
  the frames and packets already sent taken off.
- *Pipeline.* A recovery cuts the storage file, so `PipelineInv` counts only the lines
  the cursor would keep (`OutputsAreBacked`) and the line on its way from one output to
  the next; the line that the next cursor describes is whole when the old cursor is
  emptied (`LineIsWritten`).
- *Outbox.* The file is emptied only at its end, so `PublisherInv` says that the whole
  lines a script has passed were sent, but for the one it is sending
  (`PassedAreSent`). A text ends at the first newline (`TextEnds`), so no whole line
  is hidden in one.
- *Demo2 M4.* The pieces of all answers have one order, which what is read, what waits
  in the receiver and what the wheel board still sends keep (`PiecesInOrder`,
  `SlaveIsBehind`); `BatchesAreFilled` says which samples each buffer has; the time at
  every step of the loop is bounded together with the tick not yet waited for
  (`WaitIsShort`, `ReadIsShort`); a try is longest when its request takes `WriteTicks` and
  its answer does not come (`Slowest`).
- *Board.* `BoardInv` has what each point of the loop knows of the time
  (`ClockIsTrue`, `PollIsShort`), that every piece on the line is of a sample that was
  taken (`LineHasSamples`), and that the frames of a sample that wait in the mailboxes
  follow those the bus has seen without a hole, none twice (`FramesFollow`,
  `FramesDiffer`).
- *Collector.* The list of a device is a ring: slot `i` holds the newest sample of the
  period whose number has remainder `i` (`ListsAreRight`). The halves of the public
  packet differ only while the UDP thread holds the lock, and it does not while a
  record is made (`PacketInv`). For each schedule `TimesInv` says how far ahead it may
  be and how old its last attempt, while the clock is right and while it is ahead,
  before and after its turn in the round; the round began at a time at which the clock
  was ahead by what it is now or was before it was set. The attempt to prove the bound
  on the end of a period found it one tick too small: a clock 5 ticks ahead at boot
  reaches the bound as it stands now, and the run has that clock since.
- *Link.* `AnswersInOrder` says nothing of what is still on its way. `LinkInv` adds
  that nothing is on its way that the slave has not sent (`SentPieces`), that what was
  read was sent before what was not (`ReadBefore`), and that what may still be
  delivered is newer than what was (`NewerAnswers`). A delivered answer was read to
  its last piece, so the slave had done with it.
- *Step counts of both.* `StepsToSleep`, `StepsToUnlock` and `StepsToStop` are bounded
  numbers that every step of the thread makes smaller and no step of another one makes
  larger: a reading that fails, a packet that comes, an answer that is torn only
  shorten the way. The count of the line has the pieces that may still be read in it,
  since skipping goes on while they come, and before the request has gone out the
  pieces of the answer it may have. `HeldByTheUart` names the steps at which a device
  that fails keeps the master.
- *Storage.* A record is lost when an archived data file is removed, so `StorageInv`
  adds that before that step the archive has every record that was not appended after
  it (`ArchivedBeforeRemoval`: a writer that appends in between makes its record
  late), and that a file being archived is still there, so that a torn archive costs
  nothing. `MidnightInv` adds what the cleaner knows of the clock: its limit is not
  later than today while `localtime()` is read in one piece, so the files it touches
  are of past days and the check of the date closes them before a second record; the
  folder it removes was the oldest, and only today's is ever added. That it is the
  folder of a day rests on the minimum and maximum of non-empty sets of days.
- *Shutdown.* The log's callback is the first entry of the table and the executor's the
  second, and everything else follows them, whoever adds it and whether its entry is
  written or only counted (`CallbacksInv`, from the order in which `main` starts the
  threads, `StartOrder`). `OneHandler` says that the first call is the main thread's
  and what it has come past (`Stopping`): behind its index every entry is written and
  every thread it joins has ended; a thread is waited for only by the join the handler
  is at, so a join that is refused finds a thread that has ended. With a second call
  none of this need hold, which is why the two properties are about one.
  `JoinsAreNoCircle` is about any number of calls: a call claims the thread it joins,
  so no thread is waited for twice; it has set the flag of that thread before; and the
  main thread, which is in the handler first, is waited for by nobody. Threads that all
  wait for one another would need one more thread than there are.
- *Start-up.* That a renamed file is whole is known only from where `main` stands:
  `StagingInv` says what has been done before each step of the staging. A line is read
  in a step, so that `ConfigInv` needs no induction of its own: `SetBy` says which of
  the lines read so far gave a setting its value, and one line more changes it as
  `ApplyLine` changes the setting.
- *Log and LEDs.* `LogInv` adds what the loop of `do_rolling` relies on: the file it
  renames to is gone while nothing has failed, and how far file 0 has grown, and the
  log gone without a file, since the last check. `LedInv` relates the age the thread
  keeps to the silence it stands for: they differ only while the LED shows a silence
  or a packet is being noted.
- *Codecs.* A number is its low part plus the base times the rest (`DivMod`), signs
  included; the rest is bookkeeping over the fields.

Model-checked only:

- liveness: the prover has no support for fairness and `ENABLED`. Of `FramesAreTaken`,
  `RoundsEnd` and `ShutdownStops` everything else is proved: a count of the steps that
  are left, which the fair steps decrease and the others do not increase
  (`RoundsAreShort`, `CollectorRoundsAreShort`, `ShutdownIsNear`). Of
  `ShutdownCompletesOrIsLost` it is `ShutdownIsShort`, of `PendingIsTaken` that no signal
  is missed, of `ShutdownEnds` that the joins wait in no circle. `CleanerReturns` and
  `CodesAreShown` have no such theorem: how long a pass of the cleaner may be depends on
  what another thread writes meanwhile, and how long a round of the LEDs on where the
  codes stood when the flags were changed last;
- `LowSpaceIsRolled`, which the run refutes;
- what the recursive definitions compute (`RemainingLength`, the CRCs, the option
  parser), on bounded inputs, by the assumptions of the MC modules.

## 7. What is not modelled

- The MySQL cleaner: never started in `data-collector-demo3` (`main.c` 277-282 is
  commented out); only the earlier collector starts it (`main.c:206`).
- The writes of GPIO pins: there is no state a property could be about, except the
  leaked descriptors of section 1.3.
- libsocketcan (third-party), the board files and the simulation of the Demo2 M4
  (generated, or for a host), and the earlier copies of modelled files.
- Of the Modbus collector: alarm and error codes, the setting of its LEDs and the end
  of its loop; of the UDP collector: its context at shutdown.
- The clean-up of the executor after a start that failed, after which the program
  exits.
- Durability across a power loss: no code syncs what it promises to keep, except the
  data files every 10 s, which changes nothing the model has.
- Contents: registers, SQL and JSON text.
- The time `hwclock` takes while the UDP thread holds the mutex: the collecting
  thread waits for it, which `SettingTheClockDelaysLittle` does not count.

## 8. What could come next

Every component of section 1.1 that keeps state, other than the MySQL cleaner, has its
module, and every safety property its theorem. What is left to prove is a count of
steps for the cleaner (the days and files that a pass may still come to, and the space
that was free before) and for the LED thread; the options of `A53Options`, read option
by option in steps, as `Startup` reads its lines; and that a shutdown hangs only where
the executor's wake-up was lost or the handler waits in `m_log`, of which
`JoinsAreNoCircle` is the larger part. If `last_bytes_free` begins at a value that no
free space has, `LowSpaceIsRolled` holds and can be proved beside the other properties
of the storage.
