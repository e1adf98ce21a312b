------------------------------ MODULE LogFiles ------------------------------
(***************************************************************************)
(* The log of the Demo3 collector (data-collector-demo3/src/log/log.c):    *)
(* messages are appended to file 0; every so many messages, and when the   *)
(* program starts, file 0 is looked at, and if it is too large the files   *)
(* are renamed one by one, the oldest being removed.                       *)
(*                                                                         *)
(* m_log holds a mutex all through, so messages of different threads do    *)
(* not mix; but the process may end between any two renames, and opening,  *)
(* renaming and removing may each fail.  The size of a file is counted in  *)
(* messages; messages below the level of the log are not messages here.    *)
(***************************************************************************)
EXTENDS Integers, Sequences, FiniteSets

CONSTANTS RollingCount,   \* files, 5
          RollingSize,    \* size above which file 0 is rolled, 5 MB
          CheckInterval,  \* log_ticks above which the size is looked at, 100
          MaxMessages     \* bound: messages logged

ASSUME CountAssumption == RollingCount \in Nat \ {0}
ASSUME SizeAssumption == {RollingSize, CheckInterval, MaxMessages} \subseteq Nat

VARIABLES
  at,          \* where the logging thread is; "off" while no process runs
  starting,    \* whether this is the rolling of m_log_init
  i,           \* the file the loop of do_rolling is at
  fd_is_file,  \* current_log_fd # 0
  stdin,       \* what descriptor 0 stands for
  log_ticks,
  files,       \* the messages in each file, Absent if it does not exist
  messages,    \* history: messages logged
  logged,      \* history: those that were written to file 0
  missed,      \* history: messages since the last one written to file 0
  not_opened,  \* history: openings that failed since then
  clean        \* history: no remove, rename or opening has failed

history == <<messages, logged, missed, not_opened, clean>>
vars == <<at, starting, i, fd_is_file, stdin, log_ticks, files, history>>

Indices == 0 .. RollingCount - 1
Absent == <<0>>   \* no message has number 0
Exists(k) == files[k] # Absent

\* Descriptor 0 is a file of the log when a number is given.
Closed == -1
Elsewhere == -2   \* the terminal, /dev/null, or a file that was removed

TypeOK ==
  /\ at \in {"off", "idle", "check", "roll", "reopen", "write"}
  /\ starting \in BOOLEAN
  /\ i \in -1 .. RollingCount - 1
  /\ fd_is_file \in BOOLEAN
  /\ stdin \in Indices \cup {Closed, Elsewhere}
  /\ log_ticks \in 0 .. CheckInterval + 1
  /\ files \in [Indices -> Seq(0 .. MaxMessages)]
  /\ messages \in 0 .. MaxMessages
  /\ logged \subseteq 1 .. messages

Init ==
  /\ at = "off" /\ starting = FALSE /\ i = 0
  /\ fd_is_file = FALSE /\ stdin = Elsewhere /\ log_ticks = 0
  /\ files = [k \in Indices |-> Absent]
  /\ messages = 0 /\ logged = {} /\ missed = 0 /\ not_opened = 0
  /\ clean = TRUE

\* m_log_init, up to its rolling.
StartRun ==
  /\ at = "off"
  /\ at' = "check" /\ starting' = TRUE
  /\ fd_is_file' = FALSE /\ stdin' = Elsewhere /\ log_ticks' = 0
  /\ missed' = 0 /\ not_opened' = 0
  /\ UNCHANGED <<i, files, messages, logged, clean>>

\* do_m_log, up to the rolling check.
Message ==
  /\ at = "idle" /\ messages < MaxMessages
  /\ messages' = messages + 1
  /\ IF log_ticks > CheckInterval
     THEN log_ticks' = 0 /\ at' = "check"
     ELSE log_ticks' = log_ticks + 1 /\ at' = "write"
  /\ UNCHANGED <<starting, i, fd_is_file, stdin, files, logged, missed,
                 not_opened, clean>>

\* do_rolling returns: to m_log_init, whose failure ends the program, or to
\* do_m_log, which does not look at the result.
Returns(ok) == /\ at' = IF ~starting THEN "write" ELSE IF ok THEN "idle"
                                                     ELSE "off"
               /\ starting' = FALSE

OpenFails == /\ not_opened' = not_opened + 1
             /\ clean' = FALSE

\* File k as open(O_CREAT) leaves it.
Created(k) == IF Exists(k) THEN files[k] ELSE <<>>

\* Mutant: a log that lost its file is taken for one that has it.
HasFileAlways == TRUE

\* A rolling that finds nothing to do still opens a file if there is none.
HasFile == fd_is_file

\* open, fstat and close of file 0; if it is too large the current file is
\* closed, whatever descriptor that is.
CheckSize ==
  /\ at = "check"
  /\ \/ /\ OpenFails
        /\ Returns(FALSE)
        /\ UNCHANGED <<i, stdin, files>>
     \/ /\ files' = [files EXCEPT ![0] = Created(0)]
        /\ IF Len(Created(0)) > RollingSize
           THEN /\ at' = "roll"
                /\ i' = RollingCount - 1
                /\ stdin' = IF fd_is_file THEN stdin ELSE Closed
                /\ UNCHANGED starting
           ELSE /\ IF HasFile THEN Returns(TRUE)
                           ELSE at' = "reopen" /\ UNCHANGED starting
                /\ UNCHANGED <<i, stdin>>
        /\ UNCHANGED <<not_opened, clean>>
  /\ UNCHANGED <<fd_is_file, log_ticks, messages, logged, missed>>

\* What descriptor 0 stands for when file k has become file n, or is gone.
StdinMoved(k, n) == CASE stdin = k -> n [] stdin = n -> Elsewhere
                      [] OTHER -> stdin

\* Mutant: the loop goes up, from file 0.
NextIndexUp == IF i + 1 = RollingCount THEN -1 ELSE i + 1

NextIndex == i - 1

\* One round of the loop: the oldest file is removed, another one renamed;
\* a failure of either is ignored.
RollFile ==
  /\ at = "roll" /\ i >= 0
  /\ \/ /\ Exists(i)
        /\ files' = IF i = RollingCount - 1
                    THEN [files EXCEPT ![i] = Absent]
                    ELSE [files EXCEPT ![i] = Absent, ![i + 1] = files[i]]
        /\ stdin' = StdinMoved(i, IF i = RollingCount - 1 THEN Elsewhere
                                                          ELSE i + 1)
        /\ UNCHANGED clean
     \/ /\ Exists(i)
        /\ clean' = FALSE
        /\ UNCHANGED <<files, stdin>>
     \/ /\ ~Exists(i)
        /\ UNCHANGED <<files, stdin, clean>>
  /\ i' = NextIndex
  /\ UNCHANGED <<at, starting, fd_is_file, log_ticks, messages, logged,
                 missed, not_opened>>

EndRoll ==
  /\ at = "roll" /\ i < 0
  /\ at' = "reopen"
  /\ UNCHANGED <<starting, i, fd_is_file, stdin, log_ticks, files, history>>

\* File 0 is opened anew; the lowest descriptor that is free may be 0, which
\* is then taken for no file, but written to.
Reopen ==
  /\ at = "reopen"
  /\ \/ /\ OpenFails
        /\ fd_is_file' = FALSE
        /\ Returns(FALSE)
        /\ UNCHANGED <<stdin, files>>
     \/ /\ files' = [files EXCEPT ![0] = Created(0)]
        /\ fd_is_file' = (stdin # Closed)
        /\ stdin' = IF stdin = Closed THEN 0 ELSE stdin
        /\ Returns(TRUE)
        /\ UNCHANGED <<not_opened, clean>>
  /\ UNCHANGED <<i, log_ticks, messages, logged, missed>>

\* write: to file 0, to whatever descriptor 0 stands for, or to nothing.
Write ==
  LET target == IF fd_is_file THEN 0 ELSE stdin
  IN
  /\ at = "write"
  /\ at' = "idle"
  /\ files' = IF target \in Indices
              THEN [files EXCEPT ![target] = Append(@, messages)] ELSE files
  /\ IF target = 0
     THEN /\ logged' = logged \cup {messages}
          /\ missed' = 0 /\ not_opened' = 0
     ELSE /\ missed' = missed + 1
          /\ UNCHANGED <<logged, not_opened>>
  /\ UNCHANGED <<starting, i, fd_is_file, stdin, log_ticks, messages, clean>>

\* The process ends, or is killed in the middle of the renaming.
End ==
  /\ at # "off"
  /\ at' = "off"
  /\ UNCHANGED <<starting, i, fd_is_file, stdin, log_ticks, files, history>>

Next == \/ StartRun \/ Message \/ CheckSize \/ RollFile \/ EndRoll \/ Reopen
        \/ Write \/ End

Spec == Init /\ [][Next]_vars

-----------------------------------------------------------------------------

In(k) == IF Exists(k) THEN logged \cap {files[k][m] : m \in DOMAIN files[k]}
                      ELSE {}

\* Rolling, killed at any point, failing at any point and repeated, keeps the
\* messages in order: those in a file are older than those in the files of
\* lower number.  As long as no call fails, what is lost is the oldest, and
\* no file grows beyond the limit by more than one check interval, however
\* often the program is restarted.
LogKeepsTheNewest ==
  /\ TypeOK
  /\ \A j \in Indices : \A k \in 0 .. j - 1 :
       \A old \in In(j), new \in In(k) : old < new
  /\ clean =>
       LET kept == UNION {In(k) : k \in Indices}
       IN  /\ \A lost \in logged \ kept : \A m \in kept : lost < m
           /\ \A k \in Indices :
                Cardinality(In(k)) <= RollingSize + CheckInterval + 2

\* An opening that fails after the file was closed leaves the log without a
\* file; it is found again at the next check, so each such failure costs the
\* messages of one interval at most (do_rolling, lines 147 to 151).
MissesOneInterval == missed <= not_opened * (CheckInterval + 2)
=============================================================================
