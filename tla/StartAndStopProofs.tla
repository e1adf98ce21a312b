------------------------- MODULE StartAndStopProofs -------------------------
(***************************************************************************)
(* Startup for packages of any size, any versions, configuration files and *)
(* number of starts: what the boot loader finds is a whole package, and a  *)
(* staged update is reported only when there is one.  Neither follows from *)
(* its own: that the renamed file is whole is known only from where main   *)
(* stands, so the invariant says what has been done before each step of    *)
(* the staging.                                                            *)
(*                                                                         *)
(* Shutdown for any sources and any number of signals: the order in which  *)
(* the callbacks were added, whoever adds them and whenever the signal     *)
(* comes, and what the one handler has come past.                          *)
(***************************************************************************)
EXTENDS Startup, Shutdown, SequenceTheorems, FiniteSetTheorems, TLAPS


\* The package has been copied, and the copy put in place.
CopiedAt == {"close", "rename"}
InPlaceAt == {"open_marker", "write_marker", "rename_marker"}
\* Steps at which ota_staged may be set: the marker has been put in place.
ReportedAt == {"source", "power", "mysql", "serial", "threads", "running"}

StagingInv ==
  /\ pc \in CopiedAt \cup InPlaceAt \cup {"copy"} => reading \in Versions
  /\ pc = "copy" => staged_tmp.version = reading
  /\ pc \in CopiedAt => staged_tmp = Package(reading)
  /\ pc \in InPlaceAt => staged = Package(reading)
  /\ pc = "rename_marker" => marker_tmp = "whole"
  /\ pc # "off" /\ ota_staged => pc \in ReportedAt
  /\ StagedIsReported

StartupInv == TypeOK /\ MarkerNamesWholePackage /\ StagingInv

\* What the first n lines of the file leave of a setting: the value of the
\* last of them that has its key.
LastOf(file, key, n, i) ==
  /\ i \in 1 .. n /\ file[i].key = key
  /\ \A j \in 1 .. n : file[j].key = key => j <= i
SetBy(file, key, n, value) ==
  \/ /\ \A i \in 1 .. n : file[i].key # key
     /\ value = Defaults[key]
  \/ \E i \in 1 .. n : LastOf(file, key, n, i) /\ value = file[i].value

\* Steps of the staging, and steps after the check of the source.
StagingAt == CopiedAt \cup InPlaceAt
               \cup {"directories", "open", "copy", "remove"}
CheckedAt == {"power", "mysql", "serial", "threads", "running"}

\* The settings after the lines read so far, and what the steps of main have
\* found them to be.
ConfigInv ==
  pc # "off" =>
    /\ pc # "config" => line_number = Len(lines)
    /\ \A i \in 1 .. line_number : ~Refused(lines[i])
    /\ \A key \in Keys \ {"status_enabled"} :
         SetBy(lines, key, line_number, config[key])
    /\ pc \in StagingAt \/ ota_staged => config.ota_enabled = "yes"
    /\ pc \in CheckedAt => config.source \in {"modbus", "rpmsg"}
    /\ pc \in {"threads", "running"} /\ config.source = "modbus" =>
         config.serial_device # "" /\ config.baudrate \in KnownSpeeds

ConfigTypes ==
  /\ lines \in Seq(Lines) /\ line_number \in 0 .. Len(lines)
  /\ config \in [Keys -> Values]

LEMMA DefaultsType == Defaults \in [Keys -> Values]
<1>1. Defaults = [key \in Keys |-> Defaults[key]]
  BY DEF Defaults, Keys
<1>2. \A key \in Keys : Defaults[key] \in Values
  BY DEF Values, Range, Keys
<1>. QED
  BY <1>1, <1>2

LEMMA ApplyLineType ==
  ASSUME NEW settings \in [Keys -> Values], NEW line \in Lines
  PROVE  ApplyLine(settings, line) \in [Keys -> Values]
  BY DEF ApplyLine, Values

\* All of main but the reading of the file and status_enabled.
LEMMA SettingsRest ==
  ASSUME Next
  PROVE  \/ Start \/ ReadLine \/ EndOfFile \/ PrepareStatus
         \/ UNCHANGED <<lines, line_number, config>>
  BY DEF Next, MainStep, Goto, PlacePackage, InitLog, PrepareDirectories,
         OpenPackage, CopyChunk, CloseStaged, RenameStaged, RemoveTemporary,
         OpenMarker, WriteMarker, RenameMarker, CheckSource, PowerCycle,
         InitMysqlLibrary, CheckSerial, StartThreads, End

LEMMA ConfigTypesNext ==
  ASSUME ConfigTypes, [Next]_vars
  PROVE  ConfigTypes'
<1>1. CASE UNCHANGED <<lines, line_number, config>>
  BY <1>1 DEF ConfigTypes
<1>2. CASE Start
  <2>1. lines' \in Seq(Lines) /\ line_number' = 0 /\ config' = Defaults
    BY <1>2, ConfigFilesAssumption DEF Start
  <2>2. Len(lines') \in Nat
    BY <2>1, LenProperties
  <2>. QED
    BY <2>1, <2>2, DefaultsType DEF ConfigTypes
<1>3. CASE ReadLine
  <2>1. /\ line_number + 1 \in 1 .. Len(lines) /\ UNCHANGED lines
        /\ line_number' = line_number + 1 /\ Len(lines) \in Nat
    BY <1>3, LenProperties DEF ReadLine, ConfigTypes
  <2>2. PICK line \in Lines : line = lines[line_number + 1]
    BY <2>1, ElementOfSeq DEF ConfigTypes
  <2>3. config' = config \/ config' = ApplyLine(config, line)
    BY <1>3, <2>2 DEF ReadLine
  <2>. QED
    BY <2>1, <2>3, ApplyLineType DEF ConfigTypes
<1>4. CASE EndOfFile
  BY <1>4 DEF EndOfFile, Goto, ConfigTypes
<1>5. CASE PrepareStatus
  <2>1. "no" \in Values
    <3>1. Defaults.ota_enabled = "no" /\ "ota_enabled" \in DOMAIN Defaults
      BY DEF Defaults
    <3>. QED
      BY <3>1 DEF Values, Range
  <2>2. config' \in {config, [config EXCEPT !.status_enabled = "no"]}
    BY <1>5 DEF PrepareStatus
  <2>3. config' \in [Keys -> Values]
    BY <2>1, <2>2 DEF ConfigTypes
  <2>. QED
    BY <1>5, <2>3 DEF PrepareStatus, Goto, ConfigTypes
<1>. QED
  BY <1>1, <1>2, <1>3, <1>4, <1>5, SettingsRest DEF vars

LEMMA PackageType ==
  ASSUME NEW v \in Versions
  PROVE  Package(v) \in Files /\ Package(v) # NoFile
  BY ChunksAssumption, VersionsAssumption
     DEF Package, Part, Files, NoFile, NoVersion

LEMMA StartupInvInit == Init => StartupInv
<1>1. NoFile \in Files
  BY ChunksAssumption DEF NoFile, Files
<1>2. Init => TypeOK
  <2>1. Init => ota_staged \in BOOLEAN
    BY Zenon DEF Init
  <2>. QED
    BY <1>1, <2>1, StartsAssumption, DefaultsType
       DEF Init, TypeOK, MarkerStates
<1>3. Init => MarkerNamesWholePackage /\ StagingInv
  BY DEF Init, MarkerNamesWholePackage, StagingInv, StagedIsReported,
         CopiedAt, InPlaceAt
<1>. QED
  BY <1>2, <1>3 DEF StartupInv

\* A step that touches neither the files of the update nor ota_staged, and
\* enters no step of the staging but those that presume nothing.
LEMMA Elsewhere ==
  ASSUME StartupInv,
         UNCHANGED <<reading, staged, staged_tmp, marker, marker_tmp>>,
         package' \in Versions \cup {NoVersion}, starts' \in 0 .. MaxStarts,
         ConfigTypes',
         \/ UNCHANGED <<pc, ota_staged>>
         \/ /\ pc' \in {"off", "config", "log", "status", "directories",
                       "open"}
            /\ pc' # "off" => ota_staged' = FALSE
            /\ ota_staged' \in BOOLEAN
         \/ /\ pc' \in ReportedAt
            /\ pc # "off"
            /\ UNCHANGED ota_staged
  PROVE  StartupInv'
<1>1. TypeOK'
  BY DEF StartupInv, TypeOK, ConfigTypes, ReportedAt
<1>2. MarkerNamesWholePackage'
  BY DEF StartupInv, MarkerNamesWholePackage
<1>3. StagingInv'
  BY DEF StartupInv, StagingInv, StagedIsReported, CopiedAt, InPlaceAt,
         ReportedAt
<1>. QED
  BY <1>1, <1>2, <1>3 DEF StartupInv

\* What a step of the staging proper has to keep.
LEMMA Staging ==
  ASSUME StartupInv, Next,
         OpenPackage \/ CopyChunk \/ CloseStaged \/ RenameStaged
           \/ RemoveTemporary \/ OpenMarker \/ WriteMarker \/ RenameMarker
  PROVE  StartupInv'
<1>. USE ChunksAssumption DEF StartupInv, TypeOK, StagingInv, StagedIsReported,
         MarkerNamesWholePackage, Goto, CopiedAt, InPlaceAt, ReportedAt,
         MarkerStates
<1>1. CASE OpenPackage
  BY <1>1, VersionsAssumption DEF OpenPackage, Part, Files
<1>2. CASE CopyChunk
  <2>1. staged_tmp \in Files /\ staged_tmp.version = reading
    BY <1>2 DEF CopyChunk, MoreToRead
  <2>2. CASE staged_tmp.chunks < Chunks
    BY <1>2, <2>1, <2>2 DEF CopyChunk, MoreToRead, CopyFailure, Files, Part
  <2>3. CASE staged_tmp.chunks = Chunks
    <3>1. staged_tmp = Package(reading)
      BY <2>1, <2>3 DEF Files, Package, Part
    <3>. QED
      BY <1>2, <2>3, <3>1 DEF CopyChunk, MoreToRead, Files
  <2>. QED
    BY <2>1, <2>2, <2>3 DEF Files
<1>3. CASE CloseStaged
  BY <1>3 DEF CloseStaged, Files, Part, Package
<1>4. CASE RenameStaged
  BY <1>4, PackageType DEF RenameStaged, Files, NoFile
<1>5. CASE RemoveTemporary
  BY <1>5 DEF RemoveTemporary, Files, NoFile
<1>6. CASE OpenMarker
  BY <1>6 DEF OpenMarker
<1>7. CASE WriteMarker
  BY <1>7 DEF WriteMarker
<1>8. CASE RenameMarker
  BY <1>8, PackageType DEF RenameMarker, StagedAfter
<1>. QED
  BY <1>1, <1>2, <1>3, <1>4, <1>5, <1>6, <1>7, <1>8

LEMMA StartupInvNext == StartupInv /\ [Next]_vars => StartupInv'
<1>. SUFFICES ASSUME StartupInv, [Next]_vars PROVE StartupInv'
  OBVIOUS
<1>0. ConfigTypes'
  BY ConfigTypesNext DEF StartupInv, TypeOK, ConfigTypes
<1>1. CASE UNCHANGED vars
  BY <1>1 DEF vars, files, StartupInv, TypeOK, MarkerNamesWholePackage,
              StagingInv,
              StagedIsReported
<1>2. CASE PlacePackage
  BY <1>0, <1>2, Elsewhere DEF PlacePackage, StartupInv, TypeOK
<1>3. CASE Start
  <2>1. pc' \in {"off", "config"} /\ ota_staged' = FALSE
    BY <1>3 DEF Start
  <2>2. starts' \in 0 .. MaxStarts
    BY <1>3, StartsAssumption DEF Start, StartupInv, TypeOK
  <2>. QED
    BY <1>0, <1>3, <2>1, <2>2, Elsewhere DEF Start, files, StartupInv, TypeOK
<1>4. CASE ReadLine \/ EndOfFile \/ InitLog \/ PrepareStatus
             \/ PrepareDirectories \/ End
  <2>. USE DEF ReadLine, EndOfFile, InitLog, PrepareStatus,
               PrepareDirectories, End, Goto
  <2>1. pc # "off" /\ UNCHANGED <<reading, ota_staged, files, starts>>
    BY <1>4
  <2>2. \/ pc' = "off"
        \/ /\ pc \in {"config", "log", "status", "directories"}
           /\ pc' \in {"config", "log", "status", "directories", "open",
                       "source"}
    BY <1>4
  <2>3. pc \in {"config", "log", "status", "directories"} =>
          ota_staged = FALSE
    BY DEF StartupInv, TypeOK, StagingInv, ReportedAt
  <2>. QED
    BY <1>0, <2>1, <2>2, <2>3, Elsewhere
       DEF files, StartupInv, TypeOK, ReportedAt
<1>5. CASE CheckSource \/ PowerCycle \/ InitMysqlLibrary \/ CheckSerial
             \/ StartThreads
  <2>1. pc # "off" /\ UNCHANGED <<reading, ota_staged, files, starts>>
    BY <1>5 DEF CheckSource, PowerCycle, InitMysqlLibrary, CheckSerial,
                StartThreads, Goto
  <2>2. pc' = "off" \/ pc' \in ReportedAt
    BY <1>5 DEF CheckSource, PowerCycle, InitMysqlLibrary, CheckSerial,
                StartThreads, Goto, ReportedAt
  <2>. QED
    BY <1>0, <2>1, <2>2, Elsewhere DEF files, StartupInv, TypeOK
<1>6. CASE OpenPackage \/ CopyChunk \/ CloseStaged \/ RenameStaged
             \/ RemoveTemporary \/ OpenMarker \/ WriteMarker \/ RenameMarker
  BY <1>6, Staging DEF Next, MainStep
<1>. QED
  BY <1>1, <1>2, <1>3, <1>4, <1>5, <1>6 DEF Next, MainStep

LEMMA StartupInvAlways == Spec => []StartupInv
  BY StartupInvInit, StartupInvNext, PTL DEF Spec

\* Every variable keeps its type: the steps of main, and the states in which
\* a start may leave the files of the update.
THEOREM StartupTypes == Spec => []TypeOK
  BY StartupInvAlways, PTL DEF StartupInv

\* Whenever a start ends or fails, what the boot loader finds is a whole
\* package: a marker is whole and never stands alone.
THEOREM PackageIsWhole == Spec => []MarkerNamesWholePackage
  BY StartupInvAlways, PTL DEF StartupInv

\* A collector that reports a staged update has staged the package it read
\* at this start, marker included.
THEOREM ReportedIsStaged == Spec => []StagedIsReported
<1>1. StartupInv => StagedIsReported
  BY DEF StartupInv, StagingInv
<1>. QED
  BY <1>1, StartupInvAlways, PTL

LEMMA ConfigInvInit == Init => ConfigInv
  BY DEF Init, ConfigInv

\* One more line: its own setting is what it says, the others are as before.
LEMMA OneLineMore ==
  ASSUME NEW file \in Seq(Lines), NEW n \in Nat, n + 1 \in 1 .. Len(file),
         NEW settings \in [Keys -> Values], NEW key \in Keys,
         SetBy(file, key, n, settings[key])
  PROVE  SetBy(file, key, n + 1, ApplyLine(settings, file[n + 1])[key])
<1>. DEFINE line == file[n + 1]
<1>1. 1 .. (n + 1) = (1 .. n) \cup {n + 1}
  OBVIOUS
<1>2. CASE line.key = key
  <2>1. ApplyLine(settings, line)[key] = line.value
    BY <1>2 DEF ApplyLine
  <2>2. LastOf(file, key, n + 1, n + 1)
    BY <1>2 DEF LastOf
  <2>. QED
    BY <2>1, <2>2 DEF SetBy
<1>3. CASE line.key # key
  <2>1. ApplyLine(settings, line)[key] = settings[key]
    BY <1>3 DEF ApplyLine
  <2>2. ASSUME NEW i \in 1 .. n, LastOf(file, key, n, i)
        PROVE  LastOf(file, key, n + 1, i)
    BY <1>1, <1>3, <2>2 DEF LastOf
  <2>. QED
    BY <1>1, <1>3, <2>1, <2>2 DEF SetBy
<1>. QED
  BY <1>2, <1>3

LEMMA ConfigInvNext ==
  ASSUME StartupInv, ConfigInv, [Next]_vars
  PROVE  ConfigInv'
<1>. USE DEF StartupInv, TypeOK
<1>1. CASE UNCHANGED <<pc, lines, line_number, config, ota_staged>>
  BY <1>1 DEF ConfigInv
<1>2. CASE Start
  <2>1. \/ pc' = "off"
        \/ /\ pc' = "config" /\ line_number' = 0 /\ config' = Defaults
           /\ ota_staged' = FALSE
    BY <1>2 DEF Start
  <2>2. ASSUME NEW key, NEW file
        PROVE  SetBy(file, key, 0, Defaults[key])
    BY DEF SetBy
  <2>3. CASE pc' = "config"
    <3>1. \A key \in Keys : SetBy(lines', key, 0, Defaults[key])
      BY <2>2
    <3>2. \A i \in 1 .. 0 : ~Refused(lines'[i])
      OBVIOUS
    <3>3. ConfigInv' <=>
            /\ \A i \in 1 .. line_number' : ~Refused(lines'[i])
            /\ \A key \in Keys \ {"status_enabled"} :
                 SetBy(lines', key, line_number', config'[key])
      BY <2>1, <2>3 DEF ConfigInv, StagingAt, CopiedAt, InPlaceAt, CheckedAt
    <3>. QED
      BY <2>1, <2>3, <3>1, <3>2, <3>3
  <2>. QED
    BY <2>1, <2>3 DEF ConfigInv
<1>3. CASE ReadLine
  <2>. DEFINE line == lines[line_number + 1]
  <2>1. CASE Refused(line)
    BY <1>3, <2>1 DEF ReadLine, ConfigInv
  <2>2. CASE ~Refused(line)
    <3>1. /\ pc = "config" /\ pc' = "config" /\ UNCHANGED lines
          /\ config' = ApplyLine(config, line) /\ ota_staged = FALSE
          /\ UNCHANGED ota_staged
          /\ line_number' = line_number + 1
      BY <1>3, <2>2 DEF ReadLine, StagingInv, ReportedAt
    <3>2. line_number + 1 \in 1 .. Len(lines) /\ line_number \in Nat
      BY <1>3, LenProperties DEF ReadLine
    <3>3. \A i \in 1 .. line_number + 1 : ~Refused(lines[i])
      BY <2>2, <3>1, <3>2 DEF ConfigInv
    <3>4. \A key \in Keys \ {"status_enabled"} :
            SetBy(lines, key, line_number + 1, ApplyLine(config, line)[key])
      BY <3>1, <3>2, OneLineMore DEF ConfigInv
    <3>. QED
      BY <3>1, <3>3, <3>4
         DEF ConfigInv, StagingAt, CopiedAt, InPlaceAt, CheckedAt
  <2>. QED
    BY <2>1, <2>2
<1>4. CASE EndOfFile
  BY <1>4 DEF EndOfFile, Goto, ConfigInv, StagingAt, CopiedAt, InPlaceAt,
              CheckedAt, StagingInv, ReportedAt
<1>5. CASE PrepareStatus
  <2>1. \A key \in Keys \ {"status_enabled"} : config'[key] = config[key]
    BY <1>5 DEF PrepareStatus
  <2>2. pc = "status" /\ pc' \in {"directories", "source"}
        /\ (pc' = "directories" => config.ota_enabled = "yes")
        /\ UNCHANGED <<lines, line_number, ota_staged>>
    BY <1>5 DEF PrepareStatus, Goto, Enabled
  <2>3. "ota_enabled" \in Keys
    BY DEF Keys, Defaults
  <2>. QED
    BY <2>1, <2>2, <2>3
       DEF ConfigInv, StagingAt, CopiedAt, InPlaceAt, CheckedAt
<1>6. CASE UNCHANGED <<lines, line_number, config>>
  <2>1. CASE PlacePackage
    BY <2>1, <1>1 DEF PlacePackage
  <2>2. CASE InitLog \/ PrepareDirectories \/ End
    BY <1>6, <2>2 DEF InitLog, PrepareDirectories, End, Goto, ConfigInv,
                StagingAt, CopiedAt, InPlaceAt, CheckedAt
  <2>3. CASE OpenPackage \/ CopyChunk \/ CloseStaged \/ RenameStaged
               \/ RemoveTemporary \/ OpenMarker \/ WriteMarker
               \/ RenameMarker
    <3>1. pc \in StagingAt /\ pc' \in StagingAt \cup {"source"}
      BY <2>3 DEF OpenPackage, CopyChunk, CloseStaged, RenameStaged,
                  RemoveTemporary, OpenMarker, WriteMarker, RenameMarker,
                  Goto, CopyFailure, StagingAt, CopiedAt, InPlaceAt
    <3>. QED
      BY <1>6, <3>1 DEF ConfigInv, StagingAt, CopiedAt, InPlaceAt, CheckedAt
  <2>4. CASE CheckSource \/ PowerCycle \/ InitMysqlLibrary \/ CheckSerial
               \/ StartThreads
    BY <1>6, <2>4 DEF CheckSource, PowerCycle, InitMysqlLibrary, CheckSerial,
                StartThreads, Goto, ConfigInv, StagingAt, CopiedAt,
                InPlaceAt, CheckedAt
  <2>. QED
    BY <1>2, <1>3, <1>4, <1>5, <2>1, <2>2, <2>3, <2>4, <1>1
       DEF Next, MainStep, vars
<1>. QED
  BY <1>2, <1>3, <1>4, <1>5, <1>6, SettingsRest DEF vars

LEMMA ConfigInvAlways == Spec => [](StartupInv /\ ConfigInv)
  BY StartupInvInit, StartupInvNext, ConfigInvInit, ConfigInvNext, PTL
     DEF Spec

LEMMA LastOfIsLast ==
  ASSUME NEW key \in Keys, lines \in Seq(Lines), NEW value,
         SetBy(lines, key, Len(lines), value)
  PROVE  value = LastValue(key)
<1>. DEFINE set == {i \in DOMAIN lines : lines[i].key = key}
<1>1. DOMAIN lines = 1 .. Len(lines) /\ Len(lines) \in Nat
  BY LenProperties
<1>2. CASE \A i \in 1 .. Len(lines) : lines[i].key # key
  BY <1>1, <1>2 DEF SetBy, LastOf, LastValue
<1>3. ASSUME NEW i \in 1 .. Len(lines), LastOf(lines, key, Len(lines), i)
      PROVE  set # {} /\ Max(set) = i
  <2>1. i \in set /\ \A j \in set : i >= j
    BY <1>1, <1>3 DEF LastOf
  <2>2. \A x \in set : (\A y \in set : x >= y) => x = i
    BY <1>1, <2>1
  <2>. QED
    BY <2>1, <2>2 DEF Max
<1>. QED
  BY <1>2, <1>3 DEF SetBy, LastValue

\* However the file orders and repeats its lines, the parts of the program
\* run with the value each setting was given last, and with settings that
\* the code has a use for.
THEOREM StartsAsConfigured == Spec => []RunsAsConfigured
<1>1. StartupInv /\ ConfigInv => RunsAsConfigured
  <2>. SUFFICES ASSUME StartupInv, ConfigInv, pc = "running"
                PROVE  RunsAsConfigured
    BY DEF RunsAsConfigured, StartupInv
  <2>. USE DEF StartupInv, TypeOK
  <2>1. line_number = Len(lines) /\ DOMAIN lines = 1 .. Len(lines)
    BY LenProperties DEF ConfigInv
  <2>2. \A key \in Keys \ {"status_enabled"} : config[key] = LastValue(key)
    BY <2>1, LastOfIsLast DEF ConfigInv
  <2>3. {"source", "serial_device", "baudrate", "ota_enabled"}
          \subseteq Keys \ {"status_enabled"}
    BY DEF Keys, Defaults
  <2>4. config.source \in {"modbus", "rpmsg"}
        /\ (config.source = "modbus" =>
              config.serial_device # "" /\ config.baudrate \in KnownSpeeds)
        /\ (ota_staged => config.ota_enabled = "yes")
    BY DEF ConfigInv, CheckedAt
  <2>5. \A i \in DOMAIN lines : ~Refused(lines[i])
    BY <2>1 DEF ConfigInv
  <2>. QED
    BY <2>2, <2>3, <2>4, <2>5 DEF RunsAsConfigured
<1>. QED
  BY <1>1, ConfigInvAlways, PTL

-----------------------------------------------------------------------------
(* Shutdown.                                                               *)

Stages == {"none", "announce", "call", "join", "joining", "joined"}
JoinStages == {"join", "joining", "joined"}
Handlers == [stage : Stages, i : Nat, k : Nat, from : Nat, masked : BOOLEAN]

ThreadTypes ==
  /\ source \in Sources /\ process \in {"running", "exited", "crashed"}
  /\ main \in {"init_log", "add_executor", "executor", "udp", "source",
               "loop", "error"}
  /\ thread \in [Workers -> {"none", "start", "add", "run", "tested",
                             "waiting", "ended"}]
  /\ {callback_mutex, log_mutex} \subseteq Threads \cup {Nobody}
  /\ shutdown_flags \subseteq DOMAIN JoinedBy
  /\ joiner \in [Workers -> Threads \cup {Nobody}]
  /\ calls \in Nat

\* No thread exists before main has come to it, nor the cleaner before the
\* collecting thread has.
StartOrder ==
  /\ main \in {"init_log", "add_executor", "executor"} =>
       \A w \in Workers : thread[w] = "none"
  /\ main = "udp" => \A w \in Workers \ {"executor"} : thread[w] = "none"
  /\ main = "source" =>
       \A w \in {"collector", "cleaner", "rpmsg"} : thread[w] = "none"
  /\ thread["collector"] \in {"none", "start"} => thread["cleaner"] = "none"
  /\ thread["udp"] \in {"none", "start", "run", "ended"}
  /\ thread["collector"] \in {"none", "start", "add", "run", "ended"}

\* How many callbacks have been added at most, one of them perhaps in part.
MainAdded == CASE main = "init_log" -> 0
               [] main = "add_executor" -> 1
               [] OTHER -> 2
UdpAdded == IF thread["udp"] \in {"none", "start"} THEN 0 ELSE 1
CollectorAdded ==
  IF thread["collector"] \in {"none", "start", "add"} THEN 0 ELSE 1
Adding == IF callback_mutex = Nobody THEN 0 ELSE 1

\* The log's callback is the first, the executor's the second, and the others
\* follow; only the last may be unwritten, while somebody is adding it.
CallbacksInv ==
  /\ callbacks \in Seq(Callbacks \cup {"unset"})
  /\ Len(callbacks) <= MainAdded + UdpAdded + CollectorAdded + Adding
  /\ main \in {"init_log", "add_executor"} =>
       Len(callbacks) = MainAdded + Adding
  /\ main \in {"executor", "udp", "source", "loop"} => Len(callbacks) >= 2
  /\ (\E w \in Workers : thread[w] # "none") =>
       Len(callbacks) >= 2 + Adding
  /\ callback_mutex # Nobody =>
       /\ Len(callbacks) >= 1 /\ callbacks[Len(callbacks)] = "unset"
       /\ \/ callback_mutex = "main" /\ main \in {"init_log", "add_executor"}
          \/ callback_mutex = "udp" /\ thread["udp"] = "start"
          \/ callback_mutex = "collector" /\ thread["collector"] = "add"
  /\ \A j \in 1 .. Len(callbacks) :
       /\ callbacks[j] = "log" => j = 1
       /\ callbacks[j] = "executor" => j = 2
       /\ callbacks[j] \in {"udp", "modbus"} => j >= 3
       /\ callbacks[j] = "unset" => j = Len(callbacks)
                                    /\ callback_mutex # Nobody

HandlerIsRight(h) ==
  /\ h \in Handlers
  /\ h.i <= h.from /\ h.from <= Len(callbacks)
  /\ h.stage \in JoinStages =>
       /\ h.i >= 1 /\ callbacks[h.i] \in DOMAIN JoinedBy
       /\ LET n == Len(JoinedBy[callbacks[h.i]])
          IN  IF h.stage = "joined" THEN h.k = n + 1 ELSE h.k \in 1 .. n

HandlersInv ==
  /\ handler \in [Threads -> Handlers]
  /\ \A t \in Threads : HandlerIsRight(handler[t])

NothingStopped ==
  /\ shutdown_flags = {} /\ log_open
  /\ \A w \in Workers : joiner[w] = Nobody

\* The first n threads a callback joins have ended.
JoinedFirst(callback, n) ==
  \A m \in 1 .. Len(JoinedBy[callback]) :
    m <= n => thread[JoinedBy[callback][m]] = "ended"

\* What the handler has come past.
Stopping(h) ==
  /\ h.stage \in {"announce", "call"} \cup JoinStages
  /\ h.stage = "announce" => h.i = 0 /\ h.from = 0 /\ NothingStopped
  /\ \A j \in 1 .. Len(callbacks) :
       j > h.i /\ j <= h.from =>
         /\ callbacks[j] # "unset"
         /\ callbacks[j] \in DOMAIN JoinedBy => JoinedFirst(callbacks[j], 2)
  /\ h.stage \in JoinStages => JoinedFirst(callbacks[h.i], h.k - 1)
  /\ \A w \in Workers :
       joiner[w] # Nobody =>
         \/ thread[w] = "ended"
         \/ h.stage = "joining" /\ w = JoinedBy[callbacks[h.i]][h.k]
  /\ "executor" \in shutdown_flags => h.i <= 2
  /\ ~ log_open => h.i = 0

\* The first call of sigint_handler is main's.
OneHandler ==
  /\ calls = 0 => NothingStopped /\ \A t \in Threads : handler[t] = NotCalled
  /\ calls = 1 => /\ Stopping(handler["main"])
                  /\ \A w \in Workers : handler[w] = NotCalled

ShutdownInv == ThreadTypes /\ StartOrder /\ CallbacksInv /\ HandlersInv
                 /\ OneHandler

LEMMA ThreadNames ==
  /\ Workers \subseteq Threads /\ "main" \in Threads /\ "main" \notin Workers
  /\ \A t \in Threads : t = "main" \/ t \in Workers
  /\ Nobody \notin Threads
  BY DEF Threads, Workers, Nobody

LEMMA JoinedByIs ==
  /\ DOMAIN JoinedBy = {"executor", "udp", "modbus"}
  /\ Callbacks = {"log", "executor", "udp", "modbus"}
  /\ Len(JoinedBy["udp"]) = 1 /\ JoinedBy["udp"][1] = "udp"
  /\ Len(JoinedBy["executor"]) = 1 /\ JoinedBy["executor"][1] = "executor"
  /\ Len(JoinedBy["modbus"]) = 2 /\ JoinedBy["modbus"][1] = "collector"
  /\ JoinedBy["modbus"][2] = "cleaner"
  BY DEF JoinedBy, Callbacks

LEMMA JoineesAreWorkers ==
  ASSUME NEW c \in DOMAIN JoinedBy
  PROVE  /\ Len(JoinedBy[c]) \in 1 .. 2
         /\ \A m \in 1 .. Len(JoinedBy[c]) : JoinedBy[c][m] \in Workers
<1>1. CASE c = "modbus"
  BY <1>1, JoinedByIs DEF Workers
<1>2. CASE c \in {"udp", "executor"}
  BY <1>2, JoinedByIs DEF Workers
<1> QED
  BY <1>1, <1>2, JoinedByIs

LEMMA FlagOfIs ==
  /\ DOMAIN FlagOf = {"executor", "udp", "collector", "cleaner"}
  /\ FlagOf["executor"] = "executor" /\ FlagOf["udp"] = "udp"
  /\ FlagOf["collector"] = "modbus" /\ FlagOf["cleaner"] = "modbus"
  /\ DOMAIN FlagOf \subseteq Workers
  BY DEF FlagOf, Workers

LEMMA MainTables ==
  /\ DOMAIN MainCallback = {"init_log", "add_executor"}
  /\ MainCallback["init_log"] = "log"
  /\ MainCallback["add_executor"] = "executor"
  /\ After["init_log"] = "add_executor" /\ After["add_executor"] = "executor"
  /\ After["executor"] = "udp" /\ After["udp"] = "source"
  /\ After["source"] = "loop"
  /\ DOMAIN CallbackOf = {"udp", "collector"}
  /\ CallbackOf["udp"] = "udp" /\ CallbackOf["collector"] = "modbus"
  BY DEF MainCallback, After, CallbackOf

LEMMA FourCallbacks == Cardinality(Callbacks) = 4
<1>1. /\ IsFiniteSet({"log"}) /\ Cardinality({"log"}) = 1
  BY FS_Singleton
<1>2. /\ IsFiniteSet({"log", "executor"})
      /\ Cardinality({"log", "executor"}) = 2
  <2>1. /\ {"log", "executor"} = {"log"} \cup {"executor"}
        /\ "executor" \notin {"log"}
    OBVIOUS
  <2> QED
    BY <1>1, <2>1, FS_AddElement
<1>3. /\ IsFiniteSet({"log", "executor", "udp"})
      /\ Cardinality({"log", "executor", "udp"}) = 3
  <2>1. /\ {"log", "executor", "udp"} = {"log", "executor"} \cup {"udp"}
        /\ "udp" \notin {"log", "executor"}
    OBVIOUS
  <2> QED
    BY <1>2, <2>1, FS_AddElement
<1>4. Cardinality({"log", "executor", "udp", "modbus"}) = 4
  <2>1. /\ {"log", "executor", "udp", "modbus"}
             = {"log", "executor", "udp"} \cup {"modbus"}
        /\ "modbus" \notin {"log", "executor", "udp"}
    OBVIOUS
  <2> QED
    BY <1>3, <2>1, FS_AddElement
<1> QED
  BY <1>4, JoinedByIs

\* What the actions do to the threads and the callbacks.
Rests == UNCHANGED <<source, main, thread, callbacks, callback_mutex>>

\* A thread goes on, or returns.
Moves ==
  /\ \E w \in DOMAIN FlagOf, next \in {"run", "tested", "waiting", "ended"} :
       /\ thread[w] \in {"run", "tested", "waiting"}
       /\ thread' = [thread EXCEPT ![w] = next]
       /\ w \in {"udp", "collector"} => next = "ended"
  /\ UNCHANGED <<source, main, callbacks, callback_mutex>>

LEMMA ShutdownSteps ==
  ASSUME [ShutdownNext]_shutdownVars
  PROVE  \/ Rests \/ Moves \/ MainBeginsAdding \/ MainEndsAdding
         \/ CreateThread \/ StartFails \/ InitCollector
         \/ \E w \in {"udp", "collector"} :
              WorkerBeginsAdding(w) \/ WorkerEndsAdding(w)
<1>1. CASE GiveUp \/ Fire \/ Signal \/ UNCHANGED shutdownVars
  BY <1>1 DEF GiveUp, Fire, Signal, shutdownVars, startup, locks, Rests
<1>2. ASSUME NEW t \in Threads, LockLog(t) \/ UnlockLog(t)
      PROVE  Rests
  BY <1>2 DEF LockLog, UnlockLog, startup, Rests
<1>3. ASSUME NEW t \in Threads, Handle(t)
      PROVE  Rests \/ Moves
  <2>1. CASE SetFlag(t)
    <3>1. "executor" \in DOMAIN FlagOf
      BY FlagOfIs
    <3> QED
      BY <2>1, <3>1 DEF SetFlag, startup, locks, Rests, Moves
  <2> QED
    BY <1>3, <2>1 DEF Handle, Announce, LeaveHandler, CloseLog, Join, Joined,
                      NextCallback, startup, locks, Rests
<1>4. CASE TestFlag \/ WaitForSql \/ WakeUp
  <2>1. "executor" \in DOMAIN FlagOf
    BY FlagOfIs
  <2> QED
    BY <1>4, <2>1 DEF TestFlag, WaitForSql, WakeUp, startup, locks, Moves
<1>5. ASSUME NEW w \in DOMAIN FlagOf, Return(w)
      PROVE  Moves
  BY <1>5 DEF Return, startup, locks, Moves
<1> QED
  BY <1>1, <1>2, <1>3, <1>4, <1>5, MainTables DEF ShutdownNext, Main

LEMMA CreatedIs ==
  /\ main = "executor" => NextThread = "executor"
  /\ main = "udp" => NextThread = "udp"
  /\ main = "source" => NextThread \in {"collector", "rpmsg"}
  BY DEF NextThread

LEMMA ShutdownInitTypes ==
  ASSUME ShutdownInit
  PROVE  ThreadTypes /\ StartOrder
<1>1. ThreadTypes
  BY DEF ShutdownInit, ThreadTypes
<1>2. StartOrder
  BY DEF ShutdownInit, StartOrder, Workers
<1> QED
  BY <1>1, <1>2

LEMMA ThreadTypesNext ==
  ASSUME ThreadTypes, HandlersInv, [ShutdownNext]_shutdownVars
  PROVE  ThreadTypes'
<1> USE DEF startup, locks
<1>1. CASE MainBeginsAdding
  BY <1>1, ThreadNames DEF MainBeginsAdding, BeginAdding, ThreadTypes
<1>2. CASE MainEndsAdding
  <2>1. callback_mutex' \in {callback_mutex, Nobody}
    BY <1>2 DEF MainEndsAdding, EndAdding
  <2>2. main' \in {"add_executor", "executor"}
    BY <1>2, MainTables DEF MainEndsAdding
  <2> QED
    BY <1>2, <2>1, <2>2 DEF MainEndsAdding, ThreadTypes
<1>3. CASE CreateThread
  <2>1. NextThread \in Workers
    BY <1>3, CreatedIs DEF CreateThread, Workers
  <2>2. Starts(NextThread) \in {"start", "run"}
    BY DEF Starts
  <2>3. main' \in {"udp", "source", "loop"}
    BY <1>3, MainTables DEF CreateThread
  <2> QED
    BY <1>3, <2>1, <2>2, <2>3 DEF CreateThread, ThreadTypes
<1>4. CASE StartFails
  BY <1>4 DEF StartFails, ThreadTypes
<1>5. CASE GiveUp
  BY <1>5 DEF GiveUp, ThreadTypes
<1>6. CASE Fire
  BY <1>6 DEF Fire, ThreadTypes
<1>7. CASE InitCollector
  <2>1. thread' \in [Workers -> {"none", "start", "add", "run", "tested",
                                 "waiting", "ended"}]
    BY <1>7 DEF InitCollector, ThreadTypes
  <2>2. process' \in {"running", "exited", "crashed"}
    BY <1>7 DEF InitCollector, ThreadTypes
  <2> QED
    BY <1>7, <2>1, <2>2 DEF InitCollector, ThreadTypes
<1>8. CASE TestFlag \/ WaitForSql \/ WakeUp
  BY <1>8 DEF TestFlag, WaitForSql, WakeUp, ThreadTypes
<1>9. CASE Signal
  <2>1. PICK t \in Threads : log_mutex' \in {log_mutex, t}
    BY <1>9, ThreadNames DEF Signal
  <2>2. calls' \in Nat
    BY <1>9 DEF Signal, ThreadTypes
  <2> QED
    BY <1>9, <2>1, <2>2 DEF Signal, ThreadTypes
<1>10. ASSUME NEW w \in DOMAIN CallbackOf,
              WorkerBeginsAdding(w) \/ WorkerEndsAdding(w)
       PROVE  ThreadTypes'
  <2>1. w \in Workers /\ w \in Threads
    BY MainTables, ThreadNames DEF Workers
  <2>2. callback_mutex' \in {callback_mutex, Nobody, w}
    BY <1>10 DEF WorkerBeginsAdding, WorkerEndsAdding, BeginAdding, EndAdding
  <2>3. thread' \in [Workers -> {"none", "start", "add", "run", "tested",
                                 "waiting", "ended"}]
    BY <1>10 DEF WorkerBeginsAdding, WorkerEndsAdding, ThreadTypes
  <2> QED
    BY <1>10, <2>1, <2>2, <2>3
       DEF WorkerBeginsAdding, WorkerEndsAdding, ThreadTypes
<1>11. ASSUME NEW w \in DOMAIN FlagOf, Return(w)
       PROVE  ThreadTypes'
  BY <1>11 DEF Return, ThreadTypes
<1>12. ASSUME NEW t \in Threads, LockLog(t) \/ UnlockLog(t)
       PROVE  ThreadTypes'
  BY <1>12 DEF LockLog, UnlockLog, ThreadTypes
<1>13. ASSUME NEW t \in Threads, Handle(t)
       PROVE  ThreadTypes'
  <2>1. CASE Announce(t) \/ CloseLog(t) \/ Joined(t) \/ NextCallback(t)
    BY <2>1 DEF Announce, CloseLog, Joined, NextCallback, ThreadTypes
  <2>2. CASE LeaveHandler(t)
    BY <2>2 DEF LeaveHandler, ThreadTypes
  <2>3. CASE SetFlag(t)
    <3>1. thread' \in [Workers -> {"none", "start", "add", "run", "tested",
                                   "waiting", "ended"}]
      BY <2>3 DEF SetFlag, ThreadTypes
    <3>2. shutdown_flags' \subseteq DOMAIN JoinedBy
      BY <2>3 DEF SetFlag, ThreadTypes
    <3> QED
      BY <2>3, <3>1, <3>2 DEF SetFlag, ThreadTypes
  <2>4. CASE Join(t)
    <3>1. process' \in {process, "crashed"}
      BY <2>4 DEF Join
    <3>2. joiner' \in [Workers -> Threads \cup {Nobody}]
      BY <2>4 DEF Join, ThreadTypes
    <3> QED
      BY <2>4, <3>1, <3>2 DEF Join, ThreadTypes
  <2> QED
    BY <1>13, <2>1, <2>2, <2>3, <2>4 DEF Handle
<1>14. CASE UNCHANGED shutdownVars
  BY <1>14 DEF shutdownVars, ThreadTypes
<1> QED
  BY <1>1, <1>2, <1>3, <1>4, <1>5, <1>6, <1>7, <1>8, <1>9, <1>10, <1>11,
     <1>12, <1>13, <1>14 DEF ShutdownNext, Main

LEMMA StartOrderNext ==
  ASSUME ThreadTypes, StartOrder, [ShutdownNext]_shutdownVars
  PROVE  StartOrder'
<1>1. CASE Rests
  BY <1>1 DEF Rests, StartOrder
<1>2. CASE Moves
  BY <1>2 DEF Moves, StartOrder, ThreadTypes, Workers
<1>3. CASE MainBeginsAdding
  BY <1>3 DEF MainBeginsAdding, startup, StartOrder
<1>4. CASE MainEndsAdding
  <2>1. main \in {"init_log", "add_executor"}
        /\ main' \in {"add_executor", "executor"} /\ thread' = thread
    BY <1>4, MainTables DEF MainEndsAdding
  <2> QED
    BY <2>1 DEF StartOrder
<1>5. CASE CreateThread
  <2>1. /\ thread' = [thread EXCEPT ![NextThread] = Starts(NextThread)]
        /\ thread \in [Workers -> {"none", "start", "add", "run", "tested",
                                   "waiting", "ended"}]
    BY <1>5 DEF CreateThread, ThreadTypes
  <2>2. CASE main = "executor"
    <3>1. NextThread = "executor" /\ main' = "udp"
      BY <1>5, <2>2, CreatedIs, MainTables DEF CreateThread
    <3> QED
      BY <2>1, <2>2, <3>1 DEF StartOrder, Workers
  <2>3. CASE main = "udp"
    <3>1. NextThread = "udp" /\ main' = "source" /\ Starts("udp") = "start"
      BY <1>5, <2>3, CreatedIs, MainTables DEF CreateThread, Starts
    <3> QED
      BY <2>1, <2>3, <3>1 DEF StartOrder, Workers
  <2>4. CASE main = "source"
    <3>1. NextThread \in {"collector", "rpmsg"} /\ main' = "loop"
          /\ Starts("collector") = "start"
      BY <1>5, <2>4, CreatedIs, MainTables DEF CreateThread, Starts
    <3> QED
      BY <2>1, <2>4, <3>1 DEF StartOrder, Workers
  <2> QED
    BY <1>5, <2>2, <2>3, <2>4 DEF CreateThread
<1>6. CASE StartFails
  BY <1>6 DEF StartFails, StartOrder
<1>7. CASE InitCollector
  <2>1. CASE thread' = thread
    BY <1>7, <2>1 DEF InitCollector, startup, StartOrder
  <2>2. ASSUME NEW cleaner \in {"run", "none"},
               thread' = [thread EXCEPT !["collector"] = "add",
                                        !["cleaner"] = cleaner]
        PROVE  StartOrder'
    BY <1>7, <2>2 DEF InitCollector, startup, StartOrder, ThreadTypes, Workers
  <2> QED
    BY <1>7, <2>1, <2>2 DEF InitCollector
<1>8. ASSUME NEW w \in {"udp", "collector"},
             WorkerBeginsAdding(w) \/ WorkerEndsAdding(w)
      PROVE  StartOrder'
  <2>1. CASE WorkerBeginsAdding(w)
    BY <2>1 DEF WorkerBeginsAdding, startup, StartOrder
  <2>2. CASE WorkerEndsAdding(w)
    <3>1. main' = main /\ thread[w] \in {"start", "add"}
          /\ thread' \in {[thread EXCEPT ![w] = next] :
                            next \in {"run", "ended"}}
          /\ (w = "collector" => thread[w] = "add")
      BY <2>2 DEF WorkerEndsAdding, Adds, startup
    <3> QED
      BY <3>1 DEF StartOrder, ThreadTypes, Workers
  <2> QED
    BY <1>8, <2>1, <2>2
<1> QED
  BY <1>1, <1>2, <1>3, <1>4, <1>5, <1>6, <1>7, <1>8, ShutdownSteps

-----------------------------------------------------------------------------
(* The table of callbacks.                                                 *)

LEMMA CallbacksInit ==
  ASSUME ShutdownInit
  PROVE  CallbacksInv
<1>1. callbacks = <<>> /\ main = "init_log" /\ callback_mutex = Nobody
      /\ thread["udp"] = "none" /\ thread["collector"] = "none"
      /\ \A w \in Workers : thread[w] = "none"
  BY DEF ShutdownInit, Workers
<1>2. MainAdded = 0 /\ UdpAdded = 0 /\ CollectorAdded = 0 /\ Adding = 0
  BY <1>1 DEF MainAdded, UdpAdded, CollectorAdded, Adding
<1> QED
  BY <1>1, <1>2 DEF CallbacksInv

LEMMA Counts ==
  /\ MainAdded \in 0 .. 2 /\ UdpAdded \in 0 .. 1 /\ CollectorAdded \in 0 .. 1
  /\ Adding \in 0 .. 1
  /\ main = "init_log" => MainAdded = 0
  /\ main = "add_executor" => MainAdded = 1
  /\ main \notin {"init_log", "add_executor"} => MainAdded = 2
  BY DEF MainAdded, UdpAdded, CollectorAdded, Adding

\* A thread takes the mutex and makes room for a callback.
LEMMA BeginAddingKeeps ==
  ASSUME ThreadTypes, StartOrder, CallbacksInv, NEW t \in Threads,
         BeginAdding(t), UNCHANGED <<main, thread>>,
         \/ t = "main" /\ main \in {"init_log", "add_executor"}
         \/ t = "udp" /\ thread["udp"] = "start"
         \/ t = "collector" /\ thread["collector"] = "add"
  PROVE  CallbacksInv'
<1> DEFINE n == Len(callbacks)
<1>1. /\ callback_mutex = Nobody /\ callback_mutex' = t /\ t # Nobody
      /\ callbacks' = Append(callbacks, "unset")
      /\ callbacks \in Seq(Callbacks \cup {"unset"})
  BY ThreadNames DEF BeginAdding, CallbacksInv
<1>2. /\ callbacks' \in Seq(Callbacks \cup {"unset"}) /\ n \in Nat
      /\ Len(callbacks') = n + 1 /\ callbacks'[n + 1] = "unset"
      /\ \A j \in 1 .. n : callbacks'[j] = callbacks[j]
  BY <1>1
<1>3. /\ MainAdded' = MainAdded /\ UdpAdded' = UdpAdded
      /\ CollectorAdded' = CollectorAdded /\ Adding' = 1 /\ Adding = 0
  BY <1>1 DEF MainAdded, UdpAdded, CollectorAdded, Adding
<1>4. \A j \in 1 .. Len(callbacks') :
        /\ callbacks'[j] = "log" => j = 1
        /\ callbacks'[j] = "executor" => j = 2
        /\ callbacks'[j] \in {"udp", "modbus"} => j >= 3
        /\ callbacks'[j] = "unset" => j = Len(callbacks')
  <2> SUFFICES ASSUME NEW j \in 1 .. n + 1
               PROVE  /\ callbacks'[j] = "log" => j = 1
                      /\ callbacks'[j] = "executor" => j = 2
                      /\ callbacks'[j] \in {"udp", "modbus"} => j >= 3
                      /\ callbacks'[j] = "unset" => j = n + 1
    BY <1>2
  <2>1. CASE j = n + 1
    BY <1>2, <2>1
  <2>2. CASE j \in 1 .. n
    BY <1>1, <1>2, <2>2 DEF CallbacksInv
  <2> QED
    BY <1>2, <2>1, <2>2
<1>5. /\ Len(callbacks') <= MainAdded' + UdpAdded' + CollectorAdded' + Adding'
      /\ main \in {"init_log", "add_executor"} =>
           Len(callbacks') = MainAdded' + Adding'
      /\ main \in {"executor", "udp", "source", "loop"} => Len(callbacks') >= 2
      /\ (\E w \in Workers : thread[w] # "none") =>
           Len(callbacks') >= 2 + Adding'
  <2>1. /\ n <= MainAdded + UdpAdded + CollectorAdded + Adding
        /\ main \in {"init_log", "add_executor"} => n = MainAdded + Adding
        /\ main \in {"executor", "udp", "source", "loop"} => n >= 2
        /\ (\E w \in Workers : thread[w] # "none") => n >= 2 + Adding
    BY DEF CallbacksInv
  <2> HIDE DEF n
  <2> QED
    BY <1>2, <1>3, <2>1, Counts
<1>6. Len(callbacks') >= 1 /\ callbacks'[Len(callbacks')] = "unset"
  BY <1>2
<1> QED
  BY <1>1, <1>2, <1>4, <1>5, <1>6 DEF CallbacksInv

\* Where the callback that thread t adds has to go.
LEMMA EndAddingIs ==
  ASSUME CallbacksInv, NEW t \in Threads, NEW c \in Callbacks,
         EndAdding(t, c)
  PROVE  /\ callbacks' \in Seq(Callbacks \cup {"unset"})
         /\ callback_mutex' = Nobody /\ callback_mutex \in {t, Nobody}
         /\ Len(callbacks) \in Nat
         /\ Len(callbacks') = Len(callbacks) + 1 - Adding
         /\ Len(callbacks') >= 1 /\ callbacks'[Len(callbacks')] = c
         /\ \A j \in 1 .. Len(callbacks') - 1 :
              j \in 1 .. Len(callbacks) /\ callbacks'[j] = callbacks[j]
              /\ callbacks[j] # "unset"
<1> DEFINE n == Len(callbacks)
<1>1. callbacks \in Seq(Callbacks \cup {"unset"}) /\ n \in Nat
  BY DEF CallbacksInv
<1>2. CASE /\ callback_mutex = t /\ callback_mutex' = Nobody
           /\ callbacks' = [callbacks EXCEPT ![n] = c]
  <2>1. t # Nobody
    BY ThreadNames
  <2>2. n >= 1 /\ Adding = 1
    BY <1>2, <2>1 DEF CallbacksInv, Adding
  <2>3. /\ callbacks' \in Seq(Callbacks \cup {"unset"}) /\ Len(callbacks') = n
        /\ callbacks'[n] = c
        /\ \A j \in 1 .. n - 1 : callbacks'[j] = callbacks[j]
    BY <1>1, <1>2, <2>2, ExceptSeq
  <2>4. \A j \in 1 .. n - 1 : callbacks[j] # "unset"
    BY <1>1 DEF CallbacksInv
  <2>5. /\ Len(callbacks') = n + 1 - Adding /\ Len(callbacks') >= 1
        /\ callbacks'[Len(callbacks')] = c
    BY <1>1, <2>2, <2>3
  <2>6. \A j \in 1 .. Len(callbacks') - 1 :
          j \in 1 .. n /\ callbacks'[j] = callbacks[j]
          /\ callbacks[j] # "unset"
    <3>1. \A j \in 1 .. n - 1 : j \in 1 .. n
      BY <1>1
    <3> QED
      BY <2>3, <2>4, <3>1
  <2> QED
    BY <1>1, <1>2, <2>3, <2>5, <2>6
<1>3. CASE /\ callback_mutex = Nobody /\ callback_mutex' = Nobody
           /\ callbacks' = Append(callbacks, c)
  <2>1. Adding = 0
    BY <1>3 DEF Adding
  <2>2. /\ callbacks' \in Seq(Callbacks \cup {"unset"})
        /\ Len(callbacks') = n + 1 /\ callbacks'[n + 1] = c
        /\ \A j \in 1 .. n : callbacks'[j] = callbacks[j]
    BY <1>1, <1>3
  <2>3. \A j \in 1 .. n : callbacks[j] # "unset"
    BY <1>3 DEF CallbacksInv
  <2> QED
    BY <1>1, <1>3, <2>1, <2>2, <2>3
<1> QED
  BY <1>2, <1>3 DEF EndAdding

\* It goes to its place.
LEMMA EndAddingKeeps ==
  ASSUME CallbacksInv, NEW t \in Threads, NEW c \in Callbacks,
         EndAdding(t, c),
         c = "log" => Len(callbacks') = 1,
         c = "executor" => Len(callbacks') = 2,
         c \in {"udp", "modbus"} => Len(callbacks') >= 3,
         Len(callbacks') <= MainAdded' + UdpAdded' + CollectorAdded',
         main' \in {"init_log", "add_executor"} =>
           Len(callbacks') = MainAdded',
         main' \in {"executor", "udp", "source", "loop"} =>
           Len(callbacks') >= 2,
         (\E w \in Workers : thread'[w] # "none") => Len(callbacks') >= 2
  PROVE  CallbacksInv'
<1>1. /\ callbacks' \in Seq(Callbacks \cup {"unset"})
      /\ callback_mutex' = Nobody /\ Len(callbacks') \in Nat
      /\ Len(callbacks') >= 1 /\ callbacks'[Len(callbacks')] = c
      /\ \A j \in 1 .. Len(callbacks') - 1 :
           j \in 1 .. Len(callbacks) /\ callbacks'[j] = callbacks[j]
           /\ callbacks[j] # "unset"
  BY EndAddingIs
<1>2. Adding' = 0
  BY <1>1 DEF Adding
<1>3. ASSUME NEW j \in 1 .. Len(callbacks')
      PROVE  /\ callbacks'[j] = "log" => j = 1
             /\ callbacks'[j] = "executor" => j = 2
             /\ callbacks'[j] \in {"udp", "modbus"} => j >= 3
             /\ callbacks'[j] # "unset"
  <2>1. CASE j = Len(callbacks')
    BY <1>1, <2>1, JoinedByIs
  <2>2. CASE j \in 1 .. Len(callbacks') - 1
    BY <1>1, <2>2 DEF CallbacksInv
  <2> QED
    BY <1>1, <2>1, <2>2
<1>4. /\ MainAdded' \in Int /\ UdpAdded' \in Int /\ CollectorAdded' \in Int
  BY DEF MainAdded, UdpAdded, CollectorAdded
<1>5. /\ Len(callbacks') <= MainAdded' + UdpAdded' + CollectorAdded' + Adding'
      /\ main' \in {"init_log", "add_executor"} =>
           Len(callbacks') = MainAdded' + Adding'
      /\ (\E w \in Workers : thread'[w] # "none") =>
           Len(callbacks') >= 2 + Adding'
  <2>1. /\ MainAdded' + UdpAdded' + CollectorAdded' + Adding'
             = MainAdded' + UdpAdded' + CollectorAdded'
        /\ MainAdded' + Adding' = MainAdded' /\ 2 + Adding' = 2
    <3>1. \A a, b, e \in Int : a + b + e + 0 = a + b + e /\ a + 0 = a
      OBVIOUS
    <3>2. 2 + 0 = 2
      OBVIOUS
    <3> QED
      BY <1>2, <1>4, <3>1, <3>2, Zenon
  <2> QED
    BY <2>1
<1> QED
  BY <1>1, <1>3, <1>5 DEF CallbacksInv

LEMMA CallbacksNext ==
  ASSUME ThreadTypes, StartOrder, CallbacksInv, [ShutdownNext]_shutdownVars
  PROVE  CallbacksInv'
<1>1. CASE Rests
  BY <1>1 DEF Rests, CallbacksInv, MainAdded, UdpAdded, CollectorAdded, Adding
<1>2. CASE Moves
  <2>1. PICK w \in DOMAIN FlagOf,
             next \in {"run", "tested", "waiting", "ended"} :
          /\ thread[w] \in {"run", "tested", "waiting"}
          /\ thread' = [thread EXCEPT ![w] = next]
          /\ w \in {"udp", "collector"} => next = "ended"
    BY <1>2 DEF Moves
  <2>2. w \in Workers /\ thread[w] # "none"
    BY <2>1, FlagOfIs
  <2>3. \A x \in {"udp", "collector"} :
          \/ thread'[x] = thread[x]
          \/ /\ thread[x] \in {"run", "tested", "waiting"}
             /\ thread'[x] = "ended"
    <3>1. {"udp", "collector"} \subseteq Workers
      BY DEF Workers
    <3> QED
      BY <2>1, <2>2, <3>1 DEF ThreadTypes
  <2>4. /\ MainAdded' = MainAdded /\ UdpAdded' = UdpAdded
        /\ CollectorAdded' = CollectorAdded /\ Adding' = Adding
    BY <1>2, <2>3 DEF Moves, MainAdded, UdpAdded, CollectorAdded, Adding
  <2>5. UNCHANGED <<main, callbacks, callback_mutex>>
    BY <1>2 DEF Moves
  <2>6. /\ callback_mutex = "udp" /\ thread["udp"] = "start"
             => thread'["udp"] = "start"
        /\ callback_mutex = "collector" /\ thread["collector"] = "add"
             => thread'["collector"] = "add"
    BY <2>3
  <2>7. Len(callbacks) >= 2 + Adding
    BY <2>2 DEF CallbacksInv
  <2> QED
    BY <2>4, <2>5, <2>6, <2>7 DEF CallbacksInv
<1>3. CASE MainBeginsAdding
  <2>1. /\ main \in {"init_log", "add_executor"} /\ BeginAdding("main")
        /\ UNCHANGED <<main, thread>>
    BY <1>3, MainTables DEF MainBeginsAdding, startup
  <2> QED
    BY <2>1, ThreadNames, BeginAddingKeeps
<1>4. CASE MainEndsAdding
  <2>1. /\ main \in {"init_log", "add_executor"} /\ main' = After[main]
        /\ EndAdding("main", MainCallback[main]) /\ UNCHANGED thread
    BY <1>4, MainTables DEF MainEndsAdding
  <2>2. \A w \in Workers : thread[w] = "none"
    BY <2>1 DEF StartOrder
  <2>3. Len(callbacks) = MainAdded + Adding /\ Len(callbacks) \in Nat
    BY <2>1 DEF CallbacksInv
  <2>4. UdpAdded' = 0 /\ CollectorAdded' = 0
    BY <2>1, <2>2 DEF UdpAdded, CollectorAdded, Workers
  <2>5. CASE main = "init_log"
    <3>1. /\ MainCallback[main] = "log" /\ "log" \in Callbacks
          /\ main' = "add_executor" /\ MainAdded = 0
      BY <2>1, <2>5, MainTables, JoinedByIs, Counts
    <3>2. Len(callbacks') = Len(callbacks) + 1 - Adding
      BY <2>1, <3>1, ThreadNames, EndAddingIs
    <3>3. Len(callbacks') = 1
      BY <2>3, <3>1, <3>2, Counts
    <3>4. MainAdded' = 1
      BY <3>1 DEF MainAdded
    <3> QED
      BY <2>1, <2>2, <2>4, <3>1, <3>3, <3>4, ThreadNames, EndAddingKeeps
  <2>6. CASE main = "add_executor"
    <3>1. /\ MainCallback[main] = "executor" /\ "executor" \in Callbacks
          /\ main' = "executor" /\ MainAdded = 1
      BY <2>1, <2>6, MainTables, JoinedByIs, Counts
    <3>2. Len(callbacks') = Len(callbacks) + 1 - Adding
      BY <2>1, <3>1, ThreadNames, EndAddingIs
    <3>3. Len(callbacks') = 2
      BY <2>3, <3>1, <3>2, Counts
    <3>4. MainAdded' = 2
      BY <3>1 DEF MainAdded
    <3> QED
      BY <2>1, <2>2, <2>4, <3>1, <3>3, <3>4, ThreadNames, EndAddingKeeps
  <2> QED
    BY <2>1, <2>5, <2>6
<1>5. CASE CreateThread
  <2>1. /\ main \in {"executor", "udp", "source"}
        /\ main' \in {"udp", "source", "loop"}
        /\ thread' = [thread EXCEPT ![NextThread] = Starts(NextThread)]
        /\ UNCHANGED <<callbacks, callback_mutex>>
    BY <1>5, MainTables DEF CreateThread, locks
  <2>2. /\ thread["udp"] = "none" \/ thread'["udp"] = thread["udp"]
        /\ thread["collector"] = "none"
           \/ thread'["collector"] = thread["collector"]
        /\ thread["udp"] = "none" => thread'["udp"] \in {"none", "start"}
        /\ thread["collector"] = "none" =>
             thread'["collector"] \in {"none", "start"}
    BY <2>1, CreatedIs DEF StartOrder, ThreadTypes, Starts, Workers
  <2>3. /\ MainAdded' = MainAdded /\ UdpAdded' = UdpAdded
        /\ CollectorAdded' = CollectorAdded /\ Adding' = Adding
    BY <2>1, <2>2 DEF MainAdded, UdpAdded, CollectorAdded, Adding
  <2>4. Len(callbacks) >= 2 /\ Len(callbacks) \in Nat
    BY <2>1 DEF CallbacksInv
  <2>5. Len(callbacks) >= 2 + Adding
    <3>1. CASE callback_mutex = Nobody
      <4>1. Adding = 0
        BY <3>1 DEF Adding
      <4> QED
        BY <2>4, <4>1
    <3>2. CASE callback_mutex # Nobody
      <4>1. thread["udp"] # "none" \/ thread["collector"] # "none"
        BY <2>1, <3>2 DEF CallbacksInv
      <4>2. \E w \in Workers : thread[w] # "none"
        BY <4>1 DEF Workers
      <4> QED
        BY <4>2 DEF CallbacksInv
    <3> QED
      BY <3>1, <3>2
  <2>6. callback_mutex # Nobody =>
          \/ callback_mutex = "udp" /\ thread'["udp"] = "start"
          \/ callback_mutex = "collector" /\ thread'["collector"] = "add"
    BY <2>1, <2>2 DEF CallbacksInv
  <2> QED
    BY <2>1, <2>3, <2>4, <2>5, <2>6 DEF CallbacksInv
<1>6. CASE StartFails
  <2>1. /\ main' = "error" /\ callback_mutex # "main"
        /\ UNCHANGED <<thread, callbacks, callback_mutex>>
    BY <1>6 DEF StartFails, locks
  <2>2. /\ MainAdded' = 2 /\ UdpAdded' = UdpAdded
        /\ CollectorAdded' = CollectorAdded /\ Adding' = Adding
    BY <2>1 DEF MainAdded, UdpAdded, CollectorAdded, Adding
  <2>3. Len(callbacks) <= 2 + UdpAdded + CollectorAdded + Adding
        /\ Len(callbacks) \in Nat
    <3>1. Len(callbacks) <= MainAdded + UdpAdded + CollectorAdded + Adding
          /\ Len(callbacks) \in Nat
      BY DEF CallbacksInv
    <3> QED
      BY <3>1, Counts
  <2> QED
    BY <2>1, <2>2, <2>3 DEF CallbacksInv
<1>7. CASE InitCollector
  <2>1. /\ thread["collector"] = "start" /\ "collector" \in Workers
        /\ UNCHANGED <<main, callbacks, callback_mutex>>
        /\ thread'["udp"] = thread["udp"]
        /\ thread'["collector"] \in {"start", "add"}
    BY <1>7 DEF InitCollector, startup, locks, ThreadTypes, Workers
  <2>2. /\ MainAdded' = MainAdded /\ UdpAdded' = UdpAdded
        /\ CollectorAdded' = CollectorAdded /\ Adding' = Adding
    BY <2>1 DEF MainAdded, UdpAdded, CollectorAdded, Adding
  <2>3. Len(callbacks) >= 2 + Adding
    BY <2>1 DEF CallbacksInv
  <2> QED
    BY <2>1, <2>2, <2>3 DEF CallbacksInv
<1>8. ASSUME NEW w \in {"udp", "collector"},
             WorkerBeginsAdding(w) \/ WorkerEndsAdding(w)
      PROVE  CallbacksInv'
  <2>1. /\ thread[w] = IF w = "udp" THEN "start" ELSE "add"
        /\ main' = main /\ w \in Workers /\ w \in Threads
    BY <1>8 DEF WorkerBeginsAdding, WorkerEndsAdding, Adds, startup, Workers,
                Threads
  <2>2. CASE WorkerBeginsAdding(w)
    <3>1. BeginAdding(w) /\ UNCHANGED <<main, thread>>
      BY <2>2 DEF WorkerBeginsAdding, startup
    <3> QED
      BY <2>1, <3>1, BeginAddingKeeps
  <2>3. CASE WorkerEndsAdding(w)
    <3>1. EndAdding(w, CallbackOf[w]) /\ CallbackOf[w] \in {"udp", "modbus"}
          /\ CallbackOf[w] \in Callbacks
      BY <2>3, MainTables, JoinedByIs DEF WorkerEndsAdding
    <3>2. Len(callbacks') = Len(callbacks) + 1 - Adding
          /\ Len(callbacks) \in Nat
      BY <2>1, <3>1, EndAddingIs
    <3>3. Len(callbacks) >= 2 + Adding
          /\ Len(callbacks) <= MainAdded + UdpAdded + CollectorAdded + Adding
      BY <2>1 DEF CallbacksInv
    <3>4. main \notin {"init_log", "add_executor"}
      BY <2>1 DEF StartOrder
    <3>5. thread'[w] \in {"run", "ended"}
          /\ \A x \in Workers : x # w => thread'[x] = thread[x]
      BY <2>1, <2>3 DEF WorkerEndsAdding, ThreadTypes
    <3>6. MainAdded' = MainAdded
          /\ \/ /\ UdpAdded = 0 /\ UdpAdded' = 1
                /\ CollectorAdded' = CollectorAdded
             \/ /\ CollectorAdded = 0 /\ CollectorAdded' = 1
                /\ UdpAdded' = UdpAdded
      <4>1. CASE w = "udp"
        BY <2>1, <3>5, <4>1 DEF MainAdded, UdpAdded, CollectorAdded, Workers
      <4>2. CASE w = "collector"
        BY <2>1, <3>5, <4>2 DEF MainAdded, UdpAdded, CollectorAdded, Workers
      <4> QED
        BY <4>1, <4>2
    <3>7. Len(callbacks') >= 3
      BY <3>2, <3>3, Counts
    <3>8. Len(callbacks') <= MainAdded' + UdpAdded' + CollectorAdded'
      BY <3>2, <3>3, <3>6, Counts
    <3>9. Len(callbacks') >= 2 /\ (main' \in {"init_log", "add_executor"} =>
                                     Len(callbacks') = MainAdded')
      BY <2>1, <3>2, <3>4, <3>7, Counts
    <3>10. CallbackOf[w] # "log" /\ CallbackOf[w] # "executor"
      BY <3>1
    <3> QED
      BY <2>1, <3>1, <3>7, <3>8, <3>9, <3>10, EndAddingKeeps
  <2> QED
    BY <1>8, <2>2, <2>3
<1> QED
  BY <1>1, <1>2, <1>3, <1>4, <1>5, <1>6, <1>7, <1>8, ShutdownSteps

\* A written entry stays, and the table only grows.
LEMMA CallbacksStay ==
  ASSUME ThreadTypes, StartOrder, CallbacksInv, [ShutdownNext]_shutdownVars
  PROVE  /\ Len(callbacks) \in Nat /\ Len(callbacks') \in Nat
         /\ Len(callbacks) <= Len(callbacks')
         /\ \A j \in 1 .. Len(callbacks) :
              callbacks[j] # "unset" => callbacks'[j] = callbacks[j]
<1>1. callbacks \in Seq(Callbacks \cup {"unset"}) /\ Len(callbacks) \in Nat
  BY DEF CallbacksInv
<1>2. CASE callbacks' = callbacks
  BY <1>1, <1>2
<1>3. ASSUME NEW t \in Threads, BeginAdding(t)
      PROVE  /\ Len(callbacks') = Len(callbacks) + 1
             /\ \A j \in 1 .. Len(callbacks) : callbacks'[j] = callbacks[j]
  BY <1>1, <1>3 DEF BeginAdding
<1>4. ASSUME NEW t \in Threads, NEW c \in Callbacks, EndAdding(t, c)
      PROVE  /\ Len(callbacks') \in {Len(callbacks), Len(callbacks) + 1}
             /\ \A j \in 1 .. Len(callbacks) :
                  callbacks[j] # "unset" => callbacks'[j] = callbacks[j]
  <2>1. CASE callback_mutex = t
             /\ callbacks' = [callbacks EXCEPT ![Len(callbacks)] = c]
    <3>1. Len(callbacks) >= 1 /\ callbacks[Len(callbacks)] = "unset"
      BY <2>1, ThreadNames DEF CallbacksInv
    <3> QED
      BY <1>1, <2>1, <3>1
  <2>2. CASE callbacks' = Append(callbacks, c)
    BY <1>1, <2>2
  <2> QED
    BY <1>4, <2>1, <2>2 DEF EndAdding
<1>5. \/ callbacks' = callbacks
      \/ \E t \in Threads : BeginAdding(t)
      \/ \E t \in Threads, c \in Callbacks : EndAdding(t, c)
  <2>1. CASE MainEndsAdding
    <3>1. MainCallback[main] \in Callbacks
      BY <2>1, MainTables, JoinedByIs DEF MainEndsAdding
    <3> QED
      BY <2>1, <3>1, ThreadNames DEF MainEndsAdding
  <2>2. ASSUME NEW w \in {"udp", "collector"},
               WorkerBeginsAdding(w) \/ WorkerEndsAdding(w)
        PROVE  \/ \E t \in Threads : BeginAdding(t)
               \/ \E t \in Threads, c \in Callbacks : EndAdding(t, c)
    <3>1. CallbackOf[w] \in Callbacks /\ w \in Threads
      BY MainTables, JoinedByIs DEF Threads, Workers
    <3> QED
      BY <2>2, <3>1 DEF WorkerBeginsAdding, WorkerEndsAdding
  <2> QED
    BY <2>1, <2>2, ShutdownSteps, ThreadNames
       DEF Rests, Moves, MainBeginsAdding, CreateThread, StartFails,
           InitCollector
<1> QED
  BY <1>1, <1>2, <1>3, <1>4, <1>5

\* A thread that has ended stays so.
LEMMA EndedStays ==
  ASSUME ThreadTypes, StartOrder, [ShutdownNext]_shutdownVars,
         NEW w \in Workers, thread[w] = "ended"
  PROVE  thread'[w] = "ended"
<1>1. CASE Rests \/ MainBeginsAdding \/ MainEndsAdding \/ StartFails
  BY <1>1 DEF Rests, MainBeginsAdding, MainEndsAdding, StartFails
<1>2. CASE Moves
  BY <1>2 DEF Moves, ThreadTypes
<1>3. CASE CreateThread
  <2>1. main \in {"executor", "udp", "source"} /\ thread[NextThread] = "none"
    BY <1>3, CreatedIs DEF CreateThread, StartOrder, Workers
  <2> QED
    BY <1>3, <2>1 DEF CreateThread, ThreadTypes
<1>4. CASE InitCollector
  <2>1. thread["collector"] = "start" /\ thread["cleaner"] = "none"
    BY <1>4 DEF InitCollector, StartOrder
  <2> QED
    BY <1>4, <2>1 DEF InitCollector, ThreadTypes
<1>5. ASSUME NEW x \in {"udp", "collector"},
             WorkerBeginsAdding(x) \/ WorkerEndsAdding(x)
      PROVE  thread'[w] = "ended"
  BY <1>5 DEF WorkerBeginsAdding, WorkerEndsAdding, Adds, ThreadTypes
<1> QED
  BY <1>1, <1>2, <1>3, <1>4, <1>5, ShutdownSteps

-----------------------------------------------------------------------------
(* The handlers.                                                           *)

\* Only the handler of thread t changes, and it changes to g.
Becomes(t, g) ==
  /\ g \in Handlers /\ handler' \in [Threads -> Handlers] /\ handler'[t] = g
  /\ \A x \in Threads \ {t} : handler'[x] = handler[x]

Handler(stage, i, k, from, masked) ==
  [stage |-> stage, i |-> i, k |-> k, from |-> from, masked |-> masked]

LEMMA SetHandler ==
  ASSUME handler \in [Threads -> Handlers], NEW t \in Threads,
         NEW g \in Handlers, handler' = [handler EXCEPT ![t] = g]
  PROVE  Becomes(t, g)
  BY DEF Becomes

LEMMA HandlerTypes ==
  ASSUME NEW stage \in Stages, NEW i \in Nat, NEW k \in Nat, NEW from \in Nat,
         NEW masked \in BOOLEAN
  PROVE  Handler(stage, i, k, from, masked) \in Handlers
  BY DEF Handler, Handlers

LEMMA HandlerFields ==
  ASSUME NEW h \in Handlers
  PROVE  /\ h.stage \in Stages /\ h.i \in Nat /\ h.k \in Nat /\ h.from \in Nat
         /\ h.masked \in BOOLEAN
  BY DEF Handlers

\* Each step of a handler, as the record it leaves.
LEMMA AnnounceIs ==
  ASSUME handler \in [Threads -> Handlers], NEW t \in Threads,
         NEW h \in Handlers, h = handler[t], Announce(t),
         NEW n \in Nat, n = Len(callbacks)
  PROVE  Becomes(t, Handler("call", n, h.k, n, h.masked))
<1>1. PICK g \in Handlers : g = Handler("call", n, h.k, n, h.masked)
  BY HandlerFields, HandlerTypes DEF Stages
<1>2. handler'[t] = g
  BY <1>1 DEF Announce, Handlers, Handler
<1>3. /\ handler' \in [Threads -> Handlers]
      /\ \A x \in Threads \ {t} : handler'[x] = handler[x]
  BY <1>2 DEF Announce
<1> QED
  BY <1>1, <1>2, <1>3 DEF Becomes

\* The log's callback, and the m_log after a join, go on to the callback
\* before.
LEMMA GoesBack ==
  ASSUME handler \in [Threads -> Handlers], NEW t \in Threads,
         NEW h \in Handlers, h = handler[t], CloseLog(t) \/ NextCallback(t),
         NEW n \in Nat, n = h.i - 1
  PROVE  Becomes(t, Handler("call", n, h.k, h.from, h.masked))
<1>1. PICK g \in Handlers : g = Handler("call", n, h.k, h.from, h.masked)
  BY HandlerFields, HandlerTypes DEF Stages
<1>2. CASE CloseLog(t)
  <2>1. h.stage = "call"
    BY <1>2 DEF CloseLog, IsAt
  <2>2. handler'[t] = g
    BY <1>1, <1>2, <2>1 DEF CloseLog, Handlers, Handler
  <2>3. /\ handler' \in [Threads -> Handlers]
        /\ \A x \in Threads \ {t} : handler'[x] = handler[x]
    BY <1>2, <2>2 DEF CloseLog
  <2> QED
    BY <1>1, <2>2, <2>3 DEF Becomes
<1>3. CASE NextCallback(t)
  <2>1. handler'[t] = g
    BY <1>1, <1>3 DEF NextCallback, Handlers, Handler
  <2>2. /\ handler' \in [Threads -> Handlers]
        /\ \A x \in Threads \ {t} : handler'[x] = handler[x]
    BY <1>3, <2>1 DEF NextCallback
  <2> QED
    BY <1>1, <2>1, <2>2 DEF Becomes
<1> QED
  BY <1>2, <1>3

LEMMA SetFlagIs ==
  ASSUME handler \in [Threads -> Handlers], NEW t \in Threads,
         NEW h \in Handlers, h = handler[t], SetFlag(t)
  PROVE  Becomes(t, Handler("join", h.i, 1, h.from, h.masked))
<1>1. PICK g \in Handlers : g = Handler("join", h.i, 1, h.from, h.masked)
  BY HandlerFields, HandlerTypes DEF Stages
<1>2. handler'[t] = g
  BY <1>1 DEF SetFlag, Handlers, Handler
<1>3. /\ handler' \in [Threads -> Handlers]
      /\ \A x \in Threads \ {t} : handler'[x] = handler[x]
  BY <1>2 DEF SetFlag
<1> QED
  BY <1>1, <1>2, <1>3 DEF Becomes

LEMMA JoinReturnsIs ==
  ASSUME handler \in [Threads -> Handlers], NEW t \in Threads,
         NEW h \in Handlers, h = handler[t], JoinReturns(t),
         NEW n \in Nat, n = h.k + 1,
         NEW s \in {"join", "joined"},
         s = IF h.k = Len(JoinedBy[Callback(t)]) THEN "joined" ELSE "join"
  PROVE  Becomes(t, Handler(s, h.i, n, h.from, h.masked))
<1>1. PICK g \in Handlers : g = Handler(s, h.i, n, h.from, h.masked)
  BY HandlerFields, HandlerTypes DEF Stages
<1>2. handler'[t] = g
  BY <1>1 DEF JoinReturns, Handlers, Handler
<1>3. /\ handler' \in [Threads -> Handlers]
      /\ \A x \in Threads \ {t} : handler'[x] = handler[x]
  BY <1>2 DEF JoinReturns
<1> QED
  BY <1>1, <1>2, <1>3 DEF Becomes

LEMMA StartJoiningIs ==
  ASSUME handler \in [Threads -> Handlers], NEW t \in Threads,
         NEW h \in Handlers, h = handler[t],
         handler' = [handler EXCEPT ![t].stage = "joining"]
  PROVE  Becomes(t, Handler("joining", h.i, h.k, h.from, h.masked))
<1>1. PICK g \in Handlers : g = Handler("joining", h.i, h.k, h.from, h.masked)
  BY HandlerFields, HandlerTypes DEF Stages
<1>2. handler'[t] = g
  BY <1>1 DEF Handlers, Handler
<1>3. /\ handler' \in [Threads -> Handlers]
      /\ \A x \in Threads \ {t} : handler'[x] = handler[x]
  BY <1>2
<1> QED
  BY <1>1, <1>2, <1>3 DEF Becomes

LEMMA NotCalledIs == NotCalled = Handler("none", 0, 0, 0, FALSE)
  BY DEF NotCalled, Handler

LEMMA EnteredIs ==
  ASSUME handler \in [Threads -> Handlers], NEW t \in Threads,
         NEW b \in BOOLEAN, handler' = [handler EXCEPT ![t] = Entered(b)]
  PROVE  Becomes(t, Handler("announce", 0, 0, 0, b))
<1>1. Handler("announce", 0, 0, 0, b) \in Handlers
  BY HandlerTypes DEF Stages
<1>2. Entered(b) = Handler("announce", 0, 0, 0, b)
  <2>1. PICK r \in Handlers : r = NotCalled
    BY NotCalledIs, HandlerTypes DEF Stages
  <2>2. r.i = 0 /\ r.k = 0 /\ r.from = 0
    BY <2>1, NotCalledIs DEF Handler
  <2>3. [r EXCEPT !.stage = "announce", !.masked = b]
          = Handler("announce", 0, 0, 0, b)
    <3>1. PICK q : q = [r EXCEPT !.stage = "announce"]
      OBVIOUS
    <3>2. q = Handler("announce", 0, 0, 0, r.masked)
      BY <2>2, <3>1 DEF Handlers, Handler
    <3>3. q \in Handlers /\ q.stage = "announce" /\ q.i = 0 /\ q.k = 0
          /\ q.from = 0
      BY <3>2, HandlerTypes, HandlerFields DEF Handler, Stages
    <3>4. [q EXCEPT !.masked = b] = Handler("announce", 0, 0, 0, b)
      BY <3>3 DEF Handlers, Handler
    <3> QED
      BY <3>1, <3>4
  <2> QED
    BY <2>1, <2>3 DEF Entered
<1> QED
  BY <1>1, <1>2, SetHandler

\* What is right for a handler stays right while the table grows.
LEMMA HandlerStaysRight ==
  ASSUME ThreadTypes, StartOrder, CallbacksInv, [ShutdownNext]_shutdownVars,
         NEW h, HandlerIsRight(h)
  PROVE  HandlerIsRight(h)'
<1>1. /\ h \in Handlers /\ h.i \in Nat /\ h.from \in Nat
      /\ h.i <= h.from /\ h.from <= Len(callbacks)
  BY HandlerFields DEF HandlerIsRight
<1>2. h.from <= Len(callbacks')
  BY <1>1, CallbacksStay
<1>3. h.stage \in JoinStages =>
        /\ h.i >= 1 /\ callbacks[h.i] \in DOMAIN JoinedBy
        /\ callbacks'[h.i] = callbacks[h.i]
  <2>1. ASSUME h.stage \in JoinStages
        PROVE  h.i >= 1 /\ callbacks[h.i] \in DOMAIN JoinedBy
    BY <2>1 DEF HandlerIsRight
  <2>2. ASSUME h.stage \in JoinStages
        PROVE  h.i \in 1 .. Len(callbacks) /\ callbacks[h.i] # "unset"
    BY <1>1, <2>1, <2>2, CallbacksStay, JoinedByIs
  <2> QED
    BY <2>1, <2>2, CallbacksStay
<1> QED
  BY <1>1, <1>2, <1>3 DEF HandlerIsRight

\* A step of a handler leaves it right.
LEMMA HandleIsRight ==
  ASSUME CallbacksInv, HandlersInv, NEW t \in Threads, Handle(t)
  PROVE  \/ UNCHANGED handler
         \/ \E g \in Handlers : Becomes(t, g) /\ HandlerIsRight(g)'
<1>1. PICK h \in Handlers : h = handler[t]
  BY DEF HandlersInv
<1>2. /\ handler \in [Threads -> Handlers] /\ HandlerIsRight(h)
      /\ h.i \in Nat /\ h.k \in Nat /\ h.from \in Nat /\ h.masked \in BOOLEAN
      /\ h.i <= h.from /\ h.from <= Len(callbacks) /\ Len(callbacks) \in Nat
  BY <1>1, HandlerFields DEF HandlersInv, HandlerIsRight, CallbacksInv
<1>3. CASE Announce(t)
  <2>1. PICK n \in Nat : n = Len(callbacks)
    BY <1>2
  <2>2. PICK g \in Handlers : g = Handler("call", n, h.k, n, h.masked)
    BY <1>2, HandlerTypes DEF Stages
  <2>3. Becomes(t, g) /\ callbacks' = callbacks
    BY <1>1, <1>2, <1>3, <2>1, <2>2, AnnounceIs DEF Announce
  <2>4. g.stage = "call" /\ g.i = n /\ g.from = n
    BY <2>2 DEF Handler
  <2> QED
    BY <1>2, <2>1, <2>3, <2>4 DEF HandlerIsRight, JoinStages
<1>4. CASE LeaveHandler(t)
  BY <1>4 DEF LeaveHandler
<1>5. CASE CloseLog(t) \/ NextCallback(t)
  <2>1. h.i > 0 /\ callbacks' = callbacks
    <3>1. CASE CloseLog(t)
      BY <1>1, <3>1 DEF CloseLog
    <3>2. CASE NextCallback(t)
      <4>1. h.stage \in JoinStages /\ callbacks' = callbacks
        BY <1>1, <3>2 DEF NextCallback, IsAt, JoinStages
      <4> QED
        BY <1>2, <4>1 DEF HandlerIsRight
    <3> QED
      BY <1>5, <3>1, <3>2
  <2>2. PICK n \in Nat : n = h.i - 1
    BY <1>2, <2>1
  <2>3. PICK g \in Handlers : g = Handler("call", n, h.k, h.from, h.masked)
    BY <1>2, HandlerTypes DEF Stages
  <2>4. Becomes(t, g)
    BY <1>1, <1>2, <1>5, <2>2, <2>3, GoesBack
  <2>5. g.stage = "call" /\ g.i = n /\ g.from = h.from
    BY <2>3 DEF Handler
  <2>6. g.i <= g.from /\ g.from <= Len(callbacks)
    BY <1>2, <2>2, <2>5
  <2> QED
    BY <2>1, <2>4, <2>5, <2>6 DEF HandlerIsRight, JoinStages
<1>6. CASE SetFlag(t)
  <2>1. PICK g \in Handlers : g = Handler("join", h.i, 1, h.from, h.masked)
    BY <1>2, HandlerTypes DEF Stages
  <2>2. Becomes(t, g)
    BY <1>1, <1>2, <1>6, <2>1, SetFlagIs
  <2>3. /\ h.i > 0 /\ callbacks[h.i] \in DOMAIN JoinedBy
        /\ callbacks' = callbacks
    BY <1>1, <1>6 DEF SetFlag, Callback
  <2>4. g.stage = "join" /\ g.i = h.i /\ g.from = h.from /\ g.k = 1
    BY <2>1 DEF Handler
  <2>5. h.i >= 1 /\ 1 \in 1 .. Len(JoinedBy[callbacks[h.i]])
    <3>1. PICK c \in DOMAIN JoinedBy : c = callbacks[h.i]
      BY <2>3
    <3>2. 1 \in 1 .. Len(JoinedBy[c])
      <4>1. Len(JoinedBy[c]) \in {1, 2}
        BY JoinedByIs
      <4> QED
        BY <4>1
    <3>3. h.i >= 1
      BY <1>2, <2>3
    <3> QED
      BY <3>1, <3>2, <3>3
  <2> QED
    BY <1>2, <2>2, <2>3, <2>4, <2>5 DEF HandlerIsRight
<1>7. ASSUME h.stage \in {"join", "joining"}, JoinReturns(t),
             callbacks' = callbacks
      PROVE  \E g \in Handlers : Becomes(t, g) /\ HandlerIsRight(g)'
  <2>1. /\ h.i >= 1 /\ callbacks[h.i] \in DOMAIN JoinedBy
        /\ h.k \in 1 .. Len(JoinedBy[callbacks[h.i]])
    BY <1>2, <1>7 DEF HandlerIsRight, JoinStages
  <2>2. PICK n \in Nat : n = h.k + 1
    BY <1>2
  <2>3. PICK s \in {"join", "joined"} :
          s = IF h.k = Len(JoinedBy[callbacks[h.i]]) THEN "joined" ELSE "join"
    OBVIOUS
  <2>4. PICK g \in Handlers : g = Handler(s, h.i, n, h.from, h.masked)
    BY <1>2, <2>2, HandlerTypes DEF Stages
  <2>5. Becomes(t, g)
    BY <1>1, <1>2, <1>7, <2>2, <2>3, <2>4, JoinReturnsIs DEF Callback
  <2>6. g.stage = s /\ g.i = h.i /\ g.from = h.from /\ g.k = n
    BY <2>4 DEF Handler
  <2>7. IF g.stage = "joined"
        THEN g.k = Len(JoinedBy[callbacks[g.i]]) + 1
        ELSE g.k \in 1 .. Len(JoinedBy[callbacks[g.i]])
    BY <2>1, <2>2, <2>3, <2>6, JoineesAreWorkers
  <2> QED
    BY <1>2, <1>7, <2>1, <2>5, <2>6, <2>7 DEF HandlerIsRight
<1>8. CASE Join(t)
  <2>1. h.stage = "join" /\ callbacks' = callbacks
    BY <1>1, <1>8 DEF Join, IsAt
  <2>2. CASE JoinReturns(t)
    BY <1>7, <2>1, <2>2
  <2>3. CASE handler' = [handler EXCEPT ![t].stage = "joining"]
    <3>1. PICK g \in Handlers :
            g = Handler("joining", h.i, h.k, h.from, h.masked)
      BY <1>2, HandlerTypes DEF Stages
    <3>2. Becomes(t, g)
      BY <1>1, <1>2, <2>3, <3>1, StartJoiningIs
    <3>3. g.stage = "joining" /\ g.i = h.i /\ g.from = h.from /\ g.k = h.k
      BY <3>1 DEF Handler
    <3> QED
      BY <1>2, <2>1, <3>2, <3>3 DEF HandlerIsRight, JoinStages
  <2> QED
    BY <1>8, <2>2, <2>3 DEF Join
<1>9. CASE Joined(t)
  BY <1>1, <1>7, <1>9 DEF Joined, IsAt
<1> QED
  BY <1>3, <1>4, <1>5, <1>6, <1>8, <1>9 DEF Handle

LEMMA HandlersInit ==
  ASSUME ShutdownInit
  PROVE  HandlersInv
<1>1. NotCalled \in Handlers
  BY NotCalledIs, HandlerTypes DEF Stages
<1>2. NotCalled.stage = "none" /\ NotCalled.i = 0 /\ NotCalled.from = 0
  BY DEF NotCalled
<1>3. callbacks = <<>> /\ handler = [t \in Threads |-> NotCalled]
  BY DEF ShutdownInit
<1> QED
  BY <1>1, <1>2, <1>3 DEF HandlersInv, HandlerIsRight, JoinStages

\* The steps that leave the handlers and what they stop alone.
Quiet == UNCHANGED <<handler, shutdown_flags, log_open, joiner, calls>>

LEMMA HandlerSteps ==
  ASSUME [ShutdownNext]_shutdownVars
  PROVE  Signal \/ Fire \/ Quiet \/ \E t \in Threads : Handle(t)
<1>1. CASE UNCHANGED shutdownVars
  BY <1>1 DEF shutdownVars, Quiet
<1>2. CASE MainBeginsAdding \/ MainEndsAdding \/ CreateThread \/ StartFails
           \/ GiveUp
  BY <1>2 DEF MainBeginsAdding, MainEndsAdding, CreateThread, StartFails,
              GiveUp, Quiet
<1>3. CASE InitCollector \/ TestFlag \/ WaitForSql \/ WakeUp
  BY <1>3 DEF InitCollector, TestFlag, WaitForSql, WakeUp, Quiet
<1>4. ASSUME NEW w \in DOMAIN CallbackOf,
             WorkerBeginsAdding(w) \/ WorkerEndsAdding(w)
      PROVE  Quiet
  BY <1>4 DEF WorkerBeginsAdding, WorkerEndsAdding, Quiet
<1>5. ASSUME NEW w \in DOMAIN FlagOf, Return(w)
      PROVE  Quiet
  BY <1>5 DEF Return, Quiet
<1>6. ASSUME NEW t \in Threads, LockLog(t) \/ UnlockLog(t)
      PROVE  Quiet
  BY <1>6 DEF LockLog, UnlockLog, Quiet
<1> QED
  BY <1>1, <1>2, <1>3, <1>4, <1>5, <1>6 DEF ShutdownNext, Main

LEMMA HandlersNext ==
  ASSUME ThreadTypes, StartOrder, CallbacksInv, HandlersInv,
         [ShutdownNext]_shutdownVars
  PROVE  HandlersInv'
<1>1. \A t \in Threads : HandlerIsRight(handler[t])
      /\ handler \in [Threads -> Handlers]
  BY DEF HandlersInv
<1>2. \/ UNCHANGED handler
      \/ \E t \in Threads, g \in Handlers :
           Becomes(t, g) /\ HandlerIsRight(g)'
  <2>1. CASE Signal \/ Fire
    <3>1. PICK t \in Threads, b \in BOOLEAN :
            handler' = [handler EXCEPT ![t] = Entered(b)]
      BY <2>1, ThreadNames DEF Signal, Fire
    <3>2. PICK g \in Handlers : g = Handler("announce", 0, 0, 0, b)
      BY HandlerTypes DEF Stages
    <3>3. Becomes(t, g)
      BY <1>1, <3>1, <3>2, ThreadNames, EnteredIs
    <3>4. g.stage = "announce" /\ g.i = 0 /\ g.from = 0
      BY <3>2 DEF Handler
    <3>5. HandlerIsRight(g)'
      BY <3>4, CallbacksStay DEF HandlerIsRight, JoinStages
    <3> QED
      BY <3>3, <3>5
  <2> QED
    BY <2>1, HandlerSteps, HandleIsRight DEF Quiet
<1>3. CASE UNCHANGED handler
  <2> SUFFICES ASSUME NEW t \in Threads
               PROVE  HandlerIsRight(handler[t])'
    BY <1>1, <1>3 DEF HandlersInv
  <2>1. PICK h : h = handler[t]
    OBVIOUS
  <2>2. HandlerIsRight(h)'
    BY <1>1, <2>1, HandlerStaysRight
  <2> QED
    BY <1>3, <2>1, <2>2 DEF HandlerIsRight
<1>4. ASSUME NEW t \in Threads, NEW g \in Handlers, Becomes(t, g),
             HandlerIsRight(g)'
      PROVE  HandlersInv'
  <2>1. handler' \in [Threads -> Handlers]
    BY <1>4 DEF Becomes
  <2>2. ASSUME NEW x \in Threads
        PROVE  HandlerIsRight(handler[x])'
    <3>1. PICK h : h = handler'[x]
      OBVIOUS
    <3>2. HandlerIsRight(h)'
      BY <1>1, <1>4, <3>1, HandlerStaysRight DEF Becomes
    <3> QED
      BY <3>1, <3>2 DEF HandlerIsRight
  <2> QED
    BY <2>1, <2>2 DEF HandlersInv
<1> QED
  BY <1>2, <1>3, <1>4

-----------------------------------------------------------------------------
(* The one handler.                                                        *)

LEMMA JoinedStays ==
  ASSUME ThreadTypes, StartOrder, [ShutdownNext]_shutdownVars,
         NEW c \in DOMAIN JoinedBy, NEW n \in Nat, JoinedFirst(c, n)
  PROVE  JoinedFirst(c, n)'
<1>1. ASSUME NEW m \in 1 .. Len(JoinedBy[c]), m <= n
      PROVE  thread'[JoinedBy[c][m]] = "ended"
  BY <1>1, JoineesAreWorkers, EndedStays DEF JoinedFirst
<1> QED
  BY <1>1 DEF JoinedFirst

\* What a handler at the callback with index i has come past, when it found
\* from callbacks.
Past(i, from) ==
  \A j \in 1 .. Len(callbacks) :
    j > i /\ j <= from =>
      /\ callbacks[j] # "unset"
      /\ callbacks[j] \in DOMAIN JoinedBy => JoinedFirst(callbacks[j], 2)

LEMMA PastStays ==
  ASSUME ThreadTypes, StartOrder, CallbacksInv, [ShutdownNext]_shutdownVars,
         NEW i \in Nat, NEW from \in Nat, from <= Len(callbacks), Past(i, from)
  PROVE  Past(i, from)'
<1>1. ASSUME NEW j \in 1 .. Len(callbacks'), j > i, j <= from
      PROVE  /\ callbacks'[j] # "unset"
             /\ callbacks'[j] \in DOMAIN JoinedBy =>
                  JoinedFirst(callbacks[j], 2)'
             /\ callbacks'[j] = callbacks[j]
  <2>1. j \in 1 .. Len(callbacks)
    BY <1>1, CallbacksStay
  <2>2. callbacks[j] # "unset" /\ callbacks'[j] = callbacks[j]
    BY <1>1, <2>1, CallbacksStay DEF Past
  <2>3. PICK c : c = callbacks[j] /\ c = callbacks'[j]
    BY <2>2
  <2>4. ASSUME c \in DOMAIN JoinedBy
        PROVE  JoinedFirst(c, 2)'
    <3>1. JoinedFirst(c, 2)
      BY <1>1, <2>1, <2>3, <2>4 DEF Past
    <3> QED
      BY <2>4, <3>1, JoinedStays
  <2> QED
    BY <2>2, <2>3, <2>4 DEF JoinedFirst
<1> QED
  BY <1>1 DEF Past, JoinedFirst

\* A step of another thread takes nothing back.
LEMMA StoppingStays ==
  ASSUME ThreadTypes, StartOrder, CallbacksInv, [ShutdownNext]_shutdownVars,
         NEW h, HandlerIsRight(h), Stopping(h),
         UNCHANGED <<shutdown_flags, log_open, joiner>>
  PROVE  Stopping(h)'
<1>1. /\ h \in Handlers /\ h.i \in Nat /\ h.k \in Nat /\ h.from \in Nat
      /\ h.from <= Len(callbacks) /\ Len(callbacks) \in Nat /\ h.i <= h.from
  BY HandlerFields DEF HandlerIsRight, CallbacksInv
<1>2. Past(h.i, h.from)'
  <2>1. Past(h.i, h.from)
    BY DEF Past, Stopping
  <2> QED
    BY <1>1, <2>1, PastStays
<1>3. ASSUME h.stage \in JoinStages
      PROVE  /\ callbacks'[h.i] = callbacks[h.i]
             /\ JoinedFirst(callbacks[h.i], h.k - 1)'
  <2>1. /\ h.i \in 1 .. Len(callbacks) /\ h.k - 1 \in Nat
        /\ callbacks[h.i] \in DOMAIN JoinedBy
    BY <1>1, <1>3, JoineesAreWorkers DEF HandlerIsRight
  <2>2. callbacks[h.i] # "unset"
    BY <2>1, JoinedByIs
  <2>3. callbacks'[h.i] = callbacks[h.i]
    BY <2>1, <2>2, CallbacksStay
  <2>4. PICK c \in DOMAIN JoinedBy, n \in Nat :
          c = callbacks[h.i] /\ c = callbacks'[h.i] /\ n = h.k - 1
    BY <2>1, <2>3
  <2>5. JoinedFirst(c, n)'
    BY <1>3, <2>4, JoinedStays DEF Stopping
  <2> QED
    BY <2>3, <2>4, <2>5 DEF JoinedFirst
<1>4. \A w \in Workers :
        joiner'[w] # Nobody =>
          \/ thread'[w] = "ended"
          \/ h.stage = "joining" /\ w = JoinedBy[callbacks'[h.i]][h.k]
  BY <1>3, EndedStays DEF Stopping, JoinStages
<1> QED
  BY <1>2, <1>3, <1>4 DEF Stopping, Past, JoinedFirst, NothingStopped

\* A step of the handler keeps what it has come past.
LEMMA HandleKeeps ==
  ASSUME ThreadTypes, StartOrder, CallbacksInv, HandlersInv,
         [ShutdownNext]_shutdownVars, Handle("main"),
         Stopping(handler["main"])
  PROVE  Stopping(handler["main"])'
<1>1. PICK h \in Handlers : h = handler["main"]
  BY ThreadNames DEF HandlersInv
<1>2. /\ handler \in [Threads -> Handlers] /\ HandlerIsRight(h)
      /\ h.i \in Nat /\ h.k \in Nat /\ h.from \in Nat /\ h.masked \in BOOLEAN
      /\ h.i <= h.from /\ h.from <= Len(callbacks) /\ Len(callbacks) \in Nat
      /\ "main" \in Threads /\ "main" \notin Workers
  BY <1>1, HandlerFields, ThreadNames
     DEF HandlersInv, HandlerIsRight, CallbacksInv
<1>3. Stopping(h) /\ Past(h.i, h.from)
  BY <1>1 DEF Stopping, Past
<1>4. callbacks' = callbacks
  BY DEF Handle, Announce, LeaveHandler, CloseLog, SetFlag, Join, Joined,
         NextCallback
\* It is enough to look at the new record.
<1>5. ASSUME NEW g, handler'["main"] = g, Stopping(g)'
      PROVE  Stopping(handler["main"])'
  BY <1>5 DEF Stopping
<1>6. \A w \in Workers : thread[w] = "ended" => thread'[w] = "ended"
  BY EndedStays
<1>7. CASE Announce("main")
  <2>1. PICK n \in Nat : n = Len(callbacks)
    BY <1>2
  <2>2. PICK g \in Handlers : g = Handler("call", n, h.k, n, h.masked)
    BY <1>2, HandlerTypes DEF Stages
  <2>3. handler'["main"] = g
    BY <1>1, <1>2, <1>7, <2>1, <2>2, AnnounceIs DEF Becomes
  <2>4. g.stage = "call" /\ g.i = n /\ g.from = n
    BY <2>2 DEF Handler
  <2>5. h.stage = "announce"
    BY <1>1, <1>7 DEF Announce, IsAt
  <2>6. /\ shutdown_flags' = {} /\ log_open'
        /\ \A w \in Workers : joiner'[w] = Nobody
    BY <1>3, <1>7, <2>5 DEF Announce, Stopping, NothingStopped
  <2>7. \A j \in 1 .. Len(callbacks') : ~ (j > n /\ j <= n)
    BY <1>2, <2>1
  <2> QED
    BY <1>5, <2>3, <2>4, <2>6, <2>7 DEF Stopping, JoinStages
<1>8. CASE LeaveHandler("main")
  <2>1. UNCHANGED <<handler, shutdown_flags, log_open, joiner>>
    BY <1>8 DEF LeaveHandler
  <2>2. Stopping(h)'
    BY <1>2, <1>3, <2>1, StoppingStays
  <2> QED
    BY <1>1, <1>5, <2>1, <2>2
<1>9. CASE CloseLog("main") \/ NextCallback("main")
  <2>1. /\ h.i > 0 /\ UNCHANGED <<thread, joiner, shutdown_flags>>
        /\ h.stage # "joining"
        /\ ~ log_open' => h.i = 1
        /\ callbacks[h.i] # "unset"
        /\ callbacks[h.i] \in DOMAIN JoinedBy => JoinedFirst(callbacks[h.i], 2)
    <3>1. CASE CloseLog("main")
      <4>1. h.i > 0 /\ callbacks[h.i] = "log" /\ h.stage = "call"
        BY <1>1, <3>1 DEF CloseLog, Callback, IsAt
      <4>2. h.i = 1
        BY <1>2, <4>1 DEF CallbacksInv
      <4> QED
        BY <3>1, <4>1, <4>2, JoinedByIs DEF CloseLog
    <3>2. CASE NextCallback("main")
      <4>1. h.stage = "joined" /\ UNCHANGED log_open
        BY <1>1, <3>2 DEF NextCallback, IsAt
      <4>2. /\ h.i >= 1 /\ callbacks[h.i] \in DOMAIN JoinedBy
            /\ h.k = Len(JoinedBy[callbacks[h.i]]) + 1
            /\ JoinedFirst(callbacks[h.i], h.k - 1)
        BY <1>2, <1>3, <4>1 DEF HandlerIsRight, Stopping, JoinStages
      <4>3. JoinedFirst(callbacks[h.i], 2)
        BY <4>2, JoineesAreWorkers DEF JoinedFirst
      <4>4. callbacks[h.i] # "unset"
        BY <4>2, JoinedByIs
      <4>5. log_open
        BY <1>3, <4>2 DEF Stopping
      <4> QED
        BY <1>2, <3>2, <4>1, <4>2, <4>3, <4>4, <4>5 DEF NextCallback
    <3> QED
      BY <1>9, <3>1, <3>2
  <2>2. PICK n \in Nat : n = h.i - 1
    BY <1>2, <2>1
  <2>3. PICK g \in Handlers : g = Handler("call", n, h.k, h.from, h.masked)
    BY <1>2, HandlerTypes DEF Stages
  <2>4. handler'["main"] = g
    BY <1>1, <1>2, <1>9, <2>2, <2>3, GoesBack DEF Becomes
  <2>5. g.stage = "call" /\ g.i = n /\ g.from = h.from
    BY <2>3 DEF Handler
  <2>6. Past(n, h.from)
    <3>1. ASSUME NEW j \in 1 .. Len(callbacks), j > n, j <= h.from
          PROVE  /\ callbacks[j] # "unset"
                 /\ callbacks[j] \in DOMAIN JoinedBy =>
                      JoinedFirst(callbacks[j], 2)
      <4>1. CASE j = h.i
        BY <2>1, <4>1
      <4>2. CASE j > h.i
        BY <1>3, <3>1, <4>2 DEF Past
      <4> QED
        BY <1>2, <2>2, <3>1, <4>1, <4>2
    <3> QED
      BY <3>1 DEF Past
  <2>7. Past(n, h.from)'
    BY <1>2, <2>6, PastStays
  <2>8. /\ "executor" \in shutdown_flags' => n <= 2
        /\ ~ log_open' => n = 0
        /\ \A w \in Workers : joiner'[w] # Nobody => thread'[w] = "ended"
    BY <1>2, <1>3, <2>1, <2>2 DEF Stopping
  <2>9. Stopping(g)'
    BY <2>5, <2>7, <2>8 DEF Stopping, Past, JoinStages, JoinedFirst
  <2> QED
    BY <1>5, <2>4, <2>9
<1>10. CASE SetFlag("main")
  <2>1. PICK g \in Handlers : g = Handler("join", h.i, 1, h.from, h.masked)
    BY <1>2, HandlerTypes DEF Stages
  <2>2. handler'["main"] = g
    BY <1>1, <1>2, <1>10, <2>1, SetFlagIs DEF Becomes
  <2>3. g.stage = "join" /\ g.i = h.i /\ g.from = h.from /\ g.k = 1
    BY <2>1 DEF Handler
  <2>4. /\ h.i > 0 /\ callbacks[h.i] \in DOMAIN JoinedBy /\ h.stage = "call"
        /\ shutdown_flags' = shutdown_flags \cup {callbacks[h.i]}
        /\ UNCHANGED <<log_open, joiner>>
    BY <1>1, <1>10 DEF SetFlag, Callback, IsAt
  <2>5. Past(h.i, h.from)'
    BY <1>2, <1>3, PastStays
  <2>6. "executor" \in shutdown_flags' => h.i <= 2
    <3>1. callbacks[h.i] = "executor" => h.i = 2
      BY <1>2, <2>4 DEF CallbacksInv
    <3> QED
      BY <1>3, <2>4, <3>1 DEF Stopping
  <2>7. log_open'
    BY <1>3, <2>4 DEF Stopping
  <2>8. \A w \in Workers : joiner'[w] # Nobody => thread'[w] = "ended"
    BY <1>3, <1>6, <2>4 DEF Stopping
  <2>9. PICK c \in DOMAIN JoinedBy : c = callbacks'[h.i]
    BY <1>4, <2>4
  <2>10. JoinedFirst(c, 0)'
    BY JoineesAreWorkers DEF JoinedFirst
  <2>11. Stopping(g)'
    BY <2>3, <2>5, <2>6, <2>7, <2>8, <2>9, <2>10
       DEF Stopping, Past, JoinedFirst, JoinStages
  <2> QED
    BY <1>5, <2>2, <2>11
\* A thread the callback joins has ended: the handler goes on to the next.
<1>11. ASSUME h.stage \in {"join", "joining"}, JoinReturns("main"),
              thread[JoinedBy[callbacks[h.i]][h.k]] = "ended",
              UNCHANGED <<shutdown_flags, log_open, joiner>>
       PROVE  Stopping(handler["main"])'
  <2>1. /\ h.i >= 1 /\ callbacks[h.i] \in DOMAIN JoinedBy
        /\ h.k \in 1 .. Len(JoinedBy[callbacks[h.i]])
        /\ JoinedFirst(callbacks[h.i], h.k - 1)
    BY <1>2, <1>3, <1>11 DEF HandlerIsRight, Stopping, JoinStages
  <2>2. PICK n \in Nat : n = h.k + 1
    BY <1>2
  <2>3. PICK s \in {"join", "joined"} :
          s = IF h.k = Len(JoinedBy[callbacks[h.i]]) THEN "joined" ELSE "join"
    OBVIOUS
  <2>4. PICK g \in Handlers : g = Handler(s, h.i, n, h.from, h.masked)
    BY <1>2, <2>2, HandlerTypes DEF Stages
  <2>5. handler'["main"] = g
    BY <1>1, <1>2, <1>11, <2>2, <2>3, <2>4, JoinReturnsIs
       DEF Callback, Becomes
  <2>6. g.stage = s /\ g.i = h.i /\ g.from = h.from /\ g.k = n
    BY <2>4 DEF Handler
  <2>7. PICK c \in DOMAIN JoinedBy :
          c = callbacks[h.i] /\ c = callbacks'[h.i]
    BY <1>4, <2>1
  <2>8. JoinedFirst(c, h.k)'
    <3>1. JoinedFirst(c, h.k)
      <4>1. ASSUME NEW m \in 1 .. Len(JoinedBy[c]), m <= h.k
            PROVE  thread[JoinedBy[c][m]] = "ended"
        <5>1. CASE m = h.k
          BY <1>11, <2>7, <5>1
        <5>2. CASE m <= h.k - 1
          BY <2>1, <2>7, <5>2 DEF JoinedFirst
        <5> QED
          BY <1>2, <2>7, <4>1, <5>1, <5>2, JoineesAreWorkers
      <4> QED
        BY <4>1 DEF JoinedFirst
    <3> QED
      BY <1>2, <3>1, JoinedStays
  <2>9. Past(h.i, h.from)'
    BY <1>2, <1>3, PastStays
  <2>10. \A w \in Workers : joiner'[w] # Nobody => thread'[w] = "ended"
    BY <1>3, <1>6, <1>11 DEF Stopping
  <2>11. /\ "executor" \in shutdown_flags' => h.i <= 2
         /\ ~ log_open' => h.i = 0
    BY <1>3, <1>11 DEF Stopping
  <2>12. n - 1 = h.k
    BY <1>2, <2>2
  <2>13. Stopping(g)'
    BY <2>6, <2>7, <2>8, <2>9, <2>10, <2>11, <2>12
       DEF Stopping, Past, JoinedFirst, JoinStages
  <2> QED
    BY <1>5, <2>5, <2>13
<1>12. CASE Join("main")
  <2>1. PICK w : w = JoinedBy[callbacks[h.i]][h.k]
    OBVIOUS
  <2>2. /\ h.stage = "join" /\ UNCHANGED <<shutdown_flags, log_open>>
        /\ \/ /\ w = "main" \/ joiner[w] # Nobody
              /\ JoinReturns("main") /\ UNCHANGED joiner
           \/ UNCHANGED <<handler, joiner>>
           \/ /\ joiner' = [joiner EXCEPT ![w] = "main"]
              /\ handler' = [handler EXCEPT !["main"].stage = "joining"]
    BY <1>1, <1>12, <2>1 DEF Join, IsAt, Joinee, Callback
  <2>3. /\ h.i >= 1 /\ callbacks[h.i] \in DOMAIN JoinedBy
        /\ h.k \in 1 .. Len(JoinedBy[callbacks[h.i]])
        /\ JoinedFirst(callbacks[h.i], h.k - 1)
    BY <1>2, <1>3, <2>2 DEF HandlerIsRight, Stopping, JoinStages
  <2>4. w \in Workers /\ w # "main"
    BY <1>2, <2>1, <2>3, JoineesAreWorkers
  <2>5. \A x \in Workers : joiner[x] # Nobody => thread[x] = "ended"
    BY <1>3, <2>2 DEF Stopping
  <2>6. CASE (w = "main" \/ joiner[w] # Nobody) /\ JoinReturns("main")
             /\ UNCHANGED joiner
    BY <1>11, <2>1, <2>2, <2>4, <2>5, <2>6
  <2>7. CASE UNCHANGED <<handler, joiner>>
    <3>1. Stopping(h)'
      BY <1>2, <1>3, <2>2, <2>7, StoppingStays
    <3> QED
      BY <1>1, <1>5, <2>7, <3>1
  <2>8. CASE /\ joiner' = [joiner EXCEPT ![w] = "main"]
             /\ handler' = [handler EXCEPT !["main"].stage = "joining"]
    <3>1. PICK g \in Handlers :
            g = Handler("joining", h.i, h.k, h.from, h.masked)
      BY <1>2, HandlerTypes DEF Stages
    <3>2. handler'["main"] = g
      BY <1>1, <1>2, <2>8, <3>1, StartJoiningIs DEF Becomes
    <3>3. g.stage = "joining" /\ g.i = h.i /\ g.from = h.from /\ g.k = h.k
      BY <3>1 DEF Handler
    <3>4. Past(h.i, h.from)'
      BY <1>2, <1>3, PastStays
    <3>5. PICK c \in DOMAIN JoinedBy :
            c = callbacks[h.i] /\ c = callbacks'[h.i]
      BY <1>4, <2>3
    <3>6. JoinedFirst(c, h.k - 1)'
      BY <1>2, <2>3, <3>5, JoinedStays
    <3>7. \A x \in Workers :
            joiner'[x] # Nobody => thread'[x] = "ended" \/ x = JoinedBy[c][h.k]
      BY <1>6, <2>1, <2>5, <2>8, <3>5 DEF ThreadTypes
    <3>8. /\ "executor" \in shutdown_flags' => h.i <= 2
          /\ ~ log_open' => h.i = 0
      BY <1>3, <2>2 DEF Stopping
    <3>9. Stopping(g)'
      BY <3>3, <3>4, <3>5, <3>6, <3>7, <3>8
         DEF Stopping, Past, JoinedFirst, JoinStages
    <3> QED
      BY <1>5, <3>2, <3>9
  <2> QED
    BY <2>2, <2>6, <2>7, <2>8
<1>13. CASE Joined("main")
  BY <1>1, <1>11, <1>13 DEF Joined, IsAt, Joinee, Callback
<1> QED
  BY <1>7, <1>8, <1>9, <1>10, <1>12, <1>13 DEF Handle

LEMMA OneHandlerInit ==
  ASSUME ShutdownInit
  PROVE  OneHandler
  BY DEF ShutdownInit, OneHandler, NothingStopped

LEMMA OneHandlerNext ==
  ASSUME ThreadTypes, StartOrder, CallbacksInv, HandlersInv, OneHandler,
         [ShutdownNext]_shutdownVars
  PROVE  OneHandler'
<1>1. /\ handler \in [Threads -> Handlers] /\ calls \in Nat
      /\ \A t \in Threads : HandlerIsRight(handler[t])
  BY DEF HandlersInv, ThreadTypes
<1>2. NotCalled.stage = "none" /\ ~ NotCalled.masked
  BY DEF NotCalled
<1>3. CASE Signal \/ Fire
  <2>1. calls' = calls + 1
    BY <1>3 DEF Signal, Fire
  <2>2. CASE calls = 0
    <3>1. NothingStopped /\ \A t \in Threads : handler[t] = NotCalled
      BY <2>2 DEF OneHandler
    <3>2. Takes("main")
      BY <1>2, <3>1, ThreadNames DEF Takes
    <3>3. PICK b \in BOOLEAN :
            handler' = [handler EXCEPT !["main"] = Entered(b)]
      BY <1>3, <3>2 DEF Signal, Fire
    <3>4. PICK g : g = Handler("announce", 0, 0, 0, b)
      OBVIOUS
    <3>5. /\ handler'["main"] = g
          /\ \A w \in Workers : handler'[w] = NotCalled
      BY <1>1, <3>1, <3>3, <3>4, ThreadNames, EnteredIs DEF Becomes
    <3>6. NothingStopped'
      BY <1>3, <3>1 DEF Signal, Fire, NothingStopped
    <3>7. Stopping(g)'
      <4>1. g.stage = "announce" /\ g.i = 0 /\ g.from = 0
        BY <3>4 DEF Handler
      <4>2. \A j \in 1 .. Len(callbacks') : ~ (j > 0 /\ j <= 0)
        BY CallbacksStay
      <4> QED
        BY <3>6, <4>1, <4>2 DEF Stopping, NothingStopped, JoinStages
    <3>8. Stopping(handler["main"])'
      BY <3>5, <3>7 DEF Stopping
    <3> QED
      BY <2>1, <2>2, <3>5, <3>8 DEF OneHandler
  <2>3. CASE calls > 0
    BY <1>1, <2>1, <2>3 DEF OneHandler
  <2> QED
    BY <1>1, <2>2, <2>3
<1>4. CASE Quiet
  <2>1. calls = 0 => OneHandler'
    BY <1>4 DEF Quiet, OneHandler, NothingStopped
  <2>2. ASSUME calls = 1
        PROVE  OneHandler'
    <3>1. PICK h : h = handler["main"]
      OBVIOUS
    <3>2. HandlerIsRight(h) /\ Stopping(h)
      BY <1>1, <2>2, <3>1, ThreadNames DEF OneHandler
    <3>3. Stopping(h)'
      BY <1>4, <3>2, StoppingStays DEF Quiet
    <3>4. Stopping(handler["main"])'
      BY <1>4, <3>1, <3>3 DEF Quiet, Stopping
    <3> QED
      BY <1>4, <2>2, <3>4 DEF Quiet, OneHandler
  <2> QED
    BY <1>4, <2>1, <2>2 DEF Quiet, OneHandler
<1>5. ASSUME NEW t \in Threads, Handle(t)
      PROVE  OneHandler'
  <2>1. calls' = calls /\ handler[t].stage # "none"
    BY <1>5 DEF Handle, Announce, LeaveHandler, CloseLog, SetFlag, Join,
                Joined, NextCallback, IsAt
  <2>2. calls # 0 /\ (calls = 1 => t = "main")
    BY <1>2, <2>1, ThreadNames DEF OneHandler
  <2>3. ASSUME calls = 1
        PROVE  OneHandler'
    <3>1. /\ t = "main" /\ Stopping(handler["main"])
          /\ \A w \in Workers : handler[w] = NotCalled
      BY <2>2, <2>3 DEF OneHandler
    <3>2. Stopping(handler["main"])'
      BY <1>5, <3>1, HandleKeeps
    <3>3. \A w \in Workers : handler'[w] = handler[w]
      BY <1>1, <1>5, <3>1, ThreadNames
         DEF Handle, Announce, LeaveHandler, CloseLog, SetFlag, Join, Joined,
             NextCallback, JoinReturns
    <3> QED
      BY <2>1, <2>3, <3>1, <3>2, <3>3 DEF OneHandler
  <2> QED
    BY <2>1, <2>2, <2>3 DEF OneHandler
<1> QED
  BY <1>3, <1>4, <1>5, HandlerSteps

LEMMA ShutdownInvAlways == ShutdownSpec => []ShutdownInv
<1>1. ShutdownInit => ShutdownInv
  BY ShutdownInitTypes, CallbacksInit, HandlersInit, OneHandlerInit
     DEF ShutdownInv
<1>2. ShutdownInv /\ [ShutdownNext]_shutdownVars => ShutdownInv'
  BY ThreadTypesNext, StartOrderNext, CallbacksNext, HandlersNext,
     OneHandlerNext DEF ShutdownInv
<1> QED
  BY <1>1, <1>2, PTL DEF ShutdownSpec

\* The table has room for the four callbacks.
LEMMA AtMostFour ==
  ASSUME ThreadTypes, CallbacksInv
  PROVE  Len(callbacks) <= 4
<1>1. /\ Len(callbacks) \in Nat
      /\ Len(callbacks) <= MainAdded + UdpAdded + CollectorAdded + Adding
  BY DEF CallbacksInv
<1>2. CASE callback_mutex = Nobody
  BY <1>1, <1>2, Counts DEF Adding
<1>3. CASE callback_mutex # Nobody
  <2>1. MainAdded <= 1 \/ UdpAdded = 0 \/ CollectorAdded = 0
    BY <1>3 DEF CallbacksInv, MainAdded, UdpAdded, CollectorAdded
  <2> QED
    BY <1>1, <2>1, Counts
<1> QED
  BY <1>2, <1>3

LEMMA ShutdownTypes == ShutdownInv => ShutdownTypeOK
<1> SUFFICES ASSUME ShutdownInv
             PROVE  ShutdownTypeOK
  OBVIOUS
<1>1. ThreadTypes /\ CallbacksInv /\ HandlersInv
  BY DEF ShutdownInv
<1>2. callbacks \in Seq(Callbacks \cup {"unset"})
      /\ Len(callbacks) <= Cardinality(Callbacks)
  BY <1>1, FourCallbacks, AtMostFour DEF CallbacksInv
<1>3. ASSUME NEW t \in Threads
      PROVE  /\ handler[t].stage \in {"none", "announce", "call", "join",
                                      "joining", "joined"}
             /\ {handler[t].i, handler[t].from} \subseteq 0 .. Len(callbacks)
             /\ handler[t].masked \in BOOLEAN
  <2>1. PICK h \in Handlers : h = handler[t] /\ HandlerIsRight(h)
    BY <1>1 DEF HandlersInv
  <2>2. Len(callbacks) \in Nat
    BY <1>1 DEF CallbacksInv
  <2> QED
    BY <2>1, <2>2, HandlerFields DEF HandlerIsRight, Stages
<1> QED
  BY <1>1, <1>2, <1>3 DEF ShutdownTypeOK, ThreadTypes

\* Which thread a flag stops is one that its callback joins.
LEMMA FlagIsJoined ==
  ASSUME NEW w \in DOMAIN FlagOf
  PROVE  /\ FlagOf[w] \in DOMAIN JoinedBy
         /\ \E m \in 1 .. Len(JoinedBy[FlagOf[w]]) :
              m <= 2 /\ w = JoinedBy[FlagOf[w]][m]
<1>1. CASE w \in {"executor", "udp", "collector"}
  <2>1. /\ FlagOf[w] \in DOMAIN JoinedBy /\ w = JoinedBy[FlagOf[w]][1]
        /\ 1 \in 1 .. Len(JoinedBy[FlagOf[w]])
    BY <1>1, FlagOfIs, JoinedByIs
  <2> QED
    BY <2>1
<1>2. CASE w = "cleaner"
  <2>1. /\ FlagOf[w] \in DOMAIN JoinedBy /\ w = JoinedBy[FlagOf[w]][2]
        /\ 2 \in 1 .. Len(JoinedBy[FlagOf[w]])
    BY <1>2, FlagOfIs, JoinedByIs
  <2> QED
    BY <2>1
<1> QED
  BY <1>1, <1>2, FlagOfIs

\* A thread whose callback the handler has come past has ended.
LEMMA PastHasEnded ==
  ASSUME ShutdownInv, calls = 1, NEW w \in DOMAIN FlagOf,
         NEW j \in 1 .. handler["main"].from, callbacks[j] = FlagOf[w],
         j > handler["main"].i
  PROVE  thread[w] = "ended"
<1>1. PICK h \in Handlers :
        h = handler["main"] /\ HandlerIsRight(h) /\ Stopping(h)
  BY ThreadNames DEF ShutdownInv, HandlersInv, OneHandler
<1>2. j \in 1 .. Len(callbacks) /\ j > h.i /\ j <= h.from
  BY <1>1, HandlerFields DEF HandlerIsRight, ShutdownInv, CallbacksInv
<1>3. JoinedFirst(callbacks[j], 2)
  BY <1>1, <1>2, FlagIsJoined DEF Stopping
<1> QED
  BY <1>3, FlagIsJoined DEF JoinedFirst

\* Shutdown.ProducersStopFirst: whatever is started when the signal comes, as
\* long as sigint_handler has been called once, the executor's on_shutdown
\* comes only when the threads that give it statements, and whose callbacks
\* the handler found, have ended (main.c starts the executor before them, and
\* signal-handler.c runs the callbacks from the last).
THEOREM ProducersStop == ShutdownSpec => []ProducersStopFirst
<1>1. ShutdownInv => ProducersStopFirst
  <2> SUFFICES ASSUME ShutdownInv, calls = 1, "executor" \in shutdown_flags,
                      NEW w \in DOMAIN FlagOf \ {"executor"},
                      FlagOf[w] \in Found
               PROVE  thread[w] = "ended"
    BY ShutdownTypes DEF ProducersStopFirst
  <2>1. PICK j \in 1 .. handler["main"].from : callbacks[j] = FlagOf[w]
    BY DEF Found
  <2>2. FlagOf[w] \in {"udp", "modbus"}
    BY FlagOfIs
  <2>3. PICK h \in Handlers :
          h = handler["main"] /\ HandlerIsRight(h) /\ Stopping(h)
    BY ThreadNames DEF ShutdownInv, HandlersInv, OneHandler
  <2>4. j \in 1 .. Len(callbacks) /\ h.i \in Nat
    BY <2>3, HandlerFields DEF HandlerIsRight, ShutdownInv, CallbacksInv
  <2>5. j >= 3
    BY <2>1, <2>2, <2>4 DEF ShutdownInv, CallbacksInv
  <2>6. j > h.i
    BY <2>3, <2>4, <2>5 DEF Stopping
  <2> QED
    BY <2>1, <2>3, <2>6, PastHasEnded
<1> QED
  BY <1>1, ShutdownInvAlways, PTL

\* Shutdown.LogOutlivesThreads: as long as sigint_handler has been called
\* once, log.c's on_shutdown, whose callback main adds first, closes the file
\* after every thread whose callback the handler found has ended.
THEOREM LogClosesLast == ShutdownSpec => []LogOutlivesThreads
<1>1. ShutdownInv => LogOutlivesThreads
  <2> SUFFICES ASSUME ShutdownInv, calls = 1, ~ log_open,
                      NEW w \in DOMAIN FlagOf, FlagOf[w] \in Found
               PROVE  thread[w] = "ended"
    BY DEF LogOutlivesThreads
  <2>1. PICK j \in 1 .. handler["main"].from : callbacks[j] = FlagOf[w]
    BY DEF Found
  <2>2. handler["main"].i = 0
    BY DEF ShutdownInv, OneHandler, Stopping
  <2>3. j > handler["main"].i
    BY <2>2
  <2> QED
    BY <2>1, <2>3, PastHasEnded
<1> QED
  BY <1>1, ShutdownInvAlways, PTL

-----------------------------------------------------------------------------
(* No circle of joins.  This one is about any number of calls of           *)
(* sigint_handler: several threads may be in it, each joining another.     *)

\* What the handler h of thread t relies on when it waits: the part has been
\* told to stop, the thread it joins exists, and nobody else waits for it.
Told(t, h) ==
  /\ h.stage \in JoinStages => callbacks[h.i] \in shutdown_flags
  /\ h.stage = "joining" =>
       /\ joiner[JoinedBy[callbacks[h.i]][h.k]] = t
       /\ thread[JoinedBy[callbacks[h.i]][h.k]] # "none"

JoinsInv ==
  /\ calls > 0 => handler["main"].stage # "none"
  /\ \A t \in Threads : Told(t, handler[t])

LEMMA FlagsAndJoinersStay ==
  ASSUME ThreadTypes, HandlersInv, [ShutdownNext]_shutdownVars
  PROVE  /\ shutdown_flags \subseteq shutdown_flags'
         /\ \A w \in Workers : joiner[w] # Nobody => joiner'[w] = joiner[w]
<1>1. CASE Signal \/ Fire \/ Quiet
  BY <1>1 DEF Signal, Fire, Quiet
<1>2. ASSUME NEW t \in Threads, Handle(t)
      PROVE  /\ shutdown_flags \subseteq shutdown_flags'
             /\ \A w \in Workers : joiner[w] # Nobody => joiner'[w] = joiner[w]
  <2>1. CASE Join(t)
    BY <2>1 DEF Join, ThreadTypes
  <2> QED
    BY <1>2, <2>1 DEF Handle, Announce, LeaveHandler, CloseLog, SetFlag,
                      Joined, NextCallback
<1> QED
  BY <1>1, <1>2, HandlerSteps

\* A thread that has been created stays so.
LEMMA CreatedStays ==
  ASSUME ThreadTypes, StartOrder, [ShutdownNext]_shutdownVars,
         NEW w \in Workers, thread[w] # "none"
  PROVE  thread'[w] # "none"
<1>1. CASE Rests \/ MainBeginsAdding \/ MainEndsAdding \/ StartFails
  BY <1>1 DEF Rests, MainBeginsAdding, MainEndsAdding, StartFails
<1>2. CASE Moves
  BY <1>2 DEF Moves, ThreadTypes
<1>3. CASE CreateThread
  BY <1>3 DEF CreateThread, ThreadTypes, Starts
<1>4. CASE InitCollector
  <2>1. thread["collector"] = "start" /\ thread["cleaner"] = "none"
    BY <1>4 DEF InitCollector, StartOrder
  <2> QED
    BY <1>4, <2>1 DEF InitCollector, ThreadTypes
<1>5. ASSUME NEW x \in {"udp", "collector"},
             WorkerBeginsAdding(x) \/ WorkerEndsAdding(x)
      PROVE  thread'[w] # "none"
  BY <1>5 DEF WorkerBeginsAdding, WorkerEndsAdding, Adds, ThreadTypes
<1> QED
  BY <1>1, <1>2, <1>3, <1>4, <1>5, ShutdownSteps

\* The thread a handler joins, and the part that it belongs to.
LEMMA JoineeIs ==
  ASSUME NEW h, HandlerIsRight(h), h.stage \in {"join", "joining"}
  PROVE  /\ callbacks[h.i] \in DOMAIN JoinedBy
         /\ JoinedBy[callbacks[h.i]][h.k] \in DOMAIN FlagOf
         /\ FlagOf[JoinedBy[callbacks[h.i]][h.k]] = callbacks[h.i]
<1>1. PICK c \in DOMAIN JoinedBy : c = callbacks[h.i]
  BY DEF HandlerIsRight, JoinStages
<1>2. h.k \in 1 .. Len(JoinedBy[c])
  BY <1>1 DEF HandlerIsRight, JoinStages
<1>3. CASE c = "modbus"
  BY <1>1, <1>2, <1>3, JoinedByIs, FlagOfIs
<1>4. CASE c \in {"udp", "executor"}
  BY <1>1, <1>2, <1>4, JoinedByIs, FlagOfIs
<1> QED
  BY <1>1, <1>3, <1>4, JoinedByIs

\* What a handler relies on stays so whatever step is taken.
LEMMA ToldStays ==
  ASSUME ThreadTypes, StartOrder, CallbacksInv, HandlersInv,
         [ShutdownNext]_shutdownVars,
         NEW t \in Threads, NEW h \in Handlers, HandlerIsRight(h), Told(t, h)
  PROVE  Told(t, h)'
<1>1. ASSUME h.stage \in JoinStages
      PROVE  callbacks'[h.i] = callbacks[h.i]
  <2>1. h.i >= 1 /\ callbacks[h.i] \in DOMAIN JoinedBy /\ h.i \in Nat
        /\ h.from \in Nat /\ h.i <= h.from /\ h.from <= Len(callbacks)
    BY <1>1, HandlerFields DEF HandlerIsRight
  <2>2. h.i \in 1 .. Len(callbacks) /\ callbacks[h.i] # "unset"
    BY <2>1, CallbacksStay, JoinedByIs
  <2> QED
    BY <2>2, CallbacksStay
<1>2. ASSUME h.stage = "joining"
      PROVE  Told(t, h)'
  <2>1. h.stage \in JoinStages
    BY <1>2 DEF JoinStages
  <2>2. PICK w \in Workers : w = JoinedBy[callbacks[h.i]][h.k]
    BY <1>2, JoineeIs, FlagOfIs
  <2>3. joiner[w] = t /\ thread[w] # "none" /\ t # Nobody
    BY <1>2, <2>2, ThreadNames DEF Told
  <2>4. joiner'[w] = t /\ thread'[w] # "none"
    BY <2>3, FlagsAndJoinersStay, CreatedStays
  <2>5. callbacks[h.i] \in shutdown_flags'
    BY <2>1, FlagsAndJoinersStay DEF Told
  <2> QED
    BY <1>1, <2>1, <2>2, <2>4, <2>5 DEF Told
<1>3. CASE h.stage # "joining"
  BY <1>1, <1>3, FlagsAndJoinersStay DEF Told
<1> QED
  BY <1>2, <1>3

\* A step of the handler itself.
LEMMA HandleTells ==
  ASSUME ThreadTypes, StartOrder, CallbacksInv, HandlersInv, JoinsInv,
         [ShutdownNext]_shutdownVars, NEW t \in Threads, Handle(t)
  PROVE  \/ UNCHANGED handler
         \/ \E g \in Handlers : Becomes(t, g) /\ Told(t, g)'
                                /\ g.stage # "none"
<1>1. PICK h \in Handlers :
        h = handler[t] /\ HandlerIsRight(h) /\ Told(t, h)
  BY DEF HandlersInv, JoinsInv
<1>2. handler \in [Threads -> Handlers] /\ h.i \in Nat /\ h.k \in Nat
      /\ h.from \in Nat /\ h.masked \in BOOLEAN
  BY HandlerFields DEF HandlersInv
<1>3. CASE Announce(t)
  <2>1. PICK n \in Nat : n = Len(callbacks)
    BY DEF CallbacksInv
  <2>2. PICK g \in Handlers : g = Handler("call", n, h.k, n, h.masked)
    BY <1>2, HandlerTypes DEF Stages
  <2>3. Becomes(t, g)
    BY <1>1, <1>2, <1>3, <2>1, <2>2, AnnounceIs
  <2> QED
    BY <2>2, <2>3 DEF Told, Handler, JoinStages
<1>4. CASE CloseLog(t) \/ NextCallback(t)
  <2>1. h.i > 0
    <3>1. h.stage \in JoinStages => h.i >= 1
      BY <1>1 DEF HandlerIsRight
    <3>2. h.i > 0 \/ h.stage = "joined"
      BY <1>1, <1>4 DEF CloseLog, NextCallback, IsAt
    <3> QED
      BY <1>2, <3>1, <3>2 DEF JoinStages
  <2>2. PICK n \in Nat : n = h.i - 1
    BY <1>2, <2>1
  <2>3. PICK g \in Handlers : g = Handler("call", n, h.k, h.from, h.masked)
    BY <1>2, HandlerTypes DEF Stages
  <2>4. Becomes(t, g)
    BY <1>1, <1>2, <1>4, <2>2, <2>3, GoesBack
  <2> QED
    BY <2>3, <2>4 DEF Told, Handler, JoinStages
<1>5. CASE SetFlag(t)
  <2>1. PICK g \in Handlers : g = Handler("join", h.i, 1, h.from, h.masked)
    BY <1>2, HandlerTypes DEF Stages
  <2>2. Becomes(t, g)
    BY <1>1, <1>2, <1>5, <2>1, SetFlagIs
  <2>3. g.stage = "join" /\ g.i = h.i
    BY <2>1 DEF Handler
  <2>4. callbacks'[g.i] \in shutdown_flags'
    BY <1>1, <1>5, <2>3 DEF SetFlag, Callback
  <2> QED
    BY <2>2, <2>3, <2>4 DEF Told
<1>6. CASE JoinReturns(t) /\ UNCHANGED callbacks
           /\ h.stage \in {"join", "joining"}
  <2>1. PICK n \in Nat, s \in {"join", "joined"} :
          /\ n = h.k + 1
          /\ s = IF h.k = Len(JoinedBy[Callback(t)]) THEN "joined" ELSE "join"
    BY <1>2
  <2>2. PICK g \in Handlers : g = Handler(s, h.i, n, h.from, h.masked)
    BY <1>2, HandlerTypes DEF Stages
  <2>3. Becomes(t, g)
    BY <1>1, <1>2, <1>6, <2>1, <2>2, JoinReturnsIs
  <2>4. g.stage = s /\ g.i = h.i
    BY <2>2 DEF Handler
  <2>5. callbacks'[g.i] \in shutdown_flags'
    BY <1>1, <1>6, <2>4, FlagsAndJoinersStay DEF Told, JoinStages
  <2> QED
    BY <2>1, <2>3, <2>4, <2>5 DEF Told
<1>7. CASE Join(t) /\ handler' = [handler EXCEPT ![t].stage = "joining"]
           /\ thread[Joinee(t)] # "none"
           /\ joiner' = [joiner EXCEPT ![Joinee(t)] = t]
  <2>1. h.stage = "join" /\ UNCHANGED <<callbacks, thread, shutdown_flags>>
    BY <1>1, <1>7 DEF Join, IsAt
  <2>2. PICK w \in Workers : w = JoinedBy[callbacks[h.i]][h.k]
    BY <1>1, <2>1, JoineeIs, FlagOfIs
  <2>3. w = Joinee(t)
    BY <1>1, <2>2 DEF Joinee, Callback
  <2>4. joiner'[w] = t /\ thread'[w] # "none"
    BY <1>7, <2>1, <2>3 DEF ThreadTypes
  <2>5. PICK g \in Handlers :
          g = Handler("joining", h.i, h.k, h.from, h.masked)
    BY <1>2, HandlerTypes DEF Stages
  <2>6. Becomes(t, g)
    BY <1>1, <1>2, <1>7, <2>5, StartJoiningIs
  <2>7. g.stage = "joining" /\ g.i = h.i /\ g.k = h.k
    BY <2>5 DEF Handler
  <2>8. callbacks'[g.i] \in shutdown_flags'
    BY <1>1, <2>1, <2>7 DEF Told, JoinStages
  <2> QED
    BY <2>1, <2>2, <2>4, <2>6, <2>7, <2>8 DEF Told
<1>8. CASE LeaveHandler(t) \/ Join(t) \/ Joined(t)
  BY <1>1, <1>6, <1>7, <1>8 DEF LeaveHandler, Join, Joined, IsAt
<1> QED
  BY <1>3, <1>4, <1>5, <1>8 DEF Handle

LEMMA JoinsInvNext ==
  ASSUME ShutdownInv, JoinsInv, [ShutdownNext]_shutdownVars
  PROVE  JoinsInv'
<1> USE DEF ShutdownInv
<1>1. /\ handler \in [Threads -> Handlers]
      /\ \A t \in Threads : HandlerIsRight(handler[t]) /\ Told(t, handler[t])
  BY DEF HandlersInv, JoinsInv
<1>2. ASSUME UNCHANGED handler, NEW t \in Threads
      PROVE  Told(t, handler[t])'
  <2>1. PICK h \in Handlers : h = handler[t]
    BY <1>1
  <2>2. Told(t, h)'
    BY <1>1, <2>1, ToldStays
  <2> QED
    BY <1>2, <2>1, <2>2 DEF Told
<1>3. ASSUME NEW t \in Threads, NEW g \in Handlers, Becomes(t, g), Told(t, g)',
             NEW x \in Threads
      PROVE  Told(x, handler[x])'
  <2>1. PICK h \in Handlers : h = handler'[x]
    BY <1>3 DEF Becomes
  <2>2. Told(x, h)'
    BY <1>1, <1>3, <2>1, ToldStays DEF Becomes
  <2> QED
    BY <2>1, <2>2 DEF Told
<1>4. CASE Signal \/ Fire
  <2>1. PICK t \in Threads, b \in BOOLEAN :
          /\ handler' = [handler EXCEPT ![t] = Entered(b)]
          /\ t = "main" \/ ~ Takes("main")
    BY <1>4, ThreadNames DEF Signal, Fire
  <2>2. PICK g \in Handlers : g = Handler("announce", 0, 0, 0, b)
    BY HandlerTypes DEF Stages
  <2>3. Becomes(t, g) /\ g.stage = "announce"
    BY <1>1, <2>1, <2>2, EnteredIs DEF Handler
  <2>4. Told(t, g)'
    BY <2>3 DEF Told, JoinStages
  <2>5. handler'["main"].stage # "none"
    <3>1. CASE t = "main"
      BY <2>3, <3>1 DEF Becomes
    <3>2. CASE t # "main"
      <4>1. handler["main"].stage # "none"
        <5>1. ~ Takes("main")
          BY <2>1, <3>2
        <5>2. handler["main"] # NotCalled
          BY <5>1 DEF Takes, NotCalled
        <5> QED
          BY <5>2, ThreadNames DEF JoinsInv, OneHandler, ThreadTypes
      <4> QED
        BY <2>3, <3>2, <4>1, ThreadNames DEF Becomes
    <3> QED
      BY <3>1, <3>2
  <2> QED
    BY <1>3, <2>3, <2>4, <2>5 DEF JoinsInv
<1>5. CASE Quiet
  BY <1>2, <1>5 DEF Quiet, JoinsInv
<1>6. ASSUME NEW t \in Threads, Handle(t)
      PROVE  JoinsInv'
  <2>1. calls' = calls
    BY <1>6 DEF Handle, Announce, LeaveHandler, CloseLog, SetFlag, Join,
                Joined, NextCallback
  <2>2. CASE UNCHANGED handler
    BY <1>2, <2>1, <2>2 DEF JoinsInv
  <2>3. ASSUME NEW g \in Handlers, Becomes(t, g), Told(t, g)',
               g.stage # "none"
        PROVE  JoinsInv'
    <3>1. calls > 0 => handler'["main"].stage # "none"
      BY <2>3, ThreadNames DEF JoinsInv, Becomes
    <3> QED
      BY <1>3, <2>1, <2>3, <3>1 DEF JoinsInv
  <2> QED
    BY <1>6, <2>2, <2>3, HandleTells
<1> QED
  BY <1>4, <1>5, <1>6, HandlerSteps

LEMMA JoinsInvAlways == ShutdownSpec => [](ShutdownInv /\ JoinsInv)
<1>1. ShutdownInit => JoinsInv
  BY DEF ShutdownInit, JoinsInv, Told, NotCalled, JoinStages
<1> QED
  BY <1>1, ShutdownInvAlways, JoinsInvNext, PTL DEF ShutdownSpec

\* Some call of sigint_handler is not waiting for another one: it can go on,
\* or it waits for a thread that exists, has been told to stop and is not in
\* the handler itself.
SomeHandlerGoesOn ==
  \E t \in Threads :
    \/ handler[t].stage \notin {"none", "joining"}
    \/ /\ handler[t].stage = "joining"
       /\ handler[Joinee(t)].stage = "none"
       /\ thread[Joinee(t)] # "none"
       /\ FlagOf[Joinee(t)] \in shutdown_flags

LEMMA ThreadsAreFinite == IsFiniteSet(Threads)
<1>1. IsFiniteSet({"executor"} \cup {"udp"} \cup {"collector"})
  BY FS_Singleton, FS_Union
<1>2. IsFiniteSet({"cleaner"} \cup {"rpmsg"} \cup {"main"})
  BY FS_Singleton, FS_Union
<1>3. Threads = ({"executor"} \cup {"udp"} \cup {"collector"})
                  \cup ({"cleaner"} \cup {"rpmsg"} \cup {"main"})
  BY DEF Threads, Workers
<1> QED
  BY <1>1, <1>2, <1>3, FS_Union

\* Once sigint_handler has been called, its calls on several threads never
\* wait for each other in a circle: a thread is joined by one other, refused
\* to the rest, and the main thread, which is in the handler first, by none.
THEOREM JoinsAreNoCircle ==
  ShutdownSpec => [](calls > 0 => SomeHandlerGoesOn)
<1>1. ASSUME ShutdownInv, JoinsInv, calls > 0
      PROVE  SomeHandlerGoesOn
  <2> DEFINE J == {t \in Threads : handler[t].stage = "joining"}
             joined == [t \in J |-> Joinee(t)]
  <2>1. ASSUME NEW t \in J
        PROVE  /\ Joinee(t) \in Workers /\ joiner[Joinee(t)] = t
               /\ thread[Joinee(t)] # "none"
               /\ FlagOf[Joinee(t)] \in shutdown_flags
    <3>1. PICK h : h = handler[t]
      OBVIOUS
    <3>2. HandlerIsRight(h) /\ Told(t, h) /\ h.stage = "joining"
      BY <1>1, <3>1 DEF ShutdownInv, HandlersInv, JoinsInv
    <3> QED
      BY <3>1, <3>2, JoineeIs, FlagOfIs DEF Joinee, Callback, Told, JoinStages
  <2>2. CASE "main" \notin J
    BY <1>1, <2>2, ThreadNames DEF JoinsInv, SomeHandlerGoesOn
  <2>3. ASSUME "main" \in J, \A t \in J : Joinee(t) \in J
        PROVE  FALSE
    <3>1. PICK S \in SUBSET Threads : S = J
      OBVIOUS
    <3>2. IsFiniteSet(S)
      BY ThreadsAreFinite, FS_Subset
    <3>3. /\ IsFiniteSet(S \ {"main"})
          /\ Cardinality(S \ {"main"}) = Cardinality(S) - 1
          /\ Cardinality(S) \in Nat
      BY <2>3, <3>1, <3>2, FS_RemoveElement, FS_CardinalityType
    <3>4. PICK f \in [S -> S \ {"main"}] : f = joined
      BY <2>1, <2>3, <3>1, ThreadNames
    <3>5. PICK x \in S, y \in S : x # y /\ f[x] = f[y]
      BY <3>2, <3>3, FS_PigeonHole
    <3>6. x \in J /\ y \in J /\ x # y /\ Joinee(x) = Joinee(y)
      BY <3>1, <3>4, <3>5
    <3> QED
      BY <2>1, <3>6
  <2>4. ASSUME "main" \in J, NEW t \in J, Joinee(t) \notin J
        PROVE  SomeHandlerGoesOn
    <3>1. Joinee(t) \in Threads
      BY <2>1, ThreadNames
    <3> QED
      BY <2>1, <2>4, <3>1 DEF SomeHandlerGoesOn
  <2> QED
    BY <2>2, <2>3, <2>4
<1> QED
  BY <1>1, JoinsInvAlways, PTL
=============================================================================
