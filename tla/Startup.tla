------------------------------ MODULE Startup ------------------------------
(***************************************************************************)
(* The start of the Demo3 collector (data-collector-demo3/src): main reads *)
(* its settings line by line (config/demo3_config.c), opens the log,       *)
(* stages an update package for the boot loader (ota/demo3_ota.c), checks  *)
(* the settings it needs and starts the parts of the program.              *)
(*                                                                         *)
(* The package, the staged file and the reboot marker outlive the process. *)
(* Starts follow each other on them; every call on a file may fail, the    *)
(* process may end before any step, and a new package may be put in place  *)
(* of the old one at any time, by a rename.  The boot loader, which takes  *)
(* the staged file when it finds the marker, is not in the repository.     *)
(***************************************************************************)
EXTENDS Integers, Sequences, SequencesExt, TLC

CONSTANTS Chunks,       \* buffers of 64 KiB that make one package
          Versions,     \* packages
          ConfigFiles,  \* the settings the program may be started with
          MaxStarts     \* bound: starts of the program

ASSUME ChunksAssumption == Chunks \in Nat \ {0}
ASSUME StartsAssumption == MaxStarts \in Nat

\* The lines of the settings; each of them is a sequence of some.
Lines == UNION {Range(file) : file \in ConfigFiles}
ASSUME ConfigFilesAssumption == ConfigFiles \subseteq Seq(Lines)

VARIABLES
  pc,           \* what main does next; "off" while no process runs
  lines,        \* the lines of the configuration file of this start
  line_number,  \* lines of it that have been read
  config,       \* demo3_config
  reading,      \* the version behind the open package file
  ota_staged,
  starts,       \* history: starts of the program
  package,      \* the package file, NoVersion if there is none
  staged, staged_tmp,   \* the staged file and its temporary file
  marker, marker_tmp    \* the reboot marker and its temporary file

files == <<package, staged, staged_tmp, marker, marker_tmp>>
vars == <<pc, lines, line_number, config, reading, ota_staged, starts,
          files>>

NoVersion == 0
ASSUME VersionsAssumption == NoVersion \notin Versions
NoFile == [version |-> NoVersion, chunks |-> 0]

\* A package of which the first n buffers are written.
Part(v, n) == [version |-> v, chunks |-> n]
Package(v) == Part(v, Chunks)
Files == [version : Versions \cup {NoVersion}, chunks : 0 .. Chunks]
MarkerStates == {"absent", "partial", "whole"}

-----------------------------------------------------------------------------
(* Settings.  The keys are those that decide how the start goes on; a line *)
(* is a key with a value, where "bad" stands for text the key's type does  *)
(* not accept, an unknown key for any other one, "" for an empty or a      *)
(* comment line and "no separator" for a line without an equals sign.      *)

Defaults == [source |-> "modbus", serial_device |-> "", baudrate |-> "9600",
             status_enabled |-> "yes", ota_enabled |-> "no",
             ota_package_path |-> "", sensor_power_enabled |-> "no",
             led_enabled |-> "no"]

Keys == DOMAIN Defaults
Values == Range(Defaults) \cup {line.value : line \in Lines}

TypeOK ==
  /\ pc \in {"off", "config", "log", "status", "directories", "open", "copy",
             "close", "rename", "remove", "open_marker", "write_marker",
             "rename_marker", "source", "power", "mysql", "serial",
             "threads", "running"}
  /\ reading \in Versions \cup {NoVersion}
  /\ package \in Versions \cup {NoVersion}
  /\ staged \in Files /\ staged_tmp \in Files
  /\ marker \in MarkerStates /\ marker_tmp \in MarkerStates
  /\ ota_staged \in BOOLEAN
  /\ starts \in 0 .. MaxStarts
  /\ lines \in Seq(Lines) /\ line_number \in 0 .. Len(lines)
  /\ config \in [Keys -> Values]

\* demo3_config_apply_line: an empty line and an unknown key change nothing.
Refused(line) == line.key = "no separator" \/ line.value = "bad"

\* Mutant: what a line sets first cannot be set again.
FirstLineWins(settings, line) ==
  IF line.key \in Keys /\ settings[line.key] = Defaults[line.key]
  THEN [settings EXCEPT ![line.key] = line.value]
  ELSE settings

ApplyLine(settings, line) ==
  IF line.key \in Keys THEN [settings EXCEPT ![line.key] = line.value]
                       ELSE settings

Enabled(key) == config[key] = "yes"

\* demo3_baudrate_to_speed
KnownSpeeds == {"9600", "19200", "38400", "57600", "115200"}

-----------------------------------------------------------------------------

Init ==
  /\ pc = "off" /\ lines = <<>> /\ line_number = 0 /\ config = Defaults
  /\ reading = NoVersion /\ ota_staged = FALSE /\ starts = 0
  /\ package \in Versions \cup {NoVersion}
  /\ staged = NoFile /\ staged_tmp = NoFile
  /\ marker = "absent" /\ marker_tmp = "absent"

\* The next step of main, all else unchanged but what the action names.
Goto(step) == /\ pc' = step
              /\ UNCHANGED <<lines, line_number, starts>>

\* The environment puts a package in place.
PlacePackage ==
  /\ package' \in Versions
  /\ UNCHANGED <<pc, lines, line_number, config, reading, ota_staged, starts,
                 staged, staged_tmp, marker, marker_tmp>>

\* main and demo3_config_load: every setting has its default, and a file that
\* cannot be opened ends the start.  No DEMO3_CONFIG is as a file of no lines.
Start ==
  /\ pc = "off" /\ starts < MaxStarts
  /\ starts' = starts + 1
  /\ pc' \in {"config", "off"}
  /\ lines' \in ConfigFiles /\ line_number' = 0
  /\ config' = Defaults
  /\ ota_staged' = FALSE
  /\ UNCHANGED <<reading, files>>

\* The lines are applied in turn.  The first that is refused ends the start,
\* which leaves applied what came before it.
ReadLine ==
  /\ pc = "config" /\ line_number < Len(lines)
  /\ LET line == lines[line_number + 1]
     IN  IF Refused(line) THEN pc' = "off" /\ UNCHANGED config
         ELSE config' = ApplyLine(config, line) /\ UNCHANGED pc
  /\ line_number' = line_number + 1
  /\ UNCHANGED <<lines, reading, ota_staged, starts, files>>

EndOfFile ==
  /\ pc = "config" /\ line_number = Len(lines)
  /\ Goto("log")
  /\ UNCHANGED <<config, reading, ota_staged, files>>

\* m_log_init succeeds or the program returns.
InitLog ==
  /\ pc = "log"
  /\ \E ok \in BOOLEAN : Goto(IF ok THEN "status" ELSE "off")
  /\ UNCHANGED <<config, reading, ota_staged, files>>

\* A status file whose directory cannot be made is given up; then the
\* package is staged, if that is asked for and a path is given.
PrepareStatus ==
  /\ pc = "status"
  /\ \E ok \in BOOLEAN :
       config' = IF ok THEN config
                 ELSE [config EXCEPT !.status_enabled = "no"]
  /\ Goto(IF Enabled("ota_enabled") /\ config.ota_package_path # ""
          THEN "directories" ELSE "source")
  /\ UNCHANGED <<reading, ota_staged, files>>

-----------------------------------------------------------------------------
(* Staging.  Whatever fails, the collector continues without it.           *)

PrepareDirectories ==
  /\ pc = "directories"
  /\ \E ok \in BOOLEAN : Goto(IF ok THEN "open" ELSE "source")
  /\ UNCHANGED <<config, reading, ota_staged, files>>

\* The package and then the temporary file are opened.
OpenPackage ==
  /\ pc = "open"
  /\ \/ /\ Goto("source")
        /\ UNCHANGED <<reading, staged_tmp>>
     \/ /\ package # NoVersion
        /\ reading' = package
        /\ staged_tmp' = Part(package, 0)
        /\ Goto("copy")
  /\ UNCHANGED <<config, ota_staged, package, staged, marker, marker_tmp>>

\* Mutant: the result of a write is not looked at.
CopyFailureIgnored == "close"

CopyFailure == "remove"

\* fread returns something.
MoreToRead == staged_tmp.chunks < Chunks

\* One buffer, or an error of the read or of the write, or the end.
CopyChunk ==
  /\ pc = "copy"
  /\ \/ /\ MoreToRead
        /\ staged_tmp' = Part(staged_tmp.version, staged_tmp.chunks + 1)
        /\ Goto("copy")
     \/ /\ MoreToRead
        /\ Goto(CopyFailure)
        /\ UNCHANGED staged_tmp
     \/ /\ ~MoreToRead
        /\ Goto("close")
        /\ UNCHANGED staged_tmp
  /\ UNCHANGED <<config, reading, ota_staged, package, staged, marker,
                 marker_tmp>>

\* fclose writes what stdio still holds: it may fail, and then the last
\* buffer is not in the file.
CloseStaged ==
  /\ pc = "close"
  /\ \/ Goto("rename") /\ UNCHANGED staged_tmp
     \/ /\ staged_tmp' = Part(staged_tmp.version, Chunks - 1)
        /\ Goto("remove")
  /\ UNCHANGED <<config, reading, ota_staged, package, staged, marker,
                 marker_tmp>>

RenameStaged ==
  /\ pc = "rename"
  /\ \/ /\ staged' = staged_tmp
        /\ staged_tmp' = NoFile
        /\ Goto("open_marker")
     \/ Goto("remove") /\ UNCHANGED <<staged, staged_tmp>>
  /\ UNCHANGED <<config, reading, ota_staged, package, marker, marker_tmp>>

\* remove: its own failure is not looked at.
RemoveTemporary ==
  /\ pc = "remove"
  /\ staged_tmp' \in {staged_tmp, NoFile}
  /\ Goto("source")
  /\ UNCHANGED <<config, reading, ota_staged, package, staged, marker,
                 marker_tmp>>

OpenMarker ==
  /\ pc = "open_marker"
  /\ \/ marker_tmp' = "partial" /\ Goto("write_marker")
     \/ UNCHANGED marker_tmp /\ Goto("source")
  /\ UNCHANGED <<config, reading, ota_staged, package, staged, staged_tmp,
                 marker>>

\* The line is written and the file closed; if one fails it is removed.
WriteMarker ==
  /\ pc = "write_marker"
  /\ \/ marker_tmp' = "whole" /\ Goto("rename_marker")
     \/ marker_tmp' \in {"partial", "absent"} /\ Goto("source")
  /\ UNCHANGED <<config, reading, ota_staged, package, staged, staged_tmp,
                 marker>>

\* Mutant: a marker that could not be put in place counts as well.
StagedAnyway(renamed) == TRUE

StagedAfter(renamed) == renamed

RenameMarker ==
  /\ pc = "rename_marker"
  /\ \E renamed \in BOOLEAN :
       /\ IF renamed THEN marker' = marker_tmp /\ marker_tmp' = "absent"
          ELSE marker_tmp' \in {"whole", "absent"} /\ UNCHANGED marker
       /\ ota_staged' = StagedAfter(renamed)
  /\ Goto("source")
  /\ UNCHANGED <<config, reading, package, staged, staged_tmp>>

-----------------------------------------------------------------------------

\* Only the two known data sources are accepted.
CheckSource ==
  /\ pc = "source"
  /\ Goto(IF config.source \in {"modbus", "rpmsg"} THEN "power" ELSE "off")
  /\ UNCHANGED <<config, reading, ota_staged, files>>

\* The supply of the sensors is switched off and on, and the LED controller
\* started, where configured; the results of both are ignored.
PowerCycle ==
  /\ pc = "power"
  /\ Goto("mysql")
  /\ UNCHANGED <<config, reading, ota_staged, files>>

InitMysqlLibrary ==
  /\ pc = "mysql"
  /\ \E ok \in BOOLEAN : Goto(IF ok THEN "serial" ELSE "off")
  /\ UNCHANGED <<config, reading, ota_staged, files>>

CheckSerial ==
  /\ pc = "serial"
  /\ Goto(IF /\ config.source = "modbus"
             /\ config.serial_device = "" \/ config.baudrate \notin KnownSpeeds
          THEN "off" ELSE "threads")
  /\ UNCHANGED <<config, reading, ota_staged, files>>

\* start_mysql_executor, start_public_udp_collector and the source; if one
\* fails the program shuts down (module Shutdown).
StartThreads ==
  /\ pc = "threads"
  /\ \E ok \in BOOLEAN : Goto(IF ok THEN "running" ELSE "off")
  /\ UNCHANGED <<config, reading, ota_staged, files>>

\* The process ends: a kill at any step, or the end of a run.
End ==
  /\ pc # "off"
  /\ Goto("off")
  /\ UNCHANGED <<config, reading, ota_staged, files>>

MainStep ==
  \/ ReadLine \/ EndOfFile
  \/ InitLog \/ PrepareStatus
  \/ PrepareDirectories \/ OpenPackage \/ CopyChunk \/ CloseStaged
  \/ RenameStaged \/ RemoveTemporary
  \/ OpenMarker \/ WriteMarker \/ RenameMarker
  \/ CheckSource \/ PowerCycle \/ InitMysqlLibrary \/ CheckSerial
  \/ StartThreads

Next == PlacePackage \/ Start \/ MainStep \/ End

Spec == Init /\ [][Next]_vars

-----------------------------------------------------------------------------

\* What the boot loader may take is always a whole package, of one version:
\* a marker stands beside nothing else, whichever starts were killed or
\* failed half way, and whatever they left in temporary files
\* (demo3_ota_stage_package, demo3_ota_write_reboot_marker).
MarkerNamesWholePackage ==
  /\ staged = NoFile \/ \E v \in Versions : staged = Package(v)
  /\ marker # "absent" => marker = "whole" /\ staged # NoFile

\* A collector that reports a staged update (ota_staged, in the status file)
\* has staged the package it found when it started, and the boot loader will
\* see it: not an older package left by an earlier start.
StagedIsReported ==
  pc # "off" /\ ota_staged =>
    /\ staged = Package(reading)
    /\ marker = "whole"

\* Whatever the order of the lines, the parts are started with the value each
\* setting was given last, only status_enabled may have been taken back since;
\* and only with settings the code has a use for: a known source, for a
\* Modbus source a device and a known speed, and no line was refused
\* (demo3_config_load; main, lines 66 to 71, 120 to 124 and 181 to 185).
LastValue(key) ==
  LET set == {i \in DOMAIN lines : lines[i].key = key}
  IN  IF set = {} THEN Defaults[key] ELSE lines[Max(set)].value
RunsAsConfigured ==
  /\ TypeOK
  /\ pc = "running" =>
       /\ \A i \in DOMAIN lines : ~Refused(lines[i])
       /\ \A key \in Keys \ {"status_enabled"} :
            config[key] = LastValue(key)
       /\ \/ LastValue("source") = "rpmsg"
          \/ /\ LastValue("source") = "modbus"
             /\ LastValue("serial_device") # ""
             /\ LastValue("baudrate") \in KnownSpeeds
       /\ ota_staged => LastValue("ota_enabled") = "yes"
=============================================================================
