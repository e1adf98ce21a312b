-------------------------- MODULE OutboxPublisher --------------------------
(***************************************************************************)
(* The scripts that take the lines of the Demo2 A53 program to the world:  *)
(* publish-mqtt-outbox.sh and send-can-trace.sh (OKMX8MM-Demo2/a53/        *)
(* scripts).  Both read a file line by line, send each line with a program *)
(* and, when asked to, empty the file in the end; any failure ends them.   *)
(*                                                                         *)
(* The A53 program may append to the file meanwhile, and an append may     *)
(* fail half way (module A53Pipeline).  The file is a sequence of          *)
(* fragments, one for each append.                                         *)
(***************************************************************************)
EXTENDS Integers, SequencesExt

CONSTANT MaxLines   \* bound: appends

ASSUME MaxLinesAssumption == MaxLines \in Nat

VARIABLES
  kind,      \* whose file it is: "outbox" or "trace"
  file,
  appended,  \* number of appends
  script,    \* where the script is, "off" when none runs
  clear_on_success,
  position,  \* fragments the script has read
  sending,   \* the line it sends, 0 for a frame no line stands for
  sent,      \* history: lines sent by any script
  whole,     \* history: lines whose append succeeded
  late       \* history: lines emptied away that came after the last was read

programVars == <<appended, whole>>
scriptVars == <<script, clear_on_success, position, sending>>
publisherVars == <<kind, file, programVars, scriptVars, sent, late>>

Lines == 1 .. MaxLines
\* All of a line, a line without its newline, or less.
Parts == {"whole", "open", "torn"}
Fragment == [line : Lines, part : Parts]

PublisherTypeOK ==
  /\ kind \in {"outbox", "trace"}
  /\ file \in Seq(Fragment)
  /\ appended \in 0 .. MaxLines
  /\ script \in {"off", "read", "send", "clear"}
  /\ clear_on_success \in BOOLEAN
  /\ position \in 0 .. Len(file)
  /\ sending \in 0 .. MaxLines
  /\ sent \cup whole \cup late \subseteq Lines

PublisherInit ==
  /\ kind \in {"outbox", "trace"} /\ file = <<>> /\ appended = 0
  /\ script = "off" /\ clear_on_success = FALSE /\ position = 0 /\ sending = 0
  /\ sent = {} /\ whole = {} /\ late = {}

\* The program appends a line; it counts as written when all of it is.
AppendLine ==
  /\ appended < MaxLines
  /\ appended' = appended + 1
  /\ \E part \in Parts :
       /\ file' = Append(file, [line |-> appended', part |-> part])
       /\ whole' = IF part = "whole" THEN whole \cup {appended'} ELSE whole
  /\ UNCHANGED <<kind, scriptVars, sent, late>>

-----------------------------------------------------------------------------

\* The options; a script that cannot start, or a dry run, changes nothing.
StartScript ==
  /\ script = "off"
  /\ script' = "read" /\ position' = 0 /\ sending' = 0
  /\ clear_on_success' \in BOOLEAN
  /\ UNCHANGED <<kind, file, programVars, sent, late>>

\* What read returns: up to the next newline or, as the loop takes a last
\* line without one too, to the end of the file.
TextEnd == Min({e \in position + 1 .. Len(file) :
                  e = Len(file) \/ file[e].part = "whole"})

\* One JSON object: jq fails on a torn one, and the test of qos on two.
OutboxMeanings(text) ==
  IF Len(text) = 1 /\ text[1].part # "torn" THEN {text[1].line} ELSE {}

\* Of a trace line the last frame counts, even if it was cut off: it is then
\* taken for a shorter frame or for one with other values, or for none.
TraceMeanings(text) ==
  IF Last(text).part = "torn" THEN {0} ELSE {Last(text).line}

Text == SubSeq(file, position + 1, TextEnd)
Meanings == IF kind = "outbox" THEN OutboxMeanings(Text)
            ELSE TraceMeanings(Text)

\* A line without a meaning ends the script.
ReadText ==
  /\ script = "read" /\ position < Len(file)
  /\ \/ /\ sending' \in Meanings
        /\ script' = "send"
        /\ position' = TextEnd
     \/ /\ Meanings \in {{}, {0}}
        /\ script' = "off"
        /\ UNCHANGED <<sending, position>>
  /\ UNCHANGED <<kind, file, programVars, clear_on_success, sent, late>>

\* Mutant: the script goes on when a line was not sent.
GoOnAfterFailure == "read"

AfterFailure == "off"

\* mosquitto_pub or cansend; the scripts run with set -e.
Send ==
  /\ script = "send"
  /\ sending' = 0
  /\ \/ script' = "read" /\ sent' = sent \cup ({sending} \ {0})
     \/ script' = AfterFailure /\ UNCHANGED sent
  /\ UNCHANGED <<kind, file, programVars, clear_on_success, position, late>>

FindEnd ==
  /\ script = "read" /\ position = Len(file)
  /\ script' = IF clear_on_success THEN "clear" ELSE "off"
  /\ UNCHANGED <<kind, file, programVars, clear_on_success, position, sending,
                 sent, late>>

LinesOf(fragments) == {fragments[i].line : i \in DOMAIN fragments}

\* The file is emptied, whatever has been appended since its end was found.
ClearFile ==
  /\ script = "clear"
  /\ script' = "off"
  /\ file' = <<>> /\ position' = 0
  /\ late' = late \cup LinesOf(SubSeq(file, position + 1, Len(file)))
  /\ UNCHANGED <<kind, programVars, clear_on_success, sending, sent>>

\* The operator stops a script, or sends what the file holds once more.
StopScript ==
  /\ script # "off"
  /\ script' = "off"
  /\ UNCHANGED <<kind, file, programVars, clear_on_success, position, sending,
                 sent, late>>

PublisherNext == \/ AppendLine \/ StartScript \/ ReadText \/ Send \/ FindEnd
                 \/ ClearFile \/ StopScript

PublisherSpec == PublisherInit /\ [][PublisherNext]_publisherVars

-----------------------------------------------------------------------------

\* A line that was written whole is in the file until it was sent, whatever
\* scripts failed, were stopped or repeated, and however torn lines are mixed
\* with it; the only lines that get lost come between the end of the reading
\* and the emptying of the file (publish-mqtt-outbox.sh, lines 106 to 109).
LinesStayUntilSent ==
  /\ PublisherTypeOK
  /\ whole \subseteq LinesOf(file) \cup sent \cup late
=============================================================================
