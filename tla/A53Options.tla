----------------------------- MODULE A53Options -----------------------------
(***************************************************************************)
(* The command line of the Demo2 A53 program (OKMX8MM-Demo2/a53/src/cli.c) *)
(* and the configuration files it names: what a53_cli_parse makes of a     *)
(* list of arguments.  Both are read from the first setting to the last,   *)
(* so that a later one undoes or completes an earlier one; one that is     *)
(* refused ends the program.                                               *)
(*                                                                         *)
(* A text is a string that is compared as a whole; what strtoul reads from *)
(* it is given by a constant.                                              *)
(***************************************************************************)
EXTENDS Integers, Sequences, SequencesExt

CONSTANTS NumberOf,   \* what strtoul(text, 0, 10) reads; 0 for all other texts
          CanIds,     \* the texts that are a number up to 0x7ff to the end
          LongTexts,  \* the texts that do not fit the buffers of the options
          ConfigFiles \* from the paths that can be read to their lines

ASSUME NumberAssumption == NumberOf \in [DOMAIN NumberOf -> Nat]
ASSUME ConfigFilesAssumption ==
  \A path \in DOMAIN ConfigFiles : ConfigFiles[path] \in Seq(STRING \X STRING)

NotGiven == "not given"

\* The settings that are texts and only copied, with their options.
TextOption == [storage |-> "--storage", mqtt_outbox |-> "--mqtt-outbox",
               can_trace |-> "--can-trace", status |-> "--status",
               heartbeat |-> "--heartbeat", topic |-> "--topic"]

Options == {"--config", "--file", "--check-storage", "--recover-storage",
            "--cycles", "--can-id"} \cup {TextOption[k] : k \in DOMAIN TextOption}

Defaults ==
  [accepted |-> TRUE, source_kind |-> "replay", source_path |-> NotGiven,
   check_storage_path |-> NotGiven, recover_storage_path |-> NotGiven,
   cycles |-> 5, can_id |-> "0x321",
   storage |-> "a53-storage", mqtt_outbox |-> "a53-mqtt-outbox",
   can_trace |-> "a53-can-trace", status |-> "a53-status",
   heartbeat |-> "a53-heartbeat", topic |-> "mine-truck/demo1"]

Refuse(options) == [options EXCEPT !.accepted = FALSE]

\* Only the number text begins with counts: "2x" is 2.
CyclesOf(text) == IF text \in DOMAIN NumberOf THEN NumberOf[text] ELSE 0
IsCycles(text) == CyclesOf(text) \in 1 .. 1000000

ParseCycles(options, text) ==
  IF IsCycles(text) THEN [options EXCEPT !.cycles = CyclesOf(text)]
                    ELSE Refuse(options)

ParseCanId(options, text) ==
  IF text \in CanIds THEN [options EXCEPT !.can_id = text]
                     ELSE Refuse(options)

FromFile(options, path) ==
  [options EXCEPT !.source_kind = "file", !.source_path = path]

\* The source replay forgets a path, the source file keeps one.
ApplyConfigValue(options, key, value) ==
  CASE key = "cycles" -> ParseCycles(options, value)
    [] key = "can_id" -> ParseCanId(options, value)
    [] key = "source" /\ value = "replay" ->
         [options EXCEPT !.source_kind = "replay", !.source_path = NotGiven]
    [] key = "source" /\ value = "file" ->
         [options EXCEPT !.source_kind = "file"]
    [] key \in {"file", "source_path"} /\ value \notin LongTexts ->
         FromFile(options, value)
    [] key \in DOMAIN TextOption /\ value \notin LongTexts ->
         [options EXCEPT ![key] = value]
    [] OTHER -> Refuse(options)

\* A line is a key and a value; <<"", "">> is an empty line or a comment, and
\* a line without a value, or without an equals sign, has the value "".
ApplyLine(options, line) ==
  IF ~options.accepted \/ line = <<"", "">> THEN options
  ELSE IF line[2] = "" THEN Refuse(options)
  ELSE ApplyConfigValue(options, line[1], line[2])

LoadConfigFile(options, path) ==
  IF path \in DOMAIN ConfigFiles
  THEN FoldLeft(ApplyLine, options, ConfigFiles[path])
  ELSE Refuse(options)

ApplyOption(options, option, value) ==
  CASE option = "--config" -> LoadConfigFile(options, value)
    [] option = "--file" -> FromFile(options, value)
    [] option = "--check-storage" ->
         [options EXCEPT !.check_storage_path = value]
    [] option = "--recover-storage" ->
         [options EXCEPT !.recover_storage_path = value]
    [] option = "--cycles" -> ParseCycles(options, value)
    [] option = "--can-id" -> ParseCanId(options, value)
    [] OTHER -> LET key == CHOOSE k \in DOMAIN TextOption :
                             TextOption[k] = option
                IN  [options EXCEPT ![key] = value]

\* The loop over the arguments is either before one that names an option, or,
\* with the option pending, before its value, whatever that looks like.  A
\* number alone is accepted as the first argument only.
Before(options, pending) == [options |-> options, pending |-> pending]
TakeArgument(loop, argument) ==
  CASE ~loop.options.accepted -> loop
    [] loop.pending \in Options ->
         Before(ApplyOption(loop.options, loop.pending, argument), "none")
    [] loop.pending \notin Options /\ argument \in Options ->
         Before(loop.options, argument)
    [] loop.pending = "first" /\ IsCycles(argument) ->
         Before(ParseCycles(loop.options, argument), "none")
    [] OTHER -> Before(Refuse(loop.options), "none")

\* a53_cli_parse
ParseArguments(arguments) ==
  LET loop == FoldLeft(TakeArgument, Before(Defaults, "first"), arguments)
      without_path == /\ loop.options.source_kind = "file"
                      /\ loop.options.source_path = NotGiven
  IN  IF loop.pending \in Options \/ without_path THEN Refuse(loop.options)
                                                  ELSE loop.options

\* What main does with them: a check goes before a recovery, and either
\* before a run.
Command(options) ==
  CASE ~options.accepted -> "usage"
    [] options.accepted /\ options.check_storage_path # NotGiven -> "check"
    [] options.accepted /\ options.check_storage_path = NotGiven
         /\ options.recover_storage_path # NotGiven -> "recover"
    [] OTHER -> "run"
=============================================================================
