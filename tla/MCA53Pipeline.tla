--------------------------- MODULE MCA53Pipeline ---------------------------
(***************************************************************************)
(* A53Pipeline with lines of two bytes, so that a line can be torn, and    *)
(* few sequence numbers, so that they wrap around; and ParseArguments      *)
(* compared, for all lists of up to three options, with what the last      *)
(* setting of each kind says, however options and files are mixed.         *)
(*                                                                         *)
(* In some behaviours the program does not run here and the scripts of     *)
(* OutboxPublisher work on what an abstract program appends: the states of *)
(* the two modules are added and not multiplied.                           *)
(***************************************************************************)
EXTENDS A53Pipeline, OutboxPublisher

VARIABLE driven

MCInit == /\ driven \in {"program", "scripts"}
          /\ Init /\ PublisherInit
          /\ driven = "program" => kind = "outbox"

MCNext == /\ UNCHANGED driven
          /\ \/ /\ driven = "program"
                /\ Next /\ UNCHANGED publisherVars
             \/ /\ driven = "scripts"
                /\ PublisherNext /\ UNCHANGED vars

MCSpec == MCInit /\ [][MCNext]_<<driven, vars, publisherVars>>

-----------------------------------------------------------------------------

MCNumberOf == ("1" :> 1) @@ ("2x" :> 2) @@ ("0" :> 0) @@ ("5" :> 5)

MCConfigFiles ==
  ("c1" :> << <<"", "">>, <<"file", "a">>, <<"cycles", "1">> >>) @@
  ("c2" :> << <<"source", "replay">>, <<"storage", "s">> >>) @@
  ("c3" :> << <<"source", "file">>, <<"can_id", "0x1">> >>) @@
  ("c4" :> << <<"cycles", "0">> >>) @@
  ("c5" :> << <<"status", "">> >>) @@
  ("c6" :> << <<"heartbeat", "long">> >>)

\* One cycle of the replay, one or two of a file, with options that end up
\* the same, and a recovery.
MCCommandLines ==
  {<<"1">>, <<"--cycles", "2x", "--file", "a">>, <<"--config", "c1">>,
   <<"1", "--config", "c1", "--config", "c2">>,
   <<"--recover-storage", "a53-storage">>,
   <<"--recover-storage", "s", "--check-storage", "s">>, <<"--file">>}

-----------------------------------------------------------------------------

\* An option with its value, and the settings it stands for.
MCOptions == {"--config"} \X {"c1", "c2", "c3", "c4", "c5", "c6", "c7"} \cup
             {"--file"} \X {"b", "long", "--cycles"} \cup
             {"--cycles"} \X {"2x", "0", "x"} \cup
             {<<"--storage", "t">>, <<"--can-id", "0x2">>, <<"--can-id", "?">>,
              <<"--check-storage", "s">>}
SettingsOf(option) == IF option[1] # "--config" THEN <<option>>
                      ELSE SelectSeq(MCConfigFiles[option[2]],
                                     LAMBDA line : line # <<"", "">>)

LastGiven(settings, names, default) ==
  LET given == {i \in DOMAIN settings : settings[i][1] \in names}
  IN  IF given = {} THEN default ELSE settings[Max(given)][2]

Files == {"file", "--file"}
Acceptable(options) ==
  \A i \in DOMAIN options :
    options[i] \notin {<<"--config", c>> : c \in {"c4", "c5", "c6", "c7"}}
      \cup {<<"--cycles", "0">>, <<"--cycles", "x">>, <<"--can-id", "?">>}

\* The source is what the last setting about it says; a path counts unless
\* the replay was asked for after it.
Source(settings) ==
  LET about == SelectSeq(settings, LAMBDA s : s[1] \in Files \cup {"source"})
      forgets == {i \in DOMAIN about : about[i] = <<"source", "replay">>}
      kept == IF forgets = {} THEN about
              ELSE SubSeq(about, Max(forgets) + 1, Len(about))
  IN  [kind |-> IF kept = <<>> THEN "replay" ELSE "file",
       path |-> LastGiven(kept, Files, NotGiven)]

\* a53_cli_parse accepts what has a meaning, and means what was given last.
OptionsAreTheLastGiven(options) ==
  LET parsed == ParseArguments(FlattenSeq(options))
      settings == FlattenSeq([i \in DOMAIN options |-> SettingsOf(options[i])])
      source == Source(settings)
  IN  /\ parsed.accepted <=> /\ Acceptable(options)
                             /\ source.kind = "file" => source.path # NotGiven
      /\ parsed.accepted =>
           /\ parsed.source_kind = source.kind
           /\ parsed.source_path = source.path
           /\ parsed.storage =
                LastGiven(settings, {"storage", "--storage"}, "a53-storage")
           /\ parsed.can_id = LastGiven(settings, {"can_id", "--can-id"}, "0x321")
           /\ parsed.cycles =
                CyclesOf(LastGiven(settings, {"cycles", "--cycles"}, "5"))

ASSUME OptionsAssumption ==
  \A options \in SeqOf(MCOptions, 3) : OptionsAreTheLastGiven(options)
=============================================================================
