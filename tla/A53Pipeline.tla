---------------------------- MODULE A53Pipeline ----------------------------
(***************************************************************************)
(* The Demo2 A53 program (OKMX8MM-Demo2/a53/src): each run reads batches   *)
(* of the M4 and appends every batch to the storage file, the MQTT outbox, *)
(* the CAN trace and the heartbeat file, in this order.  Beside the        *)
(* storage file lies a cursor that describes its last line;                *)
(* --recover-storage uses it to cut off what is behind that line.          *)
(*                                                                         *)
(* Runs follow each other on the same files.  Every write may fail, also   *)
(* half way, and a run may be killed between any two writes.  The storage  *)
(* file is a sequence of cells: LineBytes of them make one line.  A        *)
(* heartbeat file is configured, as it is by default.  What a start of the *)
(* program does is decided by its arguments (module A53Options); those of  *)
(* all starts name the same files.                                         *)
(***************************************************************************)
EXTENDS A53Options, FiniteSets

CONSTANTS LineBytes,    \* bytes of one storage line, the last a newline
          SeqModulus,   \* 2^32: sequence numbers are uint32_t
          CommandLines, \* the arguments the program is started with
          MaxCycles,    \* bound: --cycles of these
          MaxRuns       \* bound: runs of the program

ASSUME LineAssumption == LineBytes \in Nat \ {0}
ASSUME ModulusAssumption == SeqModulus \in Nat \ {0}
ASSUME BoundsAssumption == MaxCycles \in Nat /\ MaxRuns \in Nat
ASSUME CommandLinesAssumption ==
  \A arguments \in CommandLines :
    LET options == ParseArguments(arguments)
    IN  Command(options) = "run" =>
          /\ options.cycles \in 1 .. MaxCycles
          /\ options.source_kind \in {"replay", "file"}

VARIABLES
  step,       \* what the run does next
  runs,       \* history: runs started
  cycles, source_kind,  \* options of this run
  batch,      \* sequence number of the batch being handled
  expected,   \* expected_sequence, or NoSequence before the first batch
  processed_batches, last_sequence,
  line_start, \* start_offset of a53_storage_append_batch
  storage,    \* the cells of the storage file
  cursor,     \* the cursor file
  mqtt_outbox, can_trace, heartbeat,  \* sequence numbers of their whole lines
  status      \* the status file

runVars == <<runs, cycles, source_kind, batch, expected, processed_batches,
             last_sequence, line_start>>
outputVars == <<mqtt_outbox, can_trace, heartbeat>>
vars == <<step, runVars, storage, cursor, outputVars, status>>

SequenceNumbers == 0 .. SeqModulus - 1
NoSequence == -1
Cells == SequenceNumbers \X (1 .. LineBytes)
Line(s) == [i \in 1 .. LineBytes |-> <<s, i>>]

Statuses == [ok : BOOLEAN, processed : 0 .. MaxCycles,
             last : SequenceNumbers,
             error : {"", "truncated", "source_open", "source_read",
                      "sequence_gap", "output_write"}]

TypeOK ==
  /\ step \in {"idle", "read", "storage", "cursor_open", "cursor_write",
               "outbox", "can", "heartbeat", "output_write", "sequence_gap",
               "source_open", "source_read"}
  /\ runs \in 0 .. MaxRuns
  /\ cycles \in 0 .. MaxCycles
  /\ source_kind \in {"replay", "file"}
  /\ batch \in SequenceNumbers
  /\ expected \in SequenceNumbers \cup {NoSequence}
  /\ processed_batches \in 0 .. cycles
  /\ last_sequence \in SequenceNumbers
  /\ line_start \in Nat
  /\ storage \in Seq(Cells)
  /\ cursor \in [sequence : SequenceNumbers, byte_offset : Nat,
                 line_bytes : Nat, line_checksum : Seq(Cells)]
  /\ mqtt_outbox \in Seq(SequenceNumbers)
  /\ can_trace \in Seq(SequenceNumbers)
  /\ heartbeat \in Seq(SequenceNumbers)
  /\ status \in Statuses

-----------------------------------------------------------------------------
(* The cursor.  Its checksum stands for the line it is computed from:      *)
(* different lines are taken to have different checksums.                  *)

\* A missing or empty file: read_storage_cursor rejects byte_offset <= 0.
UnreadableCursor == [sequence |-> 0, byte_offset |-> 0, line_bytes |-> 0,
                     line_checksum |-> <<>>]

CursorReadable == /\ cursor.byte_offset > 0
                  /\ cursor.line_bytes > 0
                  /\ cursor.byte_offset >= cursor.line_bytes

CursorLine == SubSeq(storage, cursor.byte_offset - cursor.line_bytes + 1,
                     cursor.byte_offset)

\* verify_cursor_line: the bytes are there, have the checksum and name the
\* sequence number.
CursorLineVerified ==
  /\ cursor.byte_offset <= Len(storage)
  /\ CursorLine = cursor.line_checksum
  /\ \E i \in DOMAIN CursorLine : CursorLine[i][1] = cursor.sequence

\* a53_storage_validate_cursor
CheckPasses == /\ CursorReadable
               /\ Len(storage) = cursor.byte_offset
               /\ CursorLineVerified

-----------------------------------------------------------------------------

Init ==
  /\ step = "idle" /\ runs = 0 /\ cycles = 0 /\ source_kind = "replay"
  /\ batch = 0 /\ expected = NoSequence
  /\ processed_batches = 0 /\ last_sequence = 0 /\ line_start = 0
  /\ storage = <<>> /\ cursor = UnreadableCursor
  /\ mqtt_outbox = <<>> /\ can_trace = <<>> /\ heartbeat = <<>>
  /\ status = [ok |-> FALSE, processed |-> 0, last |-> 0,
               error |-> "truncated"]

\* The options of a start that runs the pipeline.
RunOptions ==
  {options \in {ParseArguments(arguments) : arguments \in CommandLines} :
     Command(options) = "run"}

\* a53_pipeline_run, up to its loop.  A file may not be there.
StartRun ==
  /\ step = "idle" /\ runs < MaxRuns
  /\ runs' = runs + 1
  /\ \E options \in RunOptions :
       /\ cycles' = options.cycles
       /\ source_kind' = options.source_kind
       /\ \/ step' = "read"
          \/ options.source_kind = "file" /\ step' = "source_open"
  /\ expected' = NoSequence
  /\ processed_batches' = 0
  /\ last_sequence' = 0
  /\ UNCHANGED <<batch, line_start, storage, cursor, outputVars, status>>

\* Mutant: a gap does not stop the run.
InOrderUnchecked(s) == TRUE

InOrder(s) == expected = NoSequence \/ s = expected

NextSequence(s) == (s + 1) % SeqModulus

\* The replay counts from 0; a line of the file has any number.
NumbersRead == IF source_kind = "replay" THEN {processed_batches % SeqModulus}
               ELSE SequenceNumbers

\* The source yields a batch; a file may also fail or be at its end.
ReadBatch ==
  /\ step = "read" /\ processed_batches < cycles
  /\ \/ /\ source_kind = "file"
        /\ step' = "source_read"
        /\ UNCHANGED <<batch, expected>>
     \/ \E s \in NumbersRead :
          IF InOrder(s)
          THEN /\ batch' = s
               /\ expected' = NextSequence(s)
               /\ step' = "storage"
          ELSE step' = "sequence_gap" /\ UNCHANGED <<batch, expected>>
  /\ UNCHANGED <<runs, cycles, source_kind, processed_batches, last_sequence,
                 line_start, storage, cursor, outputVars, status>>

\* Mutant: a line that was not written whole counts as written.
StorageErrorIgnored(written) == TRUE

AppendSucceeded(written) == written = LineBytes

\* a53_storage_append_batch, up to fclose: the line is written where the
\* file ends, in whole or, when the disk is full, in part.
AppendStorage ==
  /\ step = "storage"
  /\ \E written \in 0 .. LineBytes :
       /\ storage' = storage \o SubSeq(Line(batch), 1, written)
       /\ step' = IF AppendSucceeded(written) THEN "cursor_open"
                  ELSE "output_write"
  /\ line_start' = Len(storage)
  /\ UNCHANGED <<runs, cycles, source_kind, batch, expected,
                 processed_batches, last_sequence, cursor, outputVars, status>>

\* fopen(cursor, "wb") empties the cursor, or fails.
OpenCursor ==
  /\ step = "cursor_open"
  /\ \/ step' = "cursor_write" /\ cursor' = UnreadableCursor
     \/ step' = "output_write" /\ UNCHANGED cursor
  /\ UNCHANGED <<runVars, storage, outputVars, status>>

\* Mutant: the offset of the line's start is recorded.
StartOffset == line_start

EndOffset == Len(storage)

\* So few bytes reach an emptied file in one write or not at all: a cursor
\* that is cut off half way is left out.
WriteCursor ==
  /\ step = "cursor_write"
  /\ \/ /\ step' = "outbox"
        /\ cursor' = [sequence |-> batch, byte_offset |-> EndOffset,
                      line_bytes |-> Len(storage) - line_start,
                      line_checksum |-> Line(batch)]
     \/ step' = "output_write" /\ UNCHANGED cursor  \* fclose failed
  /\ UNCHANGED <<runVars, storage, outputVars, status>>

\* The other outputs: a line is appended, or the run ends.
AppendOutbox ==
  /\ step = "outbox"
  /\ \/ step' = "can" /\ mqtt_outbox' = Append(mqtt_outbox, batch)
     \/ step' = "output_write" /\ UNCHANGED mqtt_outbox
  /\ UNCHANGED <<runVars, storage, cursor, can_trace, heartbeat, status>>

AppendCanTrace ==
  /\ step = "can"
  /\ \/ step' = "heartbeat" /\ can_trace' = Append(can_trace, batch)
     \/ step' = "output_write" /\ UNCHANGED can_trace
  /\ UNCHANGED <<runVars, storage, cursor, mqtt_outbox, heartbeat, status>>

AppendHeartbeat ==
  /\ step = "heartbeat"
  /\ \E written \in BOOLEAN :
       /\ heartbeat' = IF written THEN Append(heartbeat, batch) ELSE heartbeat
       /\ IF written
          THEN /\ step' = "read"
               /\ processed_batches' = processed_batches + 1
               /\ last_sequence' = batch
          ELSE /\ step' = "output_write"
               /\ UNCHANGED <<processed_batches, last_sequence>>
  /\ UNCHANGED <<runs, cycles, source_kind, batch, expected, line_start, storage,
                 cursor, mqtt_outbox, can_trace, status>>

\* write_status empties the status file and then writes it; either call may
\* fail.
WriteStatus(ok, error) ==
  /\ step' = "idle"
  /\ status' \in {status,
                  [ok |-> FALSE, processed |-> 0, last |-> 0,
                   error |-> "truncated"],
                  [ok |-> ok, processed |-> processed_batches,
                   last |-> last_sequence, error |-> error]}
  /\ UNCHANGED <<runVars, storage, cursor, outputVars>>

EndRun == step = "read" /\ processed_batches = cycles /\ WriteStatus(TRUE, "")

FailRun == /\ step \in {"source_open", "source_read", "sequence_gap",
                       "output_write"}
           /\ WriteStatus(FALSE, step)

\* The run is killed: the files stay as they are.
Crash ==
  /\ step # "idle"
  /\ step' = "idle"
  /\ UNCHANGED <<runVars, storage, cursor, outputVars, status>>

\* Mutant: the line the cursor describes is cut off as well.
RecoverBeforeLine == cursor.byte_offset - cursor.line_bytes

RecoverOffset == cursor.byte_offset

Recoverable == /\ CursorReadable /\ CursorLineVerified
               /\ Len(storage) >= cursor.byte_offset

RecoveryIsAsked == \E arguments \in CommandLines :
                     Command(ParseArguments(arguments)) = "recover"

\* a53_storage_recover_tail, run by the operator between two runs.
Recover ==
  /\ step = "idle"
  /\ RecoveryIsAsked /\ Recoverable
  /\ storage' = SubSeq(storage, 1, RecoverOffset)
  /\ UNCHANGED <<step, runVars, cursor, outputVars, status>>

Next ==
  \/ StartRun \/ ReadBatch \/ AppendStorage \/ OpenCursor \/ WriteCursor
  \/ AppendOutbox \/ AppendCanTrace \/ AppendHeartbeat
  \/ EndRun \/ FailRun \/ Crash \/ Recover

Spec == Init /\ [][Next]_vars

-----------------------------------------------------------------------------
(* Properties.                                                             *)

LineEndsAt(s, e) == /\ e \in LineBytes .. Len(storage)
                    /\ SubSeq(storage, e - LineBytes + 1, e) = Line(s)
LinesStored(s) == Cardinality({e \in DOMAIN storage : LineEndsAt(s, e)})
LinesIn(output, s) == Cardinality({i \in DOMAIN output : output[i] = s})

\* A cursor that can be read describes a whole line that is in the storage
\* file, whatever failed, was killed or was recovered before
\* (a53_storage_append_batch writes the cursor last).
CursorDescribesALine ==
  /\ TypeOK
  /\ CursorReadable => /\ CursorLineVerified
                       /\ LineEndsAt(cursor.sequence, cursor.byte_offset)

\* What a later output has, the earlier ones have too, counting the repeats
\* of several runs: what is to be published, sent or was counted alive is
\* backed by a whole storage line, also after a recovery, and a status file
\* that says "ok" counts no batch that is not in every output
\* (the order of the calls in a53_pipeline_run, write_status at its end).
OutputsAreNested ==
  /\ \A s \in SequenceNumbers :
       /\ LinesStored(s) >= LinesIn(mqtt_outbox, s)
       /\ LinesIn(mqtt_outbox, s) >= LinesIn(can_trace, s)
       /\ LinesIn(can_trace, s) >= LinesIn(heartbeat, s)
  /\ status.ok => /\ status.processed <= Len(heartbeat)
                  /\ LinesIn(heartbeat, status.last) > 0

\* After a recovery that cut something off, --check-storage passes, as the
\* README tells the operator to verify.
RecoveredStoragePassesCheck ==
  [][step = "idle" /\ storage' # storage => CheckPasses']_vars

\* Between two runs, a storage file whose last line is cut off, and that has
\* an earlier record, which was also published, can be cut back by
\* --recover-storage (a53/README.md, line 136; a53_storage_recover_tail).
LastLineIsTorn == storage # <<>> /\ storage[Len(storage)][2] # LineBytes
TornTailIsRecoverable ==
  step = "idle" /\ LastLineIsTorn /\ mqtt_outbox # <<>> => Recoverable

\* A gap stops the run before the wrong batch reaches an output: in one run
\* every batch in the outbox follows the one before it, also where the
\* sequence number wraps around (a53_pipeline_run).
OutboxHasNoGap ==
  [][mqtt_outbox' # mqtt_outbox /\ processed_batches > 0 =>
       batch = (mqtt_outbox[Len(mqtt_outbox)] + 1) % SeqModulus]_vars
=============================================================================
