\* Three runs of up to two batches on the same files; numbers wrap after 3.
\* The operator may leave the program stopped: no deadlock check.
SPECIFICATION MCSpec
CONSTANTS
  LineBytes = 2
  SeqModulus = 3
  MaxCycles = 2
  MaxRuns = 3
  MaxLines = 4
  CommandLines <- MCCommandLines
  NumberOf <- MCNumberOf
  CanIds = {"0x1", "0x2"}
  LongTexts = {"long"}
  ConfigFiles <- MCConfigFiles
INVARIANTS
  CursorDescribesALine
  OutputsAreNested
  LinesStayUntilSent
PROPERTIES
  RecoveredStoragePassesCheck
  OutboxHasNoGap
CHECK_DEADLOCK FALSE
