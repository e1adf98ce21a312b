\* The runs and files of A53Pipeline.cfg; the program may stay stopped.
SPECIFICATION MCSpec
CONSTANTS
  LineBytes = 2
  SeqModulus = 3
  MaxCycles = 2
  MaxRuns = 3
  MaxLines = 4
  CommandLines <- MCCommandLines
  NumberOf <- MCNumberOf
  CanIds = {"0x1", "0x2"}
  LongTexts = {"long"}
  ConfigFiles <- MCConfigFiles
INVARIANT
  TornTailIsRecoverable
CHECK_DEADLOCK FALSE
