\* Four tries; the loop goes on for ever, the bound on the tries ends it: no deadlock check.
SPECIFICATION M4Spec
CONSTANTS
  Pieces = 2
  Capacity = 3
  FifoPieces = 3
  BatchSamples = 2
  Timeout = 2
  WriteTicks = 1
  ConsoleTicks = 1
  TickModulus = 7
  MaxTries = 4
INVARIANTS
  AnswersInOrder
  BatchesHoldEverySample
  PaceIsKept
CHECK_DEADLOCK FALSE
