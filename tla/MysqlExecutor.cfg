\* The fair executor, two callers with two statements each, a ring of three slots
\* (two usable). The process stops once it has joined its thread: no deadlock check.
SPECIFICATION FairSpec
CONSTANTS
  p1 = p1
  p2 = p2
  Producers <- MCProducers
  Executor = Executor
  NoThread = NoThread
  NoSql = NoSql
  QueueSize = 3
  MaxCalls = 2
INVARIANTS
  ExecutorIsSound
PROPERTIES
  ImplementsFifo
  PendingIsTaken
  ShutdownCompletesOrIsLost
CHECK_DEADLOCK FALSE
