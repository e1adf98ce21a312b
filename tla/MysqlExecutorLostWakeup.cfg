\* The log line of the SIGINT handler against the lost wake-up.
SPECIFICATION FairSpec
CONSTANTS
  p1 = p1
  p2 = p2
  Producers <- MCProducers
  Executor = Executor
  NoThread = NoThread
  NoSql = NoSql
  QueueSize = 3
  MaxCalls = 2
PROPERTIES
  ShutdownCompletes
CHECK_DEADLOCK FALSE
