\* A publish interval of two ticks, one public packet, one bad reading; the
\* clock ahead of real time by 5 or 8 ticks, or by 4 if there are two devices.
\* On the line, three requests to a slave that answers them.  Time ends at
\* MaxTime, the requests are bounded and the thread may stop: no deadlock
\* check.
SPECIFICATION MCSpec
CONSTANTS
  Configurations <- EveryType
  CollectInterval = 1
  PublishInterval = 2
  Slack = 2
  TimeSyncWaitsMax = 1
  BootOffsets <- WrongClocks
  MaxTime = 9
  MaxPackets = 1
  MaxBadReads = 1
  Pieces = 2
  BufferPieces = 3
  MaxRequests = 3
INVARIANTS
  SettingTheClockDelaysLittle
  PacketIsWhole
  AnswersInOrder
PROPERTIES
  RecordsHoldTheirPeriod
  RoundsEnd
  ShutdownStops
CHECK_DEADLOCK FALSE
