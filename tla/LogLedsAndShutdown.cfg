\* Eight messages in four files; two sensors; both sources and two SIGINTs.
\* The messages are bounded and the process exits: no deadlock check.
SPECIFICATION MCSpec
CONSTANTS
  RollingCount = 4
  RollingSize = 1
  CheckInterval = 0
  MaxMessages = 8
  Sensors = {0, 2}
  ActiveFlip = 5
  InactiveFlip = 1
  RunningReset = 10
  PublicReset = 10
  SensorFlip = 1
  SensorReset = 10
  ErrorFlip = 1
  ErrorReset = 10
  IndexBound = 9
  Sources = {"modbus", "rpmsg"}
  MaxSignals = 2
INVARIANTS
  LogKeepsTheNewest
  MissesOneInterval
  PublicStatusIsTimely
  ProducersStopFirst
  LogOutlivesThreads
PROPERTIES
  CodesAreShown
  ShutdownEnds
CHECK_DEADLOCK FALSE
