\* CAN with MQTT, and MQTT with the status file; two frames, each intact or
\* damaged, groups of two CAN frames, every output failing at every point.
\* The process may be killed, and then nothing happens any more: no deadlock
\* check.  The specification states its fairness.
SPECIFICATION Spec
CONSTANTS
  Configurations <- OutputPairs
  CanFrames = 2
  MaxFrames = 2
  MaxInvalid = 1
  HalfWord = 8
  ByteBase = 4
  Channels = 2
  FrameHeader = sample_header
  LastCanId = 9
INVARIANTS
  StatusTellsTheTruth
  OutputsAreDecodable
  StatusFileIsAPastStatus
PROPERTIES
  FramesAreTaken
CHECK_DEADLOCK FALSE
