SPECIFICATION Spec
CONSTANTS
  HalfWord = 4
  Channels = 2
  AnalogInputs <- Inputs
  Conversions <- Converted
  DigitalInputs <- Pins
  Movements <- Turns
  Mailboxes = 2
  TickModulus = 6
  Period = 2
  Minute = 4
  FrameTimeout = 0
  TransmitLimit = 0
  AnswerPieces = 2
  PieceTicks <- BitRates
  MaxSamples = 2
  LineRoom = 2
INVARIANTS
  PublishedWasSampled
  CanGroupsArePrefixes
  SpeedIsMovement
  SamplesKeepPace
CHECK_DEADLOCK FALSE
