CONSTANTS
  NONE = NONE
  BufferSize = 5
  IsUsb = TRUE
  MaxFrames = 3
  MaxNoise = 2
  RESET = "reset"
  Packets <- AllPackets
  NoiseBytes <- MCNoise
SPECIFICATION Spec
INVARIANTS
  UndamagedIsAccepted
  AckedAsAsked
  ResyncWithinOneFrame
  RunsWhatWasSent
CHECK_DEADLOCK FALSE
