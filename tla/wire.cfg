SPECIFICATION Spec
CONSTANTS
  Packets <- AllPackets
  Frames <- RelayedFrames
  MaxSent = 2
INVARIANTS
  InStep
  RelayedUnchanged
CHECK_DEADLOCK FALSE
