SPECIFICATION AntiEntropyFairSpec
CONSTANTS
  Everyone = Everyone
  Capacity = 4
  Members <- Two
  Frames <- MixedFrames
  Window = 2
  MaxResend = 1
  JoinedAt <- FromStart
INVARIANTS DirectedStaysPrivate ResendsOnlyGaps
PROPERTIES Recovers
CHECK_DEADLOCK FALSE
