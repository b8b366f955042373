SPECIFICATION Spec
CONSTANTS
  Everyone = Everyone
  Capacity = 3
  SeenCap = 7
  Frames <- ChatFrames
  OwnFrames <- OwnPresence
INVARIANTS IndexBounded RetainedIsCanonical NoFalseFork
PROPERTIES EvidenceGoesWithItsFrame
CHECK_DEADLOCK FALSE
