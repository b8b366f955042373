SPECIFICATION FairSpec
CONSTANTS
  ann = ann
  bob = bob
  Frames <- SomeFrames
  Malformed <- NoKeys
  SeenCap = 2
  GroupsCap = 2
  LoggedMax = 2
  GroupMax = 3
  AuthorBudget = 4
  TotalBudget = 5
  Stale = 1
  Lifetime = 2
  RepairIdle = 1
INVARIANTS ChargedIsBuffered SurfacedOnce WholeInLogIsReassembled
PROPERTIES PartialsEnd
CHECK_DEADLOCK FALSE
