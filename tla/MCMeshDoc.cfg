SPECIFICATION DocFairSpec
CONSTANTS
  Members <- Two
  WritesTo <- Own
  Linked <- OneWay
  Plans <- ThreeOrForked
  PendingAuthorMax = 1
  PendingTotalMax = 1
  MaxResend = 1
  ServesPerWindow = 1
INVARIANTS SeenIsAccountedFor
PROPERTIES Converges
CHECK_DEADLOCK FALSE
