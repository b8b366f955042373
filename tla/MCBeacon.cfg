SPECIFICATION FairSpec
CONSTANTS
  Processes <- Three
  Meshes <- AllMeshes
  NPlaces = 2
  MaxShedDeferrals = 1
INVARIANTS FirstElectionIsUnique
PROPERTIES BeaconReturns OriginIsAlone
CHECK_DEADLOCK FALSE
