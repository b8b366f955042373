SPECIFICATION FairSpec
CONSTANTS
  bob = bob
  Peers = {bob}
  Lower = {bob}
  Frames = {1, 2}
  To <- Addressees
  Cap = 2
  MaxPeers = 2
  MaxProbes = 2
  MaxLeaves = 1
INVARIANTS ParkedInOrder PendingHasProbe
PROPERTIES RelayCarriesNoPayload HoldEnds
CHECK_DEADLOCK FALSE
