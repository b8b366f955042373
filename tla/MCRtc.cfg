SPECIFICATION FairSpec
CONSTANTS
  Nodes = {1, 2, 3}
  Tabs = {2, 3}
  Rendezvous = 3
  Topologies <- Shapes
  CalmFrom <- Crowd
  Restarts = {2, 3}
  Cap = 1
  Ids = {1, 2}
  None = None
INVARIANTS CapHolds
PROPERTIES IsTable PairConnects RendezvousRelinks
CHECK_DEADLOCK FALSE
