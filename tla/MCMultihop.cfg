CONSTANTS
  Nodes = {1, 2, 3, 4}
  Self = 1
  Dst = 4
  Edges <- Square
  Flaky = {{2, 4}}
  Leavers = {3}
  MaxSeq = 2
  MaxRouteHops = 8
  Callers = {p, q}
  Writers = {1, 2}
  Cost = 1
  MaxWriters = 1
  WriterQueue = 1
  QueueBytes = 2
  None = None
SPECIFICATION Spec
INVARIANTS RoutesAreLive BytesAccounted WriterIsListed
CHECK_DEADLOCK FALSE
