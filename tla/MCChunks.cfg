CONSTANTS
  c1 = c1
  c2 = c2
  r1 = r1
  r2 = r2
  Chunks = {c1, c2}
  Roots = {r1, r2}
  Leaves <- Rows
  Threads = {t1, t2}
  Stored = {r1, c2}
  Puts = {c1, c2, r2}
  None = None
SYMMETRY Symmetry
SPECIFICATION Spec
INVARIANT TornOnlyIfShared
PROPERTY LiveSurvives
