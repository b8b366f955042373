SPECIFICATION MCSpec
CONSTANTS
  Players <- Two
  Inputs <- Buttons
  MaxPrediction = 2
  InputDelay <- Delays
  SyncRoundtrips = 2
  Leftovers <- Stale
  Lengths <- Both
INVARIANTS SimulatedWithTheTruth RollbackTargetSaved AckedInputsArrived NoFalseDesync
PROPERTIES MatchCompletes
CHECK_DEADLOCK FALSE
