SPECIFICATION LobbyFairSpec
CONSTANTS
  Players <- Trio
  Naming <- Names
  Starters <- Pair
  SessionId <- Hash
  MaxEpoch = 2
INVARIANTS SameMatchSamePlayers WinnerIsHeld
PROPERTIES MovesUpOnly WinnerIsAdopted
CHECK_DEADLOCK FALSE
