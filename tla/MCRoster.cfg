SPECIFICATION RosterFairSpec
CONSTANTS
  Nicks = {ana, bea}
  QuietCap = 1
  MaxFrames = 5
INVARIANTS MapsAgree
PROPERTIES SilenceEmptiesRoster
