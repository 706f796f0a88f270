\* Two turns; nothing fails.
SPECIFICATION FairSpec
CONSTANTS
  MaxTurns = 2
  MaxFaults = 0
  MaxCrashes = 0
  UnprovenExit = FALSE
PROPERTIES
  EndSettles
