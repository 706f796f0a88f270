\* Nothing fails; a conversation is cancelled while it starts.
SPECIFICATION Spec
CONSTANTS
  MaxTurns = 2
  MaxFaults = 0
  MaxCrashes = 0
  UnprovenExit = FALSE
INVARIANTS
  CancelReachesTarget
