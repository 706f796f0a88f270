\* Three turns, so two senders race; nothing fails.
SPECIFICATION Spec
CONSTANTS
  MaxTurns = 3
  MaxFaults = 0
  MaxCrashes = 0
  UnprovenExit = FALSE
INVARIANTS
  CloseCoversTurns
  CloseDrainsInput
