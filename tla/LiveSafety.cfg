\* Two turns; one failure, one crash, unproven exits.
SPECIFICATION Spec
CONSTANTS
  MaxTurns = 2
  MaxFaults = 1
  MaxCrashes = 1
  UnprovenExit = TRUE
INVARIANTS
  TypeOK
  RecordsAgree
  WriterIsClaimed
  InputIsDurable
  RefusalHasCause
PROPERTIES
  ImplementsSessionWriter
