\* One operation and its canceller under two failures and two crashes, with a
\* child whose exit may stay unproven.
SPECIFICATION FairSpec
CONSTANTS
  r1 = r1
  r2 = r2
  s1 = s1
  s2 = s2
  Requests = {r1}
  Sessions = {s1}
  New = New
  None = None
  MaxDiagnostics = 2
  MaxFaults = 2
  MaxCrashes = 2
  UnprovenExit = TRUE
INVARIANTS
  AtMostOneLaunch
  PromptAfterDurableRunning
  DiagnosticsBeforeTerminal
  RefusalHasCause
PROPERTIES
  StartAnswered
  CancelSettles
