\* README.md 18: one active operation writes to a session, also when an exit is not proven.
SPECIFICATION Spec
CONSTANTS
  r1 = r1
  r2 = r2
  s1 = s1
  s2 = s2
  Requests = {r1, r2}
  Sessions = {s1}
  New = New
  None = None
  MaxDiagnostics = 0
  MaxFaults = 0
  MaxCrashes = 0
  UnprovenExit = TRUE
INVARIANTS
  SingleWriter
