\* Two requests contend for one session; one failure, one crash.
SPECIFICATION Spec
CONSTANTS
  r1 = r1
  r2 = r2
  s1 = s1
  s2 = s2
  Requests = {r1, r2}
  Sessions = {s1}
  New = New
  None = None
  MaxDiagnostics = 1
  MaxFaults = 1
  MaxCrashes = 1
  UnprovenExit = FALSE
SYMMETRY Symmetry
INVARIANTS
  TypeOK
  SingleWriter
  ClaimCoversChild
  WriterClaimAgreement
PROPERTIES
  ClaimHandover
  ImplementsSessionWriter
