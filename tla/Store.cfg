\* Two daemons, two calls about two projects; two statements fail.
SPECIFICATION FairSpec
CONSTANTS
  Daemons = {d1, d2}
  Projects = {p1, p2}
  Configs = {c1, c2}
  NoConfig = NoConfig
  Requests = {r1, r2}
  Nobody = Nobody
  MaxFaults = 2
INVARIANTS
  RecoveredIsOrphan
  FileHoldsAnswered
PROPERTIES
  EveryCallEnds
