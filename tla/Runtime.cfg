\* A child that may stop for ever at any point, and departs from the protocol
\* once, in any way: two turns, pipes that hold one.
SPECIFICATION FairSpec
CONSTANTS
  MaxTurns = 2
  StdinRoom = 1
  StdoutRoom = 1
  Chatter = {"init"}
  MaxStrays = 1
INVARIANTS
  VerdictIsJust
PROPERTIES
  ImplementsLiveObservations
  GracefulEnds
  CancelEnds
