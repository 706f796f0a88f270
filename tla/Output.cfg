\* A reader of a child that writes three lines of six kinds and has a prompt
\* of two frames, on pipes that hold one and two; one cancellation, crash or failure.
SPECIFICATION FairSpec
CONSTANTS
  Clients = {c1}
  Kinds = {"init", "foreign", "garbled", "result", "failure", "retry"}
  Prompt = 2
  StdinRoom = 1
  StdoutRoom = 2
  MaxLines = 3
  MaxTroubles = 1
INVARIANTS
  SuccessIsComplete
  FailedIsProven
  ReadersHoldRows
PROPERTIES
  RunEnds
