\* Two turns of a child that may contradict itself, a client that follows
\* them, five numbers for the events; one crash or failed COMMIT.
SPECIFICATION FairSpec
CONSTANTS
  MaxTurns = 2
  Identities = {"model_a", "model_b"}
  Clients = {c1}
  MaxSequence = 5
  MaxChatter = 2
  MaxTroubles = 1
  OpenCrash = FALSE
INVARIANTS
  TablesAgree
  StoppedHasAll
PROPERTIES
  ImplementsCursorStream
  TerminalIsTold
