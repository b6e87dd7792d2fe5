CONSTANTS
  InitMaxfd = 4
  Slack = 0
  MaxfdBound = 8
  NumFiles = 5
  in = in
  out = out
  h1 = h1
  h2 = h2
  Handles <- TheHandles
  StdIn = in
  StdOut = out
  NoHandle = NoHandle
  NULL = NULL
  Requests <- ReadOnly
  DupTargets <- Third
  Calls <- SomeCalls
  StdUsed <- NoStd
  MaxNest = 1
  Disciplined = TRUE
SPECIFICATION SpecIO
CONSTRAINT Relevant
SYMMETRY Symmetry
INVARIANTS RightObject ExitCloses
PROPERTIES Undisturbed ClosedByLibrary
CHECK_DEADLOCK FALSE
