CONSTANTS
  InitMaxfd = 5
  Slack = 8
  MaxfdBound = 5
  NumFiles = 5
  in = in
  out = out
  h1 = h1
  h2 = h2
  Handles <- TwoHandles
  StdIn = in
  StdOut = out
  NoHandle = NoHandle
  NULL = NULL
  Requests <- ReadOrTruncate
  DupTargets <- StdoutAndAbove
  Calls <- LibCalls
  StdUsed <- StdoutOnly
  MaxNest = 2
  Disciplined = FALSE
SPECIFICATION Spec
CONSTRAINT Bounded
SYMMETRY Symmetry
INVARIANTS TypeOK NoStaleHandle OneOwner NestBelowRefs ExitCloses
PROPERTIES AbandonedOnlyWhere
CHECK_DEADLOCK FALSE
