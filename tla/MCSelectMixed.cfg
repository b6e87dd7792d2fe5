CONSTANTS
  NONE = NONE
  MaxFd = 3
  Handles <- TheHandles
  Requests <- SomeRequests
  Tables <- TypedTables
SPECIFICATION Spec
INVARIANT MixedWaits
CHECK_DEADLOCK FALSE
