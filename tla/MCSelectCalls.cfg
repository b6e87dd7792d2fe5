CONSTANTS
  NONE = NONE
  MaxFd = 3
  Handles <- TheHandles
  Requests <- SomeRequests
  Tables <- TypedTables
SPECIFICATION Spec
INVARIANTS OnlyReady CountRight NothingMissed
PROPERTY Returns
CHECK_DEADLOCK FALSE
