CONSTANTS
  NoLock = NoLock
  Launcher = Launcher
  Icon = Icon
  Locks = {l1, l2, l3}
  MaxHandlers = 0
  MaxExits = 1
SPECIFICATION Spec
INVARIANT OriginalLockSet
CHECK_DEADLOCK FALSE
