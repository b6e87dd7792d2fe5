CONSTANTS
  NoLock = NoLock
  Launcher = Launcher
  Icon = Icon
  Locks = {l1, l2, l3, l4}
  MaxHandlers = 2
  MaxExits = 3
SPECIFICATION Spec
INVARIANTS LocksGivenBack AllGivenBack FaultsOnlyEarly
PROPERTY ExitEnds
CHECK_DEADLOCK FALSE
