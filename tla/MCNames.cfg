CONSTANTS
  NoVolume = NoVolume
  Cwd <- Deep
  Paths <- ShortNames
  Other <- Plain
  Modes <- SomeModes
  Times <- SomeTimes
  Dates <- SomeDates
  MaxHeld <- OneLost
SPECIFICATION Spec
CONSTRAINT Focus
INVARIANTS SameMeaning LiveNames AttributesKept
PROPERTIES Released
CHECK_DEADLOCK FALSE
