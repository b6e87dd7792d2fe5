CONSTANTS
  Programs = {"p"}
  MaxOthers = 2
  MaxPrefixes = 2
  MaxDirs = 2
  Script <- Name
  Options <- SomeOptions
  Vectors <- ManyVectors
SPECIFICATION Spec
INVARIANTS AllRestored UsersCounted RunsLoaded LineFits ArgumentsArrive
PROPERTIES CallsEnd
