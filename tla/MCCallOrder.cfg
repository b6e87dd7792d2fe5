CONSTANTS
  Half = 3
  MaxLen = 4
  Lists <- AllLists
SPECIFICATION Spec
INVARIANTS TypeOK InOrder AllCalled
PROPERTIES Implements Ends
CHECK_DEADLOCK FALSE
