CONSTANTS
  Programs = {p1, p2}
  t1 = t1
  t2 = t2
  Names <- TwoNames
  Temp <- InTurn
  Objects = {o1, o2}
  Openings <- Usual
  MaxLost = 1
  Renamers = {p1}
  NONE = NONE
SPECIFICATION Spec
INVARIANTS TypeOK NothingLeftHeld
PROPERTIES WrittenKept CallsReturn
