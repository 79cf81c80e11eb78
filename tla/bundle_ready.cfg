CONSTANTS
  b1 = b1
  b2 = b2
  b3 = b3
  Calls <- McCalls
  Files = 3
  None = None
  MaxKills = 1
SYMMETRY Sym
SPECIFICATION Spec
INVARIANTS TypeOK 
PROPERTY ReadyIsWhole
CHECK_DEADLOCK FALSE
