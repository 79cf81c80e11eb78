CONSTANTS
  Threads = {t1, t2}
  Names = {a, b}
  Paths = {a, b}
  SafeName <- SafeDistinct
  NamesOf <- NamesShared
  Ops <- AllOps
  MaxVMs = 1
  MaxIndex = 3
  Network = TRUE
SPECIFICATION PoolSpec
SYMMETRY ThreadSymmetry
INVARIANTS
  TypeOK
  IndexUnique
  LimitSlack
