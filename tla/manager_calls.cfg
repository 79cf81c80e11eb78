CONSTANTS
  Threads = {t1}
  Launches = {l1, l2, l3, l4}
  None = None
  Ops = {"start", "stop", "restart", "restore"}
  Network = TRUE
  WorkPath = TRUE
SPECIFICATION Spec
CHECK_DEADLOCK FALSE
SYMMETRY Symmetric
INVARIANTS
  TypeOK
  OneVM
  
  StopForgets
