CONSTANTS
  Sandboxes = {s1}
  Backends = {"direct", "local"}
  Record = TRUE
  Python = {p1}
  Shell = {}
  UserNames = {n1}
  None = None
  Failures = TRUE
  MaxCommands = 1
  MaxSteps = 2
  MaxStarts = 2
SPECIFICATION Spec
CHECK_DEADLOCK FALSE
INVARIANTS
  TypeOK
  StepsIncrease
  CheckpointsRestorable
