CONSTANTS
  Sandboxes = {s1}
  Backends = {"engine", "direct", "local"}
  Record = TRUE
  Python = {p1}
  Shell = {q1}
  UserNames = {}
  None = None
  Failures = FALSE
  MaxCommands = 2
  MaxSteps = 3
  MaxStarts = 3
SPECIFICATION Spec
CHECK_DEADLOCK FALSE
PROPERTIES
  LoadExact
  RestoresNamespace
