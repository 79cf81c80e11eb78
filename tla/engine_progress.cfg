CONSTANTS
  Requests = {r1}
  Stoppers = {s1}
  Main = Main
  Ids = {i1, i2}
  UserNames = {n1}
  None = None
  MaxSandboxes = 1
  Network = TRUE
SPECIFICATION FairSpec
CHECK_DEADLOCK FALSE
PROPERTIES
  StopStops
  Answered
