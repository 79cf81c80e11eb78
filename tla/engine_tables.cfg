CONSTANTS
  Requests = {r1, r2}
  Stoppers = {s1}
  Main = Main
  Ids = {i1, i2}
  UserNames = {n1}
  None = None
  MaxSandboxes = 1
  Network = TRUE
SPECIFICATION Spec
SYMMETRY Symmetric
CHECK_DEADLOCK FALSE
INVARIANTS
  TypeOK
  SandboxBacked
  VMAccounted
  NoOrphans
  OwnFiles
PROPERTY ImplementsLife
