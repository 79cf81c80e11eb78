CONSTANTS
  a1 = a1
  a2 = a2
  i1 = i1
  i2 = i2
  Agents <- McAgents
  Scripts = {script}
  Ids <- McIds
  Shared = Shared
  None = None
  MaxFaults = 1
SYMMETRY Sym
SPECIFICATION Spec
INVARIANTS TypeOK SandboxesApart LeaksBounded
PROPERTY KeepsSandbox
CHECK_DEADLOCK FALSE
