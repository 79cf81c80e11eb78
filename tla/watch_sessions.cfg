CONSTANTS
  c1 = c1
  c2 = c2
  d1 = d1
  d2 = d2
  Callers <- McCallers
  Dirs <- McDirs
  Tests = {"t1", "t2"}
  Cmds = {"suite", "one"}
  Selects <- McSelects
  Nothing = Nothing
  MaxCalls = 3
  MaxFaults = 1
SYMMETRY Sym
SPECIFICATION SessionSpec
INVARIANTS SessionTypeOK   LogComplete
CHECK_DEADLOCK FALSE
