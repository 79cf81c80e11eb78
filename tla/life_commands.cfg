CONSTANTS
  Procs = {p1, p2}
  Clients = {c1, c2}
  None = None
  Torn = Torn
  Ops = {"stop", "start", "discover", "bridge"}
  Signals = TRUE
  Kills = TRUE
SPECIFICATION Spec
SYMMETRY Symmetric
CHECK_DEADLOCK FALSE
INVARIANTS TypeOK NeverDeaf
 
