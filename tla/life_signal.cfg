CONSTANTS
  Procs = {p1}
  Clients = {c1}
  None = None
  Torn = Torn
  Ops = {"stop"}
  Signals = TRUE
  Kills = FALSE
SPECIFICATION FairSpec
CHECK_DEADLOCK FALSE
PROPERTY SignalEnds
