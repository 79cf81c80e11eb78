CONSTANTS
  Callers <- McThreads
  Mcp = "mcp"
  MaxRetries = 2
  MaxCalls = 1
  MaxBoots = 3
  MaxProcs = 2
  MaxLost = 1
SPECIFICATION Spec
INVARIANTS TypeOK AnswerIsOwn AuditTruthful EffectsAudited ResetFresh
CHECK_DEADLOCK FALSE
