SPECIFICATION Spec
CONSTANTS
  p1 = p1
  p2 = p2
  Procs <- TwoRequests
  Loop = Loop
  None = None
  PoolSize = 2
  GistBatch = 2
  MaxRequests = 3
  Enabled <- AllOperations
SYMMETRY Symmetric
INVARIANTS
  WellFormed
  WorkerExclusion
  FlaggedMessagesHaveGist
  SummarizedIsDurable
  NoDeadlock
PROPERTIES
  KeepsContract
CHECK_DEADLOCK FALSE
