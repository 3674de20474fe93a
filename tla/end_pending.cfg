SPECIFICATION Spec
CONSTANTS
  p1 = p1
  p2 = p2
  Procs <- TwoRequests
  Loop = Loop
  None = None
  PoolSize = 2
  GistBatch = 2
  MaxRequests = 3
  Enabled <- TurnAndRestEnd
SYMMETRY Symmetric
INVARIANTS
  EndedChatIsSummarized
CHECK_DEADLOCK FALSE
