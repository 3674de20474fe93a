SPECIFICATION TriedSpec
CONSTANTS
  c1 = c1
  c2 = c2
  f1 = f1
  f2 = f2
  d1 = d1
  d2 = d2
  d3 = d3
  t1 = t1
  None = None
  Chats <- TwoChats
  Files <- TwoFiles
  Blank = {f2}
  Docs <- TwoDocs
  Turns <- OneTurn
SYMMETRY Symmetric
INVARIANTS
  TypeOK
  ReadyIsIndexed
  AnsweredStaysUsable
  ClaimsAreRecorded
  ResolvedIsSearchable
PROPERTIES
  ReadyStaysReady
  KeepsDocumentContract
CHECK_DEADLOCK FALSE
