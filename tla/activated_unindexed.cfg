SPECIFICATION Spec
CONSTANTS
  c1 = c1
  c2 = c2
  f1 = f1
  f2 = f2
  d1 = d1
  d2 = d2
  d3 = d3
  t1 = t1
  None = None
  Chats <- TwoChats
  Files <- OneFile
  Blank = {}
  Docs <- TwoDocs
  Turns <- OneTurn
INVARIANTS
  ReadyIsTruthful
CHECK_DEADLOCK FALSE
