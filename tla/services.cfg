SPECIFICATION ServicesSpec
CONSTANTS
  Choices = {{}, {"document_memory"}, {"recent_messages", "raw_message_span"}}
  Turns = {t1, t2}
  Tracked = {"document_memory", "raw_message_span", "previous_chat_gist"}
  Threads = {w1, w2}
  CacheTTL = 2
  Unset = Unset
  Rankings <- RankedLists
  Routes <- RoutePlans
  Rooms = {1, 4}
  NoParent = NoParent
  Cap <- RouteCaps
  BaseRequest = 1
  RecallRequest = 2
  SummaryRequest = 3
  SummaryReserve = 1
  Retrieved <- HitLists
  EncoderTop = 2
  ModelTop = 2
  Memories = {m1, m2}
  CategoryOf <- OneCategory
  RecallLimit = 1
  Facts = {f1, f2}
  MemChats = {x1}
  Batches = {b1, b2}
  MaxRow = 2
  Absent = Absent
  MaxLog = 5
  TokenCounts = {1, 2}
  Schedules <- BatchSchedules
  Transcripts <- TwoChats
  GistSets <- GistTables
  HitLimit = 2
  HitWindow = 1
  ChunkMessages = 3
  MaxChars = 4
  RareBonus = 8
  FullScore = 20
  ChatIds = {x1, x2}
  MaxMessage = 6
  NoRange = NoRange
  TabChats = {x1, x2}
  Handlers = {h1, h2}
  NoChat = NoChat
  MaxQueue = 2
  Cases = {1, 2}
  HistoryOf <- SharedHistory
  Judges = {1, 2}
  AppConfigs = {1, 2}
  Written = {1}
  Unwritten = 0
  MaxRows = 4
  MaxRuns = 3
  PageRecords = {d1, d2}
  NoRow = NoRow
  ListLimit <- ListLimits
  MaxRequests = 2
  PromptTurns = {1, 2, 3}
  Questions <- TwoQuestions
  RecentLimit = 2
  PageChats = {x1, x2}
  Files = {d1, d2}
  NoThread = NoThread
  Away = Away
  NoFile = NoFile
  Counters = {w1, w2}
  Estimators = {e1, e2}
  NoCounter = NoCounter
  ProposalsOf <- ProposalLists
  KeyOf <- KeyOfSpelling
  NoKeyLeft = "none"
  AskedIds = {1, 3}
  Nothing = Nothing
  MaxUpdates = 2
  Papers = {p1, p2}
  PdfFiles <- PdfTexts
  PageLimit = 8
  FetchLimit = 2
  NoScope = NoScope
INVARIANTS
  TypesOK
  ContractCanBeMet
  ErrorsAreTheTurnsOwn CompletedDemoAnswersAreGrounded
  BudgetIsKept GistOrItsSpan RequiredEvidenceFits
  RankingIsAPermutation
  IndexFollowsTable RecallIsAuthoritative
  BatchesAreWhole ProposalsAreKept
  BestMatchesAreQuotedOnce
  ProvenanceIsOwn
  InspectionsAreOfTheShownChat ActionsFinishCleanly
  HitsQuoteOnePassage
  PageShowsStore EvidenceReachesTheModel SentAsShown
PROPERTIES MarkHoldsUntilItExpires ForkIsFaithful KeepsEvalLedger
CHECK_DEADLOCK FALSE
