SPECIFICATION DecodingsSpec
CONSTANTS
  Text = {"a", "b"}
  Call = {"call"}
  Tool = {"shell", "web"}
  Field = {"model"}
  Setting = {"m", "n"}
  MaxLines = 3
  UseId = {"use"}
  ToolName = {"read", "mcp"}
  McpTool = {"mcp"}
  MaxRecords = 2
  MaxBlocks = 2
  ref1 = ref1
  srv1 = srv1
  Reference = {ref1, srv1}
  Composer = {1, 2}
  Bubbles <- MCBubbles
  Messages <- MCMessages
  par1 = par1
  par2 = par2
  turn1 = turn1
  call1 = call1
  Params = {par1, par2}
  Turns = {turn1}
  Calls = {call1}
  Decoded <- MCDecoded
  MaxStored = 3
  p1 = p1
  p2 = p2
  f1 = f1
  f2 = f2
  Nothing = Nothing
  StoredSession = {p1, p2}
  StoredFile = {f1, f2}
  Bodies = {"body"}
  Paths = {"file"}
  Decodings <- MCDecodings
  MaxRevision = 2
  MaxRewrites = 1
  Store = {1, 2}
  QueryEvent <- MCRows
  Contents <- MCContents
  Requests <- MCRequests
  MaxQueries = 2
  Project = {1, 2}
  Release <- MCReleases
  ScopeRequest <- MCSelectors
  MaxCommands = 2
  Selections <- MCSelections
  DayLength = 3
  DayLimit = 2
  GapCap = 2
  Transcript = {1, 2}
  MessageId = {0, 1}
  MaxTokens = 2
  MaxAppends = 3
SYMMETRY MCSymmetry
CHECK_DEADLOCK FALSE
INVARIANTS
  DecodingsTypeOK
  EventsFollowTheRollout
  EntriesAreDistinctAndLinked
  ComposersAreWhole
  StoredRowsCohere
  AnswersFollowTheData
PROPERTIES
  OnlyOwnedSessionsGo
