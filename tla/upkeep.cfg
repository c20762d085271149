SPECIFICATION MCUpkeepSpec
CONSTANTS
  Target = {1, 2}
  Plans = {{1}, {1, 2}}
  r1 = r1
  r2 = r2
  Refresh = {r1, r2}
  MaxSnapshot = 1
  ReceiptLimit = 1
  Sink = {"human", "collector"}
  Floor <- MCFloor
  Collector = "collector"
  MaxRecords = 3
  Capacity = 3
  FlushEvents = 2
  MaxEvents = 4
  MaxSource = 2
  MaxBuilds = 3
  MaxPackage = 2
  p1 = p1
  p2 = p2
  Project = {p1, p2}
  Block = {"x", "y"}
  First <- MCFirst
  MaxLength = 2
  MaxWrites = 1
  MaxCaptures = 2
  Version = {"v1", "v2"}
  Machines <- MCMachines
  ScanOptions <- MCScans
  place1 = place1
  place2 = place2
  writer1 = writer1
  writer2 = writer2
  Path = {place1, place2}
  Pseudo = "(global)"
  Writer = {writer1, writer2}
  Catalogs <- MCCatalogs
  MaxUpdates = 2
  MaxMoves = 1
  Trees <- MCTrees
  Traversals <- MCTraversals
  Undecided = Undecided
  Decisions = {"approved"}
  MaxRefreshes = 2
  MaxDecisions = 1
  Intact <- MCIntact
  Policies <- MCPolicies
  Settings <- MCSettings
  Unset = Unset
  MaxDamage = 1
  Logical <- MCLogical
  MaxRows = 3
SYMMETRY MCSymmetry
CHECK_DEADLOCK FALSE
INVARIANTS
  UpkeepTypeOK
  ReceiptsTellWhatWasDone
  DeliversInOrder
  ReviewedIsAFixedPoint
  RecordsTellWhatIsKept
  DiscoveryAccounts
  RecordsOutlast
  ReportsTellTheTruth
PROPERTIES
  NamesItsSnapshot
  DiscardLeavesASnapshot
