\* The value of a literal may be a number that is no integer.
CONSTANTS
  Null = Null
  None = None
  NoFilter = NoFilter
  NoAnswer = NoAnswer
  NoBound = NoBound
  NoSheet = NoSheet
  NoColumn = NoColumn
  LengthOf <- MCLengthOf
  Templates <- MCNoTemplates
  Files <- MCNoTemplates
  total = total
  share = share
  idle = idle
  MaxPredicates = 4
  FirstDay <- MCFirstDay
  OffsetBefore = 2
  OffsetAfter = 1
  ClockChange <- MCClockChange
  MaxFormulaNodes = 5
  MaxFormulaDepth = 3
  MaxSelections = 4
  MaxGroupFields = 2
  MaxSorts = 3
  MaxRows = 10
  MaxBatches = 6
  Columns <- MCColumns
  ColumnTarget <- MCColumnTarget
  ColumnType <- MCColumnType
  MaxSources = 4
  MaxKeys = 2
  Models = {}
  Targets = {"fact", "shop", "area", "land"}
  PolicySets = {}
  PolicyRows <- MCPolicyRows
  Principal <- MCPrincipal
  Moments = {}
  ScopeSets <- MCScopeSets
  FilterRows <- MCFilterRows
  GroupColumns <- MCGroupColumns
  Formulas = {}
  QueryDataset <- MCDataset
  History <- MCHistory
  Today = 2
  QueryRequests = {}
  QueryScopes <- MCQueryScopes
  QueryMoment <- MCQueryMoment
  BoardRequests <- MCBoardRequests
  SeriesRequests <- MCSeriesRequests
  Boards = {}
  SeriesBoards = {}
  SourceTypes <- MCSourceTypes
  Values = {"int", "decimal"}
  MaxNodes = 5
  MaxDepth = 2
  MaxFields = 3
  MaxVersions = 3
SPECIFICATION Spec
INVARIANTS
  StoredFieldsCompile
\* A question is asked once, and a dataset has no more fields than it may.
CHECK_DEADLOCK FALSE
