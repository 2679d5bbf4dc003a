\* Each question of the query side and its answer.
CONSTANTS
  Null = Null
  None = None
  NoFilter = NoFilter
  NoAnswer = NoAnswer
  NoBound = NoBound
  NoSheet = NoSheet
  NoColumn = NoColumn
  LengthOf <- MCLengthOf
  Templates <- MCTemplates
  Files <- MCFiles
  total = total
  share = share
  idle = idle
  MaxPredicates = 4
  FirstDay <- MCFirstDay
  OffsetBefore = 2
  OffsetAfter = 1
  ClockChange <- MCClockChange
  MaxFormulaNodes = 5
  MaxFormulaDepth = 3
  MaxSelections = 4
  MaxGroupFields = 2
  MaxSorts = 3
  MaxRows = 10
  MaxBatches = 6
  Columns <- MCColumns
  ColumnTarget <- MCColumnTarget
  ColumnType <- MCColumnType
  MaxSources = 4
  MaxKeys = 2
  Models <- MCModels
  Targets = {"fact", "shop", "area", "land"}
  PolicySets <- MCPolicySets
  PolicyRows <- MCPolicyRows
  Principal <- MCPrincipal
  Moments <- MCMoments
  ScopeSets <- MCScopeSets
  FilterRows <- MCFilterRows
  GroupColumns <- MCGroupColumns
  Formulas <- MCFormulas
  QueryDataset <- MCDataset
  History <- MCHistory
  Today = 2
  QueryRequests <- MCRequests
  QueryScopes <- MCQueryScopes
  QueryMoment <- MCQueryMoment
  BoardRequests <- MCBoardRequests
  SeriesRequests <- MCSeriesRequests
  Boards <- MCBoards
  SeriesBoards <- MCSeriesBoards
  SourceTypes <- MCSourceTypes
  Values = {"none", "int", "day", "word"}
  MaxNodes = 5
  MaxDepth = 2
  MaxFields = 4
  MaxVersions = 3
SPECIFICATION Spec
INVARIANTS
  KeptRowsAreValid
  JoinsResolve
  PoliciesFilterRows
  WindowsAreLocalDays
  MetricsAreDefined
  AnswersAreExact
  ChartsAreStable
  ChartsAreComplete
  SeriesAreWhole
  StoredFieldsCompile
PROPERTIES
  VersionsKeepMeaning
\* A question is asked once, and a dataset has no more fields than it may.
CHECK_DEADLOCK FALSE
