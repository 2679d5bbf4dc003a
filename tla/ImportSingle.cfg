CONSTANTS
  k1 = k1
  k2 = k2
  NullKey = NullKey
  NoWorker = NoWorker
  NoBatch = NoBatch
  NoReport = NoReport
  Batches = {b1}
  Workers = {w1, w2}
  Keys = {k1, k2}
  ColumnValue <- WrittenValue
  Files <- SingleFiles
  Modes = {"append"}
  ChunkRows = 2
  MaxRows = 3
  SampleLimit = 2
  MaxFileRows = 4
  MaxFaults = 3
SPECIFICATION ReportsSpec
SYMMETRY WorkerSymmetry
INVARIANTS
  ExactlyOnce
  StagedBehindCheckpoint
  CountersMatchCheckpoint
  OnlySucceededVisible
  UncontestedReportIsComplete
PROPERTIES
  PublishesWholeFile
  CancellationWins
CHECK_DEADLOCK FALSE
