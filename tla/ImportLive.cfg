CONSTANTS
  k1 = k1
  k2 = k2
  k2x = k2x
  NullKey = NullKey
  NoWorker = NoWorker
  NoBatch = NoBatch
  Batches = {b1, b2}
  Workers = {w1, w2}
  Keys = {k1, k2, k2x}
  ColumnValue <- WrittenValue
  Files <- LiveFiles
  Modes = {"append"}
  ChunkRows = 1
  MaxRows = 2
  SampleLimit = 2
  MaxFileRows = 3
  MaxFaults = 1
SPECIFICATION FairSpec
INVARIANTS
  WorkerViewIsCurrent
PROPERTIES
  EveryRunEnds
CHECK_DEADLOCK FALSE
