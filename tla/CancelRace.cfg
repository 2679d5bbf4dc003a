CONSTANTS
  k1 = k1
  k2 = k2
  NullKey = NullKey
  NoWorker = NoWorker
  NoBatch = NoBatch
  NoCall = NoCall
  Batches = {b1}
  Workers = {w1, w2}
  Users = {u1}
  SlowCalls = {"cancel"}
  Keys = {k1, k2}
  ColumnValue <- WrittenValue
  Files <- CallFiles
  Modes = {"append"}
  ChunkRows = 1
  MaxRows = 3
  SampleLimit = 2
  MaxFileRows = 2
  MaxFaults = 0
SPECIFICATION CallsSpec
SYMMETRY CallSymmetry
INVARIANTS
  CancelledIsInvisible
CHECK_DEADLOCK FALSE
