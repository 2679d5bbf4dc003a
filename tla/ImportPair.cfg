CONSTANTS
  k1 = k1
  k2 = k2
  k2x = k2x
  NullKey = NullKey
  NoWorker = NoWorker
  NoBatch = NoBatch
  Batches = {b1, b2}
  Workers = {w1, w2}
  Keys = {k1, k2, k2x}
  ColumnValue <- WrittenValue
  Files <- PairFiles
  Modes = {"append", "upsert", "replace"}
  ChunkRows = 1
  MaxRows = 3
  SampleLimit = 2
  MaxFileRows = 2
  MaxFaults = 1
SPECIFICATION Spec
SYMMETRY PairSymmetry
INVARIANTS
  KeysAreUnique
PROPERTIES
  ImplementsPublication
CHECK_DEADLOCK FALSE
