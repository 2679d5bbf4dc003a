CONSTANTS
  Uploads = {u1, u2}
  Contents = {c1}
  Images = {}
  MaxFaults = 1
SPECIFICATION Spec
SYMMETRY BlobSymmetry
INVARIANTS
  RegisteredIsStored
CHECK_DEADLOCK FALSE
