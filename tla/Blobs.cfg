CONSTANTS
  Uploads = {u1, u2, u3}
  Contents = {c1, c2}
  Images = {c2}
  MaxFaults = 2
SPECIFICATION Spec
SYMMETRY BlobSymmetry
INVARIANTS
  NewContentIsKept
  TemporaryFileIsKept
  OnlyCrashesLitter
CHECK_DEADLOCK FALSE
