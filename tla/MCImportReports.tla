--------------------------- MODULE MCImportReports ---------------------------
(* Small instances of ImportReports for TLC.                               *)
EXTENDS ImportReports, TLC

CONSTANTS k1, k2

WrittenValue == [key \in Keys |-> key]

Row(error, warning, key) == [error |-> error, warning |-> warning, key |-> key]
Good(key) == Row(FALSE, FALSE, key)
Warn(key) == Row(FALSE, TRUE, key)

(* Files around the chunk and the row limit: a clean file, one with        *)
(* warnings in two chunks, one with a late duplicate, one with a bad row   *)
(* that also warns, one longer than MaxRows = 3, and an empty one.         *)
SingleFiles ==
  { <<Good(k1), Good(k2), Good(NullKey)>>,
    <<Warn(k1), Good(k2), Warn(NullKey)>>,
    <<Good(k1), Good(k2), Good(k1)>>,
    <<Good(k1), Row(TRUE, TRUE, k2)>>,
    <<Warn(k1), Good(NullKey), Good(NullKey), Good(NullKey)>>,
    << >> }

WorkerSymmetry == Permutations(Workers)
=============================================================================
