-------------------------- MODULE MCImportBatches --------------------------
(* Small instances of ImportBatches for TLC.                               *)
EXTENDS ImportBatches, TLC

CONSTANTS k1, k2, k2x

(* k2 and k2x are two ways to write one value.                             *)
WrittenValue == [key \in Keys |-> IF key = k2x THEN k2 ELSE key]

Row(error, warning, key) == [error |-> error, warning |-> warning, key |-> key]
Good(key) == Row(FALSE, FALSE, key)
Warn(key) == Row(FALSE, TRUE, key)

(* Two batches on one target: overlapping keys, a warning, a duplicate, a  *)
(* value written in two ways.                                              *)
PairFiles ==
  { <<Warn(k1), Good(k2)>>, <<Good(k2), Good(k2)>>, <<Good(k2x), Good(k2)>> }

(* A file that fails until its warning is confirmed, which can be retried  *)
(* for ever, and one above the limit of two rows.                          *)
LiveFiles ==
  { <<Good(k1), Warn(k2)>>, <<Good(NullKey), Good(NullKey), Good(NullKey)>> }

WorkerSymmetry == Permutations(Workers)
PairSymmetry == WorkerSymmetry \cup Permutations(Batches)
=============================================================================
