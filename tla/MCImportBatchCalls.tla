------------------------- MODULE MCImportBatchCalls -------------------------
(* Small instances of ImportBatchCalls for TLC.                            *)
EXTENDS ImportBatchCalls, TLC

CONSTANTS k1, k2

WrittenValue == [key \in Keys |-> key]

Row(error, warning, key) == [error |-> error, warning |-> warning, key |-> key]

(* Two rows, a warning in the second one: the batch fails until confirmed. *)
CallFiles == { <<Row(FALSE, FALSE, k1), Row(FALSE, TRUE, k2)>> }

CallSymmetry == Permutations(Workers)
=============================================================================
