---------------------- MODULE ImportBatchCalls_proofs ----------------------
(***************************************************************************)
(* The import pipeline when cancellations and failure reports are slow, for*)
(* every instance.  Such a call writes the status of a batch, its          *)
(* cancellation request or its error code, whatever the batch has become;  *)
(* it never writes what ties the batch to its rows in the target table.    *)
(*                                                                         *)
(* The steps of the pipeline keep PipelineInv, which lets the status of a  *)
(* published batch be anything, and the writes of the calls keep it too.   *)
(***************************************************************************)
EXTENDS ImportPublication_proofs, ImportBatchCalls

-----------------------------------------------------------------------------
(* What an operation has to leave alone to keep what ties a row to its rows*)
(* in the target table.                                                    *)

LEMMA CallsRowKept ==
  ASSUME NEW row, NEW next, NEW st, NEW ac,
         CallsRowInv(row, st, ac), SameResults(row, next), next.mode = row.mode,
         next.status # "absent",
         next.status \in Succeeded => row.status \in Succeeded,
         next.status \in {"pending", "processing"} =>
           CountersOf(row, row.checkpoint_row) /\ next.error_code = "none",
         AwaitsConfirmation(next) => AwaitsConfirmation(row)
  PROVE  CallsRowInv(next, st, ac)
<1>1. RowsBehindCheckpoint(next) = RowsBehindCheckpoint(row)
  BY DEF SameResults, RowsBehindCheckpoint
<1>2. CountersOf(next, next.checkpoint_row) <=> CountersOf(row, row.checkpoint_row)
  BY DEF SameResults, CountersOf
<1>3. next.file = row.file /\ next.checkpoint_row = row.checkpoint_row
  BY DEF SameResults
<1>4. IsStaged(next, st, ac) \/ WasPublished(next, st, ac)
  <2>1. CASE IsStaged(row, st, ac)
    BY <1>1, <2>1 DEF IsStaged
  <2>2. CASE WasPublished(row, st, ac)
    BY <1>3, <2>2 DEF WasPublished
  <2> QED
    BY <2>1, <2>2 DEF CallsRowInv
<1> QED
  BY <1>2, <1>3, <1>4 DEF CallsRowInv

(* A batch without a checkpoint and without rows in the target table.      *)
LEMMA EmptyCallsRowInv ==
  ASSUME NEW row \in BatchRow,
         Len(row.file) <= MaxFileRows, row.checkpoint_row = 0,
         row.mode \in Modes \cup {"append"},
         row.status \in {"pending", "failed", "cancelled"},
         row.status = "pending" => CountersOf(row, 0) /\ row.error_code = "none"
  PROVE  CallsRowInv(row, NoRows, NoRows)
<1>1. RowsBehindCheckpoint(row) = NoRows
  BY NoRowsBehindNothing
<1>2. row.status \notin Succeeded /\ row.status # "absent"
  BY DEF Succeeded
<1>3. Len(row.file) \in Nat
  BY LenProperties DEF BatchRow
<1> QED
  BY <1>1, <1>2, <1>3 DEF CallsRowInv, IsStaged

(* A new run from the first row: what is staged or published stays so.     *)
LEMMA RestartedCallsRowInv ==
  ASSUME NEW row \in BatchRow, NEW st, NEW ac, CallsRowInv(row, st, ac),
         row.checkpoint_row = 0, row.status # "absent", NEW next \in BatchRow,
         next.status = "pending", next.file = row.file, next.mode = row.mode,
         next.checkpoint_row = 0, next.error_code = "none"
  PROVE  CallsRowInv(ResetResults(next), st, ac)
<1> DEFINE reset == ResetResults(next)
<1>1. /\ reset.status = "pending" /\ reset.file = row.file /\ reset.mode = row.mode
      /\ reset.checkpoint_row = 0 /\ reset.error_code = "none"
      /\ reset.processed_rows = 0 /\ reset.valid_rows = 0 /\ reset.error_rows = 0
      /\ reset.warning_rows = 0 /\ reset.samples = 0
  BY DEF ResetResults, BatchRow
<1> HIDE DEF reset
<1>2. CountersOf(reset, 0)
  BY <1>1, ResetCounters
<1>3. RowsBehindCheckpoint(reset) = NoRows /\ RowsBehindCheckpoint(row) = NoRows
  BY <1>1, NoRowsBehindNothing
<1>4. IsStaged(reset, st, ac) \/ WasPublished(reset, st, ac)
  <2>1. CASE IsStaged(row, st, ac)
    BY <1>1, <1>3, <2>1 DEF IsStaged, Succeeded
  <2>2. CASE WasPublished(row, st, ac)
    BY <1>1, <2>2 DEF WasPublished
  <2> QED
    BY <2>1, <2>2 DEF CallsRowInv
<1>5. CallsRowInv(reset, st, ac)
  BY <1>1, <1>2, <1>4 DEF CallsRowInv, AwaitsConfirmation
<1> QED
  BY <1>5 DEF reset

LEMMA SubmittedCallsRowInv ==
  ASSUME NEW f \in Files, NEW mode \in Modes, NEW confirmed \in BOOLEAN
  PROVE  CallsRowInv(SubmittedRow(AbsentRow, f, mode, confirmed), NoRows, NoRows)
<1> DEFINE next == SubmittedRow(AbsentRow, f, mode, confirmed)
<1>1. AbsentRow \in BatchRow
  BY DEF AbsentRow, BatchRow, NoTotal, ErrorCodes
<1>2. next \in BatchRow
  BY <1>1, SubmittedRowType, FilesAssumption, NamesAssumption
<1>3. /\ next.status = "pending" /\ next.file = f /\ next.checkpoint_row = 0
      /\ next.mode = mode /\ next.error_code = "none" /\ next.samples = 0
      /\ next.processed_rows = 0 /\ next.valid_rows = 0 /\ next.error_rows = 0
      /\ next.warning_rows = 0
  BY DEF SubmittedRow, AbsentRow
<1> HIDE DEF next
<1>4. CountersOf(next, 0)
  BY <1>3, ResetCounters
<1>5. Len(next.file) <= MaxFileRows
  BY <1>3, FilesAssumption
<1>6. CallsRowInv(next, NoRows, NoRows)
  BY <1>2, <1>3, <1>4, <1>5, EmptyCallsRowInv
<1> QED
  BY <1>6 DEF next

LEMMA RequeuedCallsRowInv ==
  ASSUME NEW row \in BatchRow, NEW st, NEW ac, CallsRowInv(row, st, ac),
         row.status = "failed"
  PROVE  CallsRowInv(IF row.checkpoint_row = 0 THEN ResetResults(Requeued(row))
                     ELSE Requeued(row), st, ac)
<1> DEFINE next == Requeued(row)
<1>1. next \in BatchRow
  BY RequeuedType
<1>2. /\ next.status = "pending" /\ next.mode = row.mode /\ next.error_code = "none"
      /\ SameResults(row, next)
  BY DEF Requeued, BatchRow, SameResults
<1> HIDE DEF next
<1>3. CASE row.checkpoint_row = 0
  <2>1. CallsRowInv(ResetResults(next), st, ac)
    BY <1>1, <1>2, <1>3, RestartedCallsRowInv DEF SameResults
  <2> QED
    BY <1>3, <2>1 DEF next
<1>4. CASE row.checkpoint_row # 0
  <2>1. row.checkpoint_row > 0
    BY <1>4 DEF BatchRow
  <2>2. CountersOf(row, row.checkpoint_row)
    BY <2>1 DEF CallsRowInv
  <2>3. CallsRowInv(next, st, ac)
    BY <1>2, <2>2, CallsRowKept DEF Succeeded, AwaitsConfirmation
  <2> QED
    BY <1>4, <2>3 DEF next
<1> QED
  BY <1>3, <1>4

LEMMA ConfirmedCallsRowInv ==
  ASSUME NEW row \in BatchRow, NEW st, NEW ac, CallsRowInv(row, st, ac),
         AwaitsConfirmation(row)
  PROVE  CallsRowInv(ResetResults(Confirmed(row)), st, ac)
<1>1. row.status = "failed" /\ row.checkpoint_row = 0
  BY DEF CallsRowInv, AwaitsConfirmation
<1>2. Confirmed(row) \in BatchRow
  BY ConfirmedType
<1>3. /\ Confirmed(row).status = "pending" /\ Confirmed(row).file = row.file
      /\ Confirmed(row).mode = row.mode /\ Confirmed(row).error_code = "none"
      /\ Confirmed(row).checkpoint_row = 0
  BY <1>1 DEF Confirmed, BatchRow
<1> QED
  BY <1>1, <1>2, <1>3, RestartedCallsRowInv

-----------------------------------------------------------------------------
(* What a call writes.                                                     *)

Columns ==
  {"status", "file", "mode", "warnings_confirmed", "cancellation_requested", "lease_owner",
   "lease_expired", "checkpoint_row", "processed_rows", "valid_rows", "error_rows",
   "warning_rows", "total_rows", "error_code", "samples", "unseen"}

LEMMA RowColumns ==
  ASSUME NEW row \in BatchRow
  PROVE  DOMAIN row = Columns
BY DEF BatchRow, Columns

(* A row put together column by column is a row.                           *)
LEMMA ColumnsMakeRow ==
  ASSUME NEW row, row = [column \in Columns |-> row[column]],
         row.status \in Statuses \cup {"absent"}, row.file \in Seq(RowData),
         row.mode \in {"append", "upsert", "replace"}, row.warnings_confirmed \in BOOLEAN,
         row.cancellation_requested \in BOOLEAN, row.lease_owner \in Workers \cup {NoWorker},
         row.lease_expired \in BOOLEAN, row.checkpoint_row \in Nat, row.processed_rows \in Nat,
         row.valid_rows \in Nat, row.error_rows \in Nat, row.warning_rows \in Nat,
         row.total_rows \in Nat \cup {NoTotal}, row.error_code \in ErrorCodes,
         row.samples \in Nat, row.unseen \in SUBSET Batches
  PROVE  row \in BatchRow
<1>1. DOMAIN row = Columns
  OBVIOUS
<1>2. row = [status |-> row.status, file |-> row.file, mode |-> row.mode,
             warnings_confirmed |-> row.warnings_confirmed,
             cancellation_requested |-> row.cancellation_requested,
             lease_owner |-> row.lease_owner, lease_expired |-> row.lease_expired,
             checkpoint_row |-> row.checkpoint_row, processed_rows |-> row.processed_rows,
             valid_rows |-> row.valid_rows, error_rows |-> row.error_rows,
             warning_rows |-> row.warning_rows, total_rows |-> row.total_rows,
             error_code |-> row.error_code, samples |-> row.samples,
             unseen |-> row.unseen]
  BY <1>1 DEF Columns
<1>3. [status |-> row.status, file |-> row.file, mode |-> row.mode,
       warnings_confirmed |-> row.warnings_confirmed,
       cancellation_requested |-> row.cancellation_requested,
       lease_owner |-> row.lease_owner, lease_expired |-> row.lease_expired,
       checkpoint_row |-> row.checkpoint_row, processed_rows |-> row.processed_rows,
       valid_rows |-> row.valid_rows, error_rows |-> row.error_rows,
       warning_rows |-> row.warning_rows, total_rows |-> row.total_rows,
       error_code |-> row.error_code, samples |-> row.samples,
       unseen |-> row.unseen] \in BatchRow
  BY DEF BatchRow
<1> QED
  BY <1>2, <1>3, Zenon

(* A slow cancellation writes the status it decided on, or the request; a  *)
(* slow failure report writes the status, the error code and the lease.    *)
LEMMA EditedColumns ==
  ASSUME NEW op, NEW seen \in BatchRow, Decides(op, seen)
  PROVE  LET edited == Edited(op, seen) IN
         /\ edited \in BatchRow
         /\ SameResults(seen, edited)
         /\ edited.mode = seen.mode /\ edited.total_rows = seen.total_rows
         /\ edited.unseen = seen.unseen
         /\ \/ /\ edited.status = "cancelled" /\ seen.status # "cancelled"
            \/ /\ edited.status = seen.status /\ edited.error_code = seen.error_code
               /\ edited.lease_owner = seen.lease_owner
            \/ /\ edited.status = "failed" /\ seen.status # "failed"
               /\ edited.error_code = "worker_error" /\ seen.error_code # "worker_error"
<1>1. CASE op = "cancel" /\ seen.status \in CancelledAtOnce
  BY <1>1 DEF Edited, BatchRow, SameResults, CancelledAtOnce, Statuses, Terminal
<1>2. CASE op = "cancel" /\ seen.status \notin CancelledAtOnce
  BY <1>2 DEF Edited, BatchRow, SameResults
<1>3. CASE op = "mark_failure" /\ seen.status = "processing" /\ seen.error_code = "none"
  BY <1>3 DEF Edited, WorkerFailedRow, BatchRow, SameResults, Statuses, ErrorCodes
<1> QED
  BY <1>1, <1>2, <1>3 DEF Decides

LEMMA FlushedRow ==
  ASSUME NEW row \in BatchRow, NEW op, NEW seen \in BatchRow, Decides(op, seen)
  PROVE  LET next == Flushed(op, row, seen) IN
         /\ next \in BatchRow
         /\ SameResults(row, next)
         /\ next.mode = row.mode /\ next.unseen = row.unseen
         /\ \/ next.status = "cancelled"
            \/ /\ next.status = row.status /\ next.error_code = row.error_code
               /\ next.lease_owner = row.lease_owner
            \/ next.status = "failed" /\ next.error_code = "worker_error"
<1> DEFINE edited == Edited(op, seen)
           merged == [column \in DOMAIN row |->
                        IF edited[column] # seen[column] THEN edited[column] ELSE row[column]]
           next == Flushed(op, row, seen)
<1>1. /\ edited \in BatchRow
      /\ SameResults(seen, edited)
      /\ edited.mode = seen.mode /\ edited.total_rows = seen.total_rows
      /\ edited.unseen = seen.unseen
      /\ \/ /\ edited.status = "cancelled" /\ seen.status # "cancelled"
         \/ /\ edited.status = seen.status /\ edited.error_code = seen.error_code
            /\ edited.lease_owner = seen.lease_owner
         \/ /\ edited.status = "failed" /\ seen.status # "failed"
            /\ edited.error_code = "worker_error" /\ seen.error_code # "worker_error"
  BY EditedColumns
<1>2. ~ DeletesSamples(op, seen)
  BY DEF DeletesSamples, Decides
<1>3. next = [merged EXCEPT !.samples = @]
  BY <1>2 DEF Flushed
<1> HIDE DEF edited, next
<1>4. \A column \in Columns :
        merged[column] = IF edited[column] # seen[column] THEN edited[column] ELSE row[column]
  BY RowColumns
<1>5. merged = [column \in Columns |-> merged[column]]
  BY RowColumns
<1> HIDE DEF merged
<1>6. next = [column \in Columns |-> next[column]] /\ \A column \in Columns : next[column] = merged[column]
  BY <1>3, <1>5
<1>7. \A column \in Columns :
        next[column] = IF edited[column] # seen[column] THEN edited[column] ELSE row[column]
  BY <1>4, <1>6
<1>8. /\ SameResults(row, next)
      /\ next.mode = row.mode /\ next.unseen = row.unseen
      /\ next.total_rows = row.total_rows
  BY <1>1, <1>7 DEF Columns, SameResults
<1>9. \/ next.status = "cancelled"
      \/ /\ next.status = row.status /\ next.error_code = row.error_code
         /\ next.lease_owner = row.lease_owner
      \/ next.status = "failed" /\ next.error_code = "worker_error"
  BY <1>1, <1>7 DEF Columns
<1>10. next \in BatchRow
  <2>1. /\ next.status \in {edited.status, row.status}
        /\ next.error_code \in {edited.error_code, row.error_code}
        /\ next.lease_owner \in {edited.lease_owner, row.lease_owner}
        /\ next.lease_expired \in {edited.lease_expired, row.lease_expired}
        /\ next.cancellation_requested \in
             {edited.cancellation_requested, row.cancellation_requested}
    BY <1>7 DEF Columns
  <2>2. /\ next.status \in Statuses \cup {"absent"} /\ next.error_code \in ErrorCodes
        /\ next.lease_owner \in Workers \cup {NoWorker} /\ next.lease_expired \in BOOLEAN
        /\ next.cancellation_requested \in BOOLEAN
    BY <1>1, <2>1 DEF BatchRow
  <2>3. /\ next.file \in Seq(RowData) /\ next.mode \in {"append", "upsert", "replace"}
        /\ next.warnings_confirmed \in BOOLEAN
        /\ next.checkpoint_row \in Nat /\ next.processed_rows \in Nat
        /\ next.valid_rows \in Nat /\ next.error_rows \in Nat /\ next.warning_rows \in Nat
        /\ next.total_rows \in Nat \cup {NoTotal} /\ next.samples \in Nat
        /\ next.unseen \in SUBSET Batches
    BY <1>8 DEF BatchRow, SameResults
  <2> QED
    BY <1>6, <2>2, <2>3, ColumnsMakeRow
<1> QED
  BY <1>8, <1>9, <1>10 DEF next

LEMMA FlushedCallsRowInv ==
  ASSUME NEW row \in BatchRow, NEW st, NEW ac, CallsRowInv(row, st, ac),
         row.status # "absent", NEW op, NEW seen \in BatchRow, Decides(op, seen)
  PROVE  CallsRowInv(Flushed(op, row, seen), st, ac)
<1> DEFINE next == Flushed(op, row, seen)
<1>1. /\ SameResults(row, next)
      /\ next.mode = row.mode
      /\ \/ next.status = "cancelled"
         \/ next.status = row.status /\ next.error_code = row.error_code
         \/ next.status = "failed" /\ next.error_code = "worker_error"
  BY FlushedRow
<1> HIDE DEF next
<1>2. CallsRowInv(next, st, ac)
  <2>1. CASE next.status = "cancelled"
    BY <1>1, <2>1, CallsRowKept DEF Succeeded, AwaitsConfirmation
  <2>2. CASE next.status = row.status /\ next.error_code = row.error_code
    BY <1>1, <2>2, CallsRowKept DEF CallsRowInv, AwaitsConfirmation
  <2>3. CASE next.status = "failed" /\ next.error_code = "worker_error"
    BY <1>1, <2>3, CallsRowKept DEF Succeeded, AwaitsConfirmation
  <2> QED
    BY <1>1, <2>1, <2>2, <2>3
<1> QED
  BY <1>2 DEF next

-----------------------------------------------------------------------------
(* What the worker does to a row and its rows in the target table.         *)

LEMMA CommittedCallsRowInv ==
  ASSUME NEW row \in BatchRow, NEW st \in [RowNumbers -> Nat], NEW ac,
         CallsRowInv(row, st, ac), row.status = "processing",
         NEW cp \in Nat, row.checkpoint_row = cp, NEW samples, row.samples = samples,
         NEW confirmed, row.warnings_confirmed = confirmed,
         NEW hi \in Nat, cp < hi, hi <= Len(row.file), NEW sampled,
         sampled = AtMost(Issues(row.file, cp + 1, hi),
                          IF samples < SampleLimit THEN SampleLimit - samples ELSE 0)
  PROVE  CallsRowInv(CommittedRow(row, cp + 1, hi, confirmed, sampled),
                     StagedAfter(st, row.file, cp + 1, hi, confirmed), ac)
<1> DEFINE next == CommittedRow(row, cp + 1, hi, confirmed, sampled)
           after == StagedAfter(st, row.file, cp + 1, hi, confirmed)
<1>1. CountersOf(row, cp) /\ row.error_code = "none"
  BY DEF CallsRowInv
<1>2. next.checkpoint_row = hi /\ CountersOf(next, hi)
  BY <1>1, CommittedCounters
<1>3. /\ next.file = row.file /\ next.status = "processing" /\ next.mode = row.mode
      /\ next.warnings_confirmed = confirmed /\ next.error_code = "none"
  BY <1>1 DEF CommittedRow, BatchRow
<1> HIDE DEF next
<1>4. IsStaged(row, st, ac)
  <2>1. Len(row.file) \in Nat
    BY LenProperties DEF BatchRow
  <2>2. row.checkpoint_row # Len(row.file)
    BY <2>1
  <2> QED
    BY <2>2 DEF CallsRowInv, WasPublished
<1>5. after = RowsBehindCheckpoint(next)
  <2>1. ASSUME NEW i \in RowNumbers
        PROVE  after[i] = RowsBehindCheckpoint(next)[i]
    <3> DEFINE acc == Accepted(row.file, i, confirmed)
    <3>1. st[i] = IF i <= cp /\ acc THEN 1 ELSE 0
      BY <1>4 DEF IsStaged, RowsBehindCheckpoint
    <3>2. RowsBehindCheckpoint(next)[i] = IF i <= hi /\ acc THEN 1 ELSE 0
      BY <1>2, <1>3 DEF RowsBehindCheckpoint
    <3>3. i \in Nat /\ i >= 1
      BY DEF RowNumbers
    <3>4. after[i] = IF i \in (cp + 1) .. hi /\ acc THEN st[i] + 1 ELSE st[i]
      BY DEF StagedAfter
    <3> HIDE DEF acc, after
    <3> QED
      BY <3>1, <3>2, <3>3, <3>4
  <2> QED
    BY <2>1 DEF RowsBehindCheckpoint, StagedAfter
<1> HIDE DEF after
<1>6. IsStaged(next, after, ac)
  BY <1>3, <1>4, <1>5 DEF IsStaged, Succeeded
<1>7. Len(next.file) <= MaxFileRows /\ next.mode \in Modes \cup {"append"}
  BY <1>3 DEF CallsRowInv
<1>8. CallsRowInv(next, after, ac)
  BY <1>2, <1>3, <1>6, <1>7 DEF CallsRowInv, AwaitsConfirmation
<1> QED
  BY <1>8 DEF next, after

(* The rows of a batch that finds the whole file accepted: once staged, or *)
(* published before.                                                       *)
LEMMA WholeFileStaged ==
  ASSUME NEW row \in BatchRow, NEW st, NEW ac, CallsRowInv(row, st, ac),
         row.status = "processing", row.checkpoint_row = Len(row.file),
         Verdict(row, Len(row.file)) = "none", IsStaged(row, st, ac)
  PROVE  /\ ac = NoRows
         /\ st = [i \in RowNumbers |-> IF i <= Len(row.file) THEN 1 ELSE 0]
<1> DEFINE n == Len(row.file)
<1>1. n \in Nat
  BY LenProperties DEF BatchRow
<1>2. CountersOf(row, n)
  BY DEF CallsRowInv
<1>3. ~(ErrorRows(row.file, 1, n) > 0)
      /\ (WarningRows(row.file, 1, n) > 0 => row.warnings_confirmed)
  BY <1>2 DEF Verdict, CountersOf
<1>4. row.warnings_confirmed \in BOOLEAN
  BY DEF BatchRow
<1>5. \A i \in 1 .. n : Accepted(row.file, i, row.warnings_confirmed)
  <2> HIDE DEF n
  <2> QED
    BY <1>1, <1>3, <1>4, CleanFile
<1>6. \A i \in RowNumbers : i <= n => i \in 1 .. n
  BY <1>1, FilesAssumption DEF RowNumbers
<1>7. RowsBehindCheckpoint(row) = [i \in RowNumbers |-> IF i <= n THEN 1 ELSE 0]
  BY <1>5, <1>6 DEF RowsBehindCheckpoint
<1> QED
  BY <1>7 DEF IsStaged

(* The rows of an earlier batch may be displaced, never copied.            *)
LEMMA DisplacedCallsRowInv ==
  ASSUME NEW row, NEW st, NEW ac \in [RowNumbers -> Nat], NEW left \in [RowNumbers -> Nat],
         CallsRowInv(row, st, ac),
         \A i \in RowNumbers : left[i] = 0 \/ left[i] = ac[i],
         Modes = {"append"} => left = ac
  PROVE  CallsRowInv(row, st, left)
<1>1. ac = NoRows => left = NoRows
  <2>1. SUFFICES ASSUME ac = NoRows PROVE left = NoRows
    OBVIOUS
  <2>2. \A i \in RowNumbers : left[i] = 0
    BY <2>1 DEF NoRows
  <2> QED
    BY <2>2 DEF NoRows
<1>2. CASE IsStaged(row, st, ac)
  BY <1>1, <1>2 DEF CallsRowInv, IsStaged
<1>3. CASE WasPublished(row, st, ac)
  <2>1. \A i \in RowNumbers : left[i] <= 1
    BY <1>3 DEF WasPublished
  <2>2. WasPublished(row, st, left)
    BY <1>3, <2>1 DEF WasPublished
  <2> QED
    BY <1>1, <2>2 DEF CallsRowInv
<1> QED
  BY <1>2, <1>3 DEF CallsRowInv

LEMMA PublishedCallsRowInv ==
  ASSUME NEW row \in BatchRow, NEW st \in [RowNumbers -> Nat],
         NEW ac \in [RowNumbers -> Nat], NEW left \in [RowNumbers -> Nat],
         NEW after \in [RowNumbers -> Nat], NEW unseen, CallsRowInv(row, st, ac),
         row.status = "processing", row.checkpoint_row = Len(row.file),
         Verdict(row, Len(row.file)) = "none",
         \A i \in RowNumbers : left[i] = 0 \/ left[i] = ac[i],
         Modes = {"append"} => left = ac,
         \A i \in RowNumbers : after[i] = left[i] + st[i]
  PROVE  CallsRowInv(PublishedRow(row, Len(row.file), unseen), NoRows, after)
<1> DEFINE n == Len(row.file)
           next == PublishedRow(row, n, unseen)
<1>1. /\ next.status \in Succeeded /\ next.mode = row.mode /\ SameResults(row, next)
  BY DEF PublishedRow, BatchRow, SameResults, Succeeded
<1>2. n \in Nat
  BY LenProperties DEF BatchRow
<1>3. \A i \in 1 .. n : i \in RowNumbers
  BY <1>2, FilesAssumption DEF RowNumbers, CallsRowInv
<1> HIDE DEF next
<1>4. /\ \A i \in RowNumbers : after[i] <= 1
      /\ Modes = {"append"} => \A i \in 1 .. n : after[i] = 1
  <2>1. CASE IsStaged(row, st, ac)
    <3>1. ac = NoRows /\ st = [i \in RowNumbers |-> IF i <= n THEN 1 ELSE 0]
      BY <2>1, WholeFileStaged
    <3>2. \A i \in RowNumbers : left[i] = 0
      BY <3>1 DEF NoRows
    <3>3. \A i \in RowNumbers : after[i] = IF i <= n THEN 1 ELSE 0
      BY <3>1, <3>2
    <3> HIDE DEF n
    <3>4. ASSUME NEW i \in RowNumbers PROVE after[i] <= 1
      <4>1. after[i] = 1 \/ after[i] = 0
        BY <3>3
      <4> QED
        BY <4>1
    <3>5. ASSUME NEW i \in 1 .. n PROVE after[i] = 1
      <4>1. i \in RowNumbers /\ i <= n
        BY <1>2, <1>3
      <4> QED
        BY <3>3, <4>1
    <3> QED
      BY <3>4, <3>5
  <2>2. CASE WasPublished(row, st, ac)
    <3>1. \A i \in RowNumbers : st[i] = 0
      BY <2>2 DEF WasPublished, NoRows
    <3>2. \A i \in RowNumbers : after[i] = left[i]
      BY <3>1
    <3>3. \A i \in RowNumbers : ac[i] <= 1
      BY <2>2 DEF WasPublished
    <3>4. Modes = {"append"} => \A i \in 1 .. n : ac[i] = 1
      BY <2>2 DEF WasPublished
    <3> HIDE DEF n
    <3>5. ASSUME NEW i \in RowNumbers PROVE after[i] <= 1
      <4>1. after[i] = 0 \/ after[i] = ac[i]
        BY <3>2
      <4>2. ac[i] <= 1
        BY <3>3
      <4> QED
        BY <4>1, <4>2
    <3>6. ASSUME Modes = {"append"}, NEW i \in 1 .. n PROVE after[i] = 1
      <4>1. i \in RowNumbers /\ ac[i] = 1
        BY <1>3, <3>4, <3>6
      <4>2. after[i] = left[i] /\ left[i] = ac[i]
        BY <3>2, <3>6, <4>1
      <4> QED
        BY <4>1, <4>2
    <3> QED
      BY <3>5, <3>6
  <2> QED
    BY <2>1, <2>2 DEF CallsRowInv
<1>5. WasPublished(next, NoRows, after)
  BY <1>1, <1>4 DEF WasPublished, SameResults
<1>6. CountersOf(next, next.checkpoint_row)
  BY <1>1 DEF CallsRowInv, CountersOf, SameResults
<1>7. /\ next.status \notin {"absent", "pending", "processing", "failed"}
      /\ Len(next.file) <= MaxFileRows /\ next.checkpoint_row <= Len(next.file)
  BY <1>1 DEF CallsRowInv, SameResults, Succeeded
<1>8. CallsRowInv(next, NoRows, after)
  BY <1>1, <1>5, <1>6, <1>7 DEF CallsRowInv, AwaitsConfirmation
<1> QED
  BY <1>8 DEF next

-----------------------------------------------------------------------------
(* A step changes the row of one batch.  The workers in D take part in it; *)
(* the others keep a current view.                                         *)

StaySubmitted == \A c \in Batches : batch[c].status # "absent" => batch'[c].status # "absent"

LEMMA StepOfOne ==
  ASSUME PipelineInv, TypeOK', NEW b \in Batches, NEW next, NEW D,
         batch' = [batch EXCEPT ![b] = next], next.status # "absent",
         CallsRowInv(next, staged'[b], active'[b]),
         \A c \in Batches \ {b} : CallsRowInv(batch[c], staged'[c], active'[c]),
         \A v \in Workers \ D : worker'[v] = worker[v],
         batch[b].status # "absent" =>
           \A v \in Workers \ D : Job(v) = b => KeepsView(v, batch[b], next),
         \A v \in Workers \cap D :
           worker'[v].pc # "idle" => ViewInv(v, worker'[v], batch'[worker'[v].job])
  PROVE  PipelineInv' /\ StaySubmitted
<1>1. TypeOK /\ batch \in [Batches -> BatchRow]
  BY DEF PipelineInv, TypeOK
<1>2. batch'[b] = next /\ \A c \in Batches \ {b} : batch'[c] = batch[c]
  BY <1>1
<1>3. ASSUME NEW v \in Workers \ D, worker'[v].pc # "idle"
      PROVE  ViewInv(v, worker'[v], batch'[worker'[v].job])
  <2>1. worker'[v] = worker[v] /\ worker[v].pc # "idle"
    BY <1>3
  <2>2. Job(v) \in Batches /\ ViewInv(v, worker[v], batch[Job(v)])
    BY <1>1, <2>1 DEF PipelineInv, TypeOK
  <2>3. CASE Job(v) = b
    <3>1. KeepsView(v, batch[b], next)
      BY <2>2, <2>3 DEF ViewInv
    <3>2. Len(batch[b].file) \in Nat
      BY <1>1, FileLength
    <3>3. ViewInv(v, worker[v], next)
      BY <2>2, <2>3, <3>1, <3>2, ViewKept
    <3> QED
      BY <1>2, <2>1, <2>3, <3>3 DEF Job
  <2>4. CASE Job(v) # b
    <3>1. batch'[Job(v)] = batch[Job(v)]
      BY <1>2, <2>2, <2>4
    <3> QED
      BY <2>1, <2>2, <3>1 DEF Job
  <2> QED
    BY <2>3, <2>4
<1>4. \A c \in Batches : CallsRowInv(batch'[c], staged'[c], active'[c])
  <2>1. ASSUME NEW c \in Batches \ {b} PROVE CallsRowInv(batch'[c], staged'[c], active'[c])
    BY <1>2, <2>1
  <2>2. CallsRowInv(batch'[b], staged'[b], active'[b])
    BY <1>2
  <2> QED
    BY <2>1, <2>2
<1>5. StaySubmitted
  BY <1>2 DEF StaySubmitted
<1> QED
  BY <1>3, <1>4, <1>5 DEF PipelineInv, Job

LEMMA StepOfWorker ==
  ASSUME PipelineInv, TypeOK', NEW w \in Workers, NEW state,
         UNCHANGED <<batch, staged, active>>, worker' = [worker EXCEPT ![w] = state],
         state.pc # "idle" => ViewInv(w, state, batch[state.job])
  PROVE  PipelineInv' /\ StaySubmitted
<1>1. worker \in [Workers -> WorkerState]
  BY DEF PipelineInv, TypeOK
<1>2. ASSUME NEW v \in Workers, worker'[v].pc # "idle"
      PROVE  ViewInv(v, worker'[v], batch'[worker'[v].job])
  <2>1. CASE v = w
    BY <1>1, <1>2, <2>1
  <2>2. CASE v # w
    <3>1. worker'[v] = worker[v]
      BY <1>1, <2>2
    <3> QED
      BY <1>2, <3>1 DEF PipelineInv, Job
  <2> QED
    BY <2>1, <2>2
<1>3. \A b \in Batches : CallsRowInv(batch[b], staged[b], active[b])
  BY DEF PipelineInv
<1> QED
  BY <1>2, <1>3 DEF PipelineInv, StaySubmitted, Job

LEMMA CallsRowOf ==
  ASSUME PipelineInv, NEW b \in Batches
  PROVE  /\ TypeOK
         /\ batch[b] \in BatchRow
         /\ CallsRowInv(batch[b], staged[b], active[b])
         /\ staged[b] \in [RowNumbers -> Nat] /\ active[b] \in [RowNumbers -> Nat]
         /\ Len(batch[b].file) \in Nat
<1>1. TypeOK
  BY DEF PipelineInv
<1>2. batch[b] \in BatchRow /\ Len(batch[b].file) \in Nat
  BY <1>1, RowType, FileLength
<1> QED
  BY <1>1, <1>2 DEF PipelineInv, TypeOK

LEMMA CallsWorkerOf ==
  ASSUME PipelineInv, NEW w \in Workers, worker[w].pc # "idle"
  PROVE  /\ worker[w] \in WorkerState /\ Job(w) \in Batches
         /\ worker \in [Workers -> WorkerState]
         /\ ViewInv(w, worker[w], batch[Job(w)])
<1>1. TypeOK
  BY DEF PipelineInv
<1> QED
  BY <1>1, BusyWorkerType DEF PipelineInv, TypeOK

-----------------------------------------------------------------------------
(* One lemma per operation.                                                *)

(* A step of the API or of time, in which no worker takes part.            *)
LEMMA CallsFromApi ==
  ASSUME PipelineInv, TypeOK', NEW b \in Batches, NEW next,
         batch' = [batch EXCEPT ![b] = next], UNCHANGED <<staged, active, worker>>,
         next.status # "absent", CallsRowInv(next, staged[b], active[b]),
         batch[b].status # "absent" =>
           \A v \in Workers : Job(v) = b => KeepsView(v, batch[b], next)
  PROVE  PipelineInv' /\ StaySubmitted
<1>1. CallsRowInv(next, staged'[b], active'[b])
  OBVIOUS
<1>2. \A c \in Batches \ {b} : CallsRowInv(batch[c], staged'[c], active'[c])
  BY DEF PipelineInv
<1>3. \A v \in Workers \ {} : worker'[v] = worker[v]
  OBVIOUS
<1>4. \A v \in Workers \cap {} :
        worker'[v].pc # "idle" => ViewInv(v, worker'[v], batch'[worker'[v].job])
  OBVIOUS
<1>5. batch[b].status # "absent" =>
        \A v \in Workers \ {} : Job(v) = b => KeepsView(v, batch[b], next)
  OBVIOUS
<1> QED
  BY <1>1, <1>2, <1>3, <1>4, <1>5, StepOfOne

LEMMA CallsFromEnd ==
  ASSUME PipelineInv, TypeOK', NEW w \in Workers, NEW b \in Batches, NEW next,
         batch' = [batch EXCEPT ![b] = next], worker' = [worker EXCEPT ![w] = Idle],
         next.status # "absent", CallsRowInv(next, staged'[b], active'[b]),
         \A c \in Batches \ {b} : CallsRowInv(batch[c], staged'[c], active'[c]),
         \A v \in Workers \ {w} : Job(v) = b => KeepsView(v, batch[b], next)
  PROVE  PipelineInv' /\ StaySubmitted
<1>1. worker \in [Workers -> WorkerState]
  BY DEF PipelineInv, TypeOK
<1>2. \A v \in Workers \ {w} : worker'[v] = worker[v]
  BY <1>1
<1>3. \A v \in Workers \cap {w} :
        worker'[v].pc # "idle" => ViewInv(v, worker'[v], batch'[worker'[v].job])
  BY <1>1 DEF Idle
<1>4. batch[b].status # "absent" =>
        \A v \in Workers \ {w} : Job(v) = b => KeepsView(v, batch[b], next)
  OBVIOUS
<1> QED
  BY <1>2, <1>3, <1>4, StepOfOne

LEMMA CreateCalls ==
  ASSUME PipelineInv, NEW b \in Batches, NEW f \in Files, NEW mode \in Modes,
         NEW confirmed \in BOOLEAN, CreateImportBatch(b, f, mode, confirmed)
  PROVE  PipelineInv' /\ StaySubmitted
<1> DEFINE next == SubmittedRow(batch[b], f, mode, confirmed)
<1>1. TypeOK'
  BY CallsRowOf, CreateType
<1>2. batch[b] = AbsentRow /\ staged[b] = NoRows /\ active[b] = NoRows
  BY CallsRowOf DEF CreateImportBatch, CallsRowInv
<1>3. CallsRowInv(next, staged[b], active[b])
  BY <1>2, SubmittedCallsRowInv
<1>4. /\ batch[b].status = "absent"
      /\ batch' = [batch EXCEPT ![b] = next]
      /\ UNCHANGED <<staged, active, worker>>
  BY DEF CreateImportBatch
<1>5. next.status # "absent"
  BY CallsRowOf DEF SubmittedRow, BatchRow
<1> HIDE DEF next
<1> QED
  BY <1>1, <1>3, <1>4, <1>5, CallsFromApi

LEMMA CancelCalls ==
  ASSUME PipelineInv, NEW b \in Batches, CancelImportBatch(b)
  PROVE  PipelineInv' /\ StaySubmitted
<1>1. TypeOK'
  BY CallsRowOf, CancelType
<1>2. UNCHANGED <<staged, active, worker>>
  BY DEF CancelImportBatch
<1>3. batch[b] \in BatchRow /\ CallsRowInv(batch[b], staged[b], active[b])
  BY CallsRowOf
<1>4. CASE /\ batch[b].status \in CancelledAtOnce
           /\ batch' = [batch EXCEPT ![b].status = "cancelled"]
  <2> DEFINE next == [batch[b] EXCEPT !.status = "cancelled"]
  <2>1. next.status = "cancelled" /\ next.mode = batch[b].mode /\ SameResults(batch[b], next)
    BY <1>3 DEF BatchRow, SameResults
  <2>2. \A v \in Workers : KeepsView(v, batch[b], next)
    BY <1>3, <1>4 DEF KeepsView, BatchRow, CancelledAtOnce, MayPublish
  <2>3. batch' = [batch EXCEPT ![b] = next]
    BY <1>4
  <2> HIDE DEF next
  <2>4. CallsRowInv(next, staged[b], active[b])
    BY <1>3, <2>1, CallsRowKept DEF Succeeded, AwaitsConfirmation
  <2>5. next.status # "absent"
    BY <2>1
  <2> QED
    BY <1>1, <1>2, <2>2, <2>3, <2>4, <2>5, CallsFromApi
<1>5. CASE /\ batch[b].status = "processing"
           /\ batch' = [batch EXCEPT ![b].cancellation_requested = TRUE]
  <2> DEFINE next == [batch[b] EXCEPT !.cancellation_requested = TRUE]
  <2>1. /\ next.status = "processing" /\ next.mode = batch[b].mode
        /\ next.error_code = batch[b].error_code /\ SameResults(batch[b], next)
    BY <1>3, <1>5 DEF BatchRow, SameResults
  <2>2. \A v \in Workers : Job(v) = b => KeepsView(v, batch[b], next)
    <3>1. ~Locked(b)
      BY DEF CancelImportBatch
    <3> QED
      BY <1>3, <1>5, <3>1 DEF KeepsView, BatchRow, Locked
  <2>3. batch' = [batch EXCEPT ![b] = next]
    BY <1>5
  <2> HIDE DEF next
  <2>4. CountersOf(batch[b], batch[b].checkpoint_row) /\ batch[b].error_code = "none"
    BY <1>3, <1>5 DEF CallsRowInv
  <2>5. CallsRowInv(next, staged[b], active[b])
    BY <1>3, <2>1, <2>4, CallsRowKept DEF Succeeded, AwaitsConfirmation
  <2>6. next.status # "absent"
    BY <2>1
  <2> QED
    BY <1>1, <1>2, <2>2, <2>3, <2>5, <2>6, CallsFromApi
<1> QED
  BY <1>4, <1>5 DEF CancelImportBatch

LEMMA RetryCalls ==
  ASSUME PipelineInv, NEW b \in Batches, RetryImportBatch(b)
  PROVE  PipelineInv' /\ StaySubmitted
<1> DEFINE next == IF batch[b].checkpoint_row = 0 THEN ResetResults(Requeued(batch[b]))
                   ELSE Requeued(batch[b])
<1>1. TypeOK' /\ batch[b] \in BatchRow
  BY CallsRowOf, RetryType
<1>2. /\ batch[b].status = "failed" /\ batch' = [batch EXCEPT ![b] = next]
      /\ UNCHANGED <<staged, active, worker>>
  BY <1>1 DEF RetryImportBatch
<1>3. CallsRowInv(next, staged[b], active[b])
  BY <1>2, CallsRowOf, RequeuedCallsRowInv
<1>4. \A v \in Workers : KeepsView(v, batch[b], next)
  BY <1>1, <1>2 DEF KeepsView, BatchRow, Requeued, ResetResults, MayPublish
<1>5. next.status # "absent"
  BY <1>1 DEF BatchRow, Requeued, ResetResults
<1> HIDE DEF next
<1> QED
  BY <1>1, <1>2, <1>3, <1>4, <1>5, CallsFromApi

LEMMA ConfirmCalls ==
  ASSUME PipelineInv, NEW b \in Batches, ConfirmImportBatchWarnings(b)
  PROVE  PipelineInv' /\ StaySubmitted
<1> DEFINE next == ResetResults(Confirmed(batch[b]))
<1>1. TypeOK' /\ batch[b] \in BatchRow
  BY CallsRowOf, ConfirmType
<1>2. /\ AwaitsConfirmation(batch[b]) /\ batch' = [batch EXCEPT ![b] = next]
      /\ UNCHANGED <<staged, active, worker>>
  BY DEF ConfirmImportBatchWarnings, AwaitsConfirmation
<1>3. CallsRowInv(next, staged[b], active[b])
  BY <1>2, CallsRowOf, ConfirmedCallsRowInv
<1>4. \A v \in Workers : KeepsView(v, batch[b], next)
  BY <1>1, <1>2 DEF KeepsView, BatchRow, Confirmed, ResetResults, MayPublish,
                    AwaitsConfirmation
<1>5. next.status # "absent"
  BY <1>1 DEF BatchRow, Confirmed, ResetResults
<1> HIDE DEF next
<1> QED
  BY <1>1, <1>2, <1>3, <1>4, <1>5, CallsFromApi

LEMMA ExpiresCalls ==
  ASSUME PipelineInv, NEW b \in Batches, LeaseExpires(b)
  PROVE  PipelineInv' /\ StaySubmitted
<1> DEFINE next == [batch[b] EXCEPT !.lease_expired = TRUE]
<1>1. TypeOK' /\ batch[b] \in BatchRow /\ CallsRowInv(batch[b], staged[b], active[b])
  BY CallsRowOf, LeaseExpiresType
<1>2. /\ batch[b].status = "processing" /\ batch' = [batch EXCEPT ![b] = next]
      /\ UNCHANGED <<staged, active, worker>>
  BY DEF LeaseExpires
<1>3. /\ next.status = "processing" /\ next.mode = batch[b].mode
      /\ next.error_code = batch[b].error_code /\ SameResults(batch[b], next)
  BY <1>1, <1>2 DEF BatchRow, SameResults
<1>4. \A v \in Workers : KeepsView(v, batch[b], next)
  <2>1. /\ next.lease_owner = batch[b].lease_owner
        /\ next.cancellation_requested = batch[b].cancellation_requested
    BY <1>1 DEF BatchRow
  <2> HIDE DEF next
  <2>2. Verdict(next, Len(next.file)) = Verdict(batch[b], Len(batch[b].file))
    BY <1>3 DEF Verdict, SameResults
  <2>3. \A v \in Workers : MayPublish(v, batch[b]) => MayPublish(v, next)
    BY <1>3, <2>1, <2>2 DEF MayPublish
  <2> QED
    BY <1>2, <1>3, <2>1, <2>3 DEF KeepsView, SameResults
<1> HIDE DEF next
<1>5. CountersOf(batch[b], batch[b].checkpoint_row) /\ batch[b].error_code = "none"
  BY <1>1, <1>2 DEF CallsRowInv
<1>6. CallsRowInv(next, staged[b], active[b])
  BY <1>1, <1>3, <1>5, CallsRowKept DEF Succeeded, AwaitsConfirmation
<1>7. next.status # "absent"
  BY <1>3
<1> QED
  BY <1>1, <1>2, <1>4, <1>6, <1>7, CallsFromApi

LEMMA ClaimCalls ==
  ASSUME PipelineInv, NEW w \in Workers, NEW b \in Batches, ClaimNextImportBatch(w, b)
  PROVE  PipelineInv' /\ StaySubmitted
<1> DEFINE next == ClaimedRow(batch[b], w)
<1>1. TypeOK' /\ batch[b] \in BatchRow /\ CallsRowInv(batch[b], staged[b], active[b])
  BY CallsRowOf, ClaimType
<1>2. /\ worker[w].pc = "idle" /\ batch' = [batch EXCEPT ![b] = next]
      /\ worker' = [worker EXCEPT ![w] = [@ EXCEPT !.pc = "claimed", !.job = b]]
      /\ UNCHANGED <<staged, active>>
      /\ batch[b].status \in {"pending", "processing"} /\ ~Locked(b)
  BY DEF ClaimNextImportBatch, NextClaimable, Claimable
<1>3. /\ next.status = "processing" /\ next.mode = batch[b].mode
      /\ next.error_code = batch[b].error_code /\ SameResults(batch[b], next)
  BY <1>1 DEF BatchRow, SameResults, ClaimedRow
<1>4. \A v \in Workers \ {w} : Job(v) = b => KeepsView(v, batch[b], next)
  BY <1>1, <1>2 DEF KeepsView, BatchRow, ClaimedRow, Locked
<1> HIDE DEF next
<1>5. CountersOf(batch[b], batch[b].checkpoint_row) /\ batch[b].error_code = "none"
  BY <1>1, <1>2 DEF CallsRowInv
<1>6. CallsRowInv(next, staged'[b], active'[b])
  BY <1>1, <1>2, <1>3, <1>5, CallsRowKept DEF Succeeded, AwaitsConfirmation
<1>7. next.status # "absent"
  BY <1>3
<1>8. worker[w] \in WorkerState /\ worker \in [Workers -> WorkerState]
      /\ batch \in [Batches -> BatchRow]
  BY DEF PipelineInv, TypeOK
<1>9. worker'[w].pc = "claimed" /\ worker'[w].job = b /\ batch'[b] = next
  BY <1>2, <1>8 DEF WorkerState
<1>10. \A v \in Workers \cap {w} :
         worker'[v].pc # "idle" => ViewInv(v, worker'[v], batch'[worker'[v].job])
  BY <1>7, <1>9 DEF ViewInv, Midway
<1>11. \A v \in Workers \ {w} : worker'[v] = worker[v]
  BY <1>2, <1>8
<1>12. \A c \in Batches \ {b} : CallsRowInv(batch[c], staged'[c], active'[c])
  BY <1>2 DEF PipelineInv
<1>13. batch[b].status # "absent" =>
         \A v \in Workers \ {w} : Job(v) = b => KeepsView(v, batch[b], next)
  BY <1>4
<1> QED
  BY <1>1, <1>2, <1>6, <1>7, <1>10, <1>11, <1>12, <1>13, StepOfOne

LEMMA LoadCalls ==
  ASSUME PipelineInv, NEW w \in Workers, LoadBatchWork(w)
  PROVE  PipelineInv' /\ StaySubmitted
<1> DEFINE row == batch[Job(w)]
           state == Loaded(worker[w], row)
<1>1. /\ worker[w].pc = "claimed" /\ row.status = "processing"
      /\ UNCHANGED <<batch, staged, active>>
      /\ worker' = [worker EXCEPT ![w] = state]
  BY DEF LoadBatchWork, HoldsBatch
<1>2. worker[w] \in WorkerState /\ Job(w) \in Batches
  BY <1>1, CallsWorkerOf
<1>3. TypeOK' /\ CallsRowInv(row, staged[Job(w)], active[Job(w)])
  BY <1>2, CallsRowOf, LoadType
<1>4. /\ state.pc = "rows" /\ state.job = Job(w)
      /\ state.position = row.checkpoint_row
      /\ state.sample_count = row.samples
      /\ state.warnings_confirmed = row.warnings_confirmed
  BY <1>2 DEF Loaded, WorkerState, ResumePosition, Job
<1>5. row.checkpoint_row <= Len(row.file)
  BY <1>3 DEF CallsRowInv
<1> HIDE DEF state
<1>6. ViewInv(w, state, row)
  BY <1>1, <1>4, <1>5 DEF ViewInv, Midway, ViewIsCurrent
<1> QED
  BY <1>1, <1>3, <1>4, <1>6, StepOfWorker

LEMMA IdleCalls ==
  ASSUME PipelineInv, NEW w \in Workers, LoseLease(w) \/ WorkerCrashes(w)
  PROVE  PipelineInv' /\ StaySubmitted
<1>1. TypeOK'
  BY LoseLeaseType, CrashesType DEF PipelineInv
<1> QED
  BY <1>1, StepOfWorker DEF LoseLease, WorkerCrashes, Idle

LEMMA RaisesCalls ==
  ASSUME PipelineInv, NEW w \in Workers, WorkerRaises(w)
  PROVE  PipelineInv' /\ StaySubmitted
<1> DEFINE state == [worker[w] EXCEPT !.pc = "error", !.seen = {}]
<1>1. TypeOK'
  BY RaisesType DEF PipelineInv
<1>2. worker[w].pc # "idle"
  BY DEF WorkerRaises, Running
<1>3. worker[w] \in WorkerState /\ ViewInv(w, worker[w], batch[Job(w)])
  BY <1>2, CallsWorkerOf
<1>4. state.pc = "error" /\ state.job = Job(w)
  BY <1>3 DEF WorkerState, Job
<1>5. worker' = [worker EXCEPT ![w] = state] /\ UNCHANGED <<batch, staged, active>>
  BY DEF WorkerRaises
<1> HIDE DEF state
<1>6. ViewInv(w, state, batch[Job(w)])
  BY <1>3, <1>4 DEF ViewInv, Midway
<1> QED
  BY <1>1, <1>4, <1>5, <1>6, StepOfWorker

LEMMA MarkFailureCalls ==
  ASSUME PipelineInv, NEW w \in Workers, MarkWorkerFailure(w)
  PROVE  PipelineInv' /\ StaySubmitted
<1> DEFINE b == Job(w)
           next == WorkerFailedRow(batch[b])
<1>1. worker' = [worker EXCEPT ![w] = Idle] /\ UNCHANGED <<staged, active>>
  BY DEF MarkWorkerFailure
<1>2. b \in Batches
  BY CallsWorkerOf DEF MarkWorkerFailure
<1>3. TypeOK' /\ batch[b] \in BatchRow /\ CallsRowInv(batch[b], staged[b], active[b])
  BY <1>2, CallsRowOf, MarkFailureType
<1>4. CASE MayMarkFailure(w)
  <2>1. /\ batch' = [batch EXCEPT ![b] = next] /\ batch[b].status = "processing"
        /\ batch[b].lease_owner = w
    BY <1>4 DEF MarkWorkerFailure, MayMarkFailure, HoldsBatch
  <2>2. /\ next.status = "failed" /\ next.error_code = "worker_error"
        /\ next.mode = batch[b].mode /\ SameResults(batch[b], next)
    BY <1>3 DEF WorkerFailedRow, BatchRow, SameResults
  <2>3. \A v \in Workers \ {w} : KeepsView(v, batch[b], next)
    BY <1>3, <2>1 DEF KeepsView, BatchRow, WorkerFailedRow, MayPublish
  <2> HIDE DEF next, b
  <2>4. CallsRowInv(next, staged'[b], active'[b])
    BY <1>1, <1>3, <2>2, CallsRowKept DEF Succeeded, AwaitsConfirmation
  <2>5. \A c \in Batches \ {b} : CallsRowInv(batch[c], staged'[c], active'[c])
    BY <1>1 DEF PipelineInv
  <2>6. next.status # "absent"
    BY <2>2
  <2> QED
    BY <1>1, <1>2, <1>3, <2>1, <2>3, <2>4, <2>5, <2>6, CallsFromEnd
<1>5. CASE ~MayMarkFailure(w)
  <2>1. UNCHANGED batch
    BY <1>5 DEF MarkWorkerFailure
  <2> QED
    BY <1>1, <1>3, <2>1, StepOfWorker DEF Idle
<1> QED
  BY <1>4, <1>5

(* The three ways a batch loses its rows, published ones included.         *)
LEMMA DiscardCalls ==
  ASSUME PipelineInv, TypeOK', NEW w \in Workers, NEW b \in Batches, NEW next \in BatchRow,
         batch' = [batch EXCEPT ![b] = next], DiscardRows(b),
         worker' = [worker EXCEPT ![w] = Idle],
         next.file = batch[b].file, next.mode = batch[b].mode,
         batch[b].lease_owner = w, next.checkpoint_row = 0,
         next.status \in {"failed", "cancelled"}
  PROVE  PipelineInv' /\ StaySubmitted
<1>1. /\ staged \in [Batches -> [RowNumbers -> Nat]]
      /\ active \in [Batches -> [RowNumbers -> Nat]]
  BY DEF PipelineInv, TypeOK
<1>2. staged'[b] = NoRows /\ active'[b] = NoRows
  BY <1>1 DEF DiscardRows
<1>3. \A c \in Batches \ {b} : CallsRowInv(batch[c], staged'[c], active'[c])
  BY <1>1 DEF DiscardRows, PipelineInv
<1>4. Len(next.file) <= MaxFileRows /\ next.mode \in Modes \cup {"append"}
  BY DEF PipelineInv, CallsRowInv
<1>5. CallsRowInv(next, NoRows, NoRows)
  BY <1>4, EmptyCallsRowInv
<1>6. \A v \in Workers \ {w} : KeepsView(v, batch[b], next)
  BY DEF KeepsView, MayPublish
<1>7. next.status # "absent" /\ CallsRowInv(next, staged'[b], active'[b])
  BY <1>2, <1>5
<1> QED
  BY <1>3, <1>6, <1>7, CallsFromEnd

LEMMA CancelProcessingCalls ==
  ASSUME PipelineInv, NEW w \in Workers, CancelProcessingBatch(w)
  PROVE  PipelineInv' /\ StaySubmitted
<1> DEFINE b == Job(w)
           next == CancelledRow(batch[b])
<1>1. /\ worker' = [worker EXCEPT ![w] = Idle] /\ DiscardRows(b)
      /\ batch' = [batch EXCEPT ![b] = next] /\ batch[b].lease_owner = w
  BY DEF CancelProcessingBatch, HoldsBatch
<1>2. b \in Batches
  BY CallsWorkerOf DEF CancelProcessingBatch, HasChunk
<1>3. TypeOK' /\ batch[b] \in BatchRow
  BY <1>2, CallsRowOf, CancelProcessingType
<1>4. next \in BatchRow
  BY <1>3, CancelledRowType
<1>5. /\ next.file = batch[b].file /\ next.mode = batch[b].mode
      /\ next.checkpoint_row = 0
      /\ next.status \in {"failed", "cancelled"}
  BY <1>3 DEF CancelledRow, BatchRow
<1> HIDE DEF next, b
<1> QED
  BY <1>1, <1>2, <1>3, <1>4, <1>5, DiscardCalls

LEMMA FailAndDiscardCalls ==
  ASSUME PipelineInv, NEW w \in Workers, FailAndDiscardBatch(w)
  PROVE  PipelineInv' /\ StaySubmitted
<1> DEFINE b == Job(w)
           next == FailedRow(batch[b], "row_limit_exceeded")
<1>1. /\ worker' = [worker EXCEPT ![w] = Idle] /\ DiscardRows(b)
      /\ batch' = [batch EXCEPT ![b] = next] /\ batch[b].lease_owner = w
  BY DEF FailAndDiscardBatch, HoldsBatch
<1>2. b \in Batches
  BY CallsWorkerOf DEF FailAndDiscardBatch
<1>3. TypeOK' /\ batch[b] \in BatchRow
  BY <1>2, CallsRowOf, FailAndDiscardType
<1>4. next \in BatchRow
  BY <1>3, FailedRowType DEF ErrorCodes
<1>5. /\ next.file = batch[b].file /\ next.mode = batch[b].mode
      /\ next.checkpoint_row = 0
      /\ next.status \in {"failed", "cancelled"}
  BY <1>3 DEF FailedRow, BatchRow
<1> HIDE DEF next, b
<1> QED
  BY <1>1, <1>2, <1>3, <1>4, <1>5, DiscardCalls

LEMMA RejectCalls ==
  ASSUME PipelineInv, NEW w \in Workers, RejectBatch(w)
  PROVE  PipelineInv' /\ StaySubmitted
<1> DEFINE b == Job(w)
           total == Len(File(w))
           code == Verdict(batch[b], total)
           next == RejectedRow(batch[b], total, code)
<1>1. /\ worker' = [worker EXCEPT ![w] = Idle] /\ DiscardRows(b)
      /\ batch' = [batch EXCEPT ![b] = next] /\ batch[b].lease_owner = w
  BY DEF RejectBatch, Finalizes, HoldsBatch
<1>2. b \in Batches
  BY CallsWorkerOf DEF RejectBatch, Finalizes
<1>3. TypeOK' /\ batch[b] \in BatchRow /\ total \in Nat
  BY <1>2, CallsRowOf, RejectType DEF File
<1>4. code \in ErrorCodes
  BY VerdictType
<1>5. next \in BatchRow
  BY <1>3, <1>4, RejectedRowType
<1>6. /\ next.file = batch[b].file /\ next.mode = batch[b].mode
      /\ next.checkpoint_row = 0
      /\ next.status \in {"failed", "cancelled"}
  BY <1>3 DEF RejectedRow, FailedRow, BatchRow
<1> HIDE DEF next, b
<1> QED
  BY <1>1, <1>2, <1>3, <1>5, <1>6, DiscardCalls

LEMMA CommitCalls ==
  ASSUME PipelineInv, NEW w \in Workers, CommitChunk(w)
  PROVE  PipelineInv' /\ StaySubmitted
<1> DEFINE b == Job(w)
           row == batch[b]
           cp == row.checkpoint_row
           hi == ChunkEnd(w)
           sampled == SampledIssues(w)
           confirmed == row.warnings_confirmed
           next == CommittedRow(row, cp + 1, hi, confirmed, sampled)
           state == PastChunk(worker[w], hi, sampled)
<1>1. TypeOK /\ TypeOK'
  BY CommitType DEF PipelineInv
<1>2. /\ HasChunk(w) /\ worker[w].pc = "rows"
      /\ row.status = "processing" /\ row.lease_owner = w
  BY DEF CommitChunk, HasChunk, HoldsBatch
<1>3. /\ worker[w] \in WorkerState /\ b \in Batches
      /\ worker \in [Workers -> WorkerState]
      /\ ViewInv(w, worker[w], row)
  BY <1>2, CallsWorkerOf
<1>4. /\ worker[w].position = cp /\ worker[w].sample_count = row.samples
      /\ worker[w].warnings_confirmed = confirmed
  BY <1>2, <1>3 DEF ViewInv, Midway, ViewIsCurrent
<1>5. /\ row \in BatchRow /\ CallsRowInv(row, staged[b], active[b])
      /\ staged[b] \in [RowNumbers -> Nat]
  BY <1>3, CallsRowOf
<1>6. /\ cp \in Nat /\ hi \in Nat /\ cp < hi /\ hi <= Len(row.file)
  BY <1>1, <1>2, <1>4, ChunkBounds DEF File
<1>7. sampled = AtMost(Issues(row.file, cp + 1, hi),
                       IF row.samples < SampleLimit
                         THEN SampleLimit - row.samples ELSE 0)
  BY <1>4 DEF SampledIssues, File
<1>8. sampled \in Nat
  BY <1>1, <1>2, SampledIssuesType
<1>9. /\ batch' = [batch EXCEPT ![b] = next]
      /\ worker' = [worker EXCEPT ![w] = state]
      /\ StageRows(b, row.file, cp + 1, hi, confirmed)
      /\ UNCHANGED active
  BY <1>4 DEF CommitChunk, File
<1>10. staged \in [Batches -> [RowNumbers -> Nat]] /\ batch \in [Batches -> BatchRow]
  BY <1>1 DEF TypeOK
<1>11. staged'[b] = StagedAfter(staged[b], row.file, cp + 1, hi, confirmed)
  <2> HIDE DEF b, cp, hi, confirmed
  <2> QED
    BY <1>3, <1>9, <1>10 DEF StageRows, StagedAfter
<1>12. \A c \in Batches \ {b} : CallsRowInv(batch[c], staged'[c], active'[c])
  <2> HIDE DEF b, cp, hi, confirmed
  <2> QED
    BY <1>9, <1>10 DEF StageRows, PipelineInv
<1>13. CallsRowInv(next, staged'[b], active'[b])
  <2> DEFINE samples == row.samples
             st == staged[b]
             ac == active[b]
  <2>1. /\ row.checkpoint_row = cp /\ row.samples = samples
        /\ row.warnings_confirmed = confirmed
        /\ sampled = AtMost(Issues(row.file, cp + 1, hi),
                            IF samples < SampleLimit THEN SampleLimit - samples ELSE 0)
        /\ CallsRowInv(row, st, ac) /\ st \in [RowNumbers -> Nat]
    BY <1>5, <1>7
  <2> HIDE DEF row, cp, hi, sampled, confirmed, samples, st, ac
  <2>2. CallsRowInv(CommittedRow(row, cp + 1, hi, confirmed, sampled),
                    StagedAfter(st, row.file, cp + 1, hi, confirmed), ac)
    BY <1>2, <1>5, <1>6, <2>1, CommittedCallsRowInv
  <2> QED
    BY <1>9, <1>11, <2>2 DEF st, ac
<1>14. /\ next.status = "processing" /\ next.lease_owner = w /\ next.file = row.file
       /\ next.warnings_confirmed = row.warnings_confirmed
       /\ next.samples = row.samples + sampled
  BY <1>2, <1>5 DEF CommittedRow, BatchRow
<1>15. next.checkpoint_row = hi
  <2>1. row.processed_rows = cp
    BY <1>2, <1>5 DEF CallsRowInv, CountersOf
  <2>2. next.checkpoint_row = row.processed_rows + (hi - (cp + 1) + 1)
    BY <1>5 DEF CommittedRow, BatchRow
  <2> HIDE DEF cp, hi, next
  <2> QED
    BY <1>6, <2>1, <2>2
<1>16. /\ state.pc = "rows" /\ state.job = b /\ state.position = hi
       /\ state.sample_count = worker[w].sample_count + sampled
       /\ state.warnings_confirmed = worker[w].warnings_confirmed
  BY <1>2, <1>3 DEF PastChunk, WorkerState, Job
<1> HIDE DEF b, row, cp, hi, sampled, confirmed, next, state
<1>17. ViewInv(w, state, next)
  BY <1>4, <1>6, <1>14, <1>15, <1>16 DEF ViewInv, Midway, ViewIsCurrent, confirmed
<1>18. batch'[b] = next /\ worker'[w] = state
  BY <1>3, <1>9, <1>10
<1>19. \A v \in Workers \cap {w} :
         worker'[v].pc # "idle" => ViewInv(v, worker'[v], batch'[worker'[v].job])
  BY <1>16, <1>17, <1>18
<1>20. \A v \in Workers \ {w} : worker'[v] = worker[v]
  BY <1>3, <1>9
<1>21. \A v \in Workers \ {w} : KeepsView(v, batch[b], next)
  BY <1>2, <1>14 DEF KeepsView, row, MayPublish
<1>22. next.status # "absent"
  BY <1>14
<1> QED
  BY <1>1, <1>3, <1>9, <1>12, <1>13, <1>19, <1>20, <1>21, <1>22, StepOfOne

LEMMA FinishRowsCalls ==
  ASSUME PipelineInv, NEW w \in Workers, FinishRows(w)
  PROVE  PipelineInv' /\ StaySubmitted
<1> DEFINE row == batch[Job(w)]
           pc == IF Len(row.file) > MaxRows THEN "over_limit" ELSE "finalize"
           state == [worker[w] EXCEPT !.pc = pc]
<1>1. TypeOK'
  BY FinishRowsType DEF PipelineInv
<1>2. /\ worker[w].pc = "rows" /\ ~HasChunk(w)
      /\ worker' = [worker EXCEPT ![w] = state]
      /\ UNCHANGED <<batch, staged, active>>
  BY DEF FinishRows, File
<1>3. /\ worker[w] \in WorkerState /\ Job(w) \in Batches
      /\ ViewInv(w, worker[w], row)
  BY <1>2, CallsWorkerOf
<1>4. Len(row.file) \in Nat
  BY <1>3, CallsRowOf
<1>5. /\ row.status # "absent" /\ worker[w].position <= Len(row.file)
      /\ row.status = "processing" /\ row.lease_owner = w => ViewIsCurrent(worker[w], row)
  BY <1>2, <1>3 DEF ViewInv, Midway
<1>6. /\ state.pc = pc /\ state.job = Job(w) /\ state.position = worker[w].position
      /\ state.sample_count = worker[w].sample_count
      /\ state.warnings_confirmed = worker[w].warnings_confirmed
  <2> HIDE DEF pc
  <2> QED
    BY <1>3 DEF WorkerState, Job
<1> HIDE DEF state
<1>7. pc = "finalize" => Len(row.file) <= MaxRows /\ state.position = Len(row.file)
  <2>1. SUFFICES ASSUME Len(row.file) <= MaxRows PROVE worker[w].position = Len(row.file)
    BY <1>4, <1>6, SettingsAssumption
  <2>2. ~(worker[w].position < Len(row.file))
    BY <1>2, <2>1 DEF HasChunk, File
  <2>3. worker[w].position \in Nat
    BY <1>3 DEF WorkerState
  <2> QED
    BY <1>4, <1>5, <2>2, <2>3
<1>8. pc \in {"finalize", "over_limit"}
  OBVIOUS
<1> HIDE DEF pc
<1>9. ViewInv(w, state, row)
  BY <1>5, <1>6, <1>7, <1>8 DEF ViewInv, ViewIsCurrent
<1> QED
  BY <1>1, <1>2, <1>6, <1>9, StepOfWorker

(* The worker that begins to publish has just tested all it will rely on.  *)
LEMMA BeginPublicationCalls ==
  ASSUME PipelineInv, NEW w \in Workers, BeginPublication(w)
  PROVE  PipelineInv' /\ StaySubmitted
<1> DEFINE row == batch[Job(w)]
           state == [worker[w] EXCEPT !.pc = "publishing", !.seen = ActiveRows]
<1>1. TypeOK'
  BY BeginPublicationType DEF PipelineInv
<1>2. /\ worker[w].pc = "finalize" /\ MayPublish(w, row)
      /\ worker' = [worker EXCEPT ![w] = state]
      /\ UNCHANGED <<batch, staged, active>>
  BY DEF BeginPublication, Finalizes, HoldsBatch, MayPublish, File
<1>3. /\ worker[w] \in WorkerState /\ Job(w) \in Batches
      /\ ViewInv(w, worker[w], row)
  BY <1>2, CallsWorkerOf
<1>4. /\ state.pc = "publishing" /\ state.job = Job(w)
      /\ state.position = worker[w].position
      /\ state.sample_count = worker[w].sample_count
      /\ state.warnings_confirmed = worker[w].warnings_confirmed
  BY <1>3 DEF WorkerState, Job
<1> HIDE DEF state
<1>5. ViewInv(w, state, row)
  BY <1>2, <1>3, <1>4 DEF ViewInv, Midway, ViewIsCurrent
<1> QED
  BY <1>1, <1>2, <1>4, <1>5, StepOfWorker

LEMMA PublishCalls ==
  ASSUME PipelineInv, NEW w \in Workers, PublishBatch(w)
  PROVE  PipelineInv' /\ StaySubmitted
<1> DEFINE b == Job(w)
           row == batch[b]
           total == Len(File(w))
           seen == worker[w].seen
           unseen == Unseen(w)
           next == PublishedRow(row, total, unseen)
           Gone(c, i) == active[c][i] > 0 /\ <<c, i>> \in seen /\ Displaced(b, c, i)
           left == [c \in Batches |-> [i \in RowNumbers |->
                      IF Gone(c, i) THEN 0 ELSE active[c][i]]]
<1>1. TypeOK /\ TypeOK'
  BY PublishType DEF PipelineInv
<1>2. /\ worker' = [worker EXCEPT ![w] = Idle]
      /\ batch' = [batch EXCEPT ![b] = next]
      /\ PublishRows(b, seen)
      /\ worker[w].pc = "publishing"
      /\ row.status = "processing" /\ row.lease_owner = w
      /\ Verdict(row, total) = "none"
  <2>1. ViewInv(w, worker[w], row)
    BY CallsWorkerOf DEF PublishBatch
  <2> QED
    BY <2>1 DEF PublishBatch, ViewInv, MayPublish, File
<1>3. b \in Batches /\ ViewInv(w, worker[w], row)
  BY <1>2, CallsWorkerOf
<1>4. /\ row \in BatchRow /\ CallsRowInv(row, staged[b], active[b])
      /\ total = Len(row.file) /\ total \in Nat
      /\ staged[b] \in [RowNumbers -> Nat] /\ active[b] \in [RowNumbers -> Nat]
  BY <1>3, CallsRowOf DEF File
<1>5. row.checkpoint_row = total
  BY <1>2, <1>3, <1>4 DEF ViewInv, Midway, ViewIsCurrent
<1>6. next.file = row.file /\ next.status \in Succeeded
  BY <1>4 DEF PublishedRow, BatchRow, Succeeded
<1>7. /\ staged \in [Batches -> [RowNumbers -> Nat]]
      /\ active \in [Batches -> [RowNumbers -> Nat]]
      /\ active' \in [Batches -> [RowNumbers -> Nat]]
  BY <1>1 DEF TypeOK
<1> HIDE DEF b, next, total, seen, unseen
<1> DEFINE Kept == \A c \in Batches, i \in RowNumbers :
             active'[c][i] = left[c][i] + (IF c = b THEN staged[b][i] ELSE 0)
<1>8. Kept
  BY <1>2 DEF PublishRows
<1> HIDE DEF Gone
<1>9. /\ left \in [Batches -> [RowNumbers -> Nat]]
      /\ \A c \in Batches : \A i \in RowNumbers : left[c][i] = 0 \/ left[c][i] = active[c][i]
  BY <1>7
<1>10. ASSUME NEW c \in Batches, Modes = {"append"}
      PROVE  left[c] = active[c]
  <2>1. row.mode = "append"
    BY <1>4, <1>10 DEF CallsRowInv
  <2>2. ASSUME NEW i \in RowNumbers PROVE left[c][i] = active[c][i]
    <3>1. ~Gone(c, i)
      BY <2>1 DEF Gone, Displaced
    <3> QED
      BY <3>1
  <2> DEFINE lc == left[c]
             ac == active[c]
  <2>3. /\ \A i \in RowNumbers : lc[i] = ac[i]
        /\ lc \in [RowNumbers -> Nat] /\ ac \in [RowNumbers -> Nat]
    BY <1>7, <1>9, <2>2
  <2> HIDE DEF lc, ac
  <2>4. lc = ac
    BY <2>3
  <2> QED
    BY <2>4 DEF lc, ac
<1>11. ASSUME NEW c \in Batches, NEW i \in RowNumbers
       PROVE  active'[c][i] = left[c][i] + (IF c = b THEN staged[b][i] ELSE 0)
  BY <1>8
<1> HIDE DEF left, Kept
<1>12. CallsRowInv(next, staged'[b], active'[b])
  <2> DEFINE after == active'[b]
             lb == left[b]
             ab == active[b]
             st == staged[b]
  <2>1. /\ after \in [RowNumbers -> Nat] /\ lb \in [RowNumbers -> Nat]
        /\ ab \in [RowNumbers -> Nat] /\ st \in [RowNumbers -> Nat]
    BY <1>3, <1>7, <1>9
  <2>2. \A i \in RowNumbers : lb[i] = 0 \/ lb[i] = ab[i]
    BY <1>3, <1>9
  <2>3. Modes = {"append"} => lb = ab
    BY <1>3, <1>10
  <2>4. \A i \in RowNumbers : after[i] = lb[i] + st[i]
    BY <1>3, <1>11
  <2>5. CallsRowInv(row, st, ab)
    BY <1>4
  <2>6. staged'[b] = NoRows
    BY <1>2, <1>3, <1>7 DEF PublishRows
  <2>7. row.checkpoint_row = Len(row.file) /\ Verdict(row, Len(row.file)) = "none"
    BY <1>2, <1>4, <1>5
  <2> HIDE DEF after, lb, ab, st, row
  <2>8. CallsRowInv(PublishedRow(row, Len(row.file), unseen), NoRows, after)
    BY <1>2, <1>4, <2>1, <2>2, <2>3, <2>4, <2>5, <2>7, PublishedCallsRowInv
  <2> QED
    BY <1>4, <2>6, <2>8 DEF after, next
<1>13. ASSUME NEW c \in Batches \ {b}
       PROVE  CallsRowInv(batch[c], staged'[c], active'[c])
  <2> DEFINE after == active'[c]
             ac == active[c]
             lc == left[c]
  <2>1. staged'[c] = staged[c]
    BY <1>2, <1>7 DEF PublishRows
  <2>2. /\ after \in [RowNumbers -> Nat] /\ ac \in [RowNumbers -> Nat]
        /\ lc \in [RowNumbers -> Nat]
    BY <1>7, <1>9
  <2>3. ASSUME NEW i \in RowNumbers PROVE after[i] = lc[i]
    <3>1. lc[i] \in Nat
      BY <2>2
    <3>2. after[i] = lc[i] + 0
      BY <1>11
    <3> QED
      BY <3>1, <3>2
  <2>4. \A i \in RowNumbers : lc[i] = 0 \/ lc[i] = ac[i]
    BY <1>9
  <2>5. Modes = {"append"} => lc = ac
    BY <1>10
  <2>6. CallsRowInv(batch[c], staged[c], ac)
    BY DEF PipelineInv
  <2> HIDE DEF after, ac, lc
  <2>7. after = lc
    BY <2>2, <2>3
  <2>8. CallsRowInv(batch[c], staged[c], lc)
    BY <2>2, <2>4, <2>5, <2>6, DisplacedCallsRowInv
  <2> QED
    BY <2>1, <2>7, <2>8 DEF after
<1>14. \A v \in Workers \ {w} : KeepsView(v, batch[b], next)
  BY <1>2, <1>6 DEF KeepsView, Succeeded, MayPublish
<1>15. next.status # "absent"
  BY <1>6 DEF Succeeded
<1>16. \A c \in Batches \ {b} : CallsRowInv(batch[c], staged'[c], active'[c])
  BY <1>13
<1> QED
  BY <1>1, <1>2, <1>3, <1>12, <1>14, <1>15, <1>16, CallsFromEnd

LEMMA PipelineNext == PipelineInv /\ [Next]_vars => PipelineInv' /\ StaySubmitted
<1> SUFFICES ASSUME PipelineInv, [Next]_vars PROVE PipelineInv' /\ StaySubmitted
  OBVIOUS
<1>1. ASSUME NEW b \in Batches, ApiStep(b) PROVE PipelineInv' /\ StaySubmitted
  BY <1>1, CreateCalls, CancelCalls, RetryCalls, ConfirmCalls DEF ApiStep
<1>2. ASSUME NEW w \in Workers, Claims(w) PROVE PipelineInv' /\ StaySubmitted
  BY <1>2, ClaimCalls DEF Claims
<1>3. ASSUME NEW w \in Workers, WorkerStep(w) PROVE PipelineInv' /\ StaySubmitted
  BY <1>3, LoadCalls, IdleCalls, CommitCalls, CancelProcessingCalls,
     FinishRowsCalls, RejectCalls, BeginPublicationCalls, PublishCalls,
     FailAndDiscardCalls, MarkFailureCalls DEF WorkerStep
<1>4. ASSUME NEW w \in Workers, WorkerRaises(w) PROVE PipelineInv' /\ StaySubmitted
  BY <1>4, RaisesCalls
<1>5. ASSUME NEW w \in Workers, WorkerCrashes(w) PROVE PipelineInv' /\ StaySubmitted
  BY <1>5, IdleCalls
<1>6. ASSUME NEW b \in Batches, LeaseExpires(b) PROVE PipelineInv' /\ StaySubmitted
  BY <1>6, ExpiresCalls
<1>7. CASE UNCHANGED vars
  BY <1>7 DEF vars, PipelineInv, TypeOK, Job, StaySubmitted
<1> QED
  BY <1>1, <1>2, <1>3, <1>4, <1>5, <1>6, <1>7 DEF Next

-----------------------------------------------------------------------------
(* The calls.                                                              *)

LEMMA CallOf ==
  ASSUME CallsInv, NEW p \in Callers, call[p] # NoCall
  PROVE  /\ PipelineInv
         /\ call[p].op \in Operations /\ call[p].job \in Batches
         /\ call[p].seen \in BatchRow
         /\ batch[call[p].job].status # "absent"
         /\ Decides(call[p].op, call[p].seen)
<1>1. call[p] \in Calls /\ CallInv(call[p])
  BY DEF CallsInv
<1> QED
  BY <1>1 DEF CallsInv, Calls, CallInv

(* The calls in flight stay what they are while batches stay submitted.    *)
LEMMA CallsKept ==
  ASSUME CallsInv, PipelineInv', StaySubmitted, UNCHANGED call
  PROVE  CallsInv'
<1>1. ASSUME NEW p \in Callers, call[p] # NoCall PROVE CallInv(call[p])'
  <2>1. batch'[call[p].job].status # "absent"
    BY <1>1, CallOf DEF StaySubmitted
  <2> QED
    BY <1>1, <2>1, CallOf DEF CallInv
<1> QED
  BY <1>1 DEF CallsInv

LEMMA CallEnds ==
  ASSUME CallsInv, PipelineInv', StaySubmitted, NEW p \in Callers,
         call' = [call EXCEPT ![p] = NoCall]
  PROVE  CallsInv'
<1>1. call' \in [Callers -> Calls \cup {NoCall}]
  BY DEF CallsInv
<1>2. ASSUME NEW q \in Callers, call'[q] # NoCall PROVE CallInv(call[q])'
  <2>1. call'[q] = call[q] /\ call[q] # NoCall
    BY <1>2 DEF CallsInv
  <2>2. batch'[call[q].job].status # "absent"
    BY <2>1, CallOf DEF StaySubmitted
  <2> QED
    BY <2>1, <2>2, CallOf DEF CallInv
<1> QED
  BY <1>1, <1>2 DEF CallsInv

LEMMA CallStarts ==
  ASSUME CallsInv, UNCHANGED vars, NEW p \in Callers, NEW c \in Calls,
         call' = [call EXCEPT ![p] = c], CallInv(c)
  PROVE  CallsInv'
<1>1. PipelineInv'
  BY PipelineNext DEF CallsInv
<1>2. call' \in [Callers -> Calls \cup {NoCall}]
  BY DEF CallsInv
<1>3. ASSUME NEW q \in Callers, call'[q] # NoCall PROVE CallInv(call[q])'
  <2>1. UNCHANGED batch
    BY DEF vars
  <2>2. CASE q = p
    <3>1. call'[q] = c
      BY <2>2 DEF CallsInv
    <3> QED
      BY <2>1, <3>1 DEF CallInv
  <2>3. CASE q # p
    <3>1. call'[q] = call[q] /\ CallInv(call[q])
      BY <1>3, <2>3 DEF CallsInv
    <3> QED
      BY <2>1, <3>1 DEF CallInv
  <2> QED
    BY <2>2, <2>3
<1> QED
  BY <1>1, <1>2, <1>3 DEF CallsInv

LEMMA ReadKeepsInv ==
  ASSUME CallsInv, SlowCalls \subseteq {"cancel", "mark_failure"},
         NEW u \in Users, NEW op \in Operations, NEW b \in Batches, ReadBatch(u, op, b)
  PROVE  CallsInv'
<1> DEFINE c == [op |-> op, job |-> b, seen |-> batch[b]]
<1>1. op = "cancel" /\ Permitted("cancel", batch[b])
  BY DEF ReadBatch
<1>2. batch[b] \in BatchRow
  BY CallsRowOf DEF CallsInv
<1>3. batch[b].status # "absent"
  BY <1>1 DEF Permitted, CancelledAtOnce
<1>4. c \in Calls /\ c.op = "cancel" /\ c.job = b /\ c.seen = batch[b]
  BY <1>1, <1>2 DEF Calls
<1>5. UNCHANGED vars /\ call' = [call EXCEPT ![u] = c] /\ u \in Callers
  BY DEF ReadBatch, Callers
<1> HIDE DEF c
<1>6. CallInv(c)
  BY <1>1, <1>3, <1>4 DEF CallInv, Decides
<1> QED
  BY <1>4, <1>5, <1>6, CallStarts

LEMMA ReadFailedKeepsInv ==
  ASSUME CallsInv, NEW w \in Workers, ReadFailedBatch(w)
  PROVE  CallsInv'
<1> DEFINE b == Job(w)
           c == [op |-> "mark_failure", job |-> b, seen |-> batch[b]]
<1>1. worker[w].pc = "error" /\ batch[b].status = "processing"
  BY DEF ReadFailedBatch, HoldsBatch
<1>2. PipelineInv
  BY DEF CallsInv
<1>3. b \in Batches
  BY <1>1, <1>2, CallsWorkerOf
<1>4. batch[b] \in BatchRow /\ batch[b].error_code = "none"
  BY <1>1, <1>2, <1>3, CallsRowOf DEF CallsRowInv
<1>5. UNCHANGED vars /\ call' = [call EXCEPT ![w] = c] /\ w \in Callers
  BY DEF ReadFailedBatch, Callers
<1> HIDE DEF b
<1>6. c \in Calls /\ c.op = "mark_failure" /\ c.job = b /\ c.seen = batch[b]
  BY <1>3, <1>4 DEF Calls, Operations
<1> HIDE DEF c
<1>7. CallInv(c)
  BY <1>1, <1>4, <1>6 DEF CallInv, Decides
<1> QED
  BY <1>5, <1>6, <1>7, CallStarts

(* What a call writes late leaves the views of the workers current; it     *)
(* waits for the one that publishes the batch.                             *)
LEMMA FlushedKeepsViews ==
  ASSUME NEW row \in BatchRow, NEW op, NEW seen \in BatchRow, Decides(op, seen),
         row.status # "absent"
  PROVE  \A v \in Workers : worker[v].pc # "publishing" =>
           KeepsView(v, row, Flushed(op, row, seen))
<1> DEFINE next == Flushed(op, row, seen)
<1>1. /\ SameResults(row, next)
      /\ \/ next.status = "cancelled"
         \/ next.status = row.status /\ next.lease_owner = row.lease_owner
         \/ next.status = "failed"
  BY FlushedRow
<1> HIDE DEF next
<1>2. \A v \in Workers : worker[v].pc # "publishing" => KeepsView(v, row, next)
  BY <1>1 DEF KeepsView, SameResults
<1> QED
  BY <1>2 DEF next

LEMMA FlushKeepsPipelineInv ==
  ASSUME CallsInv, NEW p \in Callers, call[p] # NoCall, ~Locked(call[p].job),
         batch' = [batch EXCEPT ![call[p].job] = Flushed(call[p].op, @, call[p].seen)],
         UNCHANGED <<staged, active>>, faults' = faults, queue' \in Seq(Batches),
         \/ UNCHANGED worker
         \/ \E w \in Workers : worker' = [worker EXCEPT ![w] = Idle]
  PROVE  PipelineInv' /\ StaySubmitted
<1> DEFINE b == call[p].job
           op == call[p].op
           seen == call[p].seen
           next == Flushed(op, batch[b], seen)
<1>1. /\ PipelineInv /\ b \in Batches /\ seen \in BatchRow
      /\ batch[b].status # "absent" /\ Decides(op, seen)
  BY CallOf
<1>2. /\ TypeOK /\ batch[b] \in BatchRow
      /\ CallsRowInv(batch[b], staged[b], active[b])
  BY <1>1, CallsRowOf
<1>3. batch' = [batch EXCEPT ![b] = next]
  BY <1>2 DEF TypeOK
<1> HIDE DEF b, op, seen
<1>4. next \in BatchRow /\ next.status # "absent"
  BY <1>1, <1>2, FlushedRow
<1>5. CallsRowInv(next, staged[b], active[b])
  BY <1>1, <1>2, FlushedCallsRowInv
<1>6. \A v \in Workers : Job(v) = b => KeepsView(v, batch[b], next)
  <2>1. \A v \in Workers : Job(v) = b => worker[v].pc # "publishing"
    BY DEF Locked, b
  <2> QED
    BY <1>1, <1>2, <2>1, FlushedKeepsViews
<1> HIDE DEF next
<1>7. batch' \in [Batches -> BatchRow]
  BY <1>1, <1>2, <1>3, <1>4, BatchUpdateType
<1>8. CASE UNCHANGED worker
  <2>1. TypeOK'
    BY <1>2, <1>7, <1>8 DEF TypeOK, Job
  <2> QED
    BY <1>1, <1>3, <1>4, <1>5, <1>6, <1>8, <2>1, CallsFromApi
<1>9. ASSUME NEW w \in Workers, worker' = [worker EXCEPT ![w] = Idle]
      PROVE  PipelineInv' /\ StaySubmitted
  <2>1. TypeOK'
    BY <1>2, <1>7, <1>9, ToIdleType DEF TypeOK, Job
  <2>2. CallsRowInv(next, staged'[b], active'[b])
    BY <1>5
  <2>3. \A c \in Batches \ {b} : CallsRowInv(batch[c], staged'[c], active'[c])
    BY <1>1 DEF PipelineInv
  <2> QED
    BY <1>1, <1>3, <1>4, <1>6, <1>9, <2>1, <2>2, <2>3, CallsFromEnd
<1> QED
  BY <1>8, <1>9

LEMMA WriteKeepsInv ==
  ASSUME CallsInv, NEW u \in Users, WriteBatch(u)
  PROVE  CallsInv'
<1> DEFINE c == call[u]
<1>1. u \in Callers /\ c # NoCall /\ ~Locked(c.job)
  BY DEF WriteBatch, Callers
<1>2. /\ batch' = [batch EXCEPT ![c.job] = Flushed(c.op, @, c.seen)]
      /\ queue' = IF c.op \in {"retry", "confirm"} THEN MoveToEnd(c.job) ELSE queue
      /\ call' = [call EXCEPT ![u] = NoCall]
      /\ UNCHANGED <<staged, active, worker, faults>>
  BY DEF WriteBatch
<1>3. c.job \in Batches /\ queue \in Seq(Batches)
  BY <1>1, CallOf DEF PipelineInv, TypeOK
<1>4. queue' \in Seq(Batches)
  BY <1>2, <1>3, MoveToEndType
<1>5. PipelineInv' /\ StaySubmitted
  BY <1>1, <1>2, <1>4, FlushKeepsPipelineInv
<1> QED
  BY <1>1, <1>2, <1>5, CallEnds

LEMMA WriteFailedKeepsInv ==
  ASSUME CallsInv, NEW w \in Workers, WriteFailedBatch(w)
  PROVE  CallsInv'
<1> DEFINE c == call[w]
<1>1. w \in Callers /\ c # NoCall /\ ~Locked(c.job)
  BY DEF WriteFailedBatch, Callers
<1>2. /\ batch' = [batch EXCEPT ![c.job] = Flushed(c.op, @, c.seen)]
      /\ worker' = [worker EXCEPT ![w] = Idle]
      /\ call' = [call EXCEPT ![w] = NoCall]
      /\ UNCHANGED <<queue, staged, active, faults>>
  BY DEF WriteFailedBatch
<1>3. queue' \in Seq(Batches)
  BY <1>1, <1>2, CallOf DEF PipelineInv, TypeOK
<1>4. PipelineInv' /\ StaySubmitted
  BY <1>1, <1>2, <1>3, FlushKeepsPipelineInv
<1> QED
  BY <1>1, <1>2, <1>4, CallEnds

LEMMA CallsInitInv == CallsInit => CallsInv
<1> SUFFICES ASSUME CallsInit PROVE CallsInv
  OBVIOUS
<1>1. Init /\ call = [p \in Callers |-> NoCall] /\ TypeOK
  BY InitType DEF CallsInit
<1>2. ASSUME NEW b \in Batches PROVE CallsRowInv(batch[b], staged[b], active[b])
  <2>1. batch[b] = AbsentRow /\ staged[b] = NoRows /\ active[b] = NoRows
    BY <1>1 DEF Init
  <2>2. /\ AbsentRow.status = "absent" /\ Len(AbsentRow.file) = 0
        /\ AbsentRow.checkpoint_row = 0 /\ AbsentRow.mode = "append"
    BY DEF AbsentRow
  <2>3. RowsBehindCheckpoint(AbsentRow) = NoRows
    BY <2>2, NoRowsBehindNothing
  <2> QED
    BY <2>1, <2>2, <2>3, FilesAssumption
       DEF CallsRowInv, IsStaged, Succeeded, AwaitsConfirmation
<1>3. \A w \in Workers : worker[w].pc = "idle"
  BY <1>1 DEF Init, Idle
<1> QED
  BY <1>1, <1>2, <1>3 DEF CallsInv, PipelineInv

LEMMA CallsNextInv ==
  SlowCalls \subseteq {"cancel", "mark_failure"} =>
    (CallsInv /\ [CallsNext]_callsVars => CallsInv')
<1> SUFFICES ASSUME SlowCalls \subseteq {"cancel", "mark_failure"}, CallsInv,
                    [CallsNext]_callsVars
             PROVE  CallsInv'
  OBVIOUS
<1>1. CASE Meanwhile
  BY <1>1, PipelineNext, CallsKept DEF Meanwhile, CallsInv
<1>2. ASSUME NEW u \in Users, NEW op \in Operations, NEW b \in Batches, ReadBatch(u, op, b)
      PROVE  CallsInv'
  BY <1>2, ReadKeepsInv
<1>3. ASSUME NEW u \in Users, WriteBatch(u) PROVE CallsInv'
  BY <1>3, WriteKeepsInv
<1>4. ASSUME NEW w \in Workers, ReadFailedBatch(w) PROVE CallsInv'
  BY <1>4, ReadFailedKeepsInv
<1>5. ASSUME NEW w \in Workers, WriteFailedBatch(w) PROVE CallsInv'
  BY <1>5, WriteFailedKeepsInv
<1>6. CASE UNCHANGED callsVars
  BY <1>6, PipelineNext, CallsKept DEF callsVars, CallsInv
<1> QED
  BY <1>1, <1>2, <1>3, <1>4, <1>5, <1>6 DEF CallsNext

(* What ties a batch to its rows in the target table survives every late   *)
(* cancellation and failure report, for every instance.                    *)
THEOREM CallsInvariant ==
  ASSUME SlowCalls \subseteq {"cancel", "mark_failure"}
  PROVE  CallsSpec => []CallsInv
<1>1. CallsInv /\ [CallsNext]_callsVars => CallsInv'
  BY CallsNextInv
<1> QED
  BY <1>1, CallsInitInv, PTL DEF CallsSpec

(* While cancellations and failure reports are all that is slow, no row of *)
(* a file is published twice, whatever the late writes make of the status  *)
(* of its batch: cancel_import_batch and _mark_worker_failure write none of*)
(* the columns that tell a retry where to resume.                          *)
THEOREM LateWritesDuplicateNothing ==
  ASSUME SlowCalls \subseteq {"cancel", "mark_failure"}
  PROVE  CallsSpec => []PublishedAtMostOnce
<1>1. CallsSpec => []CallsInv
  BY CallsInvariant
<1>2. CallsInv => PublishedAtMostOnce
  <2> SUFFICES ASSUME CallsInv, NEW b \in Batches, NEW i \in RowNumbers
               PROVE  active[b][i] <= 1
    BY DEF PublishedAtMostOnce
  <2>1. CallsRowInv(batch[b], staged[b], active[b])
    BY DEF CallsInv, PipelineInv
  <2> QED
    BY <2>1 DEF CallsRowInv, IsStaged, WasPublished, NoRows
<1> QED
  BY <1>1, <1>2, PTL

(* What is reported as imported is there: in a target that is only appended*)
(* to, every row of a batch that succeeded is active, whoever wrote the row*)
(* of the batch late.  (A replacement or an upsert by a later batch may    *)
(* displace the rows of an earlier one.)                                   *)
THEOREM LateWritesLoseNothing ==
  ASSUME SlowCalls \subseteq {"cancel", "mark_failure"}, Modes = {"append"}
  PROVE  CallsSpec => []SucceededIsThere
<1>1. CallsSpec => []CallsInv
  BY CallsInvariant
<1>2. CallsInv => SucceededIsThere
  <2> SUFFICES ASSUME CallsInv, NEW b \in Batches, batch[b].status \in Succeeded,
                      NEW i \in 1 .. Len(batch[b].file)
               PROVE  active[b][i] > 0
    BY DEF SucceededIsThere
  <2>1. CallsRowInv(batch[b], staged[b], active[b])
    BY DEF CallsInv, PipelineInv
  <2>2. WasPublished(batch[b], staged[b], active[b])
    BY <2>1 DEF CallsRowInv, IsStaged
  <2>3. active[b][i] = 1
    BY <2>2 DEF WasPublished
  <2> QED
    BY <2>3
<1> QED
  BY <1>1, <1>2, PTL
=============================================================================
