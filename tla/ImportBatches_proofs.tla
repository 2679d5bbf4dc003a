----------------------- MODULE ImportBatches_proofs -----------------------
(***************************************************************************)
(* The import pipeline for every set of batches, workers, files and keys,  *)
(* every chunk size, row limit and number of faults: its types, then its   *)
(* safety.  IInv of ImportBatches is inductive, and the properties that    *)
(* the runs check on small instances follow from it.                       *)
(*                                                                         *)
(* A step changes one row of import_batches.  Its proof has two parts: the *)
(* changed row still fits its rows in the target table (RowInv), and no    *)
(* worker that still holds a batch has a stale view of it (ViewInv).       *)
(***************************************************************************)
EXTENDS ImportBatches, FiniteSetTheorems, SequenceTheorems, TLAPS

(* Rows counted in a stretch of a file are a natural number of rows.       *)
LEMMA CountType ==
  ASSUME NEW lo \in Int, NEW hi \in Int, NEW S \in SUBSET (lo .. hi)
  PROVE  Cardinality(S) \in Nat
<1>1. IsFiniteSet(lo .. hi) BY FS_Interval
<1>2. IsFiniteSet(S) BY <1>1, FS_Subset
<1>3. QED BY <1>2, FS_CardinalityType

LEMMA IssuesType ==
  ASSUME NEW f, NEW lo \in Int, NEW hi \in Int
  PROVE  Issues(f, lo, hi) \in Nat
<1>1. WarningRows(f, lo, hi) \in Nat BY CountType DEF WarningRows
<1>2. Cardinality({i \in lo .. hi : f[i].error}) \in Nat BY CountType
<1>3. Cardinality({i \in lo .. hi : DuplicateKey(f, i)}) \in Nat BY CountType
<1>4. QED BY <1>1, <1>2, <1>3 DEF Issues

LEMMA CountsType ==
  ASSUME NEW f, NEW lo \in Int, NEW hi \in Int, NEW c
  PROVE  /\ ErrorRows(f, lo, hi) \in Nat
         /\ WarningRows(f, lo, hi) \in Nat
         /\ AcceptedRows(f, lo, hi, c) \in Nat
<1>1. ErrorRows(f, lo, hi) \in Nat BY CountType DEF ErrorRows
<1>2. WarningRows(f, lo, hi) \in Nat BY CountType DEF WarningRows
<1>3. AcceptedRows(f, lo, hi, c) \in Nat BY CountType DEF AcceptedRows
<1>4. QED BY <1>1, <1>2, <1>3

-----------------------------------------------------------------------------
(* The operations on a row of import_batches keep the types of its columns.*)

LEMMA SubmittedRowType ==
  ASSUME NEW row \in BatchRow, NEW f \in Seq(RowData), NEW confirmed \in BOOLEAN,
         NEW mode \in {"append", "upsert", "replace"}
  PROVE  SubmittedRow(row, f, mode, confirmed) \in BatchRow
BY DEF BatchRow, SubmittedRow, Statuses

LEMMA ResetResultsType ==
  ASSUME NEW row \in BatchRow
  PROVE  ResetResults(row) \in BatchRow
BY DEF BatchRow, ResetResults, NoTotal

LEMMA RequeuedType ==
  ASSUME NEW row \in BatchRow
  PROVE  Requeued(row) \in BatchRow
BY DEF BatchRow, Requeued, Statuses, ErrorCodes

LEMMA ConfirmedType ==
  ASSUME NEW row \in BatchRow
  PROVE  Confirmed(row) \in BatchRow
BY DEF BatchRow, Confirmed, Statuses, ErrorCodes

LEMMA ClaimedRowType ==
  ASSUME NEW row \in BatchRow, NEW w \in Workers
  PROVE  ClaimedRow(row, w) \in BatchRow
BY DEF BatchRow, ClaimedRow, Statuses

LEMMA CancelledRowType ==
  ASSUME NEW row \in BatchRow
  PROVE  CancelledRow(row) \in BatchRow
BY DEF BatchRow, CancelledRow, Statuses, Terminal

LEMMA FailedRowType ==
  ASSUME NEW row \in BatchRow, NEW code \in ErrorCodes
  PROVE  FailedRow(row, code) \in BatchRow
BY DEF BatchRow, FailedRow, Statuses

LEMMA RejectedRowType ==
  ASSUME NEW row \in BatchRow, NEW code \in ErrorCodes, NEW total \in Nat
  PROVE  RejectedRow(row, total, code) \in BatchRow
<1>1. FailedRow(row, code) \in BatchRow BY FailedRowType
<1>2. QED BY <1>1 DEF BatchRow, RejectedRow

LEMMA WorkerFailedRowType ==
  ASSUME NEW row \in BatchRow
  PROVE  WorkerFailedRow(row) \in BatchRow
BY DEF BatchRow, WorkerFailedRow, Statuses, ErrorCodes

LEMMA PublishedRowType ==
  ASSUME NEW row \in BatchRow, NEW total \in Nat, NEW unseen \in SUBSET Batches
  PROVE  PublishedRow(row, total, unseen) \in BatchRow
BY DEF BatchRow, PublishedRow, Statuses, Terminal, Succeeded

LEMMA CountersUpdateType ==
  ASSUME NEW row \in BatchRow, NEW processed \in Nat, NEW valid \in Nat,
         NEW errors \in Nat, NEW warnings \in Nat, NEW checkpoint \in Nat,
         NEW samples \in Nat
  PROVE  [row EXCEPT !.processed_rows = processed, !.valid_rows = valid,
            !.error_rows = errors, !.warning_rows = warnings,
            !.checkpoint_row = checkpoint, !.samples = samples,
            !.lease_expired = FALSE] \in BatchRow
BY DEF BatchRow

LEMMA CommittedRowType ==
  ASSUME NEW row \in BatchRow, NEW lo \in Nat, NEW hi \in Nat, lo <= hi,
         NEW confirmed \in BOOLEAN, NEW sampled \in Nat
  PROVE  CommittedRow(row, lo, hi, confirmed, sampled) \in BatchRow
<1> DEFINE processed == row.processed_rows + (hi - lo + 1)
           valid == row.valid_rows + AcceptedRows(row.file, lo, hi, confirmed)
           errors == row.error_rows + ErrorRows(row.file, lo, hi)
           warnings == row.warning_rows + WarningRows(row.file, lo, hi)
           samples == row.samples + sampled
<1>1. /\ hi - lo + 1 \in Nat
      /\ AcceptedRows(row.file, lo, hi, confirmed) \in Nat
      /\ ErrorRows(row.file, lo, hi) \in Nat
      /\ WarningRows(row.file, lo, hi) \in Nat
  BY CountsType
<1>2. /\ row.processed_rows \in Nat /\ row.valid_rows \in Nat
      /\ row.error_rows \in Nat /\ row.warning_rows \in Nat
      /\ row.samples \in Nat
  BY DEF BatchRow
<1>3. /\ processed \in Nat /\ valid \in Nat /\ errors \in Nat
      /\ warnings \in Nat /\ samples \in Nat
  BY <1>1, <1>2
<1>4. CommittedRow(row, lo, hi, confirmed, sampled)
        = [row EXCEPT !.processed_rows = processed, !.valid_rows = valid,
             !.error_rows = errors, !.warning_rows = warnings,
             !.checkpoint_row = processed, !.samples = samples,
             !.lease_expired = FALSE]
  BY DEF CommittedRow
<1> HIDE DEF processed, valid, errors, warnings, samples
<1>5. [row EXCEPT !.processed_rows = processed, !.valid_rows = valid,
         !.error_rows = errors, !.warning_rows = warnings,
         !.checkpoint_row = processed, !.samples = samples,
         !.lease_expired = FALSE] \in BatchRow
  BY <1>3, CountersUpdateType
<1>6. QED BY <1>4, <1>5

-----------------------------------------------------------------------------
(* The pieces of a step that several operations share.                     *)

LEMMA RowType ==
  ASSUME TypeOK, NEW b \in Batches
  PROVE  batch[b] \in BatchRow
BY DEF TypeOK

LEMMA BatchUpdateType ==
  ASSUME TypeOK, NEW b \in Batches, NEW row \in BatchRow
  PROVE  [batch EXCEPT ![b] = row] \in [Batches -> BatchRow]
BY DEF TypeOK

LEMMA WorkerUpdateType ==
  ASSUME TypeOK, NEW w \in Workers, NEW state \in WorkerState,
         state.pc # "idle" => state.job \in Batches,
         worker' = [worker EXCEPT ![w] = state]
  PROVE  /\ worker' \in [Workers -> WorkerState]
         /\ \A v \in Workers : worker'[v].pc # "idle" => worker'[v].job \in Batches
BY DEF TypeOK, Job

LEMMA ToIdleType ==
  ASSUME TypeOK, NEW w \in Workers, worker' = [worker EXCEPT ![w] = Idle]
  PROVE  /\ worker' \in [Workers -> WorkerState]
         /\ \A v \in Workers : worker'[v].pc # "idle" => worker'[v].job \in Batches
<1>1. Idle \in WorkerState /\ Idle.pc = "idle" BY DEF Idle, WorkerState
<1>2. QED BY <1>1, WorkerUpdateType

LEMMA BusyWorkerType ==
  ASSUME TypeOK, NEW w \in Workers, worker[w].pc # "idle"
  PROVE  /\ worker[w] \in WorkerState
         /\ Job(w) \in Batches
         /\ batch[Job(w)] \in BatchRow
         /\ Len(File(w)) \in Nat
<1>1. worker[w] \in WorkerState /\ Job(w) \in Batches BY DEF TypeOK
<1>2. batch[Job(w)] \in BatchRow BY <1>1, RowType
<1>3. QED BY <1>1, <1>2, LenProperties DEF BatchRow, File

LEMMA DiscardRowsType ==
  ASSUME TypeOK, NEW b \in Batches, DiscardRows(b)
  PROVE  /\ staged' \in [Batches -> [RowNumbers -> Nat]]
         /\ active' \in [Batches -> [RowNumbers -> Nat]]
<1>1. NoRows \in [RowNumbers -> Nat] BY DEF NoRows
<1>2. QED BY <1>1 DEF DiscardRows, TypeOK

LEMMA MoveToEndType ==
  ASSUME queue \in Seq(Batches), NEW b \in Batches
  PROVE  MoveToEnd(b) \in Seq(Batches)
<1>1. MoveToEnd(b) \in [1 .. Len(queue) -> Batches]
  BY DEF MoveToEnd
<1>2. QED BY <1>1, IsASeq, LenProperties

(* The chunk that CommitChunk commits has at least one row and stays in    *)
(* the file.                                                               *)
LEMMA ChunkBounds ==
  ASSUME TypeOK, NEW w \in Workers, HasChunk(w)
  PROVE  /\ worker[w].position \in Nat
         /\ ChunkEnd(w) \in Nat
         /\ worker[w].position < ChunkEnd(w)
         /\ ChunkEnd(w) <= Len(File(w))
<1>1. worker[w] \in WorkerState /\ Len(File(w)) \in Nat
  BY BusyWorkerType DEF HasChunk
<1>2. worker[w].position \in Nat BY <1>1 DEF WorkerState
<1>3. QED BY <1>1, <1>2, SettingsAssumption DEF HasChunk, ChunkEnd, AtMost

LEMMA SampledIssuesType ==
  ASSUME TypeOK, NEW w \in Workers, HasChunk(w)
  PROVE  SampledIssues(w) \in Nat
<1> DEFINE room == IF worker[w].sample_count < SampleLimit
                     THEN SampleLimit - worker[w].sample_count ELSE 0
           found == Issues(File(w), worker[w].position + 1, ChunkEnd(w))
<1>1. worker[w] \in WorkerState BY DEF TypeOK
<1>2. worker[w].sample_count \in Nat BY <1>1 DEF WorkerState
<1>3. room \in Nat BY <1>2, SettingsAssumption
<1>4. found \in Nat BY ChunkBounds, IssuesType
<1>5. SampledIssues(w) = AtMost(found, room) BY DEF SampledIssues
<1> HIDE DEF room, found
<1>6. QED BY <1>3, <1>4, <1>5 DEF AtMost

-----------------------------------------------------------------------------
(* Type correctness, one lemma per operation.                              *)

LEMMA CreateType ==
  ASSUME TypeOK, NEW b \in Batches, NEW f \in Files, NEW mode \in Modes,
         NEW confirmed \in BOOLEAN, CreateImportBatch(b, f, mode, confirmed)
  PROVE  TypeOK'
<1>1. f \in Seq(RowData) /\ mode \in {"append", "upsert", "replace"}
  BY FilesAssumption, NamesAssumption
<1>2. SubmittedRow(batch[b], f, mode, confirmed) \in BatchRow
  BY <1>1, RowType, SubmittedRowType
<1>3. batch' \in [Batches -> BatchRow]
  BY <1>2, BatchUpdateType DEF CreateImportBatch
<1>4. queue' \in Seq(Batches)
  BY AppendProperties DEF CreateImportBatch, TypeOK
<1>5. QED BY <1>3, <1>4 DEF CreateImportBatch, TypeOK, Job

LEMMA CancelType ==
  ASSUME TypeOK, NEW b \in Batches, CancelImportBatch(b)
  PROVE  TypeOK'
<1>1. [batch[b] EXCEPT !.status = "cancelled"] \in BatchRow
  BY RowType DEF BatchRow, Statuses, Terminal
<1>2. [batch[b] EXCEPT !.cancellation_requested = TRUE] \in BatchRow
  BY RowType DEF BatchRow
<1>3. batch' \in [Batches -> BatchRow]
  BY <1>1, <1>2 DEF CancelImportBatch, TypeOK
<1>4. QED BY <1>3 DEF CancelImportBatch, TypeOK, Job

LEMMA RetryType ==
  ASSUME TypeOK, NEW b \in Batches, RetryImportBatch(b)
  PROVE  TypeOK'
<1>1. /\ Requeued(batch[b]) \in BatchRow
      /\ ResetResults(Requeued(batch[b])) \in BatchRow
  BY RowType, RequeuedType, ResetResultsType
<1>2. batch' \in [Batches -> BatchRow]
  BY <1>1 DEF RetryImportBatch, TypeOK
<1>3. queue' \in Seq(Batches)
  BY MoveToEndType DEF RetryImportBatch, TypeOK
<1>4. QED BY <1>2, <1>3 DEF RetryImportBatch, TypeOK, Job

LEMMA ConfirmType ==
  ASSUME TypeOK, NEW b \in Batches, ConfirmImportBatchWarnings(b)
  PROVE  TypeOK'
<1>1. ResetResults(Confirmed(batch[b])) \in BatchRow
  BY RowType, ConfirmedType, ResetResultsType
<1>2. batch' \in [Batches -> BatchRow]
  BY <1>1, BatchUpdateType DEF ConfirmImportBatchWarnings
<1>3. queue' \in Seq(Batches)
  BY MoveToEndType DEF ConfirmImportBatchWarnings, TypeOK
<1>4. QED BY <1>2, <1>3 DEF ConfirmImportBatchWarnings, TypeOK, Job

LEMMA ClaimType ==
  ASSUME TypeOK, NEW w \in Workers, NEW b \in Batches, ClaimNextImportBatch(w, b)
  PROVE  TypeOK'
<1>1. batch' \in [Batches -> BatchRow]
  BY RowType, ClaimedRowType, BatchUpdateType DEF ClaimNextImportBatch
<1>2. worker[w] \in WorkerState BY DEF TypeOK
<1>3. [worker[w] EXCEPT !.pc = "claimed", !.job = b] \in WorkerState
  BY <1>2 DEF WorkerState
<1>4. [worker[w] EXCEPT !.pc = "claimed", !.job = b].job \in Batches
  BY <1>2 DEF WorkerState
<1>5. QED BY <1>1, <1>3, <1>4, WorkerUpdateType DEF ClaimNextImportBatch, TypeOK, Job

LEMMA LoadType ==
  ASSUME TypeOK, NEW w \in Workers, LoadBatchWork(w)
  PROVE  TypeOK'
<1>1. /\ worker[w] \in WorkerState /\ Job(w) \in Batches
      /\ batch[Job(w)] \in BatchRow
  BY BusyWorkerType DEF LoadBatchWork
<1>2. Loaded(worker[w], batch[Job(w)]) \in WorkerState
  BY <1>1 DEF WorkerState, BatchRow, ResumePosition, Loaded
<1>3. Loaded(worker[w], batch[Job(w)]).job \in Batches
  BY <1>1 DEF WorkerState, Loaded, Job
<1>4. QED BY <1>2, <1>3, WorkerUpdateType DEF LoadBatchWork, TypeOK, Job

LEMMA LoseLeaseType ==
  ASSUME TypeOK, NEW w \in Workers, LoseLease(w)
  PROVE  TypeOK'
BY ToIdleType DEF LoseLease, TypeOK, Job

LEMMA CommitType ==
  ASSUME TypeOK, NEW w \in Workers, CommitChunk(w)
  PROVE  TypeOK'
<1> DEFINE b == Job(w)
           lo == worker[w].position + 1
           hi == ChunkEnd(w)
           confirmed == worker[w].warnings_confirmed
           state == PastChunk(worker[w], hi, SampledIssues(w))
<1>1. HasChunk(w) /\ worker[w].pc # "idle" BY DEF CommitChunk, HasChunk
<1>2. /\ worker[w] \in WorkerState /\ b \in Batches /\ batch[b] \in BatchRow
  BY <1>1, BusyWorkerType
<1>3. lo \in Nat /\ hi \in Nat /\ lo <= hi BY <1>1, ChunkBounds
<1>4. SampledIssues(w) \in Nat BY <1>1, SampledIssuesType
<1>5. confirmed \in BOOLEAN BY <1>2 DEF WorkerState
<1>6. CommittedRow(batch[b], lo, hi, confirmed, SampledIssues(w)) \in BatchRow
  BY <1>2, <1>3, <1>4, <1>5, CommittedRowType
<1>7. batch' \in [Batches -> BatchRow]
  BY <1>2, <1>6, BatchUpdateType DEF CommitChunk
<1>8. state \in WorkerState
  <2>1. worker[w].sample_count + SampledIssues(w) \in Nat
    BY <1>2, <1>4 DEF WorkerState
  <2>2. QED BY <1>2, <1>3, <2>1 DEF WorkerState, PastChunk
<1>9. state.job \in Batches BY <1>2 DEF WorkerState, Job, PastChunk
<1>10. worker' = [worker EXCEPT ![w] = state] BY DEF CommitChunk
<1>11. /\ worker' \in [Workers -> WorkerState]
       /\ \A v \in Workers : worker'[v].pc # "idle" => worker'[v].job \in Batches
  <2> HIDE DEF state
  <2>1. QED BY <1>8, <1>9, <1>10, WorkerUpdateType
<1>12. StageRows(b, File(w), lo, hi, confirmed) BY DEF CommitChunk
<1>13. staged' \in [Batches -> [RowNumbers -> Nat]]
  <2> HIDE DEF b, lo, hi, confirmed
  <2>1. staged[b] \in [RowNumbers -> Nat] BY <1>2 DEF TypeOK
  <2>2. QED BY <1>2, <1>12, <2>1 DEF StageRows, TypeOK
<1>14. UNCHANGED <<queue, active, faults>> BY DEF CommitChunk
<1>15. QED BY <1>7, <1>11, <1>13, <1>14 DEF TypeOK, Job

LEMMA CancelProcessingType ==
  ASSUME TypeOK, NEW w \in Workers, CancelProcessingBatch(w)
  PROVE  TypeOK'
<1>1. Job(w) \in Batches /\ batch[Job(w)] \in BatchRow
  BY BusyWorkerType DEF CancelProcessingBatch, HasChunk
<1>2. batch' \in [Batches -> BatchRow]
  BY <1>1, CancelledRowType, BatchUpdateType DEF CancelProcessingBatch
<1>3. QED BY <1>1, <1>2, DiscardRowsType, ToIdleType DEF CancelProcessingBatch, TypeOK, Job

LEMMA FinishRowsType ==
  ASSUME TypeOK, NEW w \in Workers, FinishRows(w)
  PROVE  TypeOK'
<1> DEFINE pc == IF Len(File(w)) > MaxRows THEN "over_limit" ELSE "finalize"
<1>1. worker[w] \in WorkerState /\ Job(w) \in Batches
  BY BusyWorkerType DEF FinishRows
<1>2. pc \in {"over_limit", "finalize"} OBVIOUS
<1>3. worker' = [worker EXCEPT ![w] = [@ EXCEPT !.pc = pc]] BY DEF FinishRows
<1>4. /\ [worker[w] EXCEPT !.pc = pc] \in WorkerState
      /\ [worker[w] EXCEPT !.pc = pc].job \in Batches
  <2> HIDE DEF pc
  <2>1. QED BY <1>1, <1>2 DEF WorkerState, Job
<1>5. /\ worker' \in [Workers -> WorkerState]
      /\ \A v \in Workers : worker'[v].pc # "idle" => worker'[v].job \in Batches
  <2> HIDE DEF pc
  <2>1. QED BY <1>3, <1>4, WorkerUpdateType
<1>6. QED BY <1>5 DEF FinishRows, TypeOK, Job

LEMMA VerdictType ==
  ASSUME NEW row, NEW total
  PROVE  Verdict(row, total) \in ErrorCodes
BY DEF Verdict, ErrorCodes

LEMMA RejectType ==
  ASSUME TypeOK, NEW w \in Workers, RejectBatch(w)
  PROVE  TypeOK'
<1>1. /\ Job(w) \in Batches /\ batch[Job(w)] \in BatchRow
      /\ Len(File(w)) \in Nat
  BY BusyWorkerType DEF RejectBatch, Finalizes
<1>2. batch' \in [Batches -> BatchRow]
  BY <1>1, VerdictType, RejectedRowType, BatchUpdateType DEF RejectBatch
<1>3. QED BY <1>1, <1>2, DiscardRowsType, ToIdleType DEF RejectBatch, TypeOK, Job

LEMMA BeginPublicationType ==
  ASSUME TypeOK, NEW w \in Workers, BeginPublication(w)
  PROVE  TypeOK'
<1> DEFINE state == [worker[w] EXCEPT !.pc = "publishing", !.seen = ActiveRows]
<1>1. worker[w] \in WorkerState /\ Job(w) \in Batches
  BY BusyWorkerType DEF BeginPublication, Finalizes
<1>2. ActiveRows \in SUBSET (Batches \X RowNumbers) BY DEF ActiveRows
<1>3. state \in WorkerState /\ state.job \in Batches
  BY <1>1, <1>2 DEF WorkerState, Job
<1>4. worker' = [worker EXCEPT ![w] = state] BY DEF BeginPublication
<1>5. /\ worker' \in [Workers -> WorkerState]
      /\ \A v \in Workers : worker'[v].pc # "idle" => worker'[v].job \in Batches
  <2> HIDE DEF state
  <2>1. QED BY <1>3, <1>4, WorkerUpdateType
<1>6. QED BY <1>5 DEF BeginPublication, TypeOK, Job

LEMMA PublishType ==
  ASSUME TypeOK, NEW w \in Workers, PublishBatch(w)
  PROVE  TypeOK'
<1>1. /\ Job(w) \in Batches /\ batch[Job(w)] \in BatchRow
      /\ Len(File(w)) \in Nat
  BY BusyWorkerType DEF PublishBatch
<1>2. batch' \in [Batches -> BatchRow]
  <2>1. Unseen(w) \in SUBSET Batches BY DEF Unseen
  <2>2. QED BY <1>1, <2>1, PublishedRowType, BatchUpdateType DEF PublishBatch
<1>3. PublishRows(Job(w), worker[w].seen) BY DEF PublishBatch
<1>4. /\ staged' \in [Batches -> [RowNumbers -> Nat]]
      /\ active' \in [Batches -> [RowNumbers -> Nat]]
  <2>1. NoRows \in [RowNumbers -> Nat] BY DEF NoRows
  <2>2. staged' \in [Batches -> [RowNumbers -> Nat]]
    BY <1>1, <1>3, <2>1 DEF PublishRows, TypeOK
  <2>3. active' \in [Batches -> [RowNumbers -> Nat]]
    <3>1. ASSUME NEW c \in Batches, NEW i \in RowNumbers
          PROVE  active[c][i] \in Nat /\ staged[Job(w)][i] \in Nat
      BY <1>1 DEF TypeOK
    <3>2. QED BY <1>3, <3>1 DEF PublishRows
  <2>4. QED BY <2>2, <2>3
<1>5. QED BY <1>2, <1>4, ToIdleType DEF PublishBatch, TypeOK, Job

LEMMA FailAndDiscardType ==
  ASSUME TypeOK, NEW w \in Workers, FailAndDiscardBatch(w)
  PROVE  TypeOK'
<1>1. Job(w) \in Batches /\ batch[Job(w)] \in BatchRow
  BY BusyWorkerType DEF FailAndDiscardBatch
<1>2. "row_limit_exceeded" \in ErrorCodes BY DEF ErrorCodes
<1>3. batch' \in [Batches -> BatchRow]
  BY <1>1, <1>2, FailedRowType, BatchUpdateType DEF FailAndDiscardBatch
<1>4. QED BY <1>1, <1>3, DiscardRowsType, ToIdleType DEF FailAndDiscardBatch, TypeOK, Job

LEMMA MarkFailureType ==
  ASSUME TypeOK, NEW w \in Workers, MarkWorkerFailure(w)
  PROVE  TypeOK'
<1>1. Job(w) \in Batches /\ batch[Job(w)] \in BatchRow
  BY BusyWorkerType DEF MarkWorkerFailure
<1>2. [batch EXCEPT ![Job(w)] = WorkerFailedRow(@)] \in [Batches -> BatchRow]
  BY <1>1, WorkerFailedRowType, BatchUpdateType
<1>3. batch' \in [Batches -> BatchRow]
  BY <1>2 DEF MarkWorkerFailure, TypeOK
<1>4. QED BY <1>3, ToIdleType DEF MarkWorkerFailure, TypeOK, Job

LEMMA RaisesType ==
  ASSUME TypeOK, NEW w \in Workers, WorkerRaises(w)
  PROVE  TypeOK'
<1>1. worker[w] \in WorkerState /\ Job(w) \in Batches
  BY BusyWorkerType DEF WorkerRaises, Running
<1>2. /\ [worker[w] EXCEPT !.pc = "error", !.seen = {}] \in WorkerState
      /\ [worker[w] EXCEPT !.pc = "error", !.seen = {}].job \in Batches
  BY <1>1 DEF WorkerState, Job
<1>3. worker' = [worker EXCEPT ![w] = [@ EXCEPT !.pc = "error", !.seen = {}]]
  BY DEF WorkerRaises
<1>4. QED BY <1>2, <1>3, WorkerUpdateType DEF WorkerRaises, TypeOK, Job

LEMMA CrashesType ==
  ASSUME TypeOK, NEW w \in Workers, WorkerCrashes(w)
  PROVE  TypeOK'
<1>1. faults' \in Nat BY DEF WorkerCrashes, TypeOK
<1>2. worker' = [worker EXCEPT ![w] = Idle] BY DEF WorkerCrashes
<1>3. QED BY <1>1, <1>2, ToIdleType DEF WorkerCrashes, TypeOK, Job

LEMMA LeaseExpiresType ==
  ASSUME TypeOK, NEW b \in Batches, LeaseExpires(b)
  PROVE  TypeOK'
<1>1. [batch[b] EXCEPT !.lease_expired = TRUE] \in BatchRow
  BY RowType DEF BatchRow
<1>2. batch' \in [Batches -> BatchRow]
  BY <1>1, BatchUpdateType DEF LeaseExpires
<1>3. faults' \in Nat BY DEF LeaseExpires, TypeOK
<1>4. QED BY <1>2, <1>3 DEF LeaseExpires, TypeOK, Job

LEMMA InitType == Init => TypeOK
<1> SUFFICES ASSUME Init PROVE TypeOK OBVIOUS
<1>1. AbsentRow \in BatchRow
  BY DEF AbsentRow, BatchRow, NoTotal, ErrorCodes
<1>2. Idle \in WorkerState /\ Idle.pc = "idle" BY DEF Idle, WorkerState
<1>3. NoRows \in [RowNumbers -> Nat] BY DEF NoRows
<1>4. QED BY <1>1, <1>2, <1>3, EmptySeq DEF Init, TypeOK, Job

LEMMA NextType == TypeOK /\ [Next]_vars => TypeOK'
<1> SUFFICES ASSUME TypeOK, [Next]_vars PROVE TypeOK' OBVIOUS
<1>1. ASSUME NEW b \in Batches, ApiStep(b) PROVE TypeOK'
  BY <1>1, CreateType, CancelType, RetryType, ConfirmType DEF ApiStep
<1>2. ASSUME NEW w \in Workers, Claims(w) PROVE TypeOK'
  BY <1>2, ClaimType DEF Claims
<1>3. ASSUME NEW w \in Workers, WorkerStep(w) PROVE TypeOK'
  BY <1>3, LoadType, LoseLeaseType, CommitType, CancelProcessingType,
     FinishRowsType, RejectType, BeginPublicationType, PublishType, FailAndDiscardType, MarkFailureType DEF WorkerStep
<1>4. ASSUME NEW w \in Workers, WorkerRaises(w) PROVE TypeOK'
  BY <1>4, RaisesType
<1>5. ASSUME NEW w \in Workers, WorkerCrashes(w) PROVE TypeOK'
  BY <1>5, CrashesType
<1>6. ASSUME NEW b \in Batches, LeaseExpires(b) PROVE TypeOK'
  BY <1>6, LeaseExpiresType
<1>7. CASE UNCHANGED vars BY <1>7 DEF vars, TypeOK, Job
<1>8. QED BY <1>1, <1>2, <1>3, <1>4, <1>5, <1>6, <1>7 DEF Next

(* The columns of import_batches, the target table and the locals of the   *)
(* workers hold what their declarations allow, and a running worker has a  *)
(* batch, in every reachable state of every instance.                      *)
THEOREM TypeCorrect == Spec => []TypeOK
<1>1. QED BY InitType, NextType, PTL DEF Spec

-----------------------------------------------------------------------------
(* Counting the rows of a file: nothing up to row 0, and what is counted   *)
(* up to a checkpoint plus what is counted behind it.                      *)

LEMMA CountSplit ==
  ASSUME NEW A, NEW B, IsFiniteSet(A), IsFiniteSet(B), A \cap B = {}
  PROVE  Cardinality(A \cup B) = Cardinality(A) + Cardinality(B)
<1>1. Cardinality(A) \in Nat /\ Cardinality(B) \in Nat
  BY FS_CardinalityType
<1>2. Cardinality(A \cap B) = 0 BY FS_EmptySet
<1>3. Cardinality(A \cup B)
        = Cardinality(A) + Cardinality(B) - Cardinality(A \cap B)
  BY FS_Union
<1>4. QED BY <1>1, <1>2, <1>3

LEMMA CountsSplit ==
  ASSUME NEW f, NEW c, NEW mid \in Nat, NEW hi \in Nat, mid <= hi
  PROVE  /\ ErrorRows(f, 1, hi) = ErrorRows(f, 1, mid) + ErrorRows(f, mid + 1, hi)
         /\ WarningRows(f, 1, hi) = WarningRows(f, 1, mid) + WarningRows(f, mid + 1, hi)
         /\ AcceptedRows(f, 1, hi, c)
              = AcceptedRows(f, 1, mid, c) + AcceptedRows(f, mid + 1, hi, c)
         /\ Issues(f, 1, hi) = Issues(f, 1, mid) + Issues(f, mid + 1, hi)
<1>0. /\ 1 \in Int /\ mid \in Int /\ mid + 1 \in Int /\ hi \in Int
      /\ IsFiniteSet(1 .. mid) /\ IsFiniteSet((mid + 1) .. hi)
  BY FS_Interval
<1>1. ErrorRows(f, 1, hi) = ErrorRows(f, 1, mid) + ErrorRows(f, mid + 1, hi)
  <2> DEFINE A == {i \in 1 .. mid : HasError(f, i)}
             B == {i \in (mid + 1) .. hi : HasError(f, i)}
  <2>1. {i \in 1 .. hi : HasError(f, i)} = A \cup B OBVIOUS
  <2>2. IsFiniteSet(A) /\ IsFiniteSet(B) /\ A \cap B = {}
    BY <1>0, FS_Subset
  <2> HIDE DEF A, B
  <2>3. Cardinality(A \cup B) = Cardinality(A) + Cardinality(B)
    BY <2>2, CountSplit
  <2>4. QED BY <2>1, <2>3 DEF ErrorRows, A, B
<1>2. WarningRows(f, 1, hi) = WarningRows(f, 1, mid) + WarningRows(f, mid + 1, hi)
  <2> DEFINE A == {i \in 1 .. mid : f[i].warning}
             B == {i \in (mid + 1) .. hi : f[i].warning}
  <2>1. {i \in 1 .. hi : f[i].warning} = A \cup B OBVIOUS
  <2>2. IsFiniteSet(A) /\ IsFiniteSet(B) /\ A \cap B = {}
    BY <1>0, FS_Subset
  <2> HIDE DEF A, B
  <2>3. Cardinality(A \cup B) = Cardinality(A) + Cardinality(B)
    BY <2>2, CountSplit
  <2>4. QED BY <2>1, <2>3 DEF WarningRows, A, B
<1>3. AcceptedRows(f, 1, hi, c)
        = AcceptedRows(f, 1, mid, c) + AcceptedRows(f, mid + 1, hi, c)
  <2> DEFINE A == {i \in 1 .. mid : Accepted(f, i, c)}
             B == {i \in (mid + 1) .. hi : Accepted(f, i, c)}
  <2>1. {i \in 1 .. hi : Accepted(f, i, c)} = A \cup B OBVIOUS
  <2>2. IsFiniteSet(A) /\ IsFiniteSet(B) /\ A \cap B = {}
    BY <1>0, FS_Subset
  <2> HIDE DEF A, B
  <2>3. Cardinality(A \cup B) = Cardinality(A) + Cardinality(B)
    BY <2>2, CountSplit
  <2>4. QED BY <2>1, <2>3 DEF AcceptedRows, A, B
<1>4. Cardinality({i \in 1 .. hi : f[i].error})
        = Cardinality({i \in 1 .. mid : f[i].error})
            + Cardinality({i \in (mid + 1) .. hi : f[i].error})
  <2> DEFINE A == {i \in 1 .. mid : f[i].error}
             B == {i \in (mid + 1) .. hi : f[i].error}
  <2>1. {i \in 1 .. hi : f[i].error} = A \cup B OBVIOUS
  <2>2. IsFiniteSet(A) /\ IsFiniteSet(B) /\ A \cap B = {}
    BY <1>0, FS_Subset
  <2> HIDE DEF A, B
  <2>3. Cardinality(A \cup B) = Cardinality(A) + Cardinality(B)
    BY <2>2, CountSplit
  <2>4. QED BY <2>1, <2>3 DEF A, B
<1>5. Cardinality({i \in 1 .. hi : DuplicateKey(f, i)})
        = Cardinality({i \in 1 .. mid : DuplicateKey(f, i)})
            + Cardinality({i \in (mid + 1) .. hi : DuplicateKey(f, i)})
  <2> DEFINE A == {i \in 1 .. mid : DuplicateKey(f, i)}
             B == {i \in (mid + 1) .. hi : DuplicateKey(f, i)}
  <2>1. {i \in 1 .. hi : DuplicateKey(f, i)} = A \cup B OBVIOUS
  <2>2. IsFiniteSet(A) /\ IsFiniteSet(B) /\ A \cap B = {}
    BY <1>0, FS_Subset
  <2> HIDE DEF A, B
  <2>3. Cardinality(A \cup B) = Cardinality(A) + Cardinality(B)
    BY <2>2, CountSplit
  <2>4. QED BY <2>1, <2>3 DEF A, B
<1>6. WarningRows(f, 1, mid) \in Nat /\ WarningRows(f, mid + 1, hi) \in Nat
  BY <1>0, CountsType, Zenon
<1>7. /\ Cardinality({i \in 1 .. mid : f[i].error}) \in Nat
      /\ Cardinality({i \in 1 .. mid : DuplicateKey(f, i)}) \in Nat
  <2>1. Cardinality({i \in 1 .. mid : f[i].error}) \in Nat
    BY <1>0, CountType, Zenon
  <2>2. Cardinality({i \in 1 .. mid : DuplicateKey(f, i)}) \in Nat
    BY <1>0, CountType, Zenon
  <2>3. QED BY <2>1, <2>2
<1>8. /\ Cardinality({i \in (mid + 1) .. hi : f[i].error}) \in Nat
      /\ Cardinality({i \in (mid + 1) .. hi : DuplicateKey(f, i)}) \in Nat
  <2>1. Cardinality({i \in (mid + 1) .. hi : f[i].error}) \in Nat
    BY <1>0, CountType, Zenon
  <2>2. Cardinality({i \in (mid + 1) .. hi : DuplicateKey(f, i)}) \in Nat
    BY <1>0, CountType, Zenon
  <2>3. QED BY <2>1, <2>2
<1>9. Issues(f, 1, hi) = Issues(f, 1, mid) + Issues(f, mid + 1, hi)
  BY <1>2, <1>4, <1>5, <1>6, <1>7, <1>8 DEF Issues
<1>10. QED BY <1>1, <1>2, <1>3, <1>9

LEMMA CountsOfNothing ==
  ASSUME NEW f, NEW c
  PROVE  /\ ErrorRows(f, 1, 0) = 0 /\ WarningRows(f, 1, 0) = 0
         /\ AcceptedRows(f, 1, 0, c) = 0 /\ Issues(f, 1, 0) = 0
<1>1. 1 .. 0 = {} OBVIOUS
<1>2. /\ {i \in 1 .. 0 : HasError(f, i)} = {} /\ {i \in 1 .. 0 : f[i].warning} = {}
      /\ {i \in 1 .. 0 : Accepted(f, i, c)} = {} /\ {i \in 1 .. 0 : f[i].error} = {}
      /\ {i \in 1 .. 0 : DuplicateKey(f, i)} = {}
  BY <1>1
<1>3. QED BY <1>2, FS_EmptySet DEF ErrorRows, WarningRows, AcceptedRows, Issues

-----------------------------------------------------------------------------
(* The row of a batch after each operation.  Most operations leave alone   *)
(* what ties it to the target table.                                       *)

SameResults(row, next) ==
  /\ next.file = row.file
  /\ next.checkpoint_row = row.checkpoint_row
  /\ next.warnings_confirmed = row.warnings_confirmed
  /\ next.processed_rows = row.processed_rows
  /\ next.valid_rows = row.valid_rows
  /\ next.error_rows = row.error_rows
  /\ next.warning_rows = row.warning_rows
  /\ next.samples = row.samples

LEMMA RowInvKept ==
  ASSUME NEW row, NEW next, NEW st, NEW ac,
         RowInv(row, st, ac), SameResults(row, next),
         next.status # "absent",
         next.status \in Succeeded <=> row.status \in Succeeded,
         next.status \in MayRunAgain => row.status \in MayRunAgain,
         next.status \in {"pending", "processing"} => CountersOf(row, row.checkpoint_row),
         next.status = "failed" /\ row.checkpoint_row > 0
           => CountersOf(row, row.checkpoint_row),
         AwaitsConfirmation(next)
           => AwaitsConfirmation(row) /\ ~next.cancellation_requested,
         next.status = "pending" => ~next.cancellation_requested
  PROVE  RowInv(next, st, ac)
<1>1. RowsBehindCheckpoint(next) = RowsBehindCheckpoint(row)
  BY DEF SameResults, RowsBehindCheckpoint
<1>2. CountersOf(next, next.checkpoint_row) <=> CountersOf(row, row.checkpoint_row)
  BY DEF SameResults, CountersOf
<1>3. /\ next.file = row.file /\ next.checkpoint_row = row.checkpoint_row
  BY DEF SameResults
<1>4. CountersMatch(next) BY <1>2, <1>3 DEF CountersMatch
<1>5. QED BY <1>1, <1>3, <1>4 DEF RowInv

LEMMA NoRowsBehindNothing ==
  ASSUME NEW row, row.checkpoint_row = 0
  PROVE  RowsBehindCheckpoint(row) = NoRows
<1>1. \A i \in RowNumbers : ~(i <= 0) BY DEF RowNumbers
<1>2. QED BY <1>1 DEF RowsBehindCheckpoint, NoRows

(* A batch without a checkpoint and without rows in the target table.      *)
LEMMA EmptyRowInv ==
  ASSUME NEW row \in BatchRow,
         Len(row.file) <= MaxFileRows, row.checkpoint_row = 0,
         row.status \in {"pending", "failed", "cancelled"},
         row.status = "pending" =>
           ~row.cancellation_requested /\ CountersOf(row, 0),
         AwaitsConfirmation(row) => ~row.cancellation_requested
  PROVE  RowInv(row, NoRows, NoRows)
<1>1. RowsBehindCheckpoint(row) = NoRows BY NoRowsBehindNothing
<1>2. CountersMatch(row) BY DEF CountersMatch
<1>3. \A i \in RowNumbers : NoRows[i] + NoRows[i] <= 1 BY DEF NoRows
<1>4. row.status \notin Succeeded /\ row.status # "absent" BY DEF Succeeded
<1>5. Len(row.file) \in Nat BY LenProperties DEF BatchRow
<1>6. QED BY <1>1, <1>2, <1>3, <1>4, <1>5 DEF RowInv

LEMMA ResetCounters ==
  ASSUME NEW row, row.processed_rows = 0, row.valid_rows = 0, row.error_rows = 0,
         row.warning_rows = 0, row.samples = 0
  PROVE  CountersOf(row, 0)
BY CountsOfNothing, SettingsAssumption DEF CountersOf, AtMost

LEMMA SubmittedRowInv ==
  ASSUME NEW f \in Files, NEW mode \in Modes, NEW confirmed \in BOOLEAN
  PROVE  RowInv(SubmittedRow(AbsentRow, f, mode, confirmed), NoRows, NoRows)
<1> DEFINE next == SubmittedRow(AbsentRow, f, mode, confirmed)
<1>1. AbsentRow \in BatchRow BY DEF AbsentRow, BatchRow, NoTotal, ErrorCodes
<1>2. next \in BatchRow
  BY <1>1, SubmittedRowType, FilesAssumption, NamesAssumption
<1>3. /\ next.status = "pending" /\ next.file = f /\ next.checkpoint_row = 0
      /\ next.cancellation_requested = FALSE /\ next.samples = 0
      /\ next.processed_rows = 0 /\ next.valid_rows = 0 /\ next.error_rows = 0
      /\ next.warning_rows = 0
  BY DEF SubmittedRow, AbsentRow
<1> HIDE DEF next
<1>4. CountersOf(next, 0) BY <1>3, ResetCounters
<1>5. Len(next.file) <= MaxFileRows BY <1>3, FilesAssumption
<1>6. ~AwaitsConfirmation(next) BY <1>3 DEF AwaitsConfirmation
<1>7. ~next.cancellation_requested BY <1>3
<1>8. RowInv(next, NoRows, NoRows)
  BY <1>2, <1>3, <1>4, <1>5, <1>6, <1>7, EmptyRowInv
<1>9. QED BY <1>8 DEF next

(* A new run from the first row, after a retry or a confirmation.          *)
LEMMA RestartedRowInv ==
  ASSUME NEW row \in BatchRow, NEW st, NEW ac, RowInv(row, st, ac),
         row.status = "failed", row.checkpoint_row = 0, NEW next \in BatchRow,
         next.status = "pending", next.file = row.file, next.checkpoint_row = 0,
         ~next.cancellation_requested
  PROVE  RowInv(ResetResults(next), st, ac)
<1> DEFINE reset == ResetResults(next)
<1>1. reset \in BatchRow BY ResetResultsType
<1>2. /\ reset.status = "pending" /\ reset.file = row.file
      /\ reset.checkpoint_row = 0 /\ ~reset.cancellation_requested
      /\ reset.processed_rows = 0 /\ reset.valid_rows = 0 /\ reset.error_rows = 0
      /\ reset.warning_rows = 0 /\ reset.samples = 0
  BY DEF ResetResults, BatchRow
<1> HIDE DEF reset
<1>3. CountersOf(reset, 0) BY <1>2, ResetCounters
<1>4. st = NoRows /\ ac = NoRows
  BY NoRowsBehindNothing DEF RowInv, MayRunAgain, Succeeded
<1>5. Len(reset.file) <= MaxFileRows BY <1>2 DEF RowInv
<1>6. ~AwaitsConfirmation(reset) BY <1>2 DEF AwaitsConfirmation
<1>7. RowInv(reset, NoRows, NoRows)
  BY <1>1, <1>2, <1>3, <1>5, <1>6, EmptyRowInv
<1>8. QED BY <1>4, <1>7 DEF reset

LEMMA RequeuedRowInv ==
  ASSUME NEW row \in BatchRow, NEW st, NEW ac, RowInv(row, st, ac),
         row.status = "failed"
  PROVE  RowInv(IF row.checkpoint_row = 0 THEN ResetResults(Requeued(row))
                ELSE Requeued(row), st, ac)
<1> DEFINE next == Requeued(row)
<1>1. next \in BatchRow BY RequeuedType
<1>2. /\ next.status = "pending" /\ ~next.cancellation_requested
      /\ SameResults(row, next)
  BY DEF Requeued, BatchRow, SameResults
<1> HIDE DEF next
<1>3. CASE row.checkpoint_row = 0
  BY <1>1, <1>2, <1>3, RestartedRowInv DEF next, SameResults
<1>4. CASE row.checkpoint_row # 0
  <2>1. row.checkpoint_row > 0 BY <1>4 DEF BatchRow
  <2>2. CountersOf(row, row.checkpoint_row) BY <2>1 DEF RowInv, CountersMatch
  <2>3. RowInv(next, st, ac)
    BY <1>2, <2>2, RowInvKept DEF Succeeded, MayRunAgain, AwaitsConfirmation
  <2>4. QED BY <1>4, <2>3 DEF next
<1>5. QED BY <1>3, <1>4

LEMMA ConfirmedRowInv ==
  ASSUME NEW row \in BatchRow, NEW st, NEW ac, RowInv(row, st, ac),
         AwaitsConfirmation(row)
  PROVE  RowInv(ResetResults(Confirmed(row)), st, ac)
<1>1. row.status = "failed" /\ row.checkpoint_row = 0 /\ ~row.cancellation_requested
  BY DEF RowInv, AwaitsConfirmation
<1>2. Confirmed(row) \in BatchRow BY ConfirmedType
<1>3. /\ Confirmed(row).status = "pending" /\ Confirmed(row).file = row.file
      /\ Confirmed(row).checkpoint_row = 0 /\ ~Confirmed(row).cancellation_requested
  BY <1>1 DEF Confirmed, BatchRow
<1>4. QED BY <1>1, <1>2, <1>3, RestartedRowInv

LEMMA CancelledAtOnceRowInv ==
  ASSUME NEW row \in BatchRow, NEW st, NEW ac, RowInv(row, st, ac),
         row.status \in CancelledAtOnce
  PROVE  RowInv([row EXCEPT !.status = "cancelled"], st, ac)
<1> DEFINE next == [row EXCEPT !.status = "cancelled"]
<1>1. next.status = "cancelled" /\ SameResults(row, next) BY DEF BatchRow, SameResults
<1> HIDE DEF next
<1>2. RowInv(next, st, ac)
  BY <1>1, RowInvKept DEF CancelledAtOnce, Succeeded, MayRunAgain, AwaitsConfirmation
<1>3. QED BY <1>2 DEF next

LEMMA CancelRequestedRowInv ==
  ASSUME NEW row \in BatchRow, NEW st, NEW ac, RowInv(row, st, ac),
         row.status = "processing"
  PROVE  RowInv([row EXCEPT !.cancellation_requested = TRUE], st, ac)
<1> DEFINE next == [row EXCEPT !.cancellation_requested = TRUE]
<1>1. next.status = "processing" /\ SameResults(row, next) BY DEF BatchRow, SameResults
<1>2. CountersOf(row, row.checkpoint_row) BY DEF RowInv, CountersMatch
<1> HIDE DEF next
<1>3. RowInv(next, st, ac)
  BY <1>1, <1>2, RowInvKept DEF Succeeded, MayRunAgain, AwaitsConfirmation
<1>4. QED BY <1>3 DEF next

LEMMA ClaimedRowInv ==
  ASSUME NEW row \in BatchRow, NEW st, NEW ac, RowInv(row, st, ac),
         row.status \in {"pending", "processing"}, NEW w \in Workers
  PROVE  RowInv(ClaimedRow(row, w), st, ac)
<1> DEFINE next == ClaimedRow(row, w)
<1>1. next.status = "processing" /\ SameResults(row, next)
  BY DEF BatchRow, SameResults, ClaimedRow
<1>2. CountersOf(row, row.checkpoint_row) BY DEF RowInv, CountersMatch
<1> HIDE DEF next
<1>3. RowInv(next, st, ac)
  BY <1>1, <1>2, RowInvKept DEF Succeeded, MayRunAgain, AwaitsConfirmation
<1>4. QED BY <1>3 DEF next

LEMMA ExpiredRowInv ==
  ASSUME NEW row \in BatchRow, NEW st, NEW ac, RowInv(row, st, ac),
         row.status = "processing"
  PROVE  RowInv([row EXCEPT !.lease_expired = TRUE], st, ac)
<1> DEFINE next == [row EXCEPT !.lease_expired = TRUE]
<1>1. next.status = "processing" /\ SameResults(row, next) BY DEF BatchRow, SameResults
<1>2. CountersOf(row, row.checkpoint_row) BY DEF RowInv, CountersMatch
<1> HIDE DEF next
<1>3. RowInv(next, st, ac)
  BY <1>1, <1>2, RowInvKept DEF Succeeded, MayRunAgain, AwaitsConfirmation
<1>4. QED BY <1>3 DEF next

LEMMA WorkerFailedRowInv ==
  ASSUME NEW row \in BatchRow, NEW st, NEW ac, RowInv(row, st, ac),
         row.status = "processing"
  PROVE  RowInv(WorkerFailedRow(row), st, ac)
<1> DEFINE next == WorkerFailedRow(row)
<1>1. next.status = "failed" /\ next.error_code = "worker_error" /\ SameResults(row, next)
  BY DEF BatchRow, SameResults, WorkerFailedRow
<1>2. CountersOf(row, row.checkpoint_row) BY DEF RowInv, CountersMatch
<1> HIDE DEF next
<1>3. RowInv(next, st, ac)
  BY <1>1, <1>2, RowInvKept DEF Succeeded, MayRunAgain, AwaitsConfirmation
<1>4. QED BY <1>3 DEF next

(* The rows are discarded: the batch is rejected, over the limit or        *)
(* cancelled by its worker.                                                *)
LEMMA DiscardedRowInv ==
  ASSUME NEW row \in BatchRow, NEW st, NEW ac, RowInv(row, st, ac),
         NEW next \in BatchRow, next.file = row.file, next.checkpoint_row = 0,
         next.status \in {"failed", "cancelled"},
         AwaitsConfirmation(next) => ~next.cancellation_requested
  PROVE  RowInv(next, NoRows, NoRows)
<1>1. Len(next.file) <= MaxFileRows BY DEF RowInv
<1>2. QED BY <1>1, EmptyRowInv

LEMMA CancelledRowInv ==
  ASSUME NEW row \in BatchRow, NEW st, NEW ac, RowInv(row, st, ac)
  PROVE  RowInv(CancelledRow(row), NoRows, NoRows)
<1>1. CancelledRow(row) \in BatchRow BY CancelledRowType
<1>2. /\ CancelledRow(row).file = row.file /\ CancelledRow(row).checkpoint_row = 0
      /\ CancelledRow(row).status = "cancelled"
  BY DEF CancelledRow, BatchRow
<1>3. ~AwaitsConfirmation(CancelledRow(row)) BY <1>2 DEF AwaitsConfirmation
<1>4. QED BY <1>1, <1>2, <1>3, DiscardedRowInv

LEMMA FailedRowInv ==
  ASSUME NEW row \in BatchRow, NEW st, NEW ac, RowInv(row, st, ac)
  PROVE  RowInv(FailedRow(row, "row_limit_exceeded"), NoRows, NoRows)
<1> DEFINE next == FailedRow(row, "row_limit_exceeded")
<1>1. next \in BatchRow BY FailedRowType DEF ErrorCodes
<1>2. /\ next.file = row.file /\ next.checkpoint_row = 0
      /\ next.status = "failed" /\ next.error_code = "row_limit_exceeded"
  BY DEF FailedRow, BatchRow
<1> HIDE DEF next
<1>3. ~AwaitsConfirmation(next) BY <1>2 DEF AwaitsConfirmation
<1>4. RowInv(next, NoRows, NoRows) BY <1>1, <1>2, <1>3, DiscardedRowInv
<1>5. QED BY <1>4 DEF next

LEMMA RejectedRowInv ==
  ASSUME NEW row \in BatchRow, NEW st, NEW ac, RowInv(row, st, ac),
         ~row.cancellation_requested, NEW total \in Nat, NEW code \in ErrorCodes
  PROVE  RowInv(RejectedRow(row, total, code), NoRows, NoRows)
<1> DEFINE next == RejectedRow(row, total, code)
<1>1. next \in BatchRow BY RejectedRowType
<1>2. /\ next.file = row.file /\ next.checkpoint_row = 0 /\ next.status = "failed"
      /\ ~next.cancellation_requested
  BY DEF RejectedRow, FailedRow, BatchRow
<1> HIDE DEF next
<1>3. RowInv(next, NoRows, NoRows) BY <1>1, <1>2, DiscardedRowInv
<1>4. QED BY <1>3 DEF next

LEMMA PublishedRowInv ==
  ASSUME NEW row \in BatchRow, NEW st, NEW ac, RowInv(row, st, ac),
         row.status = "processing", NEW total \in Nat, NEW unseen
  PROVE  RowInv(PublishedRow(row, total, unseen), NoRows, st)
<1> DEFINE next == PublishedRow(row, total, unseen)
<1>1. /\ next.status \in Succeeded /\ SameResults(row, next)
  BY DEF PublishedRow, BatchRow, SameResults, Succeeded
<1>2. /\ next.file = row.file /\ next.checkpoint_row = row.checkpoint_row
  BY <1>1 DEF SameResults
<1> HIDE DEF next
<1>3. /\ next.status \notin MayRunAgain /\ next.status # "absent"
      /\ ~AwaitsConfirmation(next) /\ CountersMatch(next)
  BY <1>1 DEF Succeeded, MayRunAgain, AwaitsConfirmation, CountersMatch
<1>4. st = RowsBehindCheckpoint(row) BY DEF RowInv, MayRunAgain
<1>5. \A i \in RowNumbers : NoRows[i] + st[i] <= 1
  BY <1>4 DEF NoRows, RowsBehindCheckpoint
<1>6. Len(next.file) <= MaxFileRows /\ next.checkpoint_row <= Len(next.file)
  BY <1>2 DEF RowInv
<1>7. next.status # "pending" BY <1>1 DEF Succeeded
<1>8. RowInv(next, NoRows, st) BY <1>1, <1>3, <1>5, <1>6, <1>7 DEF RowInv
<1>9. QED BY <1>8 DEF next

(* A chunk is committed: the checkpoint moves to its last row, its         *)
(* accepted rows are staged and its counts are added.                      *)
LEMMA SamplesSplit ==
  ASSUME NEW before \in Nat, NEW chunk \in Nat,
         NEW samples, samples = AtMost(before, SampleLimit)
  PROVE  samples + AtMost(chunk, IF samples < SampleLimit
                                   THEN SampleLimit - samples ELSE 0)
           = AtMost(before + chunk, SampleLimit)
BY SettingsAssumption DEF AtMost

LEMMA CountersAdd ==
  ASSUME NEW f, NEW c, NEW cp \in Nat, NEW hi \in Nat, cp <= hi, NEW samples,
         samples = AtMost(Issues(f, 1, cp), SampleLimit)
  PROVE  /\ cp + (hi - (cp + 1) + 1) = hi
         /\ ErrorRows(f, 1, cp) + ErrorRows(f, cp + 1, hi) = ErrorRows(f, 1, hi)
         /\ WarningRows(f, 1, cp) + WarningRows(f, cp + 1, hi) = WarningRows(f, 1, hi)
         /\ AcceptedRows(f, 1, cp, c) + AcceptedRows(f, cp + 1, hi, c)
              = AcceptedRows(f, 1, hi, c)
         /\ samples + AtMost(Issues(f, cp + 1, hi),
                             IF samples < SampleLimit THEN SampleLimit - samples ELSE 0)
              = AtMost(Issues(f, 1, hi), SampleLimit)
<1> DEFINE before == Issues(f, 1, cp)
           chunk == Issues(f, cp + 1, hi)
<1>1. /\ ErrorRows(f, 1, cp) + ErrorRows(f, cp + 1, hi) = ErrorRows(f, 1, hi)
      /\ WarningRows(f, 1, cp) + WarningRows(f, cp + 1, hi) = WarningRows(f, 1, hi)
      /\ AcceptedRows(f, 1, cp, c) + AcceptedRows(f, cp + 1, hi, c)
           = AcceptedRows(f, 1, hi, c)
      /\ before + chunk = Issues(f, 1, hi)
  <2>1. ErrorRows(f, 1, cp) + ErrorRows(f, cp + 1, hi) = ErrorRows(f, 1, hi)
    BY CountsSplit
  <2>2. WarningRows(f, 1, cp) + WarningRows(f, cp + 1, hi) = WarningRows(f, 1, hi)
    BY CountsSplit
  <2>3. AcceptedRows(f, 1, cp, c) + AcceptedRows(f, cp + 1, hi, c)
          = AcceptedRows(f, 1, hi, c)
    BY CountsSplit
  <2>4. before + chunk = Issues(f, 1, hi) BY CountsSplit
  <2>5. QED BY <2>1, <2>2, <2>3, <2>4
<1>2. 1 \in Int /\ cp \in Int /\ cp + 1 \in Int /\ hi \in Int OBVIOUS
<1>3. before \in Nat /\ chunk \in Nat BY <1>2, IssuesType, Zenon
<1>4. samples = AtMost(before, SampleLimit) OBVIOUS
<1> HIDE DEF before, chunk
<1>5. samples + AtMost(chunk, IF samples < SampleLimit THEN SampleLimit - samples ELSE 0)
        = AtMost(before + chunk, SampleLimit)
  BY <1>3, <1>4, SamplesSplit
<1>6. cp + (hi - (cp + 1) + 1) = hi OBVIOUS
<1>7. QED BY <1>1, <1>5, <1>6 DEF before, chunk

LEMMA CommittedCounters ==
  ASSUME NEW row \in BatchRow, NEW cp \in Nat, NEW hi \in Nat, NEW samples, NEW sampled,
         cp <= hi, row.checkpoint_row = cp, row.samples = samples, CountersOf(row, cp),
         sampled = AtMost(Issues(row.file, cp + 1, hi),
                          IF samples < SampleLimit THEN SampleLimit - samples ELSE 0)
  PROVE  LET next == CommittedRow(row, cp + 1, hi, row.warnings_confirmed, sampled)
         IN  next.checkpoint_row = hi /\ CountersOf(next, hi)
<1> DEFINE f == row.file
           confirmed == row.warnings_confirmed
           next == CommittedRow(row, cp + 1, hi, confirmed, sampled)
<1>1. /\ row.processed_rows = cp
      /\ row.error_rows = ErrorRows(f, 1, cp)
      /\ row.warning_rows = WarningRows(f, 1, cp)
      /\ row.valid_rows = AcceptedRows(f, 1, cp, confirmed)
      /\ samples = AtMost(Issues(f, 1, cp), SampleLimit)
  BY DEF CountersOf
<1>2. /\ next.file = f /\ next.warnings_confirmed = confirmed
      /\ next.processed_rows = row.processed_rows + (hi - (cp + 1) + 1)
      /\ next.checkpoint_row = row.processed_rows + (hi - (cp + 1) + 1)
      /\ next.error_rows = row.error_rows + ErrorRows(f, cp + 1, hi)
      /\ next.warning_rows = row.warning_rows + WarningRows(f, cp + 1, hi)
      /\ next.valid_rows = row.valid_rows + AcceptedRows(f, cp + 1, hi, confirmed)
      /\ next.samples = samples + sampled
  BY DEF CommittedRow, BatchRow
<1>3. sampled = AtMost(Issues(f, cp + 1, hi),
                       IF samples < SampleLimit THEN SampleLimit - samples ELSE 0)
  OBVIOUS
<1> HIDE DEF f, confirmed, next
<1>4. /\ cp + (hi - (cp + 1) + 1) = hi
      /\ ErrorRows(f, 1, cp) + ErrorRows(f, cp + 1, hi) = ErrorRows(f, 1, hi)
      /\ WarningRows(f, 1, cp) + WarningRows(f, cp + 1, hi) = WarningRows(f, 1, hi)
      /\ AcceptedRows(f, 1, cp, confirmed) + AcceptedRows(f, cp + 1, hi, confirmed)
           = AcceptedRows(f, 1, hi, confirmed)
      /\ samples + AtMost(Issues(f, cp + 1, hi),
                          IF samples < SampleLimit THEN SampleLimit - samples ELSE 0)
           = AtMost(Issues(f, 1, hi), SampleLimit)
  BY <1>1, CountersAdd
<1>5. /\ next.processed_rows = hi /\ next.checkpoint_row = hi
      /\ next.error_rows = ErrorRows(f, 1, hi)
      /\ next.warning_rows = WarningRows(f, 1, hi)
      /\ next.valid_rows = AcceptedRows(f, 1, hi, confirmed)
  BY <1>1, <1>2, <1>4
<1>6. next.samples = AtMost(Issues(f, 1, hi), SampleLimit)
  BY <1>2, <1>3, <1>4
<1>7. CountersOf(next, hi)
  <2>1. next.error_rows = ErrorRows(next.file, 1, hi) BY <1>2, <1>5
  <2>2. next.warning_rows = WarningRows(next.file, 1, hi) BY <1>2, <1>5
  <2>3. next.valid_rows = AcceptedRows(next.file, 1, hi, next.warnings_confirmed)
    BY <1>2, <1>5
  <2>4. next.samples = AtMost(Issues(next.file, 1, hi), SampleLimit) BY <1>2, <1>6
  <2>5. QED BY <1>5, <2>1, <2>2, <2>3, <2>4 DEF CountersOf
<1>8. QED BY <1>5, <1>7 DEF next, confirmed

StagedAfter(st, f, lo, hi, confirmed) ==
  [i \in RowNumbers |->
     IF i \in lo .. hi /\ Accepted(f, i, confirmed) THEN st[i] + 1 ELSE st[i]]

LEMMA CommittedRowInv ==
  ASSUME NEW row \in BatchRow, NEW st \in [RowNumbers -> Nat], NEW ac,
         RowInv(row, st, ac), row.status = "processing",
         NEW cp \in Nat, row.checkpoint_row = cp, NEW samples, row.samples = samples,
         NEW confirmed, row.warnings_confirmed = confirmed,
         NEW hi \in Nat, cp < hi, hi <= Len(row.file), NEW sampled,
         sampled = AtMost(Issues(row.file, cp + 1, hi),
                          IF samples < SampleLimit THEN SampleLimit - samples ELSE 0)
  PROVE  RowInv(CommittedRow(row, cp + 1, hi, confirmed, sampled),
                StagedAfter(st, row.file, cp + 1, hi, confirmed), ac)
<1> DEFINE next == CommittedRow(row, cp + 1, hi, confirmed, sampled)
           after == StagedAfter(st, row.file, cp + 1, hi, confirmed)
<1>1. CountersOf(row, cp) BY DEF RowInv, CountersMatch
<1>2. next.checkpoint_row = hi /\ CountersOf(next, hi)
  BY <1>1, CommittedCounters
<1>3. /\ next.file = row.file /\ next.status = "processing"
      /\ next.warnings_confirmed = confirmed
  BY DEF CommittedRow, BatchRow
<1> HIDE DEF next
<1>4. st = RowsBehindCheckpoint(row) BY DEF RowInv, MayRunAgain
<1>5. after = RowsBehindCheckpoint(next)
  <2>1. ASSUME NEW i \in RowNumbers
        PROVE  after[i] = RowsBehindCheckpoint(next)[i]
    <3>1. st[i] = IF i <= cp /\ Accepted(row.file, i, confirmed) THEN 1 ELSE 0
      BY <1>4 DEF RowsBehindCheckpoint
    <3>2. RowsBehindCheckpoint(next)[i]
            = IF i <= hi /\ Accepted(row.file, i, confirmed) THEN 1 ELSE 0
      BY <1>2, <1>3 DEF RowsBehindCheckpoint
    <3>3. i \in Nat /\ i >= 1 BY DEF RowNumbers
    <3> DEFINE acc == Accepted(row.file, i, confirmed)
    <3>4. after[i] = IF i \in (cp + 1) .. hi /\ acc THEN st[i] + 1 ELSE st[i]
      BY DEF StagedAfter
    <3>5. st[i] = IF i <= cp /\ acc THEN 1 ELSE 0 BY <3>1
    <3>6. RowsBehindCheckpoint(next)[i] = IF i <= hi /\ acc THEN 1 ELSE 0 BY <3>2
    <3> HIDE DEF acc, after
    <3>7. QED BY <3>3, <3>4, <3>5, <3>6
  <2>2. QED BY <2>1 DEF RowsBehindCheckpoint, StagedAfter
<1>6. CountersMatch(next) BY <1>2 DEF CountersMatch
<1>7. ac = NoRows BY DEF RowInv, Succeeded
<1>8. \A i \in RowNumbers : after[i] + ac[i] <= 1
  BY <1>5, <1>7 DEF RowsBehindCheckpoint, NoRows
<1>9. Len(next.file) <= MaxFileRows /\ next.checkpoint_row <= Len(next.file)
  BY <1>2, <1>3 DEF RowInv
<1>10. /\ ~AwaitsConfirmation(next) /\ next.status \notin Succeeded
       /\ next.status # "absent" /\ next.status # "pending"
  BY <1>3 DEF AwaitsConfirmation, Succeeded
<1> HIDE DEF after
<1>11. RowInv(next, after, ac)
  BY <1>5, <1>6, <1>7, <1>8, <1>9, <1>10 DEF RowInv
<1>12. QED BY <1>11 DEF next, after

-----------------------------------------------------------------------------
(* A step changes the row of one batch; the workers that do not take part  *)
(* keep a current view of theirs.                                          *)

KeepsView(v, row, next) ==
  /\ next.status # "absent"
  /\ next.file = row.file
  /\ worker[v].pc = "publishing" /\ MayPublish(v, row) => MayPublish(v, next)
  /\ next.status = "processing" /\ next.lease_owner = v =>
       /\ row.status = "processing" /\ row.lease_owner = v
       /\ next.checkpoint_row = row.checkpoint_row
       /\ next.samples = row.samples
       /\ next.warnings_confirmed = row.warnings_confirmed

LEMMA ViewKept ==
  ASSUME NEW v, NEW state, NEW row, NEW next, state.pc = worker[v].pc,
         ViewInv(v, state, row), KeepsView(v, row, next)
  PROVE  ViewInv(v, state, next)
<1>1. next.file = row.file /\ next.status # "absent" BY DEF KeepsView
<1>2. ASSUME state.pc \in Midway
      PROVE  /\ state.position <= Len(next.file)
             /\ next.status = "processing" /\ next.lease_owner = v
                  => ViewIsCurrent(state, next)
  BY <1>1, <1>2 DEF ViewInv, KeepsView, ViewIsCurrent
<1>3. state.pc \in {"finalize", "publishing"} =>
        Len(next.file) <= MaxRows /\ state.position = Len(next.file)
  BY <1>1 DEF ViewInv
<1>4. state.pc = "publishing" => MayPublish(v, next)
  BY DEF ViewInv, KeepsView
<1>5. QED BY <1>1, <1>2, <1>3, <1>4 DEF ViewInv

LEMMA FileLength ==
  ASSUME TypeOK, NEW b \in Batches
  PROVE  Len(batch[b].file) \in Nat
BY RowType, LenProperties DEF BatchRow

LEMMA RowsStep ==
  ASSUME IInv, NEW b \in Batches, NEW next, batch' = [batch EXCEPT ![b] = next],
         \A c \in Batches \ {b} : staged'[c] = staged[c] /\ active'[c] = active[c],
         RowInv(next, staged'[b], active'[b])
  PROVE  \A c \in Batches : RowInv(batch'[c], staged'[c], active'[c])
<1>1. batch \in [Batches -> BatchRow] BY DEF IInv, TypeOK
<1>2. ASSUME NEW c \in Batches, c # b
      PROVE  RowInv(batch'[c], staged'[c], active'[c])
  <2>1. RowInv(batch[c], staged[c], active[c]) BY DEF IInv
  <2>2. batch'[c] = batch[c] BY <1>1, <1>2
  <2>3. QED BY <1>2, <2>1, <2>2
<1>3. batch'[b] = next BY <1>1
<1>4. QED BY <1>2, <1>3

LEMMA ViewsStep ==
  ASSUME IInv, NEW b \in Batches, NEW next, batch' = [batch EXCEPT ![b] = next],
         NEW v \in Workers, worker'[v] = worker[v], worker[v].pc # "idle",
         Job(v) = b => KeepsView(v, batch[b], next)
  PROVE  ViewInv(v, worker'[v], batch'[worker'[v].job])
<1>1. TypeOK /\ batch \in [Batches -> BatchRow] /\ Job(v) \in Batches
  BY DEF IInv, TypeOK
<1>2. ViewInv(v, worker[v], batch[Job(v)]) BY DEF IInv
<1>3. CASE Job(v) = b
  <2>1. batch'[b] = next BY <1>1
  <2>2. ViewInv(v, worker[v], next) BY <1>2, <1>3, ViewKept
  <2>3. QED BY <1>3, <2>1, <2>2 DEF Job
<1>4. CASE Job(v) # b
  <2>1. batch'[Job(v)] = batch[Job(v)] BY <1>1, <1>4
  <2>2. QED BY <1>2, <2>1 DEF Job
<1>5. QED BY <1>3, <1>4

(* A step that no worker takes, and one that leaves worker w idle.         *)
LEMMA IInvFromApi ==
  ASSUME IInv, TypeOK', NEW b \in Batches, NEW next,
         batch' = [batch EXCEPT ![b] = next],
         UNCHANGED <<staged, active, worker>>,
         RowInv(next, staged[b], active[b]),
         batch[b].status # "absent" =>
           \A v \in Workers : Job(v) = b => KeepsView(v, batch[b], next)
  PROVE  IInv'
<1>1. \A c \in Batches : RowInv(batch'[c], staged'[c], active'[c])
  BY RowsStep
<1>2. ASSUME NEW v \in Workers, worker'[v].pc # "idle"
      PROVE  ViewInv(v, worker'[v], batch'[worker'[v].job])
  <2>1. worker[v].pc # "idle" /\ worker'[v] = worker[v] BY <1>2
  <2>2. batch[Job(v)].status # "absent" BY <2>1 DEF IInv, ViewInv
  <2>3. QED BY <2>1, <2>2, ViewsStep
<1>3. QED BY <1>1, <1>2 DEF IInv, Job

LEMMA IInvFromEnd ==
  ASSUME IInv, TypeOK', NEW w \in Workers, NEW b \in Batches, NEW next,
         batch' = [batch EXCEPT ![b] = next],
         worker' = [worker EXCEPT ![w] = Idle],
         \A c \in Batches : RowInv(batch'[c], staged'[c], active'[c]),
         \A v \in Workers \ {w} : KeepsView(v, batch[b], next)
  PROVE  IInv'
<1>1. worker \in [Workers -> WorkerState] BY DEF IInv, TypeOK
<1>2. worker'[w].pc = "idle" BY <1>1 DEF Idle
<1>3. ASSUME NEW v \in Workers, worker'[v].pc # "idle"
      PROVE  ViewInv(v, worker'[v], batch'[worker'[v].job])
  <2>1. v # w BY <1>2, <1>3
  <2>2. worker[v].pc # "idle" /\ worker'[v] = worker[v] BY <1>1, <1>3, <2>1
  <2>3. QED BY <2>1, <2>2, ViewsStep
<1>4. QED BY <1>3 DEF IInv, Job

-----------------------------------------------------------------------------
(* One lemma per operation.                                                *)

LEMMA IInvType == IInv => TypeOK
BY DEF IInv

LEMMA RowOf ==
  ASSUME IInv, NEW b \in Batches
  PROVE  /\ batch[b] \in BatchRow
         /\ RowInv(batch[b], staged[b], active[b])
         /\ staged[b] \in [RowNumbers -> Nat]
         /\ Len(batch[b].file) \in Nat
<1>1. TypeOK BY DEF IInv
<1>2. batch[b] \in BatchRow /\ Len(batch[b].file) \in Nat BY <1>1, RowType, FileLength
<1>3. QED BY <1>1, <1>2 DEF IInv, TypeOK

LEMMA CreateInv ==
  ASSUME IInv, NEW b \in Batches, NEW f \in Files, NEW mode \in Modes,
         NEW confirmed \in BOOLEAN, CreateImportBatch(b, f, mode, confirmed)
  PROVE  IInv'
<1> DEFINE next == SubmittedRow(batch[b], f, mode, confirmed)
<1>1. TypeOK' BY IInvType, CreateType
<1>2. batch[b] = AbsentRow /\ staged[b] = NoRows /\ active[b] = NoRows
  BY RowOf DEF CreateImportBatch, RowInv, Succeeded
<1>3. RowInv(next, staged[b], active[b]) BY <1>2, SubmittedRowInv
<1>4. /\ batch[b].status = "absent"
      /\ batch' = [batch EXCEPT ![b] = next]
      /\ UNCHANGED <<staged, active, worker>>
  BY DEF CreateImportBatch
<1> HIDE DEF next
<1>5. QED BY <1>1, <1>3, <1>4, IInvFromApi

LEMMA CancelInv ==
  ASSUME IInv, NEW b \in Batches, CancelImportBatch(b)
  PROVE  IInv'
<1>1. TypeOK' BY IInvType, CancelType
<1>2. UNCHANGED <<staged, active, worker>> BY DEF CancelImportBatch
<1>3. CASE /\ batch[b].status \in CancelledAtOnce
           /\ batch' = [batch EXCEPT ![b].status = "cancelled"]
  <2> DEFINE next == [batch[b] EXCEPT !.status = "cancelled"]
  <2>1. RowInv(next, staged[b], active[b]) BY <1>3, RowOf, CancelledAtOnceRowInv
  <2>2. \A v \in Workers : KeepsView(v, batch[b], next)
    BY <1>3, RowOf DEF KeepsView, BatchRow, CancelledAtOnce, MayPublish
  <2>3. batch' = [batch EXCEPT ![b] = next] BY <1>3
  <2> HIDE DEF next
  <2>4. QED BY <1>1, <1>2, <2>1, <2>2, <2>3, IInvFromApi
<1>4. CASE /\ batch[b].status = "processing"
           /\ batch' = [batch EXCEPT ![b].cancellation_requested = TRUE]
  <2> DEFINE next == [batch[b] EXCEPT !.cancellation_requested = TRUE]
  <2>1. RowInv(next, staged[b], active[b]) BY <1>4, RowOf, CancelRequestedRowInv
  <2>2. \A v \in Workers : Job(v) = b => KeepsView(v, batch[b], next)
    <3>1. ~Locked(b) BY DEF CancelImportBatch
    <3>2. QED BY <1>4, <3>1, RowOf DEF KeepsView, BatchRow, Locked
  <2>3. batch' = [batch EXCEPT ![b] = next] BY <1>4
  <2> HIDE DEF next
  <2>4. QED BY <1>1, <1>2, <2>1, <2>2, <2>3, IInvFromApi
<1>5. QED BY <1>3, <1>4 DEF CancelImportBatch

LEMMA RetryInv ==
  ASSUME IInv, NEW b \in Batches, RetryImportBatch(b)
  PROVE  IInv'
<1> DEFINE next == IF batch[b].checkpoint_row = 0 THEN ResetResults(Requeued(batch[b]))
                   ELSE Requeued(batch[b])
<1>1. TypeOK' BY IInvType, RetryType
<1>2. /\ batch[b].status = "failed" /\ batch' = [batch EXCEPT ![b] = next]
      /\ UNCHANGED <<staged, active, worker>>
  BY RowOf DEF RetryImportBatch
<1>3. RowInv(next, staged[b], active[b]) BY <1>2, RowOf, RequeuedRowInv
<1>4. \A v \in Workers : KeepsView(v, batch[b], next)
  BY <1>2, RowOf DEF KeepsView, BatchRow, Requeued, ResetResults, MayPublish
<1> HIDE DEF next
<1>5. QED BY <1>1, <1>2, <1>3, <1>4, IInvFromApi

LEMMA ConfirmInv ==
  ASSUME IInv, NEW b \in Batches, ConfirmImportBatchWarnings(b)
  PROVE  IInv'
<1> DEFINE next == ResetResults(Confirmed(batch[b]))
<1>1. TypeOK' BY IInvType, ConfirmType
<1>2. /\ AwaitsConfirmation(batch[b]) /\ batch' = [batch EXCEPT ![b] = next]
      /\ UNCHANGED <<staged, active, worker>>
  BY DEF ConfirmImportBatchWarnings, AwaitsConfirmation
<1>3. RowInv(next, staged[b], active[b]) BY <1>2, RowOf, ConfirmedRowInv
<1>4. \A v \in Workers : KeepsView(v, batch[b], next)
  BY <1>2, RowOf DEF KeepsView, BatchRow, Confirmed, ResetResults, MayPublish,
                     AwaitsConfirmation
<1> HIDE DEF next
<1>5. QED BY <1>1, <1>2, <1>3, <1>4, IInvFromApi

LEMMA ExpiresInv ==
  ASSUME IInv, NEW b \in Batches, LeaseExpires(b)
  PROVE  IInv'
<1> DEFINE next == [batch[b] EXCEPT !.lease_expired = TRUE]
<1>1. TypeOK' BY IInvType, LeaseExpiresType
<1>2. /\ batch[b].status = "processing" /\ batch' = [batch EXCEPT ![b] = next]
      /\ UNCHANGED <<staged, active, worker>>
  BY DEF LeaseExpires
<1>3. RowInv(next, staged[b], active[b]) BY <1>2, RowOf, ExpiredRowInv
<1>4. \A v \in Workers : KeepsView(v, batch[b], next)
  <2>1. /\ next.status = batch[b].status /\ next.file = batch[b].file
        /\ next.lease_owner = batch[b].lease_owner
        /\ next.cancellation_requested = batch[b].cancellation_requested
        /\ next.error_rows = batch[b].error_rows
        /\ next.warning_rows = batch[b].warning_rows
        /\ next.warnings_confirmed = batch[b].warnings_confirmed
        /\ next.checkpoint_row = batch[b].checkpoint_row
        /\ next.samples = batch[b].samples
    BY RowOf DEF BatchRow
  <2> HIDE DEF next
  <2>2. Verdict(next, Len(next.file)) = Verdict(batch[b], Len(batch[b].file))
    BY <2>1 DEF Verdict
  <2>3. \A v \in Workers : MayPublish(v, batch[b]) => MayPublish(v, next)
    BY <2>1, <2>2 DEF MayPublish
  <2>4. QED BY <1>2, <2>1, <2>3 DEF KeepsView
<1> HIDE DEF next
<1>5. QED BY <1>1, <1>2, <1>3, <1>4, IInvFromApi

(* The claimer takes the batch from whoever held it.                       *)
LEMMA ClaimInv ==
  ASSUME IInv, NEW w \in Workers, NEW b \in Batches, ClaimNextImportBatch(w, b)
  PROVE  IInv'
<1> DEFINE next == ClaimedRow(batch[b], w)
<1>1. TypeOK' BY IInvType, ClaimType
<1>2. /\ worker[w].pc = "idle" /\ batch' = [batch EXCEPT ![b] = next]
      /\ worker' = [worker EXCEPT ![w] = [@ EXCEPT !.pc = "claimed", !.job = b]]
      /\ UNCHANGED <<staged, active>>
      /\ batch[b].status \in {"pending", "processing"} /\ ~Locked(b)
  BY DEF ClaimNextImportBatch, NextClaimable, Claimable
<1>3. RowInv(next, staged'[b], active'[b]) BY <1>2, RowOf, ClaimedRowInv
<1>4. ASSUME NEW v \in Workers \ {w}, Job(v) = b PROVE KeepsView(v, batch[b], next)
  BY <1>2, <1>4, RowOf DEF KeepsView, BatchRow, ClaimedRow, Locked
<1>5. next.status # "absent" BY RowOf DEF BatchRow, ClaimedRow
<1>6. worker[w] \in WorkerState /\ worker \in [Workers -> WorkerState]
  BY DEF IInv, TypeOK
<1>7. worker'[w].pc = "claimed" /\ worker'[w].job = b BY <1>2, <1>6 DEF WorkerState
<1> HIDE DEF next
<1>8. \A c \in Batches : RowInv(batch'[c], staged'[c], active'[c])
  BY <1>2, <1>3, RowsStep
<1>9. batch'[b] = next BY <1>2 DEF IInv, TypeOK
<1>10. ASSUME NEW v \in Workers, worker'[v].pc # "idle"
       PROVE  ViewInv(v, worker'[v], batch'[worker'[v].job])
  <2>1. CASE v = w BY <1>5, <1>7, <1>9, <2>1 DEF ViewInv, Midway
  <2>2. CASE v # w
    <3>1. worker'[v] = worker[v] BY <1>2, <1>6, <2>2
    <3>2. QED BY <1>2, <1>4, <1>10, <2>2, <3>1, ViewsStep
  <2>3. QED BY <2>1, <2>2
<1>11. QED BY <1>1, <1>8, <1>10 DEF IInv, Job

LEMMA IInvFromWorker ==
  ASSUME IInv, TypeOK', NEW w \in Workers, NEW state,
         UNCHANGED <<batch, staged, active>>,
         worker' = [worker EXCEPT ![w] = state],
         state.pc # "idle" => ViewInv(w, state, batch[state.job])
  PROVE  IInv'
<1>1. worker \in [Workers -> WorkerState] BY DEF IInv, TypeOK
<1>2. ASSUME NEW v \in Workers, worker'[v].pc # "idle"
      PROVE  ViewInv(v, worker'[v], batch[worker'[v].job])
  <2>1. CASE v = w BY <1>1, <1>2, <2>1
  <2>2. CASE v # w
    <3>1. worker'[v] = worker[v] BY <1>1, <2>2
    <3>2. QED BY <1>2, <3>1 DEF IInv, Job
  <2>3. QED BY <2>1, <2>2
<1>3. \A b \in Batches : RowInv(batch[b], staged[b], active[b]) BY DEF IInv
<1>4. QED BY <1>2, <1>3 DEF IInv, Job

LEMMA WorkerOf ==
  ASSUME IInv, NEW w \in Workers, worker[w].pc # "idle"
  PROVE  /\ worker[w] \in WorkerState /\ Job(w) \in Batches
         /\ worker \in [Workers -> WorkerState]
         /\ ViewInv(w, worker[w], batch[Job(w)])
<1>1. TypeOK BY DEF IInv
<1>2. QED BY <1>1, BusyWorkerType DEF IInv, TypeOK

LEMMA LoadInv ==
  ASSUME IInv, NEW w \in Workers, LoadBatchWork(w)
  PROVE  IInv'
<1> DEFINE row == batch[Job(w)]
           state == Loaded(worker[w], row)
<1>1. TypeOK' BY IInvType, LoadType
<1>2. /\ worker[w].pc = "claimed" /\ row.status = "processing"
      /\ UNCHANGED <<batch, staged, active>>
      /\ worker' = [worker EXCEPT ![w] = state]
  BY DEF LoadBatchWork, HoldsBatch
<1>3. worker[w] \in WorkerState /\ Job(w) \in Batches BY <1>2, WorkerOf
<1>4. row \in BatchRow /\ RowInv(row, staged[Job(w)], active[Job(w)])
  BY <1>3, RowOf
<1>5. /\ state.pc = "rows" /\ state.job = Job(w)
      /\ state.position = row.checkpoint_row
      /\ state.sample_count = row.samples
      /\ state.warnings_confirmed = row.warnings_confirmed
  BY <1>3 DEF Loaded, WorkerState, ResumePosition, Job
<1>6. row.checkpoint_row <= Len(row.file) BY <1>4 DEF RowInv
<1> HIDE DEF state
<1>7. ViewInv(w, state, row)
  BY <1>2, <1>5, <1>6 DEF ViewInv, Midway, ViewIsCurrent
<1>8. QED BY <1>1, <1>2, <1>5, <1>7, IInvFromWorker

LEMMA LoseLeaseInv ==
  ASSUME IInv, NEW w \in Workers, LoseLease(w)
  PROVE  IInv'
<1>1. TypeOK' BY IInvType, LoseLeaseType
<1>2. QED BY <1>1, IInvFromWorker DEF LoseLease, Idle

LEMMA RaisesInv ==
  ASSUME IInv, NEW w \in Workers, WorkerRaises(w)
  PROVE  IInv'
<1> DEFINE state == [worker[w] EXCEPT !.pc = "error", !.seen = {}]
<1>1. TypeOK' BY IInvType, RaisesType
<1>2. worker[w].pc # "idle" BY DEF WorkerRaises, Running
<1>3. worker[w] \in WorkerState /\ ViewInv(w, worker[w], batch[Job(w)])
  BY <1>2, WorkerOf
<1>4. state.pc = "error" /\ state.job = Job(w) BY <1>3 DEF WorkerState, Job
<1>5. worker' = [worker EXCEPT ![w] = state] /\ UNCHANGED <<batch, staged, active>>
  BY DEF WorkerRaises
<1> HIDE DEF state
<1>6. ViewInv(w, state, batch[Job(w)]) BY <1>3, <1>4 DEF ViewInv, Midway
<1>7. QED BY <1>1, <1>4, <1>5, <1>6, IInvFromWorker

LEMMA CrashesInv ==
  ASSUME IInv, NEW w \in Workers, WorkerCrashes(w)
  PROVE  IInv'
<1>1. TypeOK' BY IInvType, CrashesType
<1>2. QED BY <1>1, IInvFromWorker DEF WorkerCrashes, Idle

LEMMA MarkFailureInv ==
  ASSUME IInv, NEW w \in Workers, MarkWorkerFailure(w)
  PROVE  IInv'
<1> DEFINE b == Job(w)
           next == WorkerFailedRow(batch[b])
<1>1. TypeOK' BY IInvType, MarkFailureType
<1>2. worker' = [worker EXCEPT ![w] = Idle] /\ UNCHANGED <<staged, active>>
  BY DEF MarkWorkerFailure
<1>3. b \in Batches BY WorkerOf DEF MarkWorkerFailure
<1>4. CASE MayMarkFailure(w)
  <2>1. /\ batch' = [batch EXCEPT ![b] = next] /\ batch[b].status = "processing"
        /\ batch[b].lease_owner = w /\ worker[w].pc = "error"
    BY <1>4 DEF MarkWorkerFailure, MayMarkFailure, HoldsBatch
  <2>2. RowInv(next, staged'[b], active'[b])
    BY <1>2, <1>3, <2>1, RowOf, WorkerFailedRowInv
  <2>3. \A v \in Workers : KeepsView(v, batch[b], next)
    BY <1>3, <2>1, RowOf DEF KeepsView, BatchRow, WorkerFailedRow, MayPublish
  <2> HIDE DEF next, b
  <2>4. \A c \in Batches : RowInv(batch'[c], staged'[c], active'[c])
    BY <1>2, <1>3, <2>1, <2>2, RowsStep
  <2>5. QED BY <1>1, <1>2, <1>3, <2>1, <2>3, <2>4, IInvFromEnd
<1>5. CASE ~MayMarkFailure(w)
  <2>1. UNCHANGED batch BY <1>5 DEF MarkWorkerFailure
  <2>2. QED BY <1>1, <1>2, <2>1, IInvFromWorker DEF Idle
<1>6. QED BY <1>4, <1>5

(* The three ways a batch loses its rows.                                  *)
LEMMA DiscardInv ==
  ASSUME IInv, TypeOK', NEW w \in Workers, NEW b \in Batches, NEW next \in BatchRow,
         batch' = [batch EXCEPT ![b] = next], DiscardRows(b),
         worker' = [worker EXCEPT ![w] = Idle],
         RowInv(next, NoRows, NoRows),
         next.file = batch[b].file, batch[b].lease_owner = w,
         next.status \in {"failed", "cancelled"}
  PROVE  IInv'
<1>1. /\ staged \in [Batches -> [RowNumbers -> Nat]]
      /\ active \in [Batches -> [RowNumbers -> Nat]]
  BY DEF IInv, TypeOK
<1>2. /\ staged'[b] = NoRows /\ active'[b] = NoRows
      /\ \A c \in Batches \ {b} : staged'[c] = staged[c] /\ active'[c] = active[c]
  BY <1>1 DEF DiscardRows
<1>3. \A c \in Batches : RowInv(batch'[c], staged'[c], active'[c])
  BY <1>2, RowsStep
<1>4. \A v \in Workers \ {w} : KeepsView(v, batch[b], next)
  BY DEF KeepsView, MayPublish
<1>5. QED BY <1>3, <1>4, IInvFromEnd

LEMMA CancelProcessingInv ==
  ASSUME IInv, NEW w \in Workers, CancelProcessingBatch(w)
  PROVE  IInv'
<1> DEFINE b == Job(w)
           next == CancelledRow(batch[b])
<1>1. TypeOK' BY IInvType, CancelProcessingType
<1>2. /\ worker' = [worker EXCEPT ![w] = Idle] /\ DiscardRows(b)
      /\ batch' = [batch EXCEPT ![b] = next] /\ batch[b].lease_owner = w
  BY DEF CancelProcessingBatch, HoldsBatch
<1>3. b \in Batches BY WorkerOf DEF CancelProcessingBatch, HasChunk
<1>4. batch[b] \in BatchRow /\ RowInv(next, NoRows, NoRows)
  BY <1>3, RowOf, CancelledRowInv
<1>5. next \in BatchRow BY <1>4, CancelledRowType
<1>6. /\ next.file = batch[b].file /\ next.status = "cancelled"
  BY <1>4 DEF CancelledRow, BatchRow
<1> HIDE DEF next, b
<1>7. QED BY <1>1, <1>2, <1>3, <1>4, <1>5, <1>6, DiscardInv

LEMMA FailAndDiscardInv ==
  ASSUME IInv, NEW w \in Workers, FailAndDiscardBatch(w)
  PROVE  IInv'
<1> DEFINE b == Job(w)
           next == FailedRow(batch[b], "row_limit_exceeded")
<1>1. TypeOK' BY IInvType, FailAndDiscardType
<1>2. /\ worker' = [worker EXCEPT ![w] = Idle] /\ DiscardRows(b)
      /\ batch' = [batch EXCEPT ![b] = next] /\ batch[b].lease_owner = w
  BY DEF FailAndDiscardBatch, HoldsBatch
<1>3. b \in Batches BY WorkerOf DEF FailAndDiscardBatch
<1>4. batch[b] \in BatchRow /\ RowInv(next, NoRows, NoRows)
  BY <1>3, RowOf, FailedRowInv
<1>5. next \in BatchRow BY <1>4, FailedRowType DEF ErrorCodes
<1>6. /\ next.file = batch[b].file /\ next.status = "failed"
  BY <1>4 DEF FailedRow, BatchRow
<1> HIDE DEF next, b
<1>7. QED BY <1>1, <1>2, <1>3, <1>4, <1>5, <1>6, DiscardInv

LEMMA RejectInv ==
  ASSUME IInv, NEW w \in Workers, RejectBatch(w)
  PROVE  IInv'
<1> DEFINE b == Job(w)
           total == Len(File(w))
           code == Verdict(batch[b], total)
           next == RejectedRow(batch[b], total, code)
<1>1. TypeOK' BY IInvType, RejectType
<1>2. /\ worker' = [worker EXCEPT ![w] = Idle] /\ DiscardRows(b)
      /\ batch' = [batch EXCEPT ![b] = next]
      /\ ~batch[b].cancellation_requested /\ batch[b].lease_owner = w
  BY DEF RejectBatch, Finalizes, HoldsBatch
<1>3. b \in Batches BY WorkerOf DEF RejectBatch, Finalizes
<1>4. batch[b] \in BatchRow /\ RowInv(batch[b], staged[b], active[b]) /\ total \in Nat
  BY <1>3, RowOf DEF File
<1>5. code \in ErrorCodes BY VerdictType
<1>6. RowInv(next, NoRows, NoRows) BY <1>2, <1>4, <1>5, RejectedRowInv
<1>7. next \in BatchRow BY <1>4, <1>5, RejectedRowType
<1>8. /\ next.file = batch[b].file /\ next.status = "failed"
  BY <1>4 DEF RejectedRow, FailedRow, BatchRow
<1> HIDE DEF next, b
<1>9. QED BY <1>1, <1>2, <1>3, <1>6, <1>7, <1>8, DiscardInv

LEMMA CommitInv ==
  ASSUME IInv, NEW w \in Workers, CommitChunk(w)
  PROVE  IInv'
<1> DEFINE b == Job(w)
           row == batch[b]
           cp == row.checkpoint_row
           hi == ChunkEnd(w)
           sampled == SampledIssues(w)
           next == CommittedRow(row, cp + 1, hi, row.warnings_confirmed, sampled)
           state == PastChunk(worker[w], hi, sampled)
<1>1. TypeOK' BY IInvType, CommitType
<1>2. /\ HasChunk(w) /\ worker[w].pc = "rows"
      /\ row.status = "processing" /\ row.lease_owner = w
  BY DEF CommitChunk, HasChunk, HoldsBatch
<1>3. /\ worker[w] \in WorkerState /\ b \in Batches
      /\ worker \in [Workers -> WorkerState]
      /\ ViewInv(w, worker[w], row)
  BY <1>2, WorkerOf
<1>4. /\ worker[w].position = cp /\ worker[w].sample_count = row.samples
      /\ worker[w].warnings_confirmed = row.warnings_confirmed
  BY <1>2, <1>3 DEF ViewInv, Midway, ViewIsCurrent
<1>5. /\ row \in BatchRow /\ RowInv(row, staged[b], active[b])
      /\ staged[b] \in [RowNumbers -> Nat]
  BY <1>3, RowOf
<1>6. /\ cp \in Nat /\ hi \in Nat /\ cp < hi /\ hi <= Len(row.file)
  BY <1>2, <1>4, IInvType, ChunkBounds DEF File
<1>7. sampled = AtMost(Issues(row.file, cp + 1, hi),
                       IF row.samples < SampleLimit
                         THEN SampleLimit - row.samples ELSE 0)
  BY <1>4 DEF SampledIssues, File
<1>8. sampled \in Nat BY <1>2, IInvType, SampledIssuesType
<1>9. /\ batch' = [batch EXCEPT ![b] = next]
      /\ worker' = [worker EXCEPT ![w] = state]
      /\ StageRows(b, row.file, cp + 1, hi, row.warnings_confirmed)
      /\ UNCHANGED active
  BY <1>4 DEF CommitChunk, File
<1>10. staged'[b]
         = StagedAfter(staged[b], row.file, cp + 1, hi, row.warnings_confirmed)
  <2> HIDE DEF b, cp, hi
  <2>1. staged \in [Batches -> [RowNumbers -> Nat]] BY DEF IInv, TypeOK
  <2>2. QED BY <1>3, <1>9, <2>1 DEF StageRows, StagedAfter
<1>11. \A c \in Batches \ {b} : staged'[c] = staged[c] /\ active'[c] = active[c]
  <2> HIDE DEF b, cp, hi
  <2>1. staged \in [Batches -> [RowNumbers -> Nat]] BY DEF IInv, TypeOK
  <2>2. QED BY <1>9, <2>1 DEF StageRows
<1>12. RowInv(next, staged'[b], active[b])
  <2> DEFINE confirmed == row.warnings_confirmed
             samples == row.samples
             st == staged[b]
             ac == active[b]
  <2>1. /\ row.checkpoint_row = cp /\ row.samples = samples
        /\ row.warnings_confirmed = confirmed
        /\ sampled = AtMost(Issues(row.file, cp + 1, hi),
                            IF samples < SampleLimit THEN SampleLimit - samples ELSE 0)
        /\ RowInv(row, st, ac) /\ st \in [RowNumbers -> Nat]
    BY <1>5, <1>7
  <2> HIDE DEF row, cp, hi, sampled, confirmed, samples, st, ac
  <2>2. RowInv(CommittedRow(row, cp + 1, hi, confirmed, sampled),
               StagedAfter(st, row.file, cp + 1, hi, confirmed), ac)
    BY <1>2, <1>5, <1>6, <1>8, <2>1, CommittedRowInv
  <2>3. QED BY <1>10, <2>2 DEF confirmed, st, ac
<1>13. /\ next.status = "processing" /\ next.lease_owner = w /\ next.file = row.file
       /\ next.warnings_confirmed = row.warnings_confirmed
       /\ next.samples = row.samples + sampled
  BY <1>2, <1>5 DEF CommittedRow, BatchRow
<1>14. next.checkpoint_row = hi
  <2>1. row.processed_rows = cp
    BY <1>2, <1>5 DEF RowInv, CountersMatch, CountersOf
  <2>2. next.checkpoint_row = row.processed_rows + (hi - (cp + 1) + 1)
    BY <1>5 DEF CommittedRow, BatchRow
  <2> HIDE DEF cp, hi, next
  <2>3. QED BY <1>6, <2>1, <2>2
<1>15. /\ state.pc = "rows" /\ state.job = b /\ state.position = hi
       /\ state.sample_count = worker[w].sample_count + sampled
       /\ state.warnings_confirmed = worker[w].warnings_confirmed
  BY <1>2, <1>3 DEF PastChunk, WorkerState, Job
<1> HIDE DEF b, row, cp, hi, sampled, next, state
<1>16. \A c \in Batches : RowInv(batch'[c], staged'[c], active'[c])
  BY <1>3, <1>9, <1>11, <1>12, RowsStep
<1>17. ViewInv(w, state, next)
  BY <1>4, <1>6, <1>13, <1>14, <1>15 DEF ViewInv, Midway, ViewIsCurrent
<1>18. ASSUME NEW v \in Workers, v # w PROVE KeepsView(v, batch[b], next)
  BY <1>2, <1>13, <1>18 DEF KeepsView, row, MayPublish
<1>19. batch'[b] = next BY <1>3, <1>9 DEF IInv, TypeOK
<1>20. ASSUME NEW v \in Workers, worker'[v].pc # "idle"
       PROVE  ViewInv(v, worker'[v], batch'[worker'[v].job])
  <2>1. CASE v = w BY <1>3, <1>9, <1>15, <1>17, <1>19, <2>1
  <2>2. CASE v # w
    <3>1. worker'[v] = worker[v] BY <1>3, <1>9, <2>2
    <3>2. QED BY <1>3, <1>9, <1>18, <1>20, <2>2, <3>1, ViewsStep
  <2>3. QED BY <2>1, <2>2
<1>21. QED BY <1>1, <1>16, <1>20 DEF IInv, Job

LEMMA FinishRowsInv ==
  ASSUME IInv, NEW w \in Workers, FinishRows(w)
  PROVE  IInv'
<1> DEFINE row == batch[Job(w)]
           pc == IF Len(row.file) > MaxRows THEN "over_limit" ELSE "finalize"
           state == [worker[w] EXCEPT !.pc = pc]
<1>1. TypeOK' BY IInvType, FinishRowsType
<1>2. /\ worker[w].pc = "rows" /\ ~HasChunk(w)
      /\ worker' = [worker EXCEPT ![w] = state]
      /\ UNCHANGED <<batch, staged, active>>
  BY DEF FinishRows, File
<1>3. /\ worker[w] \in WorkerState /\ Job(w) \in Batches
      /\ ViewInv(w, worker[w], row)
  BY <1>2, WorkerOf
<1>4. Len(row.file) \in Nat BY <1>3, RowOf
<1>5. /\ row.status # "absent" /\ worker[w].position <= Len(row.file)
      /\ row.status = "processing" /\ row.lease_owner = w => ViewIsCurrent(worker[w], row)
  BY <1>2, <1>3 DEF ViewInv, Midway
<1>6. /\ state.pc = pc /\ state.job = Job(w) /\ state.position = worker[w].position
      /\ state.sample_count = worker[w].sample_count
      /\ state.warnings_confirmed = worker[w].warnings_confirmed
  <2> HIDE DEF pc
  <2>1. QED BY <1>3 DEF WorkerState, Job
<1> HIDE DEF state
<1>7. pc = "finalize" => Len(row.file) <= MaxRows /\ state.position = Len(row.file)
  <2>1. SUFFICES ASSUME Len(row.file) <= MaxRows PROVE worker[w].position = Len(row.file)
    BY <1>4, <1>6, SettingsAssumption
  <2>2. ~(worker[w].position < Len(row.file))
    BY <1>2, <2>1 DEF HasChunk, File
  <2>3. worker[w].position \in Nat BY <1>3 DEF WorkerState
  <2>4. QED BY <1>4, <1>5, <2>2, <2>3
<1>8. pc \in {"finalize", "over_limit"} OBVIOUS
<1> HIDE DEF pc
<1>9. ViewInv(w, state, row)
  BY <1>5, <1>6, <1>7, <1>8 DEF ViewInv, ViewIsCurrent
<1>10. QED BY <1>1, <1>2, <1>6, <1>9, IInvFromWorker

(* The worker that begins to publish has just tested all it will rely on.  *)
LEMMA BeginPublicationInv ==
  ASSUME IInv, NEW w \in Workers, BeginPublication(w)
  PROVE  IInv'
<1> DEFINE row == batch[Job(w)]
           state == [worker[w] EXCEPT !.pc = "publishing", !.seen = ActiveRows]
<1>1. TypeOK' BY IInvType, BeginPublicationType
<1>2. /\ worker[w].pc = "finalize" /\ MayPublish(w, row)
      /\ worker' = [worker EXCEPT ![w] = state]
      /\ UNCHANGED <<batch, staged, active>>
  BY DEF BeginPublication, Finalizes, HoldsBatch, MayPublish, File
<1>3. /\ worker[w] \in WorkerState /\ Job(w) \in Batches
      /\ ViewInv(w, worker[w], row)
  BY <1>2, WorkerOf
<1>4. /\ state.pc = "publishing" /\ state.job = Job(w)
      /\ state.position = worker[w].position
      /\ state.sample_count = worker[w].sample_count
      /\ state.warnings_confirmed = worker[w].warnings_confirmed
  BY <1>3 DEF WorkerState, Job
<1> HIDE DEF state
<1>5. ViewInv(w, state, row)
  BY <1>2, <1>3, <1>4 DEF ViewInv, Midway, ViewIsCurrent
<1>6. QED BY <1>1, <1>2, <1>4, <1>5, IInvFromWorker

(* The rows of an earlier batch may be displaced, never copied.            *)
LEMMA DisplacedRowInv ==
  ASSUME NEW row, NEW st, NEW ac \in [RowNumbers -> Nat],
         NEW left \in [RowNumbers -> Nat], RowInv(row, st, ac),
         st \in [RowNumbers -> Nat],
         \A i \in RowNumbers : left[i] = 0 \/ left[i] = ac[i]
  PROVE  RowInv(row, st, left)
<1>1. row.status \notin Succeeded => left = NoRows
  <2>1. SUFFICES ASSUME row.status \notin Succeeded PROVE left = NoRows OBVIOUS
  <2>2. ac = NoRows BY <2>1 DEF RowInv
  <2>3. \A i \in RowNumbers : left[i] = 0 BY <2>2 DEF NoRows
  <2>4. QED BY <2>3 DEF NoRows
<1>2. \A i \in RowNumbers : st[i] + left[i] <= 1
  <2>1. SUFFICES ASSUME NEW i \in RowNumbers PROVE st[i] + left[i] <= 1 OBVIOUS
  <2>2. st[i] + ac[i] <= 1 BY DEF RowInv
  <2>3. st[i] \in Nat /\ ac[i] \in Nat OBVIOUS
  <2>4. QED BY <2>2, <2>3
<1>3. QED BY <1>1, <1>2 DEF RowInv

LEMMA PublishInv ==
  ASSUME IInv, NEW w \in Workers, PublishBatch(w)
  PROVE  IInv'
<1> DEFINE b == Job(w)
           total == Len(File(w))
           seen == worker[w].seen
           next == PublishedRow(batch[b], total, Unseen(w))
<1>1. TypeOK' BY IInvType, PublishType
<1>2. /\ worker' = [worker EXCEPT ![w] = Idle]
      /\ batch' = [batch EXCEPT ![b] = next]
      /\ PublishRows(b, seen)
      /\ batch[b].status = "processing" /\ batch[b].lease_owner = w
  <2>1. ViewInv(w, worker[w], batch[b]) BY WorkerOf DEF PublishBatch
  <2>2. QED BY <2>1 DEF PublishBatch, ViewInv, MayPublish
<1>3. b \in Batches BY WorkerOf DEF PublishBatch
<1>4. /\ batch[b] \in BatchRow /\ RowInv(batch[b], staged[b], active[b])
      /\ total \in Nat
  BY <1>3, RowOf DEF File
<1>5. RowInv(next, NoRows, staged[b]) BY <1>2, <1>4, PublishedRowInv
<1>6. /\ next.file = batch[b].file /\ next.status \in Succeeded
  BY <1>4 DEF PublishedRow, BatchRow, Succeeded
<1>7. /\ staged \in [Batches -> [RowNumbers -> Nat]]
      /\ active \in [Batches -> [RowNumbers -> Nat]]
      /\ batch \in [Batches -> BatchRow]
  BY DEF IInv, TypeOK
<1> HIDE DEF b, next, total, seen
<1>8. ASSUME NEW c \in Batches, NEW i \in RowNumbers
      PROVE  active'[c][i] =
               (IF active[c][i] > 0 /\ <<c, i>> \in seen /\ Displaced(b, c, i)
                  THEN 0 ELSE active[c][i])
                 + (IF c = b THEN staged[b][i] ELSE 0)
  BY <1>2 DEF PublishRows
<1> DEFINE Gone(c, i) == active[c][i] > 0 /\ <<c, i>> \in seen /\ Displaced(b, c, i)
<1>9. \A c \in Batches, i \in RowNumbers :
         active'[c][i] = (IF Gone(c, i) THEN 0 ELSE active[c][i])
                           + (IF c = b THEN staged[b][i] ELSE 0)
  BY <1>8
<1> HIDE DEF Gone
<1>10. active' \in [Batches -> [RowNumbers -> Nat]] BY <1>1 DEF TypeOK
<1>11. staged'[b] = NoRows /\ active'[b] = staged[b]
  <2>1. staged'[b] = NoRows BY <1>2, <1>3, <1>7 DEF PublishRows
  <2>2. active[b] = NoRows BY <1>2, <1>4 DEF RowInv, Succeeded
  <2>3. ASSUME NEW i \in RowNumbers PROVE active'[b][i] = staged[b][i]
    <3>1. active[b][i] = 0 BY <2>2 DEF NoRows
    <3>2. staged[b][i] \in Nat BY <1>3, <1>7
    <3>3. QED BY <1>3, <1>9, <3>1, <3>2
  <2>4. active'[b] \in [RowNumbers -> Nat] /\ staged[b] \in [RowNumbers -> Nat]
    BY <1>3, <1>7, <1>10
  <2>5. active'[b] = staged[b]
    <3> DEFINE ac == active'[b]
               st == staged[b]
    <3>1. \A i \in RowNumbers : ac[i] = st[i] BY <2>3
    <3>2. ac \in [RowNumbers -> Nat] /\ st \in [RowNumbers -> Nat] BY <2>4
    <3> HIDE DEF ac, st
    <3>3. ac = st BY <3>1, <3>2
    <3>4. QED BY <3>3 DEF ac, st
  <2>6. QED BY <2>1, <2>5
<1>12. batch'[b] = next BY <1>2, <1>3, <1>7
<1>13. ASSUME NEW c \in Batches, c # b
       PROVE  RowInv(batch'[c], staged'[c], active'[c])
  <2>1. batch'[c] = batch[c] BY <1>2, <1>7, <1>13
  <2>2. staged'[c] = staged[c] BY <1>2, <1>7, <1>13 DEF PublishRows
  <2>3. RowInv(batch[c], staged[c], active[c]) BY DEF IInv
  <2>4. /\ active'[c] \in [RowNumbers -> Nat] /\ active[c] \in [RowNumbers -> Nat]
        /\ staged[c] \in [RowNumbers -> Nat]
    BY <1>7, <1>10
  <2>5. \A i \in RowNumbers : active'[c][i] = 0 \/ active'[c][i] = active[c][i]
    <3>1. TAKE i \in RowNumbers
    <3>2. active[c][i] \in Nat BY <2>4
    <3>3. QED BY <1>9, <1>13, <3>2
  <2>6. RowInv(batch[c], staged[c], active'[c]) BY <2>3, <2>4, <2>5, DisplacedRowInv
  <2>7. QED BY <2>1, <2>2, <2>6
<1>14. \A c \in Batches : RowInv(batch'[c], staged'[c], active'[c])
  BY <1>5, <1>11, <1>12, <1>13
<1>15. \A v \in Workers \ {w} : KeepsView(v, batch[b], next)
  BY <1>2, <1>6 DEF KeepsView, Succeeded, MayPublish
<1>16. QED BY <1>1, <1>2, <1>3, <1>14, <1>15, IInvFromEnd

-----------------------------------------------------------------------------
LEMMA InitInv == Init => IInv
<1> SUFFICES ASSUME Init PROVE IInv OBVIOUS
<1>1. TypeOK BY InitType
<1>2. ASSUME NEW b \in Batches PROVE RowInv(batch[b], staged[b], active[b])
  <2>1. batch[b] = AbsentRow /\ staged[b] = NoRows /\ active[b] = NoRows
    BY DEF Init
  <2>2. /\ AbsentRow.status = "absent" /\ Len(AbsentRow.file) = 0
        /\ AbsentRow.checkpoint_row = 0
    BY DEF AbsentRow
  <2>3. \A i \in RowNumbers : NoRows[i] + NoRows[i] <= 1 BY DEF NoRows
  <2>4. QED BY <2>1, <2>2, <2>3, FilesAssumption
           DEF RowInv, Succeeded, MayRunAgain, CountersMatch, AwaitsConfirmation
<1>3. \A w \in Workers : worker[w].pc = "idle" BY DEF Init, Idle
<1>4. QED BY <1>1, <1>2, <1>3 DEF IInv

LEMMA NextInv == IInv /\ [Next]_vars => IInv'
<1> SUFFICES ASSUME IInv, [Next]_vars PROVE IInv' OBVIOUS
<1>1. ASSUME NEW b \in Batches, ApiStep(b) PROVE IInv'
  BY <1>1, CreateInv, CancelInv, RetryInv, ConfirmInv DEF ApiStep
<1>2. ASSUME NEW w \in Workers, Claims(w) PROVE IInv'
  BY <1>2, ClaimInv DEF Claims
<1>3. ASSUME NEW w \in Workers, WorkerStep(w) PROVE IInv'
  BY <1>3, LoadInv, LoseLeaseInv, CommitInv, CancelProcessingInv,
     FinishRowsInv, RejectInv, BeginPublicationInv, PublishInv, FailAndDiscardInv, MarkFailureInv DEF WorkerStep
<1>4. ASSUME NEW w \in Workers, WorkerRaises(w) PROVE IInv'
  BY <1>4, RaisesInv
<1>5. ASSUME NEW w \in Workers, WorkerCrashes(w) PROVE IInv'
  BY <1>5, CrashesInv
<1>6. ASSUME NEW b \in Batches, LeaseExpires(b) PROVE IInv'
  BY <1>6, ExpiresInv
<1>7. CASE UNCHANGED vars BY <1>7 DEF vars, IInv, TypeOK, Job
<1>8. QED BY <1>1, <1>2, <1>3, <1>4, <1>5, <1>6, <1>7 DEF Next

(* The inductive invariant holds of every instance of the pipeline.        *)
THEOREM Invariant == Spec => []IInv
<1>1. QED BY InitInv, NextInv, PTL DEF Spec

(* No sequence of crashes, expired leases, retries, confirmations and      *)
(* cancellations puts a row of a file into the target table twice.         *)
THEOREM NoDuplicates == Spec => []ExactlyOnce
<1>1. IInv => ExactlyOnce BY DEF IInv, ExactlyOnce, RowInv
<1>2. QED BY <1>1, Invariant, PTL

(* Whatever the chunk size, a batch that may run again has staged exactly  *)
(* the accepted rows up to its checkpoint.                                 *)
THEOREM CheckpointIsExact == Spec => []StagedBehindCheckpoint
<1>1. IInv => StagedBehindCheckpoint BY DEF IInv, StagedBehindCheckpoint, RowInv
<1>2. QED BY <1>1, Invariant, PTL

(* The counters that decide whether a batch is published are those of the  *)
(* rows behind its checkpoint, over all its runs and workers.              *)
THEOREM CountersAreExact == Spec => []CountersMatchCheckpoint
<1>1. IInv => CountersMatchCheckpoint BY DEF IInv, CountersMatchCheckpoint, RowInv
<1>2. QED BY <1>1, Invariant, PTL

(* Only a batch that succeeded has queryable rows.                         *)
THEOREM NothingHalfDoneIsVisible == Spec => []OnlySucceededVisible
<1>1. IInv => OnlySucceededVisible
  <2>1. SUFFICES ASSUME IInv, NEW b \in Batches, NEW i \in RowNumbers,
                        batch[b].status \notin Succeeded
                 PROVE  ~(active[b][i] > 0)
    BY DEF OnlySucceededVisible
  <2>2. active[b] = NoRows BY <2>1 DEF IInv, RowInv
  <2>3. QED BY <2>2 DEF NoRows
<1>2. QED BY <1>1, Invariant, PTL

(* A batch that waits for its next run is not condemned by an old          *)
(* cancellation request.                                                   *)
THEOREM RequestsStartClean == Spec => []PendingIsNotCancelled
<1>1. IInv => PendingIsNotCancelled BY DEF IInv, PendingIsNotCancelled, RowInv
<1>2. QED BY <1>1, Invariant, PTL

(* A worker that still holds its lease works from current data.            *)
THEOREM LeaseProtectsView == Spec => []WorkerViewIsCurrent
<1>1. IInv => WorkerViewIsCurrent
  <2>1. SUFFICES ASSUME IInv, NEW w \in Workers, worker[w].pc \in Midway, HoldsBatch(w)
                 PROVE  ViewIsCurrent(worker[w], batch[Job(w)])
    BY DEF WorkerViewIsCurrent
  <2>2. worker[w].pc # "idle" BY <2>1 DEF Midway
  <2>3. QED BY <2>1, <2>2 DEF IInv, ViewInv, HoldsBatch
<1>2. QED BY <1>1, Invariant, PTL

-----------------------------------------------------------------------------
(* No step publishes a batch that is asked to stop.                        *)

Moves(row, next) ==
  row.cancellation_requested =>
    next.status \notin Succeeded \/ next.status = row.status

MovesProperly == \A b \in Batches : Moves(batch[b], batch'[b])

LEMMA MovesOne ==
  ASSUME TypeOK, NEW b \in Batches, NEW next, batch' = [batch EXCEPT ![b] = next],
         Moves(batch[b], next)
  PROVE  MovesProperly
<1>1. batch \in [Batches -> BatchRow] BY DEF TypeOK
<1>2. ASSUME NEW c \in Batches PROVE Moves(batch[c], batch'[c])
  <2>1. CASE c = b BY <1>1, <2>1
  <2>2. CASE c # b
    <3>1. batch'[c] = batch[c] BY <1>1, <2>2
    <3>2. QED BY <3>1 DEF Moves
  <2>3. QED BY <2>1, <2>2
<1>3. QED BY <1>2 DEF MovesProperly

LEMMA MovesNone ==
  ASSUME UNCHANGED batch
  PROVE  MovesProperly
BY DEF MovesProperly, Moves

LEMMA ApiMoves ==
  ASSUME IInv, NEW b \in Batches, ApiStep(b)
  PROVE  MovesProperly
<1>1. TypeOK /\ batch[b] \in BatchRow BY IInvType, RowOf
<1>2. ASSUME NEW f \in Files, NEW mode \in Modes, NEW confirmed \in BOOLEAN,
             CreateImportBatch(b, f, mode, confirmed)
      PROVE  MovesProperly
  <2> DEFINE next == SubmittedRow(batch[b], f, mode, confirmed)
  <2>1. batch[b].status = "absent" /\ batch' = [batch EXCEPT ![b] = next]
    BY <1>2 DEF CreateImportBatch
  <2>2. next.status = "pending" BY <1>1 DEF SubmittedRow, BatchRow
  <2> HIDE DEF next
  <2>3. Moves(batch[b], next) BY <2>1, <2>2 DEF Moves, Succeeded
  <2>4. QED BY <1>1, <2>1, <2>3, MovesOne
<1>3. ASSUME CancelImportBatch(b) PROVE MovesProperly
  <2>1. CASE /\ batch[b].status \in CancelledAtOnce
             /\ batch' = [batch EXCEPT ![b].status = "cancelled"]
    <3> DEFINE next == [batch[b] EXCEPT !.status = "cancelled"]
    <3>1. next.status = "cancelled" /\ batch' = [batch EXCEPT ![b] = next]
      BY <1>1, <2>1 DEF BatchRow
    <3> HIDE DEF next
    <3>2. Moves(batch[b], next)
      BY <2>1, <3>1 DEF Moves, Succeeded, CancelledAtOnce
    <3>3. QED BY <1>1, <3>1, <3>2, MovesOne
  <2>2. CASE batch' = [batch EXCEPT ![b].cancellation_requested = TRUE]
    <3> DEFINE next == [batch[b] EXCEPT !.cancellation_requested = TRUE]
    <3>1. next.status = batch[b].status /\ batch' = [batch EXCEPT ![b] = next]
      BY <1>1, <2>2 DEF BatchRow
    <3> HIDE DEF next
    <3>2. Moves(batch[b], next) BY <3>1 DEF Moves
    <3>3. QED BY <1>1, <3>1, <3>2, MovesOne
  <2>3. QED BY <1>3, <2>1, <2>2 DEF CancelImportBatch
<1>4. ASSUME RetryImportBatch(b) PROVE MovesProperly
  <2> DEFINE next == IF batch[b].checkpoint_row = 0 THEN ResetResults(Requeued(batch[b]))
                     ELSE Requeued(batch[b])
  <2>1. batch[b].status = "failed" /\ batch' = [batch EXCEPT ![b] = next]
    BY <1>1, <1>4 DEF RetryImportBatch, TypeOK
  <2>2. next.status = "pending" BY <1>1 DEF ResetResults, Requeued, BatchRow
  <2> HIDE DEF next
  <2>3. Moves(batch[b], next) BY <2>1, <2>2 DEF Moves, Succeeded
  <2>4. QED BY <1>1, <2>1, <2>3, MovesOne
<1>5. ASSUME ConfirmImportBatchWarnings(b) PROVE MovesProperly
  <2> DEFINE next == ResetResults(Confirmed(batch[b]))
  <2>1. batch[b].status = "failed" /\ batch' = [batch EXCEPT ![b] = next]
    BY <1>5 DEF ConfirmImportBatchWarnings
  <2>2. next.status = "pending" BY <1>1 DEF ResetResults, Confirmed, BatchRow
  <2> HIDE DEF next
  <2>3. Moves(batch[b], next) BY <2>1, <2>2 DEF Moves, Succeeded
  <2>4. QED BY <1>1, <2>1, <2>3, MovesOne
<1>6. QED BY <1>2, <1>3, <1>4, <1>5 DEF ApiStep

LEMMA WorkerMoves ==
  ASSUME IInv, NEW w \in Workers, WorkerStep(w)
  PROVE  MovesProperly
<1>1. TypeOK BY IInvType
<1>2. worker[w].pc # "idle" =>
        Job(w) \in Batches /\ batch[Job(w)] \in BatchRow
  BY WorkerOf, RowOf
<1>3. CASE LoadBatchWork(w) BY <1>3, MovesNone DEF LoadBatchWork
<1>4. CASE LoseLease(w) BY <1>4, MovesNone DEF LoseLease
<1>5. CASE CommitChunk(w)
  <2> DEFINE next == CommittedRow(batch[Job(w)], worker[w].position + 1, ChunkEnd(w),
                                  worker[w].warnings_confirmed, SampledIssues(w))
  <2>1. Job(w) \in Batches /\ batch[Job(w)] \in BatchRow
    BY <1>2, <1>5 DEF CommitChunk, HasChunk
  <2>2. batch' = [batch EXCEPT ![Job(w)] = next] BY <1>5 DEF CommitChunk
  <2>3. next.status = batch[Job(w)].status BY <2>1 DEF CommittedRow, BatchRow
  <2> HIDE DEF next
  <2>4. Moves(batch[Job(w)], next) BY <2>3 DEF Moves
  <2>5. QED BY <1>1, <2>1, <2>2, <2>4, MovesOne
<1>6. CASE CancelProcessingBatch(w)
  <2> DEFINE next == CancelledRow(batch[Job(w)])
  <2>1. Job(w) \in Batches /\ batch[Job(w)] \in BatchRow
    BY <1>2, <1>6 DEF CancelProcessingBatch, HasChunk
  <2>2. batch[Job(w)].status = "processing" /\ batch' = [batch EXCEPT ![Job(w)] = next]
    BY <1>6 DEF CancelProcessingBatch, HoldsBatch
  <2>3. next.status = "cancelled" BY <2>1 DEF CancelledRow, BatchRow
  <2> HIDE DEF next
  <2>4. Moves(batch[Job(w)], next) BY <2>2, <2>3 DEF Moves, Succeeded
  <2>5. QED BY <1>1, <2>1, <2>2, <2>4, MovesOne
<1>7. CASE FinishRows(w) \/ BeginPublication(w)
  BY <1>7, MovesNone DEF FinishRows, BeginPublication
<1>8. CASE RejectBatch(w)
  <2> DEFINE next == RejectedRow(batch[Job(w)], Len(File(w)),
                                 Verdict(batch[Job(w)], Len(File(w))))
  <2>1. Job(w) \in Batches /\ batch[Job(w)] \in BatchRow
    BY <1>2, <1>8 DEF RejectBatch, Finalizes
  <2>2. batch[Job(w)].status = "processing" /\ batch' = [batch EXCEPT ![Job(w)] = next]
    BY <1>8 DEF RejectBatch, Finalizes, HoldsBatch
  <2>3. next.status = "failed" BY <2>1 DEF RejectedRow, FailedRow, BatchRow
  <2> HIDE DEF next
  <2>4. Moves(batch[Job(w)], next) BY <2>2, <2>3 DEF Moves, Succeeded
  <2>5. QED BY <1>1, <2>1, <2>2, <2>4, MovesOne
<1>9. CASE PublishBatch(w)
  <2> DEFINE next == PublishedRow(batch[Job(w)], Len(File(w)), Unseen(w))
  <2>1. worker[w].pc = "publishing" BY <1>9 DEF PublishBatch
  <2>2. Job(w) \in Batches /\ ~batch[Job(w)].cancellation_requested
    BY <1>2, <2>1, WorkerOf DEF ViewInv, MayPublish
  <2>3. batch' = [batch EXCEPT ![Job(w)] = next] BY <1>9 DEF PublishBatch
  <2> HIDE DEF next
  <2>4. Moves(batch[Job(w)], next) BY <2>2 DEF Moves
  <2>5. QED BY <1>1, <2>2, <2>3, <2>4, MovesOne
<1>10. CASE FailAndDiscardBatch(w)
  <2> DEFINE next == FailedRow(batch[Job(w)], "row_limit_exceeded")
  <2>1. Job(w) \in Batches /\ batch[Job(w)] \in BatchRow
    BY <1>2, <1>10 DEF FailAndDiscardBatch
  <2>2. batch[Job(w)].status = "processing" /\ batch' = [batch EXCEPT ![Job(w)] = next]
    BY <1>10 DEF FailAndDiscardBatch, HoldsBatch
  <2>3. next.status = "failed" BY <2>1 DEF FailedRow, BatchRow
  <2> HIDE DEF next
  <2>4. Moves(batch[Job(w)], next) BY <2>2, <2>3 DEF Moves, Succeeded
  <2>5. QED BY <1>1, <2>1, <2>2, <2>4, MovesOne
<1>11. CASE MarkWorkerFailure(w)
  <2> DEFINE next == WorkerFailedRow(batch[Job(w)])
  <2>1. Job(w) \in Batches /\ batch[Job(w)] \in BatchRow
    BY <1>2, <1>11 DEF MarkWorkerFailure
  <2>2. CASE MayMarkFailure(w)
    <3>1. batch[Job(w)].status = "processing" /\ batch' = [batch EXCEPT ![Job(w)] = next]
      BY <1>11, <2>2 DEF MarkWorkerFailure, MayMarkFailure, HoldsBatch
    <3>2. next.status = "failed" BY <2>1 DEF WorkerFailedRow, BatchRow
    <3> HIDE DEF next
    <3>3. Moves(batch[Job(w)], next) BY <3>1, <3>2 DEF Moves, Succeeded
    <3>4. QED BY <1>1, <2>1, <3>1, <3>3, MovesOne
  <2>3. CASE ~MayMarkFailure(w) BY <1>11, <2>3, MovesNone DEF MarkWorkerFailure
  <2>4. QED BY <2>2, <2>3
<1>12. QED BY <1>3, <1>4, <1>5, <1>6, <1>7, <1>8, <1>9, <1>10, <1>11 DEF WorkerStep

LEMMA NextMoves == IInv /\ [Next]_vars => MovesProperly
<1> SUFFICES ASSUME IInv, [Next]_vars PROVE MovesProperly OBVIOUS
<1>1. TypeOK BY IInvType
<1>2. ASSUME NEW b \in Batches, ApiStep(b) PROVE MovesProperly
  BY <1>2, ApiMoves
<1>3. ASSUME NEW w \in Workers, NEW b \in Batches, ClaimNextImportBatch(w, b)
      PROVE  MovesProperly
  <2> DEFINE next == ClaimedRow(batch[b], w)
  <2>1. batch[b].status \in {"pending", "processing"} /\ batch' = [batch EXCEPT ![b] = next]
    BY <1>3 DEF ClaimNextImportBatch, NextClaimable, Claimable
  <2>2. next.status = "processing" BY RowOf DEF ClaimedRow, BatchRow
  <2> HIDE DEF next
  <2>3. Moves(batch[b], next) BY <2>1, <2>2 DEF Moves, Succeeded
  <2>4. QED BY <1>1, <2>1, <2>3, MovesOne
<1>4. ASSUME NEW w \in Workers, WorkerStep(w) PROVE MovesProperly
  BY <1>4, WorkerMoves
<1>5. ASSUME NEW b \in Batches, LeaseExpires(b) PROVE MovesProperly
  <2> DEFINE next == [batch[b] EXCEPT !.lease_expired = TRUE]
  <2>1. batch' = [batch EXCEPT ![b] = next] BY <1>5 DEF LeaseExpires
  <2>2. next.status = batch[b].status BY RowOf DEF BatchRow
  <2> HIDE DEF next
  <2>3. Moves(batch[b], next) BY <2>2 DEF Moves
  <2>4. QED BY <1>1, <2>1, <2>3, MovesOne
<1>6. ASSUME NEW w \in Workers, WorkerRaises(w) \/ WorkerCrashes(w)
      PROVE  MovesProperly
  BY <1>6, MovesNone DEF WorkerRaises, WorkerCrashes
<1>7. CASE UNCHANGED vars BY <1>7, MovesNone DEF vars
<1>8. QED BY <1>2, <1>3, <1>4, <1>5, <1>6, <1>7 DEF Next, Claims

(* A batch whose cancellation was accepted is never published.             *)
THEOREM CancellationIsFinal == Spec => CancellationWins
<1>1. MovesProperly =>
        \A b \in Batches :
          batch[b].cancellation_requested =>
            \/ batch'[b].status \notin Succeeded
            \/ batch'[b].status = batch[b].status
  BY DEF MovesProperly, Moves
<1>2. QED BY <1>1, Invariant, NextMoves, PTL DEF Spec, CancellationWins
=============================================================================
