---------------------- MODULE ImportPublication_proofs ----------------------
(***************************************************************************)
(* What the import pipeline publishes, for every instance: whole files,    *)
(* one active row for a business key up to what two publications at once   *)
(* do not see of each other, and nothing that ImportPublication does not   *)
(* allow; and that it attaches complete reports, where no two workers of a *)
(* batch write one at the same time.                                       *)
(*                                                                         *)
(* A step either publishes a batch, begins or gives up a publication, or   *)
(* changes at most one row of import_batches and leaves the active rows of *)
(* the target table and the publications under way as they are.            *)
(***************************************************************************)
EXTENDS ImportBatches_proofs, ImportReports

-----------------------------------------------------------------------------
(* What a worker that publishes knows of the file.                         *)

LEMMA NoneCounted ==
  ASSUME NEW n \in Nat, NEW S \in SUBSET (1 .. n), ~(Cardinality(S) > 0)
  PROVE  S = {}
<1>1. IsFiniteSet(1 .. n)
  BY FS_Interval
<1>2. IsFiniteSet(S)
  BY <1>1, FS_Subset
<1>3. Cardinality(S) \in Nat
  BY <1>2, FS_CardinalityType
<1>4. Cardinality(S) = 0
  BY <1>3
<1> QED
  BY <1>2, <1>4, FS_EmptySet

LEMMA SomeCounted ==
  ASSUME NEW n \in Nat, NEW S \in SUBSET (1 .. n)
  PROVE  Cardinality(S) > 0 <=> S # {}
<1>1. Cardinality(S) > 0 => S # {}
  BY FS_EmptySet
<1> QED
  BY <1>1, NoneCounted

LEMMA CleanFile ==
  ASSUME NEW f, NEW n \in Nat, NEW confirmed \in BOOLEAN,
         ~(ErrorRows(f, 1, n) > 0), WarningRows(f, 1, n) > 0 => confirmed
  PROVE  /\ \A i \in 1 .. n : Accepted(f, i, confirmed)
         /\ AcceptedRows(f, 1, n, confirmed) = n
<1>1. \A i \in 1 .. n : ~ HasError(f, i)
  <2> DEFINE S == {i \in 1 .. n : HasError(f, i)}
  <2>1. S \in SUBSET (1 .. n) /\ ~(Cardinality(S) > 0)
    BY DEF ErrorRows
  <2>2. S = {}
    BY <2>1, NoneCounted, Zenon
  <2> QED
    BY <2>2
<1>2. \A i \in 1 .. n : confirmed \/ ~f[i].warning
  <2> DEFINE S == {i \in 1 .. n : f[i].warning}
  <2>1. S \in SUBSET (1 .. n) /\ (~(Cardinality(S) > 0) \/ confirmed)
    BY DEF WarningRows
  <2>2. S = {} \/ confirmed
    BY <2>1, NoneCounted, Zenon
  <2> QED
    BY <2>2
<1>3. \A i \in 1 .. n : Accepted(f, i, confirmed)
  BY <1>1, <1>2 DEF Accepted
<1>4. {i \in 1 .. n : Accepted(f, i, confirmed)} = 1 .. n
  BY <1>3
<1>5. Cardinality(1 .. n) = n
  BY FS_Interval
<1> QED
  BY <1>3, <1>4, <1>5 DEF AcceptedRows

LEMMA WarningsCounted ==
  ASSUME NEW f, NEW n \in Nat
  PROVE  WarningRows(f, 1, n) > 0 <=> \E i \in 1 .. n : f[i].warning
<1> DEFINE S == {i \in 1 .. n : f[i].warning}
<1>1. Cardinality(S) > 0 <=> S # {}
  BY SomeCounted, Zenon
<1> QED
  BY <1>1 DEF WarningRows

(* Who finalizes a batch has read its file to the end.                     *)
LEMMA FinalView ==
  ASSUME IInv, NEW w \in Workers, worker[w].pc \in {"finalize", "publishing"},
         HoldsBatch(w)
  PROVE  LET row == batch[Job(w)]
             n == Len(batch[Job(w)].file)
         IN  /\ Job(w) \in Batches /\ row \in BatchRow /\ row.status = "processing"
             /\ n \in Nat /\ n <= MaxRows /\ n <= MaxFileRows
             /\ row.checkpoint_row = n /\ CountersOf(row, n)
             /\ staged[Job(w)] = RowsBehindCheckpoint(row)
             /\ active[Job(w)] = NoRows
<1> DEFINE row == batch[Job(w)]
           n == Len(row.file)
<1>1. row.status = "processing" /\ row.lease_owner = w
  BY DEF HoldsBatch
<1>2. Job(w) \in Batches /\ worker[w] \in WorkerState /\ ViewInv(w, worker[w], row)
  BY <1>1, WorkerOf
<1>3. row \in BatchRow /\ RowInv(row, staged[Job(w)], active[Job(w)]) /\ n \in Nat
  BY <1>2, RowOf
<1>4. n <= MaxRows /\ row.checkpoint_row = n
  BY <1>1, <1>2 DEF ViewInv, ViewIsCurrent, Midway
<1>5. /\ n <= MaxFileRows /\ CountersOf(row, n)
      /\ staged[Job(w)] = RowsBehindCheckpoint(row) /\ active[Job(w)] = NoRows
  BY <1>1, <1>3, <1>4 DEF RowInv, CountersMatch, MayRunAgain, Succeeded
<1> QED
  BY <1>1, <1>2, <1>3, <1>4, <1>5

(* A batch that passes its verdict has a clean file, all of it staged.     *)
LEMMA CleanBatch ==
  ASSUME IInv, NEW w \in Workers, worker[w].pc \in {"finalize", "publishing"},
         HoldsBatch(w), Verdict(batch[Job(w)], Len(batch[Job(w)].file)) = "none"
  PROVE  LET b == Job(w)
             row == batch[Job(w)]
             f == batch[Job(w)].file
             n == Len(batch[Job(w)].file)
         IN  /\ b \in Batches /\ row \in BatchRow /\ row.status = "processing"
             /\ n \in Nat /\ n # 0 /\ n <= MaxRows /\ n <= MaxFileRows
             /\ \A i \in 1 .. n : Accepted(f, i, row.warnings_confirmed)
             /\ row.valid_rows = n
             /\ row.warning_rows > 0 <=> \E i \in 1 .. n : f[i].warning
             /\ active[b] = NoRows
             /\ \A i \in RowNumbers : staged[b][i] = IF i <= n THEN 1 ELSE 0
<1> DEFINE b == Job(w)
           row == batch[b]
           f == row.file
           n == Len(f)
<1>1. /\ b \in Batches /\ row \in BatchRow /\ row.status = "processing"
      /\ n \in Nat /\ n <= MaxRows /\ n <= MaxFileRows
      /\ row.checkpoint_row = n /\ CountersOf(row, n)
      /\ staged[b] = RowsBehindCheckpoint(row) /\ active[b] = NoRows
  BY FinalView
<1>2. /\ n # 0 /\ ~(row.error_rows > 0)
      /\ row.warning_rows > 0 => row.warnings_confirmed
  BY DEF Verdict
<1>3. row.warnings_confirmed \in BOOLEAN
  BY <1>1 DEF BatchRow
<1>4. /\ row.error_rows = ErrorRows(f, 1, n) /\ row.warning_rows = WarningRows(f, 1, n)
      /\ row.valid_rows = AcceptedRows(f, 1, n, row.warnings_confirmed)
  BY <1>1 DEF CountersOf
<1> DEFINE confirmed == row.warnings_confirmed
<1>5. /\ \A i \in 1 .. n : Accepted(f, i, confirmed)
      /\ AcceptedRows(f, 1, n, confirmed) = n
  <2>1. ~(ErrorRows(f, 1, n) > 0) /\ (WarningRows(f, 1, n) > 0 => confirmed)
        /\ n \in Nat /\ confirmed \in BOOLEAN
    BY <1>1, <1>2, <1>3, <1>4
  <2> HIDE DEF b, row, f, n, confirmed
  <2> QED
    BY <2>1, CleanFile
<1>6. row.warning_rows > 0 <=> \E i \in 1 .. n : f[i].warning
  <2>1. WarningRows(f, 1, n) > 0 <=> \E i \in 1 .. n : f[i].warning
    <3> HIDE DEF n, f
    <3> QED
      BY <1>1, WarningsCounted
  <2> QED
    BY <1>4, <2>1
<1>7. \A i \in RowNumbers : staged[b][i] = IF i <= n THEN 1 ELSE 0
  <2>1. ASSUME NEW i \in RowNumbers PROVE staged[b][i] = IF i <= n THEN 1 ELSE 0
    <3>1. staged[b][i] = IF i <= n /\ Accepted(f, i, confirmed) THEN 1 ELSE 0
      BY <1>1 DEF RowsBehindCheckpoint
    <3>2. i <= n => i \in 1 .. n
      BY <1>1 DEF RowNumbers
    <3>3. i <= n => Accepted(f, i, confirmed)
      BY <1>5, <3>2
    <3> QED
      BY <3>1, <3>3
  <2> QED
    BY <2>1
<1> QED
  BY <1>1, <1>2, <1>4, <1>5, <1>6, <1>7

LEMMA Publisher ==
  ASSUME IInv, NEW w \in Workers, worker[w].pc = "publishing"
  PROVE  /\ HoldsBatch(w) /\ Job(w) \in Batches
         /\ Verdict(batch[Job(w)], Len(batch[Job(w)].file)) = "none"
BY WorkerOf DEF ViewInv, MayPublish, HoldsBatch

LEMMA Published ==
  ASSUME IInv, NEW w \in Workers, PublishBatch(w)
  PROVE  LET b == Job(w)
             row == batch[Job(w)]
             f == batch[Job(w)].file
             n == Len(batch[Job(w)].file)
         IN  /\ b \in Batches /\ row \in BatchRow /\ row.status = "processing"
             /\ n \in Nat /\ n # 0 /\ n <= MaxRows /\ n <= MaxFileRows
             /\ \A i \in 1 .. n : Accepted(f, i, row.warnings_confirmed)
             /\ row.valid_rows = n
             /\ row.warning_rows > 0 <=> \E i \in 1 .. n : f[i].warning
             /\ active[b] = NoRows
             /\ \A i \in RowNumbers : staged[b][i] = IF i <= n THEN 1 ELSE 0
             /\ batch' = [batch EXCEPT ![b] = PublishedRow(row, n, Unseen(w))]
<1>1. worker[w].pc = "publishing"
  BY DEF PublishBatch
<1>2. batch' = [batch EXCEPT ![Job(w)] =
                  PublishedRow(batch[Job(w)], Len(batch[Job(w)].file), Unseen(w))]
  BY DEF PublishBatch, File
<1> QED
  BY <1>1, <1>2, Publisher, CleanBatch

-----------------------------------------------------------------------------
(* Every other step changes one row, along the life of a batch, and leaves *)
(* the active rows alone.                                                  *)

Progress(row, next) ==
  \/ next.status = row.status /\ next.warnings_confirmed = row.warnings_confirmed
  \/ /\ row.status = "pending" /\ next.status = "processing"
     /\ next.warnings_confirmed = row.warnings_confirmed
  \/ /\ row.status = "processing" /\ next.status = "failed"
     /\ next.warnings_confirmed = row.warnings_confirmed
  \/ /\ row.status \in MayRunAgain /\ next.status = "cancelled"
     /\ next.warnings_confirmed = row.warnings_confirmed
  \/ /\ row.status = "failed" /\ next.status = "pending"
     /\ next.warnings_confirmed \in {row.warnings_confirmed, TRUE}

RowStep(row, next) ==
  \/ /\ row = AbsentRow
     /\ \E f \in Files, mode \in Modes, confirmed \in BOOLEAN :
          next = SubmittedRow(row, f, mode, confirmed)
  \/ /\ row.status # "absent" /\ next.file = row.file /\ next.mode = row.mode
     /\ next.unseen = row.unseen /\ Progress(row, next)

(* The workers in the middle of a publication stay there, others do not    *)
(* join them.                                                              *)
KeepsPublishers ==
  \A v \in Workers :
    worker[v].pc = "publishing" \/ worker'[v].pc = "publishing" =>
      worker'[v] = worker[v]

ChangesOnly(b) ==
  /\ \A c \in Batches \ {b} : batch'[c] = batch[c]
  /\ RowStep(batch[b], batch'[b])
  /\ \A c \in Batches : active'[c] = active[c]

LEMMA ChangesOne ==
  ASSUME IInv, NEW b \in Batches, NEW next, batch' = [batch EXCEPT ![b] = next],
         RowStep(batch[b], next),
         \A c \in Batches : active'[c] = active[c]
  PROVE  ChangesOnly(b)
<1>1. batch \in [Batches -> BatchRow]
  BY DEF IInv, TypeOK
<1>2. batch'[b] = next /\ \A c \in Batches \ {b} : batch'[c] = batch[c]
  BY <1>1
<1> QED
  BY <1>2 DEF ChangesOnly

LEMMA ChangesProgress ==
  ASSUME IInv, NEW b \in Batches, NEW next, batch' = [batch EXCEPT ![b] = next],
         \A c \in Batches : active'[c] = active[c],
         next.file = batch[b].file, next.mode = batch[b].mode,
         next.unseen = batch[b].unseen,
         batch[b].status # "absent", Progress(batch[b], next)
  PROVE  ChangesOnly(b)
BY ChangesOne DEF RowStep

LEMMA ApiChanges ==
  ASSUME IInv, NEW b \in Batches, ApiStep(b)
  PROVE  ChangesOnly(b)
<1>1. /\ batch[b] \in BatchRow /\ RowInv(batch[b], staged[b], active[b])
  BY RowOf
<1>2. ASSUME NEW f \in Files, NEW mode \in Modes, NEW confirmed \in BOOLEAN,
             CreateImportBatch(b, f, mode, confirmed)
      PROVE  ChangesOnly(b)
  <2> DEFINE next == SubmittedRow(batch[b], f, mode, confirmed)
  <2>1. /\ batch' = [batch EXCEPT ![b] = next] /\ active' = active
        /\ batch[b] = AbsentRow
    BY <1>1, <1>2 DEF CreateImportBatch, RowInv
  <2>2. RowStep(batch[b], next)
    BY <2>1 DEF RowStep
  <2> HIDE DEF next
  <2> QED
    BY <2>1, <2>2, ChangesOne
<1>3. ASSUME CancelImportBatch(b) PROVE ChangesOnly(b)
  <2>1. CASE /\ batch[b].status \in CancelledAtOnce
             /\ batch' = [batch EXCEPT ![b].status = "cancelled"]
    <3> DEFINE next == [batch[b] EXCEPT !.status = "cancelled"]
    <3>1. /\ next.status = "cancelled" /\ next.file = batch[b].file
          /\ next.mode = batch[b].mode
          /\ next.unseen = batch[b].unseen
          /\ next.warnings_confirmed = batch[b].warnings_confirmed
          /\ batch' = [batch EXCEPT ![b] = next] /\ active' = active
      BY <1>1, <1>3, <2>1 DEF CancelImportBatch, BatchRow
    <3> HIDE DEF next
    <3> QED
      BY <2>1, <3>1, ChangesProgress DEF Progress, CancelledAtOnce, MayRunAgain
  <2>2. CASE /\ batch[b].status = "processing"
             /\ batch' = [batch EXCEPT ![b].cancellation_requested = TRUE]
    <3> DEFINE next == [batch[b] EXCEPT !.cancellation_requested = TRUE]
    <3>1. /\ next.status = "processing" /\ next.file = batch[b].file
          /\ next.mode = batch[b].mode
          /\ next.unseen = batch[b].unseen
          /\ next.warnings_confirmed = batch[b].warnings_confirmed
          /\ batch' = [batch EXCEPT ![b] = next] /\ active' = active
      BY <1>1, <1>3, <2>2 DEF CancelImportBatch, BatchRow
    <3> HIDE DEF next
    <3> QED
      BY <2>2, <3>1, ChangesProgress DEF Progress
  <2> QED
    BY <1>3, <2>1, <2>2 DEF CancelImportBatch
<1>4. ASSUME RetryImportBatch(b) PROVE ChangesOnly(b)
  <2> DEFINE next == IF batch[b].checkpoint_row = 0 THEN ResetResults(Requeued(batch[b]))
                     ELSE Requeued(batch[b])
  <2>1. /\ batch[b].status = "failed" /\ batch' = [batch EXCEPT ![b] = next]
        /\ active' = active
    BY <1>1, <1>4 DEF RetryImportBatch, IInv, TypeOK
  <2>2. /\ next.status = "pending" /\ next.file = batch[b].file
        /\ next.mode = batch[b].mode
        /\ next.unseen = batch[b].unseen
        /\ next.warnings_confirmed = batch[b].warnings_confirmed
    BY <1>1 DEF ResetResults, Requeued, BatchRow
  <2> HIDE DEF next
  <2> QED
    BY <2>1, <2>2, ChangesProgress DEF Progress
<1>5. ASSUME ConfirmImportBatchWarnings(b) PROVE ChangesOnly(b)
  <2> DEFINE next == ResetResults(Confirmed(batch[b]))
  <2>1. /\ batch[b].status = "failed" /\ batch' = [batch EXCEPT ![b] = next]
        /\ active' = active
    BY <1>5 DEF ConfirmImportBatchWarnings
  <2>2. /\ next.status = "pending" /\ next.file = batch[b].file
        /\ next.mode = batch[b].mode /\ next.unseen = batch[b].unseen
        /\ next.warnings_confirmed = TRUE
    BY <1>1 DEF ResetResults, Confirmed, BatchRow
  <2> HIDE DEF next
  <2> QED
    BY <2>1, <2>2, ChangesProgress DEF Progress
<1> QED
  BY <1>2, <1>3, <1>4, <1>5 DEF ApiStep

(* What is discarded was staged only.                                      *)
LEMMA NothingActiveDiscarded ==
  ASSUME IInv, NEW b \in Batches, batch[b].status = "processing", DiscardRows(b)
  PROVE  \A c \in Batches : active'[c] = active[c]
<1>1. active[b] = NoRows /\ active \in [Batches -> [RowNumbers -> Nat]]
  BY DEF IInv, RowInv, Succeeded, TypeOK
<1> QED
  BY <1>1 DEF DiscardRows

LEMMA WorkerEndsChanges ==
  ASSUME IInv, NEW w \in Workers,
         \/ CancelProcessingBatch(w) \/ RejectBatch(w) \/ FailAndDiscardBatch(w)
         \/ MarkWorkerFailure(w) /\ MayMarkFailure(w)
  PROVE  ChangesOnly(Job(w))
<1> DEFINE b == Job(w)
           row == batch[b]
<1>1. worker[w].pc # "idle" /\ row.status = "processing"
  BY DEF CancelProcessingBatch, HasChunk, HoldsBatch, RejectBatch, Finalizes,
         FailAndDiscardBatch, MarkWorkerFailure, MayMarkFailure
<1>2. b \in Batches /\ row \in BatchRow
  BY <1>1, WorkerOf, RowOf
<1>3. CASE CancelProcessingBatch(w)
  <2> DEFINE next == CancelledRow(row)
  <2>1. /\ next.status = "cancelled" /\ next.file = row.file /\ next.mode = row.mode
        /\ next.unseen = row.unseen /\ next.warnings_confirmed = row.warnings_confirmed
    BY <1>2 DEF CancelledRow, BatchRow
  <2>2. batch' = [batch EXCEPT ![b] = next] /\ DiscardRows(b)
    BY <1>3 DEF CancelProcessingBatch
  <2>3. \A c \in Batches : active'[c] = active[c]
    BY <1>1, <1>2, <2>2, NothingActiveDiscarded
  <2> HIDE DEF next, b
  <2> QED
    BY <1>1, <1>2, <2>1, <2>2, <2>3, ChangesProgress DEF Progress, MayRunAgain, b
<1>4. CASE FailAndDiscardBatch(w)
  <2> DEFINE next == FailedRow(row, "row_limit_exceeded")
  <2>1. /\ next.status = "failed" /\ next.file = row.file /\ next.mode = row.mode
        /\ next.unseen = row.unseen /\ next.warnings_confirmed = row.warnings_confirmed
    BY <1>2 DEF FailedRow, BatchRow
  <2>2. batch' = [batch EXCEPT ![b] = next] /\ DiscardRows(b)
    BY <1>4 DEF FailAndDiscardBatch
  <2>3. \A c \in Batches : active'[c] = active[c]
    BY <1>1, <1>2, <2>2, NothingActiveDiscarded
  <2> HIDE DEF next, b
  <2> QED
    BY <1>1, <1>2, <2>1, <2>2, <2>3, ChangesProgress DEF Progress, b
<1>5. CASE MarkWorkerFailure(w) /\ MayMarkFailure(w)
  <2> DEFINE next == WorkerFailedRow(row)
  <2>1. /\ next.status = "failed" /\ next.file = row.file /\ next.mode = row.mode
        /\ next.unseen = row.unseen /\ next.warnings_confirmed = row.warnings_confirmed
    BY <1>2 DEF WorkerFailedRow, BatchRow
  <2>2. batch' = [batch EXCEPT ![b] = next] /\ active' = active
    BY <1>5 DEF MarkWorkerFailure
  <2> HIDE DEF next, b
  <2> QED
    BY <1>1, <1>2, <2>1, <2>2, ChangesProgress DEF Progress, b
<1>6. CASE RejectBatch(w)
  <2> DEFINE n == Len(row.file)
             code == Verdict(row, n)
             next == RejectedRow(row, n, code)
  <2>1. /\ Finalizes(w) /\ code # "none" /\ DiscardRows(b)
        /\ batch' = [batch EXCEPT ![b] = next]
    BY <1>6 DEF RejectBatch, File
  <2>2. /\ next.status = "failed" /\ next.file = row.file /\ next.mode = row.mode
        /\ next.unseen = row.unseen /\ next.warnings_confirmed = row.warnings_confirmed
    <3> HIDE DEF code, n
    <3> QED
      BY <1>2 DEF RejectedRow, FailedRow, BatchRow
  <2>3. \A c \in Batches : active'[c] = active[c]
    BY <1>1, <1>2, <2>1, NothingActiveDiscarded
  <2> HIDE DEF next, b
  <2> QED
    BY <1>1, <1>2, <2>1, <2>2, <2>3, ChangesProgress DEF Progress, b
<1> QED
  BY <1>3, <1>4, <1>5, <1>6

LEMMA CommitChanges ==
  ASSUME IInv, NEW w \in Workers, CommitChunk(w)
  PROVE  ChangesOnly(Job(w))
<1> DEFINE b == Job(w)
           row == batch[b]
           sampled == SampledIssues(w)
           lo == worker[w].position + 1
           hi == ChunkEnd(w)
           confirmed == worker[w].warnings_confirmed
           next == CommittedRow(row, lo, hi, confirmed, sampled)
<1>1. worker[w].pc # "idle"
  BY DEF CommitChunk, HasChunk
<1>2. b \in Batches /\ row \in BatchRow
  BY <1>1, WorkerOf, RowOf
<1>3. /\ batch' = [batch EXCEPT ![b] = next] /\ active' = active
      /\ row.status = "processing"
  BY DEF CommitChunk, HoldsBatch
<1> HIDE DEF sampled, lo, hi, confirmed
<1>4. /\ next.status = row.status /\ next.file = row.file /\ next.mode = row.mode
      /\ next.unseen = row.unseen /\ next.warnings_confirmed = row.warnings_confirmed
  BY <1>2 DEF CommittedRow, BatchRow
<1> HIDE DEF next, b
<1> QED
  BY <1>2, <1>3, <1>4, ChangesProgress DEF Progress, b

LEMMA LeaseChanges ==
  ASSUME IInv, NEW b \in Batches,
         LeaseExpires(b) \/ \E w \in Workers : ClaimNextImportBatch(w, b)
  PROVE  ChangesOnly(b)
<1>1. batch[b] \in BatchRow
  BY RowOf
<1>2. CASE LeaseExpires(b)
  <2> DEFINE next == [batch[b] EXCEPT !.lease_expired = TRUE]
  <2>1. /\ batch' = [batch EXCEPT ![b] = next] /\ active' = active
        /\ batch[b].status = "processing"
    BY <1>2 DEF LeaseExpires
  <2>2. /\ next.status = batch[b].status /\ next.file = batch[b].file
        /\ next.mode = batch[b].mode
        /\ next.unseen = batch[b].unseen
        /\ next.warnings_confirmed = batch[b].warnings_confirmed
    BY <1>1 DEF BatchRow
  <2> HIDE DEF next
  <2> QED
    BY <2>1, <2>2, ChangesProgress DEF Progress
<1>3. ASSUME NEW w \in Workers, ClaimNextImportBatch(w, b) PROVE ChangesOnly(b)
  <2> DEFINE next == ClaimedRow(batch[b], w)
  <2>1. /\ batch' = [batch EXCEPT ![b] = next] /\ active' = active
        /\ batch[b].status \in {"pending", "processing"}
    BY <1>3 DEF ClaimNextImportBatch, NextClaimable, Claimable
  <2>2. /\ next.status = "processing" /\ next.file = batch[b].file
        /\ next.mode = batch[b].mode
        /\ next.unseen = batch[b].unseen
        /\ next.warnings_confirmed = batch[b].warnings_confirmed
    BY <1>1 DEF ClaimedRow, BatchRow
  <2> HIDE DEF next
  <2> QED
    BY <2>1, <2>2, ChangesProgress DEF Progress
<1> QED
  BY <1>2, <1>3

LEMMA OneWorker ==
  ASSUME IInv, NEW w \in Workers, worker[w].pc # "publishing",
         NEW next, next.pc # "publishing", worker' = [worker EXCEPT ![w] = next]
  PROVE  KeepsPublishers
<1>1. worker \in [Workers -> WorkerState]
  BY DEF IInv, TypeOK
<1>2. ASSUME NEW v \in Workers, worker[v].pc = "publishing" \/ worker'[v].pc = "publishing"
      PROVE  worker'[v] = worker[v]
  <2>1. worker'[w] = next /\ (v # w => worker'[v] = worker[v])
    BY <1>1
  <2> QED
    BY <1>2, <2>1
<1> QED
  BY <1>2 DEF KeepsPublishers

LEMMA SameWorkers ==
  ASSUME UNCHANGED worker
  PROVE  KeepsPublishers
BY DEF KeepsPublishers

LEMMA WorkerKeepsPublishers ==
  ASSUME IInv, NEW w \in Workers, WorkerStep(w), ~ BeginPublication(w), ~ PublishBatch(w)
  PROVE  KeepsPublishers
<1>1. worker[w] \in WorkerState
  BY DEF IInv, TypeOK
<1>2. CASE LoadBatchWork(w)
  <2> DEFINE next == Loaded(worker[w], batch[Job(w)])
  <2>1. worker[w].pc = "claimed" /\ worker' = [worker EXCEPT ![w] = next]
    BY <1>2 DEF LoadBatchWork
  <2>2. next.pc = "rows"
    BY <1>1 DEF Loaded, WorkerState
  <2> HIDE DEF next
  <2> QED
    BY <2>1, <2>2, OneWorker
<1>3. CASE CommitChunk(w)
  <2> DEFINE next == PastChunk(worker[w], ChunkEnd(w), SampledIssues(w))
  <2>1. worker[w].pc = "rows" /\ worker' = [worker EXCEPT ![w] = next]
    BY <1>3 DEF CommitChunk, HasChunk
  <2>2. next.pc = worker[w].pc
    BY <1>1 DEF PastChunk, WorkerState
  <2> HIDE DEF next
  <2> QED
    BY <2>1, <2>2, OneWorker
<1>4. CASE FinishRows(w)
  <2> DEFINE next == [worker[w] EXCEPT !.pc =
                        IF Len(File(w)) > MaxRows THEN "over_limit" ELSE "finalize"]
  <2>1. worker[w].pc = "rows" /\ worker' = [worker EXCEPT ![w] = next]
    BY <1>4 DEF FinishRows
  <2>2. next.pc # "publishing"
    BY <1>1 DEF WorkerState
  <2> HIDE DEF next
  <2> QED
    BY <2>1, <2>2, OneWorker
<1>5. CASE \/ LoseLease(w) \/ CancelProcessingBatch(w) \/ RejectBatch(w)
           \/ FailAndDiscardBatch(w) \/ MarkWorkerFailure(w)
  <2>1. worker[w].pc # "publishing" /\ worker' = [worker EXCEPT ![w] = Idle]
    BY <1>5 DEF LoseLease, CancelProcessingBatch, HasChunk, RejectBatch, Finalizes,
                FailAndDiscardBatch, MarkWorkerFailure
  <2>2. Idle.pc # "publishing"
    BY DEF Idle
  <2> QED
    BY <2>1, <2>2, OneWorker
<1> QED
  BY <1>2, <1>3, <1>4, <1>5 DEF WorkerStep

GivesUp(w) ==
  worker[w].pc = "publishing" /\ (WorkerRaises(w) \/ WorkerCrashes(w))

Quiet == UNCHANGED <<batch, active>> /\ KeepsPublishers

Changes == KeepsPublishers /\ \E b \in Batches : ChangesOnly(b)

PublicationStep ==
  \E w \in Workers : BeginPublication(w) \/ GivesUp(w) \/ PublishBatch(w)

LEMMA WorkerSteps ==
  ASSUME IInv, NEW w \in Workers, WorkerStep(w)
  PROVE  Quiet \/ Changes \/ PublicationStep
<1>1. worker[w].pc # "idle" => Job(w) \in Batches
  BY WorkerOf
<1>2. CASE BeginPublication(w) \/ PublishBatch(w)
  BY <1>2 DEF PublicationStep
<1>3. CASE ~ BeginPublication(w) /\ ~ PublishBatch(w)
  <2>1. KeepsPublishers
    BY <1>3, WorkerKeepsPublishers
  <2>2. CASE \/ LoadBatchWork(w) \/ LoseLease(w) \/ FinishRows(w)
             \/ MarkWorkerFailure(w) /\ ~ MayMarkFailure(w)
    <3>1. UNCHANGED <<batch, active>>
      BY <2>2 DEF LoadBatchWork, LoseLease, FinishRows, MarkWorkerFailure
    <3> QED
      BY <2>1, <3>1 DEF Quiet
  <2>3. CASE \/ CancelProcessingBatch(w) \/ RejectBatch(w) \/ FailAndDiscardBatch(w)
             \/ MarkWorkerFailure(w) /\ MayMarkFailure(w)
    <3>1. worker[w].pc # "idle"
      BY <2>3 DEF CancelProcessingBatch, HasChunk, RejectBatch, Finalizes,
                  FailAndDiscardBatch, MarkWorkerFailure
    <3>2. ChangesOnly(Job(w))
      BY <2>3, WorkerEndsChanges
    <3> QED
      BY <1>1, <2>1, <3>1, <3>2 DEF Changes
  <2>4. CASE CommitChunk(w)
    <3>1. worker[w].pc # "idle"
      BY <2>4 DEF CommitChunk, HasChunk
    <3>2. ChangesOnly(Job(w))
      BY <2>4, CommitChanges
    <3> QED
      BY <1>1, <2>1, <3>1, <3>2 DEF Changes
  <2> QED
    BY <1>3, <2>2, <2>3, <2>4 DEF WorkerStep
<1> QED
  BY <1>2, <1>3

LEMMA Steps ==
  ASSUME IInv, [Next]_vars
  PROVE  Quiet \/ Changes \/ PublicationStep
<1>1. ASSUME NEW b \in Batches, ApiStep(b) \/ LeaseExpires(b) PROVE Changes
  <2>1. ChangesOnly(b)
    BY <1>1, ApiChanges, LeaseChanges
  <2>2. UNCHANGED worker
    BY <1>1 DEF ApiStep, CreateImportBatch, CancelImportBatch, RetryImportBatch,
                ConfirmImportBatchWarnings, LeaseExpires
  <2> QED
    BY <2>1, <2>2, SameWorkers DEF Changes
<1>2. ASSUME NEW w \in Workers, NEW b \in Batches, ClaimNextImportBatch(w, b)
      PROVE  Changes
  <2> DEFINE next == [worker[w] EXCEPT !.pc = "claimed", !.job = b]
  <2>1. ChangesOnly(b)
    BY <1>2, LeaseChanges
  <2>2. worker[w].pc = "idle" /\ worker' = [worker EXCEPT ![w] = next]
    BY <1>2 DEF ClaimNextImportBatch
  <2>3. next.pc = "claimed"
    BY DEF IInv, TypeOK, WorkerState
  <2> HIDE DEF next
  <2>4. KeepsPublishers
    BY <2>2, <2>3, OneWorker
  <2> QED
    BY <2>1, <2>4 DEF Changes
<1>3. ASSUME NEW w \in Workers, WorkerRaises(w) \/ WorkerCrashes(w)
      PROVE  Quiet \/ PublicationStep
  <2> DEFINE next == IF WorkerCrashes(w) THEN Idle
                     ELSE [worker[w] EXCEPT !.pc = "error", !.seen = {}]
  <2>1. UNCHANGED <<batch, active>> /\ worker' = [worker EXCEPT ![w] = next]
    BY <1>3 DEF WorkerRaises, WorkerCrashes
  <2>2. next.pc # "publishing"
    BY DEF IInv, TypeOK, WorkerState, Idle
  <2>3. worker[w].pc = "publishing" => PublicationStep
    BY <1>3 DEF PublicationStep, GivesUp
  <2> HIDE DEF next
  <2> QED
    BY <2>1, <2>2, <2>3, OneWorker DEF Quiet
<1>4. CASE UNCHANGED vars
  <2>1. UNCHANGED <<batch, active>> /\ UNCHANGED worker
    BY <1>4 DEF vars
  <2> QED
    BY <2>1, SameWorkers DEF Quiet
<1> QED
  BY <1>1, <1>2, <1>3, <1>4, WorkerSteps DEF Next, Claims

-----------------------------------------------------------------------------
(* Keys and whole files.                                                   *)

LEMMA PublishedFields ==
  ASSUME NEW row \in BatchRow, NEW n \in Nat, NEW unseen
  PROVE  LET next == PublishedRow(row, n, unseen) IN
         /\ next.status = IF row.warning_rows > 0 THEN "partially_succeeded" ELSE "succeeded"
         /\ next.file = row.file /\ next.mode = row.mode
         /\ next.warnings_confirmed = row.warnings_confirmed
         /\ next.valid_rows = row.valid_rows
         /\ next.total_rows = n /\ next.unseen = unseen
BY DEF PublishedRow, BatchRow

(* The rows that are there after a publication.                            *)
Goes(w, c, i) ==
  active[c][i] > 0 /\ <<c, i>> \in worker[w].seen /\ Displaced(Job(w), c, i)

LEMMA ActiveAfter ==
  ASSUME IInv, NEW w \in Workers, PublishBatch(w), NEW c \in Batches, NEW i \in RowNumbers
  PROVE  active'[c][i] =
           IF c = Job(w) THEN (IF i <= Len(batch[c].file) THEN 1 ELSE 0)
           ELSE IF Goes(w, c, i) THEN 0 ELSE active[c][i]
<1> DEFINE b == Job(w)
<1>1. /\ b \in Batches /\ active[b] = NoRows
      /\ \A j \in RowNumbers : staged[b][j] = IF j <= Len(batch[b].file) THEN 1 ELSE 0
  BY Published
<1>2. active'[c][i] =
        (IF Goes(w, c, i) THEN 0 ELSE active[c][i])
          + (IF c = b THEN staged[b][i] ELSE 0)
  BY DEF PublishBatch, PublishRows, Goes
<1>3. active[c][i] \in Nat
  BY DEF IInv, TypeOK
<1>4. CASE c = b
  <2>1. active[b][i] = 0
    BY <1>1 DEF NoRows
  <2>2. staged[b][i] = IF i <= Len(batch[b].file) THEN 1 ELSE 0
    BY <1>1
  <2> QED
    BY <1>2, <1>4, <2>1, <2>2
<1>5. CASE c # b
  <2> DEFINE left == IF Goes(w, c, i) THEN 0 ELSE active[c][i]
  <2>1. left \in Nat
    BY <1>3
  <2>2. active'[c][i] = left + 0
    BY <1>2, <1>5
  <2> HIDE DEF left
  <2>3. active'[c][i] = left
    BY <2>1, <2>2
  <2> QED
    BY <1>5, <2>3 DEF left
<1> QED
  BY <1>4, <1>5

(* An upsert displaces what has a key of its file.                         *)
LEMMA UpsertDisplaces ==
  ASSUME IInv, NEW w \in Workers, PublishBatch(w), NEW c \in Batches, NEW i \in RowNumbers,
         NEW j \in RowNumbers, j <= Len(batch[Job(w)].file),
         batch[Job(w)].mode \in {"upsert", "replace"},
         SameKey(batch[Job(w)].file[j].key, batch[c].file[i].key)
  PROVE  Displaced(Job(w), c, i)
<1> DEFINE b == Job(w)
<1>1. /\ staged[b][j] = 1 /\ b \in Batches /\ active[b] = NoRows
  BY Published
<1>2. staged[b][j] + active[b][j] > 0
  BY <1>1 DEF NoRows
<1> QED
  BY <1>2 DEF Displaced

LEMMA UniqueInFile ==
  ASSUME NEW f, NEW n \in Nat, NEW i \in 1 .. n, NEW j \in 1 .. n,
         ~ HasError(f, i), ~ HasError(f, j), f[i].key # NullKey, f[i].key = f[j].key
  PROVE  i = j
<1>1. ~ DuplicateKey(f, i) /\ ~ DuplicateKey(f, j)
  BY DEF HasError
<1>2. ~(i < j)
  <2>1. i < j => i \in 1 .. (j - 1)
    OBVIOUS
  <2> QED
    BY <1>1, <2>1 DEF DuplicateKey
<1>3. ~(j < i)
  <2>1. j < i => j \in 1 .. (i - 1)
    OBVIOUS
  <2> QED
    BY <1>1, <2>1 DEF DuplicateKey
<1> QED
  BY <1>2, <1>3

LEMMA KeysAfterPublication ==
  ASSUME IInv, KeysAreUnique, NEW w \in Workers, PublishBatch(w)
  PROVE  KeysAreUnique'
<1> DEFINE p == Job(w)
           n == Len(batch[p].file)
           next == PublishedRow(batch[p], n, Unseen(w))
<1>1. /\ p \in Batches /\ batch[p] \in BatchRow /\ n \in Nat /\ n <= MaxFileRows
      /\ \A i \in 1 .. n : Accepted(batch[p].file, i, batch[p].warnings_confirmed)
      /\ batch' = [batch EXCEPT ![p] = next]
  BY Published
<1>2. next.file = batch[p].file /\ next.mode = batch[p].mode /\ next.unseen = Unseen(w)
  <2> HIDE DEF p, n
  <2> QED
    BY <1>1, PublishedFields
<1>3. /\ \A c \in Batches : batch'[c].file = batch[c].file /\ batch'[c].mode = batch[c].mode
      /\ \A c \in Batches \ {p} : batch'[c].unseen = batch[c].unseen
      /\ batch'[p].unseen = Unseen(w)
  <2> HIDE DEF p, next
  <2> QED
    BY <1>1, <1>2 DEF IInv, TypeOK
(* A row with a key of the file that is still there was not seen.          *)
<1>4. ASSUME NEW c \in Batches \ {p}, NEW i \in RowNumbers, NEW j \in RowNumbers,
             batch[p].mode \in {"upsert", "replace"}, active'[p][i] > 0, active'[c][j] > 0,
             SameKey(batch[p].file[i].key, batch[c].file[j].key)
      PROVE  c \in batch'[p].unseen
  <2>1. i <= n /\ ~ Goes(w, c, j) /\ active[c][j] > 0
    BY <1>1, <1>4, ActiveAfter
  <2>2. Displaced(p, c, j)
    BY <1>4, <2>1, UpsertDisplaces
  <2>3. <<c, j>> \notin worker[w].seen
    BY <2>1, <2>2 DEF Goes
  <2>4. c \in Unseen(w)
    BY <2>1, <2>3 DEF Unseen
  <2> QED
    BY <1>3, <2>4
<1>5. SUFFICES ASSUME NEW b \in Batches, NEW c \in Batches,
                      NEW i \in RowNumbers, NEW j \in RowNumbers,
                      {batch[b].mode, batch[c].mode} \subseteq {"upsert", "replace"},
                      active'[b][i] > 0, active'[c][j] > 0,
                      SameKey(batch[b].file[i].key, batch[c].file[j].key)
               PROVE  \/ b = c /\ (i = j \/ batch[b].file[i].key # batch[c].file[j].key)
                      \/ c \in batch'[b].unseen
                      \/ b \in batch'[c].unseen
  BY <1>3 DEF KeysAreUnique
<1>6. CASE b = p /\ c = p
  <2>1. i <= n /\ j <= n
    BY <1>5, <1>6, ActiveAfter
  <2>2. i \in 1 .. n /\ j \in 1 .. n
    BY <1>1, <2>1 DEF RowNumbers
  <2>3. ~ HasError(batch[p].file, i) /\ ~ HasError(batch[p].file, j)
    BY <1>1, <2>2 DEF Accepted
  <2>4. batch[p].file[i].key # NullKey
    BY <1>5, <1>6 DEF SameKey
  <2> HIDE DEF n
  <2>5. batch[p].file[i].key = batch[p].file[j].key => i = j
    BY <1>1, <2>2, <2>3, <2>4, UniqueInFile
  <2> QED
    BY <1>6, <2>5
<1>7. CASE b = p /\ c # p
  BY <1>4, <1>5, <1>7
<1>8. CASE b # p /\ c = p
  <2>1. SameKey(batch[c].file[j].key, batch[b].file[i].key)
    BY <1>5 DEF SameKey
  <2> QED
    BY <1>4, <1>5, <1>8, <2>1
<1>9. CASE b # p /\ c # p
  <2>1. active[b][i] > 0 /\ active[c][j] > 0
    BY <1>5, <1>9, ActiveAfter
  <2> QED
    BY <1>3, <1>5, <1>9, <2>1 DEF KeysAreUnique
<1> QED
  BY <1>6, <1>7, <1>8, <1>9

(* A target loaded by upserts and replacements has one active row for a    *)
(* business key, however many batches, chunks and resumed runs loaded it,  *)
(* but for a value that a file writes in two ways and for publications of  *)
(* which one did not see the rows of the other.                            *)
THEOREM BusinessKeysAreUnique == Spec => []KeysAreUnique
<1>1. Init => KeysAreUnique
  BY DEF Init, NoRows, KeysAreUnique
<1>2. IInv /\ KeysAreUnique /\ [Next]_vars => KeysAreUnique'
  <2> SUFFICES ASSUME IInv, KeysAreUnique, [Next]_vars PROVE KeysAreUnique'
    OBVIOUS
  <2>1. CASE UNCHANGED <<batch, active>>
    BY <2>1 DEF KeysAreUnique
  <2>2. ASSUME NEW p \in Batches, ChangesOnly(p) PROVE KeysAreUnique'
    <3>1. ASSUME NEW c \in Batches, NEW i \in RowNumbers, active'[c][i] > 0
          PROVE  /\ active[c][i] > 0 /\ batch'[c].file = batch[c].file
                 /\ batch'[c].mode = batch[c].mode /\ batch'[c].unseen = batch[c].unseen
      <4>1. active[c][i] > 0
        BY <2>2, <3>1 DEF ChangesOnly
      <4>2. batch[c].status \in Succeeded
        BY <4>1 DEF IInv, RowInv, NoRows
      <4> QED
        BY <2>2, <4>1, <4>2 DEF ChangesOnly, RowStep, AbsentRow, Succeeded
    <3> QED
      BY <3>1 DEF KeysAreUnique
  <2>3. ASSUME NEW w \in Workers, PublishBatch(w) PROVE KeysAreUnique'
    BY <2>3, KeysAfterPublication
  <2>4. ASSUME NEW w \in Workers, BeginPublication(w) \/ GivesUp(w)
        PROVE  UNCHANGED <<batch, active>>
    BY <2>4 DEF BeginPublication, GivesUp, WorkerRaises, WorkerCrashes
  <2> QED
    BY <2>1, <2>2, <2>3, <2>4, Steps DEF Quiet, Changes, PublicationStep
<1> QED
  BY <1>1, <1>2, Invariant, PTL DEF Spec

LEMMA Submitted ==
  ASSUME NEW row, NEW next, RowStep(row, next), row = AbsentRow
  PROVE  \E f \in Files, mode \in Modes, confirmed \in BOOLEAN :
           /\ next.status = "pending" /\ next.file = f /\ next.mode = mode
           /\ next.warnings_confirmed = confirmed
<1>1. row.status = "absent"
  BY DEF AbsentRow
<1>2. PICK f \in Files, mode \in Modes, confirmed \in BOOLEAN :
        next = SubmittedRow(row, f, mode, confirmed)
  BY <1>1 DEF RowStep
<1>3. /\ next.status = "pending" /\ next.file = f /\ next.mode = mode
      /\ next.warnings_confirmed = confirmed
  BY <1>2 DEF SubmittedRow, AbsentRow
<1> QED
  BY <1>3

PublishesWhole(b) ==
  batch[b].status \notin Succeeded /\ batch'[b].status \in Succeeded =>
    LET f == batch[b].file IN
    /\ f # << >> /\ Len(f) <= MaxRows
    /\ \A i \in RowNumbers : active'[b][i] = IF i <= Len(f) THEN 1 ELSE 0
    /\ \A i \in 1 .. Len(f) : Accepted(f, i, batch[b].warnings_confirmed)
    /\ staged'[b] = NoRows
    /\ batch'[b].valid_rows = Len(f) /\ batch'[b].total_rows = Len(f)
    /\ batch'[b].status = "partially_succeeded" <=> \E i \in 1 .. Len(f) : f[i].warning

LEMMA PublicationIsWhole ==
  ASSUME IInv, NEW w \in Workers, PublishBatch(w), NEW b \in Batches
  PROVE  PublishesWhole(b)
<1> DEFINE p == Job(w)
           row == batch[p]
           f == row.file
           n == Len(f)
           next == PublishedRow(row, n, Unseen(w))
<1>1. /\ p \in Batches /\ row \in BatchRow /\ n \in Nat /\ n # 0 /\ n <= MaxRows
      /\ \A i \in 1 .. n : Accepted(f, i, row.warnings_confirmed)
      /\ row.valid_rows = n
      /\ row.warning_rows > 0 <=> \E i \in 1 .. n : f[i].warning
      /\ batch' = [batch EXCEPT ![p] = next]
  BY Published
<1>2. CASE b # p
  <2> HIDE DEF next, p
  <2> QED
    BY <1>1, <1>2 DEF PublishesWhole, IInv, TypeOK
<1>3. CASE b = p
  <2>1. /\ next.status = IF row.warning_rows > 0 THEN "partially_succeeded" ELSE "succeeded"
        /\ next.valid_rows = row.valid_rows /\ next.total_rows = n
    <3> HIDE DEF row, n
    <3> QED
      BY <1>1, PublishedFields
  <2>2. \A i \in RowNumbers : active'[p][i] = IF i <= n THEN 1 ELSE 0
    BY <1>1, ActiveAfter
  <2>3. staged'[p] = NoRows
    BY <1>1 DEF PublishBatch, PublishRows, IInv, TypeOK
  <2>4. f # << >>
    BY <1>1
  <2>5. batch'[p] = next
    <3> HIDE DEF next, p
    <3> QED
      BY <1>1 DEF IInv, TypeOK
  <2> HIDE DEF next, n, f
  <2>6. next.status = "partially_succeeded" <=> \E i \in 1 .. n : f[i].warning
    BY <1>1, <2>1
  <2> QED
    BY <1>1, <1>3, <2>1, <2>2, <2>3, <2>4, <2>5, <2>6 DEF PublishesWhole, n, f
<1> QED
  BY <1>2, <1>3

(* A success publishes the whole file, each row once and none of them      *)
(* erroneous, and its counts say so.                                       *)
THEOREM SuccessIsWholeFile == Spec => PublishesWholeFile
<1>1. IInv /\ [Next]_vars => \A b \in Batches : PublishesWhole(b)
  <2> SUFFICES ASSUME IInv, [Next]_vars, NEW b \in Batches PROVE PublishesWhole(b)
    OBVIOUS
  <2>1. CASE UNCHANGED <<batch, active>>
    BY <2>1 DEF PublishesWhole
  <2>2. ASSUME NEW c \in Batches, ChangesOnly(c) PROVE PublishesWhole(b)
    <3>1. CASE b # c
      BY <2>2, <3>1 DEF ChangesOnly, PublishesWhole
    <3>2. CASE b = c
      <4>1. batch[c] = AbsentRow => batch'[c].status = "pending"
        BY <2>2, Submitted DEF ChangesOnly
      <4> QED
        BY <2>2, <3>2, <4>1 DEF ChangesOnly, RowStep, Progress, Succeeded, PublishesWhole
    <3> QED
      BY <3>1, <3>2
  <2>3. ASSUME NEW w \in Workers, PublishBatch(w) PROVE PublishesWhole(b)
    BY <2>3, PublicationIsWhole
  <2>4. ASSUME NEW w \in Workers, BeginPublication(w) \/ GivesUp(w)
        PROVE  UNCHANGED <<batch, active>>
    BY <2>4 DEF BeginPublication, GivesUp, WorkerRaises, WorkerCrashes
  <2> QED
    BY <2>1, <2>2, <2>3, <2>4, Steps DEF Quiet, Changes, PublicationStep
<1>2. (\A b \in Batches : PublishesWhole(b)) =>
        \A b \in Batches :
          batch[b].status \notin Succeeded /\ batch'[b].status \in Succeeded =>
            LET f == batch[b].file IN
            /\ f # << >> /\ Len(f) <= MaxRows
            /\ \A i \in RowNumbers : active'[b][i] = IF i <= Len(f) THEN 1 ELSE 0
            /\ \A i \in 1 .. Len(f) : Accepted(f, i, batch[b].warnings_confirmed)
            /\ staged'[b] = NoRows
            /\ batch'[b].valid_rows = Len(f) /\ batch'[b].total_rows = Len(f)
            /\ batch'[b].status = "partially_succeeded"
                 <=> \E i \in 1 .. Len(f) : f[i].warning
  BY DEF PublishesWhole
<1> QED
  BY <1>1, <1>2, Invariant, PTL DEF Spec, PublishesWholeFile

-----------------------------------------------------------------------------
(* The refinement.  What ImportPublication speaks of, in the pipeline:     *)

requests ==
  [b \in Batches |->
     [file |-> batch[b].file, mode |-> batch[b].mode,
      warnings_confirmed |-> batch[b].warnings_confirmed]]

states == [b \in Batches |-> batch[b].status]

Publishes(v, b) == worker[v].pc = "publishing" /\ worker[v].job = b

snapshots ==
  [b \in Batches |->
     {worker[w].seen : w \in {v \in Workers :
        worker[v].pc = "publishing" /\ worker[v].job = b}}]

UnchangedSeen ==
  UNCHANGED <<requests, states, ActiveRows, snapshots>>

LEMMA RefinesSubmit ==
  ASSUME NEW b \in Batches, NEW f \in Files, NEW mode \in Modes, NEW confirmed \in BOOLEAN,
         states[b] = "absent", states' = [states EXCEPT ![b] = "pending"],
         requests' = [requests EXCEPT ![b] =
           [file |-> f, mode |-> mode, warnings_confirmed |-> confirmed]],
         ActiveRows' = ActiveRows, snapshots' = snapshots
  PROVE  Publication!Submit(b)
BY DEF Publication!Submit, Publication!Move, states, requests, snapshots

LEMMA RefinesMove ==
  ASSUME NEW b \in Batches, NEW to, states' = [states EXCEPT ![b] = to],
         requests' = requests, ActiveRows' = ActiveRows, snapshots' = snapshots
  PROVE  /\ states[b] = "pending" /\ to = "processing" => Publication!Start(b)
         /\ states[b] = "processing" /\ to = "failed" /\ snapshots[b] = {}
              => Publication!Fail(b)
         /\ states[b] \in MayRunAgain /\ to = "cancelled" /\ snapshots[b] = {}
              => Publication!Cancel(b)
         /\ states[b] = "failed" /\ to = "pending" => Publication!Resubmit(b)
BY DEF Publication!Start, Publication!Fail, Publication!Cancel, Publication!Resubmit,
       Publication!Move, states, requests, snapshots, MayRunAgain

LEMMA RefinesConfirm ==
  ASSUME NEW b \in Batches, states[b] = "failed", states' = [states EXCEPT ![b] = "pending"],
         requests' = [requests EXCEPT ![b].warnings_confirmed = TRUE],
         ActiveRows' = ActiveRows, snapshots' = snapshots
  PROVE  Publication!Resubmit(b)
BY DEF Publication!Resubmit, Publication!Move, states, requests, snapshots

LEMMA RefinesInit == Init => Publication!Init
<1> SUFFICES ASSUME Init PROVE Publication!Init
  OBVIOUS
<1>1. ActiveRows = {}
  BY DEF Init, NoRows, ActiveRows
<1>2. \A b \in Batches : snapshots[b] = {}
  BY DEF Init, Idle, snapshots
<1>3. snapshots = [b \in Batches |-> {}]
  BY <1>2 DEF snapshots
<1> QED
  BY <1>1, <1>3 DEF Init, AbsentRow, Publication!Init, Publication!NoRequest, snapshots

(* A batch has one publisher, its lease holder.                            *)
LEMMA OnePublisher ==
  ASSUME IInv, NEW v \in Workers, NEW b, Publishes(v, b)
  PROVE  /\ b \in Batches /\ batch[b].status = "processing"
         /\ batch[b].lease_owner = v
BY WorkerOf DEF Publishes, Job, ViewInv, MayPublish

LEMMA SnapshotOf ==
  ASSUME NEW w \in Workers, NEW b \in Batches,
         \A v \in Workers \ {w} : ~ Publishes(v, b)
  PROVE  snapshots[b] = IF Publishes(w, b) THEN {worker[w].seen} ELSE {}
<1>1. snapshots[b] = {worker[v].seen : v \in {u \in Workers : Publishes(u, b)}}
  BY DEF snapshots, Publishes
<1>2. {u \in Workers : Publishes(u, b)} = IF Publishes(w, b) THEN {w} ELSE {}
  OBVIOUS
<1> QED
  BY <1>1, <1>2

(* One worker begins or ends to publish its batch.                         *)
LEMMA SnapshotChanges ==
  ASSUME IInv, NEW w \in Workers, Job(w) \in Batches, HoldsBatch(w),
         NEW next, worker' = [worker EXCEPT ![w] = next],
         next.pc = "publishing" => next.job = Job(w)
  PROVE  /\ snapshots[Job(w)] =
              IF worker[w].pc = "publishing" THEN {worker[w].seen} ELSE {}
         /\ snapshots' = [snapshots EXCEPT ![Job(w)] =
              IF next.pc = "publishing" THEN {next.seen} ELSE {}]
<1> DEFINE b == Job(w)
<1>1. worker'[w] = next /\ \A v \in Workers \ {w} : worker'[v] = worker[v]
  BY DEF IInv, TypeOK
<1>2. ASSUME NEW v \in Workers \ {w}
      PROVE  /\ ~ Publishes(v, b)
             /\ ~ (worker'[v].pc = "publishing" /\ worker'[v].job = b)
  <2>1. ~ Publishes(v, b)
    BY OnePublisher DEF HoldsBatch
  <2> QED
    BY <1>1, <2>1 DEF Publishes, Job
<1>3. snapshots[b] = IF Publishes(w, b) THEN {worker[w].seen} ELSE {}
  BY <1>2, SnapshotOf
<1>4. snapshots'[b] = IF next.pc = "publishing" THEN {next.seen} ELSE {}
  <2>1. snapshots'[b] = {worker'[v].seen : v \in {u \in Workers :
                           worker'[u].pc = "publishing" /\ worker'[u].job = b}}
    BY DEF snapshots
  <2>2. {u \in Workers : worker'[u].pc = "publishing" /\ worker'[u].job = b}
          = IF next.pc = "publishing" THEN {w} ELSE {}
    BY <1>1, <1>2 DEF Publishes
  <2> QED
    BY <1>1, <2>1, <2>2
<1>5. ASSUME NEW c \in Batches, c # b PROVE snapshots'[c] = snapshots[c]
  <2>1. ASSUME NEW u \in Workers
        PROVE  worker'[u].pc = "publishing" /\ worker'[u].job = c
                 <=> worker[u].pc = "publishing" /\ worker[u].job = c /\ u # w
    BY <1>1, <1>5 DEF Job
  <2>2. ASSUME NEW u \in Workers
        PROVE  worker[u].pc = "publishing" /\ worker[u].job = c => u # w
    BY <1>5 DEF Job
  <2>3. {u \in Workers : worker'[u].pc = "publishing" /\ worker'[u].job = c}
          = {u \in Workers : worker[u].pc = "publishing" /\ worker[u].job = c}
    BY <2>1, <2>2
  <2>4. \A u \in {u \in Workers : worker[u].pc = "publishing" /\ worker[u].job = c} :
          worker'[u] = worker[u]
    BY <1>1, <2>2
  <2> QED
    BY <2>3, <2>4 DEF snapshots
<1>6. snapshots' = [c \in Batches |-> snapshots'[c]]
  BY DEF snapshots
<1>7. snapshots = [c \in Batches |-> snapshots[c]]
  BY DEF snapshots
<1>8. Publishes(w, b) <=> worker[w].pc = "publishing"
  BY DEF Publishes, Job
<1> HIDE DEF b
<1> QED
  BY <1>3, <1>4, <1>5, <1>6, <1>7, <1>8 DEF b

LEMMA SnapshotsKept ==
  ASSUME KeepsPublishers
  PROVE  snapshots' = snapshots
<1>1. ASSUME NEW c \in Batches PROVE snapshots'[c] = snapshots[c]
  <2>1. {u \in Workers : worker'[u].pc = "publishing" /\ worker'[u].job = c}
          = {u \in Workers : worker[u].pc = "publishing" /\ worker[u].job = c}
    BY DEF KeepsPublishers
  <2>2. \A u \in {u \in Workers : worker[u].pc = "publishing" /\ worker[u].job = c} :
          worker'[u] = worker[u]
    BY DEF KeepsPublishers
  <2> QED
    BY <2>1, <2>2 DEF snapshots
<1>2. /\ snapshots' = [c \in Batches |-> snapshots'[c]]
      /\ snapshots = [c \in Batches |-> snapshots[c]]
  BY DEF snapshots
<1> QED
  BY <1>1, <1>2

(* A step that changes one row is seen in that row only.                   *)
LEMMA SeenChange ==
  ASSUME NEW b \in Batches, \A c \in Batches \ {b} : batch'[c] = batch[c]
  PROVE  /\ states' = [states EXCEPT ![b] = batch'[b].status]
         /\ requests' = [requests EXCEPT ![b] =
              [file |-> batch'[b].file, mode |-> batch'[b].mode,
               warnings_confirmed |-> batch'[b].warnings_confirmed]]
<1>1. ASSUME NEW c \in Batches
      PROVE  /\ states'[c] = [states EXCEPT ![b] = batch'[b].status][c]
             /\ requests'[c] = [requests EXCEPT ![b] =
                  [file |-> batch'[b].file, mode |-> batch'[b].mode,
                   warnings_confirmed |-> batch'[b].warnings_confirmed]][c]
  BY DEF states, requests
<1>2. /\ states' = [c \in Batches |-> states'[c]]
      /\ requests' = [c \in Batches |-> requests'[c]]
  BY DEF states, requests
<1> QED
  BY <1>1, <1>2 DEF states, requests

LEMMA SameRows ==
  ASSUME \A c \in Batches : active'[c] = active[c]
  PROVE  ActiveRows' = ActiveRows
BY DEF ActiveRows

LEMMA SameRequest ==
  ASSUME NEW b \in Batches, \A c \in Batches \ {b} : batch'[c] = batch[c],
         batch'[b].file = batch[b].file, batch'[b].mode = batch[b].mode,
         batch'[b].warnings_confirmed = batch[b].warnings_confirmed
  PROVE  requests' = requests
<1>1. ASSUME NEW c \in Batches
      PROVE  /\ batch'[c].file = batch[c].file /\ batch'[c].mode = batch[c].mode
             /\ batch'[c].warnings_confirmed = batch[c].warnings_confirmed
  OBVIOUS
<1> QED
  BY <1>1 DEF requests

(* Who is seen to publish has its lease after a step as before.            *)
LEMMA NotPublished ==
  ASSUME IInv', KeepsPublishers, NEW b \in Batches, batch'[b].status # "processing"
  PROVE  snapshots[b] = {}
<1>1. ASSUME NEW v \in Workers, Publishes(v, b) PROVE FALSE
  <2>1. worker'[v] = worker[v]
    BY <1>1 DEF KeepsPublishers, Publishes
  <2>2. worker'[v].pc = "publishing" /\ worker'[v].job = b
    BY <1>1, <2>1 DEF Publishes
  <2>3. ViewInv(v, worker'[v], batch'[b])
    BY <2>2 DEF IInv, Job
  <2> QED
    BY <2>2, <2>3 DEF ViewInv, MayPublish
<1>2. snapshots[b] = {worker[v].seen : v \in {u \in Workers : Publishes(u, b)}}
  BY DEF snapshots, Publishes
<1>3. {u \in Workers : Publishes(u, b)} = {}
  BY <1>1
<1> QED
  BY <1>2, <1>3

LEMMA RefinesChange ==
  ASSUME IInv, IInv', KeepsPublishers, NEW b \in Batches, ChangesOnly(b)
  PROVE  Publication!Next \/ UnchangedSeen
<1> DEFINE row == batch[b]
           next == batch'[b]
<1>1. /\ states' = [states EXCEPT ![b] = next.status] /\ ActiveRows' = ActiveRows
      /\ snapshots' = snapshots
      /\ requests' = [requests EXCEPT ![b] =
           [file |-> next.file, mode |-> next.mode,
            warnings_confirmed |-> next.warnings_confirmed]]
      /\ RowStep(row, next)
  BY SeenChange, SameRows, SnapshotsKept DEF ChangesOnly
<1>2. CASE row = AbsentRow
  <2>1. PICK f \in Files, mode \in Modes, confirmed \in BOOLEAN :
          /\ next.status = "pending" /\ next.file = f /\ next.mode = mode
          /\ next.warnings_confirmed = confirmed
    BY <1>1, <1>2, Submitted
  <2>2. states[b] = "absent"
    BY <1>2 DEF states, AbsentRow
  <2>3. /\ states' = [states EXCEPT ![b] = "pending"]
        /\ requests' = [requests EXCEPT ![b] =
             [file |-> f, mode |-> mode, warnings_confirmed |-> confirmed]]
    BY <1>1, <2>1
  <2>4. Publication!Submit(b)
    BY <1>1, <2>2, <2>3, RefinesSubmit
  <2> QED
    BY <2>4 DEF Publication!Next
<1>3. CASE row # AbsentRow
  <2>1. next.file = row.file /\ next.mode = row.mode /\ Progress(row, next)
    BY <1>1, <1>3 DEF RowStep
  <2>2. states[b] = row.status
    BY DEF states
  <2>3. next.warnings_confirmed = row.warnings_confirmed => requests' = requests
    BY <2>1, SameRequest DEF ChangesOnly
  <2>4. CASE next.status = row.status /\ next.warnings_confirmed = row.warnings_confirmed
    <3>1. states' = states
      BY <1>1, <2>2, <2>4 DEF states
    <3> QED
      BY <1>1, <2>3, <2>4, <3>1 DEF UnchangedSeen
  <2>5. CASE /\ next.warnings_confirmed = row.warnings_confirmed
             /\ \/ row.status = "pending" /\ next.status = "processing"
                \/ row.status = "processing" /\ next.status = "failed"
                \/ row.status \in MayRunAgain /\ next.status = "cancelled"
                \/ row.status = "failed" /\ next.status = "pending"
    <3>1. next.status \in {"failed", "cancelled"} => snapshots[b] = {}
      BY NotPublished
    <3>2. \/ Publication!Start(b) \/ Publication!Fail(b) \/ Publication!Cancel(b)
          \/ Publication!Resubmit(b)
      BY <1>1, <2>2, <2>3, <2>5, <3>1, RefinesMove
    <3> QED
      BY <3>2 DEF Publication!Next
  <2>6. CASE /\ row.status = "failed" /\ next.status = "pending"
             /\ next.warnings_confirmed = TRUE
    <3>1. requests' = [requests EXCEPT ![b].warnings_confirmed = TRUE]
      BY <1>1, <2>1, <2>6 DEF requests
    <3>2. Publication!Resubmit(b)
      BY <1>1, <2>2, <2>6, <3>1, RefinesConfirm
    <3> QED
      BY <3>2 DEF Publication!Next
  <2> QED
    BY <2>1, <2>4, <2>5, <2>6 DEF Progress
<1> QED
  BY <1>2, <1>3

LEMMA Asked ==
  ASSUME IInv, NEW b \in Batches
  PROVE  /\ requests[b].file = batch[b].file /\ requests[b].mode = batch[b].mode
         /\ requests[b].warnings_confirmed = batch[b].warnings_confirmed
         /\ states[b] = batch[b].status
         /\ DOMAIN batch[b].file = 1 .. Len(batch[b].file)
<1>1. batch[b].file \in Seq(RowData)
  BY RowOf DEF BatchRow
<1> QED
  BY <1>1 DEF requests, states

LEMMA RefinesReplaces ==
  ASSUME IInv, NEW w \in Workers, PublishBatch(w), NEW c \in Batches, NEW i \in RowNumbers
  PROVE  Publication!Replaces(Job(w), <<c, i>>) <=> Displaced(Job(w), c, i)
<1> DEFINE b == Job(w)
           f == batch[b].file
           n == Len(f)
           key == batch[c].file[i].key
<1>1. /\ b \in Batches /\ n \in Nat /\ n <= MaxFileRows /\ active[b] = NoRows
      /\ \A j \in RowNumbers : staged[b][j] = IF j <= n THEN 1 ELSE 0
  BY Published
<1>2. /\ requests[b].file = f /\ requests[b].mode = batch[b].mode
      /\ requests[c].file = batch[c].file /\ DOMAIN f = 1 .. n
  BY <1>1, Asked
<1>3. \A j \in RowNumbers : staged[b][j] + active[b][j] > 0 <=> j <= n
  BY <1>1 DEF NoRows
<1>4. (\E j \in RowNumbers : staged[b][j] + active[b][j] > 0 /\ SameKey(f[j].key, key))
        <=> \E j \in DOMAIN f : SameKey(f[j].key, key)
  <2>1. ASSUME NEW j \in 1 .. n PROVE j \in RowNumbers /\ j <= n
    BY <1>1, FilesAssumption DEF RowNumbers
  <2>2. ASSUME NEW j \in RowNumbers, j <= n PROVE j \in 1 .. n
    BY <1>1, <2>2 DEF RowNumbers
  <2> HIDE DEF n, f, key
  <2> QED
    BY <1>2, <1>3, <2>1, <2>2
<1>5. Publication!Replaces(b, <<c, i>>) <=>
        \/ batch[b].mode = "replace"
        \/ /\ batch[b].mode = "upsert"
           /\ \E j \in DOMAIN f : Publication!SameKey(f[j].key, key)
  BY <1>2 DEF Publication!Replaces, requests
<1>6. \A k, l : Publication!SameKey(k, l) <=> SameKey(k, l)
  BY DEF Publication!SameKey, SameKey
<1>7. Displaced(b, c, i) <=>
        \/ batch[b].mode = "replace"
        \/ /\ batch[b].mode = "upsert"
           /\ \E j \in RowNumbers : staged[b][j] + active[b][j] > 0 /\ SameKey(f[j].key, key)
  BY DEF Displaced
<1> HIDE DEF b, f, n, key
<1> QED
  BY <1>4, <1>5, <1>6, <1>7 DEF b

LEMMA RefinesRows ==
  ASSUME IInv, NEW w \in Workers, PublishBatch(w)
  PROVE  ActiveRows' =
           {row \in ActiveRows :
              ~(row \in worker[w].seen /\ Publication!Replaces(Job(w), row))}
             \cup {<<Job(w), i>> : i \in DOMAIN batch[Job(w)].file}
<1> DEFINE b == Job(w)
           n == Len(batch[b].file)
           kept == {row \in ActiveRows :
                      ~(row \in worker[w].seen /\ Publication!Replaces(b, row))}
           loaded == {<<b, i>> : i \in DOMAIN batch[b].file}
<1>1. /\ b \in Batches /\ n \in Nat /\ n <= MaxFileRows /\ active[b] = NoRows
      /\ DOMAIN batch[b].file = 1 .. n
  BY Published, Asked
<1>2. ActiveRows' \subseteq Batches \X RowNumbers
  BY DEF ActiveRows
<1>3. kept \cup loaded \subseteq Batches \X RowNumbers
  <2>1. kept \subseteq Batches \X RowNumbers
    BY DEF ActiveRows
  <2>2. \A i \in 1 .. n : i \in RowNumbers
    BY <1>1, FilesAssumption DEF RowNumbers
  <2> QED
    BY <1>1, <2>1, <2>2
<1>4. ASSUME NEW c \in Batches, NEW i \in RowNumbers
      PROVE  <<c, i>> \in ActiveRows' <=> <<c, i>> \in kept \cup loaded
  <2>1. <<c, i>> \in ActiveRows' <=> active'[c][i] > 0
    BY DEF ActiveRows
  <2>2. <<c, i>> \in kept <=> active[c][i] > 0 /\ ~ Goes(w, c, i)
    BY RefinesReplaces DEF ActiveRows, Goes
  <2>3. <<c, i>> \in loaded <=> c = b /\ i <= n
    <3>1. <<c, i>> \in loaded <=> c = b /\ i \in 1 .. n
      BY <1>1
    <3>2. i \in 1 .. n <=> i <= n
      BY <1>1 DEF RowNumbers
    <3> QED
      BY <3>1, <3>2
  <2>4. active'[c][i] =
           IF c = b THEN (IF i <= n THEN 1 ELSE 0)
           ELSE IF Goes(w, c, i) THEN 0 ELSE active[c][i]
    BY ActiveAfter
  <2>5. c = b => active[c][i] = 0
    BY <1>1 DEF NoRows
  <2> HIDE DEF b, n, kept, loaded
  <2> QED
    BY <2>1, <2>2, <2>3, <2>4, <2>5
<1> HIDE DEF kept, loaded
<1>5. \A row \in Batches \X RowNumbers : row \in ActiveRows' <=> row \in kept \cup loaded
  BY <1>4
<1>6. ActiveRows' = kept \cup loaded
  BY <1>2, <1>3, <1>5
<1> QED
  BY <1>6 DEF kept, loaded

LEMMA RefinesPublishable ==
  ASSUME IInv, NEW w \in Workers, worker[w].pc \in {"finalize", "publishing"},
         HoldsBatch(w), Verdict(batch[Job(w)], Len(batch[Job(w)].file)) = "none"
  PROVE  /\ Publication!Publishable(Job(w))
         /\ Publication!HasWarnings(Job(w)) <=>
              \E i \in 1 .. Len(batch[Job(w)].file) : batch[Job(w)].file[i].warning
<1> DEFINE b == Job(w)
           f == batch[b].file
           n == Len(f)
           confirmed == batch[b].warnings_confirmed
<1>1. /\ b \in Batches /\ n \in Nat /\ n # 0 /\ n <= MaxRows
      /\ \A i \in 1 .. n : Accepted(f, i, confirmed)
  BY CleanBatch
<1>2. /\ requests[b].file = f /\ DOMAIN f = 1 .. n
      /\ requests[b].warnings_confirmed = confirmed
  BY <1>1, Asked
<1>3. Publication!HasWarnings(b) <=> \E i \in 1 .. n : f[i].warning
  BY <1>2 DEF Publication!HasWarnings, requests
<1>4. (\E i \in 1 .. n : f[i].warning) => confirmed
  BY <1>1 DEF Accepted
<1>5. ASSUME NEW i \in 1 .. n
      PROVE  /\ ~ f[i].error
             /\ f[i].key # NullKey => \A j \in 1 .. (i - 1) : f[j].key # f[i].key
  BY <1>1 DEF Accepted, HasError, DuplicateKey
<1>6. f # << >>
  BY <1>1
<1>7. Publication!Publishable(b) <=>
        /\ f # << >> /\ n <= MaxRows
        /\ \A i \in 1 .. n :
             /\ ~ f[i].error
             /\ f[i].key # NullKey => \A j \in 1 .. (i - 1) : f[j].key # f[i].key
        /\ Publication!HasWarnings(b) => confirmed
  BY <1>2 DEF Publication!Publishable, requests
<1> HIDE DEF f, n, confirmed
<1>8. Publication!Publishable(b)
  BY <1>1, <1>3, <1>4, <1>5, <1>6, <1>7
<1> QED
  BY <1>3, <1>8 DEF f, n

LEMMA RefinesPublish ==
  ASSUME IInv, NEW w \in Workers, PublishBatch(w)
  PROVE  Publication!Next
<1> DEFINE b == Job(w)
           row == batch[b]
           n == Len(row.file)
           next == PublishedRow(row, n, Unseen(w))
           to == IF Publication!HasWarnings(b) THEN "partially_succeeded" ELSE "succeeded"
           seen == worker[w].seen
<1>1. /\ b \in Batches /\ row \in BatchRow /\ row.status = "processing" /\ n \in Nat
      /\ row.warning_rows > 0 <=> \E i \in 1 .. n : row.file[i].warning
      /\ batch' = [batch EXCEPT ![b] = next]
  BY Published
<1>2. /\ next.status = IF row.warning_rows > 0 THEN "partially_succeeded" ELSE "succeeded"
      /\ next.file = row.file /\ next.mode = row.mode
      /\ next.warnings_confirmed = row.warnings_confirmed
  <2> HIDE DEF n, row
  <2> QED
    BY <1>1, PublishedFields
<1>3. /\ worker[w].pc = "publishing" /\ worker' = [worker EXCEPT ![w] = Idle]
      /\ HoldsBatch(w) /\ Verdict(row, n) = "none"
  BY Publisher DEF PublishBatch
<1>4. Publication!Publishable(b) /\ next.status = to
  BY <1>1, <1>2, <1>3, RefinesPublishable
<1>5. batch'[b] = next /\ \A c \in Batches \ {b} : batch'[c] = batch[c]
  <2> HIDE DEF next, b
  <2> QED
    BY <1>1 DEF IInv, TypeOK
<1>6. requests' = requests
  <2> HIDE DEF next, b
  <2> QED
    BY <1>1, <1>2, <1>5, SameRequest
<1>7. states' = [states EXCEPT ![b] = to]
  <2> HIDE DEF next, b, to
  <2> QED
    BY <1>1, <1>4, <1>5, SeenChange
<1>8. snapshots[b] = {seen} /\ snapshots' = [snapshots EXCEPT ![b] = {}]
  <2>1. Idle.pc # "publishing"
    BY DEF Idle
  <2> QED
    BY <1>1, <1>3, <2>1, SnapshotChanges
<1>9. /\ states[b] = "processing" /\ requests[b].file = row.file
      /\ ActiveRows' = {r \in ActiveRows : ~(r \in seen /\ Publication!Replaces(b, r))}
                         \cup {<<b, i>> : i \in DOMAIN row.file}
  BY <1>1, Asked, RefinesRows
<1>10. ASSUME NEW p \in Batches, p = b PROVE Publication!Publish(p)
  <2>1. /\ states[p] = "processing" /\ Publication!Publishable(p)
        /\ requests[p].file = row.file /\ requests' = requests
        /\ states' = [states EXCEPT ![p] =
             IF Publication!HasWarnings(p) THEN "partially_succeeded" ELSE "succeeded"]
        /\ seen \in snapshots[p] /\ snapshots' = [snapshots EXCEPT ![p] = {}]
        /\ ActiveRows' = {r \in ActiveRows : ~(r \in seen /\ Publication!Replaces(p, r))}
                           \cup {<<p, i>> : i \in DOMAIN row.file}
    BY <1>4, <1>6, <1>7, <1>8, <1>9, <1>10
  <2> HIDE DEF row, seen
  <2> QED
    BY <2>1 DEF Publication!Publish, Publication!Move, states, requests, snapshots
<1> QED
  BY <1>1, <1>10 DEF Publication!Next

LEMMA RefinesBegin ==
  ASSUME IInv, NEW w \in Workers, BeginPublication(w)
  PROVE  Publication!Next
<1> DEFINE p == Job(w)
           next == [worker[w] EXCEPT !.pc = "publishing", !.seen = ActiveRows]
<1>1. /\ worker[w].pc = "finalize" /\ HoldsBatch(w)
      /\ Verdict(batch[p], Len(batch[p].file)) = "none"
      /\ worker' = [worker EXCEPT ![w] = next] /\ UNCHANGED <<batch, active>>
  BY DEF BeginPublication, Finalizes, File
<1>2. /\ p \in Batches /\ worker[w] \in WorkerState /\ states[p] = "processing"
  BY <1>1, WorkerOf DEF HoldsBatch, states
<1>3. next.pc = "publishing" /\ next.job = p /\ next.seen = ActiveRows
  BY <1>2 DEF WorkerState, Job
<1> HIDE DEF next, p
<1>4. snapshots[p] = {} /\ snapshots' = [snapshots EXCEPT ![p] = {ActiveRows}]
  BY <1>1, <1>2, <1>3, SnapshotChanges DEF p
<1>5. Publication!Publishable(p)
  BY <1>1, RefinesPublishable DEF p
<1>6. UNCHANGED <<requests, states, ActiveRows>>
  BY <1>1 DEF requests, states, ActiveRows
<1>7. ASSUME NEW b \in Batches, b = p PROVE Publication!BeginPublish(b)
  BY <1>2, <1>4, <1>5, <1>6, <1>7 DEF Publication!BeginPublish, requests, states, snapshots
<1> QED
  BY <1>2, <1>7 DEF Publication!Next

LEMMA RefinesGiveUp ==
  ASSUME IInv, NEW w \in Workers, GivesUp(w)
  PROVE  Publication!Next
<1> DEFINE p == Job(w)
           next == IF WorkerCrashes(w) THEN Idle
                   ELSE [worker[w] EXCEPT !.pc = "error", !.seen = {}]
<1>1. /\ worker[w].pc = "publishing" /\ HoldsBatch(w) /\ p \in Batches
      /\ worker' = [worker EXCEPT ![w] = next] /\ UNCHANGED <<batch, active>>
  BY Publisher DEF GivesUp, WorkerRaises, WorkerCrashes
<1>2. next.pc # "publishing"
  BY DEF IInv, TypeOK, WorkerState, Idle
<1> HIDE DEF next, p
<1>3. snapshots' = [snapshots EXCEPT ![p] = {}]
  BY <1>1, <1>2, SnapshotChanges DEF p
<1>4. UNCHANGED <<requests, states, ActiveRows>>
  BY <1>1 DEF requests, states, ActiveRows
<1>5. ASSUME NEW b \in Batches, b = p PROVE Publication!GiveUp(b)
  BY <1>3, <1>4, <1>5 DEF Publication!GiveUp, requests, states, snapshots
<1> QED
  BY <1>1, <1>5 DEF Publication!Next

(* Whatever workers, crashes, expired leases and retries do to each other, *)
(* whoever submits files and reads the target table sees the behaviour     *)
(* ImportPublication specifies: whole files, and replacements that take    *)
(* what was active when their DELETE began.                                *)
THEOREM PipelineImplementsPublication == Spec => ImplementsPublication
<1>1. IInv /\ IInv' /\ [Next]_vars => [Publication!Next]_(Publication!vars)
  <2> SUFFICES ASSUME IInv, IInv', [Next]_vars
               PROVE  Publication!Next \/ UnchangedSeen
    BY DEF Publication!vars, UnchangedSeen, requests, states, snapshots
  <2>1. CASE Quiet
    BY <2>1, SnapshotsKept DEF Quiet, UnchangedSeen, requests, states, ActiveRows
  <2>2. CASE Changes
    BY <2>2, RefinesChange DEF Changes
  <2>3. CASE PublicationStep
    BY <2>3, RefinesBegin, RefinesGiveUp, RefinesPublish DEF PublicationStep
  <2> QED
    BY <2>1, <2>2, <2>3, Steps
<1> QED
  BY <1>1, RefinesInit, Invariant, PTL DEF Spec, ImplementsPublication, Publication!Spec

-----------------------------------------------------------------------------
(* The quality report: ReportsInv is an invariant of ReportsSpec.  A step  *)
(* of the pipeline keeps the files of the batches, and a batch ends with   *)
(* findings only in the hands of a worker that has attached them.          *)

FilesStay ==
  \A b \in Batches : batch[b].status # "absent" =>
    batch'[b].status # "absent" /\ batch'[b].file = batch[b].file

LEMMA NextKeepsFiles ==
  ASSUME IInv, [Next]_vars
  PROVE  FilesStay
<1> SUFFICES ASSUME NEW b \in Batches, batch[b].status # "absent"
             PROVE  batch'[b].status # "absent" /\ batch'[b].file = batch[b].file
  BY DEF FilesStay
<1>1. CASE UNCHANGED batch
  BY <1>1
<1>2. ASSUME NEW c \in Batches, ChangesOnly(c)
      PROVE  batch'[b].status # "absent" /\ batch'[b].file = batch[b].file
  <2>1. CASE b # c
    BY <1>2, <2>1 DEF ChangesOnly
  <2>2. CASE b = c
    <3>1. batch[b] # AbsentRow
      BY DEF AbsentRow
    <3> QED
      BY <1>2, <2>2, <3>1 DEF ChangesOnly, RowStep, Progress
  <2> QED
    BY <2>1, <2>2
<1>3. ASSUME NEW w \in Workers, PublishBatch(w)
      PROVE  batch'[b].status # "absent" /\ batch'[b].file = batch[b].file
  <2> DEFINE p == Job(w)
             row == batch[p]
             n == Len(row.file)
             next == PublishedRow(row, n, Unseen(w))
  <2>1. /\ p \in Batches /\ row \in BatchRow /\ n \in Nat
        /\ batch' = [batch EXCEPT ![p] = next]
    BY <1>3, Published
  <2>2. next.status # "absent" /\ next.file = row.file
    <3> HIDE DEF row, n
    <3> QED
      BY <2>1, PublishedFields
  <2> HIDE DEF next, p
  <2> QED
    BY <2>1, <2>2 DEF IInv, TypeOK
<1>4. ASSUME NEW w \in Workers, BeginPublication(w) \/ GivesUp(w)
      PROVE  UNCHANGED batch
  BY <1>4 DEF BeginPublication, GivesUp, WorkerRaises, WorkerCrashes
<1> QED
  BY <1>1, <1>2, <1>3, <1>4, Steps DEF Quiet, Changes, PublicationStep

HasFindings(b) ==
  /\ FullReport(batch[b].file) # {}
  /\ \E w \in Workers : worker[w].pc \in Finishing /\ Job(w) = b

Ends(b, next) ==
  EndedWithFindings(next) => EndedWithFindings(batch[b]) \/ HasFindings(b)

EndsProperly == \A b \in Batches : Ends(b, batch'[b])

LEMMA EndsOne ==
  ASSUME TypeOK, NEW b \in Batches, NEW next, batch' = [batch EXCEPT ![b] = next],
         Ends(b, next)
  PROVE  EndsProperly
<1>1. batch \in [Batches -> BatchRow]
  BY DEF TypeOK
<1>2. ASSUME NEW c \in Batches PROVE Ends(c, batch'[c])
  <2>1. CASE c = b
    BY <1>1, <2>1
  <2>2. CASE c # b
    <3>1. batch'[c] = batch[c]
      BY <1>1, <2>2
    <3> QED
      BY <3>1 DEF Ends
  <2> QED
    BY <2>1, <2>2
<1> QED
  BY <1>2 DEF EndsProperly

LEMMA EndsNone ==
  ASSUME UNCHANGED batch
  PROVE  EndsProperly
BY DEF EndsProperly, Ends

(* A row that is no end, or no end with findings.                          *)
LEMMA NoFindings ==
  ASSUME TypeOK, NEW b \in Batches, NEW next, batch' = [batch EXCEPT ![b] = next],
         \/ next.status \in {"pending", "processing", "cancelled"}
         \/ next.status = "failed" /\ next.error_code \in {"worker_error", "row_limit_exceeded"}
         \/ next.status = batch[b].status /\ next.error_code = batch[b].error_code
  PROVE  EndsProperly
<1>1. Ends(b, next)
  BY DEF Ends, EndedWithFindings
<1> QED
  BY <1>1, EndsOne

LEMMA ApiEnds ==
  ASSUME IInv, NEW b \in Batches, ApiStep(b) \/ LeaseExpires(b)
  PROVE  EndsProperly
<1>1. TypeOK /\ batch[b] \in BatchRow
  BY IInvType, RowOf
<1>2. ASSUME NEW f \in Files, NEW mode \in Modes, NEW confirmed \in BOOLEAN,
             CreateImportBatch(b, f, mode, confirmed)
      PROVE  EndsProperly
  <2> DEFINE next == SubmittedRow(batch[b], f, mode, confirmed)
  <2>1. batch' = [batch EXCEPT ![b] = next] /\ next.status = "pending"
    BY <1>1, <1>2 DEF CreateImportBatch, SubmittedRow, BatchRow
  <2> HIDE DEF next
  <2> QED
    BY <1>1, <2>1, NoFindings
<1>3. ASSUME CancelImportBatch(b) PROVE EndsProperly
  <2>1. CASE batch' = [batch EXCEPT ![b].status = "cancelled"]
    <3> DEFINE next == [batch[b] EXCEPT !.status = "cancelled"]
    <3>1. next.status = "cancelled" /\ batch' = [batch EXCEPT ![b] = next]
      BY <1>1, <2>1 DEF BatchRow
    <3> HIDE DEF next
    <3> QED
      BY <1>1, <3>1, NoFindings
  <2>2. CASE batch' = [batch EXCEPT ![b].cancellation_requested = TRUE]
    <3> DEFINE next == [batch[b] EXCEPT !.cancellation_requested = TRUE]
    <3>1. /\ next.status = batch[b].status /\ next.error_code = batch[b].error_code
          /\ batch' = [batch EXCEPT ![b] = next]
      BY <1>1, <2>2 DEF BatchRow
    <3> HIDE DEF next
    <3> QED
      BY <1>1, <3>1, NoFindings
  <2> QED
    BY <1>3, <2>1, <2>2 DEF CancelImportBatch
<1>4. ASSUME RetryImportBatch(b) PROVE EndsProperly
  <2> DEFINE next == IF batch[b].checkpoint_row = 0 THEN ResetResults(Requeued(batch[b]))
                     ELSE Requeued(batch[b])
  <2>1. batch' = [batch EXCEPT ![b] = next]
    BY <1>1, <1>4 DEF RetryImportBatch, TypeOK
  <2>2. next.status = "pending"
    BY <1>1 DEF ResetResults, Requeued, BatchRow
  <2> HIDE DEF next
  <2> QED
    BY <1>1, <2>1, <2>2, NoFindings
<1>5. ASSUME ConfirmImportBatchWarnings(b) PROVE EndsProperly
  <2> DEFINE next == ResetResults(Confirmed(batch[b]))
  <2>1. batch' = [batch EXCEPT ![b] = next]
    BY <1>5 DEF ConfirmImportBatchWarnings
  <2>2. next.status = "pending"
    BY <1>1 DEF ResetResults, Confirmed, BatchRow
  <2> HIDE DEF next
  <2> QED
    BY <1>1, <2>1, <2>2, NoFindings
<1>6. ASSUME LeaseExpires(b) PROVE EndsProperly
  <2> DEFINE next == [batch[b] EXCEPT !.lease_expired = TRUE]
  <2>1. /\ next.status = batch[b].status /\ next.error_code = batch[b].error_code
        /\ batch' = [batch EXCEPT ![b] = next]
    BY <1>1, <1>6 DEF BatchRow, LeaseExpires
  <2> HIDE DEF next
  <2> QED
    BY <1>1, <2>1, NoFindings
<1> QED
  BY <1>2, <1>3, <1>4, <1>5, <1>6 DEF ApiStep

(* The counters of a batch that is finalized speak of rows of its report.  *)
LEMMA CountedFindings ==
  ASSUME IInv, NEW w \in Workers, worker[w].pc \in Finishing, HoldsBatch(w),
         batch[Job(w)].error_rows > 0 \/ batch[Job(w)].warning_rows > 0
  PROVE  HasFindings(Job(w))
<1> DEFINE row == batch[Job(w)]
           f == row.file
           n == Len(f)
<1>1. /\ row \in BatchRow /\ n \in Nat /\ n <= MaxRows /\ CountersOf(row, n)
  BY FinalView DEF Finishing
<1>2. ErrorRows(f, 1, n) > 0 \/ WarningRows(f, 1, n) > 0
  BY <1>1 DEF CountersOf
<1> HIDE DEF n, f
<1>3. \E i \in 1 .. n : HasError(f, i) \/ f[i].warning
  <2> DEFINE E == {i \in 1 .. n : HasError(f, i)}
             W == {i \in 1 .. n : f[i].warning}
  <2>1. Cardinality(E) > 0 => E # {}
    BY <1>1, SomeCounted, Zenon
  <2>2. Cardinality(W) > 0 => W # {}
    BY <1>1, SomeCounted, Zenon
  <2>3. Cardinality(E) > 0 \/ Cardinality(W) > 0
    BY <1>2 DEF ErrorRows, WarningRows
  <2> QED
    BY <2>1, <2>2, <2>3
<1>4. RowsRead(f) = n
  BY <1>1 DEF RowsRead, AtMost, n
<1>5. FullReport(f) # {}
  BY <1>3, <1>4 DEF FullReport, IssueRows
<1> QED
  BY <1>5 DEF HasFindings, f

LEMMA WorkerEnds ==
  ASSUME IInv, NEW w \in Workers, WorkerStep(w)
  PROVE  EndsProperly
<1>1. TypeOK
  BY IInvType
<1>2. worker[w].pc # "idle" =>
        Job(w) \in Batches /\ batch[Job(w)] \in BatchRow
  BY WorkerOf, RowOf
<1>3. CASE LoadBatchWork(w) \/ LoseLease(w) \/ FinishRows(w) \/ BeginPublication(w)
  BY <1>3, EndsNone DEF LoadBatchWork, LoseLease, FinishRows, BeginPublication
<1>4. CASE CommitChunk(w)
  <2> DEFINE next == CommittedRow(batch[Job(w)], worker[w].position + 1, ChunkEnd(w),
                                  worker[w].warnings_confirmed, SampledIssues(w))
  <2>1. Job(w) \in Batches /\ batch[Job(w)] \in BatchRow
    BY <1>2, <1>4 DEF CommitChunk, HasChunk
  <2>2. batch' = [batch EXCEPT ![Job(w)] = next]
    BY <1>4 DEF CommitChunk
  <2>3. next.status = batch[Job(w)].status /\ next.error_code = batch[Job(w)].error_code
    BY <2>1 DEF CommittedRow, BatchRow
  <2> HIDE DEF next
  <2> QED
    BY <1>1, <2>1, <2>2, <2>3, NoFindings
<1>5. CASE CancelProcessingBatch(w)
  <2> DEFINE next == CancelledRow(batch[Job(w)])
  <2>1. Job(w) \in Batches /\ batch[Job(w)] \in BatchRow
    BY <1>2, <1>5 DEF CancelProcessingBatch, HasChunk
  <2>2. batch' = [batch EXCEPT ![Job(w)] = next]
    BY <1>5 DEF CancelProcessingBatch
  <2>3. next.status = "cancelled"
    BY <2>1 DEF CancelledRow, BatchRow
  <2> HIDE DEF next
  <2> QED
    BY <1>1, <2>1, <2>2, <2>3, NoFindings
<1>6. CASE RejectBatch(w)
  <2> DEFINE code == Verdict(batch[Job(w)], Len(File(w)))
             next == RejectedRow(batch[Job(w)], Len(File(w)), code)
  <2>1. worker[w].pc \in Finishing /\ HoldsBatch(w)
    BY <1>6 DEF RejectBatch, Finalizes, Finishing
  <2>2. Job(w) \in Batches /\ batch[Job(w)] \in BatchRow
    BY <1>2, <2>1 DEF Finishing
  <2>3. batch' = [batch EXCEPT ![Job(w)] = next]
    BY <1>6 DEF RejectBatch
  <2>4. next.status = "failed" /\ next.error_code = code
    BY <2>2 DEF RejectedRow, FailedRow, BatchRow
  <2>5. code \in {"quality_errors", "warnings_confirmation_required"} =>
          batch[Job(w)].error_rows > 0 \/ batch[Job(w)].warning_rows > 0
    BY DEF Verdict
  <2> HIDE DEF next, code
  <2>6. Ends(Job(w), next)
    BY <2>1, <2>4, <2>5, CountedFindings DEF Ends, EndedWithFindings
  <2> QED
    BY <1>1, <2>2, <2>3, <2>6, EndsOne
<1>7. CASE PublishBatch(w)
  <2> DEFINE next == PublishedRow(batch[Job(w)], Len(File(w)), Unseen(w))
  <2>1. worker[w].pc \in Finishing /\ HoldsBatch(w)
    BY <1>7, Publisher DEF PublishBatch, Finishing
  <2>2. Job(w) \in Batches /\ batch[Job(w)] \in BatchRow
    BY <1>2, <2>1 DEF Finishing
  <2>3. batch' = [batch EXCEPT ![Job(w)] = next]
    BY <1>7 DEF PublishBatch
  <2>4. EndedWithFindings(next) => batch[Job(w)].warning_rows > 0
    BY <2>2 DEF PublishedRow, BatchRow, EndedWithFindings
  <2> HIDE DEF next
  <2>5. Ends(Job(w), next)
    BY <2>1, <2>4, CountedFindings DEF Ends
  <2> QED
    BY <1>1, <2>2, <2>3, <2>5, EndsOne
<1>8. CASE FailAndDiscardBatch(w)
  <2> DEFINE next == FailedRow(batch[Job(w)], "row_limit_exceeded")
  <2>1. Job(w) \in Batches /\ batch[Job(w)] \in BatchRow
    BY <1>2, <1>8 DEF FailAndDiscardBatch
  <2>2. batch' = [batch EXCEPT ![Job(w)] = next]
    BY <1>8 DEF FailAndDiscardBatch
  <2>3. next.status = "failed" /\ next.error_code = "row_limit_exceeded"
    BY <2>1 DEF FailedRow, BatchRow
  <2> HIDE DEF next
  <2> QED
    BY <1>1, <2>1, <2>2, <2>3, NoFindings
<1>9. CASE MarkWorkerFailure(w)
  <2> DEFINE next == WorkerFailedRow(batch[Job(w)])
  <2>1. Job(w) \in Batches /\ batch[Job(w)] \in BatchRow
    BY <1>2, <1>9 DEF MarkWorkerFailure
  <2>2. CASE MayMarkFailure(w)
    <3>1. batch' = [batch EXCEPT ![Job(w)] = next]
      BY <1>9, <2>2 DEF MarkWorkerFailure
    <3>2. next.status = "failed" /\ next.error_code = "worker_error"
      BY <2>1 DEF WorkerFailedRow, BatchRow
    <3> HIDE DEF next
    <3> QED
      BY <1>1, <2>1, <3>1, <3>2, NoFindings
  <2>3. CASE ~MayMarkFailure(w)
    BY <1>9, <2>3, EndsNone DEF MarkWorkerFailure
  <2> QED
    BY <2>2, <2>3
<1> QED
  BY <1>3, <1>4, <1>5, <1>6, <1>7, <1>8, <1>9 DEF WorkerStep

LEMMA NextEnds ==
  ASSUME IInv, [Next]_vars
  PROVE  EndsProperly
<1>1. ASSUME NEW w \in Workers, NEW b \in Batches, ClaimNextImportBatch(w, b)
      PROVE  EndsProperly
  <2> DEFINE next == ClaimedRow(batch[b], w)
  <2>1. TypeOK /\ batch' = [batch EXCEPT ![b] = next]
    BY <1>1, IInvType DEF ClaimNextImportBatch
  <2>2. next.status = "processing"
    BY RowOf DEF ClaimedRow, BatchRow
  <2> HIDE DEF next
  <2> QED
    BY <2>1, <2>2, NoFindings
<1>2. ASSUME NEW w \in Workers, WorkerRaises(w) \/ WorkerCrashes(w) PROVE EndsProperly
  BY <1>2, EndsNone DEF WorkerRaises, WorkerCrashes
<1>3. CASE UNCHANGED vars
  BY <1>3, EndsNone DEF vars
<1> QED
  BY <1>1, <1>2, <1>3, ApiEnds, WorkerEnds DEF Next, Claims

(* What a step keeps of the reports of batches that are not contested.     *)
ReportsKept ==
  \A b \in Batches : ~contested'[b] =>
    /\ ~contested[b]
    /\ attached[b] = FullReport(batch[b].file) => attached'[b] = attached[b]

(* The workers that come to a verdict have come to it before.              *)
VerdictsKept ==
  \A w \in Workers : worker'[w].pc \in Finishing =>
    worker[w].pc \in Finishing /\ worker'[w].job = Job(w)

LEMMA FinishingJob ==
  ASSUME IInv, NEW w \in Workers, worker[w].pc \in Finishing
  PROVE  Job(w) \in Batches /\ batch[Job(w)].status # "absent"
BY DEF IInv, TypeOK, ViewInv, Finishing

LEMMA AttachedStays ==
  ASSUME FilesStay, ReportsKept, NEW b \in Batches, batch[b].status # "absent",
         ReportIsAttached(b)
  PROVE  ReportIsAttached(b)'
BY DEF FilesStay, ReportsKept, ReportIsAttached

LEMMA CompleteStays ==
  ASSUME ReportsInv, FilesStay, ReportsKept, EndsProperly
  PROVE  UncontestedReportIsComplete'
<1> SUFFICES ASSUME NEW b \in Batches, EndedWithFindings(batch'[b]), ~contested'[b]
             PROVE  attached'[b] = FullReport(batch'[b].file)
  BY DEF UncontestedReportIsComplete
<1>1. EndedWithFindings(batch[b]) \/ HasFindings(b)
  BY DEF EndsProperly, Ends
<1>2. ~contested[b]
  BY DEF ReportsKept
<1>3. attached[b] = FullReport(batch[b].file) /\ batch[b].status # "absent"
  <2>1. CASE EndedWithFindings(batch[b])
    BY <1>2, <2>1 DEF ReportsInv, UncontestedReportIsComplete, EndedWithFindings
  <2>2. CASE HasFindings(b)
    <3>1. PICK w \in Workers : worker[w].pc \in Finishing /\ Job(w) = b
      BY <2>2 DEF HasFindings
    <3>2. batch[b].status # "absent"
      BY <3>1, FinishingJob DEF ReportsInv
    <3>3. ReportIsAttached(b)
      BY <3>1 DEF ReportsInv, VerdictsHaveReports
    <3> QED
      BY <1>2, <2>2, <3>2, <3>3 DEF ReportIsAttached, HasFindings
  <2> QED
    BY <1>1, <2>1, <2>2
<1> QED
  BY <1>3 DEF FilesStay, ReportsKept

LEMMA VerdictsStay ==
  ASSUME ReportsInv, FilesStay, ReportsKept, VerdictsKept
  PROVE  VerdictsHaveReports'
<1> SUFFICES ASSUME NEW w \in Workers, NEW b \in Batches,
                    worker'[w].pc \in Finishing, worker'[w].job = b
             PROVE  ReportIsAttached(b)'
  BY DEF VerdictsHaveReports, Job
<1>1. worker[w].pc \in Finishing /\ Job(w) = b
  BY DEF VerdictsKept
<1>2. batch[b].status # "absent"
  BY <1>1, FinishingJob DEF ReportsInv
<1>3. ReportIsAttached(b)
  BY <1>1 DEF ReportsInv, VerdictsHaveReports
<1> QED
  BY <1>2, <1>3, AttachedStays

(* Writers that go on with the same file.                                  *)
SameWork(v) ==
  /\ writer'[v].phase = writer[v].phase
  /\ writer'[v].of = writer[v].of
  /\ writer'[v].flushed = writer[v].flushed
  /\ writer[v].phase \in Writing =>
       worker'[v].pc = worker[v].pc /\ worker'[v].job = worker[v].job

LEMMA PlacedStays ==
  ASSUME FilesStay, NEW v \in Workers, WriterPlaced(v), SameWork(v),
         writer'[v].linked => part'[writer[v].of] \in Reports
  PROVE  WriterPlaced(v)'
<1> DEFINE b == writer[v].of
<1>1. /\ b \in Batches /\ batch[b].status # "absent"
      /\ batch'[b].status # "absent" /\ batch'[b].file = batch[b].file
  BY DEF WriterPlaced, FilesStay
<1>2. writer'[v].of = b
  BY DEF SameWork
<1> HIDE DEF b
<1> QED
  BY <1>1, <1>2 DEF WriterPlaced, SameWork, Job, b

(* Nobody has joined them, and nobody has written to their file.           *)
NoneJoins(v) ==
  \A u \in Workers \ {v} : writer'[u].phase # "none" /\ writer'[u].of = writer[v].of =>
    writer[u].phase # "none" /\ writer[u].of = writer[v].of

LEMMA SoleStays ==
  ASSUME FilesStay, ReportsKept, NEW v \in Workers, WriterPlaced(v), SameWork(v),
         ~contested'[writer[v].of], SoleWriter(v), NoneJoins(v),
         writer'[v] = writer[v], part'[writer[v].of] = part[writer[v].of]
  PROVE  SoleWriter(v)'
<1> DEFINE b == writer[v].of
<1>1. b \in Batches /\ batch'[b].file = batch[b].file
  BY DEF WriterPlaced, FilesStay
<1>2. attached[b] = FullReport(batch[b].file) => attached'[b] = attached[b]
  BY <1>1 DEF ReportsKept
<1>3. writer'[v].of = b /\ part'[b] = part[b]
  OBVIOUS
<1>4. \A u \in Workers \ {v} : writer'[u].phase # "none" => writer'[u].of # b
  BY DEF NoneJoins, SoleWriter
<1> HIDE DEF b
<1> QED
  BY <1>1, <1>2, <1>3, <1>4 DEF SoleWriter, b

LEMMA WriterStays ==
  ASSUME ReportsInv, FilesStay, ReportsKept, NEW v \in Workers, SameWork(v), NoneJoins(v),
         writer'[v] = writer[v], part'[writer[v].of] = part[writer[v].of]
  PROVE  WriterInv(v)'
<1> SUFFICES ASSUME writer'[v].phase # "none"
             PROVE  WriterPlaced(v)' /\ (~contested'[writer'[v].of] => SoleWriter(v)')
  BY DEF WriterInv
<1>1. WriterPlaced(v) /\ (~contested[writer[v].of] => SoleWriter(v))
  BY DEF ReportsInv, WriterInv
<1>2. writer[v].linked => part[writer[v].of] \in Reports
  BY <1>1 DEF WriterPlaced
<1>3. WriterPlaced(v)'
  BY <1>1, <1>2, PlacedStays
<1>4. ~contested'[writer[v].of] => ~contested[writer[v].of]
  BY <1>1 DEF WriterPlaced, ReportsKept
<1> QED
  BY <1>1, <1>3, <1>4, SoleStays

WriterTyped(v) ==
  /\ writer[v].phase \in {"none", "open", "closed", "stored", "attached", "cancelled"}
  /\ writer[v].of \in Batches \cup {NoBatch}
  /\ writer[v].flushed \in Nat
  /\ writer[v].linked \in BOOLEAN
  /\ writer[v].stored \in Reports \cup {NoReport}

LEMMA WriterOf ==
  ASSUME ReportsInv, NEW v \in Workers
  PROVE  WriterTyped(v) /\ writer[v] \in WriterState
BY DEF ReportsInv, ReportsTypeOK, WriterState, WriterTyped

(* Steps that leave the reports alone.                                     *)
LEMMA SameReports ==
  ASSUME ReportsInv, [Next]_vars, UNCHANGED reportVars,
         \A v \in Workers : writer[v].phase \in Writing =>
           worker'[v].pc = worker[v].pc /\ worker'[v].job = worker[v].job,
         VerdictsKept
  PROVE  ReportsInv'
<1>1. IInv /\ IInv' /\ FilesStay /\ EndsProperly
  BY NextInv, NextKeepsFiles, NextEnds DEF ReportsInv
<1>2. ReportsKept
  BY DEF reportVars, ReportsKept
<1>3. ReportsTypeOK'
  BY <1>1 DEF reportVars, ReportsTypeOK, ReportsInv, IInv
<1>4. ASSUME NEW v \in Workers PROVE WriterInv(v)'
  <2>1. SameWork(v) /\ NoneJoins(v)
    BY DEF SameWork, NoneJoins, reportVars
  <2>2. writer'[v] = writer[v] /\ part'[writer[v].of] = part[writer[v].of]
    BY DEF reportVars
  <2> QED
    BY <1>1, <1>2, <2>1, <2>2, WriterStays
<1>5. VerdictsHaveReports' /\ UncontestedReportIsComplete'
  BY <1>1, <1>2, VerdictsStay, CompleteStays
<1> QED
  BY <1>1, <1>3, <1>4, <1>5 DEF ReportsInv

(* The writers that do not take part in a step of worker w on the file b.  *)
OtherFiles(b) == \A c \in Batches \ {b} : part'[c] = part[c]

OtherWriters(w, b) ==
  \A v \in Workers \ {w} :
    \/ writer'[v] = writer[v]
    \/ writer[v].of = b /\ writer'[v] = [writer[v] EXCEPT !.linked = FALSE]

NotAlone(w, b) ==
  \A v \in Workers \ {w} : writer[v].phase # "none" /\ writer[v].of = b => contested'[b]

LinksHold(w, b) ==
  \A v \in Workers \ {w} :
    writer'[v].phase # "none" /\ writer'[v].linked /\ writer'[v].of = b =>
      part'[b] \in Reports

LEMMA OthersStay ==
  ASSUME ReportsInv, FilesStay, ReportsKept, NEW w \in Workers, NEW b \in Batches,
         \A v \in Workers \ {w} : worker'[v] = worker[v],
         OtherFiles(b), OtherWriters(w, b), NotAlone(w, b), LinksHold(w, b),
         writer'[w].phase # "none" => writer'[w].of = b,
         NEW v \in Workers \ {w}
  PROVE  WriterInv(v)'
<1>1. writer[v] \in WriterState
  BY WriterOf
<1>2. \A u \in Workers \ {w} :
        writer'[u].of = writer[u].of /\ writer'[u].phase = writer[u].phase
  BY WriterOf DEF OtherWriters, WriterState
<1>3. SameWork(v)
  <2>1. writer'[v].flushed = writer[v].flushed
    BY <1>1 DEF OtherWriters, WriterState
  <2> QED
    BY <1>2, <2>1 DEF SameWork
<1> SUFFICES ASSUME writer'[v].phase # "none"
             PROVE  WriterPlaced(v)' /\ (~contested'[writer'[v].of] => SoleWriter(v)')
  BY DEF WriterInv
<1>4. writer[v].phase # "none" /\ writer'[v].of = writer[v].of
  BY <1>2
<1>5. WriterPlaced(v) /\ (~contested[writer[v].of] => SoleWriter(v))
  BY <1>4 DEF ReportsInv, WriterInv
<1>6. CASE writer[v].of = b
  <2>1. contested'[b]
    BY <1>4, <1>6 DEF NotAlone
  <2>2. writer'[v].linked => part'[writer[v].of] \in Reports
    BY <1>4, <1>6 DEF LinksHold
  <2>3. WriterPlaced(v)'
    BY <1>3, <1>5, <2>2, PlacedStays
  <2> QED
    BY <1>4, <1>6, <2>1, <2>3
<1>7. CASE writer[v].of # b
  <2>1. writer'[v] = writer[v]
    BY <1>7 DEF OtherWriters
  <2>2. part'[writer[v].of] = part[writer[v].of]
    BY <1>5, <1>7 DEF WriterPlaced, OtherFiles
  <2>3. NoneJoins(v)
    <3> SUFFICES ASSUME NEW u \in Workers \ {v}, writer'[u].phase # "none",
                        writer'[u].of = writer[v].of
                 PROVE  writer[u].phase # "none" /\ writer[u].of = writer[v].of
      BY DEF NoneJoins
    <3>1. u # w
      BY <1>7
    <3> QED
      BY <1>2, <3>1
  <2> QED
    BY <1>3, <1>4, <2>1, <2>2, <2>3, WriterStays DEF WriterInv
<1> QED
  BY <1>6, <1>7

(* A worker that is rid of its report, with the file as it is.             *)
LEMMA Dropped ==
  ASSUME ReportsInv, FilesStay, ReportsKept, NEW w \in Workers,
         \A v \in Workers \ {w} : worker'[v] = worker[v],
         writer' = [writer EXCEPT ![w] = NoWriter], part' = part,
         NEW v \in Workers
  PROVE  WriterInv(v)'
<1>1. writer'[w] = NoWriter /\ \A u \in Workers \ {w} : writer'[u] = writer[u]
  BY DEF ReportsInv, ReportsTypeOK
<1>2. CASE v = w
  BY <1>1, <1>2 DEF WriterInv, NoWriter
<1>3. CASE v # w
  <2>1. SameWork(v) /\ writer'[v] = writer[v]
    BY <1>1, <1>3 DEF SameWork
  <2>2. NoneJoins(v)
    BY <1>1, <1>3 DEF NoneJoins, NoWriter
  <2> QED
    BY <2>1, <2>2, WriterStays
<1> QED
  BY <1>2, <1>3

(* The only writer of a file makes a step on it: the others need not care. *)
LEMMA SoleWriterSteps ==
  ASSUME ReportsInv, NEW w \in Workers, NEW b \in Batches,
         writer[w].phase # "none", writer[w].of = b, contested' = contested
  PROVE  NotAlone(w, b)
<1>1. ~contested[b] => SoleWriter(w)
  BY DEF ReportsInv, WriterInv
<1> QED
  BY <1>1 DEF NotAlone, SoleWriter

LEMMA ReportsInvFrom ==
  ASSUME ReportsInv, IInv', FilesStay, EndsProperly, ReportsKept, ReportsTypeOK',
         \A v \in Workers : WriterInv(v)', VerdictsHaveReports'
  PROVE  ReportsInv'
BY CompleteStays DEF ReportsInv

-----------------------------------------------------------------------------
(* The steps of the report.                                                *)

LEMMA IssuesTogether ==
  ASSUME NEW f, NEW m \in Nat, NEW n \in Nat, m <= n
  PROVE  IssueRows(f, 1, m) \cup IssueRows(f, m + 1, n) = IssueRows(f, 1, n)
<1>1. ASSUME NEW i
      PROVE  i \in 1 .. n <=> i \in 1 .. m \/ i \in (m + 1) .. n
  OBVIOUS
<1> QED
  BY <1>1 DEF IssueRows

LEMMA ReadRows ==
  ASSUME IInv, NEW b \in Batches
  PROVE  /\ RowsRead(batch[b].file) \in Nat
         /\ RowsRead(batch[b].file) <= Len(batch[b].file)
         /\ \A lo \in Nat \ {0}, n \in Nat : n <= RowsRead(batch[b].file) =>
              IssueRows(batch[b].file, lo, n) \in Reports
<1> DEFINE f == batch[b].file
           k == Len(f)
<1>1. k \in Nat /\ k <= MaxFileRows
  BY RowOf DEF IInv, RowInv, BatchRow
<1>2. MaxRows \in Nat /\ MaxFileRows \in Nat
  BY SettingsAssumption, FilesAssumption
<1>3. RowsRead(f) \in Nat /\ RowsRead(f) <= k
  BY <1>1, <1>2 DEF RowsRead, AtMost
<1> HIDE DEF k
<1>4. ASSUME NEW lo \in Nat \ {0}, NEW n \in Nat, n <= RowsRead(f)
      PROVE  IssueRows(f, lo, n) \in Reports
  <2>1. n <= MaxFileRows
    BY <1>1, <1>2, <1>3, <1>4
  <2>2. \A i \in lo .. n : i \in RowNumbers
    BY <1>2, <2>1 DEF RowNumbers
  <2> QED
    BY <2>2 DEF IssueRows, Reports
<1> QED
  BY <1>3, <1>4 DEF k

(* A worker amid the rows of its batch.                                    *)
LEMMA RowsJob ==
  ASSUME IInv, NEW w \in Workers, worker[w].pc = "rows"
  PROVE  /\ Job(w) \in Batches /\ batch[Job(w)].status # "absent"
         /\ worker[w].position \in Nat
BY WorkerOf DEF IInv, TypeOK, ViewInv, WorkerState

(* A step of worker w on its report of the batch b.                        *)
LEMMA ReportStepsOn ==
  ASSUME ReportsInv, UNCHANGED vars, ReportsKept, NEW w \in Workers, NEW b \in Batches,
         OtherFiles(b), OtherWriters(w, b), NotAlone(w, b), LinksHold(w, b),
         ReportsTypeOK', writer'[w].phase # "none" => writer'[w].of = b, WriterInv(w)'
  PROVE  ReportsInv'
<1>1. IInv /\ IInv' /\ FilesStay /\ EndsProperly
  BY NextInv, NextKeepsFiles, NextEnds DEF ReportsInv
<1>2. \A v \in Workers \ {w} : worker'[v] = worker[v]
  BY DEF vars
<1>3. \A v \in Workers : WriterInv(v)'
  BY <1>1, <1>2, OthersStay
<1>4. VerdictsKept
  BY DEF VerdictsKept, vars, Job
<1> QED
  BY <1>1, <1>3, <1>4, VerdictsStay, ReportsInvFrom

(* Steps that only change the file, and the writer of it.                  *)
OwnChange(w, b, file, state) ==
  /\ part' = [part EXCEPT ![b] = file]
  /\ writer' = [writer EXCEPT ![w] = state]

LEMMA OwnChanges ==
  ASSUME ReportsInv, NEW w \in Workers, NEW b \in Batches,
         NEW file \in Reports \cup {NoReport}, NEW state \in WriterState,
         OwnChange(w, b, file, state)
  PROVE  /\ OtherFiles(b) /\ OtherWriters(w, b)
         /\ part'[b] = file /\ writer'[w] = state
         /\ \A v \in Workers \ {w} : writer'[v] = writer[v]
         /\ part' \in [Batches -> Reports \cup {NoReport}]
         /\ writer' \in [Workers -> WriterState]
BY DEF ReportsInv, ReportsTypeOK, OwnChange, OtherFiles, OtherWriters

LEMMA FileTyped ==
  ASSUME ReportsInv, NEW b \in Batches
  PROVE  /\ part[b] \in Reports \cup {NoReport}
         /\ attached[b] \in Reports \cup {NoReport}
         /\ part = [part EXCEPT ![b] = part[b]]
         /\ contested[b] \in BOOLEAN
BY DEF ReportsInv, ReportsTypeOK

LEMMA TypedFrom ==
  ASSUME ReportsInv, UNCHANGED vars,
         part' \in [Batches -> Reports \cup {NoReport}],
         attached' \in [Batches -> Reports \cup {NoReport}],
         writer' \in [Workers -> WriterState],
         contested' \in [Batches -> BOOLEAN]
  PROVE  ReportsTypeOK'
<1>1. TypeOK'
  BY IInvType, NextInv DEF ReportsInv, IInv
<1> QED
  BY <1>1 DEF ReportsTypeOK

LEMMA Opens ==
  ASSUME ReportsInv, NEW w \in Workers, OpenReport(w)
  PROVE  ReportsInv'
<1> DEFINE b == Job(w)
           state == [phase |-> "open", of |-> b, flushed |-> 0,
                     linked |-> TRUE, stored |-> NoReport]
<1>1. b \in Batches /\ batch[b].status # "absent"
  BY RowsJob DEF OpenReport, ReportsInv
<1>2. {} \in Reports \cup {NoReport} /\ state \in WriterState
  BY <1>1 DEF Reports, WriterState
<1>3. /\ worker[w].pc = "rows" /\ writer[w].phase = "none" /\ UNCHANGED <<vars, attached>>
      /\ contested' = [contested EXCEPT ![b] = @ \/ SharesReport(w)]
      /\ OwnChange(w, b, {}, state)
  BY DEF OpenReport, FlushedWhenOpened, OwnChange
<1> HIDE DEF state
<1>4. /\ OtherFiles(b) /\ OtherWriters(w, b)
      /\ part'[b] = {} /\ writer'[w] = state
      /\ \A v \in Workers \ {w} : writer'[v] = writer[v]
      /\ part' \in [Batches -> Reports \cup {NoReport}]
      /\ writer' \in [Workers -> WriterState]
  <2> HIDE DEF b
  <2> QED
    BY <1>1, <1>2, <1>3, OwnChanges
<1>5. /\ contested' \in [Batches -> BOOLEAN]
      /\ \A c \in Batches : contested[c] => contested'[c]
      /\ ~contested'[b] => ~SharesReport(w)
  <2>1. contested \in [Batches -> BOOLEAN] /\ SharesReport(w) \in BOOLEAN
    BY DEF ReportsInv, ReportsTypeOK, SharesReport
  <2> HIDE DEF b
  <2> QED
    BY <1>1, <1>3, <2>1
<1>6. ReportsKept
  BY <1>3, <1>5 DEF ReportsKept
<1>7. NotAlone(w, b)
  BY <1>5 DEF NotAlone, SharesReport
<1>8. LinksHold(w, b)
  BY <1>4 DEF LinksHold, Reports
<1>9. ReportsTypeOK'
  BY <1>3, <1>4, <1>5, TypedFrom DEF ReportsInv, ReportsTypeOK
<1>10. writer'[w].phase = "open" /\ writer'[w].of = b /\ writer'[w].flushed = 0
       /\ writer'[w].linked
  BY <1>4 DEF state
<1>11. WriterInv(w)'
  <2>1. WriterPlaced(w)'
    <3>1. RowsRead(batch[b].file) \in Nat
      BY <1>1, ReadRows DEF ReportsInv
    <3> QED
      BY <1>1, <1>3, <1>4, <1>10, <3>1 DEF WriterPlaced, vars, Reports, Job
  <2>2. ~contested'[b] => SoleWriter(w)'
    <3> SUFFICES ASSUME ~contested'[b]
                 PROVE  SoleWriter(w)'
      OBVIOUS
    <3>1. \A v \in Workers \ {w} : writer'[v].phase # "none" => writer'[v].of # b
      BY <1>4, <1>5 DEF SharesReport
    <3>2. IssueRows(batch'[b].file, 1, 0) = {}
      BY DEF IssueRows
    <3> HIDE DEF b
    <3> QED
      BY <1>4, <1>10, <3>1, <3>2 DEF SoleWriter
  <2> HIDE DEF b
  <2> QED
    BY <1>10, <2>1, <2>2 DEF WriterInv
<1> HIDE DEF b
<1> QED
  BY <1>1, <1>3, <1>4, <1>6, <1>7, <1>8, <1>9, <1>10, <1>11, ReportStepsOn

LEMMA WritingJob ==
  ASSUME ReportsInv, NEW w \in Workers, writer[w].phase \in Writing
  PROVE  /\ Job(w) \in Batches /\ batch[Job(w)].status # "absent"
         /\ writer[w].of = Job(w) /\ worker[w].pc = "rows"
         /\ writer[w].flushed \in Nat /\ writer[w].flushed <= RowsRead(File(w))
         /\ writer[w].linked => part[Job(w)] \in Reports
         /\ ~contested[Job(w)] => SoleWriter(w)
<1>1. WriterInv(w) /\ WriterTyped(w) /\ writer[w].phase # "none"
  BY WriterOf DEF ReportsInv, Writing
<1>2. WriterPlaced(w) /\ (~contested[writer[w].of] => SoleWriter(w))
  BY <1>1 DEF WriterInv
<1> QED
  BY <1>1, <1>2 DEF WriterPlaced, WriterTyped, File

(* What it has evaluated is in the file, if nobody else writes it.         *)
TrueToRows(w, file, state) ==
  /\ state.linked
  /\ file = IssueRows(File(w), 1, state.flushed)
  /\ state.phase = "stored" => state.stored = FullReport(File(w))
  /\ state.phase = "attached" => attached'[Job(w)] = FullReport(File(w))

GoodState(w, state) ==
  /\ state \in WriterState /\ state.of = Job(w) /\ state.phase \in Writing
  /\ state.linked = writer[w].linked
  /\ state.flushed <= RowsRead(File(w))
  /\ state.phase # "open" => state.flushed = RowsRead(File(w))

GoodFile(w, file) ==
  /\ file \in Reports \cup {NoReport}
  /\ part[Job(w)] \in Reports => file \in Reports

LEMMA OwnStep ==
  ASSUME ReportsInv, UNCHANGED vars, contested' = contested, NEW w \in Workers,
         writer[w].phase \in Writing, NEW file, NEW state,
         GoodFile(w, file), GoodState(w, state), OwnChange(w, Job(w), file, state),
         attached' \in [Batches -> Reports \cup {NoReport}], ReportsKept,
         ~contested[Job(w)] => TrueToRows(w, file, state)
  PROVE  ReportsInv'
<1> DEFINE b == Job(w)
<1>1. /\ b \in Batches /\ batch[b].status # "absent"
      /\ writer[w].of = b /\ worker[w].pc = "rows"
      /\ writer[w].linked => part[b] \in Reports
      /\ ~contested[b] => SoleWriter(w)
  BY WritingJob
<1>2. file \in Reports \cup {NoReport} /\ state \in WriterState
  BY DEF GoodFile, GoodState
<1>3. /\ OtherFiles(b) /\ OtherWriters(w, b)
      /\ part'[b] = file /\ writer'[w] = state
      /\ \A v \in Workers \ {w} : writer'[v] = writer[v]
      /\ part' \in [Batches -> Reports \cup {NoReport}]
      /\ writer' \in [Workers -> WriterState]
  <2>1. OwnChange(w, b, file, state)
    OBVIOUS
  <2> HIDE DEF b
  <2> QED
    BY <1>1, <1>2, <2>1, OwnChanges
<1>4. NotAlone(w, b)
  BY <1>1, SoleWriterSteps DEF Writing
<1>5. LinksHold(w, b)
  <2> SUFFICES ASSUME NEW v \in Workers \ {w}, writer[v].phase # "none",
                      writer[v].linked, writer[v].of = b
               PROVE  file \in Reports
    BY <1>3 DEF LinksHold
  <2>1. WriterPlaced(v)
    BY DEF ReportsInv, WriterInv
  <2> QED
    BY <2>1 DEF WriterPlaced, GoodFile
<1>6. ReportsTypeOK'
  BY <1>3, TypedFrom DEF ReportsInv, ReportsTypeOK
<1>7. WriterPlaced(w)'
  <2>1. batch'[b] = batch[b] /\ worker'[w].pc = "rows" /\ worker'[w].job = b
    BY <1>1 DEF vars, Job
  <2>2. writer'[w].linked => part'[b] \in Reports
    BY <1>1, <1>3 DEF GoodFile, GoodState
  <2>3. writer'[w].of = b
    BY <1>3 DEF GoodState
  <2>4. /\ writer'[w].phase \in Writing => writer'[w].flushed <= RowsRead(batch[b].file)
        /\ writer'[w].phase \in {"closed", "stored", "attached"} =>
             writer'[w].flushed = RowsRead(batch[b].file)
    BY <1>3 DEF GoodState, File
  <2> HIDE DEF b
  <2> QED
    BY <1>1, <2>1, <2>2, <2>3, <2>4 DEF WriterPlaced, Job
<1>8. ~contested[b] => SoleWriter(w)'
  <2> SUFFICES ASSUME ~contested[b]
               PROVE  SoleWriter(w)'
    OBVIOUS
  <2>1. TrueToRows(w, file, state) /\ batch' = batch
    BY DEF vars
  <2>2. \A v \in Workers \ {w} : writer'[v].phase # "none" => writer'[v].of # b
    BY <1>1, <1>3 DEF SoleWriter
  <2>3. writer'[w].of = b
    BY <1>3 DEF GoodState
  <2> QED
    BY <1>3, <2>1, <2>2, <2>3 DEF SoleWriter, TrueToRows, File
<1>9. WriterInv(w)' /\ writer'[w].of = b
  <2>1. writer'[w].of = b
    BY <1>3 DEF GoodState
  <2> QED
    BY <1>7, <1>8, <2>1 DEF WriterInv
<1> HIDE DEF b
<1> QED
  BY <1>1, <1>3, <1>4, <1>5, <1>6, <1>9, ReportStepsOn

(* What the buffer adds to the file.                                       *)
FileWith(w, n) ==
  IF writer[w].linked
    THEN part[Job(w)] \cup IssueRows(File(w), writer[w].flushed + 1, n)
    ELSE part[Job(w)]

LEMMA WrittenIsFile ==
  ASSUME ReportsInv, NEW w \in Workers, writer[w].phase \in Writing,
         NEW n \in Nat, writer[w].flushed <= n, n <= RowsRead(File(w))
  PROVE  /\ Written(w, n) = [part EXCEPT ![Job(w)] = FileWith(w, n)]
         /\ GoodFile(w, FileWith(w, n))
         /\ ~contested[Job(w)] =>
              writer[w].linked /\ FileWith(w, n) = IssueRows(File(w), 1, n)
<1> DEFINE b == Job(w)
           m == writer[w].flushed
           more == IssueRows(File(w), m + 1, n)
<1>1. /\ b \in Batches /\ writer[w].of = b /\ m \in Nat
      /\ writer[w].linked => part[b] \in Reports
      /\ ~contested[b] => SoleWriter(w)
  BY WritingJob
<1>2. more \in Reports
  <2>1. m + 1 \in Nat \ {0}
    BY <1>1
  <2> QED
    BY <1>1, <2>1, ReadRows DEF File, ReportsInv
<1>3. IssueRows(File(w), 1, m) \cup more = IssueRows(File(w), 1, n)
  BY <1>1, IssuesTogether
<1>4. part[b] \in Reports \cup {NoReport} /\ part = [part EXCEPT ![b] = part[b]]
  BY <1>1, FileTyped
<1>5. Written(w, n) = IF writer[w].linked THEN [part EXCEPT ![b] = part[b] \cup more] ELSE part
  BY DEF Written
<1>6. FileWith(w, n) = IF writer[w].linked THEN part[b] \cup more ELSE part[b]
  BY DEF FileWith
<1>7. ~contested[b] => writer[w].linked /\ part[b] = IssueRows(File(w), 1, m)
  BY <1>1 DEF SoleWriter, File
<1> HIDE DEF b, more, m
<1>8. GoodFile(w, FileWith(w, n))
  BY <1>1, <1>2, <1>4, <1>6 DEF GoodFile, Reports, b
<1> QED
  BY <1>3, <1>4, <1>5, <1>6, <1>7, <1>8 DEF b

LEMMA EvaluatedInFile ==
  ASSUME ReportsInv, NEW w \in Workers, writer[w].phase \in Writing
  PROVE  EvaluatedAtMost(w) <= RowsRead(File(w))
<1>1. RowsRead(File(w)) \in Nat
  BY WritingJob, ReadRows DEF File, ReportsInv
<1>2. worker[w].position + ChunkRows \in Nat
  BY WritingJob, RowsJob, SettingsAssumption DEF ReportsInv
<1> QED
  BY <1>1, <1>2 DEF EvaluatedAtMost, AtMost

LEMMA KeptWhenSame ==
  ASSUME contested' = contested, attached' = attached
  PROVE  ReportsKept
BY DEF ReportsKept

LEMMA Flushes ==
  ASSUME ReportsInv, NEW w \in Workers, FlushReport(w)
  PROVE  ReportsInv'
<1>1. /\ writer[w].phase = "open" /\ UNCHANGED vars
      /\ attached' = attached /\ contested' = contested
  BY DEF FlushReport
<1>2. PICK n \in (writer[w].flushed + 1) .. EvaluatedAtMost(w) :
        part' = Written(w, n) /\ writer' = [writer EXCEPT ![w].flushed = n]
  BY DEF FlushReport
<1> DEFINE state == [writer[w] EXCEPT !.flushed = n]
<1>3. writer[w].phase \in Writing
  BY <1>1 DEF Writing
<1>4. WriterTyped(w) /\ writer[w] \in WriterState /\ writer[w].of = Job(w)
  BY <1>3, WriterOf, WritingJob
<1>5. n \in Nat /\ writer[w].flushed <= n /\ n <= RowsRead(File(w))
  <2>1. RowsRead(File(w)) \in Nat
    BY <1>3, WritingJob, ReadRows DEF File, ReportsInv
  <2>2. EvaluatedAtMost(w) <= RowsRead(File(w)) /\ EvaluatedAtMost(w) \in Int
    <3>1. worker[w].position + ChunkRows \in Nat
      BY <1>3, WritingJob, RowsJob, SettingsAssumption DEF ReportsInv
    <3> QED
      BY <1>3, <2>1, <3>1, EvaluatedInFile DEF EvaluatedAtMost, AtMost
  <2>3. writer[w].flushed \in Nat
    BY <1>4 DEF WriterTyped
  <2> QED
    BY <2>1, <2>2, <2>3
<1>6. OwnChange(w, Job(w), FileWith(w, n), state) /\ GoodFile(w, FileWith(w, n))
  BY <1>2, <1>3, <1>5, WrittenIsFile DEF OwnChange
<1>7. GoodState(w, state)
  BY <1>1, <1>3, <1>4, <1>5 DEF GoodState, WriterState
<1>8. ~contested[Job(w)] => TrueToRows(w, FileWith(w, n), state)
  <2>1. state.linked = writer[w].linked /\ state.flushed = n /\ state.phase = "open"
    BY <1>1, <1>4 DEF WriterState
  <2> HIDE DEF state
  <2> QED
    BY <1>3, <1>5, <2>1, WrittenIsFile DEF TrueToRows
<1>9. ReportsKept /\ attached' \in [Batches -> Reports \cup {NoReport}]
  BY <1>1, KeptWhenSame DEF ReportsInv, ReportsTypeOK
<1> HIDE DEF state
<1> QED
  BY <1>1, <1>3, <1>6, <1>7, <1>8, <1>9, OwnStep

LEMMA Closes ==
  ASSUME ReportsInv, NEW w \in Workers, CloseReport(w)
  PROVE  ReportsInv'
<1> DEFINE n == RowsRead(File(w))
           state == [writer[w] EXCEPT !.phase = "closed", !.flushed = n]
<1>1. /\ writer[w].phase = "open" /\ UNCHANGED vars
      /\ attached' = attached /\ contested' = contested
      /\ part' = Written(w, n) /\ writer' = [writer EXCEPT ![w] = state]
  BY DEF CloseReport
<1>2. writer[w].phase \in Writing
  BY <1>1 DEF Writing
<1>3. writer[w] \in WriterState /\ writer[w].of = Job(w)
  BY <1>2, WriterOf, WritingJob
<1>4. n \in Nat /\ writer[w].flushed <= n
  BY <1>2, WritingJob, ReadRows DEF File, ReportsInv
<1> HIDE DEF n
<1>5. n <= RowsRead(File(w)) /\ n = RowsRead(File(w))
  BY <1>4 DEF n
<1>6. OwnChange(w, Job(w), FileWith(w, n), state) /\ GoodFile(w, FileWith(w, n))
  BY <1>1, <1>2, <1>4, <1>5, WrittenIsFile DEF OwnChange
<1>7. GoodState(w, state)
  BY <1>3, <1>4, <1>5 DEF GoodState, WriterState, Writing
<1>8. ~contested[Job(w)] => TrueToRows(w, FileWith(w, n), state)
  <2>1. state.linked = writer[w].linked /\ state.flushed = n /\ state.phase = "closed"
    BY <1>3 DEF WriterState
  <2> HIDE DEF state
  <2> QED
    BY <1>2, <1>4, <1>5, <2>1, WrittenIsFile DEF TrueToRows
<1>9. ReportsKept /\ attached' \in [Batches -> Reports \cup {NoReport}]
  BY <1>1, KeptWhenSame DEF ReportsInv, ReportsTypeOK
<1> HIDE DEF state
<1> QED
  BY <1>1, <1>2, <1>6, <1>7, <1>8, <1>9, OwnStep

(* The file of the only writer that has closed it is the whole report.     *)
LEMMA ClosedIsFull ==
  ASSUME ReportsInv, NEW w \in Workers, writer[w].phase \in {"closed", "stored", "attached"}
  PROVE  /\ writer[w].phase \in Writing /\ writer[w].flushed = RowsRead(File(w))
         /\ ~contested[Job(w)] => writer[w].linked /\ part[Job(w)] = FullReport(File(w))
<1>1. writer[w].phase \in Writing
  BY DEF Writing
<1>2. writer[w].of = Job(w) /\ (~contested[Job(w)] => SoleWriter(w))
  BY <1>1, WritingJob
<1>3. writer[w].flushed = RowsRead(File(w))
  BY <1>2 DEF ReportsInv, WriterInv, WriterPlaced, File
<1> QED
  BY <1>1, <1>2, <1>3 DEF SoleWriter, FullReport, File

LEMMA Stores ==
  ASSUME ReportsInv, NEW w \in Workers, StoreReport(w)
  PROVE  ReportsInv'
<1> DEFINE file == part[Job(w)]
           state == [writer[w] EXCEPT !.phase = "stored", !.stored = file]
<1>1. /\ writer[w].phase = "closed" /\ UNCHANGED vars /\ part' = part
      /\ attached' = attached /\ contested' = contested
      /\ writer' = [writer EXCEPT ![w] = state]
  BY DEF StoreReport
<1>2. /\ writer[w].phase \in Writing /\ writer[w].flushed = RowsRead(File(w))
      /\ ~contested[Job(w)] => writer[w].linked /\ file = FullReport(File(w))
  BY <1>1, ClosedIsFull
<1>3. /\ writer[w] \in WriterState /\ writer[w].of = Job(w) /\ Job(w) \in Batches
      /\ RowsRead(File(w)) \in Nat
  BY <1>2, WriterOf, WritingJob, ReadRows DEF File, ReportsInv
<1>4. file \in Reports \cup {NoReport} /\ part' = [part EXCEPT ![Job(w)] = file]
  BY <1>1, <1>3, FileTyped
<1> HIDE DEF file
<1>5. OwnChange(w, Job(w), file, state) /\ GoodFile(w, file)
  BY <1>1, <1>4 DEF OwnChange, GoodFile, file
<1>6. GoodState(w, state)
  <2>1. state \in WriterState
    BY <1>3, <1>4 DEF WriterState
  <2>2. /\ state.of = Job(w) /\ state.linked = writer[w].linked
        /\ state.flushed = RowsRead(File(w)) /\ state.phase = "stored"
    BY <1>2, <1>3 DEF WriterState
  <2> HIDE DEF state
  <2> QED
    BY <1>3, <2>1, <2>2 DEF GoodState, Writing
<1>7. ~contested[Job(w)] => TrueToRows(w, file, state)
  <2>1. /\ state.linked = writer[w].linked /\ state.flushed = RowsRead(File(w))
        /\ state.phase = "stored" /\ state.stored = file
    BY <1>2, <1>3 DEF WriterState
  <2> HIDE DEF state
  <2> QED
    BY <1>2, <2>1 DEF TrueToRows, FullReport
<1>8. ReportsKept /\ attached' \in [Batches -> Reports \cup {NoReport}]
  BY <1>1, KeptWhenSame DEF ReportsInv, ReportsTypeOK
<1> HIDE DEF state
<1> QED
  BY <1>1, <1>2, <1>5, <1>6, <1>7, <1>8, OwnStep

LEMMA Attaches ==
  ASSUME ReportsInv, NEW w \in Workers, AttachReport(w)
  PROVE  ReportsInv'
<1> DEFINE b == Job(w)
           file == part[b]
           state == [writer[w] EXCEPT !.phase = "attached"]
<1>1. /\ writer[w].phase = "stored" /\ UNCHANGED vars /\ part' = part
      /\ attached' = [attached EXCEPT ![b] = writer[w].stored] /\ contested' = contested
      /\ writer' = [writer EXCEPT ![w] = state]
  BY DEF AttachReport
<1>2. /\ writer[w].phase \in Writing /\ writer[w].flushed = RowsRead(File(w))
      /\ ~contested[b] => writer[w].linked /\ file = FullReport(File(w))
  BY <1>1, ClosedIsFull
<1>3. /\ writer[w] \in WriterState /\ writer[w].of = b /\ b \in Batches
      /\ RowsRead(File(w)) \in Nat
      /\ ~contested[b] => SoleWriter(w)
  BY <1>2, WriterOf, WritingJob, ReadRows DEF File, ReportsInv
<1>4. file \in Reports \cup {NoReport} /\ part' = [part EXCEPT ![b] = file]
  BY <1>1, <1>3, FileTyped
<1>5. ~contested[b] => writer[w].stored = FullReport(File(w))
  BY <1>1, <1>3 DEF SoleWriter, File
<1>6. /\ attached' \in [Batches -> Reports \cup {NoReport}]
      /\ attached'[b] = writer[w].stored
      /\ \A c \in Batches \ {b} : attached'[c] = attached[c]
  <2>1. attached \in [Batches -> Reports \cup {NoReport}]
        /\ writer[w].stored \in Reports \cup {NoReport}
    BY WriterOf DEF ReportsInv, ReportsTypeOK, WriterTyped
  <2> HIDE DEF b
  <2> QED
    BY <1>1, <1>3, <2>1
<1>7. ReportsKept
  BY <1>1, <1>5, <1>6 DEF ReportsKept, File
<1> HIDE DEF file
<1>8. OwnChange(w, b, file, state) /\ GoodFile(w, file)
  BY <1>1, <1>4 DEF OwnChange, GoodFile, file
<1>9. GoodState(w, state)
  BY <1>2, <1>3 DEF GoodState, WriterState, Writing
<1>10. ~contested[b] => TrueToRows(w, file, state)
  <2>1. /\ state.linked = writer[w].linked /\ state.flushed = RowsRead(File(w))
        /\ state.phase = "attached"
    BY <1>2, <1>3 DEF WriterState
  <2> HIDE DEF state
  <2> QED
    BY <1>2, <1>5, <1>6, <2>1 DEF TrueToRows, FullReport
<1> HIDE DEF state
<1> QED
  BY <1>1, <1>2, <1>6, <1>7, <1>8, <1>9, <1>10, OwnStep

(* The file that is to be read has gone: the run ends with an exception.   *)
LEMMA Misses ==
  ASSUME ReportsInv, NEW w \in Workers, MissReport(w)
  PROVE  ReportsInv'
<1> DEFINE state == [worker[w] EXCEPT !.pc = "error"]
<1>1. /\ writer[w].phase = "closed" /\ part' = part /\ attached' = attached
      /\ contested' = contested /\ writer' = [writer EXCEPT ![w] = NoWriter]
      /\ worker' = [worker EXCEPT ![w] = state]
      /\ UNCHANGED <<batch, queue, staged, active, faults>>
  BY DEF MissReport
<1>2. IInv /\ TypeOK /\ worker[w].pc = "rows"
  BY <1>1, WritingJob, IInvType DEF Writing, ReportsInv
<1>3. worker[w] \in WorkerState /\ ViewInv(w, worker[w], batch[Job(w)]) /\ Job(w) \in Batches
  BY <1>2, WorkerOf, RowsJob
<1>4. state \in WorkerState /\ state.pc = "error" /\ state.job = Job(w)
  BY <1>3 DEF WorkerState, Job
<1> HIDE DEF state
<1>5. worker \in [Workers -> WorkerState]
  BY <1>2 DEF TypeOK
<1>6. /\ worker' \in [Workers -> WorkerState] /\ worker'[w] = state
      /\ \A v \in Workers \ {w} : worker'[v] = worker[v]
  BY <1>1, <1>4, <1>5
<1>7. TypeOK'
  <2>1. \A v \in Workers : worker'[v].pc # "idle" => worker'[v].job \in Batches
    BY <1>2, <1>3, <1>4, <1>6 DEF TypeOK, Job
  <2> QED
    BY <1>1, <1>2, <1>6, <2>1 DEF TypeOK, Job
<1>8. IInv'
  <2>1. ViewInv(w, state, batch[Job(w)])
    BY <1>3, <1>4 DEF ViewInv, Midway
  <2> QED
    BY <1>1, <1>2, <1>4, <1>7, <2>1, IInvFromWorker
<1>9. FilesStay /\ EndsProperly /\ ReportsKept
  BY <1>1, EndsNone, KeptWhenSame DEF FilesStay
<1>10. ReportsTypeOK'
  <2>1. NoWriter \in WriterState
    BY DEF NoWriter, WriterState
  <2>2. writer' \in [Workers -> WriterState]
    BY <1>1, <2>1 DEF ReportsInv, ReportsTypeOK
  <2> QED
    BY <1>1, <1>7, <2>2 DEF ReportsInv, ReportsTypeOK
<1>11. \A v \in Workers : WriterInv(v)'
  BY <1>1, <1>6, <1>9, Dropped
<1>12. VerdictsKept
  BY <1>4, <1>6 DEF VerdictsKept, Finishing, Job
<1> QED
  BY <1>8, <1>9, <1>10, <1>11, <1>12, VerdictsStay, ReportsInvFrom

(* Discarding: the file goes, and whoever has it open writes to no name.   *)
LEMMA Discards ==
  ASSUME ReportsInv, [Next]_vars, NEW w \in Workers, writer[w].phase # "none", Discard(w),
         \A v \in Workers \ {w} : worker'[v] = worker[v],
         VerdictsHaveReports'
  PROVE  ReportsInv'
<1> DEFINE b == writer[w].of
           drop(v) == IF v = w THEN NoWriter
                      ELSE IF writer[v].of = b THEN [writer[v] EXCEPT !.linked = FALSE]
                      ELSE writer[v]
<1>1. /\ part' = [part EXCEPT ![b] = NoReport]
      /\ writer' = [v \in Workers |-> drop(v)]
      /\ attached' = attached /\ contested' = contested
  BY DEF Discard
<1>2. b \in Batches
  BY DEF ReportsInv, WriterInv, WriterPlaced
<1>3. NotAlone(w, b)
  BY <1>1, <1>2, SoleWriterSteps
<1>4. IInv /\ IInv' /\ TypeOK' /\ FilesStay /\ EndsProperly /\ ReportsKept
  BY <1>1, NextInv, NextKeepsFiles, NextEnds, KeptWhenSame, IInvType DEF ReportsInv, IInv
<1>5. \A v \in Workers : drop(v) \in WriterState
  BY WriterOf DEF WriterState, NoWriter
<1>6. \A v \in Workers : writer'[v] = drop(v)
  BY <1>1
<1>7. OtherWriters(w, b)
  BY <1>6 DEF OtherWriters
<1>8. LinksHold(w, b)
  <2> SUFFICES ASSUME NEW v \in Workers \ {w}, writer'[v].phase # "none", writer'[v].linked,
                      writer'[v].of = b
               PROVE  FALSE
    BY DEF LinksHold
  <2>1. writer[v] \in WriterState
    BY WriterOf
  <2>2. writer[v].of = b
    BY <1>6, <2>1 DEF WriterState
  <2>3. writer'[v] = [writer[v] EXCEPT !.linked = FALSE]
    BY <1>6, <2>2
  <2> QED
    BY <2>1, <2>3 DEF WriterState
<1>9. writer'[w].phase = "none"
  <2>1. writer'[w] = NoWriter
    BY <1>6
  <2> QED
    BY <2>1 DEF NoWriter
<1>10. writer' \in [Workers -> WriterState]
  BY <1>1, <1>5
<1> HIDE DEF drop, b
<1>11. part' \in [Batches -> Reports \cup {NoReport}] /\ OtherFiles(b)
  BY <1>1, <1>2 DEF ReportsInv, ReportsTypeOK, OtherFiles
<1>12. ReportsTypeOK'
  BY <1>1, <1>4, <1>10, <1>11 DEF ReportsInv, ReportsTypeOK
<1>13. ASSUME NEW v \in Workers PROVE WriterInv(v)'
  <2>1. CASE v = w
    BY <1>9, <2>1 DEF WriterInv
  <2>2. CASE v # w
    BY <1>2, <1>3, <1>4, <1>7, <1>8, <1>9, <1>11, <2>2, OthersStay
  <2> QED
    BY <2>1, <2>2
<1> QED
  BY <1>4, <1>12, <1>13, ReportsInvFrom

LEMMA DiscardsCancelled ==
  ASSUME ReportsInv, NEW w \in Workers, DiscardCancelled(w)
  PROVE  ReportsInv'
<1>1. writer[w].phase # "none" /\ Discard(w) /\ UNCHANGED vars
  BY DEF DiscardCancelled
<1>2. \A v \in Workers : worker'[v] = worker[v]
  BY <1>1 DEF vars
<1>3. FilesStay /\ ReportsKept /\ VerdictsKept
  BY <1>1, <1>2, NextKeepsFiles, KeptWhenSame DEF VerdictsKept, Job, ReportsInv, Discard
<1> QED
  BY <1>1, <1>2, <1>3, VerdictsStay, Discards

LEMMA DiscardsReport ==
  ASSUME ReportsInv, NEW w \in Workers, DiscardReport(w)
  PROVE  ReportsInv'
<1>1. /\ Discard(w) /\ FinishRows(w) /\ attached' = attached /\ contested' = contested
      /\ writer[w].phase \in {"closed", "attached"}
      /\ writer[w].phase = "closed" => FullReport(File(w)) = {}
  BY DEF DiscardReport, Discard
<1>2. writer[w].phase \in Writing /\ writer[w].phase # "none"
  BY <1>1 DEF Writing
<1>3. [Next]_vars
  BY <1>1 DEF Next, WorkerStep
<1>4. IInv /\ TypeOK /\ FilesStay /\ ReportsKept
  BY <1>1, <1>3, NextKeepsFiles, KeptWhenSame, IInvType DEF ReportsInv
<1>5. /\ \A v \in Workers \ {w} : worker'[v] = worker[v]
      /\ worker'[w].job = Job(w) /\ batch' = batch
  BY <1>1, <1>4 DEF FinishRows, TypeOK, Job, WorkerState
<1>6. VerdictsHaveReports'
  <2> SUFFICES ASSUME NEW v \in Workers, NEW b \in Batches,
                      worker'[v].pc \in Finishing, worker'[v].job = b
               PROVE  ReportIsAttached(b)'
    BY DEF VerdictsHaveReports, Job
  <2>1. CASE v = w
    <3>1. Job(w) = b
      BY <1>5, <2>1
    <3>2. ~contested[b] => SoleWriter(w) /\ writer[w].of = b
      BY <1>2, <3>1, WritingJob
    <3>3. ReportIsAttached(b)
      BY <1>1, <3>1, <3>2 DEF ReportIsAttached, SoleWriter, File
    <3> QED
      BY <1>1, <1>5, <3>3 DEF ReportIsAttached
  <2>2. CASE v # w
    <3>1. worker[v].pc \in Finishing /\ Job(v) = b
      BY <1>5, <2>2 DEF Job
    <3>2. ReportIsAttached(b)
      BY <3>1 DEF ReportsInv, VerdictsHaveReports
    <3> QED
      BY <1>1, <1>5, <3>2 DEF ReportIsAttached
  <2> QED
    BY <2>1, <2>2
<1> QED
  BY <1>1, <1>2, <1>3, <1>5, <1>6, Discards

-----------------------------------------------------------------------------
(* The steps of the pipeline with the report.                              *)

(* A step of worker w leaves the others alone.                             *)
LEMMA OthersWork ==
  ASSUME TypeOK, NEW w \in Workers, WorkerStep(w) \/ WorkerRaises(w) \/ WorkerCrashes(w)
  PROVE  \A v \in Workers \ {w} : worker'[v] = worker[v]
<1>1. worker \in [Workers -> WorkerState]
  BY DEF TypeOK
<1>2. \E state : worker' = [worker EXCEPT ![w] = state]
  <2>1. CASE WorkerRaises(w) \/ WorkerCrashes(w)
    BY <2>1 DEF WorkerRaises, WorkerCrashes
  <2>2. CASE LoadBatchWork(w) \/ LoseLease(w) \/ FinishRows(w) \/ BeginPublication(w)
    BY <2>2 DEF LoadBatchWork, LoseLease, FinishRows, BeginPublication
  <2>3. CASE CommitChunk(w)
    BY <2>3 DEF CommitChunk
  <2>4. CASE CancelProcessingBatch(w) \/ RejectBatch(w) \/ PublishBatch(w)
    BY <2>4 DEF CancelProcessingBatch, RejectBatch, PublishBatch
  <2>5. CASE FailAndDiscardBatch(w) \/ MarkWorkerFailure(w)
    BY <2>5 DEF FailAndDiscardBatch, MarkWorkerFailure
  <2> QED
    BY <2>1, <2>2, <2>3, <2>4, <2>5 DEF WorkerStep
<1> QED
  BY <1>1, <1>2

LEMMA CancelsWithReport ==
  ASSUME ReportsInv, NEW w \in Workers, CancelWithReport(w)
  PROVE  ReportsInv'
<1> DEFINE b == Job(w)
           state == [writer[w] EXCEPT !.phase = "cancelled"]
<1>1. /\ writer[w].phase = "open" /\ CancelProcessingBatch(w) /\ part' = part
      /\ attached' = attached /\ contested' = contested
      /\ writer' = [writer EXCEPT ![w] = state]
  BY DEF CancelWithReport
<1>2. WorkerStep(w) /\ [Next]_vars /\ writer[w].phase \in Writing
  BY <1>1 DEF Next, WorkerStep, Writing
<1>3. /\ IInv /\ IInv' /\ TypeOK /\ TypeOK' /\ FilesStay /\ EndsProperly /\ ReportsKept
  BY <1>1, <1>2, NextInv, NextKeepsFiles, NextEnds, KeptWhenSame, IInvType DEF ReportsInv, IInv
<1>4. \A v \in Workers \ {w} : worker'[v] = worker[v]
  BY <1>2, <1>3, OthersWork
<1>5. worker'[w].pc = "idle"
  BY <1>1, <1>3 DEF CancelProcessingBatch, Idle, TypeOK
<1>6. /\ b \in Batches /\ batch[b].status # "absent" /\ writer[w].of = b
      /\ writer[w].linked => part[b] \in Reports
      /\ ~contested[b] => SoleWriter(w)
  BY <1>2, WritingJob
<1>7. /\ writer[w] \in WriterState /\ state \in WriterState
      /\ state.phase = "cancelled" /\ state.of = b /\ state.linked = writer[w].linked
  BY <1>6, WriterOf DEF WriterState
<1>8. OwnChange(w, b, part[b], state) /\ part[b] \in Reports \cup {NoReport}
  BY <1>1, <1>6, FileTyped DEF OwnChange
<1> HIDE DEF b, state
<1>9. /\ OtherFiles(b) /\ OtherWriters(w, b)
      /\ part'[b] = part[b] /\ writer'[w] = state
      /\ \A v \in Workers \ {w} : writer'[v] = writer[v]
      /\ part' \in [Batches -> Reports \cup {NoReport}]
      /\ writer' \in [Workers -> WriterState]
  BY <1>6, <1>7, <1>8, OwnChanges
<1>10. NotAlone(w, b)
  BY <1>1, <1>2, <1>6, SoleWriterSteps DEF Writing
<1>11. LinksHold(w, b)
  <2> SUFFICES ASSUME NEW v \in Workers \ {w}, writer[v].phase # "none",
                      writer[v].linked, writer[v].of = b
               PROVE  part[b] \in Reports
    BY <1>9 DEF LinksHold
  <2> QED
    BY DEF ReportsInv, WriterInv, WriterPlaced
<1>12. WriterInv(w)'
  <2>1. WriterPlaced(w)'
    BY <1>3, <1>6, <1>7, <1>9 DEF WriterPlaced, FilesStay, Writing
  <2>2. ~contested[b] => SoleWriter(w)'
    BY <1>6, <1>7, <1>9 DEF SoleWriter, Writing
  <2> QED
    BY <1>1, <1>7, <1>9, <2>1, <2>2 DEF WriterInv
<1>13. \A v \in Workers : WriterInv(v)'
  BY <1>3, <1>4, <1>6, <1>7, <1>9, <1>10, <1>11, <1>12, OthersStay
<1>14. ReportsTypeOK'
  BY <1>1, <1>3, <1>9 DEF ReportsInv, ReportsTypeOK
<1>15. VerdictsKept
  BY <1>4, <1>5 DEF VerdictsKept, Finishing, Job
<1> QED
  BY <1>3, <1>13, <1>14, <1>15, VerdictsStay, ReportsInvFrom

(* The buffer of a run that ends in an exception goes to the file.         *)
LEMMA ClosesOnError ==
  ASSUME ReportsInv, [Next]_vars, NEW w \in Workers, CloseOnError(w),
         \A v \in Workers \ {w} : worker'[v] = worker[v],
         worker'[w].pc \notin Finishing
  PROVE  ReportsInv'
<1> DEFINE b == Job(w)
<1>1. /\ writer' = [writer EXCEPT ![w] = NoWriter]
      /\ attached' = attached /\ contested' = contested
  BY DEF CloseOnError
<1>2. /\ IInv /\ IInv' /\ TypeOK' /\ FilesStay /\ EndsProperly /\ ReportsKept
  BY <1>1, NextInv, NextKeepsFiles, NextEnds, KeptWhenSame, IInvType DEF ReportsInv, IInv
<1>3. VerdictsKept
  BY DEF VerdictsKept, Job
<1>4. NoWriter \in WriterState /\ NoWriter.phase = "none"
  BY DEF NoWriter, WriterState
<1>5. writer' \in [Workers -> WriterState]
  BY <1>1, <1>4 DEF ReportsInv, ReportsTypeOK
<1>6. CASE part' = part
  <2>1. \A v \in Workers : WriterInv(v)'
    BY <1>1, <1>2, <1>6, Dropped
  <2>2. ReportsTypeOK'
    BY <1>1, <1>2, <1>5, <1>6 DEF ReportsInv, ReportsTypeOK
  <2> QED
    BY <1>2, <1>3, <2>1, <2>2, VerdictsStay, ReportsInvFrom
<1>7. CASE part' # part
  <2>1. writer[w].phase = "open"
        /\ \E n \in writer[w].flushed .. EvaluatedAtMost(w) : part' = Written(w, n)
    BY <1>7 DEF CloseOnError
  <2>2. PICK n \in writer[w].flushed .. EvaluatedAtMost(w) : part' = Written(w, n)
    BY <2>1
  <2>3. writer[w].phase \in Writing
    BY <2>1 DEF Writing
  <2>4. /\ b \in Batches /\ writer[w].of = b /\ writer[w].flushed \in Nat
        /\ ~contested[b] => SoleWriter(w)
    BY <2>3, WritingJob
  <2>5. n \in Nat /\ writer[w].flushed <= n /\ n <= RowsRead(File(w))
    <3>1. RowsRead(File(w)) \in Nat
      BY <2>3, WritingJob, ReadRows DEF File, ReportsInv
    <3>2. worker[w].position + ChunkRows \in Nat
      BY <2>3, WritingJob, RowsJob, SettingsAssumption DEF ReportsInv
    <3>3. EvaluatedAtMost(w) <= RowsRead(File(w)) /\ EvaluatedAtMost(w) \in Int
      BY <2>3, <3>1, <3>2, EvaluatedInFile DEF EvaluatedAtMost, AtMost
    <3> QED
      BY <2>4, <3>1, <3>3
  <2> DEFINE file == FileWith(w, n)
  <2>6. OwnChange(w, b, file, NoWriter) /\ GoodFile(w, file)
    BY <1>1, <2>2, <2>3, <2>5, WrittenIsFile DEF OwnChange
  <2> HIDE DEF file
  <2>7. file \in Reports \cup {NoReport}
    BY <2>6 DEF GoodFile
  <2>8. /\ OtherFiles(b) /\ OtherWriters(w, b)
        /\ part'[b] = file /\ writer'[w] = NoWriter
        /\ \A v \in Workers \ {w} : writer'[v] = writer[v]
        /\ part' \in [Batches -> Reports \cup {NoReport}]
    <3> HIDE DEF b
    <3> QED
      BY <1>4, <2>4, <2>6, <2>7, OwnChanges
  <2>9. NotAlone(w, b)
    BY <1>1, <2>1, <2>4, SoleWriterSteps
  <2>10. LinksHold(w, b)
    <3> SUFFICES ASSUME NEW v \in Workers \ {w}, writer[v].phase # "none",
                        writer[v].linked, writer[v].of = b
                 PROVE  file \in Reports
      BY <2>8 DEF LinksHold
    <3>1. part[b] \in Reports
      BY DEF ReportsInv, WriterInv, WriterPlaced
    <3> QED
      BY <2>6, <3>1 DEF GoodFile
  <2>11. writer'[w].phase = "none"
    BY <1>4, <2>8
  <2> HIDE DEF b
  <2>12. ASSUME NEW v \in Workers PROVE WriterInv(v)'
    <3>1. CASE v = w
      BY <2>11, <3>1 DEF WriterInv
    <3>2. CASE v # w
      BY <1>2, <2>4, <2>8, <2>9, <2>10, <2>11, <3>2, OthersStay
    <3> QED
      BY <3>1, <3>2
  <2>13. ReportsTypeOK'
    BY <1>1, <1>2, <1>5, <2>8 DEF ReportsInv, ReportsTypeOK
  <2> QED
    BY <1>2, <1>3, <2>12, <2>13, VerdictsStay, ReportsInvFrom
<1> QED
  BY <1>6, <1>7

LEMMA EndsInError ==
  ASSUME ReportsInv, NEW w \in Workers, LoseLeaseWithReport(w) \/ RaiseWithReport(w)
  PROVE  ReportsInv'
<1>1. TypeOK /\ CloseOnError(w) /\ (LoseLease(w) \/ WorkerRaises(w))
  BY IInvType DEF ReportsInv, LoseLeaseWithReport, RaiseWithReport
<1>2. [Next]_vars /\ \A v \in Workers \ {w} : worker'[v] = worker[v]
  BY <1>1, OthersWork DEF Next, WorkerStep
<1>3. worker'[w].pc \in {"idle", "error"}
  <2> DEFINE state == [worker[w] EXCEPT !.pc = "error", !.seen = {}]
  <2>1. worker \in [Workers -> WorkerState]
    BY <1>1 DEF TypeOK
  <2>2. state.pc = "error"
    BY <2>1 DEF WorkerState
  <2>3. WorkerRaises(w) => worker' = [worker EXCEPT ![w] = state]
    BY DEF WorkerRaises
  <2>4. LoseLease(w) => worker' = [worker EXCEPT ![w] = Idle]
    BY DEF LoseLease
  <2>5. Idle.pc = "idle"
    BY DEF Idle
  <2> HIDE DEF state
  <2> QED
    BY <1>1, <2>1, <2>2, <2>3, <2>4, <2>5
<1> QED
  BY <1>1, <1>2, <1>3, ClosesOnError DEF Finishing

LEMMA CrashesWithReport ==
  ASSUME ReportsInv, NEW w \in Workers, CrashWithReport(w)
  PROVE  ReportsInv'
<1>1. /\ WorkerCrashes(w) /\ writer' = [writer EXCEPT ![w] = NoWriter]
      /\ part' = part /\ attached' = attached /\ contested' = contested
  BY DEF CrashWithReport
<1>2. [Next]_vars
  BY <1>1 DEF Next
<1>3. /\ IInv /\ TypeOK /\ IInv' /\ TypeOK' /\ FilesStay /\ EndsProperly /\ ReportsKept
  BY <1>1, <1>2, NextInv, NextKeepsFiles, NextEnds, KeptWhenSame, IInvType DEF ReportsInv, IInv
<1>4. /\ \A v \in Workers \ {w} : worker'[v] = worker[v]
      /\ worker'[w].pc = "idle"
  BY <1>1, <1>3, OthersWork DEF WorkerCrashes, Idle, TypeOK
<1>5. NoWriter \in WriterState
  BY DEF NoWriter, WriterState
<1>6. ReportsTypeOK'
  BY <1>1, <1>3, <1>5 DEF ReportsInv, ReportsTypeOK
<1>7. \A v \in Workers : WriterInv(v)'
  BY <1>1, <1>3, <1>4, Dropped
<1>8. VerdictsKept
  BY <1>4 DEF VerdictsKept, Finishing, Job
<1> QED
  BY <1>3, <1>6, <1>7, <1>8, VerdictsStay, ReportsInvFrom

LEMMA StepsWithReport ==
  ASSUME ReportsInv, NEW w \in Workers, WithReport(w), UNCHANGED reportVars
  PROVE  ReportsInv'
<1> DEFINE kept(v) == /\ writer[v].phase \in Writing =>
                           worker'[v].pc = worker[v].pc /\ worker'[v].job = worker[v].job
                      /\ worker'[v].pc \in Finishing =>
                           worker[v].pc \in Finishing /\ worker'[v].job = Job(v)
<1>1. TypeOK /\ worker \in [Workers -> WorkerState] /\ worker[w] \in WorkerState
  BY IInvType DEF ReportsInv, TypeOK
<1>2. worker[w].pc # "rows" => writer[w].phase \notin Writing
  BY WritingJob
<1>3. Idle.pc = "idle"
  BY DEF Idle
<1>4. CASE Claims(w) /\ writer[w].phase = "none"
  <2>1. PICK b \in Batches : ClaimNextImportBatch(w, b)
    BY <1>4 DEF Claims
  <2> DEFINE state == [worker[w] EXCEPT !.pc = "claimed", !.job = b]
  <2>2. worker' = [worker EXCEPT ![w] = state] /\ state.pc = "claimed"
    BY <1>1, <2>1 DEF ClaimNextImportBatch, WorkerState
  <2> HIDE DEF state
  <2>3. [Next]_vars
    BY <1>4 DEF Next
  <2>4. \A v \in Workers : kept(v)
    BY <1>1, <1>4, <2>2 DEF Finishing, Writing, Job
  <2> QED
    BY <2>3, <2>4, SameReports DEF VerdictsKept
<1>5. CASE LoadBatchWork(w) /\ writer[w].phase = "none"
  <2> DEFINE state == Loaded(worker[w], batch[Job(w)])
  <2>1. worker' = [worker EXCEPT ![w] = state] /\ state.pc = "rows"
    BY <1>1, <1>5 DEF LoadBatchWork, Loaded, WorkerState
  <2> HIDE DEF state
  <2>2. [Next]_vars
    BY <1>5 DEF Next, WorkerStep
  <2>3. \A v \in Workers : kept(v)
    BY <1>1, <1>5, <2>1 DEF Finishing, Writing, Job
  <2> QED
    BY <2>2, <2>3, SameReports DEF VerdictsKept
<1>6. CASE CommitChunk(w)
  <2> DEFINE state == PastChunk(worker[w], ChunkEnd(w), SampledIssues(w))
  <2>1. worker' = [worker EXCEPT ![w] = state] /\ worker[w].pc = "rows"
    BY <1>6 DEF CommitChunk, HasChunk
  <2>2. state.pc = worker[w].pc /\ state.job = worker[w].job
    BY <1>1 DEF PastChunk, WorkerState
  <2> HIDE DEF state
  <2>3. [Next]_vars
    BY <1>6 DEF Next, WorkerStep
  <2>4. \A v \in Workers : kept(v)
    BY <1>1, <2>1, <2>2 DEF Finishing, Job
  <2> QED
    BY <2>3, <2>4, SameReports DEF VerdictsKept
<1>7. CASE BeginPublication(w)
  <2> DEFINE state == [worker[w] EXCEPT !.pc = "publishing", !.seen = ActiveRows]
  <2>1. worker' = [worker EXCEPT ![w] = state] /\ worker[w].pc = "finalize"
    BY <1>7 DEF BeginPublication, Finalizes
  <2>2. state.job = worker[w].job
    BY <1>1 DEF WorkerState
  <2> HIDE DEF state
  <2>3. [Next]_vars
    BY <1>7 DEF Next, WorkerStep
  <2>4. \A v \in Workers : kept(v)
    BY <1>1, <1>2, <2>1, <2>2 DEF Finishing, Job
  <2> QED
    BY <2>3, <2>4, SameReports DEF VerdictsKept
<1>8. ASSUME WorkerStep(w), worker' = [worker EXCEPT ![w] = Idle], worker[w].pc # "rows"
      PROVE  ReportsInv'
  <2>1. [Next]_vars
    BY <1>8 DEF Next
  <2>2. \A v \in Workers : kept(v)
    BY <1>1, <1>2, <1>3, <1>8 DEF Finishing, Job
  <2> QED
    BY <2>1, <2>2, SameReports DEF VerdictsKept
<1>9. CASE CancelProcessingBatch(w) /\ worker[w].pc # "rows"
  BY <1>8, <1>9 DEF CancelProcessingBatch, WorkerStep
<1>10. CASE RejectBatch(w)
  BY <1>8, <1>10 DEF RejectBatch, Finalizes, WorkerStep
<1>11. CASE PublishBatch(w)
  BY <1>8, <1>11 DEF PublishBatch, WorkerStep
<1>12. CASE FailAndDiscardBatch(w) \/ MarkWorkerFailure(w)
  BY <1>8, <1>12 DEF FailAndDiscardBatch, MarkWorkerFailure, WorkerStep
<1> QED
  BY <1>4, <1>5, <1>6, <1>7, <1>9, <1>10, <1>11, <1>12 DEF WithReport

LEMMA QuietWithReport ==
  ASSUME ReportsInv, NEW b \in Batches, ApiStep(b) \/ LeaseExpires(b), UNCHANGED reportVars
  PROVE  ReportsInv'
<1>1. [Next]_vars
  BY DEF Next
<1>2. worker' = worker
  BY DEF ApiStep, CreateImportBatch, CancelImportBatch, RetryImportBatch,
     ConfirmImportBatchWarnings, LeaseExpires
<1> QED
  BY <1>1, <1>2, SameReports DEF VerdictsKept, Job

LEMMA InitReports ==
  ASSUME ReportsInit
  PROVE  ReportsInv
<1>1. IInv /\ TypeOK
  BY InitInv, IInvType DEF ReportsInit, IInv
<1>2. NoWriter \in WriterState /\ NoWriter.phase = "none"
  BY DEF NoWriter, WriterState
<1>3. ReportsTypeOK
  BY <1>1, <1>2 DEF ReportsInit, ReportsTypeOK
<1>4. \A w \in Workers : WriterInv(w)
  BY <1>2 DEF ReportsInit, WriterInv
<1>5. VerdictsHaveReports
  BY DEF ReportsInit, Init, Idle, VerdictsHaveReports, Finishing
<1>6. UncontestedReportIsComplete
  BY DEF ReportsInit, Init, AbsentRow, UncontestedReportIsComplete, EndedWithFindings
<1> QED
  BY <1>1, <1>3, <1>4, <1>5, <1>6 DEF ReportsInv

LEMMA NextReports ==
  ASSUME ReportsInv, [ReportsNext]_<<vars, reportVars>>
  PROVE  ReportsInv'
<1>1. CASE UNCHANGED <<vars, reportVars>>
  BY <1>1, SameReports DEF vars, VerdictsKept, Job
<1>2. ASSUME NEW w \in Workers, ReportStep(w) PROVE ReportsInv'
  BY <1>2, Opens, Flushes, Closes, Stores, Misses, Attaches, DiscardsReport, DiscardsCancelled
  DEF ReportStep
<1> QED
  BY <1>1, <1>2, QuietWithReport, StepsWithReport, CancelsWithReport, EndsInError,
     CrashesWithReport
  DEF ReportsNext

(* The report that the workers of a batch write one after the other, each  *)
(* from the first row into the one file of reports.py:20-22, is complete   *)
(* when the batch has ended with findings, however often the runs crashed, *)
(* resumed or were retried, unless two workers had the file open at once.  *)
THEOREM ReportsAreComplete == ReportsSpec => []UncontestedReportIsComplete
<1>1. ReportsInv => UncontestedReportIsComplete
  BY DEF ReportsInv
<1> QED
  BY <1>1, InitReports, NextReports, PTL DEF ReportsSpec
=============================================================================
