--------------------------- MODULE ImportBatches ---------------------------
(***************************************************************************)
(* The durable import pipeline of the BI system: the import_batches table, *)
(* the target data table that the batches load, the API operations on a    *)
(* batch (create, cancel, retry, confirm warnings) and the worker          *)
(* processes that claim a batch under a lease, stage its rows chunk by     *)
(* chunk behind a checkpoint and finally publish or discard them.          *)
(*                                                                         *)
(* Every database transaction of the code is one step, as on PostgreSQL    *)
(* when the row of the batch is locked from the read to the commit.  The   *)
(* worker's transactions take that lock (_locked_worker_batch); the API    *)
(* operations and _mark_worker_failure do not, and ImportBatchCalls models *)
(* what that changes.  Between two transactions everything interleaves: a  *)
(* worker may be slow, lose its lease, raise or crash at every point.      *)
(*                                                                         *)
(* The exception is the publication.  All batches load the same target     *)
(* table (batches of different targets share nothing), no lock keeps two   *)
(* of them from publishing at once, and at READ COMMITTED the DELETE that  *)
(* removes what a batch replaces sees the rows that are active when it     *)
(* starts: it is a step of its own, before the commit.                     *)
(*                                                                         *)
(* The quality report is a file that the workers of a batch share:         *)
(* ImportReports adds it.                                                  *)
(***************************************************************************)
EXTENDS Integers, Sequences, FiniteSets

(* A definition named after the one that follows it, with a suffix         *)
(* (HoldsBatchAnyOwner before HoldsBatch), is that one with a plausible    *)
(* bug; each property below is shown to notice one of them.                *)
CONSTANTS
  Batches,          \* identifiers of the rows of import_batches
  Workers,          \* worker ids (run_import_worker.py --worker-id)
  Files,            \* the parsed source files: sequences of rows
  Keys,             \* business keys as they are written in the files
  ColumnValue,      \* the value a key has in its column: 2 and 2.0 are equal
  NullKey,          \* a business key with a NULL column: equal to no key
  Modes,            \* the import modes a request may ask for
  ChunkRows,        \* settings.import_chunk_rows
  MaxRows,          \* settings.import_max_rows
  SampleLimit,      \* settings.import_issue_sample_limit
  MaxFileRows,      \* no file is longer: the row numbers of the target table
  MaxFaults,        \* bound on crashes, exceptions and early lease expiries
  NoWorker,         \* lease_owner IS NULL
  NoBatch           \* an idle worker has no batch

(* What a row of a file contributes: whether a rule of the definition      *)
(* raises an error or a warning for it, and its business key.  A           *)
(* definition without a business key is a file of rows with NullKey.       *)
RowData == [error: BOOLEAN, warning: BOOLEAN, key: Keys \cup {NullKey}]

ASSUME FilesAssumption ==
  /\ MaxFileRows \in Nat
  /\ Files \subseteq Seq(RowData)
  /\ \A f \in Files : Len(f) <= MaxFileRows
  /\ NullKey \notin Keys
  /\ DOMAIN ColumnValue = Keys

ASSUME SettingsAssumption ==
  /\ ChunkRows \in Nat \ {0}
  /\ MaxRows \in Nat \ {0}
  /\ SampleLimit \in Nat
  /\ MaxFaults \in Nat

ASSUME NamesAssumption ==
  /\ Modes \subseteq {"append", "upsert", "replace"}
  /\ NoWorker \notin Workers
  /\ NoBatch \notin Batches

VARIABLES
  batch,    \* the row of each batch, with its issue samples
  queue,    \* the batches in the order of available_at
  staged,   \* staged[b][i]: copies of row i of b with _active = FALSE
  active,   \* active[b][i]: copies of row i of b with _active = TRUE
  worker,   \* the local state of each worker process
  faults    \* how many faults have happened, at most MaxFaults

vars == <<batch, queue, staged, active, worker, faults>>

RowNumbers == 1 .. MaxFileRows
NoRows == [i \in RowNumbers |-> 0]
NoTotal == -1     \* total_rows IS NULL

Succeeded == {"succeeded", "partially_succeeded"}
Terminal == Succeeded \cup {"cancelled"}
Statuses == {"pending", "processing", "failed"} \cup Terminal

ErrorCodes == {"none", "worker_error", "row_limit_exceeded", "no_data_rows",
               "quality_errors", "warnings_confirmation_required"}

-----------------------------------------------------------------------------
(* Row evaluation: QualityEvaluator.evaluate over the rows of a file.      *)

(* The duplicate tracker has seen every row of the file before row i: each *)
(* run evaluates from row 1, rows behind the checkpoint included.  It      *)
(* compares the keys as written, Decimal("2") and Decimal("2.0") differ.   *)
DuplicateKeyMissed(f, i) == FALSE

DuplicateKey(f, i) ==
  /\ f[i].key # NullKey
  /\ \E j \in 1 .. (i - 1) : f[j].key = f[i].key

HasError(f, i) == f[i].error \/ DuplicateKey(f, i)

Accepted(f, i, confirmed) ==
  ~HasError(f, i) /\ (confirmed \/ ~f[i].warning)

ErrorRows(f, lo, hi) == Cardinality({i \in lo .. hi : HasError(f, i)})
WarningRows(f, lo, hi) == Cardinality({i \in lo .. hi : f[i].warning})
AcceptedRows(f, lo, hi, confirmed) ==
  Cardinality({i \in lo .. hi : Accepted(f, i, confirmed)})

(* One issue for the row's own error, one for its warning, one for a       *)
(* duplicated business key.                                                *)
Issues(f, lo, hi) ==
  Cardinality({i \in lo .. hi : f[i].error})
    + Cardinality({i \in lo .. hi : DuplicateKey(f, i)})
    + WarningRows(f, lo, hi)

AtMost(n, limit) == IF n <= limit THEN n ELSE limit

-----------------------------------------------------------------------------
(* The rows of import_batches and the workers.  unseen is no column but    *)
(* the history of a published batch: the batches that were published       *)
(* between its DELETE and its commit.                                      *)

BatchRow ==
  [status: Statuses \cup {"absent"}, file: Seq(RowData),
   mode: {"append", "upsert", "replace"}, warnings_confirmed: BOOLEAN,
   cancellation_requested: BOOLEAN, lease_owner: Workers \cup {NoWorker},
   lease_expired: BOOLEAN, checkpoint_row: Nat, processed_rows: Nat,
   valid_rows: Nat, error_rows: Nat, warning_rows: Nat,
   total_rows: Nat \cup {NoTotal}, error_code: ErrorCodes,
   samples: Nat, unseen: SUBSET Batches]

AbsentRow ==
  [status |-> "absent", file |-> << >>, mode |-> "append",
   warnings_confirmed |-> FALSE, cancellation_requested |-> FALSE,
   lease_owner |-> NoWorker, lease_expired |-> FALSE, checkpoint_row |-> 0,
   processed_rows |-> 0, valid_rows |-> 0, error_rows |-> 0,
   warning_rows |-> 0, total_rows |-> NoTotal, error_code |-> "none",
   samples |-> 0, unseen |-> {}]

(* pc: where process_import_batch stands; position: the source rows behind *)
(* the last chunk boundary; warnings_confirmed: as loaded into BatchWork;  *)
(* sample_count: the samples counted so far; seen: the active rows of the  *)
(* target table that the DELETE of the publication has seen.               *)
WorkerState ==
  [pc: {"idle", "claimed", "rows", "finalize", "publishing", "over_limit", "error"},
   job: Batches \cup {NoBatch}, position: Nat,
   warnings_confirmed: BOOLEAN, sample_count: Nat,
   seen: SUBSET (Batches \X RowNumbers)]

Idle == [pc |-> "idle", job |-> NoBatch, position |-> 0,
         warnings_confirmed |-> FALSE, sample_count |-> 0, seen |-> {}]

Init ==
  /\ batch = [b \in Batches |-> AbsentRow]
  /\ queue = << >>
  /\ staged = [b \in Batches |-> NoRows]
  /\ active = [b \in Batches |-> NoRows]
  /\ worker = [w \in Workers |-> Idle]
  /\ faults = 0

(* available_at becomes now: the batch is the last one in the order.       *)
MoveToEnd(b) ==
  LET at == CHOOSE n \in 1 .. Len(queue) : queue[n] = b
  IN  [n \in 1 .. Len(queue) |->
         IF n = Len(queue) THEN b ELSE IF n < at THEN queue[n] ELSE queue[n + 1]]

Job(w) == worker[w].job
File(w) == batch[Job(w)].file

(* The row of a batch is locked while a worker publishes it: others wait   *)
(* for it, and a worker in search of work skips it.                        *)
Locked(b) == \E w \in Workers : worker[w].pc = "publishing" /\ Job(w) = b

-----------------------------------------------------------------------------
(* The API operations.                                                     *)

SubmittedRow(row, f, mode, confirmed) ==
  [row EXCEPT !.status = "pending", !.file = f, !.mode = mode,
              !.warnings_confirmed = confirmed]

CreateImportBatch(b, f, mode, confirmed) ==
  /\ batch[b].status = "absent"
  /\ batch' = [batch EXCEPT ![b] = SubmittedRow(@, f, mode, confirmed)]
  /\ queue' = Append(queue, b)
  /\ UNCHANGED <<staged, active, worker, faults>>

CancelledAtOnce == {"pending", "failed"}

(* A waiting or failed batch is cancelled at once, whatever it has staged  *)
(* stays; a batch being processed is only asked to stop.                   *)
CancelImportBatch(b) ==
  /\ ~Locked(b)
  /\ \/ /\ batch[b].status \in CancelledAtOnce
        /\ batch' = [batch EXCEPT ![b].status = "cancelled"]
     \/ /\ batch[b].status = "processing"
        /\ batch' = [batch EXCEPT ![b].cancellation_requested = TRUE]
  /\ UNCHANGED <<queue, staged, active, worker, faults>>

ResetResultsPartial(row) ==
  [row EXCEPT !.samples = 0, !.total_rows = NoTotal, !.processed_rows = 0]

(* _reset_batch_results.                                                   *)
ResetResults(row) ==
  [row EXCEPT !.samples = 0, !.total_rows = NoTotal, !.processed_rows = 0,
              !.valid_rows = 0, !.error_rows = 0, !.warning_rows = 0]

Requeued(row) ==
  [row EXCEPT !.status = "pending", !.lease_owner = NoWorker,
              !.lease_expired = FALSE, !.cancellation_requested = FALSE,
              !.error_code = "none"]

(* The results of a checkpointed batch are kept: the next run resumes.     *)
RetryImportBatch(b) ==
  /\ batch[b].status = "failed"
  /\ batch' = [batch EXCEPT ![b] =
       IF @.checkpoint_row = 0 THEN ResetResults(Requeued(@)) ELSE Requeued(@)]
  /\ queue' = MoveToEnd(b)
  /\ UNCHANGED <<staged, active, worker, faults>>

Confirmed(row) ==
  [row EXCEPT !.warnings_confirmed = TRUE, !.status = "pending",
              !.error_code = "none", !.checkpoint_row = 0]

ConfirmImportBatchWarnings(b) ==
  /\ batch[b].status = "failed"
  /\ batch[b].error_code = "warnings_confirmation_required"
  /\ batch' = [batch EXCEPT ![b] = ResetResults(Confirmed(@))]
  /\ queue' = MoveToEnd(b)
  /\ UNCHANGED <<staged, active, worker, faults>>

-----------------------------------------------------------------------------
(* The worker process: run_next_import_batch and process_import_batch.     *)

ClaimablePendingOnly(b) == batch[b].status = "pending"

Claimable(b) ==
  /\ ~Locked(b)
  /\ \/ batch[b].status = "pending"
     \/ batch[b].status = "processing" /\ batch[b].lease_expired

(* The first claimable batch in the order of available_at.                 *)
NextClaimable(b) ==
  \E n \in 1 .. Len(queue) :
    /\ queue[n] = b
    /\ Claimable(b)
    /\ \A m \in 1 .. (n - 1) : ~Claimable(queue[m])

ClaimedRow(row, w) ==
  [row EXCEPT !.status = "processing", !.lease_owner = w, !.lease_expired = FALSE]

ClaimNextImportBatch(w, b) ==
  /\ worker[w].pc = "idle"
  /\ NextClaimable(b)
  /\ batch' = [batch EXCEPT ![b] = ClaimedRow(@, w)]
  /\ worker' = [worker EXCEPT ![w] = [@ EXCEPT !.pc = "claimed", !.job = b]]
  /\ UNCHANGED <<queue, staged, active, faults>>

HoldsBatchAnyOwner(w) == batch[Job(w)].status = "processing"

(* The test of _load_batch_work and _locked_worker_batch.                  *)
HoldsBatch(w) ==
  /\ batch[Job(w)].status = "processing"
  /\ batch[Job(w)].lease_owner = w

(* A file longer than MaxRows raises when row MaxRows + 1 is read: before  *)
(* that only the full chunks below it are committed.                       *)
ChunkEnd(w) == AtMost(worker[w].position + ChunkRows, Len(File(w)))

HasChunkFullOnly(w) ==
  worker[w].pc = "rows" /\ worker[w].position + ChunkRows <= Len(File(w))

HasChunk(w) ==
  /\ worker[w].pc = "rows"
  /\ worker[w].position < Len(File(w))
  /\ Len(File(w)) <= MaxRows \/ worker[w].position + ChunkRows <= MaxRows

ResumePositionFromStart(row) == 0

(* Rows up to the checkpoint are evaluated again but not staged again.     *)
ResumePosition(row) == row.checkpoint_row

Loaded(state, row) ==
  [state EXCEPT !.pc = "rows", !.position = ResumePosition(row),
                !.warnings_confirmed = row.warnings_confirmed,
                !.sample_count = row.samples]

LoadBatchWork(w) ==
  /\ worker[w].pc = "claimed"
  /\ HoldsBatch(w)
  /\ worker' = [worker EXCEPT ![w] = Loaded(@, batch[Job(w)])]
  /\ UNCHANGED <<batch, queue, staged, active, faults>>

(* Every transaction of the worker but the attachment of the report starts *)
(* by testing the lease; ImportWorkerLostLeaseError ends the run.          *)
LoseLease(w) ==
  /\ worker[w].pc \in {"claimed", "finalize", "over_limit"} \/ HasChunk(w)
  /\ ~HoldsBatch(w)
  /\ worker' = [worker EXCEPT ![w] = Idle]
  /\ UNCHANGED <<batch, queue, staged, active, faults>>

StageRows(b, f, lo, hi, confirmed) ==
  staged' = [staged EXCEPT ![b] = [i \in RowNumbers |->
    IF i \in lo .. hi /\ Accepted(f, i, confirmed) THEN @[i] + 1 ELSE @[i]]]

(* The issues of the chunk that still fit into the sample.                 *)
SampledIssues(w) ==
  LET room == IF worker[w].sample_count < SampleLimit
                THEN SampleLimit - worker[w].sample_count ELSE 0
  IN  AtMost(Issues(File(w), worker[w].position + 1, ChunkEnd(w)), room)

CommittedRow(row, lo, hi, confirmed, sampled) ==
  [row EXCEPT
     !.processed_rows = @ + (hi - lo + 1),
     !.valid_rows = @ + AcceptedRows(row.file, lo, hi, confirmed),
     !.error_rows = @ + ErrorRows(row.file, lo, hi),
     !.warning_rows = @ + WarningRows(row.file, lo, hi),
     !.checkpoint_row = row.processed_rows + (hi - lo + 1),
     !.samples = @ + sampled,
     !.lease_expired = FALSE]

PastChunk(state, hi, sampled) ==
  [state EXCEPT !.position = hi, !.sample_count = @ + sampled]

CommitChunk(w) ==
  LET b == Job(w)
      lo == worker[w].position + 1
      hi == ChunkEnd(w)
      confirmed == worker[w].warnings_confirmed
  IN
  /\ HasChunk(w)
  /\ HoldsBatch(w)
  /\ ~batch[b].cancellation_requested
  /\ StageRows(b, File(w), lo, hi, confirmed)
  /\ batch' = [batch EXCEPT ![b] =
                 CommittedRow(@, lo, hi, confirmed, SampledIssues(w))]
  /\ worker' = [worker EXCEPT ![w] = PastChunk(@, hi, SampledIssues(w))]
  /\ UNCHANGED <<queue, active, faults>>

DiscardRows(b) ==
  /\ staged' = [staged EXCEPT ![b] = NoRows]
  /\ active' = [active EXCEPT ![b] = NoRows]

CancelledRow(row) ==
  [row EXCEPT !.status = "cancelled", !.samples = 0, !.processed_rows = 0,
              !.valid_rows = 0, !.error_rows = 0, !.warning_rows = 0,
              !.checkpoint_row = 0, !.lease_owner = NoWorker,
              !.lease_expired = FALSE]

(* _cancel_processing_batch, entered from a chunk or from the finalization.*)
CancelProcessingBatch(w) ==
  LET b == Job(w) IN
  /\ HasChunk(w) \/ worker[w].pc = "finalize"
  /\ HoldsBatch(w)
  /\ batch[b].cancellation_requested
  /\ DiscardRows(b)
  /\ batch' = [batch EXCEPT ![b] = CancelledRow(@)]
  /\ worker' = [worker EXCEPT ![w] = Idle]
  /\ UNCHANGED <<queue, faults>>

(* All rows are committed, or row MaxRows + 1 was read.                    *)
FinishRows(w) ==
  /\ worker[w].pc = "rows" /\ ~HasChunk(w)
  /\ worker' = [worker EXCEPT ![w].pc =
                 IF Len(File(w)) > MaxRows THEN "over_limit" ELSE "finalize"]
  /\ UNCHANGED <<batch, queue, staged, active, faults>>

FailedRowKeepsCheckpoint(row, code) ==
  [row EXCEPT !.status = "failed", !.error_code = code,
              !.lease_owner = NoWorker, !.lease_expired = FALSE]

(* _set_quality_failure: the staged rows go, the counts stay for the user. *)
FailedRow(row, code) ==
  [row EXCEPT !.status = "failed", !.checkpoint_row = 0, !.error_code = code,
              !.lease_owner = NoWorker, !.lease_expired = FALSE]

RejectedRow(row, total, code) ==
  [FailedRow(row, code) EXCEPT !.total_rows = total]

(* The blocking verdict of _finalize_batch on its locked row, or "none".   *)
Verdict(row, total) ==
  IF total = 0 THEN "no_data_rows"
  ELSE IF row.error_rows > 0 THEN "quality_errors"
  ELSE IF row.warning_rows > 0 /\ ~row.warnings_confirmed
    THEN "warnings_confirmation_required"
  ELSE "none"

FinalizesDespiteCancel(w) == worker[w].pc = "finalize" /\ HoldsBatch(w)

Finalizes(w) ==
  /\ worker[w].pc = "finalize"
  /\ HoldsBatch(w)
  /\ ~batch[Job(w)].cancellation_requested

RejectBatch(w) ==
  LET b == Job(w)
      total == Len(File(w))
      code == Verdict(batch[b], total)
  IN
  /\ Finalizes(w)
  /\ code # "none"
  /\ DiscardRows(b)
  /\ batch' = [batch EXCEPT ![b] = RejectedRow(@, total, code)]
  /\ worker' = [worker EXCEPT ![w] = Idle]
  /\ UNCHANGED <<queue, faults>>

(* The database compares the values of the columns; NULL equals nothing.   *)
SameKey(k, l) ==
  /\ k # NullKey /\ l # NullKey
  /\ ColumnValue[k] = ColumnValue[l]

DisplacedOwnOnly(b, c, i) == batch[b].mode # "append" /\ b = c

(* finalize_batch_rows: which of the active rows that it sees the DELETE   *)
(* of batch b removes.  An upsert matches its own rows, still staged.      *)
Displaced(b, c, i) ==
  \/ batch[b].mode = "replace"
  \/ /\ batch[b].mode = "upsert"
     /\ \E j \in RowNumbers :
          /\ staged[b][j] + active[b][j] > 0
          /\ SameKey(batch[b].file[j].key, batch[c].file[i].key)

ActiveRows == {row \in Batches \X RowNumbers : active[row[1]][row[2]] > 0}

(* _finalize_batch up to the start of the DELETE, the row of the batch     *)
(* locked.                                                                 *)
BeginPublication(w) ==
  /\ Finalizes(w)
  /\ Verdict(batch[Job(w)], Len(File(w))) = "none"
  /\ worker' = [worker EXCEPT ![w] =
                 [@ EXCEPT !.pc = "publishing", !.seen = ActiveRows]]
  /\ UNCHANGED <<batch, queue, staged, active, faults>>

(* The DELETE and the UPDATE of the own rows become visible at the commit. *)
(* The own rows and the mode have not changed since the DELETE; a row it   *)
(* selected may be gone already, deleted by a batch published since.       *)
PublishRows(b, seen) ==
  /\ active' = [c \in Batches |-> [i \in RowNumbers |->
       (IF active[c][i] > 0 /\ <<c, i>> \in seen /\ Displaced(b, c, i)
          THEN 0 ELSE active[c][i])
         + (IF c = b THEN staged[b][i] ELSE 0)]]
  /\ staged' = [staged EXCEPT ![b] = NoRows]

(* The batches with rows that became active behind the back of the DELETE. *)
Unseen(w) ==
  {c \in Batches : \E i \in RowNumbers :
     active[c][i] > 0 /\ <<c, i>> \notin worker[w].seen}

PublishedRow(row, total, unseen) ==
  [row EXCEPT
     !.status = IF row.warning_rows > 0 THEN "partially_succeeded" ELSE "succeeded",
     !.total_rows = total, !.lease_owner = NoWorker, !.lease_expired = FALSE,
     !.unseen = unseen]

PublishBatch(w) ==
  LET b == Job(w) IN
  /\ worker[w].pc = "publishing"
  /\ PublishRows(b, worker[w].seen)
  /\ batch' = [batch EXCEPT ![b] = PublishedRow(@, Len(File(w)), Unseen(w))]
  /\ worker' = [worker EXCEPT ![w] = Idle]
  /\ UNCHANGED <<queue, faults>>

(* _fail_and_discard_batch: a pending cancellation is not looked at.       *)
FailAndDiscardBatch(w) ==
  LET b == Job(w) IN
  /\ worker[w].pc = "over_limit"
  /\ HoldsBatch(w)
  /\ DiscardRows(b)
  /\ batch' = [batch EXCEPT ![b] = FailedRow(@, "row_limit_exceeded")]
  /\ worker' = [worker EXCEPT ![w] = Idle]
  /\ UNCHANGED <<queue, faults>>

WorkerFailedRow(row) ==
  [row EXCEPT !.status = "failed", !.error_code = "worker_error",
              !.lease_owner = NoWorker, !.lease_expired = FALSE]

MayMarkFailureUnchecked(w) == TRUE

MayMarkFailure(w) == HoldsBatch(w)

(* _mark_worker_failure: staged rows and checkpoint are kept for a retry.  *)
MarkWorkerFailure(w) ==
  LET b == Job(w) IN
  /\ worker[w].pc = "error"
  /\ batch' = IF MayMarkFailure(w)
                THEN [batch EXCEPT ![b] = WorkerFailedRow(@)]
                ELSE batch
  /\ worker' = [worker EXCEPT ![w] = Idle]
  /\ UNCHANGED <<queue, staged, active, faults>>

-----------------------------------------------------------------------------
(* Faults.  A transaction that raises is rolled back; so is one of two     *)
(* publications that wait for each other's rows, ended by the database.    *)

Running(w) ==
  worker[w].pc \in {"claimed", "rows", "finalize", "publishing", "over_limit"}

WorkerRaises(w) ==
  /\ Running(w)
  /\ faults < MaxFaults
  /\ faults' = faults + 1
  /\ worker' = [worker EXCEPT ![w] = [@ EXCEPT !.pc = "error", !.seen = {}]]
  /\ UNCHANGED <<batch, queue, staged, active>>

WorkerCrashes(w) ==
  /\ worker[w].pc # "idle"
  /\ faults < MaxFaults
  /\ faults' = faults + 1
  /\ worker' = [worker EXCEPT ![w] = Idle]
  /\ UNCHANGED <<batch, queue, staged, active>>

Abandoned(b) ==
  ~\E w \in Workers : batch[b].lease_owner = w /\ Job(w) = b

(* The lease of a slow worker expires while it still runs: a fault.  That  *)
(* of a worker which is gone expires with time.                            *)
LeaseExpires(b) ==
  /\ batch[b].status = "processing"
  /\ ~batch[b].lease_expired
  /\ \/ Abandoned(b) /\ faults' = faults
     \/ ~Abandoned(b) /\ faults < MaxFaults /\ faults' = faults + 1
  /\ batch' = [batch EXCEPT ![b].lease_expired = TRUE]
  /\ UNCHANGED <<queue, staged, active, worker>>

-----------------------------------------------------------------------------
ApiStep(b) ==
  \/ \E f \in Files, mode \in Modes, confirmed \in BOOLEAN :
       CreateImportBatch(b, f, mode, confirmed)
  \/ CancelImportBatch(b)
  \/ RetryImportBatch(b)
  \/ ConfirmImportBatchWarnings(b)

Claims(w) == \E b \in Batches : ClaimNextImportBatch(w, b)

WorkerStep(w) ==
  \/ LoadBatchWork(w)
  \/ LoseLease(w)
  \/ CommitChunk(w)
  \/ CancelProcessingBatch(w)
  \/ FinishRows(w)
  \/ RejectBatch(w)
  \/ BeginPublication(w)
  \/ PublishBatch(w)
  \/ FailAndDiscardBatch(w)
  \/ MarkWorkerFailure(w)

Next ==
  \/ \E b \in Batches : ApiStep(b)
  \/ \E w \in Workers : Claims(w)
  \/ \E w \in Workers : WorkerStep(w)
  \/ \E w \in Workers : WorkerRaises(w)
  \/ \E w \in Workers : WorkerCrashes(w)
  \/ \E b \in Batches : LeaseExpires(b)

Spec == Init /\ [][Next]_vars

(* A worker's loop never stops, it polls for work, and time passes for the *)
(* leases.  Nobody has to call the API, and no fault has to happen.        *)
Fairness ==
  /\ \A w \in Workers : WF_vars(WorkerStep(w)) /\ WF_vars(Claims(w))
  /\ \A b \in Batches : WF_vars(Abandoned(b) /\ LeaseExpires(b))

FairSpec == Spec /\ Fairness

-----------------------------------------------------------------------------
(* Properties.                                                             *)

(* Every variable keeps its shape: what the columns of import_batches, the *)
(* target table and the locals of process_import_batch can hold.           *)
TypeOK ==
  /\ batch \in [Batches -> BatchRow]
  /\ queue \in Seq(Batches)
  /\ staged \in [Batches -> [RowNumbers -> Nat]]
  /\ active \in [Batches -> [RowNumbers -> Nat]]
  /\ worker \in [Workers -> WorkerState]
  /\ \A w \in Workers : worker[w].pc # "idle" => Job(w) \in Batches
  /\ faults \in Nat

(* "A failed retry must not duplicate data": whatever crashes, expired     *)
(* leases, resumed checkpoints and retries happened, the target table      *)
(* holds no row of a file twice.                                           *)
ExactlyOnce ==
  \A b \in Batches, i \in RowNumbers : staged[b][i] + active[b][i] <= 1

(* The checkpoint tells the truth: the staged rows of a batch that may run *)
(* again are the accepted rows up to its checkpoint, so that resuming      *)
(* behind the checkpoint neither skips nor repeats a row.                  *)
RowsBehindCheckpoint(row) ==
  [i \in RowNumbers |->
     IF i <= row.checkpoint_row /\ Accepted(row.file, i, row.warnings_confirmed)
       THEN 1 ELSE 0]

MayRunAgain == {"pending", "processing", "failed"}

StagedBehindCheckpoint ==
  \A b \in Batches : batch[b].status \in MayRunAgain =>
    staged[b] = RowsBehindCheckpoint(batch[b])

(* The verdict of _finalize_batch rests on counters accumulated over       *)
(* several runs and workers: they are those of the rows behind the         *)
(* checkpoint, and the issue samples are the first SampleLimit issues.  A  *)
(* rejected batch keeps the counts of its last run until it is reset.      *)
CountersOf(row, last) ==
  /\ row.processed_rows = last
  /\ row.error_rows = ErrorRows(row.file, 1, last)
  /\ row.warning_rows = WarningRows(row.file, 1, last)
  /\ row.valid_rows = AcceptedRows(row.file, 1, last, row.warnings_confirmed)
  /\ row.samples = AtMost(Issues(row.file, 1, last), SampleLimit)

CountersMatch(row) ==
  \/ row.status \in {"pending", "processing"}
  \/ row.status = "failed" /\ row.checkpoint_row > 0
  => CountersOf(row, row.checkpoint_row)

CountersMatchCheckpoint == \A b \in Batches : CountersMatch(batch[b])

(* A worker that still holds its batch works from current data: nobody     *)
(* moved the checkpoint, the samples or the confirmation it has loaded.    *)
Midway == {"rows", "finalize", "publishing", "over_limit"}

ViewIsCurrent(state, row) ==
  /\ state.position = row.checkpoint_row
  /\ state.sample_count = row.samples
  /\ state.warnings_confirmed = row.warnings_confirmed

WorkerViewIsCurrent ==
  \A w \in Workers :
    worker[w].pc \in Midway /\ HoldsBatch(w) => ViewIsCurrent(worker[w], batch[Job(w)])

(* Cancelled, failed and unfinished imports leave no queryable data: only  *)
(* a batch that succeeded has active rows in the target table.             *)
OnlySucceededVisible ==
  \A b \in Batches, i \in RowNumbers :
    active[b][i] > 0 => batch[b].status \in Succeeded

(* A request to start again is not answered by a cancellation that was     *)
(* asked of an earlier run.                                                *)
PendingIsNotCancelled ==
  \A b \in Batches :
    batch[b].status = "pending" => ~batch[b].cancellation_requested

(* A target loaded by upserts and replacements has one active row for a    *)
(* business key: duplicates inside a file are errors even across a         *)
(* checkpoint, and those of batches published before are displaced.  Two   *)
(* gaps are left.  A file may write one value in two ways, which only the  *)
(* database takes for equal; and of two batches that are published at the  *)
(* same time the later does not see the rows of the earlier.               *)
KeysAreUnique ==
  \A b, c \in Batches, i, j \in RowNumbers :
    /\ {batch[b].mode, batch[c].mode} \subseteq {"upsert", "replace"}
    /\ active[b][i] > 0 /\ active[c][j] > 0
    /\ SameKey(batch[b].file[i].key, batch[c].file[j].key)
    => \/ b = c /\ (i = j \/ batch[b].file[i].key # batch[c].file[j].key)
       \/ c \in batch[b].unseen
       \/ b \in batch[c].unseen

(* The step to a success publishes the whole file: every row of it, none   *)
(* of them erroneous, becomes active once, and nothing stays staged.       *)
PublishesWholeFile ==
  [][\A b \in Batches :
       batch[b].status \notin Succeeded /\ batch'[b].status \in Succeeded =>
         LET f == batch[b].file IN
         /\ f # << >> /\ Len(f) <= MaxRows
         /\ \A i \in RowNumbers : active'[b][i] = IF i <= Len(f) THEN 1 ELSE 0
         /\ \A i \in 1 .. Len(f) : Accepted(f, i, batch[b].warnings_confirmed)
         /\ staged'[b] = NoRows
         /\ batch'[b].valid_rows = Len(f) /\ batch'[b].total_rows = Len(f)
         /\ batch'[b].status = "partially_succeeded"
              <=> \E i \in 1 .. Len(f) : f[i].warning]_vars

(* Once a cancellation request is accepted the batch does not publish.     *)
CancellationWins ==
  [][\A b \in Batches :
       batch[b].cancellation_requested =>
         \/ batch'[b].status \notin Succeeded
         \/ batch'[b].status = batch[b].status]_vars

(* Every submitted batch that waits or runs comes to a result: a dead      *)
(* worker's lease expires, another worker resumes, and a batch that others *)
(* keep retrying does not overtake it for ever.                            *)
EveryRunEnds ==
  \A b \in Batches :
    batch[b].status \in {"pending", "processing"}
      ~> batch[b].status \in Terminal \cup {"failed"}

-----------------------------------------------------------------------------
(* The inductive invariant behind the safety properties: what ties a row   *)
(* of import_batches to its rows in the target table, and what ties the    *)
(* locals of a worker to the row it works on.                              *)

AwaitsConfirmation(row) ==
  row.status = "failed" /\ row.error_code = "warnings_confirmation_required"

RowInv(row, st, ac) ==
  /\ row.status = "absent" => row = AbsentRow /\ st = NoRows
  /\ Len(row.file) <= MaxFileRows
  /\ row.checkpoint_row <= Len(row.file)
  /\ row.status \notin Succeeded => ac = NoRows
  /\ row.status \in Succeeded => st = NoRows
  /\ \A i \in RowNumbers : st[i] + ac[i] <= 1
  /\ row.status \in MayRunAgain => st = RowsBehindCheckpoint(row)
  /\ CountersMatch(row)
  /\ AwaitsConfirmation(row) => row.checkpoint_row = 0 /\ ~row.cancellation_requested
  /\ row.status = "pending" => ~row.cancellation_requested

(* Nobody but its publisher changes a locked row, but for the expiry of    *)
(* its lease.                                                              *)
MayPublish(w, row) ==
  /\ row.status = "processing" /\ row.lease_owner = w
  /\ ~row.cancellation_requested
  /\ Verdict(row, Len(row.file)) = "none"

ViewInv(w, state, row) ==
  /\ row.status # "absent"
  /\ state.pc \in Midway =>
       /\ state.position <= Len(row.file)
       /\ row.status = "processing" /\ row.lease_owner = w => ViewIsCurrent(state, row)
  /\ state.pc \in {"finalize", "publishing"} =>
       Len(row.file) <= MaxRows /\ state.position = Len(row.file)
  /\ state.pc = "publishing" => MayPublish(w, row)

IInv ==
  /\ TypeOK
  /\ \A b \in Batches : RowInv(batch[b], staged[b], active[b])
  /\ \A w \in Workers :
       worker[w].pc # "idle" => ViewInv(w, worker[w], batch[Job(w)])

(* Refinement: seen through the public columns, the active rows and what   *)
(* the publications under way have seen of them, the pipeline behaves like *)
(* ImportPublication; claims by a second worker, chunks, lost leases and   *)
(* most crashes are stuttering steps.                                      *)
Publication == INSTANCE ImportPublication WITH
  request <- [b \in Batches |->
                [file |-> batch[b].file, mode |-> batch[b].mode,
                 warnings_confirmed |-> batch[b].warnings_confirmed]],
  state <- [b \in Batches |-> batch[b].status],
  visible <- ActiveRows,
  snapshot <- [b \in Batches |->
                 {worker[w].seen : w \in {v \in Workers :
                    worker[v].pc = "publishing" /\ worker[v].job = b}}]

ImplementsPublication == Publication!Spec
=============================================================================
