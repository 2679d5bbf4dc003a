---------------------------- MODULE ImportReports ----------------------------
(***************************************************************************)
(* The quality report of an import: each run of process_import_batch       *)
(* writes the issues of the rows it evaluates, from the first row of the   *)
(* file, to .reports/{batch}.csv.part, stores that file when the rows are  *)
(* at an end, attaches what it has stored to the batch and unlinks it.     *)
(*                                                                         *)
(* The file is one for all workers of a batch, and none of this looks at   *)
(* the lease: opening it truncates what a slow predecessor is writing, the *)
(* predecessor goes on at its own offset, each reads and unlinks whatever  *)
(* is at the path.  All runs write the same text at the same offsets, so   *)
(* that a file is the set of the rows whose issues it holds.  What is      *)
(* written reaches the file when the buffer is full and on close; the cuts *)
(* are taken to fall between rows.                                         *)
(***************************************************************************)
EXTENDS ImportBatches

CONSTANT NoReport   \* no file at the path, no report attached

VARIABLES
  part,       \* part[b]: the file at .reports/{b}.csv.part
  attached,   \* attached[b]: the report of b that the user can download
  writer,     \* the QualityReportWriter of each worker
  contested   \* history: whether two workers had the file of b open at once

reportVars == <<part, attached, writer, contested>>

Reports == SUBSET RowNumbers

(* flushed: the rows whose issues this writer has passed to the file;      *)
(* linked: its file is the one at the path; stored: the copy it attaches.  *)
WriterState ==
  [phase: {"none", "open", "closed", "stored", "attached", "cancelled"},
   of: Batches \cup {NoBatch}, flushed: Nat, linked: BOOLEAN,
   stored: Reports \cup {NoReport}]

NoWriter == [phase |-> "none", of |-> NoBatch, flushed |-> 0, linked |-> FALSE,
             stored |-> NoReport]

ReportsInit ==
  /\ Init
  /\ part = [b \in Batches |-> NoReport]
  /\ attached = [b \in Batches |-> NoReport]
  /\ writer = [w \in Workers |-> NoWriter]
  /\ contested = [b \in Batches |-> FALSE]

IssueRows(f, lo, hi) == {i \in lo .. hi : HasError(f, i) \/ f[i].warning}

(* The rows that are evaluated before the limit raises.                    *)
RowsRead(f) == AtMost(Len(f), MaxRows)
FullReport(f) == IssueRows(f, 1, RowsRead(f))

(* A worker has evaluated at most the rows of the chunk it is collecting.  *)
EvaluatedAtMost(w) == AtMost(worker[w].position + ChunkRows, RowsRead(File(w)))

(* The buffer up to row n goes to the file, if others can still see it.    *)
Written(w, n) ==
  IF writer[w].linked
    THEN [part EXCEPT ![Job(w)] = @ \cup IssueRows(File(w), writer[w].flushed + 1, n)]
    ELSE part

-----------------------------------------------------------------------------
(* The steps of the report.                                                *)

SharesReport(w) ==
  \E v \in Workers \ {w} : writer[v].phase # "none" /\ writer[v].of = Job(w)

FlushedWhenOpenedAtCheckpoint(w) == worker[w].position

(* A resumed run writes the report from the first row again.               *)
FlushedWhenOpened(w) == 0

OpenReport(w) ==
  LET b == Job(w) IN
  /\ worker[w].pc = "rows" /\ writer[w].phase = "none"
  /\ part' = [part EXCEPT ![b] = {}]
  /\ writer' = [writer EXCEPT ![w] =
       [phase |-> "open", of |-> b, flushed |-> FlushedWhenOpened(w),
        linked |-> TRUE, stored |-> NoReport]]
  /\ contested' = [contested EXCEPT ![b] = @ \/ SharesReport(w)]
  /\ UNCHANGED <<vars, attached>>

FlushReport(w) ==
  /\ writer[w].phase = "open"
  /\ \E n \in (writer[w].flushed + 1) .. EvaluatedAtMost(w) :
       /\ part' = Written(w, n)
       /\ writer' = [writer EXCEPT ![w].flushed = n]
  /\ UNCHANGED <<vars, attached, contested>>

CloseReport(w) ==
  LET n == RowsRead(File(w)) IN
  /\ writer[w].phase = "open"
  /\ ~HasChunk(w)
  /\ part' = Written(w, n)
  /\ writer' = [writer EXCEPT ![w] = [@ EXCEPT !.phase = "closed", !.flushed = n]]
  /\ UNCHANGED <<vars, attached, contested>>

(* A report without issues is not attached.                                *)
StoreReport(w) ==
  LET b == Job(w) IN
  /\ writer[w].phase = "closed"
  /\ FullReport(File(w)) # {}
  /\ part[b] # NoReport
  /\ writer' = [writer EXCEPT ![w] =
       [@ EXCEPT !.phase = "stored", !.stored = part[b]]]
  /\ UNCHANGED <<vars, part, attached, contested>>

(* One that is no longer at the path raises FileNotFoundError.             *)
MissReport(w) ==
  /\ writer[w].phase = "closed"
  /\ FullReport(File(w)) # {}
  /\ part[Job(w)] = NoReport
  /\ worker' = [worker EXCEPT ![w].pc = "error"]
  /\ writer' = [writer EXCEPT ![w] = NoWriter]
  /\ UNCHANGED <<batch, queue, staged, active, faults, part, attached, contested>>

AttachReport(w) ==
  LET b == Job(w) IN
  /\ writer[w].phase = "stored"
  /\ ~Locked(b)
  /\ attached' = [attached EXCEPT ![b] = writer[w].stored]
  /\ writer' = [writer EXCEPT ![w].phase = "attached"]
  /\ UNCHANGED <<vars, part, contested>>

(* Whatever is at the path goes; who has it open writes to no name.        *)
Discard(w) ==
  LET b == writer[w].of IN
  /\ part' = [part EXCEPT ![b] = NoReport]
  /\ writer' = [v \in Workers |->
       IF v = w THEN NoWriter
       ELSE IF writer[v].of = b THEN [writer[v] EXCEPT !.linked = FALSE]
       ELSE writer[v]]
  /\ UNCHANGED <<attached, contested>>

DiscardReport(w) ==
  /\ \/ writer[w].phase = "attached"
     \/ writer[w].phase = "closed" /\ FullReport(File(w)) = {}
  /\ FinishRows(w)
  /\ Discard(w)

DiscardCancelled(w) ==
  /\ writer[w].phase = "cancelled"
  /\ Discard(w)
  /\ UNCHANGED vars

(* An exception closes the file, with the rows evaluated so far.           *)
CloseOnError(w) ==
  /\ writer' = [writer EXCEPT ![w] = NoWriter]
  /\ IF writer[w].phase = "open"
       THEN \E n \in writer[w].flushed .. EvaluatedAtMost(w) : part' = Written(w, n)
       ELSE part' = part
  /\ UNCHANGED <<attached, contested>>

ReportStep(w) ==
  \/ OpenReport(w) \/ FlushReport(w) \/ CloseReport(w)
  \/ StoreReport(w) \/ MissReport(w) \/ AttachReport(w)
  \/ DiscardReport(w) \/ DiscardCancelled(w)

-----------------------------------------------------------------------------
(* The pipeline goes on with its report at hand.                           *)

WithReport(w) ==
  \/ writer[w].phase = "none" /\ (Claims(w) \/ LoadBatchWork(w))
  \/ writer[w].phase = "open" /\ CommitChunk(w)
  \/ worker[w].pc # "rows" /\ CancelProcessingBatch(w)
  \/ RejectBatch(w)
  \/ BeginPublication(w)
  \/ PublishBatch(w)
  \/ FailAndDiscardBatch(w)
  \/ MarkWorkerFailure(w)

CancelWithReport(w) ==
  /\ writer[w].phase = "open"
  /\ CancelProcessingBatch(w)
  /\ writer' = [writer EXCEPT ![w].phase = "cancelled"]
  /\ UNCHANGED <<part, attached, contested>>

LoseLeaseWithReport(w) ==
  /\ HasChunk(w) => writer[w].phase = "open"
  /\ LoseLease(w)
  /\ CloseOnError(w)

RaiseWithReport(w) == WorkerRaises(w) /\ CloseOnError(w)

(* The buffer is lost.                                                     *)
CrashWithReport(w) ==
  /\ WorkerCrashes(w)
  /\ writer' = [writer EXCEPT ![w] = NoWriter]
  /\ UNCHANGED <<part, attached, contested>>

ReportsNext ==
  \/ \E b \in Batches : (ApiStep(b) \/ LeaseExpires(b)) /\ UNCHANGED reportVars
  \/ \E w \in Workers : WithReport(w) /\ UNCHANGED reportVars
  \/ \E w \in Workers : CancelWithReport(w)
  \/ \E w \in Workers : LoseLeaseWithReport(w)
  \/ \E w \in Workers : RaiseWithReport(w)
  \/ \E w \in Workers : CrashWithReport(w)
  \/ \E w \in Workers : ReportStep(w)

ReportsSpec == ReportsInit /\ [][ReportsNext]_<<vars, reportVars>>

-----------------------------------------------------------------------------
(* Properties.                                                             *)

ReportsTypeOK ==
  /\ TypeOK
  /\ part \in [Batches -> Reports \cup {NoReport}]
  /\ attached \in [Batches -> Reports \cup {NoReport}]
  /\ writer \in [Workers -> WriterState]
  /\ contested \in [Batches -> BOOLEAN]

(* The user of a batch with quality findings can download all of them.     *)
EndedWithFindings(row) ==
  \/ row.status = "partially_succeeded"
  \/ /\ row.status = "failed"
     /\ row.error_code \in {"quality_errors", "warnings_confirmation_required"}

(* Crashes, resumed checkpoints, retries and late workers leave the report *)
(* of a batch complete, as long as no two workers had its file open at the *)
(* same time, which takes a lease that expires while its worker still runs.*)
UncontestedReportIsComplete ==
  \A b \in Batches :
    EndedWithFindings(batch[b]) /\ ~contested[b] =>
      attached[b] = FullReport(batch[b].file)

-----------------------------------------------------------------------------
(* The inductive invariant behind it.                                      *)

Writing == {"open", "closed", "stored", "attached"}

(* The only writer of a file has written what it has evaluated.            *)
SoleWriter(w) ==
  LET b == writer[w].of
      f == batch[b].file
  IN
  /\ \A v \in Workers \ {w} : writer[v].phase # "none" => writer[v].of # b
  /\ writer[w].phase \in Writing =>
       /\ writer[w].linked
       /\ part[b] = IssueRows(f, 1, writer[w].flushed)
  /\ writer[w].phase = "stored" => writer[w].stored = FullReport(f)
  /\ writer[w].phase = "attached" => attached[b] = FullReport(f)

WriterPlaced(w) ==
  LET b == writer[w].of
      n == RowsRead(batch[b].file)
  IN
  /\ b \in Batches /\ batch[b].status # "absent"
  /\ writer[w].linked => part[b] \in Reports
  /\ writer[w].phase \in Writing =>
       worker[w].pc = "rows" /\ Job(w) = b /\ writer[w].flushed <= n
  /\ writer[w].phase \in {"closed", "stored", "attached"} => writer[w].flushed = n

WriterInv(w) ==
  writer[w].phase # "none" =>
    WriterPlaced(w) /\ (~contested[writer[w].of] => SoleWriter(w))

(* A batch comes to its verdict with its report attached.                  *)
ReportIsAttached(b) ==
  FullReport(batch[b].file) # {} /\ ~contested[b] =>
    attached[b] = FullReport(batch[b].file)

Finishing == {"finalize", "publishing"}

VerdictsHaveReports ==
  \A w \in Workers, b \in Batches :
    worker[w].pc \in Finishing /\ Job(w) = b => ReportIsAttached(b)

ReportsInv ==
  /\ IInv
  /\ ReportsTypeOK
  /\ \A w \in Workers : WriterInv(w)
  /\ VerdictsHaveReports
  /\ UncontestedReportIsComplete
=============================================================================
