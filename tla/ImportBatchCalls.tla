-------------------------- MODULE ImportBatchCalls --------------------------
(***************************************************************************)
(* The import pipeline of ImportBatches when the operations that do not    *)
(* lock the row of the batch are slow: cancel, retry and confirm of the    *)
(* API, and _mark_worker_failure of the worker.  Each of them reads the    *)
(* row, decides on what it read, and writes when its transaction commits.  *)
(* SQLAlchemy then updates the columns whose value differs from the one    *)
(* that was read, whatever the row has become in between: the row has no   *)
(* version column and the UPDATE names it by its id alone.                 *)
(*                                                                         *)
(* A prompt call is one step, as in ImportBatches.  A write waits while    *)
(* the row is locked by a worker that publishes it; a read does not.       *)
(***************************************************************************)
EXTENDS ImportBatches

CONSTANTS
  Users,       \* callers of the API, each with at most one call in flight
  SlowCalls,   \* the operations during which others may take steps
  NoCall       \* nothing in flight

Operations == {"cancel", "retry", "confirm", "mark_failure"}

ASSUME CallsAssumption ==
  /\ SlowCalls \subseteq Operations
  /\ Users \cap Workers = {}

VARIABLE call  \* call[p]: the operation of process p and the row it has read

callsVars == <<vars, call>>

Callers == Users \cup Workers
Calls == [op : Operations, job : Batches, seen : BatchRow]

CallsInit == Init /\ call = [p \in Callers |-> NoCall]

(* What the operation checks on the row it has read.                       *)
Permitted(op, row) ==
  CASE op = "cancel" -> row.status \in CancelledAtOnce \cup {"processing"}
    [] op = "retry" -> row.status = "failed"
    [] op = "confirm" -> AwaitsConfirmation(row)
    [] op = "mark_failure" -> row.status = "processing"

(* The row as the operation leaves it in its session.                      *)
Edited(op, row) ==
  CASE op = "cancel" ->
         IF row.status \in CancelledAtOnce
           THEN [row EXCEPT !.status = "cancelled"]
           ELSE [row EXCEPT !.cancellation_requested = TRUE]
    [] op = "retry" ->
         IF row.checkpoint_row = 0 THEN ResetResults(Requeued(row)) ELSE Requeued(row)
    [] op = "confirm" -> ResetResults(Confirmed(row))
    [] op = "mark_failure" -> WorkerFailedRow(row)

(* The issue samples are rows of another table: a DELETE removes those     *)
(* that exist when it runs.                                                *)
DeletesSamples(op, seen) ==
  op = "confirm" \/ (op = "retry" /\ seen.checkpoint_row = 0)

FlushedAll(op, row, seen) == Edited(op, seen)

(* The flush at the commit: only what the session changed is written.      *)
Flushed(op, row, seen) ==
  LET edited == Edited(op, seen)
      merged == [column \in DOMAIN row |->
                   IF edited[column] # seen[column] THEN edited[column] ELSE row[column]]
  IN  [merged EXCEPT !.samples = IF DeletesSamples(op, seen) THEN 0 ELSE @]

ReadBatch(u, op, b) ==
  /\ op \in SlowCalls \ {"mark_failure"}
  /\ call[u] = NoCall
  /\ Permitted(op, batch[b])
  /\ call' = [call EXCEPT ![u] = [op |-> op, job |-> b, seen |-> batch[b]]]
  /\ UNCHANGED vars

(* A retry and a confirmation also set available_at to now.                *)
WriteBatch(u) ==
  /\ call[u] # NoCall
  /\ ~Locked(call[u].job)
  /\ LET c == call[u] IN
     /\ batch' = [batch EXCEPT ![c.job] = Flushed(c.op, @, c.seen)]
     /\ queue' = IF c.op \in {"retry", "confirm"} THEN MoveToEnd(c.job) ELSE queue
  /\ call' = [call EXCEPT ![u] = NoCall]
  /\ UNCHANGED <<staged, active, worker, faults>>

ReadFailedBatch(w) ==
  /\ "mark_failure" \in SlowCalls
  /\ call[w] = NoCall
  /\ worker[w].pc = "error"
  /\ HoldsBatch(w)
  /\ call' = [call EXCEPT ![w] =
                [op |-> "mark_failure", job |-> Job(w), seen |-> batch[Job(w)]]]
  /\ UNCHANGED vars

WriteFailedBatch(w) ==
  /\ call[w] # NoCall
  /\ ~Locked(call[w].job)
  /\ LET c == call[w] IN
     batch' = [batch EXCEPT ![c.job] = Flushed(c.op, @, c.seen)]
  /\ worker' = [worker EXCEPT ![w] = Idle]
  /\ call' = [call EXCEPT ![w] = NoCall]
  /\ UNCHANGED <<queue, staged, active, faults>>

(* Everything else goes on; a worker in the middle of a call does not.     *)
Meanwhile ==
  /\ Next
  /\ \A w \in Workers : call[w] # NoCall => worker'[w] = worker[w]
  /\ UNCHANGED call

CallsNext ==
  \/ Meanwhile
  \/ \E u \in Users, op \in Operations, b \in Batches : ReadBatch(u, op, b)
  \/ \E u \in Users : WriteBatch(u)
  \/ \E w \in Workers : ReadFailedBatch(w)
  \/ \E w \in Workers : WriteFailedBatch(w)

CallsSpec == CallsInit /\ [][CallsNext]_callsVars

-----------------------------------------------------------------------------
(* Properties.                                                             *)

(* Types, with the calls in flight.                                        *)
CallsTypeOK == TypeOK /\ call \in [Callers -> Calls \cup {NoCall}]

(* m1-data-ingestion.md: a cancellation leaves no queryable data behind.   *)
(* A cancelled batch has no active rows in the target table.               *)
CancelledIsInvisible ==
  \A b \in Batches : batch[b].status = "cancelled" => active[b] = NoRows

(* m1-data-ingestion.md: "a retry does not write committed chunks again".  *)
(* No row of a file is published twice.                                    *)
PublishedAtMostOnce ==
  \A b \in Batches, i \in RowNumbers : active[b][i] <= 1

(* What is reported as imported is there: every row of an appended batch   *)
(* that succeeded is active, whoever wrote the row of the batch late.      *)
SucceededIsThere ==
  \A b \in Batches :
    batch[b].status \in Succeeded /\ batch[b].mode = "append" =>
      \A i \in 1 .. Len(batch[b].file) : active[b][i] > 0

-----------------------------------------------------------------------------
(* The inductive invariant behind the last two, when a cancellation and a  *)
(* failure report are all that is slow.                                    *)

(* The rows of a batch that has not been published are staged up to its    *)
(* checkpoint; those of one that has been published once are there, and    *)
(* its checkpoint says so whatever status is written over the success.     *)
IsStaged(row, st, ac) ==
  /\ row.status \notin Succeeded
  /\ st = RowsBehindCheckpoint(row)
  /\ ac = NoRows

WasPublished(row, st, ac) ==
  /\ row.checkpoint_row = Len(row.file)
  /\ st = NoRows
  /\ \A i \in RowNumbers : ac[i] <= 1
  /\ Modes = {"append"} => \A i \in 1 .. Len(row.file) : ac[i] = 1

CallsRowInv(row, st, ac) ==
  /\ row.status = "absent" => row = AbsentRow /\ st = NoRows /\ ac = NoRows
  /\ row.mode \in Modes \cup {"append"}
  /\ Len(row.file) <= MaxFileRows
  /\ row.checkpoint_row <= Len(row.file)
  /\ IsStaged(row, st, ac) \/ WasPublished(row, st, ac)
  /\ row.status \in {"pending", "processing"} \/ row.checkpoint_row > 0 =>
       CountersOf(row, row.checkpoint_row)
  /\ row.status \in {"pending", "processing"} => row.error_code = "none"
  /\ AwaitsConfirmation(row) => row.checkpoint_row = 0

(* A call in flight is a cancellation or a failure report, and what it has *)
(* read is such that it writes the status it decided on.                   *)
Decides(op, seen) ==
  \/ /\ op = "cancel"
     /\ Permitted("cancel", seen)
  \/ /\ op = "mark_failure"
     /\ seen.status = "processing" /\ seen.error_code = "none"

CallInv(c) == batch[c.job].status # "absent" /\ Decides(c.op, c.seen)

(* The part that every step of the pipeline keeps, whoever else is busy.   *)
PipelineInv ==
  /\ TypeOK
  /\ \A b \in Batches : CallsRowInv(batch[b], staged[b], active[b])
  /\ \A w \in Workers :
       worker[w].pc # "idle" => ViewInv(w, worker[w], batch[Job(w)])

CallsInv ==
  /\ PipelineInv
  /\ call \in [Callers -> Calls \cup {NoCall}]
  /\ \A p \in Callers : call[p] # NoCall => CallInv(call[p])
=============================================================================
