------------------------- MODULE ImportPublication -------------------------
(***************************************************************************)
(* What the import pipeline promises to someone who submits files and      *)
(* reads the target table, with no word of workers, leases, chunks,        *)
(* checkpoints or staging: a batch waits, runs and comes to a result, and  *)
(* the queryable data changes by whole files that passed their quality     *)
(* verdict, combined with what is there as the mode asks.                  *)
(*                                                                         *)
(* A publication is not serialized with others: what it replaces it takes  *)
(* from the rows that were visible at one earlier moment, and what others  *)
(* publish between that moment and its commit stays.                       *)
(***************************************************************************)
EXTENDS Integers, Sequences

CONSTANTS Batches, Files, NullKey, ColumnValue, Modes, MaxRows

VARIABLES
  request,   \* what was submitted: file, mode, warnings_confirmed
  state,     \* the public status of each batch
  visible,   \* the queryable rows: pairs of a batch and a row number
  snapshot   \* for a batch that is being published, the one set of rows it
             \* has seen; no set for the others

vars == <<request, state, visible, snapshot>>

NoRequest == [file |-> << >>, mode |-> "append", warnings_confirmed |-> FALSE]

Init ==
  /\ request = [b \in Batches |-> NoRequest]
  /\ state = [b \in Batches |-> "absent"]
  /\ visible = {}
  /\ snapshot = [b \in Batches |-> {}]

Move(b, from, to) ==
  /\ state[b] \in from
  /\ state' = [state EXCEPT ![b] = to]

Submit(b) ==
  /\ Move(b, {"absent"}, "pending")
  /\ \E f \in Files, mode \in Modes, confirmed \in BOOLEAN :
       request' = [request EXCEPT ![b] =
         [file |-> f, mode |-> mode, warnings_confirmed |-> confirmed]]
  /\ UNCHANGED <<visible, snapshot>>

Start(b) ==
  /\ Move(b, {"pending"}, "processing")
  /\ UNCHANGED <<request, visible, snapshot>>

(* A batch that is being published neither fails nor is cancelled: the     *)
(* publication has to be given up first.                                   *)
Fail(b) ==
  /\ snapshot[b] = {}
  /\ Move(b, {"processing"}, "failed")
  /\ UNCHANGED <<request, visible, snapshot>>

Cancel(b) ==
  /\ snapshot[b] = {}
  /\ Move(b, {"pending", "processing", "failed"}, "cancelled")
  /\ UNCHANGED <<request, visible, snapshot>>

(* A failed batch is started again, possibly with its warnings accepted.   *)
Resubmit(b) ==
  /\ Move(b, {"failed"}, "pending")
  /\ \/ UNCHANGED request
     \/ request' = [request EXCEPT ![b].warnings_confirmed = TRUE]
  /\ UNCHANGED <<visible, snapshot>>

HasWarnings(b) == \E i \in DOMAIN request[b].file : request[b].file[i].warning

Publishable(b) ==
  LET f == request[b].file IN
  /\ f # << >> /\ Len(f) <= MaxRows
  /\ \A i \in DOMAIN f :
       /\ ~f[i].error
       /\ f[i].key # NullKey => \A j \in 1 .. (i - 1) : f[j].key # f[i].key
  /\ HasWarnings(b) => request[b].warnings_confirmed

SameKey(k, l) ==
  /\ k # NullKey /\ l # NullKey
  /\ ColumnValue[k] = ColumnValue[l]

Replaces(b, row) ==
  \/ request[b].mode = "replace"
  \/ /\ request[b].mode = "upsert"
     /\ \E j \in DOMAIN request[b].file :
          SameKey(request[b].file[j].key, request[row[1]].file[row[2]].key)

BeginPublish(b) ==
  /\ state[b] = "processing" /\ snapshot[b] = {}
  /\ Publishable(b)
  /\ snapshot' = [snapshot EXCEPT ![b] = {visible}]
  /\ UNCHANGED <<request, state, visible>>

GiveUp(b) ==
  /\ snapshot' = [snapshot EXCEPT ![b] = {}]
  /\ UNCHANGED <<request, state, visible>>

Publish(b) ==
  /\ Move(b, {"processing"},
          IF HasWarnings(b) THEN "partially_succeeded" ELSE "succeeded")
  /\ Publishable(b)
  /\ \E seen \in snapshot[b] :
       visible' = {row \in visible : ~(row \in seen /\ Replaces(b, row))}
                    \cup {<<b, i>> : i \in DOMAIN request[b].file}
  /\ snapshot' = [snapshot EXCEPT ![b] = {}]
  /\ UNCHANGED request

Next ==
  \E b \in Batches :
    \/ Submit(b) \/ Start(b) \/ Fail(b) \/ Cancel(b) \/ Resubmit(b)
    \/ BeginPublish(b) \/ GiveUp(b) \/ Publish(b)

Spec == Init /\ [][Next]_vars
=============================================================================
