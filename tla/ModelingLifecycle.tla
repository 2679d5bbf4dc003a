------------------------- MODULE ModelingLifecycle -------------------------
(***************************************************************************)
(* The versions of semantic models, datasets, row policies, metrics and    *)
(* import templates, and the requests that create and activate them        *)
(* concurrently on PostgreSQL.                                             *)
(*                                                                         *)
(* A version is a row; its number identifies it here.  Nothing is edited:  *)
(* a change is a new draft, and activating a version retires the one that  *)
(* was active.  One series of each kind is modelled, as series share no    *)
(* rows; the row policies are those of the first version of the dataset,   *)
(* and the metrics, of one series, are on any of its versions.             *)
(*                                                                         *)
(* Each request is one transaction at READ COMMITTED.  SELECT .. FOR UPDATE*)
(* finds its rows in the snapshot of the statement and then locks them one *)
(* by one, waiting for other transactions: a row inserted meanwhile is not *)
(* among them.  A locked row is read as it is when its lock is granted,    *)
(* unless the session has loaded it before: autoflush and populate_existing*)
(* are off, and SQLAlchemy keeps the attributes it has.                    *)
(***************************************************************************)
EXTENDS Naturals, FiniteSets

(* As in ImportBatches, a definition named after the one that follows it,  *)
(* with a suffix, is that one with a plausible bug.                        *)

CONSTANTS
  Sessions,      \* database sessions, each serving one request at a time
  Operations,    \* the operations that are requested
  MaxModels, MaxDatasets, MaxPolicies,  \* bounds: versions of each series
  MaxMetrics, MaxTemplates,
  NoSession      \* the row is not locked

ASSUME LifecycleAssumption ==
  /\ MaxModels \in Nat \ {0} /\ MaxDatasets \in Nat \ {0} /\ MaxPolicies \in Nat
  /\ MaxMetrics \in Nat /\ MaxTemplates \in Nat
  /\ IsFiniteSet(Sessions) /\ NoSession \notin Sessions

VARIABLES
  semantic_models,  \* the status of each version
  datasets,         \* the status of each version and the model it is built on
  row_policies,     \* the status of each version and whether it has bindings
  metrics,          \* the status of each version and the dataset it is on
  import_templates, \* the status of each version
  lock,             \* the session that has the lock of each row
  request           \* what each session does

saved == <<metrics, import_templates>>
vars == <<semantic_models, datasets, row_policies, saved, lock, request>>

Models == 1 .. MaxModels
Datasets == 1 .. MaxDatasets
Policies == 1 .. MaxPolicies
Metrics == 1 .. MaxMetrics
Templates == 1 .. MaxTemplates
Rows ==
  ({"model"} \X Models) \cup ({"dataset"} \X Datasets) \cup ({"policy"} \X Policies)
    \cup ({"metric"} \X Metrics) \cup ({"template"} \X Templates)

ModelStatuses == {"absent", "draft", "active", "archived"}
DatasetRow == [status : ModelStatuses, model : Models]
PolicyRow == [status : {"absent", "draft", "active", "disabled"}, bound : BOOLEAN]
MetricRow == [status : {"absent", "draft", "active"}, dataset : Datasets]
TemplateStatuses == {"absent", "active", "archived"}

ModelOperations == {"activate_model", "create_model_version"}
DatasetOperations == {"activate_dataset", "create_dataset_version"}
SeriesOperations == {"activate_policy", "create_policy_version"}
MetricOperations == {"create_metric", "create_metric_version"}
AllOperations ==
  ModelOperations \cup DatasetOperations \cup SeriesOperations \cup MetricOperations
    \cup {"create_model", "create_dataset", "create_policy", "replace_bindings",
          "create_template"}

(* stage: the statement whose rows are being locked, or the insertion;     *)
(* target: the version it names, of a new metric's first version that of   *)
(* its dataset; wanted: the rows it has still to lock; seen: the status the*)
(* row policy to activate had when it was loaded, or a metric is to have;  *)
(* number: the version to insert.                                          *)
Stages == {"models", "dataset", "model", "siblings", "policies", "policy",
           "metric", "host", "archive", "templates", "insert"}

Request ==
  [op : AllOperations \cup {"none"}, stage : Stages \cup {"none"}, target : Nat,
   wanted : SUBSET Nat, seen : {"none", "draft", "active", "disabled"}, number : Nat]

NoRequest == [op |-> "none", stage |-> "none", target |-> 0, wanted |-> {},
              seen |-> "none", number |-> 0]

Init ==
  /\ semantic_models = [v \in Models |-> IF v = 1 THEN "draft" ELSE "absent"]
  /\ datasets = [v \in Datasets |-> [status |-> "absent", model |-> 1]]
  /\ row_policies = [v \in Policies |-> [status |-> "absent", bound |-> FALSE]]
  /\ metrics = [v \in Metrics |-> [status |-> "absent", dataset |-> 1]]
  /\ import_templates = [v \in Templates |-> "absent"]
  /\ lock = [r \in Rows |-> NoSession]
  /\ request = [s \in Sessions |-> NoRequest]

ModelVersions == {v \in Models : semantic_models[v] # "absent"}
DatasetVersions == {v \in Datasets : datasets[v].status # "absent"}
PolicyVersions == {v \in Policies : row_policies[v].status # "absent"}
MetricVersions == {v \in Metrics : metrics[v].status # "absent"}
TemplateVersions == {v \in Templates : import_templates[v] # "absent"}

Latest(versions) ==
  IF versions = {} THEN 0 ELSE CHOOSE v \in versions : \A w \in versions : w <= v

-----------------------------------------------------------------------------
(* Transactions and locks.                                                 *)

LockedTable ==
  [models |-> "model", dataset |-> "dataset", model |-> "model",
   siblings |-> "dataset", policies |-> "policy", policy |-> "policy",
   metric |-> "metric", templates |-> "template"]

Begin(s, op, stage, target, wanted, seen) ==
  /\ op \in Operations
  /\ request[s] = NoRequest
  /\ request' = [request EXCEPT ![s] =
       [NoRequest EXCEPT !.op = op, !.stage = stage, !.target = target,
                         !.wanted = wanted, !.seen = seen]]
  /\ UNCHANGED <<semantic_models, datasets, row_policies, saved, lock>>

NextToLockTargetFirst(s) ==
  IF request[s].target \in request[s].wanted THEN request[s].target
  ELSE CHOOSE v \in request[s].wanted : \A w \in request[s].wanted : v <= w

(* ORDER BY version, id; the order by id of the policies is as fixed.      *)
NextToLock(s) ==
  CHOOSE v \in request[s].wanted : \A w \in request[s].wanted : v <= w

WantedRow(s) == <<LockedTable[request[s].stage], NextToLock(s)>>

LockRow(s) ==
  /\ request[s].wanted # {}
  /\ lock[WantedRow(s)] = NoSession
  /\ lock' = [lock EXCEPT ![WantedRow(s)] = s]
  /\ request' = [request EXCEPT ![s].wanted = @ \ {NextToLock(s)}]
  /\ UNCHANGED <<semantic_models, datasets, row_policies, saved>>

Holds(s, table, v) == lock[<<table, v>>] = s

(* The statement of this stage has locked all its rows.                    *)
Has(s, ops, stage) ==
  request[s].op \in ops /\ request[s].stage = stage /\ request[s].wanted = {}

Proceed(s, stage, wanted) ==
  /\ request' = [request EXCEPT ![s].stage = stage, ![s].wanted = wanted]
  /\ UNCHANGED <<semantic_models, datasets, row_policies, saved, lock>>

Number(s, n) ==
  /\ request' = [request EXCEPT ![s].stage = "insert", ![s].number = n]
  /\ UNCHANGED <<semantic_models, datasets, row_policies, saved, lock>>

(* The end of a transaction, by commit or rollback.                        *)
Finish(s) ==
  /\ request' = [request EXCEPT ![s] = NoRequest]
  /\ lock' = [r \in Rows |-> IF lock[r] = s THEN NoSession ELSE lock[r]]

(* The request is refused, its client or server is gone, or PostgreSQL     *)
(* ends it to resolve a deadlock.                                          *)
RollBack(s) ==
  /\ request[s] # NoRequest
  /\ Finish(s)
  /\ UNCHANGED <<semantic_models, datasets, row_policies, saved>>

-----------------------------------------------------------------------------
(* semantic_models.py                                                      *)

BeginActivateModel(s, v) ==
  v \in ModelVersions /\ Begin(s, "activate_model", "models", v, ModelVersions, "none")

(* Any version names the series; the request brings the new definition.    *)
BeginCreateModelVersion(s) ==
  Begin(s, "create_model_version", "models", 0, ModelVersions, "none")

(* create_semantic_model for a series that exists locks nothing.  It fails *)
(* when another request has inserted its number before.                    *)
CreateModel(s) ==
  LET n == Latest(ModelVersions) + 1 IN
  /\ "create_model" \in Operations
  /\ request[s] = NoRequest
  /\ n \in Models
  /\ semantic_models' = [semantic_models EXCEPT ![n] = "draft"]
  /\ UNCHANGED <<datasets, row_policies, saved, lock, request>>

(* Only the versions found by the locking statement are retired.           *)
ActivatedModels(s, target) ==
  [v \in Models |->
     IF v = target THEN "active"
     ELSE IF Holds(s, "model", v) /\ semantic_models[v] = "active" THEN "archived"
     ELSE semantic_models[v]]

ActivateSemanticModel(s) ==
  LET target == request[s].target IN
  /\ Has(s, {"activate_model"}, "models")
  /\ semantic_models[target] \in {"draft", "active"}
  /\ semantic_models' = ActivatedModels(s, target)
  /\ Finish(s)
  /\ UNCHANGED <<datasets, row_policies, saved>>

NumberModel(s) ==
  /\ Has(s, {"create_model_version"}, "models")
  /\ Number(s, Latest(ModelVersions) + 1)

InsertModel(s) ==
  LET n == request[s].number IN
  /\ Has(s, {"create_model_version"}, "insert")
  /\ n \in Models \ ModelVersions
  /\ semantic_models' = [semantic_models EXCEPT ![n] = "draft"]
  /\ Finish(s)
  /\ UNCHANGED <<datasets, row_policies, saved>>

-----------------------------------------------------------------------------
(* datasets.py                                                             *)

(* The insertion takes a key-share lock on the model: it waits for every   *)
(* FOR UPDATE of that row.                                                 *)
CreateDataset(s, m) ==
  /\ "create_dataset" \in Operations
  /\ request[s] = NoRequest
  /\ DatasetVersions = {} /\ MaxDatasets > 0
  /\ semantic_models[m] \in {"draft", "active"}
  /\ lock[<<"model", m>>] = NoSession
  /\ datasets' = [datasets EXCEPT ![1] = [status |-> "draft", model |-> m]]
  /\ UNCHANGED <<semantic_models, row_policies, saved, lock, request>>

BeginDataset(s, op, v) ==
  v \in DatasetVersions /\ Begin(s, op, "dataset", v, {v}, "none")

MayActivateDataset(v) == datasets[v].status \in {"draft", "active"}

ModelToLockNone(target) == {}

ModelToLock(target) == {datasets[target].model}

LockModelOfDataset(s) ==
  LET target == request[s].target IN
  /\ Has(s, DatasetOperations, "dataset")
  /\ request[s].op = "activate_dataset" => MayActivateDataset(target)
  /\ Proceed(s, "model", ModelToLock(target))

(* Dataset.status == 'active', Dataset.id != dataset.id                    *)
ActiveSiblings(target) ==
  {v \in DatasetVersions \ {target} : datasets[v].status = "active"}

LockActiveSiblings(s) ==
  LET target == request[s].target IN
  /\ Has(s, {"activate_dataset"}, "model")
  /\ semantic_models[datasets[target].model] = "active"
  /\ Proceed(s, "siblings", ActiveSiblings(target))

ActivateDataset(s) ==
  LET target == request[s].target IN
  /\ Has(s, {"activate_dataset"}, "siblings")
  /\ datasets' = [v \in Datasets |->
       IF v = target THEN [datasets[v] EXCEPT !.status = "active"]
       ELSE IF Holds(s, "dataset", v) /\ datasets[v].status = "active"
         THEN [datasets[v] EXCEPT !.status = "archived"]
       ELSE datasets[v]]
  /\ Finish(s)
  /\ UNCHANGED <<semantic_models, row_policies, saved>>

(* create_dataset_version and create_calculated_field_version.             *)
NumberDataset(s) ==
  /\ Has(s, {"create_dataset_version"}, "model")
  /\ semantic_models[datasets[request[s].target].model] \in {"draft", "active"}
  /\ Number(s, Latest(DatasetVersions) + 1)

InsertDataset(s) ==
  LET n == request[s].number IN
  /\ Has(s, {"create_dataset_version"}, "insert")
  /\ n \in Datasets \ DatasetVersions
  /\ datasets' = [datasets EXCEPT ![n] =
       [status |-> "draft", model |-> datasets[request[s].target].model]]
  /\ Finish(s)
  /\ UNCHANGED <<semantic_models, row_policies, saved>>

-----------------------------------------------------------------------------
(* row_policies.py                                                         *)

(* The insertion takes a key-share lock on the dataset.                    *)
CreateRowPolicy(s) ==
  /\ "create_policy" \in Operations
  /\ request[s] = NoRequest
  /\ PolicyVersions = {} /\ MaxPolicies > 0
  /\ 1 \in DatasetVersions
  /\ lock[<<"dataset", 1>>] = NoSession
  /\ row_policies' = [row_policies EXCEPT ![1].status = "draft"]
  /\ UNCHANGED <<semantic_models, datasets, saved, lock, request>>

(* The policy is loaded without a lock, to find its dataset and series.    *)
BeginSeries(s, op, v) ==
  /\ v \in PolicyVersions
  /\ Begin(s, op, "dataset", v, {1},
           IF op = "activate_policy" THEN row_policies[v].status ELSE "none")

SeriesToLockTarget(s) == {request[s].target}

SeriesToLock(s) == PolicyVersions

LockPolicySeries(s) ==
  /\ Has(s, SeriesOperations, "dataset")
  /\ Proceed(s, "policies", SeriesToLock(s))

(* The status of the target is the one loaded before the lock.  When that  *)
(* was already active, assigning it again is no change and no UPDATE.      *)
ActivatedPolicies(target, seen, locked) ==
  [v \in Policies |->
     IF v = target /\ seen # "active"
       THEN [row_policies[v] EXCEPT !.status = "active"]
     ELSE IF v # target /\ v \in locked /\ row_policies[v].status = "active"
       THEN [row_policies[v] EXCEPT !.status = "disabled"]
     ELSE row_policies[v]]

HasBindingsUnchecked(v) == TRUE

HasBindings(v) == row_policies[v].bound

ActivateRowPolicy(s) ==
  LET target == request[s].target IN
  /\ Has(s, {"activate_policy"}, "policies")
  /\ request[s].seen \in {"draft", "active"}
  /\ HasBindings(target)
  /\ row_policies' = ActivatedPolicies(target, request[s].seen,
                       {v \in Policies : Holds(s, "policy", v)})
  /\ Finish(s)
  /\ UNCHANGED <<semantic_models, datasets, saved>>

LatestLockedPolicyOfTarget(s) == request[s].target

(* max(item.version for item in series)                                    *)
LatestLockedPolicy(s) == Latest({v \in Policies : Holds(s, "policy", v)})

NumberPolicy(s) ==
  /\ Has(s, {"create_policy_version"}, "policies")
  /\ Number(s, LatestLockedPolicy(s) + 1)

(* The bindings of the source are copied.                                  *)
InsertPolicy(s) ==
  LET n == request[s].number IN
  /\ Has(s, {"create_policy_version"}, "insert")
  /\ n \in Policies \ PolicyVersions
  /\ row_policies' = [row_policies EXCEPT ![n] =
       [status |-> "draft", bound |-> row_policies[request[s].target].bound]]
  /\ Finish(s)
  /\ UNCHANGED <<semantic_models, datasets, saved>>

BeginReplaceBindings(s, v) ==
  v \in PolicyVersions /\ Begin(s, "replace_bindings", "policy", v, {v}, "none")

MayBind(v, bound) == row_policies[v].status = "active" => bound

ReplaceRowPolicyBindings(s, bound) ==
  LET target == request[s].target IN
  /\ Has(s, {"replace_bindings"}, "policy")
  /\ MayBind(target, bound)
  /\ row_policies' = [row_policies EXCEPT ![target].bound = bound]
  /\ Finish(s)
  /\ UNCHANGED <<semantic_models, datasets, saved>>

-----------------------------------------------------------------------------
(* metrics.py                                                              *)

BeginCreateMetric(s, d, status) ==
  d \in DatasetVersions /\ Begin(s, "create_metric", "metric", d, {}, status)

(* Only the version it starts from is locked.                              *)
BeginCreateMetricVersion(s, v, status) ==
  v \in MetricVersions /\ Begin(s, "create_metric_version", "metric", v, {v}, status)

HostOf(s) ==
  IF request[s].op = "create_metric" THEN request[s].target ELSE metrics[request[s].target].dataset

MayHost(d, status) ==
  datasets[d].status = "active" \/ (status = "draft" /\ datasets[d].status = "draft")

(* The dataset is read without a lock.                                     *)
FindHost(s) ==
  /\ Has(s, MetricOperations, "metric")
  /\ MayHost(HostOf(s), request[s].seen)
  /\ Proceed(s, "host", {})

NumberMetric(s) ==
  LET n == IF request[s].op = "create_metric" THEN 1 ELSE Latest(MetricVersions) + 1 IN
  /\ Has(s, MetricOperations, "host")
  /\ n \notin MetricVersions
  /\ Number(s, n)

(* The insertion takes a key-share lock on the dataset. A number that is   *)
(* taken by now is a conflict.                                             *)
InsertMetric(s) ==
  LET n == request[s].number IN
  /\ Has(s, MetricOperations, "insert")
  /\ n \in Metrics \ MetricVersions
  /\ lock[<<"dataset", HostOf(s)>>] = NoSession
  /\ metrics' = [metrics EXCEPT ![n] = [status |-> request[s].seen, dataset |-> HostOf(s)]]
  /\ Finish(s)
  /\ UNCHANGED <<semantic_models, datasets, row_policies, import_templates>>

-----------------------------------------------------------------------------
(* templates.py                                                            *)

BeginCreateTemplate(s) ==
  /\ "create_template" \in Operations
  /\ request[s] = NoRequest
  /\ request' = [request EXCEPT ![s] =
       [NoRequest EXCEPT !.op = "create_template", !.stage = "archive",
                         !.number = Latest(TemplateVersions) + 1]]
  /\ UNCHANGED <<semantic_models, datasets, row_policies, saved, lock>>

(* UPDATE .. WHERE status = 'active': the rows that are active when the    *)
(* statement starts, each when no other transaction has changed it.        *)
ArchiveTemplates(s) ==
  /\ Has(s, {"create_template"}, "archive")
  /\ Proceed(s, "templates", {v \in Templates : import_templates[v] = "active"})

(* uq_import_templates_workspace_name_version                              *)
CreateTemplate(s) ==
  LET n == request[s].number IN
  /\ Has(s, {"create_template"}, "templates")
  /\ n \in Templates \ TemplateVersions
  /\ import_templates' = [v \in Templates |->
       IF v = n THEN "active"
       ELSE IF Holds(s, "template", v) THEN "archived"
       ELSE import_templates[v]]
  /\ Finish(s)
  /\ UNCHANGED <<semantic_models, datasets, row_policies, metrics>>

-----------------------------------------------------------------------------
Receive(s) ==
  \/ \E v \in Models :
       BeginActivateModel(s, v) \/ CreateDataset(s, v)
  \/ BeginCreateModelVersion(s)
  \/ CreateModel(s)
  \/ \E op \in DatasetOperations, v \in Datasets : BeginDataset(s, op, v)
  \/ CreateRowPolicy(s)
  \/ \E op \in SeriesOperations, v \in Policies : BeginSeries(s, op, v)
  \/ \E v \in Policies : BeginReplaceBindings(s, v)
  \/ \E d \in Datasets, status \in {"draft", "active"} : BeginCreateMetric(s, d, status)
  \/ \E v \in Metrics, status \in {"draft", "active"} : BeginCreateMetricVersion(s, v, status)
  \/ BeginCreateTemplate(s)

Continue(s) ==
  \/ LockRow(s)
  \/ ActivateSemanticModel(s)
  \/ NumberModel(s)
  \/ InsertModel(s)
  \/ LockModelOfDataset(s)
  \/ LockActiveSiblings(s)
  \/ ActivateDataset(s)
  \/ NumberDataset(s)
  \/ InsertDataset(s)
  \/ LockPolicySeries(s)
  \/ ActivateRowPolicy(s)
  \/ NumberPolicy(s)
  \/ InsertPolicy(s)
  \/ \E bound \in BOOLEAN : ReplaceRowPolicyBindings(s, bound)
  \/ FindHost(s)
  \/ NumberMetric(s)
  \/ InsertMetric(s)
  \/ ArchiveTemplates(s)
  \/ CreateTemplate(s)

Next == \E s \in Sessions : Receive(s) \/ Continue(s) \/ RollBack(s)

Spec == Init /\ [][Next]_vars

-----------------------------------------------------------------------------
(* Properties.                                                             *)

(* Every variable keeps its shape.                                         *)
TypeOK ==
  /\ semantic_models \in [Models -> ModelStatuses]
  /\ datasets \in [Datasets -> DatasetRow]
  /\ row_policies \in [Policies -> PolicyRow]
  /\ metrics \in [Metrics -> MetricRow]
  /\ import_templates \in [Templates -> TemplateStatuses]
  /\ lock \in [Rows -> Sessions \cup {NoSession}]
  /\ request \in [Sessions -> Request]

(* test_semantic_models_service.py: "activation leaves exactly one active  *)
(* version"; a query finds one definition of the model. Not kept: a version*)
(* inserted and activated while an activation waits is not retired by it.  *)
OneActiveModel ==
  \A v, w \in Models :
    semantic_models[v] = "active" /\ semantic_models[w] = "active" => v = w

(* A dataset becomes active on a model that is active at that moment, not  *)
(* one that was active when the request looked.                            *)
ActivatedOnActiveModel ==
  [][\A v \in Datasets :
       datasets[v].status # "active" /\ datasets'[v].status = "active" =>
         semantic_models[datasets[v].model] = "active"]_vars

(* Whichever versions are activated at once, a dataset has one active      *)
(* version, for they all lock the row of the same model, and no two        *)
(* versions of a row policy apply to it. Requests for import templates of  *)
(* one name lock no series: what keeps one active is that only one of them *)
(* can insert the next number.                                             *)
OneVersionIsActive ==
  /\ \A v, w \in Datasets :
       datasets[v].status = "active" /\ datasets[w].status = "active" => v = w
  /\ \A v, w \in Policies :
       row_policies[v].status = "active" /\ row_policies[w].status = "active" => v = w
  /\ \A v, w \in Templates :
       import_templates[v] = "active" /\ import_templates[w] = "active" => v = w

(* "An active row policy must keep at least one binding", however bindings *)
(* and activations of several versions interleave.                         *)
ActivePolicyIsBound ==
  \A v \in Policies : row_policies[v].status = "active" => row_policies[v].bound

(* Creations from different versions of a dataset or a policy are          *)
(* serialized: neither finds its number taken when it inserts.             *)
NumbersAreFree ==
  \A s \in Sessions :
    request[s].stage = "insert" =>
      CASE request[s].op = "create_dataset_version" -> request[s].number \notin DatasetVersions
        [] request[s].op = "create_policy_version" -> request[s].number \notin PolicyVersions
        [] OTHER -> TRUE

(* test_row_policy_portability.py: versions and activations "are           *)
(* serialized on PostgreSQL", and after concurrent activations one version *)
(* is active. Not kept: the active version is activated again, on the      *)
(* status it had before the locks, after another one has retired it.       *)
SomePolicyStaysActive ==
  [][(\E v \in Policies : row_policies[v].status = "active")
       => \E v \in Policies : row_policies'[v].status = "active"]_vars

(* A chain of waiting sessions that comes back to its start.               *)
WaitsFor(s) ==
  IF Has(s, MetricOperations, "insert") THEN lock[<<"dataset", HostOf(s)>>]
  ELSE IF request[s].wanted = {} THEN NoSession
  ELSE lock[WantedRow(s)]

WaitsInACircle(s) ==
  LET chain[n \in 0 .. Cardinality(Sessions)] ==
        IF n = 0 THEN s
        ELSE IF chain[n - 1] \in Sessions THEN WaitsFor(chain[n - 1]) ELSE NoSession
  IN  \E n \in 1 .. Cardinality(Sessions) : chain[n] = s

(* Locking in a fixed order keeps the requests on models, policies, metrics*)
(* and templates out of deadlocks.  A dataset's request locks its own version before the     *)
(* model and the active version after it: those can deadlock.              *)
OnlyDatasetsDeadlock ==
  \A s \in Sessions : WaitsInACircle(s) => request[s].op \in DatasetOperations
=============================================================================
