---------------------- MODULE ModelingLifecycle_proofs ----------------------
(***************************************************************************)
(* The versions of ModelingLifecycle for any number of sessions and        *)
(* versions: LifecycleInv is inductive, one version stays active, and only *)
(* requests on datasets deadlock.                                          *)
(*                                                                         *)
(* A step is one session's.  What another session has read of the rows it  *)
(* has locked stays true because the step respects its locks.              *)
(***************************************************************************)
EXTENDS ModelingLifecycle, FiniteSetTheorems, WellFoundedInduction, TLAPS

-----------------------------------------------------------------------------
(* The natural numbers, without operators as parameters: the least number  *)
(* principle, and induction up to a bound.                                 *)

LEMMA LeastNatural ==
  ASSUME NEW T \in SUBSET Nat, T # {}
  PROVE  \E m \in T : \A n \in T : m <= n
<1> DEFINE R == {ss \in Nat \X Nat : ss[1] < ss[2]}
<1>1. IsWellFoundedOn(R, Nat)
  BY NatLessThanWellFounded DEF OpToRel
<1> HIDE DEF R
<1>2. PICK x \in T : \A y \in T : ~ (<<y, x>> \in R)
  BY <1>1, WFMin, Zenon
<1>3. \A y \in T : ~ (y < x)
  BY <1>2 DEF R
<1> QED
  BY <1>3

LEMMA Reaches ==
  ASSUME NEW n \in Nat, NEW T, 0 \in T, \A k \in T \cap Nat : k < n => k + 1 \in T
  PROVE  \A k \in 0 .. n : k \in T
<1> DEFINE U == {k \in 0 .. n : k \notin T}
<1>1. SUFFICES ASSUME U # {} PROVE FALSE
  OBVIOUS
<1>2. PICK m \in U : \A k \in U : m <= k
  <2>1. U \in SUBSET Nat
    OBVIOUS
  <2> HIDE DEF U
  <2> QED
    BY <1>1, <2>1, LeastNatural
<1>3. m # 0 /\ m - 1 \in 0 .. n /\ m - 1 \notin U
  BY <1>2
<1>4. m \in T
  BY <1>3
<1> QED
  BY <1>2, <1>4

LEMMA GreatestNatural ==
  ASSUME NEW n \in Nat, NEW T \in SUBSET (0 .. n), T # {}
  PROVE  \E m \in T : \A k \in T : k <= m
<1> DEFINE U == {k \in 0 .. n : n - k \in T}
<1>1. U \in SUBSET Nat /\ U # {}
  <2>1. PICK k \in T : TRUE
    OBVIOUS
  <2>2. n - k \in 0 .. n /\ n - (n - k) = k
    OBVIOUS
  <2>3. n - k \in U
    BY <2>2
  <2>4. U # {}
    BY <2>3
  <2> QED
    BY <2>4
<1>2. PICK m \in U : \A k \in U : m <= k
  <2> HIDE DEF U
  <2> QED
    BY <1>1, LeastNatural
<1>3. \A k \in T : n - (n - k) = k /\ n - k \in U
  OBVIOUS
<1> QED
  BY <1>2, <1>3

-----------------------------------------------------------------------------
(* The model a session's dataset is built on.                              *)
ModelOf(s) == datasets[request[s].target].model

(* What a session waits for or has already locked.                         *)
Claims(s, table, v) == v \in request[s].wanted \/ Holds(s, table, v)

-----------------------------------------------------------------------------
(* The inductive invariant.                                                *)

ModelRequest(s) ==
  /\ request[s].stage \in {"models", "insert"}
  /\ request[s].wanted \subseteq ModelVersions
  /\ request[s].op = "activate_model" =>
       request[s].stage = "models" /\ request[s].target \in ModelVersions
  /\ request[s].stage = "insert" => request[s].wanted = {}

DatasetRequest(s) ==
  /\ request[s].stage \in {"dataset", "model", "siblings", "insert"}
  /\ request[s].target \in DatasetVersions
  /\ IF request[s].stage = "dataset"
       THEN request[s].wanted \subseteq {request[s].target} /\ Claims(s, "dataset", request[s].target)
       ELSE Holds(s, "dataset", request[s].target)
  /\ request[s].stage = "model" =>
       request[s].wanted \subseteq {ModelOf(s)} /\ Claims(s, "model", ModelOf(s))
  /\ request[s].stage \in {"siblings", "insert"} => Holds(s, "model", ModelOf(s))
  /\ request[s].stage = "siblings" =>
       /\ request[s].op = "activate_dataset"
       /\ request[s].wanted \subseteq DatasetVersions \ {request[s].target}
       /\ semantic_models[ModelOf(s)] = "active"
       /\ \A v \in ActiveSiblings(request[s].target) : Claims(s, "dataset", v)
  /\ request[s].stage = "insert" =>
       /\ request[s].op = "create_dataset_version"
       /\ request[s].wanted = {}
       /\ request[s].number \notin DatasetVersions

SeriesRequest(s) ==
  /\ request[s].stage \in {"dataset", "policies", "insert"}
  /\ request[s].target \in PolicyVersions
  /\ IF request[s].stage = "dataset"
       THEN request[s].wanted \subseteq {1} /\ Claims(s, "dataset", 1)
       ELSE Holds(s, "dataset", 1)
  /\ request[s].stage = "policies" =>
       /\ request[s].wanted \subseteq PolicyVersions
       /\ \A v \in PolicyVersions : Claims(s, "policy", v)
  /\ request[s].stage = "insert" =>
       /\ request[s].op = "create_policy_version"
       /\ request[s].wanted = {}
       /\ request[s].number \notin PolicyVersions

BindingsRequest(s) ==
  /\ request[s].stage = "policy"
  /\ request[s].target \in PolicyVersions
  /\ request[s].wanted \subseteq {request[s].target}

MetricRequest(s) ==
  /\ request[s].stage \in {"metric", "host", "insert"}
  /\ request[s].seen \in {"draft", "active"}
  /\ request[s].stage # "metric" => request[s].wanted = {}
  /\ IF request[s].op = "create_metric"
       THEN request[s].target \in DatasetVersions /\ request[s].wanted = {}
       ELSE request[s].target \in MetricVersions /\ request[s].wanted \subseteq {request[s].target}

(* A number that is not taken yet is the next one, and then no template has*)
(* been activated since it was chosen.                                     *)
TemplateRequest(s) ==
  /\ request[s].stage \in {"archive", "templates"}
  /\ request[s].number \in Nat \ {0}
  /\ \A v \in Templates : v < request[s].number => v \in TemplateVersions
  /\ request[s].wanted \subseteq TemplateVersions
  /\ request[s].stage = "archive" => request[s].wanted = {}
  /\ request[s].stage = "templates" /\ request[s].number \notin TemplateVersions =>
       \A v \in Templates : import_templates[v] = "active" => Claims(s, "template", v)

RequestInv(s) ==
  /\ request[s].op = "none" => request[s] = NoRequest
  /\ request[s].op \in ModelOperations => ModelRequest(s)
  /\ request[s].op \in DatasetOperations => DatasetRequest(s)
  /\ request[s].op \in SeriesOperations => SeriesRequest(s)
  /\ request[s].op = "replace_bindings" => BindingsRequest(s)
  /\ request[s].op \in MetricOperations => MetricRequest(s)
  /\ request[s].op = "create_template" => TemplateRequest(s)
  /\ request[s].op \notin {"create_model", "create_dataset", "create_policy"}

(* Rows of one table are locked in their order, and a request on a dataset *)
(* locks that dataset, then its model, then the siblings.                  *)
MayHold(s, table, v) ==
  \/ /\ table = "model"
     /\ request[s].op \in ModelOperations
     /\ \A w \in request[s].wanted : v < w
  \/ /\ table = "model"
     /\ request[s].op \in DatasetOperations
     /\ request[s].stage # "dataset"
     /\ v = ModelOf(s)
     /\ request[s].stage = "model" => request[s].wanted = {}
  \/ /\ table = "dataset"
     /\ request[s].op \in DatasetOperations
     /\ request[s].stage = "dataset" => request[s].wanted = {}
  \/ /\ table = "dataset"
     /\ request[s].op \in SeriesOperations
     /\ v = 1
     /\ request[s].stage = "dataset" => request[s].wanted = {}
  \/ /\ table = "policy"
     /\ request[s].op \in SeriesOperations
     /\ request[s].stage # "dataset"
     /\ \A w \in request[s].wanted : v < w
  \/ /\ table = "policy"
     /\ request[s].op = "replace_bindings"
     /\ request[s].wanted = {}
  \/ /\ table = "metric"
     /\ request[s].op = "create_metric_version"
     /\ request[s].wanted = {}
  \/ /\ table = "template"
     /\ request[s].op = "create_template"
     /\ request[s].stage = "templates"
     /\ v \in TemplateVersions
     /\ \A w \in request[s].wanted : v < w

LocksInv ==
  \A s \in Sessions, r \in Rows : lock[r] = s => MayHold(s, r[1], r[2])

SeriesInv ==
  /\ \A v, w \in DatasetVersions : datasets[v].model = datasets[w].model
  /\ \A v \in DatasetVersions : datasets[v].model \in ModelVersions
  /\ PolicyVersions # {} => 1 \in DatasetVersions
  /\ \A v \in MetricVersions : metrics[v].dataset \in DatasetVersions
  /\ \A v \in TemplateVersions, w \in Templates : w < v => w \in TemplateVersions

LifecycleInv ==
  /\ TypeOK
  /\ OneVersionIsActive
  /\ ActivePolicyIsBound
  /\ SeriesInv
  /\ LocksInv
  /\ \A s \in Sessions : RequestInv(s)

-----------------------------------------------------------------------------
(* The operators of the model.                                             *)

LEMMA LatestIsGreatest ==
  ASSUME NEW n \in Nat, NEW V \in SUBSET (1 .. n)
  PROVE  /\ Latest(V) \in 0 .. n
         /\ \A v \in V : v <= Latest(V)
         /\ Latest(V) + 1 \notin V
         /\ V # {} => Latest(V) \in V
<1>1. CASE V = {}
  BY <1>1 DEF Latest
<1>2. CASE V # {}
  <2>1. V \in SUBSET (0 .. n)
    OBVIOUS
  <2>2. \E m \in V : \A k \in V : k <= m
    BY <1>2, <2>1, GreatestNatural
  <2>3. PICK m \in V : m = Latest(V) /\ \A k \in V : k <= m
    BY <1>2, <2>2 DEF Latest
  <2>4. m \in 1 .. n /\ m + 1 \notin V
    BY <2>3
  <2>5. Latest(V) \in 0 .. n /\ Latest(V) + 1 \notin V
    BY <2>3, <2>4
  <2> QED
    BY <2>3, <2>5
<1> QED
  BY <1>1, <1>2

LEMMA NextIsLeast ==
  ASSUME NEW s, request[s].wanted \in SUBSET Nat, request[s].wanted # {}
  PROVE  /\ NextToLock(s) \in request[s].wanted
         /\ \A w \in request[s].wanted : NextToLock(s) <= w
BY LeastNatural DEF NextToLock

LEMMA VersionsAreBounded ==
  /\ ModelVersions \in SUBSET (1 .. MaxModels)
  /\ DatasetVersions \in SUBSET (1 .. MaxDatasets)
  /\ PolicyVersions \in SUBSET (1 .. MaxPolicies)
  /\ MetricVersions \in SUBSET (1 .. MaxMetrics)
  /\ TemplateVersions \in SUBSET (1 .. MaxTemplates)
BY DEF ModelVersions, Models, DatasetVersions, Datasets, PolicyVersions, Policies,
       MetricVersions, Metrics, TemplateVersions, Templates

-----------------------------------------------------------------------------
(* What the step of one session leaves to the others.                      *)

LeavesSessions(t) ==
  \A s \in Sessions \ {t} :
    /\ request'[s] = request[s]
    /\ \A r \in Rows : lock'[r] = s <=> lock[r] = s

KeepsVersions ==
  /\ ModelVersions \subseteq ModelVersions'
  /\ DatasetVersions \subseteq DatasetVersions'
  /\ \A v \in DatasetVersions : datasets'[v].model = datasets[v].model
  /\ PolicyVersions \subseteq PolicyVersions'
  /\ MetricVersions \subseteq MetricVersions'
  /\ TemplateVersions \subseteq TemplateVersions'

(* Who holds a model's row: it stays active, and no version of the dataset *)
(* on it is added or activated.                                            *)
RespectsModel(m) ==
  /\ semantic_models[m] = "active" => semantic_models'[m] = "active"
  /\ \A d \in DatasetVersions : datasets[d].model = m =>
       /\ DatasetVersions' = DatasetVersions
       /\ \A v \in Datasets : datasets'[v].status = "active" => datasets[v].status = "active"

RespectsLocks(t) ==
  \A s \in Sessions \ {t} :
    /\ \A m \in Models : Holds(s, "model", m) => RespectsModel(m)
    /\ Holds(s, "dataset", 1) => PolicyVersions' = PolicyVersions

AddsNextTemplate ==
  \/ import_templates' = import_templates
  \/ \E n \in Templates \ TemplateVersions :
       /\ \A v \in Templates : v < n => v \in TemplateVersions
       /\ TemplateVersions' = TemplateVersions \cup {n}

LeavesOthers(t) == KeepsVersions /\ RespectsLocks(t) /\ AddsNextTemplate

LEMMA RowsAreThere ==
  /\ \A v \in Models : <<"model", v>> \in Rows
  /\ \A v \in Datasets : <<"dataset", v>> \in Rows
  /\ \A v \in Policies : <<"policy", v>> \in Rows
  /\ \A v \in Metrics : <<"metric", v>> \in Rows
  /\ \A v \in Templates : <<"template", v>> \in Rows
BY DEF Rows

LEMMA ClaimsLast ==
  ASSUME NEW t \in Sessions, LeavesSessions(t), NEW s \in Sessions \ {t}
  PROVE  /\ request'[s] = request[s]
         /\ \A v \in Models : Holds(s, "model", v)' <=> Holds(s, "model", v)
         /\ \A v \in Datasets : Holds(s, "dataset", v)' <=> Holds(s, "dataset", v)
         /\ \A v \in Policies : Holds(s, "policy", v)' <=> Holds(s, "policy", v)
         /\ \A v \in Templates : Holds(s, "template", v)' <=> Holds(s, "template", v)
         /\ \A v \in Models : Claims(s, "model", v)' <=> Claims(s, "model", v)
         /\ \A v \in Datasets : Claims(s, "dataset", v)' <=> Claims(s, "dataset", v)
         /\ \A v \in Policies : Claims(s, "policy", v)' <=> Claims(s, "policy", v)
         /\ \A v \in Templates : Claims(s, "template", v)' <=> Claims(s, "template", v)
BY RowsAreThere DEF LeavesSessions, Holds, Claims

LEMMA OtherRequests ==
  ASSUME LifecycleInv, NEW t \in Sessions, LeavesSessions(t), LeavesOthers(t),
         NEW s \in Sessions \ {t}
  PROVE  RequestInv(s)'
<1> USE VersionsAreBounded DEF Models, Datasets, Policies, Metrics, Templates
<1>0. RequestInv(s) /\ TypeOK /\ SeriesInv
  BY DEF LifecycleInv
<1>1. request'[s] = request[s]
  BY ClaimsLast
<1>2. KeepsVersions /\ AddsNextTemplate
  BY DEF LeavesOthers
<1>3. ASSUME request[s].op \in ModelOperations, ModelRequest(s)
      PROVE  ModelRequest(s)'
  BY <1>1, <1>2, <1>3 DEF ModelRequest, KeepsVersions
<1>4. ASSUME request[s].op \in DatasetOperations, DatasetRequest(s)
      PROVE  DatasetRequest(s)'
  <2>1. PICK d \in DatasetVersions, m \in Models :
          /\ request[s].target = d /\ request'[s].target = d
          /\ ModelOf(s) = m /\ ModelOf(s)' = m /\ datasets[d].model = m
    BY <1>0, <1>1, <1>2, <1>4 DEF DatasetRequest, KeepsVersions, ModelOf, SeriesInv
  <2>2. Holds(s, "model", m) => RespectsModel(m)
    BY <2>1 DEF LeavesOthers, RespectsLocks
  <2>3. d \in Datasets /\ d \in DatasetVersions'
    BY <2>1, <1>2 DEF KeepsVersions
  <2>4. /\ \A v \in Datasets : Claims(s, "dataset", v)' <=> Claims(s, "dataset", v)
        /\ \A v \in Datasets : Holds(s, "dataset", v)' <=> Holds(s, "dataset", v)
        /\ Claims(s, "model", m)' <=> Claims(s, "model", m)
        /\ Holds(s, "model", m)' <=> Holds(s, "model", m)
    BY ClaimsLast
  <2>5. CASE request[s].stage \in {"dataset", "model"}
    BY <1>1, <1>4, <2>1, <2>3, <2>4, <2>5 DEF DatasetRequest
  <2>6. CASE request[s].stage = "siblings"
    <3>1. /\ Holds(s, "dataset", d) /\ Holds(s, "model", m) /\ semantic_models[m] = "active"
          /\ request[s].op = "activate_dataset"
          /\ request[s].wanted \subseteq DatasetVersions \ {d}
          /\ \A v \in ActiveSiblings(d) : Claims(s, "dataset", v)
      BY <1>4, <2>1, <2>6 DEF DatasetRequest
    <3>2. /\ semantic_models'[m] = "active" /\ DatasetVersions' = DatasetVersions
          /\ \A v \in Datasets : datasets'[v].status = "active" => datasets[v].status = "active"
      BY <2>1, <2>2, <3>1 DEF RespectsModel
    <3>3. \A v \in ActiveSiblings(d)' : v \in ActiveSiblings(d) /\ v \in Datasets
      BY <3>2 DEF ActiveSiblings
    <3>4. \A v \in ActiveSiblings(d)' : Claims(s, "dataset", v)'
      BY <2>4, <3>1, <3>3
    <3> QED
      BY <1>1, <2>1, <2>3, <2>4, <2>6, <3>1, <3>2, <3>4 DEF DatasetRequest
  <2>7. CASE request[s].stage = "insert"
    <3>1. /\ Holds(s, "dataset", d) /\ Holds(s, "model", m)
          /\ request[s].op = "create_dataset_version" /\ request[s].wanted = {}
          /\ request[s].number \notin DatasetVersions
      BY <1>4, <2>1, <2>7 DEF DatasetRequest
    <3>2. DatasetVersions' = DatasetVersions
      BY <2>1, <2>2, <3>1 DEF RespectsModel
    <3> QED
      BY <1>1, <2>1, <2>3, <2>4, <2>7, <3>1, <3>2 DEF DatasetRequest
  <2> QED
    BY <1>4, <2>5, <2>6, <2>7 DEF DatasetRequest
<1>5. ASSUME request[s].op \in SeriesOperations, SeriesRequest(s)
      PROVE  SeriesRequest(s)'
  <2>1. request[s].target \in PolicyVersions' /\ 1 \in Datasets
    BY <1>0, <1>2, <1>5 DEF SeriesRequest, KeepsVersions, SeriesInv
  <2>2. /\ Claims(s, "dataset", 1)' <=> Claims(s, "dataset", 1)
        /\ Holds(s, "dataset", 1)' <=> Holds(s, "dataset", 1)
        /\ \A v \in Policies : Claims(s, "policy", v)' <=> Claims(s, "policy", v)
    BY <2>1, ClaimsLast
  <2>3. CASE request[s].stage = "dataset"
    BY <1>1, <1>5, <2>1, <2>2, <2>3 DEF SeriesRequest
  <2>4. CASE request[s].stage \in {"policies", "insert"}
    <3>1. Holds(s, "dataset", 1) /\ PolicyVersions' = PolicyVersions
      BY <1>5, <2>4 DEF SeriesRequest, LeavesOthers, RespectsLocks
    <3>2. \A v \in PolicyVersions' : v \in PolicyVersions /\ v \in Policies
      BY <3>1
    <3> QED
      BY <1>1, <1>5, <2>1, <2>2, <2>4, <3>1, <3>2 DEF SeriesRequest
  <2> QED
    BY <1>5, <2>3, <2>4 DEF SeriesRequest
<1>6. ASSUME request[s].op = "replace_bindings", BindingsRequest(s)
      PROVE  BindingsRequest(s)'
  BY <1>1, <1>2, <1>6 DEF BindingsRequest, KeepsVersions
<1>7. ASSUME request[s].op \in MetricOperations, MetricRequest(s)
      PROVE  MetricRequest(s)'
  BY <1>1, <1>2, <1>7 DEF MetricRequest, KeepsVersions
<1>8. ASSUME request[s].op = "create_template", TemplateRequest(s)
      PROVE  TemplateRequest(s)'
  <2>1. \A v \in Templates : Claims(s, "template", v)' <=> Claims(s, "template", v)
    BY ClaimsLast
  <2>2. /\ \A v \in Templates : v < request[s].number => v \in TemplateVersions'
        /\ request[s].wanted \subseteq TemplateVersions'
    BY <1>2, <1>8 DEF TemplateRequest, KeepsVersions
  <2>3. CASE import_templates' = import_templates
    <3>1. TemplateVersions' = TemplateVersions
      BY <2>3 DEF TemplateVersions
    <3> QED
      BY <1>1, <1>8, <2>1, <2>2, <2>3, <3>1 DEF TemplateRequest
  <2>4. ASSUME NEW n \in Templates \ TemplateVersions,
               \A v \in Templates : v < n => v \in TemplateVersions,
               TemplateVersions' = TemplateVersions \cup {n},
               request[s].number \notin TemplateVersions'
        PROVE  FALSE
    <3>1. PICK k \in Nat \ {0} : k = request[s].number
      BY <1>8 DEF TemplateRequest
    <3>2. ~ (n < k)
      BY <1>8, <2>4, <3>1 DEF TemplateRequest
    <3>3. k \in Templates
      BY <3>1, <3>2, <2>4, LifecycleAssumption
    <3> QED
      BY <2>4, <3>1, <3>2, <3>3
  <2>5. CASE request[s].number \in TemplateVersions'
    BY <1>1, <1>8, <2>2, <2>5 DEF TemplateRequest
  <2> QED
    BY <1>2, <2>3, <2>4, <2>5 DEF AddsNextTemplate
<1> QED
  BY <1>0, <1>1, <1>3, <1>4, <1>5, <1>6, <1>7, <1>8 DEF RequestInv

LEMMA OtherLocks ==
  ASSUME LifecycleInv, NEW t \in Sessions, LeavesSessions(t), LeavesOthers(t),
         NEW s \in Sessions \ {t}, NEW r \in Rows, lock'[r] = s
  PROVE  MayHold(s, r[1], r[2])'
<1>1. MayHold(s, r[1], r[2])
  BY DEF LifecycleInv, LocksInv, LeavesSessions
<1>2. request'[s] = request[s]
  BY ClaimsLast
<1>3. request[s].op \in DatasetOperations => ModelOf(s)' = ModelOf(s)
  BY <1>2 DEF LifecycleInv, RequestInv, DatasetRequest, LeavesOthers, KeepsVersions, ModelOf
<1>4. TemplateVersions \subseteq TemplateVersions'
  BY DEF LeavesOthers, KeepsVersions
<1> QED
  BY <1>1, <1>2, <1>3, <1>4 DEF MayHold

(* It is enough to look at the session that takes the step.                *)
OwnInv(t) ==
  /\ RequestInv(t)
  /\ \A r \in Rows : lock[r] = t => MayHold(t, r[1], r[2])

LEMMA StepKeepsRequests ==
  ASSUME LifecycleInv, NEW t \in Sessions, LeavesSessions(t), LeavesOthers(t), OwnInv(t)'
  PROVE  LocksInv' /\ \A s \in Sessions : RequestInv(s)'
<1>1. ASSUME NEW s \in Sessions PROVE RequestInv(s)'
  BY OtherRequests DEF OwnInv
<1>2. ASSUME NEW s \in Sessions, NEW r \in Rows, lock'[r] = s
      PROVE  MayHold(s, r[1], r[2])'
  BY <1>2, OtherLocks DEF OwnInv
<1> QED
  BY <1>1, <1>2 DEF LocksInv

-----------------------------------------------------------------------------
(* The tables.                                                             *)

TablesType ==
  /\ semantic_models \in [Models -> ModelStatuses]
  /\ datasets \in [Datasets -> DatasetRow]
  /\ row_policies \in [Policies -> PolicyRow]
  /\ metrics \in [Metrics -> MetricRow]
  /\ import_templates \in [Templates -> TemplateStatuses]

TablesInv == TablesType /\ OneVersionIsActive /\ ActivePolicyIsBound /\ SeriesInv

SessionsType ==
  /\ lock \in [Rows -> Sessions \cup {NoSession}]
  /\ request \in [Sessions -> Request]

LEMMA InvParts ==
  /\ TypeOK <=> TablesType /\ SessionsType
  /\ LifecycleInv <=> /\ TablesInv /\ SessionsType /\ LocksInv
                      /\ \A s \in Sessions : RequestInv(s)
BY DEF LifecycleInv, TypeOK, TablesInv, TablesType, SessionsType

LEMMA InvPartsNext ==
  ASSUME TablesInv', SessionsType', LocksInv', \A s \in Sessions : RequestInv(s)'
  PROVE  LifecycleInv'
BY DEF LifecycleInv, TypeOK, TablesInv, TablesType, SessionsType

tables == <<semantic_models, datasets, row_policies, saved>>

LEMMA SameTables ==
  ASSUME UNCHANGED tables, TablesInv, NEW t \in Sessions
  PROVE  TablesInv' /\ LeavesOthers(t)
<1>1. /\ semantic_models' = semantic_models /\ datasets' = datasets
      /\ row_policies' = row_policies /\ metrics' = metrics
      /\ import_templates' = import_templates
  BY DEF tables, saved
<1>2. /\ ModelVersions' = ModelVersions /\ DatasetVersions' = DatasetVersions
      /\ PolicyVersions' = PolicyVersions /\ MetricVersions' = MetricVersions
      /\ TemplateVersions' = TemplateVersions
  BY <1>1 DEF ModelVersions, DatasetVersions, PolicyVersions, MetricVersions, TemplateVersions
<1>3. TablesInv'
  BY <1>1, <1>2 DEF TablesInv, TablesType, OneVersionIsActive, ActivePolicyIsBound, SeriesInv
<1>4. LeavesOthers(t)
  BY <1>1, <1>2 DEF LeavesOthers, KeepsVersions, RespectsLocks, RespectsModel, AddsNextTemplate
<1> QED
  BY <1>3, <1>4

-----------------------------------------------------------------------------
(* The steps that write no table.                                          *)

LEMMA RequestFields ==
  ASSUME NEW q \in Request
  PROVE  /\ q.op \in AllOperations \cup {"none"} /\ q.stage \in Stages \cup {"none"}
         /\ q.target \in Nat /\ q.wanted \in SUBSET Nat
         /\ q.seen \in {"none", "draft", "active", "disabled"} /\ q.number \in Nat
         /\ DOMAIN q = {"op", "stage", "target", "wanted", "seen", "number"}
BY DEF Request

LEMMA RequestOf ==
  ASSUME LifecycleInv, NEW s \in Sessions
  PROVE  request[s] \in Request /\ RequestInv(s)
BY InvParts DEF SessionsType

LEMMA NoRequestType == NoRequest \in Request
BY DEF NoRequest, Request

(* A transaction ends.                                                     *)
LEMMA Finishes ==
  ASSUME LifecycleInv, NEW s \in Sessions, Finish(s)
  PROVE  SessionsType' /\ LeavesSessions(s) /\ OwnInv(s)'
<1>1. request \in [Sessions -> Request] /\ lock \in [Rows -> Sessions \cup {NoSession}]
  BY InvParts DEF SessionsType
<1>2. SessionsType'
  BY <1>1, NoRequestType DEF Finish, SessionsType
<1>3. LeavesSessions(s)
  BY <1>1, LifecycleAssumption DEF Finish, LeavesSessions
<1>4. request'[s] = NoRequest /\ \A r \in Rows : lock'[r] # s
  BY <1>1, LifecycleAssumption DEF Finish
<1>5. RequestInv(s)'
  BY <1>4 DEF RequestInv, NoRequest, ModelOperations, DatasetOperations, SeriesOperations,
              MetricOperations
<1> QED
  BY <1>2, <1>3, <1>4, <1>5 DEF OwnInv

(* Only its own request changes.                                           *)
LEMMA OnlyRequest ==
  ASSUME LifecycleInv, NEW s \in Sessions, NEW q \in Request,
         request' = [request EXCEPT ![s] = q], UNCHANGED lock
  PROVE  SessionsType' /\ LeavesSessions(s) /\ request'[s] = q
BY InvParts DEF SessionsType, LeavesSessions

(* A session that begins holds nothing.                                    *)
LEMMA IdleHoldsNothing ==
  ASSUME LifecycleInv, NEW s \in Sessions, request[s] = NoRequest
  PROVE  \A r \in Rows : lock[r] # s
BY InvParts DEF LocksInv, MayHold, NoRequest, ModelOperations, DatasetOperations,
                SeriesOperations

LEMMA SameVersions ==
  ASSUME UNCHANGED tables
  PROVE  /\ ModelVersions' = ModelVersions /\ DatasetVersions' = DatasetVersions
         /\ PolicyVersions' = PolicyVersions /\ MetricVersions' = MetricVersions
         /\ TemplateVersions' = TemplateVersions
         /\ semantic_models' = semantic_models /\ datasets' = datasets
         /\ row_policies' = row_policies /\ metrics' = metrics
         /\ import_templates' = import_templates
BY DEF ModelVersions, DatasetVersions, PolicyVersions, MetricVersions, TemplateVersions,
       tables, saved

(* A request is of one kind.                                               *)
LEMMA OneKind ==
  ASSUME NEW s
  PROVE  /\ request'[s].op \in ModelOperations /\ ModelRequest(s)' => RequestInv(s)'
         /\ request'[s].op \in DatasetOperations /\ DatasetRequest(s)' => RequestInv(s)'
         /\ request'[s].op \in SeriesOperations /\ SeriesRequest(s)' => RequestInv(s)'
         /\ request'[s].op = "replace_bindings" /\ BindingsRequest(s)' => RequestInv(s)'
         /\ request'[s].op \in MetricOperations /\ MetricRequest(s)' => RequestInv(s)'
         /\ request'[s].op = "create_template" /\ TemplateRequest(s)' => RequestInv(s)'
BY DEF RequestInv, ModelOperations, DatasetOperations, SeriesOperations, MetricOperations

LEMMA Moved ==
  ASSUME LifecycleInv, NEW s \in Sessions, UNCHANGED <<tables, lock>>,
         NEW q \in Request, request' = [request EXCEPT ![s] = q], OwnInv(s)'
  PROVE  LifecycleInv'
<1>1. SessionsType' /\ LeavesSessions(s)
  BY OnlyRequest
<1>2. TablesInv' /\ LeavesOthers(s)
  BY SameTables, InvParts
<1>3. LocksInv' /\ \A x \in Sessions : RequestInv(x)'
  BY <1>1, <1>2, StepKeepsRequests
<1> QED
  BY <1>1, <1>2, <1>3, InvPartsNext

LEMMA Begun ==
  ASSUME LifecycleInv, NEW s \in Sessions, request[s] = NoRequest, UNCHANGED <<tables, lock>>,
         NEW q \in Request, request' = [request EXCEPT ![s] = q], RequestInv(s)'
  PROVE  LifecycleInv'
<1>1. \A r \in Rows : lock'[r] # s
  BY IdleHoldsNothing
<1>2. OwnInv(s)'
  BY <1>1 DEF OwnInv
<1> QED
  BY <1>2, Moved

LEMMA BeginRecord ==
  ASSUME LifecycleInv, NEW s \in Sessions, NEW op \in AllOperations, NEW stage \in Stages,
         NEW target \in Nat, NEW wanted \in SUBSET Nat,
         NEW seen \in {"none", "draft", "active", "disabled"},
         Begin(s, op, stage, target, wanted, seen)
  PROVE  /\ UNCHANGED <<tables, lock>> /\ request[s] = NoRequest
         /\ request'[s] \in Request /\ request' = [request EXCEPT ![s] = request'[s]]
         /\ request'[s].op = op /\ request'[s].stage = stage /\ request'[s].target = target
         /\ request'[s].wanted = wanted /\ request'[s].seen = seen
<1> DEFINE q == [NoRequest EXCEPT !.op = op, !.stage = stage, !.target = target,
                                  !.wanted = wanted, !.seen = seen]
<1>1. /\ q \in Request
      /\ q.op = op /\ q.stage = stage /\ q.target = target /\ q.wanted = wanted /\ q.seen = seen
  BY NoRequestType DEF Request
<1>2. request' = [request EXCEPT ![s] = q]
  BY DEF Begin
<1> HIDE DEF q
<1>3. request'[s] = q
  BY <1>2, InvParts DEF SessionsType
<1> QED
  BY <1>1, <1>2, <1>3 DEF Begin, tables

LEMMA BeginActivateModelStep ==
  ASSUME LifecycleInv, NEW s \in Sessions, NEW v \in Models, BeginActivateModel(s, v)
  PROVE  LifecycleInv'
<1>1. /\ v \in ModelVersions
      /\ Begin(s, "activate_model", "models", v, ModelVersions, "none")
  BY DEF BeginActivateModel
<1>2. /\ "activate_model" \in AllOperations /\ "models" \in Stages
      /\ v \in Nat /\ ModelVersions \in SUBSET Nat
  BY <1>1, VersionsAreBounded DEF AllOperations, ModelOperations, Stages
<1>3. /\ UNCHANGED <<tables, lock>> /\ request[s] = NoRequest
      /\ request'[s] \in Request /\ request' = [request EXCEPT ![s] = request'[s]]
      /\ request'[s].op = "activate_model" /\ request'[s].stage = "models"
      /\ request'[s].target = v /\ request'[s].wanted = ModelVersions
  BY <1>1, <1>2, BeginRecord
<1>4. request'[s].op \in ModelOperations /\ ModelRequest(s)'
  BY <1>1, <1>3, SameVersions DEF ModelRequest, ModelOperations
<1> QED
  BY <1>3, <1>4, OneKind, Begun

LEMMA BeginCreateModelVersionStep ==
  ASSUME LifecycleInv, NEW s \in Sessions, BeginCreateModelVersion(s)
  PROVE  LifecycleInv'
<1>1. /\ TRUE
      /\ Begin(s, "create_model_version", "models", 0, ModelVersions, "none")
  BY DEF BeginCreateModelVersion
<1>2. /\ "create_model_version" \in AllOperations /\ "models" \in Stages
      /\ 0 \in Nat /\ ModelVersions \in SUBSET Nat
      /\ "none" \in {"none", "draft", "active", "disabled"}
  BY <1>1, VersionsAreBounded DEF AllOperations, ModelOperations, Stages
<1>3. /\ UNCHANGED <<tables, lock>> /\ request[s] = NoRequest
      /\ request'[s] \in Request /\ request' = [request EXCEPT ![s] = request'[s]]
      /\ request'[s].op = "create_model_version" /\ request'[s].stage = "models"
      /\ request'[s].target = 0 /\ request'[s].wanted = ModelVersions
      /\ request'[s].seen = "none"
  BY <1>1, <1>2, BeginRecord
<1>4. request'[s].op \in ModelOperations /\ ModelRequest(s)'
  BY <1>3, SameVersions DEF ModelRequest, ModelOperations
<1> QED
  BY <1>3, <1>4, OneKind, Begun


LEMMA BeginDatasetStep ==
  ASSUME LifecycleInv, NEW s \in Sessions, NEW op \in DatasetOperations, NEW v \in Datasets, BeginDataset(s, op, v)
  PROVE  LifecycleInv'
<1>1. /\ v \in DatasetVersions
      /\ Begin(s, op, "dataset", v, {v}, "none")
  BY DEF BeginDataset
<1>2. /\ op \in AllOperations /\ "dataset" \in Stages
      /\ v \in Nat /\ {v} \in SUBSET Nat
      /\ "none" \in {"none", "draft", "active", "disabled"}
  BY <1>1, VersionsAreBounded DEF AllOperations, DatasetOperations, Datasets, Stages
<1>3. /\ UNCHANGED <<tables, lock>> /\ request[s] = NoRequest
      /\ request'[s] \in Request /\ request' = [request EXCEPT ![s] = request'[s]]
      /\ request'[s].op = op /\ request'[s].stage = "dataset"
      /\ request'[s].target = v /\ request'[s].wanted = {v}
      /\ request'[s].seen = "none"
  BY <1>1, <1>2, BeginRecord
<1>4. DatasetRequest(s)'
  BY <1>1, <1>3, SameVersions DEF DatasetRequest, Claims
<1> QED
  BY <1>3, <1>4, OneKind, Begun


LEMMA BeginSeriesStep ==
  ASSUME LifecycleInv, NEW s \in Sessions, NEW op \in SeriesOperations, NEW v \in Policies, BeginSeries(s, op, v)
  PROVE  LifecycleInv'
<1>1. /\ v \in PolicyVersions
      /\ Begin(s, op, "dataset", v, {1}, (IF op = "activate_policy" THEN row_policies[v].status ELSE "none"))
  BY DEF BeginSeries
<1>2. /\ op \in AllOperations /\ "dataset" \in Stages
      /\ v \in Nat /\ {1} \in SUBSET Nat
      /\ (IF op = "activate_policy" THEN row_policies[v].status ELSE "none") \in {"none", "draft", "active", "disabled"}
  BY <1>1, VersionsAreBounded, InvParts DEF AllOperations, SeriesOperations, Policies, Stages, TablesInv, TablesType,
         PolicyRow, PolicyVersions
<1>3. /\ UNCHANGED <<tables, lock>> /\ request[s] = NoRequest
      /\ request'[s] \in Request /\ request' = [request EXCEPT ![s] = request'[s]]
      /\ request'[s].op = op /\ request'[s].stage = "dataset"
      /\ request'[s].target = v /\ request'[s].wanted = {1}
      /\ request'[s].seen = (IF op = "activate_policy" THEN row_policies[v].status ELSE "none")
  BY <1>1, <1>2, BeginRecord
<1>4. SeriesRequest(s)'
  BY <1>1, <1>3, SameVersions DEF SeriesRequest, Claims
<1> QED
  BY <1>3, <1>4, OneKind, Begun


LEMMA BeginReplaceBindingsStep ==
  ASSUME LifecycleInv, NEW s \in Sessions, NEW v \in Policies, BeginReplaceBindings(s, v)
  PROVE  LifecycleInv'
<1>1. /\ v \in PolicyVersions
      /\ Begin(s, "replace_bindings", "policy", v, {v}, "none")
  BY DEF BeginReplaceBindings
<1>2. /\ "replace_bindings" \in AllOperations /\ "policy" \in Stages
      /\ v \in Nat /\ {v} \in SUBSET Nat
      /\ "none" \in {"none", "draft", "active", "disabled"}
  BY <1>1, VersionsAreBounded DEF AllOperations, Policies, Stages
<1>3. /\ UNCHANGED <<tables, lock>> /\ request[s] = NoRequest
      /\ request'[s] \in Request /\ request' = [request EXCEPT ![s] = request'[s]]
      /\ request'[s].op = "replace_bindings" /\ request'[s].stage = "policy"
      /\ request'[s].target = v /\ request'[s].wanted = {v}
      /\ request'[s].seen = "none"
  BY <1>1, <1>2, BeginRecord
<1>4. BindingsRequest(s)'
  BY <1>1, <1>3, SameVersions DEF BindingsRequest
<1> QED
  BY <1>3, <1>4, OneKind, Begun


LEMMA BeginCreateMetricStep ==
  ASSUME LifecycleInv, NEW s \in Sessions, NEW d \in Datasets,
         NEW status \in {"draft", "active"}, BeginCreateMetric(s, d, status)
  PROVE  LifecycleInv'
<1>1. /\ d \in DatasetVersions
      /\ Begin(s, "create_metric", "metric", d, {}, status)
  BY DEF BeginCreateMetric
<1>2. /\ "create_metric" \in AllOperations /\ "metric" \in Stages
      /\ d \in Nat /\ {} \in SUBSET Nat
      /\ status \in {"none", "draft", "active", "disabled"}
  BY <1>1, VersionsAreBounded DEF AllOperations, MetricOperations, Datasets, Metrics, Stages
<1>3. /\ UNCHANGED <<tables, lock>> /\ request[s] = NoRequest
      /\ request'[s] \in Request /\ request' = [request EXCEPT ![s] = request'[s]]
      /\ request'[s].op = "create_metric" /\ request'[s].stage = "metric"
      /\ request'[s].target = d /\ request'[s].wanted = {}
      /\ request'[s].seen = status
  BY <1>1, <1>2, BeginRecord
<1>4. request'[s].op \in MetricOperations /\ MetricRequest(s)'
  BY <1>1, <1>3, SameVersions DEF MetricRequest, MetricOperations
<1> QED
  BY <1>3, <1>4, OneKind, Begun


LEMMA BeginCreateMetricVersionStep ==
  ASSUME LifecycleInv, NEW s \in Sessions, NEW v \in Metrics,
         NEW status \in {"draft", "active"}, BeginCreateMetricVersion(s, v, status)
  PROVE  LifecycleInv'
<1>1. /\ v \in MetricVersions
      /\ Begin(s, "create_metric_version", "metric", v, {v}, status)
  BY DEF BeginCreateMetricVersion
<1>2. /\ "create_metric_version" \in AllOperations /\ "metric" \in Stages
      /\ v \in Nat /\ {v} \in SUBSET Nat
      /\ status \in {"none", "draft", "active", "disabled"}
  BY <1>1, VersionsAreBounded DEF AllOperations, MetricOperations, Datasets, Metrics, Stages
<1>3. /\ UNCHANGED <<tables, lock>> /\ request[s] = NoRequest
      /\ request'[s] \in Request /\ request' = [request EXCEPT ![s] = request'[s]]
      /\ request'[s].op = "create_metric_version" /\ request'[s].stage = "metric"
      /\ request'[s].target = v /\ request'[s].wanted = {v}
      /\ request'[s].seen = status
  BY <1>1, <1>2, BeginRecord
<1>4. request'[s].op \in MetricOperations /\ MetricRequest(s)'
  BY <1>1, <1>3, SameVersions DEF MetricRequest, MetricOperations
<1> QED
  BY <1>3, <1>4, OneKind, Begun

LEMMA BeginCreateTemplateStep ==
  ASSUME LifecycleInv, NEW s \in Sessions, BeginCreateTemplate(s)
  PROVE  LifecycleInv'
<1> DEFINE n == Latest(TemplateVersions) + 1
           q == [NoRequest EXCEPT !.op = "create_template", !.stage = "archive", !.number = n]
<1>1. n \in Nat \ {0}
  <2>1. MaxTemplates \in Nat
    BY LifecycleAssumption
  <2>2. Latest(TemplateVersions) \in 0 .. MaxTemplates
    BY <2>1, VersionsAreBounded, LatestIsGreatest
  <2> QED
    BY <2>1, <2>2
<1>2. \A v \in Templates : v < n => v \in TemplateVersions
  <2>1. SUFFICES ASSUME NEW v \in Templates, v < n PROVE v \in TemplateVersions
    OBVIOUS
  <2>2. PICK w \in 0 .. MaxTemplates : w = Latest(TemplateVersions)
                                   /\ (TemplateVersions # {} => w \in TemplateVersions)
    BY VersionsAreBounded, LatestIsGreatest, LifecycleAssumption
  <2>3. CASE TemplateVersions = {}
    BY <2>1, <2>3 DEF Latest, Templates
  <2>4. CASE TemplateVersions # {}
    <3>1. v = w \/ v < w
      BY <2>1, <2>2 DEF Templates
    <3> QED
      BY <2>2, <2>4, <3>1, InvParts DEF TablesInv, SeriesInv
  <2> QED
    BY <2>3, <2>4
<1> HIDE DEF n
<1>3. q \in Request
  BY <1>1, NoRequestType DEF Request, AllOperations, Stages
<1>4. /\ request[s] = NoRequest /\ UNCHANGED <<tables, lock>>
      /\ request' = [request EXCEPT ![s] = q]
  BY DEF BeginCreateTemplate, tables, n
<1>5. /\ q.op = "create_template" /\ q.stage = "archive" /\ q.wanted = {} /\ q.number = n
  BY NoRequestType DEF NoRequest
<1> HIDE DEF q
<1>6. request'[s] = q
  BY <1>3, <1>4, OnlyRequest
<1>7. request'[s].op = "create_template" /\ TemplateRequest(s)'
  BY <1>1, <1>2, <1>4, <1>5, <1>6, SameVersions DEF TemplateRequest
<1> QED
  BY <1>3, <1>4, <1>7, OneKind, Begun

(* A statement has locked its rows.                                        *)
LEMMA ProceedRecord ==
  ASSUME LifecycleInv, NEW s \in Sessions, NEW stage \in Stages, NEW wanted \in SUBSET Nat,
         Proceed(s, stage, wanted)
  PROVE  /\ UNCHANGED <<tables, lock>>
         /\ request'[s] \in Request /\ request' = [request EXCEPT ![s] = request'[s]]
         /\ request'[s].op = request[s].op /\ request'[s].stage = stage
         /\ request'[s].target = request[s].target /\ request'[s].wanted = wanted
         /\ request'[s].seen = request[s].seen /\ request'[s].number = request[s].number
<1> DEFINE q == [request[s] EXCEPT !.stage = stage, !.wanted = wanted]
<1>1. request[s] \in Request
  BY RequestOf
<1>2. /\ q \in Request
      /\ q.op = request[s].op /\ q.stage = stage /\ q.target = request[s].target
      /\ q.wanted = wanted /\ q.seen = request[s].seen /\ q.number = request[s].number
  BY <1>1 DEF Request
<1>3. request' = [request EXCEPT ![s] = q]
  BY DEF Proceed
<1> HIDE DEF q
<1>4. request'[s] = q
  BY <1>3, InvParts DEF SessionsType
<1> QED
  BY <1>2, <1>3, <1>4 DEF Proceed, tables

LEMMA NumberRecord ==
  ASSUME LifecycleInv, NEW s \in Sessions, NEW n \in Nat, Number(s, n)
  PROVE  /\ UNCHANGED <<tables, lock>>
         /\ request'[s] \in Request /\ request' = [request EXCEPT ![s] = request'[s]]
         /\ request'[s].op = request[s].op /\ request'[s].stage = "insert"
         /\ request'[s].target = request[s].target /\ request'[s].wanted = request[s].wanted
         /\ request'[s].seen = request[s].seen /\ request'[s].number = n
<1> DEFINE q == [request[s] EXCEPT !.stage = "insert", !.number = n]
<1>1. request[s] \in Request
  BY RequestOf
<1>2. /\ q \in Request
      /\ q.op = request[s].op /\ q.stage = "insert" /\ q.target = request[s].target
      /\ q.wanted = request[s].wanted /\ q.seen = request[s].seen /\ q.number = n
  BY <1>1 DEF Request, Stages
<1>3. request' = [request EXCEPT ![s] = q]
  BY DEF Number
<1> HIDE DEF q
<1>4. request'[s] = q
  BY <1>3, InvParts DEF SessionsType
<1> QED
  BY <1>2, <1>3, <1>4 DEF Number, tables

(* What it holds when another statement begins.                            *)
LEMMA StillMayHold ==
  ASSUME LifecycleInv, NEW s \in Sessions, UNCHANGED <<tables, lock>>,
         request'[s].op = request[s].op, request'[s].target = request[s].target,
         \A r \in Rows : MayHold(s, r[1], r[2]) => MayHold(s, r[1], r[2])',
         RequestInv(s)'
  PROVE  OwnInv(s)'
BY InvParts DEF OwnInv, LocksInv

LEMMA KindOf ==
  ASSUME NEW s, RequestInv(s)
  PROVE  /\ request[s].op \in ModelOperations => ModelRequest(s)
         /\ request[s].op \in DatasetOperations => DatasetRequest(s)
         /\ request[s].op \in SeriesOperations => SeriesRequest(s)
         /\ request[s].op = "replace_bindings" => BindingsRequest(s)
         /\ request[s].op \in MetricOperations => MetricRequest(s)
         /\ request[s].op = "create_template" => TemplateRequest(s)
BY DEF RequestInv

LEMMA SeriesFacts ==
  ASSUME LifecycleInv
  PROVE  /\ TablesType
         /\ \A v, w \in DatasetVersions : datasets[v].model = datasets[w].model
         /\ \A v \in DatasetVersions : datasets[v].model \in ModelVersions
         /\ PolicyVersions # {} => 1 \in DatasetVersions
         /\ \A v \in MetricVersions : metrics[v].dataset \in DatasetVersions
BY InvParts DEF TablesInv, SeriesInv

LEMMA LockModelOfDatasetStep ==
  ASSUME LifecycleInv, NEW s \in Sessions, LockModelOfDataset(s)
  PROVE  LifecycleInv'
<1>1. /\ request[s].op \in DatasetOperations /\ request[s].stage = "dataset"
      /\ request[s].wanted = {} /\ DatasetRequest(s)
      /\ Proceed(s, "model", {ModelOf(s)})
  BY RequestOf, KindOf DEF LockModelOfDataset, Has, ModelToLock, ModelOf
<1>2. ModelOf(s) \in Nat /\ "model" \in Stages
  <2>1. ModelOf(s) \in ModelVersions
    BY <1>1, SeriesFacts DEF DatasetRequest, ModelOf
  <2>2. \A v \in ModelVersions : v \in Nat
    BY VersionsAreBounded
  <2> QED
    BY <2>1, <2>2 DEF Stages
<1>3. /\ UNCHANGED <<tables, lock>>
      /\ request'[s] \in Request /\ request' = [request EXCEPT ![s] = request'[s]]
      /\ request'[s].op = request[s].op /\ request'[s].stage = "model"
      /\ request'[s].target = request[s].target /\ request'[s].wanted = {ModelOf(s)}
  BY <1>1, <1>2, ProceedRecord
<1>4. ModelOf(s)' = ModelOf(s)
  BY <1>3, SameVersions DEF ModelOf
<1>5. RequestInv(s)'
  <2>1. DatasetRequest(s)'
    BY <1>1, <1>3, <1>4, SameVersions DEF DatasetRequest, Claims, Holds
  <2> QED
    BY <1>1, <1>3, <2>1, OneKind
<1>6. \A r \in Rows : MayHold(s, r[1], r[2]) => MayHold(s, r[1], r[2])'
  BY <1>1, <1>3, <1>4 DEF MayHold, DatasetOperations, ModelOperations, SeriesOperations
<1> QED
  BY <1>3, <1>5, <1>6, StillMayHold, Moved

LEMMA LockActiveSiblingsStep ==
  ASSUME LifecycleInv, NEW s \in Sessions, LockActiveSiblings(s)
  PROVE  LifecycleInv'
<1>1. /\ request[s].op = "activate_dataset" /\ request[s].op \in DatasetOperations
      /\ request[s].stage = "model" /\ request[s].wanted = {} /\ DatasetRequest(s)
      /\ semantic_models[ModelOf(s)] = "active"
      /\ Proceed(s, "siblings", ActiveSiblings(request[s].target))
  BY RequestOf, KindOf DEF LockActiveSiblings, Has, ModelOf, DatasetOperations
<1>2. PICK d \in DatasetVersions, siblings \in SUBSET DatasetVersions :
        d = request[s].target /\ siblings = ActiveSiblings(d) /\ siblings \subseteq DatasetVersions \ {d}
  BY <1>1 DEF DatasetRequest, ActiveSiblings
<1>3. siblings \in SUBSET Nat /\ "siblings" \in Stages
  BY VersionsAreBounded DEF Stages
<1>4. /\ UNCHANGED <<tables, lock>>
      /\ request'[s] \in Request /\ request' = [request EXCEPT ![s] = request'[s]]
      /\ request'[s].op = request[s].op /\ request'[s].stage = "siblings"
      /\ request'[s].target = d /\ request'[s].wanted = siblings
  BY <1>1, <1>2, <1>3, ProceedRecord
<1>5. RequestInv(s)'
  <2>1. ModelOf(s)' = ModelOf(s) /\ ActiveSiblings(d)' = siblings
    BY <1>2, <1>4, SameVersions DEF ModelOf, ActiveSiblings
  <2>2. /\ Holds(s, "dataset", d)' /\ Holds(s, "model", ModelOf(s))'
        /\ semantic_models'[ModelOf(s)] = "active" /\ DatasetVersions' = DatasetVersions
    BY <1>1, <1>2, <1>4, <2>1, SameVersions DEF DatasetRequest, Claims, Holds
  <2>3. \A v \in ActiveSiblings(d)' : Claims(s, "dataset", v)'
    BY <1>4, <2>1 DEF Claims
  <2>4. DatasetRequest(s)'
    BY <1>1, <1>2, <1>4, <2>1, <2>2, <2>3 DEF DatasetRequest
  <2> QED
    BY <1>1, <1>4, <2>4, OneKind
<1>6. \A r \in Rows : MayHold(s, r[1], r[2]) => MayHold(s, r[1], r[2])'
  BY <1>1, <1>2, <1>4, SameVersions
  DEF MayHold, DatasetOperations, ModelOperations, SeriesOperations, ModelOf
<1> QED
  BY <1>1, <1>2, <1>4, <1>5, <1>6, StillMayHold, Moved

LEMMA LockPolicySeriesStep ==
  ASSUME LifecycleInv, NEW s \in Sessions, LockPolicySeries(s)
  PROVE  LifecycleInv'
<1>1. /\ request[s].op \in SeriesOperations /\ request[s].stage = "dataset"
      /\ request[s].wanted = {} /\ SeriesRequest(s)
      /\ Proceed(s, "policies", PolicyVersions)
  BY RequestOf, KindOf DEF LockPolicySeries, Has, SeriesToLock
<1>2. PolicyVersions \in SUBSET Nat /\ "policies" \in Stages
  BY VersionsAreBounded DEF Stages
<1>3. /\ UNCHANGED <<tables, lock>>
      /\ request'[s] \in Request /\ request' = [request EXCEPT ![s] = request'[s]]
      /\ request'[s].op = request[s].op /\ request'[s].stage = "policies"
      /\ request'[s].target = request[s].target /\ request'[s].wanted = PolicyVersions
  <2>1. Proceed(s, "policies", PolicyVersions)
    BY <1>1
  <2> QED
    BY <1>2, <2>1, ProceedRecord
<1>4. RequestInv(s)'
  <2>1. SeriesRequest(s)'
    BY <1>1, <1>3, SameVersions DEF SeriesRequest, Claims, Holds
  <2> QED
    BY <1>1, <1>3, <2>1, OneKind
<1>5. \A r \in Rows : MayHold(s, r[1], r[2]) => MayHold(s, r[1], r[2])'
  BY <1>1, <1>3 DEF MayHold, DatasetOperations, ModelOperations, SeriesOperations
<1> QED
  BY <1>3, <1>4, <1>5, StillMayHold, Moved

LEMMA FindHostStep ==
  ASSUME LifecycleInv, NEW s \in Sessions, FindHost(s)
  PROVE  LifecycleInv'
<1>1. /\ request[s].op \in MetricOperations /\ request[s].stage = "metric"
      /\ request[s].wanted = {} /\ MetricRequest(s)
      /\ Proceed(s, "host", {})
  BY RequestOf, KindOf DEF FindHost, Has
<1>2. "host" \in Stages /\ {} \in SUBSET Nat
  BY DEF Stages
<1>3. /\ UNCHANGED <<tables, lock>>
      /\ request'[s] \in Request /\ request' = [request EXCEPT ![s] = request'[s]]
      /\ request'[s].op = request[s].op /\ request'[s].stage = "host"
      /\ request'[s].target = request[s].target /\ request'[s].wanted = {}
      /\ request'[s].seen = request[s].seen
  BY <1>1, <1>2, ProceedRecord
<1>4. RequestInv(s)'
  <2>1. MetricRequest(s)'
    BY <1>1, <1>3, SameVersions DEF MetricRequest
  <2> QED
    BY <1>1, <1>3, <2>1, OneKind
<1>5. \A r \in Rows : MayHold(s, r[1], r[2]) => MayHold(s, r[1], r[2])'
  BY <1>1, <1>3 DEF MayHold, DatasetOperations, ModelOperations, SeriesOperations, MetricOperations
<1> QED
  BY <1>3, <1>4, <1>5, StillMayHold, Moved

LEMMA ArchiveTemplatesStep ==
  ASSUME LifecycleInv, NEW s \in Sessions, ArchiveTemplates(s)
  PROVE  LifecycleInv'
<1> DEFINE active == {v \in Templates : import_templates[v] = "active"}
<1>1. /\ request[s].op = "create_template" /\ request[s].stage = "archive"
      /\ request[s].wanted = {} /\ TemplateRequest(s)
      /\ Proceed(s, "templates", active)
  BY RequestOf, KindOf DEF ArchiveTemplates, Has
<1>2. "templates" \in Stages /\ active \in SUBSET Nat
  BY DEF Stages, Templates
<1>3. active \subseteq TemplateVersions
  BY DEF TemplateVersions
<1>4. /\ UNCHANGED <<tables, lock>>
      /\ request'[s] \in Request /\ request' = [request EXCEPT ![s] = request'[s]]
      /\ request'[s].op = request[s].op /\ request'[s].stage = "templates"
      /\ request'[s].wanted = active /\ request'[s].number = request[s].number
      /\ request'[s].target = request[s].target
  BY <1>1, <1>2, ProceedRecord
<1>5. RequestInv(s)'
  <2>1. \A v \in Templates : import_templates'[v] = "active" => Claims(s, "template", v)'
    BY <1>4, SameVersions DEF Claims
  <2>2. TemplateRequest(s)'
    BY <1>1, <1>3, <1>4, <2>1, SameVersions DEF TemplateRequest
  <2> QED
    BY <1>1, <1>4, <2>2, OneKind
<1>6. \A r \in Rows : MayHold(s, r[1], r[2]) => MayHold(s, r[1], r[2])'
  BY <1>1, <1>4 DEF MayHold, DatasetOperations, ModelOperations, SeriesOperations
<1> QED
  BY <1>4, <1>5, <1>6, StillMayHold, Moved

(* A version is numbered.                                                  *)
LEMMA NextNumbers ==
  /\ Latest(ModelVersions) + 1 \in Nat
  /\ Latest(DatasetVersions) + 1 \in Nat /\ Latest(DatasetVersions) + 1 \notin DatasetVersions
  /\ Latest(PolicyVersions) + 1 \in Nat /\ Latest(PolicyVersions) + 1 \notin PolicyVersions
  /\ Latest(MetricVersions) + 1 \in Nat
<1>1. ASSUME NEW n \in Nat, NEW V \in SUBSET (1 .. n)
      PROVE  Latest(V) + 1 \in Nat /\ Latest(V) + 1 \notin V
  BY LatestIsGreatest
<1> QED
  BY <1>1, VersionsAreBounded, LifecycleAssumption

LEMMA NumberModelStep ==
  ASSUME LifecycleInv, NEW s \in Sessions, NumberModel(s)
  PROVE  LifecycleInv'
<1>1. /\ request[s].op = "create_model_version" /\ request[s].op \in ModelOperations
      /\ request[s].wanted = {} /\ ModelRequest(s)
      /\ Number(s, Latest(ModelVersions) + 1)
  BY RequestOf, KindOf DEF NumberModel, Has, ModelOperations
<1>2. /\ UNCHANGED <<tables, lock>>
      /\ request'[s] \in Request /\ request' = [request EXCEPT ![s] = request'[s]]
      /\ request'[s].op = request[s].op /\ request'[s].stage = "insert"
      /\ request'[s].target = request[s].target /\ request'[s].wanted = request[s].wanted
  BY <1>1, NextNumbers, NumberRecord
<1>3. RequestInv(s)'
  <2>1. ModelRequest(s)'
    BY <1>1, <1>2, SameVersions DEF ModelRequest
  <2> QED
    BY <1>1, <1>2, <2>1, OneKind
<1>4. \A r \in Rows : MayHold(s, r[1], r[2]) => MayHold(s, r[1], r[2])'
  BY <1>1, <1>2 DEF MayHold, DatasetOperations, ModelOperations, SeriesOperations
<1> QED
  BY <1>2, <1>3, <1>4, StillMayHold, Moved

LEMMA NumberDatasetStep ==
  ASSUME LifecycleInv, NEW s \in Sessions, NumberDataset(s)
  PROVE  LifecycleInv'
<1>1. /\ request[s].op = "create_dataset_version" /\ request[s].op \in DatasetOperations
      /\ request[s].stage = "model" /\ request[s].wanted = {} /\ DatasetRequest(s)
      /\ Number(s, Latest(DatasetVersions) + 1)
  BY RequestOf, KindOf DEF NumberDataset, Has, DatasetOperations
<1>2. /\ UNCHANGED <<tables, lock>>
      /\ request'[s] \in Request /\ request' = [request EXCEPT ![s] = request'[s]]
      /\ request'[s].op = request[s].op /\ request'[s].stage = "insert"
      /\ request'[s].target = request[s].target /\ request'[s].wanted = request[s].wanted
      /\ request'[s].number = Latest(DatasetVersions) + 1
  BY <1>1, NextNumbers, NumberRecord
<1>3. ModelOf(s)' = ModelOf(s)
  BY <1>2, SameVersions DEF ModelOf
<1>4. RequestInv(s)'
  <2>1. DatasetRequest(s)'
    BY <1>1, <1>2, <1>3, NextNumbers, SameVersions DEF DatasetRequest, Claims, Holds
  <2> QED
    BY <1>1, <1>2, <2>1, OneKind
<1>5. \A r \in Rows : MayHold(s, r[1], r[2]) => MayHold(s, r[1], r[2])'
  BY <1>1, <1>2, <1>3 DEF MayHold, DatasetOperations, ModelOperations, SeriesOperations
<1> QED
  BY <1>2, <1>4, <1>5, StillMayHold, Moved

(* It has locked every version of the policy.                              *)
LEMMA HoldsEveryPolicy ==
  ASSUME LifecycleInv, NEW s \in Sessions, Has(s, SeriesOperations, "policies")
  PROVE  /\ \A v \in PolicyVersions : Holds(s, "policy", v)
         /\ PolicyVersions \subseteq {v \in Policies : Holds(s, "policy", v)}
BY RequestOf, KindOf, VersionsAreBounded DEF Has, SeriesRequest, Claims, Policies

(* What a session may hold of each table.                                  *)
LEMMA HeldRows ==
  ASSUME LifecycleInv, NEW s \in Sessions
  PROVE  /\ \A v \in Models : Holds(s, "model", v) => MayHold(s, "model", v)
         /\ \A v \in Datasets : Holds(s, "dataset", v) => MayHold(s, "dataset", v)
         /\ \A v \in Policies : Holds(s, "policy", v) => MayHold(s, "policy", v)
         /\ \A v \in Metrics : Holds(s, "metric", v) => MayHold(s, "metric", v)
         /\ \A v \in Templates : Holds(s, "template", v) => MayHold(s, "template", v)
<1>1. \A table, v : <<table, v>> \in Rows /\ lock[<<table, v>>] = s => MayHold(s, table, v)
  <2>1. SUFFICES ASSUME NEW table, NEW v, <<table, v>> \in Rows, lock[<<table, v>>] = s
                 PROVE  MayHold(s, table, v)
    OBVIOUS
  <2>2. PICK r \in Rows : r = <<table, v>>
    BY <2>1
  <2>3. MayHold(s, r[1], r[2])
    BY <2>1, <2>2 DEF LifecycleInv, LocksInv
  <2> QED
    BY <2>2, <2>3
<1> QED
  BY <1>1, RowsAreThere DEF Holds

LEMMA NumberPolicyStep ==
  ASSUME LifecycleInv, NEW s \in Sessions, NumberPolicy(s)
  PROVE  LifecycleInv'
<1> DEFINE held == {v \in Policies : Holds(s, "policy", v)}
<1>1. /\ request[s].op = "create_policy_version" /\ request[s].op \in SeriesOperations
      /\ request[s].stage = "policies" /\ request[s].wanted = {} /\ SeriesRequest(s)
      /\ Has(s, SeriesOperations, "policies")
      /\ Number(s, Latest(held) + 1)
  BY RequestOf, KindOf DEF NumberPolicy, LatestLockedPolicy, Has, SeriesOperations
<1>2. PICK n \in Nat : n = Latest(held) + 1 /\ n \notin held
  <2>1. held \in SUBSET (1 .. MaxPolicies)
    BY DEF Policies
  <2> HIDE DEF held
  <2> QED
    BY <2>1, LatestIsGreatest, LifecycleAssumption
<1>3. n \notin PolicyVersions
  BY <1>1, <1>2, HoldsEveryPolicy
<1>4. /\ UNCHANGED <<tables, lock>>
      /\ request'[s] \in Request /\ request' = [request EXCEPT ![s] = request'[s]]
      /\ request'[s].op = request[s].op /\ request'[s].stage = "insert"
      /\ request'[s].target = request[s].target /\ request'[s].wanted = request[s].wanted
      /\ request'[s].number = n
  BY <1>1, <1>2, NumberRecord
<1>5. RequestInv(s)'
  <2>1. SeriesRequest(s)'
    BY <1>1, <1>3, <1>4, SameVersions DEF SeriesRequest, Claims, Holds
  <2> QED
    BY <1>1, <1>4, <2>1, OneKind
<1>6. \A r \in Rows : MayHold(s, r[1], r[2]) => MayHold(s, r[1], r[2])'
  BY <1>1, <1>4 DEF MayHold, DatasetOperations, ModelOperations, SeriesOperations
<1> QED
  BY <1>4, <1>5, <1>6, StillMayHold, Moved

LEMMA NumberMetricStep ==
  ASSUME LifecycleInv, NEW s \in Sessions, NumberMetric(s)
  PROVE  LifecycleInv'
<1>1. /\ request[s].op \in MetricOperations /\ request[s].stage = "host"
      /\ request[s].wanted = {} /\ MetricRequest(s)
      /\ Number(s, IF request[s].op = "create_metric" THEN 1 ELSE Latest(MetricVersions) + 1)
  BY RequestOf, KindOf DEF NumberMetric, Has
<1>2. PICK n \in Nat : n = IF request[s].op = "create_metric" THEN 1 ELSE Latest(MetricVersions) + 1
  BY NextNumbers
<1>3. /\ UNCHANGED <<tables, lock>>
      /\ request'[s] \in Request /\ request' = [request EXCEPT ![s] = request'[s]]
      /\ request'[s].op = request[s].op /\ request'[s].stage = "insert"
      /\ request'[s].target = request[s].target /\ request'[s].wanted = request[s].wanted
      /\ request'[s].seen = request[s].seen
  BY <1>1, <1>2, NumberRecord
<1>4. RequestInv(s)'
  <2>1. MetricRequest(s)'
    BY <1>1, <1>3, SameVersions DEF MetricRequest
  <2> QED
    BY <1>1, <1>3, <2>1, OneKind
<1>5. \A r \in Rows : MayHold(s, r[1], r[2]) => MayHold(s, r[1], r[2])'
  BY <1>1, <1>3 DEF MayHold, DatasetOperations, ModelOperations, SeriesOperations, MetricOperations
<1> QED
  BY <1>3, <1>4, <1>5, StillMayHold, Moved

-----------------------------------------------------------------------------
(* A row is locked.                                                        *)

LEMMA LockedTables ==
  /\ LockedTable["models"] = "model" /\ LockedTable["model"] = "model"
  /\ LockedTable["dataset"] = "dataset" /\ LockedTable["siblings"] = "dataset"
  /\ LockedTable["policies"] = "policy" /\ LockedTable["policy"] = "policy"
  /\ LockedTable["metric"] = "metric" /\ LockedTable["templates"] = "template"
BY DEF LockedTable

(* Which row a session locks next, and in which statement.                 *)
WantsFrom(s, table) ==
  /\ LockedTable[request[s].stage] = table
  /\ \/ request[s].op \in ModelOperations /\ request[s].stage = "models" /\ table = "model"
     \/ request[s].op \in DatasetOperations /\ request[s].stage \in {"dataset", "siblings"}
          /\ table = "dataset"
     \/ request[s].op \in DatasetOperations /\ request[s].stage = "model" /\ table = "model"
     \/ request[s].op \in SeriesOperations /\ request[s].stage = "dataset" /\ table = "dataset"
     \/ request[s].op \in SeriesOperations /\ request[s].stage = "policies" /\ table = "policy"
     \/ request[s].op = "replace_bindings" /\ table = "policy"
     \/ request[s].op = "create_metric_version" /\ request[s].stage = "metric" /\ table = "metric"
     \/ request[s].op = "create_template" /\ request[s].stage = "templates" /\ table = "template"

LEMMA WantedRows ==
  ASSUME LifecycleInv, NEW s \in Sessions, request[s].wanted # {}
  PROVE  /\ NextToLock(s) \in request[s].wanted
         /\ \A w \in request[s].wanted : NextToLock(s) <= w
         /\ \E table \in {"model", "dataset", "policy", "metric", "template"} :
              WantsFrom(s, table) /\ <<table, NextToLock(s)>> \in Rows
<1>1. request[s] \in Request /\ RequestInv(s)
  BY RequestOf
<1>2. PICK n \in Nat : /\ n = NextToLock(s) /\ n \in request[s].wanted
                       /\ \A w \in request[s].wanted : n <= w
  BY <1>1, NextIsLeast, RequestFields
<1>3. request[s].op \in AllOperations
  BY <1>1, RequestFields DEF RequestInv, NoRequest
<1>4. SUFFICES \E table \in {"model", "dataset", "policy", "metric", "template"} :
                 WantsFrom(s, table) /\ <<table, n>> \in Rows
  BY <1>2
<1>5. CASE request[s].op \in ModelOperations
  <2>1. request[s].stage = "models" /\ n \in ModelVersions
    BY <1>1, <1>2, <1>5, KindOf DEF ModelRequest
  <2> QED
    BY <1>5, <2>1, LockedTables, RowsAreThere DEF WantsFrom, ModelVersions
<1>6. CASE request[s].op \in DatasetOperations
  <2>1. DatasetRequest(s)
    BY <1>1, <1>6, KindOf
  <2>2. CASE request[s].stage = "model"
    <3>1. n \in Models
      BY <1>2, <2>1, <2>2, SeriesFacts DEF DatasetRequest, ModelOf, ModelVersions
    <3> QED
      BY <1>6, <2>2, <3>1, LockedTables, RowsAreThere DEF WantsFrom
  <2>3. CASE request[s].stage # "model"
    <3>1. n \in Datasets /\ request[s].stage \in {"dataset", "siblings"}
      BY <1>2, <2>1, <2>3 DEF DatasetRequest, DatasetVersions
    <3> QED
      BY <1>6, <3>1, LockedTables, RowsAreThere DEF WantsFrom
  <2> QED
    BY <2>2, <2>3
<1>7. CASE request[s].op \in SeriesOperations
  <2>1. SeriesRequest(s) /\ 1 \in Datasets
    BY <1>1, <1>7, KindOf, SeriesFacts DEF SeriesRequest, DatasetVersions
  <2>2. CASE request[s].stage = "dataset"
    <3>1. n = 1
      BY <1>2, <2>1, <2>2 DEF SeriesRequest
    <3> QED
      BY <1>7, <2>1, <2>2, <3>1, LockedTables, RowsAreThere DEF WantsFrom
  <2>3. CASE request[s].stage # "dataset"
    <3>1. n \in Policies /\ request[s].stage = "policies"
      BY <1>2, <2>1, <2>3 DEF SeriesRequest, PolicyVersions
    <3> QED
      BY <1>7, <3>1, LockedTables, RowsAreThere DEF WantsFrom
  <2> QED
    BY <2>2, <2>3
<1>8. CASE request[s].op = "replace_bindings"
  <2>1. request[s].stage = "policy" /\ n \in Policies
    BY <1>1, <1>2, <1>8, KindOf DEF BindingsRequest, PolicyVersions
  <2> QED
    BY <1>8, <2>1, LockedTables, RowsAreThere DEF WantsFrom
<1>9. CASE request[s].op \in MetricOperations
  <2>1. request[s].op = "create_metric_version" /\ request[s].stage = "metric" /\ n \in Metrics
    BY <1>1, <1>2, <1>9, KindOf DEF MetricRequest, MetricVersions, MetricOperations
  <2> QED
    BY <2>1, LockedTables, RowsAreThere DEF WantsFrom
<1>10. CASE request[s].op = "create_template"
  <2>1. request[s].stage = "templates" /\ n \in Templates
    BY <1>1, <1>2, <1>10, KindOf DEF TemplateRequest, TemplateVersions
  <2> QED
    BY <1>10, <2>1, LockedTables, RowsAreThere DEF WantsFrom
<1> QED
  BY <1>1, <1>3, <1>5, <1>6, <1>7, <1>8, <1>9, <1>10 DEF AllOperations, RequestInv

LEMMA LockRowRecord ==
  ASSUME LifecycleInv, NEW s \in Sessions, NEW table, NEW n, LockRow(s),
         WantsFrom(s, table), n = NextToLock(s), <<table, n>> \in Rows
  PROVE  /\ UNCHANGED tables /\ SessionsType' /\ LeavesSessions(s)
         /\ request'[s].op = request[s].op /\ request'[s].stage = request[s].stage
         /\ request'[s].target = request[s].target
         /\ request'[s].wanted = request[s].wanted \ {n}
         /\ request'[s].seen = request[s].seen /\ request'[s].number = request[s].number
         /\ \A r \in Rows : lock'[r] = s <=> lock[r] = s \/ r = <<table, n>>
<1> DEFINE q == [request[s] EXCEPT !.wanted = @ \ {n}]
           row == <<table, n>>
<1>1. request[s] \in Request
  BY RequestOf
<1>2. /\ q \in Request
      /\ q.op = request[s].op /\ q.stage = request[s].stage /\ q.target = request[s].target
      /\ q.wanted = request[s].wanted \ {n} /\ q.seen = request[s].seen
      /\ q.number = request[s].number
  BY <1>1 DEF Request
<1>3. WantedRow(s) = row
  BY DEF WantedRow, WantsFrom
<1>4. /\ request' = [request EXCEPT ![s] = q] /\ UNCHANGED tables
      /\ lock[row] = NoSession /\ lock' = [lock EXCEPT ![row] = s]
  BY <1>3 DEF LockRow, tables
<1> HIDE DEF q, row
<1>5. request \in [Sessions -> Request] /\ lock \in [Rows -> Sessions \cup {NoSession}]
      /\ row \in Rows
  BY InvParts DEF SessionsType, row
<1>6. request'[s] = q /\ request' \in [Sessions -> Request]
      /\ \A x \in Sessions \ {s} : request'[x] = request[x]
  BY <1>2, <1>4, <1>5
<1>7. /\ lock' \in [Rows -> Sessions \cup {NoSession}]
      /\ \A r \in Rows : lock'[r] = IF r = row THEN s ELSE lock[r]
  BY <1>4, <1>5
<1>8. SessionsType' /\ LeavesSessions(s)
  BY <1>4, <1>5, <1>6, <1>7, LifecycleAssumption DEF SessionsType, LeavesSessions
<1> QED
  BY <1>2, <1>4, <1>6, <1>7, <1>8 DEF row

LEMMA LockRowStep ==
  ASSUME LifecycleInv, NEW s \in Sessions, LockRow(s)
  PROVE  LifecycleInv'
<1>1. request[s].wanted # {}
  BY DEF LockRow
<1>2. PICK table \in {"model", "dataset", "policy", "metric", "template"}, n \in request[s].wanted :
        /\ n = NextToLock(s) /\ n \in request[s].wanted
        /\ \A w \in request[s].wanted : n <= w
        /\ WantsFrom(s, table) /\ <<table, n>> \in Rows
  BY <1>1, WantedRows
<1>3. /\ UNCHANGED tables /\ SessionsType' /\ LeavesSessions(s)
      /\ request'[s].op = request[s].op /\ request'[s].stage = request[s].stage
      /\ request'[s].target = request[s].target
      /\ request'[s].wanted = request[s].wanted \ {n}
      /\ request'[s].seen = request[s].seen /\ request'[s].number = request[s].number
      /\ \A r \in Rows : lock'[r] = s <=> lock[r] = s \/ r = <<table, n>>
  BY <1>2, LockRowRecord
<1>4. request[s] \in Request /\ RequestInv(s)
  BY RequestOf
<1>5. ModelOf(s)' = ModelOf(s)
  BY <1>3, SameVersions DEF ModelOf
<1>6. \A kind, v : <<kind, v>> \in Rows =>
        (Holds(s, kind, v)' <=> Holds(s, kind, v) \/ (kind = table /\ v = n))
  BY <1>3 DEF Holds
<1>7. /\ \A kind, v : <<kind, v>> \in Rows /\ Holds(s, kind, v) => Holds(s, kind, v)'
      /\ \A v : <<table, v>> \in Rows /\ Claims(s, table, v) => Claims(s, table, v)'
  BY <1>3, <1>6 DEF Claims
<1>8. RequestInv(s)'
  <2> USE VersionsAreBounded DEF Models, Datasets, Policies, Metrics, Templates
  <2>1. CASE request[s].op \in ModelOperations
    <3>1. ModelRequest(s)'
      BY <1>3, <1>4, <2>1, KindOf, SameVersions DEF ModelRequest
    <3> QED
      BY <1>3, <2>1, <3>1, OneKind
  <2>2. CASE request[s].op \in DatasetOperations
    <3>1. DatasetRequest(s)
      BY <1>4, <2>2, KindOf
    <3>2. PICK d \in Datasets, m \in Models :
            d = request[s].target /\ m = ModelOf(s) /\ <<"dataset", d>> \in Rows /\ <<"model", m>> \in Rows
      <4>1. request[s].target \in DatasetVersions /\ ModelOf(s) \in ModelVersions
        BY <3>1, SeriesFacts DEF DatasetRequest, ModelOf
      <4>2. request[s].target \in Datasets /\ ModelOf(s) \in Models
        BY <4>1 DEF DatasetVersions, ModelVersions
      <4> QED
        BY <4>2, RowsAreThere
    <3>3. DatasetRequest(s)'
      <4>1. CASE request[s].stage = "dataset"
        <5>1. table = "dataset"
          BY <1>2, <2>2, <4>1 DEF WantsFrom, DatasetOperations, ModelOperations, SeriesOperations
        <5> QED
          BY <1>3, <1>7, <3>1, <3>2, <4>1, <5>1, SameVersions DEF DatasetRequest
      <4>2. CASE request[s].stage = "model"
        <5>1. table = "model"
          BY <1>2, <2>2, <4>2 DEF WantsFrom, DatasetOperations, ModelOperations, SeriesOperations
        <5> QED
          BY <1>3, <1>5, <1>7, <3>1, <3>2, <4>2, <5>1, SameVersions DEF DatasetRequest
      <4>3. CASE request[s].stage = "siblings"
        <5>1. table = "dataset"
          BY <1>2, <2>2, <4>3 DEF WantsFrom, DatasetOperations, ModelOperations, SeriesOperations
        <5>2. ActiveSiblings(d)' = ActiveSiblings(d) /\ ActiveSiblings(d) \subseteq Datasets
          BY <1>3, SameVersions DEF ActiveSiblings
        <5>3. \A v \in ActiveSiblings(d)' : Claims(s, "dataset", v)'
          BY <1>7, <3>1, <3>2, <4>3, <5>1, <5>2, RowsAreThere DEF DatasetRequest
        <5>4. Holds(s, "dataset", d)' /\ Holds(s, "model", m)'
          BY <1>7, <3>1, <3>2, <4>3 DEF DatasetRequest
        <5> QED
          BY <1>3, <1>5, <3>1, <3>2, <4>3, <5>3, <5>4, SameVersions DEF DatasetRequest
      <4>4. request[s].stage # "insert"
        BY <1>1, <3>1 DEF DatasetRequest
      <4> QED
        BY <3>1, <4>1, <4>2, <4>3, <4>4 DEF DatasetRequest
    <3> QED
      BY <1>3, <2>2, <3>3, OneKind
  <2>3. CASE request[s].op \in SeriesOperations
    <3>1. SeriesRequest(s) /\ <<"dataset", 1>> \in Rows
      BY <1>4, <2>3, KindOf, SeriesFacts, RowsAreThere DEF SeriesRequest
    <3>2. SeriesRequest(s)'
      <4>1. CASE request[s].stage = "dataset"
        <5>1. table = "dataset"
          BY <1>2, <2>3, <4>1 DEF WantsFrom, DatasetOperations, ModelOperations, SeriesOperations
        <5> QED
          BY <1>3, <1>7, <3>1, <4>1, <5>1, SameVersions DEF SeriesRequest
      <4>2. CASE request[s].stage = "policies"
        <5>1. table = "policy"
          BY <1>2, <2>3, <4>2 DEF WantsFrom, DatasetOperations, ModelOperations, SeriesOperations
        <5>2. \A v \in PolicyVersions : Claims(s, "policy", v)'
          BY <1>7, <3>1, <4>2, <5>1, RowsAreThere DEF SeriesRequest
        <5> QED
          BY <1>3, <1>7, <3>1, <4>2, <5>2, SameVersions DEF SeriesRequest
      <4>3. request[s].stage # "insert"
        BY <1>1, <3>1 DEF SeriesRequest
      <4> QED
        BY <3>1, <4>1, <4>2, <4>3 DEF SeriesRequest
    <3> QED
      BY <1>3, <2>3, <3>2, OneKind
  <2>4. CASE request[s].op = "replace_bindings"
    <3>1. BindingsRequest(s)'
      BY <1>3, <1>4, <2>4, KindOf, SameVersions DEF BindingsRequest
    <3> QED
      BY <1>3, <2>4, <3>1, OneKind
  <2>5. CASE request[s].op \in MetricOperations
    <3>1. MetricRequest(s)'
      BY <1>3, <1>4, <2>5, KindOf, SameVersions DEF MetricRequest
    <3> QED
      BY <1>3, <2>5, <3>1, OneKind
  <2>6. CASE request[s].op = "create_template"
    <3>1. TemplateRequest(s) /\ table = "template"
      BY <1>2, <1>4, <2>6, KindOf
      DEF WantsFrom, DatasetOperations, ModelOperations, SeriesOperations
    <3>2. \A v \in Templates : Claims(s, "template", v) => Claims(s, "template", v)'
      BY <1>7, <3>1, RowsAreThere
    <3>3. TemplateRequest(s)'
      BY <1>3, <3>1, <3>2, SameVersions DEF TemplateRequest
    <3> QED
      BY <1>3, <2>6, <3>3, OneKind
  <2> QED
    BY <1>2, <2>1, <2>2, <2>3, <2>4, <2>5, <2>6 DEF WantsFrom, MetricOperations
<1>9. \A r \in Rows : lock'[r] = s => MayHold(s, r[1], r[2])'
  <2>1. ASSUME NEW r \in Rows, lock[r] = s PROVE MayHold(s, r[1], r[2])'
    <3>1. MayHold(s, r[1], r[2])
      BY <2>1 DEF LifecycleInv, LocksInv
    <3>2. TemplateVersions' = TemplateVersions
      BY <1>3, SameVersions
    <3> QED
      BY <1>3, <1>5, <3>1, <3>2 DEF MayHold
  <2>2. MayHold(s, table, n)'
    <3>1. \A w \in request'[s].wanted : n < w
      <4>1. request[s].wanted \in SUBSET Nat
        BY <1>4, RequestFields
      <4> QED
        BY <1>2, <1>3, <4>1
    <3>2. CASE request[s].op \in ModelOperations
      BY <1>2, <1>3, <3>1, <3>2
      DEF MayHold, WantsFrom, DatasetOperations, ModelOperations, SeriesOperations
    <3>3. CASE request[s].op \in DatasetOperations
      <4>1. DatasetRequest(s)
        BY <1>4, <3>3, KindOf
      <4>2. CASE request[s].stage = "model"
        <5>1. table = "model" /\ n = ModelOf(s) /\ request'[s].wanted = {}
          BY <1>2, <1>3, <3>3, <4>1, <4>2
          DEF WantsFrom, DatasetOperations, ModelOperations, SeriesOperations, DatasetRequest
        <5> QED
          BY <1>3, <1>5, <3>3, <4>2, <5>1 DEF MayHold
      <4>3. CASE request[s].stage # "model"
        <5>1. table = "dataset"
          BY <1>2, <3>3, <4>3
          DEF WantsFrom, DatasetOperations, ModelOperations, SeriesOperations
        <5>2. request[s].stage = "dataset" => request'[s].wanted = {}
          BY <1>2, <1>3, <4>1 DEF DatasetRequest
        <5> QED
          BY <1>3, <3>3, <5>1, <5>2 DEF MayHold
      <4> QED
        BY <4>2, <4>3
    <3>4. CASE request[s].op \in SeriesOperations
      <4>1. SeriesRequest(s)
        BY <1>4, <3>4, KindOf
      <4>2. CASE request[s].stage = "dataset"
        <5>1. table = "dataset" /\ n = 1 /\ request'[s].wanted = {}
          BY <1>2, <1>3, <3>4, <4>1, <4>2
          DEF WantsFrom, DatasetOperations, ModelOperations, SeriesOperations, SeriesRequest
        <5> QED
          BY <1>3, <3>4, <5>1 DEF MayHold
      <4>3. CASE request[s].stage # "dataset"
        <5>1. table = "policy"
          BY <1>2, <3>4, <4>3
          DEF WantsFrom, DatasetOperations, ModelOperations, SeriesOperations
        <5> QED
          BY <1>3, <3>1, <3>4, <4>3, <5>1 DEF MayHold
      <4> QED
        BY <4>2, <4>3
    <3>5. CASE request[s].op = "replace_bindings"
      <4>1. table = "policy" /\ request'[s].wanted = {}
        BY <1>2, <1>3, <1>4, <3>5, KindOf
        DEF WantsFrom, DatasetOperations, ModelOperations, SeriesOperations, BindingsRequest
      <4> QED
        BY <1>3, <3>5, <4>1 DEF MayHold
    <3>6. CASE request[s].op = "create_metric_version"
      <4>1. table = "metric" /\ request'[s].wanted = {}
        BY <1>2, <1>3, <1>4, <3>6, KindOf
        DEF WantsFrom, DatasetOperations, ModelOperations, SeriesOperations, MetricOperations,
            MetricRequest
      <4> QED
        BY <1>3, <3>6, <4>1 DEF MayHold
    <3>7. CASE request[s].op = "create_template"
      <4>1. request[s].stage = "templates" /\ table = "template"
        BY <1>2, <3>7 DEF WantsFrom, DatasetOperations, ModelOperations, SeriesOperations
      <4>2. n \in TemplateVersions
        BY <1>2, <1>4, <3>7, KindOf DEF TemplateRequest
      <4>3. TemplateVersions' = TemplateVersions
        BY <1>3, SameVersions
      <4> QED
        BY <1>3, <3>1, <3>7, <4>1, <4>2, <4>3 DEF MayHold
    <3> QED
      BY <1>2, <3>2, <3>3, <3>4, <3>5, <3>6, <3>7 DEF WantsFrom
  <2>3. ASSUME NEW r \in Rows, r = <<table, n>> PROVE MayHold(s, r[1], r[2])'
    BY <2>2, <2>3
  <2> QED
    BY <1>3, <2>1, <2>3
<1>10. TablesInv' /\ LeavesOthers(s)
  BY <1>3, SameTables, InvParts
<1>11. LocksInv' /\ \A x \in Sessions : RequestInv(x)'
  BY <1>3, <1>8, <1>9, <1>10, StepKeepsRequests DEF OwnInv
<1> QED
  BY <1>3, <1>10, <1>11, InvPartsNext

-----------------------------------------------------------------------------
(* The steps that write a table.                                           *)

LEMMA Written ==
  ASSUME LifecycleInv, NEW s \in Sessions, Finish(s), TablesInv', LeavesOthers(s)
  PROVE  LifecycleInv'
<1>1. SessionsType' /\ LeavesSessions(s) /\ OwnInv(s)'
  BY Finishes
<1>2. LocksInv' /\ \A x \in Sessions : RequestInv(x)'
  BY <1>1, StepKeepsRequests
<1> QED
  BY <1>1, <1>2, InvPartsNext

(* A request that waits for no lock is one step.                           *)
LEMMA WrittenAtOnce ==
  ASSUME LifecycleInv, NEW s \in Sessions, request[s] = NoRequest,
         UNCHANGED <<lock, request>>, TablesInv', LeavesOthers(s)
  PROVE  LifecycleInv'
<1>1. SessionsType'
  BY InvParts DEF SessionsType
<1>2. LeavesSessions(s)
  BY DEF LeavesSessions
<1>3. OwnInv(s)'
  <2>1. \A r \in Rows : lock'[r] # s
    BY IdleHoldsNothing
  <2>2. RequestInv(s)'
    BY DEF RequestInv, NoRequest, ModelOperations, DatasetOperations, SeriesOperations,
           MetricOperations
  <2> QED
    BY <2>1, <2>2 DEF OwnInv
<1>4. LocksInv' /\ \A x \in Sessions : RequestInv(x)'
  BY <1>2, <1>3, StepKeepsRequests
<1> QED
  BY <1>1, <1>4, InvPartsNext

LEMMA RollBackStep ==
  ASSUME LifecycleInv, NEW s \in Sessions, RollBack(s)
  PROVE  LifecycleInv'
<1>1. UNCHANGED tables /\ Finish(s)
  BY DEF RollBack, tables
<1> QED
  BY <1>1, SameTables, InvParts, Written

LEMMA ModelsWritten ==
  ASSUME LifecycleInv, NEW s \in Sessions, UNCHANGED <<datasets, row_policies, saved>>,
         semantic_models' \in [Models -> ModelStatuses],
         ModelVersions \subseteq ModelVersions',
         \A x \in Sessions \ {s}, m \in Models :
           Holds(x, "model", m) /\ semantic_models[m] = "active" => semantic_models'[m] = "active"
  PROVE  TablesInv' /\ LeavesOthers(s)
<1>1. /\ datasets' = datasets /\ row_policies' = row_policies /\ metrics' = metrics
      /\ import_templates' = import_templates
  BY DEF saved
<1>2. /\ DatasetVersions' = DatasetVersions /\ PolicyVersions' = PolicyVersions
      /\ MetricVersions' = MetricVersions /\ TemplateVersions' = TemplateVersions
  BY <1>1 DEF DatasetVersions, PolicyVersions, MetricVersions, TemplateVersions
<1>3. TablesInv
  BY InvParts
<1>4. SeriesInv'
  BY <1>1, <1>2, <1>3 DEF TablesInv, SeriesInv
<1>5. TablesInv'
  BY <1>1, <1>3, <1>4 DEF TablesInv, TablesType, OneVersionIsActive, ActivePolicyIsBound
<1>6. LeavesOthers(s)
  BY <1>1, <1>2 DEF LeavesOthers, KeepsVersions, RespectsLocks, RespectsModel, AddsNextTemplate
<1> QED
  BY <1>5, <1>6

LEMMA DatasetsWritten ==
  ASSUME LifecycleInv, NEW s \in Sessions, UNCHANGED <<semantic_models, row_policies, saved>>,
         datasets' \in [Datasets -> DatasetRow],
         DatasetVersions \subseteq DatasetVersions',
         \A v \in DatasetVersions : datasets'[v].model = datasets[v].model,
         NEW m \in ModelVersions, \A v \in DatasetVersions' : datasets'[v].model = m,
         \A v, w \in Datasets :
           datasets'[v].status = "active" /\ datasets'[w].status = "active" => v = w,
         \/ DatasetVersions = {}
         \/ /\ DatasetVersions' = DatasetVersions
            /\ \A v \in Datasets : datasets'[v].status = "active" => datasets[v].status = "active"
         \/ Holds(s, "model", m)
  PROVE  TablesInv' /\ LeavesOthers(s)
<1>1. /\ semantic_models' = semantic_models /\ row_policies' = row_policies /\ metrics' = metrics
      /\ import_templates' = import_templates
  BY DEF saved
<1>2. /\ ModelVersions' = ModelVersions /\ PolicyVersions' = PolicyVersions
      /\ MetricVersions' = MetricVersions /\ TemplateVersions' = TemplateVersions
  BY <1>1 DEF ModelVersions, PolicyVersions, MetricVersions, TemplateVersions
<1>3. TablesInv
  BY InvParts
<1>4. SeriesInv'
  BY <1>1, <1>2, <1>3 DEF TablesInv, SeriesInv
<1>5. TablesInv'
  BY <1>1, <1>3, <1>4 DEF TablesInv, TablesType, OneVersionIsActive, ActivePolicyIsBound
<1>6. RespectsLocks(s)
  <2>1. SUFFICES ASSUME NEW x \in Sessions \ {s}, NEW k \in Models, Holds(x, "model", k),
                        NEW d \in DatasetVersions, datasets[d].model = k
                 PROVE  /\ DatasetVersions' = DatasetVersions
                        /\ \A v \in Datasets : datasets'[v].status = "active"
                                                 => datasets[v].status = "active"
    BY <1>1, <1>2 DEF RespectsLocks, RespectsModel
  <2>2. k = m
    BY <2>1
  <2> QED
    BY <2>1, <2>2 DEF Holds
<1>7. LeavesOthers(s)
  BY <1>1, <1>2, <1>6 DEF LeavesOthers, KeepsVersions, AddsNextTemplate
<1> QED
  BY <1>5, <1>7

LEMMA PoliciesWritten ==
  ASSUME LifecycleInv, NEW s \in Sessions, UNCHANGED <<semantic_models, datasets, saved>>,
         row_policies' \in [Policies -> PolicyRow],
         PolicyVersions \subseteq PolicyVersions', 1 \in DatasetVersions,
         \A v, w \in Policies :
           row_policies'[v].status = "active" /\ row_policies'[w].status = "active" => v = w,
         \A v \in Policies : row_policies'[v].status = "active" => row_policies'[v].bound,
         \A x \in Sessions \ {s} : Holds(x, "dataset", 1) => PolicyVersions' = PolicyVersions
  PROVE  TablesInv' /\ LeavesOthers(s)
<1>1. /\ semantic_models' = semantic_models /\ datasets' = datasets /\ metrics' = metrics
      /\ import_templates' = import_templates
  BY DEF saved
<1>2. /\ ModelVersions' = ModelVersions /\ DatasetVersions' = DatasetVersions
      /\ MetricVersions' = MetricVersions /\ TemplateVersions' = TemplateVersions
  BY <1>1 DEF ModelVersions, DatasetVersions, MetricVersions, TemplateVersions
<1>3. TablesInv
  BY InvParts
<1>4. SeriesInv'
  BY <1>1, <1>2, <1>3 DEF TablesInv, SeriesInv
<1>5. TablesInv'
  BY <1>1, <1>3, <1>4 DEF TablesInv, TablesType, OneVersionIsActive, ActivePolicyIsBound
<1>6. LeavesOthers(s)
  BY <1>1, <1>2 DEF LeavesOthers, KeepsVersions, RespectsLocks, RespectsModel, AddsNextTemplate
<1> QED
  BY <1>5, <1>6

LEMMA ModelInserted ==
  ASSUME LifecycleInv, NEW s \in Sessions, UNCHANGED <<datasets, row_policies, saved>>,
         NEW n \in Models \ ModelVersions, semantic_models' = [semantic_models EXCEPT ![n] = "draft"]
  PROVE  TablesInv' /\ LeavesOthers(s)
<1>1. semantic_models \in [Models -> ModelStatuses]
  BY SeriesFacts DEF TablesType
<1>2. semantic_models' \in [Models -> ModelStatuses]
  BY <1>1 DEF ModelStatuses
<1>3. \A v \in Models : semantic_models'[v] = IF v = n THEN "draft" ELSE semantic_models[v]
  BY <1>1
<1>4. ModelVersions \subseteq ModelVersions'
  BY <1>3 DEF ModelVersions
<1>5. \A v \in Models : semantic_models[v] = "active" => semantic_models'[v] = "active"
  BY <1>3 DEF ModelVersions
<1> QED
  BY <1>2, <1>4, <1>5, ModelsWritten

LEMMA CreateModelStep ==
  ASSUME LifecycleInv, NEW s \in Sessions, CreateModel(s)
  PROVE  LifecycleInv'
<1>1. Latest(ModelVersions) + 1 \notin ModelVersions
  BY VersionsAreBounded, LatestIsGreatest, LifecycleAssumption
<1>2. PICK n \in Models \ ModelVersions : semantic_models' = [semantic_models EXCEPT ![n] = "draft"]
  BY <1>1 DEF CreateModel
<1> QED
  BY <1>2, ModelInserted, WrittenAtOnce DEF CreateModel

LEMMA InsertModelStep ==
  ASSUME LifecycleInv, NEW s \in Sessions, InsertModel(s)
  PROVE  LifecycleInv'
<1>1. PICK n \in Models \ ModelVersions : semantic_models' = [semantic_models EXCEPT ![n] = "draft"]
  BY DEF InsertModel
<1> QED
  BY <1>1, ModelInserted, Written DEF InsertModel

LEMMA ActivateSemanticModelStep ==
  ASSUME LifecycleInv, NEW s \in Sessions, ActivateSemanticModel(s)
  PROVE  LifecycleInv'
<1>1. semantic_models \in [Models -> ModelStatuses]
  BY SeriesFacts DEF TablesType
<1>2. \A v \in Models : semantic_models'[v] =
        IF v = request[s].target THEN "active"
        ELSE IF Holds(s, "model", v) /\ semantic_models[v] = "active" THEN "archived"
        ELSE semantic_models[v]
  BY DEF ActivateSemanticModel, ActivatedModels
<1>3. semantic_models' \in [Models -> ModelStatuses]
  BY <1>1 DEF ActivateSemanticModel, ActivatedModels, ModelStatuses
<1>4. ModelVersions \subseteq ModelVersions'
  BY <1>2 DEF ModelVersions
<1>5. \A x \in Sessions \ {s}, m \in Models :
        Holds(x, "model", m) /\ semantic_models[m] = "active" => semantic_models'[m] = "active"
  BY <1>2 DEF Holds
<1> QED
  BY <1>3, <1>4, <1>5, ModelsWritten, Written DEF ActivateSemanticModel

LEMMA DatasetFacts ==
  ASSUME LifecycleInv
  PROVE  /\ datasets \in [Datasets -> DatasetRow]
         /\ \A v, w \in Datasets :
              datasets[v].status = "active" /\ datasets[w].status = "active" => v = w
BY InvParts DEF TablesInv, TablesType, OneVersionIsActive

LEMMA CreateDatasetStep ==
  ASSUME LifecycleInv, NEW s \in Sessions, NEW m \in Models, CreateDataset(s, m)
  PROVE  LifecycleInv'
<1>1. m \in ModelVersions /\ 1 \in Datasets
  BY LifecycleAssumption DEF CreateDataset, ModelVersions, Datasets
<1>2. /\ datasets' \in [Datasets -> DatasetRow]
      /\ \A v \in Datasets : datasets'[v] = IF v = 1 THEN [status |-> "draft", model |-> m] ELSE datasets[v]
  BY <1>1, DatasetFacts DEF CreateDataset, DatasetRow, ModelStatuses
<1>3. DatasetVersions = {} /\ \A v \in Datasets : datasets[v].status = "absent"
  BY DEF CreateDataset, DatasetVersions
<1>4. \A v \in DatasetVersions' : datasets'[v].model = m
  BY <1>2, <1>3 DEF DatasetVersions
<1>5. \A v \in Datasets : datasets'[v].status # "active"
  BY <1>2, <1>3
<1>6. TablesInv' /\ LeavesOthers(s)
  BY <1>1, <1>2, <1>3, <1>4, <1>5, DatasetsWritten DEF CreateDataset
<1> QED
  BY <1>6, WrittenAtOnce DEF CreateDataset

(* What a request on a dataset has locked when it writes.                  *)
LEMMA DatasetModel ==
  ASSUME LifecycleInv, NEW s \in Sessions, request[s].op \in DatasetOperations,
         request[s].stage \in {"siblings", "insert"}
  PROVE  /\ ModelOf(s) \in ModelVersions /\ Holds(s, "model", ModelOf(s))
         /\ request[s].target \in DatasetVersions /\ request[s].target \in Datasets
         /\ \A v \in DatasetVersions : datasets[v].model = ModelOf(s)
<1>1. DatasetRequest(s)
  BY RequestOf, KindOf
<1>2. request[s].target \in DatasetVersions
  BY <1>1 DEF DatasetRequest
<1>3. ModelOf(s) \in ModelVersions /\ \A v \in DatasetVersions : datasets[v].model = ModelOf(s)
  BY <1>2, SeriesFacts DEF ModelOf
<1> QED
  BY <1>1, <1>2, <1>3 DEF DatasetRequest, DatasetVersions

LEMMA InsertDatasetStep ==
  ASSUME LifecycleInv, NEW s \in Sessions, InsertDataset(s)
  PROVE  LifecycleInv'
<1>1. PICK m \in ModelVersions :
        /\ m = ModelOf(s) /\ Holds(s, "model", m)
        /\ \A v \in DatasetVersions : datasets[v].model = m
  BY DatasetModel DEF InsertDataset, Has, DatasetOperations
<1>2. PICK n \in Datasets \ DatasetVersions :
        datasets' = [datasets EXCEPT ![n] = [status |-> "draft", model |-> m]]
  BY <1>1 DEF InsertDataset, ModelOf
<1>3. m \in Models
  BY DEF ModelVersions
<1>4. /\ datasets' \in [Datasets -> DatasetRow]
      /\ \A v \in Datasets : datasets'[v] = IF v = n THEN [status |-> "draft", model |-> m] ELSE datasets[v]
  BY <1>2, <1>3, DatasetFacts DEF DatasetRow, ModelStatuses
<1>5. /\ DatasetVersions \subseteq DatasetVersions'
      /\ \A v \in DatasetVersions : datasets'[v].model = datasets[v].model
      /\ \A v \in DatasetVersions' : datasets'[v].model = m
  BY <1>1, <1>4 DEF DatasetVersions
<1>6. \A v, w \in Datasets :
        datasets'[v].status = "active" /\ datasets'[w].status = "active" => v = w
  BY <1>4, DatasetFacts
<1>7. TablesInv' /\ LeavesOthers(s)
  BY <1>1, <1>4, <1>5, <1>6, DatasetsWritten DEF InsertDataset
<1> QED
  BY <1>7, Written DEF InsertDataset

LEMMA ActivateDatasetStep ==
  ASSUME LifecycleInv, NEW s \in Sessions, ActivateDataset(s)
  PROVE  LifecycleInv'
<1>1. /\ request[s].op \in DatasetOperations /\ request[s].stage = "siblings"
      /\ request[s].wanted = {} /\ DatasetRequest(s)
  BY RequestOf, KindOf DEF ActivateDataset, Has, DatasetOperations
<1>2. PICK m \in ModelVersions, d \in DatasetVersions :
        /\ m = ModelOf(s) /\ Holds(s, "model", m) /\ d = request[s].target /\ d \in Datasets
        /\ \A v \in DatasetVersions : datasets[v].model = m
  BY <1>1, DatasetModel
<1>3. \A v \in Datasets : datasets'[v] =
        IF v = d THEN [datasets[v] EXCEPT !.status = "active"]
        ELSE IF Holds(s, "dataset", v) /\ datasets[v].status = "active"
          THEN [datasets[v] EXCEPT !.status = "archived"]
        ELSE datasets[v]
  BY <1>2 DEF ActivateDataset
<1>4. \A v \in Datasets : datasets[v] \in DatasetRow
  BY DatasetFacts
<1>5. \A v \in Datasets :
        /\ datasets'[v] \in DatasetRow /\ datasets'[v].model = datasets[v].model
        /\ datasets'[v].status =
             IF v = d THEN "active"
             ELSE IF Holds(s, "dataset", v) /\ datasets[v].status = "active" THEN "archived"
             ELSE datasets[v].status
  BY <1>3, <1>4 DEF DatasetRow, ModelStatuses
<1>6. datasets' \in [Datasets -> DatasetRow]
  <2>1. DOMAIN datasets' = Datasets /\ datasets' = [v \in Datasets |-> datasets'[v]]
    BY DEF ActivateDataset
  <2> QED
    BY <1>5, <2>1
<1>7. \A v \in DatasetVersions : datasets[v].status = "active" /\ v # d => Holds(s, "dataset", v)
  BY <1>1, <1>2 DEF DatasetRequest, ActiveSiblings, Claims
<1>8. \A v \in Datasets : datasets'[v].status = "active" => v = d
  BY <1>5, <1>7 DEF DatasetVersions
<1>9. DatasetVersions' = DatasetVersions
  BY <1>2, <1>5 DEF DatasetVersions
<1>10. TablesInv' /\ LeavesOthers(s)
  BY <1>2, <1>5, <1>6, <1>8, <1>9, DatasetsWritten DEF ActivateDataset, DatasetVersions
<1> QED
  BY <1>10, Written DEF ActivateDataset

LEMMA PolicyFacts ==
  ASSUME LifecycleInv
  PROVE  /\ row_policies \in [Policies -> PolicyRow]
         /\ \A v \in Policies : row_policies[v] \in PolicyRow
         /\ \A v, w \in Policies :
              row_policies[v].status = "active" /\ row_policies[w].status = "active" => v = w
         /\ \A v \in Policies : row_policies[v].status = "active" => row_policies[v].bound
BY InvParts DEF TablesInv, TablesType, OneVersionIsActive, ActivePolicyIsBound

LEMMA CreateRowPolicyStep ==
  ASSUME LifecycleInv, NEW s \in Sessions, CreateRowPolicy(s)
  PROVE  LifecycleInv'
<1>1. 1 \in Policies /\ 1 \in DatasetVersions
  BY LifecycleAssumption DEF CreateRowPolicy, Policies
<1>2. \A v \in Policies : row_policies'[v] =
        IF v = 1 THEN [row_policies[v] EXCEPT !.status = "draft"] ELSE row_policies[v]
  BY PolicyFacts DEF CreateRowPolicy
<1>3. \A v \in Policies :
        /\ row_policies'[v] \in PolicyRow /\ row_policies'[v].bound = row_policies[v].bound
        /\ row_policies'[v].status = IF v = 1 THEN "draft" ELSE row_policies[v].status
  <2>1. SUFFICES ASSUME NEW v \in Policies
                 PROVE  /\ row_policies'[v] \in PolicyRow
                        /\ row_policies'[v].bound = row_policies[v].bound
                        /\ row_policies'[v].status =
                             IF v = 1 THEN "draft" ELSE row_policies[v].status
    OBVIOUS
  <2>2. row_policies[v] \in PolicyRow
    BY PolicyFacts
  <2> QED
    BY <1>2, <2>2 DEF PolicyRow
<1>4. row_policies' \in [Policies -> PolicyRow]
  <2>1. row_policies' = [v \in Policies |-> row_policies'[v]]
    BY PolicyFacts DEF CreateRowPolicy
  <2> QED
    BY <1>3, <2>1
<1>5. /\ PolicyVersions \subseteq PolicyVersions'
      /\ \A v, w \in Policies :
           row_policies'[v].status = "active" /\ row_policies'[w].status = "active" => v = w
      /\ \A v \in Policies : row_policies'[v].status = "active" => row_policies'[v].bound
  BY <1>3, PolicyFacts DEF PolicyVersions
<1>6. \A x \in Sessions \ {s} : ~ Holds(x, "dataset", 1)
  BY LifecycleAssumption DEF CreateRowPolicy, Holds
<1>7. TablesInv' /\ LeavesOthers(s)
  BY <1>1, <1>4, <1>5, <1>6, PoliciesWritten DEF CreateRowPolicy
<1> QED
  BY <1>7, WrittenAtOnce DEF CreateRowPolicy

(* What a request on a series of policies has locked when it writes.       *)
LEMMA SeriesDataset ==
  ASSUME LifecycleInv, NEW s \in Sessions, request[s].op \in SeriesOperations,
         request[s].stage \in {"policies", "insert"}
  PROVE  /\ 1 \in DatasetVersions /\ request[s].target \in Policies
         /\ \A x \in Sessions \ {s} : ~ Holds(x, "dataset", 1)
<1>1. SeriesRequest(s)
  BY RequestOf, KindOf
<1> QED
  BY <1>1, SeriesFacts, LifecycleAssumption DEF SeriesRequest, Holds, PolicyVersions

LEMMA InsertPolicyStep ==
  ASSUME LifecycleInv, NEW s \in Sessions, InsertPolicy(s)
  PROVE  LifecycleInv'
<1>1. /\ 1 \in DatasetVersions /\ request[s].target \in Policies
      /\ \A x \in Sessions \ {s} : ~ Holds(x, "dataset", 1)
  BY SeriesDataset DEF InsertPolicy, Has, SeriesOperations
<1>2. PICK n \in Policies \ PolicyVersions :
        row_policies' = [row_policies EXCEPT ![n] =
          [status |-> "draft", bound |-> row_policies[request[s].target].bound]]
  BY DEF InsertPolicy
<1>3. row_policies[request[s].target].bound \in BOOLEAN
  BY <1>1, PolicyFacts DEF PolicyRow
<1>4. [status |-> "draft", bound |-> row_policies[request[s].target].bound] \in PolicyRow
  BY <1>3 DEF PolicyRow
<1>5. /\ row_policies' \in [Policies -> PolicyRow]
      /\ \A v \in Policies : v # n => row_policies'[v] = row_policies[v]
      /\ row_policies'[n].status = "draft"
  BY <1>2, <1>4, PolicyFacts
<1>6. /\ PolicyVersions \subseteq PolicyVersions'
      /\ \A v, w \in Policies :
           row_policies'[v].status = "active" /\ row_policies'[w].status = "active" => v = w
      /\ \A v \in Policies : row_policies'[v].status = "active" => row_policies'[v].bound
  BY <1>5, PolicyFacts DEF PolicyVersions
<1>7. TablesInv' /\ LeavesOthers(s)
  BY <1>1, <1>5, <1>6, PoliciesWritten DEF InsertPolicy
<1> QED
  BY <1>7, Written DEF InsertPolicy

LEMMA ActivateRowPolicyStep ==
  ASSUME LifecycleInv, NEW s \in Sessions, ActivateRowPolicy(s)
  PROVE  LifecycleInv'
<1>1. /\ 1 \in DatasetVersions /\ request[s].target \in Policies
      /\ \A x \in Sessions \ {s} : ~ Holds(x, "dataset", 1)
  BY SeriesDataset DEF ActivateRowPolicy, Has, SeriesOperations
<1>2. \A v \in PolicyVersions : Holds(s, "policy", v)
  BY HoldsEveryPolicy DEF ActivateRowPolicy, Has, SeriesOperations
<1>3. PICK d \in Policies : d = request[s].target /\ row_policies[d].bound
  BY <1>1 DEF ActivateRowPolicy, HasBindings
<1>4. \A v \in Policies : row_policies'[v] =
        IF v = d /\ request[s].seen # "active" THEN [row_policies[v] EXCEPT !.status = "active"]
        ELSE IF v # d /\ Holds(s, "policy", v) /\ row_policies[v].status = "active"
          THEN [row_policies[v] EXCEPT !.status = "disabled"]
        ELSE row_policies[v]
  BY <1>3 DEF ActivateRowPolicy, ActivatedPolicies
<1>5. \A v \in Policies :
        /\ row_policies'[v] \in PolicyRow /\ row_policies'[v].bound = row_policies[v].bound
        /\ row_policies'[v].status =
             IF v = d /\ request[s].seen # "active" THEN "active"
             ELSE IF v # d /\ Holds(s, "policy", v) /\ row_policies[v].status = "active"
               THEN "disabled"
             ELSE row_policies[v].status
  BY <1>4, PolicyFacts DEF PolicyRow
<1>6. row_policies' \in [Policies -> PolicyRow]
  <2>1. row_policies' = [v \in Policies |-> row_policies'[v]]
    BY DEF ActivateRowPolicy, ActivatedPolicies
  <2> QED
    BY <1>5, <2>1
<1>7. \A v \in Policies : row_policies'[v].status = "active" => v = d
  BY <1>2, <1>5 DEF PolicyVersions
<1>8. \A v \in Policies : row_policies'[v].status = "active" => row_policies'[v].bound
  BY <1>3, <1>5, <1>7
<1>9. PolicyVersions \subseteq PolicyVersions'
  BY <1>5 DEF PolicyVersions
<1>10. TablesInv' /\ LeavesOthers(s)
  BY <1>1, <1>6, <1>7, <1>8, <1>9, PoliciesWritten DEF ActivateRowPolicy
<1> QED
  BY <1>10, Written DEF ActivateRowPolicy

LEMMA ReplaceRowPolicyBindingsStep ==
  ASSUME LifecycleInv, NEW s \in Sessions, NEW bound \in BOOLEAN,
         ReplaceRowPolicyBindings(s, bound)
  PROVE  LifecycleInv'
<1>1. PICK d \in PolicyVersions : d = request[s].target
  BY RequestOf, KindOf DEF ReplaceRowPolicyBindings, Has, BindingsRequest
<1>2. d \in Policies /\ 1 \in DatasetVersions
  BY <1>1, SeriesFacts DEF PolicyVersions
<1>3. \A v \in Policies : row_policies'[v] =
        IF v = d THEN [row_policies[v] EXCEPT !.bound = bound] ELSE row_policies[v]
  BY <1>1, PolicyFacts DEF ReplaceRowPolicyBindings
<1>4. \A v \in Policies :
        /\ row_policies'[v] \in PolicyRow /\ row_policies'[v].status = row_policies[v].status
        /\ row_policies'[v].bound = IF v = d THEN bound ELSE row_policies[v].bound
  BY <1>3, PolicyFacts DEF PolicyRow
<1>5. row_policies' \in [Policies -> PolicyRow]
  <2>1. DOMAIN row_policies' = Policies /\ row_policies' = [v \in Policies |-> row_policies'[v]]
    BY PolicyFacts DEF ReplaceRowPolicyBindings
  <2> QED
    BY <1>4, <2>1
<1>6. row_policies[d].status = "active" => bound
  BY <1>1 DEF ReplaceRowPolicyBindings, MayBind
<1>7. PolicyVersions' = PolicyVersions
  BY <1>4 DEF PolicyVersions
<1>8. /\ \A v, w \in Policies :
           row_policies'[v].status = "active" /\ row_policies'[w].status = "active" => v = w
      /\ \A v \in Policies : row_policies'[v].status = "active" => row_policies'[v].bound
  BY <1>4, <1>6, PolicyFacts
<1>9. TablesInv' /\ LeavesOthers(s)
  BY <1>2, <1>5, <1>7, <1>8, PoliciesWritten DEF ReplaceRowPolicyBindings
<1> QED
  BY <1>9, Written DEF ReplaceRowPolicyBindings

LEMMA InsertMetricStep ==
  ASSUME LifecycleInv, NEW s \in Sessions, InsertMetric(s)
  PROVE  LifecycleInv'
<1>1. MetricRequest(s) /\ request[s].op \in MetricOperations
  BY RequestOf, KindOf DEF InsertMetric, Has
<1>2. HostOf(s) \in DatasetVersions /\ HostOf(s) \in Datasets /\ request[s].seen \in {"draft", "active"}
  BY <1>1, SeriesFacts DEF MetricRequest, HostOf, MetricOperations, DatasetVersions
<1>3. PICK n \in Metrics \ MetricVersions :
        metrics' = [metrics EXCEPT ![n] = [status |-> request[s].seen, dataset |-> HostOf(s)]]
  BY DEF InsertMetric
<1>4. metrics \in [Metrics -> MetricRow] /\ TablesInv
  BY InvParts DEF TablesInv, TablesType
<1>5. [status |-> request[s].seen, dataset |-> HostOf(s)] \in MetricRow
  BY <1>2 DEF MetricRow
<1>6. /\ metrics' \in [Metrics -> MetricRow]
      /\ \A v \in Metrics : metrics'[v] =
           IF v = n THEN [status |-> request[s].seen, dataset |-> HostOf(s)] ELSE metrics[v]
  BY <1>3, <1>4, <1>5
<1>7. /\ semantic_models' = semantic_models /\ datasets' = datasets
      /\ row_policies' = row_policies /\ import_templates' = import_templates
  BY DEF InsertMetric
<1>8. /\ ModelVersions' = ModelVersions /\ DatasetVersions' = DatasetVersions
      /\ PolicyVersions' = PolicyVersions /\ TemplateVersions' = TemplateVersions
  BY <1>7 DEF ModelVersions, DatasetVersions, PolicyVersions, TemplateVersions
<1>9. MetricVersions \subseteq MetricVersions'
      /\ \A v \in MetricVersions' : metrics'[v].dataset \in DatasetVersions
  BY <1>2, <1>4, <1>6 DEF MetricVersions, TablesInv, SeriesInv
<1>10. SeriesInv'
  BY <1>4, <1>7, <1>8, <1>9 DEF TablesInv, SeriesInv
<1>11. TablesInv'
  BY <1>4, <1>6, <1>7, <1>10 DEF TablesInv, TablesType, OneVersionIsActive, ActivePolicyIsBound
<1>12. LeavesOthers(s)
  BY <1>7, <1>8, <1>9 DEF LeavesOthers, KeepsVersions, RespectsLocks, RespectsModel, AddsNextTemplate
<1> QED
  BY <1>11, <1>12, Written DEF InsertMetric

LEMMA CreateTemplateStep ==
  ASSUME LifecycleInv, NEW s \in Sessions, CreateTemplate(s)
  PROVE  LifecycleInv'
<1>1. /\ TemplateRequest(s) /\ request[s].stage = "templates" /\ request[s].wanted = {}
  BY RequestOf, KindOf DEF CreateTemplate, Has
<1>2. PICK n \in Templates \ TemplateVersions :
        /\ n = request[s].number
        /\ import_templates' = [v \in Templates |->
             IF v = n THEN "active" ELSE IF Holds(s, "template", v) THEN "archived"
             ELSE import_templates[v]]
  BY DEF CreateTemplate
<1>3. import_templates \in [Templates -> TemplateStatuses] /\ TablesInv
  BY InvParts DEF TablesInv, TablesType
<1>4. import_templates' \in [Templates -> TemplateStatuses]
  BY <1>2, <1>3 DEF TemplateStatuses
<1>5. /\ \A v \in Templates : v < n => v \in TemplateVersions
      /\ \A v \in Templates : import_templates[v] = "active" => Holds(s, "template", v)
  BY <1>1, <1>2 DEF TemplateRequest, Claims
<1>6. \A v \in Templates : Holds(s, "template", v) => v \in TemplateVersions
  <2>1. \A v \in Templates : Holds(s, "template", v) => MayHold(s, "template", v)
    BY RowsAreThere, InvParts DEF LocksInv, Holds
  <2> QED
    BY <2>1 DEF MayHold
<1>7. TemplateVersions' = TemplateVersions \cup {n}
  BY <1>2, <1>6 DEF TemplateVersions
<1>8. \A v \in Templates : import_templates'[v] = "active" => v = n
  BY <1>2, <1>5
<1>9. /\ semantic_models' = semantic_models /\ datasets' = datasets
      /\ row_policies' = row_policies /\ metrics' = metrics
  BY DEF CreateTemplate
<1>10. /\ ModelVersions' = ModelVersions /\ DatasetVersions' = DatasetVersions
       /\ PolicyVersions' = PolicyVersions /\ MetricVersions' = MetricVersions
  BY <1>9 DEF ModelVersions, DatasetVersions, PolicyVersions, MetricVersions
<1>11. SeriesInv'
  BY <1>3, <1>5, <1>7, <1>9, <1>10 DEF TablesInv, SeriesInv
<1>12. TablesInv'
  BY <1>3, <1>4, <1>8, <1>9, <1>11 DEF TablesInv, TablesType, OneVersionIsActive, ActivePolicyIsBound
<1>13. AddsNextTemplate
  BY <1>5, <1>7 DEF AddsNextTemplate
<1>14. LeavesOthers(s)
  BY <1>7, <1>9, <1>10, <1>13 DEF LeavesOthers, KeepsVersions, RespectsLocks, RespectsModel
<1> QED
  BY <1>12, <1>14, Written DEF CreateTemplate

-----------------------------------------------------------------------------
LEMMA InitLifecycle ==
  ASSUME Init
  PROVE  LifecycleInv
<1>1. /\ \A v \in Datasets : datasets[v].status = "absent"
      /\ \A v \in Policies : row_policies[v].status = "absent"
      /\ \A v \in Metrics : metrics[v].status = "absent"
      /\ \A v \in Templates : import_templates[v] = "absent"
      /\ \A r \in Rows : lock[r] = NoSession
      /\ \A s \in Sessions : request[s] = NoRequest
  BY DEF Init
<1>2. 1 \in Models /\ 1 \in Datasets
  BY LifecycleAssumption DEF Models, Datasets
<1>3. TablesType
  BY <1>2 DEF Init, TablesType, ModelStatuses, TemplateStatuses, DatasetRow, PolicyRow, MetricRow
<1>4. SessionsType
  BY NoRequestType DEF Init, SessionsType
<1>5. OneVersionIsActive /\ ActivePolicyIsBound
  BY <1>1 DEF OneVersionIsActive, ActivePolicyIsBound
<1>6. SeriesInv
  BY <1>1 DEF SeriesInv, DatasetVersions, PolicyVersions, MetricVersions, TemplateVersions
<1>7. LocksInv
  BY <1>1, LifecycleAssumption DEF LocksInv
<1>8. \A s \in Sessions : RequestInv(s)
  BY <1>1 DEF RequestInv, NoRequest, ModelOperations, DatasetOperations, SeriesOperations,
              MetricOperations
<1> QED
  BY <1>3, <1>4, <1>5, <1>6, <1>7, <1>8, InvParts DEF TablesInv

LEMMA ReceiveStep ==
  ASSUME LifecycleInv, NEW s \in Sessions, Receive(s)
  PROVE  LifecycleInv'
<1>1. ASSUME NEW v \in Models, BeginActivateModel(s, v) \/ CreateDataset(s, v)
      PROVE  LifecycleInv'
  BY <1>1, BeginActivateModelStep, CreateDatasetStep
<1>2. CASE BeginCreateModelVersion(s) \/ CreateModel(s)
  BY <1>2, BeginCreateModelVersionStep, CreateModelStep
<1>3. ASSUME NEW op \in DatasetOperations, NEW v \in Datasets, BeginDataset(s, op, v)
      PROVE  LifecycleInv'
  BY <1>3, BeginDatasetStep
<1>4. CASE CreateRowPolicy(s)
  BY <1>4, CreateRowPolicyStep
<1>5. ASSUME NEW op \in SeriesOperations, NEW v \in Policies, BeginSeries(s, op, v)
      PROVE  LifecycleInv'
  BY <1>5, BeginSeriesStep
<1>6. ASSUME NEW v \in Policies, BeginReplaceBindings(s, v)
      PROVE  LifecycleInv'
  BY <1>6, BeginReplaceBindingsStep
<1>7. ASSUME NEW d \in Datasets, NEW status \in {"draft", "active"},
             BeginCreateMetric(s, d, status)
      PROVE  LifecycleInv'
  BY <1>7, BeginCreateMetricStep
<1>8. ASSUME NEW v \in Metrics, NEW status \in {"draft", "active"},
             BeginCreateMetricVersion(s, v, status)
      PROVE  LifecycleInv'
  BY <1>8, BeginCreateMetricVersionStep
<1>9. CASE BeginCreateTemplate(s)
  BY <1>9, BeginCreateTemplateStep
<1> QED
  BY <1>1, <1>2, <1>3, <1>4, <1>5, <1>6, <1>7, <1>8, <1>9 DEF Receive

LEMMA ContinueStep ==
  ASSUME LifecycleInv, NEW s \in Sessions, Continue(s)
  PROVE  LifecycleInv'
<1>1. CASE LockRow(s)
  BY <1>1, LockRowStep
<1>2. CASE ActivateSemanticModel(s) \/ NumberModel(s) \/ InsertModel(s)
  BY <1>2, ActivateSemanticModelStep, NumberModelStep, InsertModelStep
<1>3. CASE LockModelOfDataset(s) \/ LockActiveSiblings(s) \/ ActivateDataset(s)
  BY <1>3, LockModelOfDatasetStep, LockActiveSiblingsStep, ActivateDatasetStep
<1>4. CASE NumberDataset(s) \/ InsertDataset(s)
  BY <1>4, NumberDatasetStep, InsertDatasetStep
<1>5. CASE LockPolicySeries(s) \/ ActivateRowPolicy(s) \/ NumberPolicy(s) \/ InsertPolicy(s)
  BY <1>5, LockPolicySeriesStep, ActivateRowPolicyStep, NumberPolicyStep, InsertPolicyStep
<1>6. ASSUME NEW bound \in BOOLEAN, ReplaceRowPolicyBindings(s, bound)
      PROVE  LifecycleInv'
  BY <1>6, ReplaceRowPolicyBindingsStep
<1>7. CASE FindHost(s) \/ NumberMetric(s) \/ InsertMetric(s)
  BY <1>7, FindHostStep, NumberMetricStep, InsertMetricStep
<1>8. CASE ArchiveTemplates(s) \/ CreateTemplate(s)
  BY <1>8, ArchiveTemplatesStep, CreateTemplateStep
<1> QED
  BY <1>1, <1>2, <1>3, <1>4, <1>5, <1>6, <1>7, <1>8 DEF Continue

LEMMA LifecycleStutters ==
  ASSUME LifecycleInv, UNCHANGED vars
  PROVE  LifecycleInv'
<1>1. UNCHANGED tables /\ lock' = lock /\ request' = request
  BY DEF vars, tables
<1>2. TablesInv' /\ SessionsType'
  <2>1. TablesInv /\ SessionsType
    BY InvParts
  <2>2. Sessions = {} \/ Sessions # {}
    OBVIOUS
  <2> QED
    BY <1>1, <2>1, SameVersions
    DEF TablesInv, TablesType, SessionsType, OneVersionIsActive, ActivePolicyIsBound, SeriesInv
<1>3. /\ ModelVersions' = ModelVersions /\ DatasetVersions' = DatasetVersions
      /\ PolicyVersions' = PolicyVersions /\ MetricVersions' = MetricVersions
      /\ TemplateVersions' = TemplateVersions /\ datasets' = datasets
      /\ semantic_models' = semantic_models /\ import_templates' = import_templates
  BY <1>1, SameVersions
<1>4. ASSUME NEW s \in Sessions PROVE RequestInv(s)'
  <2>1. RequestInv(s)
    BY InvParts
  <2> QED
    BY <1>1, <1>3, <2>1
    DEF RequestInv, ModelRequest, DatasetRequest, SeriesRequest, BindingsRequest, MetricRequest,
        TemplateRequest, Claims, Holds, ModelOf, ActiveSiblings
<1>5. LocksInv'
  BY <1>1, <1>3, InvParts DEF LocksInv, MayHold, ModelOf
<1> QED
  BY <1>2, <1>4, <1>5, InvPartsNext

-----------------------------------------------------------------------------
(* The theorems.                                                           *)

(* Whatever requests on models, datasets, policies, metrics and templates  *)
(* interleave, every row and request keeps its shape, what a request has   *)
(* read of the rows it has locked is still so when it writes, and locks are*)
(* taken in one order: LifecycleInv holds.                                 *)
THEOREM Lifecycle == Spec => []LifecycleInv
<1>1. Init => LifecycleInv
  BY InitLifecycle
<1>2. LifecycleInv /\ [Next]_vars => LifecycleInv'
  <2>1. SUFFICES ASSUME LifecycleInv, [Next]_vars PROVE LifecycleInv'
    OBVIOUS
  <2>2. CASE UNCHANGED vars
    BY <2>1, <2>2, LifecycleStutters
  <2>3. ASSUME NEW s \in Sessions, Receive(s) \/ Continue(s) \/ RollBack(s)
        PROVE  LifecycleInv'
    BY <2>1, <2>3, ReceiveStep, ContinueStep, RollBackStep
  <2> QED
    BY <2>1, <2>2, <2>3 DEF Next
<1> QED
  BY <1>1, <1>2, PTL DEF Spec

(* However many versions are activated at once: activate_dataset,          *)
(* activate_row_policy and create_template leave one active version.       *)
THEOREM OneActiveVersion == Spec => []OneVersionIsActive
<1>1. LifecycleInv => OneVersionIsActive
  BY DEF LifecycleInv
<1> QED
  BY <1>1, Lifecycle, PTL

(* replace_row_policy_bindings and activate_row_policy never leave an      *)
(* active policy without bindings.                                         *)
THEOREM ActivePoliciesAreBound == Spec => []ActivePolicyIsBound
<1>1. LifecycleInv => ActivePolicyIsBound
  BY DEF LifecycleInv
<1> QED
  BY <1>1, Lifecycle, PTL

(* create_dataset_version and create_row_policy_version insert a number    *)
(* that no version has: the locks they hold keep others from taking it.    *)
THEOREM InsertedNumbersAreFree == Spec => []NumbersAreFree
<1>1. ASSUME LifecycleInv PROVE NumbersAreFree
  <2>1. ASSUME NEW s \in Sessions, request[s].stage = "insert"
        PROVE  /\ request[s].op = "create_dataset_version" =>
                    request[s].number \notin DatasetVersions
               /\ request[s].op = "create_policy_version" =>
                    request[s].number \notin PolicyVersions
    BY <1>1, <2>1, RequestOf, KindOf
    DEF DatasetOperations, SeriesOperations, DatasetRequest, SeriesRequest
  <2> QED
    BY <2>1 DEF NumbersAreFree
<1> QED
  BY <1>1, Lifecycle, PTL

(* activate_dataset makes a dataset active only while its model is, though *)
(* it has looked at the model's status several statements before.          *)
THEOREM DatasetsActivateOnActiveModels == Spec => ActivatedOnActiveModel
<1> DEFINE Activates ==
      \A v \in Datasets :
        datasets[v].status # "active" /\ datasets'[v].status = "active" =>
          semantic_models[datasets[v].model] = "active"
<1>1. ASSUME LifecycleInv, NEW s \in Sessions, ActivateDataset(s) PROVE Activates
  <2>1. DatasetRequest(s) /\ request[s].stage = "siblings"
    BY <1>1, RequestOf, KindOf DEF ActivateDataset, Has, DatasetOperations
  <2>2. PICK d \in Datasets : d = request[s].target /\ semantic_models[datasets[d].model] = "active"
    BY <2>1 DEF DatasetRequest, ModelOf, DatasetVersions
  <2>3. \A v \in Datasets : v # d /\ datasets'[v].status = "active" => datasets[v].status = "active"
    <3>1. \A v \in Datasets : datasets[v] \in DatasetRow
      BY <1>1, InvParts DEF TablesInv, TablesType
    <3> QED
      BY <1>1, <2>2, <3>1 DEF ActivateDataset, DatasetRow
  <2> QED
    BY <2>2, <2>3
<1>2. ASSUME LifecycleInv, NEW s \in Sessions, InsertDataset(s) PROVE Activates
  <2>1. datasets \in [Datasets -> DatasetRow]
    BY <1>2, InvParts DEF TablesInv, TablesType
  <2> QED
    BY <1>2, <2>1 DEF InsertDataset
<1>3. ASSUME LifecycleInv, NEW s \in Sessions, NEW m \in Models, CreateDataset(s, m)
      PROVE  Activates
  <2>1. datasets \in [Datasets -> DatasetRow]
    BY <1>3, InvParts DEF TablesInv, TablesType
  <2> QED
    BY <1>3, <2>1 DEF CreateDataset
<1>4. ASSUME datasets' = datasets PROVE Activates
  BY <1>4
<1>5. ASSUME LifecycleInv, [Next]_vars PROVE Activates
  <2>1. CASE UNCHANGED vars
    BY <1>4, <2>1 DEF vars
  <2> USE DEF Begin, Proceed, Number
  <2>2. ASSUME NEW s \in Sessions, Receive(s) PROVE Activates
    BY <1>3, <1>4, <1>5, <2>2
    DEF Receive, BeginActivateModel, BeginCreateModelVersion, CreateModel, BeginDataset,
        CreateRowPolicy, BeginSeries, BeginReplaceBindings, BeginCreateMetric,
        BeginCreateMetricVersion, BeginCreateTemplate
  <2>3. ASSUME NEW s \in Sessions, Continue(s) PROVE Activates
    BY <1>1, <1>2, <1>4, <1>5, <2>3
    DEF Continue, LockRow, ActivateSemanticModel, NumberModel, InsertModel, LockModelOfDataset,
        LockActiveSiblings, NumberDataset, LockPolicySeries, ActivateRowPolicy, NumberPolicy,
        InsertPolicy, ReplaceRowPolicyBindings, FindHost, NumberMetric, InsertMetric,
        ArchiveTemplates, CreateTemplate
  <2>4. ASSUME NEW s \in Sessions, RollBack(s) PROVE Activates
    BY <1>4, <2>4 DEF RollBack
  <2> QED
    BY <1>5, <2>1, <2>2, <2>3, <2>4 DEF Next
<1>6. LifecycleInv /\ [Next]_vars => [Activates]_vars
  BY <1>5
<1> QED
  BY <1>6, Lifecycle, PTL DEF Spec, ActivatedOnActiveModel

-----------------------------------------------------------------------------
(* Waiting in a circle.                                                    *)

IsChain(f, s, n) ==
  f = [k \in 0 .. n |->
         IF k = 0 THEN s
         ELSE IF f[k - 1] \in Sessions THEN WaitsFor(f[k - 1]) ELSE NoSession]

LEMMA ChainValues ==
  ASSUME NEW n \in Nat, NEW s, NEW f, IsChain(f, s, n)
  PROVE  /\ f[0] = s
         /\ \A k \in 0 .. n : k # 0 =>
              f[k] = IF f[k - 1] \in Sessions THEN WaitsFor(f[k - 1]) ELSE NoSession
BY DEF IsChain

LEMMA ChainExists ==
  ASSUME NEW n \in Nat, NEW s
  PROVE  \E f : IsChain(f, s, n)
<1> DEFINE T == {m \in Nat : \E f : IsChain(f, s, m)}
<1>1. 0 \in T
  <2> DEFINE f == [k \in 0 .. 0 |-> s]
  <2>1. f = [k \in 0 .. 0 |->
               IF k = 0 THEN s
               ELSE IF f[k - 1] \in Sessions THEN WaitsFor(f[k - 1]) ELSE NoSession]
    OBVIOUS
  <2>2. IsChain(f, s, 0)
    BY <2>1 DEF IsChain
  <2> QED
    BY <2>2
<1>2. ASSUME NEW m \in T PROVE m + 1 \in T
  <2>1. PICK f : IsChain(f, s, m)
    OBVIOUS
  <2> DEFINE g == [k \in 0 .. (m + 1) |->
                     IF k = 0 THEN s
                     ELSE IF f[k - 1] \in Sessions THEN WaitsFor(f[k - 1]) ELSE NoSession]
             h == [k \in 0 .. (m + 1) |->
                     IF k = 0 THEN s
                     ELSE IF g[k - 1] \in Sessions THEN WaitsFor(g[k - 1]) ELSE NoSession]
  <2>2. \A k \in 0 .. m : g[k] = f[k]
    BY <2>1, ChainValues
  <2>3. ASSUME NEW k \in 0 .. (m + 1) PROVE g[k] = h[k]
    <3>1. k # 0 => k - 1 \in 0 .. m
      OBVIOUS
    <3>2. k # 0 => g[k - 1] = f[k - 1]
      BY <2>2, <3>1
    <3> QED
      BY <3>2
  <2>4. g = h
    BY <2>3
  <2>5. IsChain(g, s, m + 1)
    BY <2>4 DEF IsChain
  <2> HIDE DEF g
  <2> QED
    BY <2>5
<1> HIDE DEF T
<1>3. \A k \in 0 .. n : k \in T
  BY <1>1, <1>2, Reaches
<1>4. n \in T
  BY <1>3
<1> QED
  BY <1>4 DEF T

(* Each session waits for the next, and the last is the first.             *)
IsCircle(f, s, n) ==
  /\ f[0] = s /\ f[n] = s
  /\ \A k \in 0 .. n : f[k] \in Sessions
  /\ \A k \in 0 .. n : k # n => WaitsFor(f[k]) = f[k + 1]

LEMMA CircleExists ==
  ASSUME NEW s \in Sessions, WaitsInACircle(s)
  PROVE  \E n \in Nat \ {0} : \E f : IsCircle(f, s, n)
<1> DEFINE N == Cardinality(Sessions)
           chain == CHOOSE f : f = [k \in 0 .. N |->
             IF k = 0 THEN s
             ELSE IF f[k - 1] \in Sessions THEN WaitsFor(f[k - 1]) ELSE NoSession]
<1>1. PICK n \in 1 .. N : chain[n] = s
  BY DEF WaitsInACircle
<1>2. N \in Nat
  BY LifecycleAssumption, FS_CardinalityType
<1> HIDE DEF N
<1>3. IsChain(chain, s, N)
  <2>1. PICK g : IsChain(g, s, N)
    BY <1>2, ChainExists
  <2>2. \E f : f = [k \in 0 .. N |->
             IF k = 0 THEN s
             ELSE IF f[k - 1] \in Sessions THEN WaitsFor(f[k - 1]) ELSE NoSession]
    BY <2>1, Zenon DEF IsChain
  <2>3. chain = [k \in 0 .. N |->
             IF k = 0 THEN s
             ELSE IF chain[k - 1] \in Sessions THEN WaitsFor(chain[k - 1]) ELSE NoSession]
    BY <2>2, Zenon
  <2> QED
    BY <2>3, Zenon DEF IsChain
<1> HIDE DEF chain
<1>4. /\ chain[0] = s /\ n \in Nat \ {0}
      /\ \A k \in 0 .. n : k # 0 =>
           chain[k] = IF chain[k - 1] \in Sessions THEN WaitsFor(chain[k - 1]) ELSE NoSession
  BY <1>2, <1>3, ChainValues
<1>5. ASSUME NEW k \in 0 .. n PROVE chain[k] \in Sessions
  <2>1. SUFFICES ASSUME chain[k] \notin Sessions PROVE FALSE
    OBVIOUS
  <2> DEFINE T == {j \in Nat : k + j <= n => chain[k + j] \notin Sessions}
  <2>2. 0 \in T
    BY <2>1
  <2>3. ASSUME NEW j \in T PROVE j + 1 \in T
    <3>1. SUFFICES ASSUME k + (j + 1) <= n PROVE chain[k + (j + 1)] \notin Sessions
      BY <2>3
    <3>2. chain[k + j] \notin Sessions /\ (k + (j + 1)) - 1 = k + j
          /\ k + (j + 1) \in 0 .. n /\ k + (j + 1) # 0
      BY <2>3, <3>1
    <3> QED
      BY <1>4, <3>2, LifecycleAssumption
  <2> HIDE DEF T
  <2>4. \A j \in 0 .. n : j \in T
    BY <1>4, <2>2, <2>3, Reaches
  <2>5. n - k \in T
    BY <1>4, <2>4
  <2>6. k + (n - k) = n
    BY <1>4
  <2> QED
    BY <1>1, <1>4, <2>5, <2>6 DEF T
<1>6. ASSUME NEW k \in 0 .. n, k # n PROVE WaitsFor(chain[k]) = chain[k + 1]
  <2>1. k + 1 \in 0 .. n /\ k + 1 # 0 /\ (k + 1) - 1 = k
    BY <1>4, <1>6
  <2> QED
    BY <1>4, <1>5, <2>1
<1>7. IsCircle(chain, s, n)
  BY <1>1, <1>4, <1>5, <1>6 DEF IsCircle
<1> QED
  BY <1>4, <1>7

(* A set of sessions that the one after s is in, and that no step along the*)
(* circle leaves, has s in it.                                             *)
LEMMA AroundTheCircle ==
  ASSUME NEW s \in Sessions, WaitsInACircle(s), NEW T,
         WaitsFor(s) \in Sessions /\ WaitsFor(WaitsFor(s)) \in Sessions => WaitsFor(s) \in T,
         \A x \in Sessions : x \in T /\ WaitsFor(x) \in Sessions
                             /\ WaitsFor(WaitsFor(x)) \in Sessions => WaitsFor(x) \in T
  PROVE  s \in T
<1>0. PICK n \in Nat \ {0} : \E f : IsCircle(f, s, n)
  BY CircleExists
<1>1. PICK f : IsCircle(f, s, n)
  BY <1>0
<1>2. /\ f[0] = s /\ f[n] = s
      /\ \A k \in 0 .. n : f[k] \in Sessions
      /\ \A k \in 0 .. n : k # n => WaitsFor(f[k]) = f[k + 1]
  BY <1>1 DEF IsCircle
<1>3. \A k \in 0 .. n : WaitsFor(f[k]) \in Sessions
  <2>1. ASSUME NEW k \in 0 .. n, k # n PROVE WaitsFor(f[k]) \in Sessions
    <3>1. k + 1 \in 0 .. n
      BY <2>1
    <3> QED
      BY <1>2, <2>1, <3>1
  <2>2. WaitsFor(f[n]) \in Sessions
    <3>1. 0 \in 0 .. n /\ 0 # n
      OBVIOUS
    <3>2. WaitsFor(f[0]) \in Sessions
      BY <2>1, <3>1
    <3> QED
      BY <1>2, <3>2
  <2> QED
    BY <2>1, <2>2
<1>4. f[1] \in T
  <2>1. 0 \in 0 .. n /\ 1 \in 0 .. n /\ 0 # n
    OBVIOUS
  <2>2. WaitsFor(s) = f[1]
    BY <1>2, <2>1
  <2> QED
    BY <1>2, <1>3, <2>1, <2>2
<1> DEFINE U == {j \in Nat : j + 1 <= n => f[j + 1] \in T}
<1>5. 0 \in U
  BY <1>4
<1>6. ASSUME NEW j \in U PROVE j + 1 \in U
  <2>1. SUFFICES ASSUME (j + 1) + 1 <= n PROVE f[(j + 1) + 1] \in T
    BY <1>6
  <2>2. j + 1 \in 0 .. n /\ j + 1 # n /\ (j + 1) + 1 \in 0 .. n /\ f[j + 1] \in T
    BY <1>6, <2>1
  <2>3. WaitsFor(f[j + 1]) = f[(j + 1) + 1]
    BY <1>2, <2>2
  <2> QED
    BY <1>2, <1>3, <2>2, <2>3
<1> HIDE DEF U
<1>7. \A j \in 0 .. n : j \in U
  BY <1>5, <1>6, Reaches
<1>8. n - 1 \in U /\ (n - 1) + 1 = n
  BY <1>7
<1>9. f[n] \in T
  BY <1>8 DEF U
<1> QED
  BY <1>2, <1>9

(* Why x waits for y.                                                      *)
Blocks(y, x, table, v) ==
  /\ <<table, v>> \in Rows /\ MayHold(y, table, v) /\ Holds(y, table, v)
  /\ \/ /\ request[x].op \in MetricOperations /\ request[x].stage = "insert"
        /\ table = "dataset"
     \/ /\ WantsFrom(x, table) /\ v = NextToLock(x) /\ v \in request[x].wanted

LEMMA WaitingIsBlocked ==
  ASSUME LifecycleInv, NEW x \in Sessions, NEW y \in Sessions, WaitsFor(x) = y
  PROVE  \E table \in {"model", "dataset", "policy", "metric", "template"} : \E v :
           Blocks(y, x, table, v)
<1>1. ASSUME NEW table, NEW v, <<table, v>> \in Rows, lock[<<table, v>>] = y
      PROVE  MayHold(y, table, v) /\ Holds(y, table, v)
  BY <1>1, InvParts DEF LocksInv, Holds
<1>2. CASE Has(x, MetricOperations, "insert")
  <2>1. lock[<<"dataset", HostOf(x)>>] = y
    BY <1>2 DEF WaitsFor
  <2>2. MetricRequest(x)
    BY <1>2, RequestOf, KindOf DEF Has
  <2>3. HostOf(x) \in Datasets
    BY <1>2, <2>2, SeriesFacts DEF Has, MetricRequest, HostOf, MetricOperations, DatasetVersions
  <2>4. <<"dataset", HostOf(x)>> \in Rows
    BY <2>3, RowsAreThere
  <2> QED
    BY <1>1, <1>2, <2>1, <2>4 DEF Blocks, Has
<1>3. CASE ~ Has(x, MetricOperations, "insert")
  <2>1. request[x].wanted # {} /\ lock[WantedRow(x)] = y
    BY <1>3, LifecycleAssumption DEF WaitsFor
  <2>2. PICK table \in {"model", "dataset", "policy", "metric", "template"} :
          /\ NextToLock(x) \in request[x].wanted
          /\ WantsFrom(x, table) /\ <<table, NextToLock(x)>> \in Rows
    BY <2>1, WantedRows
  <2>3. lock[<<table, NextToLock(x)>>] = y
    BY <2>1, <2>2 DEF WantedRow, WantsFrom
  <2> QED
    BY <1>1, <2>2, <2>3 DEF Blocks
<1> QED
  BY <1>2, <1>3

(* What a session that waits is at.                                        *)
Waits(y) ==
  \/ request[y].op \in MetricOperations /\ request[y].stage = "insert"
  \/ request[y].wanted # {}

LEMMA WaitingWants ==
  ASSUME LifecycleInv, NEW y \in Sessions, WaitsFor(y) \in Sessions
  PROVE  Waits(y)
BY LifecycleAssumption DEF WaitsFor, Waits, Has

LEMMA OperationOf ==
  ASSUME LifecycleInv, NEW s \in Sessions
  PROVE  request[s].op \in ModelOperations \cup DatasetOperations \cup SeriesOperations
                             \cup MetricOperations \cup {"replace_bindings", "create_template", "none"}
BY RequestOf, RequestFields DEF RequestInv, AllOperations

(* How the operations of a session and of the one it waits for, which waits*)
(* itself, are related.                                                    *)
LEMMA Follows ==
  ASSUME LifecycleInv, NEW x \in Sessions, NEW y \in Sessions, WaitsFor(x) = y,
         WaitsFor(y) \in Sessions
  PROVE  /\ request[y].op \in MetricOperations =>
              /\ request[x].op \in MetricOperations /\ request[x].stage = "metric"
              /\ request[y].stage = "insert"
         /\ request[y].op \in SeriesOperations => request[y].stage = "policies"
         /\ request[y].op # "replace_bindings" /\ request[y].op # "none"
         /\ request[x].op \in SeriesOperations => request[x].stage = "dataset"
         /\ request[x].op \in DatasetOperations =>
              request[y].op \in DatasetOperations \cup SeriesOperations
                \/ (request[x].stage = "model" /\ Holds(y, "model", ModelOf(x)))
         /\ request[x].op \in SeriesOperations \cup {"replace_bindings"} =>
              request[y].op \in DatasetOperations \cup SeriesOperations
         /\ request[x].op = "create_template" =>
              request[y].op = "create_template" /\ NextToLock(x) < NextToLock(y)
         /\ request[x].op \in ModelOperations =>
              \/ request[y].op \in ModelOperations /\ NextToLock(x) < NextToLock(y)
              \/ request[y].op \in DatasetOperations /\ Holds(y, "model", ModelOf(y))
<1>0. PICK table \in {"model", "dataset", "policy", "metric", "template"} : \E v : Blocks(y, x, table, v)
  BY WaitingIsBlocked
<1>1. PICK v : Blocks(y, x, table, v)
  BY <1>0
<1>2. Waits(y)
  BY WaitingWants
<1>3. MayHold(y, table, v) /\ Holds(y, table, v)
  BY <1>1 DEF Blocks
<1>4. /\ request[y].op \in DatasetOperations => DatasetRequest(y)
      /\ request[y].op \in SeriesOperations => SeriesRequest(y)
      /\ request[x].op \in SeriesOperations => SeriesRequest(x)
      /\ request[x].op \in DatasetOperations => DatasetRequest(x)
  BY RequestOf, KindOf
<1> USE DEF ModelOperations, DatasetOperations, SeriesOperations, MetricOperations
<1>5. \/ /\ request[x].op \in MetricOperations /\ request[x].stage = "insert"
         /\ table = "dataset"
      \/ /\ WantsFrom(x, table) /\ v = NextToLock(x) /\ v \in request[x].wanted
  BY <1>1 DEF Blocks
<1>6. request[y].wanted # {} => NextToLock(y) \in request[y].wanted
  BY WantedRows
<1>7. ~ (v < v)
  <2>1. request[x].wanted \in SUBSET Nat /\ \A d \in Datasets : d \in Nat
    BY RequestOf, RequestFields DEF Datasets
  <2>2. v \in request[x].wanted \/ <<"dataset", v>> \in Rows
    BY <1>1, <1>5 DEF Blocks
  <2> QED
    BY <2>1, <2>2 DEF Rows
<1>8. CASE table = "model"
  <2>1. request[x].op \in ModelOperations \/ (request[x].op \in DatasetOperations /\ request[x].stage = "model")
    BY <1>5, <1>8 DEF WantsFrom
  <2>2. CASE request[y].op \in ModelOperations
    <3>1. request[y].wanted # {} /\ \A w \in request[y].wanted : v < w
      BY <1>2, <1>3, <1>8, <2>2 DEF MayHold, Waits
    <3>2. v < NextToLock(y)
      BY <1>6, <3>1
    <3>3. request[x].op \in DatasetOperations => v = ModelOf(x)
      BY <1>4, <1>5, <1>8, <2>1 DEF DatasetRequest
    <3> QED
      BY <1>3, <1>5, <1>8, <2>1, <2>2, <3>2, <3>3
  <2>3. CASE request[y].op \in DatasetOperations
    <3>1. Holds(y, "model", ModelOf(y))
      BY <1>3, <1>8, <2>3 DEF MayHold
    <3>2. request[x].op \in DatasetOperations => v = ModelOf(x)
      BY <1>4, <1>5, <1>8, <2>1 DEF DatasetRequest
    <3> QED
      BY <1>3, <1>8, <2>1, <2>3, <3>1, <3>2
  <2> QED
    BY <1>3, <1>8, <2>2, <2>3 DEF MayHold
<1>9. CASE table = "dataset"
  <2>1. \/ request[x].op \in MetricOperations
        \/ request[x].op \in DatasetOperations
        \/ request[x].op \in SeriesOperations /\ request[x].stage = "dataset"
    BY <1>5, <1>9 DEF WantsFrom
  <2>2. CASE request[y].op \in DatasetOperations
    BY <2>1, <2>2
  <2>3. CASE request[y].op \in SeriesOperations
    <3>1. request[y].stage = "policies"
      BY <1>2, <1>3, <1>4, <1>9, <2>3 DEF MayHold, Waits, SeriesRequest
    <3> QED
      BY <2>1, <2>3, <3>1
  <2> QED
    BY <1>3, <1>9, <2>2, <2>3 DEF MayHold
<1>10. CASE table = "policy"
  <2>1. /\ request[y].op \in SeriesOperations /\ request[y].stage # "dataset"
        /\ request[y].wanted # {} /\ \A w \in request[y].wanted : v < w
    BY <1>2, <1>3, <1>10 DEF MayHold, Waits
  <2>2. request[y].stage = "policies" /\ lock[<<"dataset", 1>>] = y
    BY <1>4, <2>1 DEF SeriesRequest, Holds
  <2>3. CASE request[x].op \in SeriesOperations
    <3>1. request[x].stage = "policies" /\ v \in request[x].wanted
      BY <1>5, <1>10, <2>3 DEF WantsFrom
    <3>2. lock[<<"dataset", 1>>] = x
      BY <1>4, <2>3, <3>1 DEF SeriesRequest, Holds
    <3>3. v < v
      BY <2>1, <2>2, <3>1, <3>2
    <3> QED
      BY <1>7, <3>3
  <2>4. CASE request[x].op = "replace_bindings"
    BY <2>1, <2>2, <2>4
  <2> QED
    BY <1>5, <1>10, <2>3, <2>4 DEF WantsFrom
<1>11. CASE table = "metric"
  <2>1. /\ request[y].op = "create_metric_version" /\ request[y].wanted = {}
    BY <1>3, <1>11 DEF MayHold
  <2>2. request[y].stage = "insert"
    BY <1>2, <2>1 DEF Waits
  <2>3. request[x].op \in MetricOperations /\ request[x].stage = "metric"
    BY <1>5, <1>11 DEF WantsFrom
  <2> QED
    BY <2>1, <2>2, <2>3
<1>12. CASE table = "template"
  <2>1. /\ request[y].op = "create_template" /\ request[y].wanted # {}
        /\ \A w \in request[y].wanted : v < w
    BY <1>2, <1>3, <1>12 DEF MayHold, Waits
  <2>2. request[x].op = "create_template" /\ v = NextToLock(x)
    BY <1>5, <1>12 DEF WantsFrom
  <2> QED
    BY <1>6, <2>1, <2>2
<1> QED
  BY <1>8, <1>9, <1>10, <1>11, <1>12

LEMMA NextIsNumber ==
  ASSUME LifecycleInv, NEW x \in Sessions, WaitsFor(x) \in Sessions,
         request[x].op \notin MetricOperations
  PROVE  NextToLock(x) \in Nat
<1>1. request[x].wanted # {} /\ request[x].wanted \in SUBSET Nat
  BY WaitingWants, RequestOf, RequestFields DEF Waits
<1> QED
  BY <1>1, NextIsLeast

(* Who closes a circle is a request on a dataset: from any other, the way  *)
(* leads to sessions that it does not lead back from.                      *)
LEMMA DatasetsClose ==
  ASSUME LifecycleInv, NEW s \in Sessions, WaitsInACircle(s)
  PROVE  request[s].op \in DatasetOperations
<1> USE DEF ModelOperations, DatasetOperations, SeriesOperations, MetricOperations
<1>1. ASSUME request[s].op \in MetricOperations PROVE FALSE
  <2> DEFINE T == {x \in Sessions :
                     \/ request[x].op \notin MetricOperations
                     \/ request[x].stage = "insert" /\ request[s].stage # "insert"}
  <2>1. WaitsFor(s) \in Sessions /\ WaitsFor(WaitsFor(s)) \in Sessions => WaitsFor(s) \in T
    BY <1>1, Follows
  <2>2. \A x \in Sessions : x \in T /\ WaitsFor(x) \in Sessions
                            /\ WaitsFor(WaitsFor(x)) \in Sessions => WaitsFor(x) \in T
    BY Follows
  <2>3. s \in T
    <3> HIDE DEF T
    <3> QED
      BY <2>1, <2>2, AroundTheCircle
  <2> QED
    BY <1>1, <2>3
<1>2. ASSUME request[s].op = "replace_bindings" PROVE FALSE
  <2> DEFINE T == {x \in Sessions : request[x].op # "replace_bindings"}
  <2>1. WaitsFor(s) \in Sessions /\ WaitsFor(WaitsFor(s)) \in Sessions => WaitsFor(s) \in T
    BY Follows
  <2>2. \A x \in Sessions : x \in T /\ WaitsFor(x) \in Sessions
                            /\ WaitsFor(WaitsFor(x)) \in Sessions => WaitsFor(x) \in T
    BY Follows
  <2>3. s \in T
    <3> HIDE DEF T
    <3> QED
      BY <2>1, <2>2, AroundTheCircle
  <2> QED
    BY <1>2, <2>3
<1>3. ASSUME request[s].op = "none" PROVE FALSE
  <2> DEFINE T == {x \in Sessions : request[x].op # "none"}
  <2>1. WaitsFor(s) \in Sessions /\ WaitsFor(WaitsFor(s)) \in Sessions => WaitsFor(s) \in T
    BY Follows
  <2>2. \A x \in Sessions : x \in T /\ WaitsFor(x) \in Sessions
                            /\ WaitsFor(WaitsFor(x)) \in Sessions => WaitsFor(x) \in T
    BY Follows
  <2>3. s \in T
    <3> HIDE DEF T
    <3> QED
      BY <2>1, <2>2, AroundTheCircle
  <2> QED
    BY <1>3, <2>3
<1>4. ASSUME request[s].op \in SeriesOperations PROVE FALSE
  <2> DEFINE T == {x \in Sessions :
                     /\ request[s].stage = "dataset"
                     /\ request[x].op \in SeriesOperations => request[x].stage = "policies"}
  <2>1. WaitsFor(s) \in Sessions /\ WaitsFor(WaitsFor(s)) \in Sessions => WaitsFor(s) \in T
    BY <1>4, Follows
  <2>2. \A x \in Sessions : x \in T /\ WaitsFor(x) \in Sessions
                            /\ WaitsFor(WaitsFor(x)) \in Sessions => WaitsFor(x) \in T
    BY <1>4, Follows
  <2>3. s \in T
    <3> HIDE DEF T
    <3> QED
      BY <2>1, <2>2, AroundTheCircle
  <2> QED
    BY <1>4, <2>3
<1>5. ASSUME request[s].op = "create_template" PROVE FALSE
  <2> DEFINE T == {x \in Sessions :
                     /\ request[x].op = "create_template" /\ NextToLock(s) < NextToLock(x)
                     /\ NextToLock(s) \in Nat}
  <2>1. WaitsFor(s) \in Sessions /\ WaitsFor(WaitsFor(s)) \in Sessions => WaitsFor(s) \in T
    BY <1>5, Follows, NextIsNumber
  <2>2. ASSUME NEW x \in Sessions, x \in T, WaitsFor(x) \in Sessions,
               WaitsFor(WaitsFor(x)) \in Sessions
        PROVE  WaitsFor(x) \in T
    <3>1. PICK y \in Sessions : y = WaitsFor(x)
      BY <2>2
    <3>2. request[y].op = "create_template" /\ NextToLock(x) < NextToLock(y)
      BY <2>2, <3>1, Follows
    <3>3. NextToLock(x) \in Nat /\ NextToLock(y) \in Nat
      BY <2>2, <3>1, <3>2, NextIsNumber
    <3> QED
      BY <2>2, <3>1, <3>2, <3>3
  <2>3. s \in T
    <3> HIDE DEF T
    <3> QED
      BY <2>1, <2>2, AroundTheCircle
  <2> QED
    BY <2>3
<1>6. ASSUME request[s].op \in ModelOperations PROVE FALSE
  <2> DEFINE held == \E h \in Sessions :
                       request[h].op \in DatasetOperations /\ Holds(h, "model", ModelOf(h))
             T == {x \in Sessions :
                     /\ NextToLock(s) \in Nat
                     /\ \/ request[x].op \in ModelOperations /\ NextToLock(s) < NextToLock(x)
                        \/ held /\ request[x].op \in DatasetOperations \cup SeriesOperations}
  <2>1. WaitsFor(s) \in Sessions /\ WaitsFor(WaitsFor(s)) \in Sessions => WaitsFor(s) \in T
    BY <1>6, Follows, NextIsNumber
  <2>2. ASSUME NEW x \in Sessions, x \in T, WaitsFor(x) \in Sessions,
               WaitsFor(WaitsFor(x)) \in Sessions
        PROVE  WaitsFor(x) \in T
    <3>1. PICK y \in Sessions : y = WaitsFor(x)
      BY <2>2
    <3>2. CASE request[x].op \in ModelOperations /\ NextToLock(s) < NextToLock(x)
      <4>1. \/ request[y].op \in ModelOperations /\ NextToLock(x) < NextToLock(y)
            \/ held /\ request[y].op \in DatasetOperations
        BY <2>2, <3>1, <3>2, Follows
      <4>2. NextToLock(x) \in Nat /\ (request[y].op \in ModelOperations => NextToLock(y) \in Nat)
        BY <2>2, <3>1, <3>2, NextIsNumber
      <4> QED
        BY <2>2, <3>1, <3>2, <4>1, <4>2
    <3>3. CASE held /\ request[x].op \in DatasetOperations \cup SeriesOperations
      <4>1. \/ request[y].op \in DatasetOperations \cup SeriesOperations
            \/ request[x].op \in DatasetOperations /\ Holds(y, "model", ModelOf(x))
        BY <2>2, <3>1, <3>3, Follows
      <4>2. ASSUME request[x].op \in DatasetOperations, Holds(y, "model", ModelOf(x))
            PROVE  request[y].op \in DatasetOperations
        <5>1. PICK h \in Sessions :
                request[h].op \in DatasetOperations /\ Holds(h, "model", ModelOf(h))
          BY <3>3
        <5>2. request[x].target \in DatasetVersions /\ request[h].target \in DatasetVersions
          BY <4>2, <5>1, RequestOf, KindOf DEF DatasetRequest
        <5>3. ModelOf(x) = ModelOf(h)
          BY <5>2, SeriesFacts DEF ModelOf
        <5> QED
          BY <4>2, <5>1, <5>3 DEF Holds
      <4> QED
        BY <2>2, <3>1, <3>3, <4>1, <4>2
    <3> QED
      BY <2>2, <3>2, <3>3
  <2>3. s \in T
    <3> HIDE DEF T
    <3> QED
      BY <2>1, <2>2, AroundTheCircle
  <2> QED
    BY <1>6, <2>3
<1> QED
  BY <1>1, <1>2, <1>3, <1>4, <1>5, <1>6, OperationOf

(* Requests on models, policies, metrics and templates lock rows in an     *)
(* order that keeps any number of them out of deadlocks: whoever waits in a*)
(* circle serves activate_dataset or create_dataset_version, which lock the*)
(* dataset before its model and the active siblings after it.              *)
THEOREM DeadlocksAreOfDatasets == Spec => []OnlyDatasetsDeadlock
<1>1. LifecycleInv => OnlyDatasetsDeadlock
  BY DatasetsClose DEF OnlyDatasetsDeadlock
<1> QED
  BY <1>1, Lifecycle, PTL
=============================================================================
