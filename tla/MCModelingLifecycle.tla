------------------------ MODULE MCModelingLifecycle ------------------------
(* Small instances of ModelingLifecycle for TLC.                           *)
EXTENDS ModelingLifecycle, TLC

SessionSymmetry == Permutations(Sessions)

(* The policies of a dataset are examined while its other versions and its *)
(* model's are few: they share the lock of the dataset, and nothing else.  *)
(* Metrics share the lock of a dataset, templates share nothing.           *)
FewOfTheOthers ==
  LET IsSaving(s) == request[s].op \in MetricOperations \cup {"create_template"} IN
  /\ PolicyVersions = {} \/ Cardinality(ModelVersions \cup DatasetVersions) = 1
  /\ TemplateVersions = {} \/ DatasetVersions = {}
  /\ MetricVersions # {} \/ (\E s \in Sessions : IsSaving(s)) =>
       PolicyVersions = {} /\ ModelVersions = {1} /\ Cardinality(DatasetVersions) <= 2
=============================================================================
