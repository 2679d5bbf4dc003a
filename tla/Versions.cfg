SPECIFICATION Spec
CONSTANTS
  Sessions = {s1, s2}
  NoSession = NoSession
  Operations = {"activate_model", "create_model_version", "create_model", "create_dataset", "create_dataset_version", "activate_dataset", "create_policy", "create_policy_version", "activate_policy", "replace_bindings", "create_metric", "create_metric_version", "create_template"}
  MaxModels = 2
  MaxDatasets = 3
  MaxPolicies = 3
  MaxMetrics = 3
  MaxTemplates = 3
SYMMETRY SessionSymmetry
INVARIANT OneVersionIsActive
INVARIANT ActivePolicyIsBound
INVARIANT NumbersAreFree
INVARIANT OnlyDatasetsDeadlock
PROPERTY ActivatedOnActiveModel
CONSTRAINT FewOfTheOthers
