SPECIFICATION Spec
CONSTANTS
  Sessions = {s1, s2}
  Dashboards = {d1, d2}
  Templates = {t1}
  Operations = {"save", "activate", "delete", "restore", "permissions", "permissions_unchecked", "create", "create_template", "create_template_version", "publish_template", "instantiate", "purge"}
  Grants = {{}, {"view", "edit", "share"}}
  Retention = 1
  MaxVersions = 2
  MaxTemplateVersions = 2
  MaxRevision = 5
  MaxClock = 2
  NoSession = NoSession
  NoDashboard = NoDashboard
  NoTemplate = NoTemplate
SYMMETRY Symmetry
INVARIANT TemplateSourcesAvailable
INVARIANT ActiveIsCurrent
INVARIANT InstancesArePublished
PROPERTY ChangesWhatWasRead
PROPERTY ChangesAreGranted
PROPERTY PurgedAfterRetention
CONSTRAINT Focus
