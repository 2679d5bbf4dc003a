----------------------------- MODULE Dashboards -----------------------------
(***************************************************************************)
(* Dashboards, their versions, and the templates made of versions: the     *)
(* requests of dashboards/service.py that read and change them, and the    *)
(* script that purges deleted dashboards, concurrently on PostgreSQL.      *)
(*                                                                         *)
(* A request is one transaction.  It begins with what its client has read  *)
(* of the dashboard or template before; it locks the row, checks, writes   *)
(* and commits.  What it writes others see when it commits: the writes are *)
(* in the action that commits, from the row as it was when it was locked.  *)
(* Pages, components, layouts and filters belong to a version and are never*)
(* changed: the number of the version stands for them.                     *)
(*                                                                         *)
(* The owner of a dashboard has all its capabilities, and another user of  *)
(* the workspace those granted; a request refused for another reason, such *)
(* as the permissions of a role, is rolled back.                           *)
(***************************************************************************)
EXTENDS Naturals

(* As in ImportBatches, a definition named after the one that follows it,  *)
(* with a suffix, is that one with a plausible bug.                        *)

CONSTANTS
  Sessions,     \* database sessions, each serving one request at a time
  Dashboards,   \* identities of dashboards
  Templates,    \* identities of dashboard templates
  Operations,   \* the operations that are requested
  Grants,       \* the sets of capabilities that are granted
  Retention,    \* how long a deleted dashboard is kept
  MaxVersions, MaxTemplateVersions, MaxRevision, MaxClock,  \* bounds
  NoSession, NoDashboard, NoTemplate

Capabilities == {"view", "edit", "share", "export"}

ASSUME DashboardsAssumption ==
  /\ Grants \subseteq SUBSET Capabilities
  /\ Retention \in Nat \ {0}
  /\ MaxVersions \in Nat \ {0} /\ MaxTemplateVersions \in Nat \ {0}
  /\ MaxRevision \in Nat \ {0} /\ MaxClock \in Nat \ {0}
  /\ Dashboards \cap Templates = {}
  /\ NoSession \notin Sessions
  /\ NoDashboard \notin Dashboards /\ NoTemplate \notin Templates

VARIABLES
  dashboards,         \* the row of each dashboard and what is granted on it
  dashboard_versions, \* the status of each version of each dashboard
  templates,          \* the row of each template
  template_versions,  \* the dashboard version each template version shows
  lock,               \* the session that has the lock of each row
  request,            \* what each session does
  clock,
  origin              \* history: the template version a dashboard copies

vars == <<dashboards, dashboard_versions, templates, template_versions,
          lock, request, clock, origin>>

Versions == 1 .. MaxVersions
TemplateVersions == 1 .. MaxTemplateVersions

DashboardRow ==
  [status : {"absent", "draft", "active", "deleted", "purged"},
   revision : 0 .. MaxRevision, current_version : 0 .. MaxVersions,
   deleted_at : 0 .. MaxClock, grants : SUBSET Capabilities]

NoRow == [status |-> "absent", revision |-> 0, current_version |-> 0,
          deleted_at |-> 0, grants |-> {}]

NewDashboard == [status |-> "draft", revision |-> 1, current_version |-> 1,
                 deleted_at |-> 0, grants |-> {}]

TemplateRow ==
  [status : {"absent", "draft", "published"}, revision : 0 .. MaxRevision,
   current_version : 0 .. MaxTemplateVersions]

NoTemplateRow == [status |-> "absent", revision |-> 0, current_version |-> 0]

Source == [dashboard : Dashboards, version : Versions]
NoSource == [dashboard |-> NoDashboard, version |-> 0]

Changes == {"save", "activate", "delete", "restore", "permissions", "permissions_unchecked"}
SourceOperations == {"create_template", "create_template_version"}
TemplateChanges == {"create_template_version", "publish_template"}
AllOperations ==
  Changes \cup TemplateChanges \cup {"create", "create_template", "instantiate", "purge"}

Stages == {"none", "now", "lock_template", "check_template", "lock", "check",
           "source", "expired", "commit"}
Users == {"owner", "other"}

(* user: of the dashboard named; opened, opened_template: the rows as the  *)
(* client had read them; row, template_row: as the transaction read them;  *)
(* purging: the dashboards the script has locked.                          *)
Request ==
  [op : AllOperations \cup {"none"},
   stage : Stages, user : Users, dashboard : Dashboards \cup {NoDashboard}, version : 0 .. MaxVersions,
   template : Templates \cup {NoTemplate}, number : 0 .. MaxTemplateVersions,
   opened : DashboardRow, row : DashboardRow,
   opened_template : TemplateRow, template_row : TemplateRow,
   now : 0 .. MaxClock, purging : SUBSET Dashboards]

NoRequest ==
  [op |-> "none", stage |-> "none", user |-> "owner", dashboard |-> NoDashboard, version |-> 0,
   template |-> NoTemplate, number |-> 0, opened |-> NoRow, row |-> NoRow,
   opened_template |-> NoTemplateRow, template_row |-> NoTemplateRow, now |-> 0, purging |-> {}]

Init ==
  /\ dashboards = [d \in Dashboards |-> NoRow]
  /\ dashboard_versions = [d \in Dashboards |-> [v \in Versions |-> "absent"]]
  /\ templates = [t \in Templates |-> NoTemplateRow]
  /\ template_versions = [t \in Templates |-> [n \in TemplateVersions |-> NoSource]]
  /\ lock = [r \in Dashboards \cup Templates |-> NoSession]
  /\ request = [s \in Sessions |-> NoRequest]
  /\ clock = 1
  /\ origin = [d \in Dashboards |-> [template |-> NoTemplate, number |-> 0]]

Live(row) == row.status \in {"draft", "active"}

(* _dashboard_template_references                                          *)
IsReferenced(d) ==
  \E t \in Templates, n \in TemplateVersions : template_versions[t][n].dashboard = d

-----------------------------------------------------------------------------
(* Transactions and locks.                                                 *)

tables == <<dashboards, dashboard_versions, templates, template_versions, clock, origin>>

Begin(s, op, first) ==
  /\ op \in Operations
  /\ request[s] = NoRequest
  /\ request' = [request EXCEPT ![s] = [first EXCEPT !.op = op]]
  /\ UNCHANGED <<tables, lock>>

(* The end of a transaction, by commit or rollback.                        *)
Finish(s) ==
  /\ request' = [request EXCEPT ![s] = NoRequest]
  /\ lock' = [r \in Dashboards \cup Templates |->
                IF lock[r] = s THEN NoSession ELSE lock[r]]

RollBack(s) ==
  /\ request[s] # NoRequest
  /\ Finish(s)
  /\ UNCHANGED tables

At(s, ops, stage) == request[s].op \in ops /\ request[s].stage = stage

Proceed(s, stage) ==
  /\ request' = [request EXCEPT ![s].stage = stage]
  /\ UNCHANGED <<tables, lock>>

IsFreeUnlocked(r) == TRUE

(* SELECT .. FOR UPDATE waits for the transaction that has the row.        *)
IsFree(r) == lock[r] = NoSession

LockDashboard(s) ==
  LET d == request[s].dashboard IN
  /\ request[s].stage = "lock"
  /\ IsFree(d)
  /\ lock' = [lock EXCEPT ![d] = s]
  /\ request' = [request EXCEPT ![s].row = dashboards[d], ![s].stage = "check"]
  /\ UNCHANGED tables

LockTemplate(s) ==
  LET t == request[s].template IN
  /\ request[s].stage = "lock_template"
  /\ IsFree(t)
  /\ lock' = [lock EXCEPT ![t] = s]
  /\ request' = [request EXCEPT ![s].template_row = templates[t], ![s].stage = "check_template"]
  /\ UNCHANGED tables

CapableInWorkspace(s, capability) == TRUE

Capable(s, capability) ==
  request[s].user = "owner" \/ capability \in dashboards[request[s].dashboard].grants

-----------------------------------------------------------------------------
(* Changes of a dashboard.                                                 *)

(* The client shows the dashboard, and asks for a change of what it shows. *)
BeginChange(s, op, d) ==
  /\ op \in Changes
  /\ dashboards[d].status \in {"draft", "active", "deleted"}
  /\ \E u \in Users :
       Begin(s, op, [NoRequest EXCEPT
         !.dashboard = d, !.user = u, !.opened = dashboards[d],
         !.stage = IF op = "restore" THEN "now" ELSE "lock"])

(* restore_dashboard takes the time before it waits for the row.           *)
TakeTime(s) ==
  /\ At(s, {"restore"}, "now")
  /\ request' = [request EXCEPT ![s].now = clock, ![s].stage = "lock"]
  /\ UNCHANGED <<tables, lock>>

Needed(op) == IF op \in {"permissions", "permissions_unchecked"} THEN "share" ELSE "edit"

(* replace_dashboard_permissions may be asked for without a revision.      *)
RevisionAsExpected(s) ==
  \/ request[s].op = "permissions_unchecked"
  \/ request[s].row.revision = request[s].opened.revision

MayChangeUnreferenced(s) ==
  LET row == request[s].row IN
  CASE request[s].op = "save" -> row.current_version = request[s].opened.current_version
    [] request[s].op = "restore" -> row.deleted_at + Retention > request[s].now
    [] OTHER -> TRUE

MayChange(s) ==
  LET d == request[s].dashboard
      row == request[s].row IN
  CASE request[s].op = "save" -> row.current_version = request[s].opened.current_version
    [] request[s].op = "activate" ->
         ~ (row.status = "active" /\ dashboard_versions[d][row.current_version] = "active")
    [] request[s].op = "delete" -> ~ IsReferenced(d)
    [] request[s].op = "restore" -> row.deleted_at + Retention > request[s].now
    [] OTHER -> TRUE

CheckChange(s) ==
  /\ At(s, Changes, "check")
  /\ IF request[s].op = "restore" THEN request[s].row.status = "deleted"
     ELSE Live(request[s].row)
  /\ Capable(s, Needed(request[s].op))
  /\ RevisionAsExpected(s)
  /\ MayChange(s)
  /\ Proceed(s, "commit")

ChangedSameRevision(s) ==
  [request[s].row EXCEPT !.grants = dashboards[request[s].dashboard].grants]

(* The row that is written; the grants are rows of their own.              *)
Changed(s) ==
  [request[s].row EXCEPT !.revision = @ + 1,
                         !.grants = dashboards[request[s].dashboard].grants]

Commit(s, row) ==
  /\ request[s].row.revision < MaxRevision
  /\ dashboards' = [dashboards EXCEPT ![request[s].dashboard] = row]
  /\ Finish(s)
  /\ UNCHANGED <<templates, template_versions, clock, origin>>

SaveDashboardVersion(s) ==
  LET d == request[s].dashboard
      n == request[s].row.current_version + 1 IN
  /\ At(s, {"save"}, "commit")
  /\ n \in Versions
  /\ dashboard_versions[d][n] = "absent"
  /\ dashboard_versions' = [dashboard_versions EXCEPT ![d][n] = "draft"]
  /\ Commit(s, [Changed(s) EXCEPT !.current_version = n, !.status = "draft"])

ActivatedKeepingOthers(d, n) == [dashboard_versions[d] EXCEPT ![n] = "active"]

Activated(d, n) ==
  [v \in Versions |->
     IF v = n THEN "active"
     ELSE IF dashboard_versions[d][v] = "active" THEN "archived"
     ELSE dashboard_versions[d][v]]

ActivateDashboard(s) ==
  LET d == request[s].dashboard IN
  /\ At(s, {"activate"}, "commit")
  /\ dashboard_versions' =
       [dashboard_versions EXCEPT ![d] = Activated(d, request[s].row.current_version)]
  /\ Commit(s, [Changed(s) EXCEPT !.status = "active"])

DeleteDashboard(s) ==
  /\ At(s, {"delete"}, "commit")
  /\ Commit(s, [Changed(s) EXCEPT !.status = "deleted", !.deleted_at = clock])
  /\ UNCHANGED dashboard_versions

RestoredStatus(s) == "draft"

RestoreDashboard(s) ==
  /\ At(s, {"restore"}, "commit")
  /\ Commit(s, [Changed(s) EXCEPT !.status = RestoredStatus(s), !.deleted_at = 0])
  /\ UNCHANGED dashboard_versions

ReplaceDashboardPermissions(s) ==
  /\ At(s, {"permissions", "permissions_unchecked"}, "commit")
  /\ \E g \in Grants : Commit(s, [Changed(s) EXCEPT !.grants = g])
  /\ UNCHANGED dashboard_versions

-----------------------------------------------------------------------------
(* New dashboards.                                                         *)

(* _create_dashboard_from_aggregate                                        *)
Insert(d, from) ==
  /\ dashboards[d].status = "absent"
  /\ dashboards' = [dashboards EXCEPT ![d] = NewDashboard]
  /\ dashboard_versions' = [dashboard_versions EXCEPT ![d][1] = "draft"]
  /\ origin' = [origin EXCEPT ![d] = from]
  /\ UNCHANGED <<templates, template_versions, clock>>

CreateDashboard(s, d) ==
  /\ "create" \in Operations
  /\ request[s] = NoRequest
  /\ Insert(d, origin[d])
  /\ UNCHANGED <<lock, request>>

IsPublishedIfDraft(t, n) == templates[t].status \in {"published", "draft"}

(* version_is_published                                                    *)
IsPublished(t, n) ==
  \/ templates[t].status = "published"
  \/ templates[t].status = "draft" /\ n < templates[t].current_version

(* instantiate_dashboard_template, and create_dashboard with a template.   *)
BeginInstantiate(s, t, n) ==
  /\ template_versions[t][n] # NoSource
  /\ IsPublished(t, n)
  /\ Begin(s, "instantiate", [NoRequest EXCEPT !.template = t, !.number = n, !.stage = "source"])

ReadSource(s) ==
  LET source == template_versions[request[s].template][request[s].number] IN
  /\ At(s, {"instantiate"}, "source")
  /\ Live(dashboards[source.dashboard])
  /\ dashboard_versions[source.dashboard][source.version] # "absent"
  /\ Proceed(s, "commit")

InstantiateDashboardTemplate(s, d) ==
  /\ At(s, {"instantiate"}, "commit")
  /\ Insert(d, [template |-> request[s].template, number |-> request[s].number])
  /\ Finish(s)

-----------------------------------------------------------------------------
(* Templates.                                                              *)

(* The version is read before its dashboard is locked.                     *)
BeginCreateTemplate(s, d, v) ==
  /\ dashboard_versions[d][v] # "absent"
  /\ \E u \in Users :
       Begin(s, "create_template", [NoRequest EXCEPT
         !.dashboard = d, !.version = v, !.user = u, !.stage = "lock"])

BeginTemplateChange(s, op, t) ==
  /\ op \in TemplateChanges
  /\ templates[t].status # "absent"
  /\ Begin(s, op, [NoRequest EXCEPT !.template = t, !.opened_template = templates[t],
                                    !.stage = "lock_template"])

IsFromAnyRevision(s, status) ==
  request[s].template_row.status = status

IsFrom(s, status) ==
  /\ request[s].template_row.revision = request[s].opened_template.revision
  /\ request[s].template_row.status = status

(* The source of the new version is read when the template is locked.      *)
CheckTemplateVersion(s, d, v) ==
  /\ At(s, {"create_template_version"}, "check_template")
  /\ IsFrom(s, "published")
  /\ dashboard_versions[d][v] # "absent"
  /\ \E u \in Users :
       request' = [request EXCEPT ![s].dashboard = d, ![s].version = v, ![s].user = u,
                                  ![s].stage = "lock"]
  /\ UNCHANGED <<tables, lock>>

MayBeSourceUnlessPurged(s) == request[s].row.status # "purged"

MayBeSource(s) == Live(request[s].row)

(* _required_template_source_version                                       *)
CheckSource(s) ==
  /\ At(s, SourceOperations, "check")
  /\ MayBeSource(s)
  /\ Capable(s, "view")
  /\ Proceed(s, "commit")

SourceIsThere(s) == dashboard_versions[request[s].dashboard][request[s].version] # "absent"

ShowSource(s, t, n) ==
  /\ SourceIsThere(s)   \* the foreign key
  /\ template_versions' = [template_versions EXCEPT ![t][n] =
       [dashboard |-> request[s].dashboard, version |-> request[s].version]]

CreateDashboardTemplate(s, t) ==
  /\ At(s, {"create_template"}, "commit")
  /\ templates[t].status = "absent"
  /\ templates' = [templates EXCEPT ![t] =
       [status |-> "draft", revision |-> 1, current_version |-> 1]]
  /\ ShowSource(s, t, 1)
  /\ Finish(s)
  /\ UNCHANGED <<dashboards, dashboard_versions, clock, origin>>

CreateDashboardTemplateVersion(s) ==
  LET t == request[s].template
      n == request[s].template_row.current_version + 1 IN
  /\ At(s, {"create_template_version"}, "commit")
  /\ n \in TemplateVersions /\ request[s].template_row.revision < MaxRevision
  /\ templates' = [templates EXCEPT ![t] =
       [status |-> "draft", revision |-> request[s].template_row.revision + 1,
        current_version |-> n]]
  /\ ShowSource(s, t, n)
  /\ Finish(s)
  /\ UNCHANGED <<dashboards, dashboard_versions, clock, origin>>

CheckPublish(s) ==
  /\ At(s, {"publish_template"}, "check_template")
  /\ IsFrom(s, "draft")
  /\ Proceed(s, "commit")

PublishDashboardTemplate(s) ==
  LET t == request[s].template IN
  /\ At(s, {"publish_template"}, "commit")
  /\ request[s].template_row.revision < MaxRevision
  /\ templates' = [templates EXCEPT ![t] =
       [request[s].template_row EXCEPT !.status = "published", !.revision = @ + 1]]
  /\ Finish(s)
  /\ UNCHANGED <<dashboards, dashboard_versions, template_versions, clock, origin>>

-----------------------------------------------------------------------------
(* purge_expired_dashboards, run from scripts/purge_expired_dashboards.py. *)

BeginPurge(s) ==
  Begin(s, "purge", [NoRequest EXCEPT !.now = clock, !.stage = "expired"])

ExpiredAnyAge(now) == {d \in Dashboards : dashboards[d].status = "deleted"}

Expired(now) ==
  {d \in Dashboards : dashboards[d].status = "deleted" /\ dashboards[d].deleted_at + Retention <= now}

(* FOR UPDATE SKIP LOCKED                                                  *)
LockExpired(s) ==
  LET candidates == {d \in Expired(request[s].now) : IsFree(d)} IN
  /\ At(s, {"purge"}, "expired")
  /\ lock' = [r \in Dashboards \cup Templates |-> IF r \in candidates THEN s ELSE lock[r]]
  /\ request' = [request EXCEPT ![s].purging = candidates, ![s].stage = "check"]
  /\ UNCHANGED tables

CheckPurge(s) ==
  /\ At(s, {"purge"}, "check")
  /\ request' = [request EXCEPT ![s].purging = {d \in @ : ~ IsReferenced(d)},
                                ![s].stage = "commit"]
  /\ UNCHANGED <<tables, lock>>

(* The versions are deleted with their dashboard.                          *)
PurgeExpiredDashboards(s) ==
  LET purging == request[s].purging IN
  /\ At(s, {"purge"}, "commit")
  /\ \A d \in purging : ~ IsReferenced(d)   \* the foreign key
  /\ dashboards' = [d \in Dashboards |->
       IF d \in purging THEN [NoRow EXCEPT !.status = "purged"] ELSE dashboards[d]]
  /\ dashboard_versions' = [d \in Dashboards |->
       IF d \in purging THEN [v \in Versions |-> "absent"] ELSE dashboard_versions[d]]
  /\ Finish(s)
  /\ UNCHANGED <<templates, template_versions, clock, origin>>

Tick ==
  /\ clock < MaxClock
  /\ clock' = clock + 1
  /\ UNCHANGED <<dashboards, dashboard_versions, templates, template_versions,
                 lock, request, origin>>

-----------------------------------------------------------------------------

Receive(s) ==
  \/ \E d \in Dashboards :
       \/ CreateDashboard(s, d)
       \/ \E op \in Changes : BeginChange(s, op, d)
       \/ \E v \in Versions : BeginCreateTemplate(s, d, v)
  \/ \E t \in Templates :
       \/ \E op \in TemplateChanges : BeginTemplateChange(s, op, t)
       \/ \E n \in TemplateVersions : BeginInstantiate(s, t, n)
  \/ BeginPurge(s)

Continue(s) ==
  \/ TakeTime(s) \/ LockDashboard(s) \/ CheckChange(s)
  \/ SaveDashboardVersion(s) \/ ActivateDashboard(s) \/ DeleteDashboard(s)
  \/ RestoreDashboard(s) \/ ReplaceDashboardPermissions(s)
  \/ ReadSource(s) \/ \E d \in Dashboards : InstantiateDashboardTemplate(s, d)
  \/ LockTemplate(s) \/ \E d \in Dashboards, v \in Versions : CheckTemplateVersion(s, d, v)
  \/ CheckSource(s) \/ \E t \in Templates : CreateDashboardTemplate(s, t)
  \/ CreateDashboardTemplateVersion(s) \/ CheckPublish(s) \/ PublishDashboardTemplate(s)
  \/ LockExpired(s) \/ CheckPurge(s) \/ PurgeExpiredDashboards(s)

Next == Tick \/ \E s \in Sessions : Receive(s) \/ Continue(s) \/ RollBack(s)

Spec == Init /\ [][Next]_vars

-----------------------------------------------------------------------------
(* Properties.                                                             *)

(* Every row and request has the values the code gives them.               *)
TypeOK ==
  /\ dashboards \in [Dashboards -> DashboardRow]
  /\ dashboard_versions \in
       [Dashboards -> [Versions -> {"absent", "draft", "active", "archived"}]]
  /\ templates \in [Templates -> TemplateRow]
  /\ template_versions \in [Templates -> [TemplateVersions -> Source \cup {NoSource}]]
  /\ lock \in [Dashboards \cup Templates -> Sessions \cup {NoSession}]
  /\ request \in [Sessions -> Request]
  /\ clock \in 0 .. MaxClock
  /\ origin \in [Dashboards ->
       [template : Templates \cup {NoTemplate}, number : 0 .. MaxTemplateVersions]]

(* What a template version shows is a version of a dashboard that is there *)
(* and not deleted: a deletion that found no template and a template whose *)
(* source was not deleted do not commit one after the other.               *)
TemplateSourcesAvailable ==
  \A t \in Templates, n \in TemplateVersions :
    LET source == template_versions[t][n] IN
    source # NoSource =>
      /\ Live(dashboards[source.dashboard])
      /\ dashboard_versions[source.dashboard][source.version] # "absent"

(* One version of a dashboard is active at most, and an active dashboard   *)
(* shows it, whatever was saved, deleted and restored in between.          *)
ActiveIsCurrent ==
  \A d \in Dashboards :
    /\ \A v, w \in Versions :
         dashboard_versions[d][v] = "active" /\ dashboard_versions[d][w] = "active" => v = w
    /\ dashboards[d].status = "active" =>
         dashboard_versions[d][dashboards[d].current_version] = "active"

(* A dashboard copies a template version that has been published, and the  *)
(* template never goes back on that.                                       *)
InstancesArePublished ==
  \A d \in Dashboards :
    LET t == origin[d].template IN
    t # NoTemplate =>
      origin[d].number < templates[t].current_version \/ templates[t].status = "published"

Commits(s, ops) ==
  /\ At(s, ops, "commit")
  /\ request'[s] = NoRequest /\ tables' # tables

(* A change that names a revision is made to the dashboard or template its *)
(* client had read, with nothing changed in between: the revision          *)
(* identifies all of it, the grants included.                              *)
ChangesWhatWasRead ==
  [][\A s \in Sessions :
       /\ Commits(s, Changes \ {"permissions_unchecked"}) =>
            request[s].opened = dashboards[request[s].dashboard]
       /\ Commits(s, TemplateChanges) =>
            request[s].opened_template = templates[request[s].template]]_vars

(* A user who is not the owner changes a dashboard only while the grant is *)
(* there: one that is withdrawn meanwhile is not used.                     *)
ChangesAreGranted ==
  [][\A s \in Sessions : Commits(s, Changes) => Capable(s, Needed(request[s].op))]_vars

(* What is purged is deleted, and has been for the whole retention since   *)
(* its last deletion: a dashboard is not purged after it was restored.     *)
PurgedAfterRetention ==
  [][\A d \in Dashboards :
       dashboards'[d].status = "purged" =>
         \/ dashboards[d].status = "purged"
         \/ dashboards[d].status = "deleted" /\ dashboards[d].deleted_at + Retention <= clock]_vars

-----------------------------------------------------------------------------
(* The inductive invariant of Dashboards_proofs.                           *)

(* A session that has checked a dashboard has its lock, and the dashboard  *)
(* is as it read it; what it found out then is still so.                   *)
LockedIsAsRead(s) ==
  LET d == request[s].dashboard IN
  request[s].op \in Changes \cup SourceOperations /\ request[s].stage \in {"check", "commit"} =>
    /\ d \in Dashboards /\ lock[d] = s
    /\ request[s].row = dashboards[d] /\ dashboards[d].status # "absent"
    /\ request[s].op \in SourceOperations => request[s].version \in Versions
    /\ request[s].stage = "commit" =>
         /\ request[s].op \in Changes => Capable(s, Needed(request[s].op)) /\ RevisionAsExpected(s)
         /\ request[s].op = "delete" => ~ IsReferenced(d)
         /\ IF request[s].op = "restore" THEN dashboards[d].status = "deleted"
            ELSE Live(dashboards[d])

WaitingIsForRow(s) ==
  /\ request[s].stage = "lock_template" => request[s].template \in Templates
  /\ request[s].stage \in {"now", "lock"} =>
       /\ request[s].op \in Changes \cup SourceOperations
       /\ request[s].dashboard \in Dashboards
       /\ dashboards[request[s].dashboard].status # "absent"
       /\ request[s].op \in SourceOperations => request[s].version \in Versions

(* The revision of a dashboard goes up with every change.                  *)
OpenedIsPast(s) ==
  LET d == request[s].dashboard IN
  request[s].op \in Changes =>
    /\ d \in Dashboards /\ request[s].opened.revision > 0
    /\ dashboards[d].status # "purged" =>
         /\ request[s].opened.revision <= dashboards[d].revision
         /\ request[s].opened.revision = dashboards[d].revision => request[s].opened = dashboards[d]

PurgingIsExpired(s) ==
  request[s].op = "purge" =>
    /\ request[s].now <= clock
    /\ request[s].stage \in {"check", "commit"} =>
         \A d \in request[s].purging :
           /\ lock[d] = s /\ dashboards[d].status = "deleted"
           /\ dashboards[d].deleted_at + Retention <= request[s].now

RequestInv(s) ==
  LockedIsAsRead(s) /\ WaitingIsForRow(s) /\ OpenedIsPast(s) /\ PurgingIsExpired(s)

RowInv(d) ==
  /\ dashboards[d].status = "absent" =>
       dashboards[d].revision = 0 /\ \A v \in Versions : dashboard_versions[d][v] = "absent"
  /\ dashboards[d].status \notin {"absent", "purged"} =>
       dashboards[d].revision > 0 /\ dashboards[d].current_version \in Versions

DashboardsInv ==
  /\ TypeOK
  /\ TemplateSourcesAvailable
  /\ ActiveIsCurrent
  /\ \A d \in Dashboards : RowInv(d)
  /\ \A s \in Sessions : RequestInv(s)

(* A version that has been published stays so.                             *)
HasBeenPublished(t, n) ==
  /\ n <= templates[t].current_version
  /\ n < templates[t].current_version \/ templates[t].status = "published"

TemplateRowInv(t) ==
  /\ templates[t].status = "absent" =>
       templates[t].revision = 0 /\ templates[t].current_version = 0
  /\ \A n \in TemplateVersions :
       template_versions[t][n] # NoSource => n <= templates[t].current_version

(* Like a dashboard, a template is as the session that has its lock read   *)
(* it, and its revision tells whether it is as the client read it.         *)
TemplateRequestInv(s) ==
  LET t == request[s].template IN
  /\ request[s].op = "instantiate" => t \in Templates /\ HasBeenPublished(t, request[s].number)
  /\ request[s].op \in TemplateChanges =>
       /\ t \in Templates /\ templates[t].status # "absent"
       /\ request[s].opened_template.revision <= templates[t].revision
       /\ request[s].opened_template.revision = templates[t].revision =>
            request[s].opened_template = templates[t]
       /\ request[s].stage # "lock_template" =>
            lock[t] = s /\ request[s].template_row = templates[t]
       /\ request[s].stage \notin {"lock_template", "check_template"} =>
            IsFrom(s, IF request[s].op = "publish_template" THEN "draft" ELSE "published")

OriginInv(d) ==
  origin[d].template # NoTemplate => HasBeenPublished(origin[d].template, origin[d].number)

TemplatesInv ==
  /\ \A t \in Templates : TemplateRowInv(t)
  /\ \A s \in Sessions : TemplateRequestInv(s)
  /\ \A d \in Dashboards : OriginInv(d)
=============================================================================
