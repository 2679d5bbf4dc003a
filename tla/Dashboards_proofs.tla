------------------------- MODULE Dashboards_proofs -------------------------
(***************************************************************************)
(* The safety of dashboards and templates for any number of sessions,      *)
(* dashboards, templates and versions: DashboardsInv is inductive, and the *)
(* properties of Dashboards that the run checks follow.                    *)
(*                                                                         *)
(* A step is one session's.  What another session knows of the dashboard   *)
(* it has locked stays true because the step respects its lock.            *)
(***************************************************************************)
EXTENDS Dashboards, TLAPS

-----------------------------------------------------------------------------
(* Rows and requests have their types when one of their fields changes.    *)

LEMMA RowTypes ==
  /\ NoRow \in DashboardRow /\ NewDashboard \in DashboardRow
  /\ NoTemplateRow \in TemplateRow
<1>1. NoRow \in DashboardRow
  BY DashboardsAssumption DEF NoRow, DashboardRow
<1>2. NewDashboard \in DashboardRow
  <2>1. 1 \in 0 .. MaxRevision /\ 1 \in 0 .. MaxVersions /\ 0 \in 0 .. MaxClock
    BY DashboardsAssumption
  <2>2. QED
    BY <2>1 DEF NewDashboard, DashboardRow
<1>3. NoTemplateRow \in TemplateRow
  BY DashboardsAssumption DEF NoTemplateRow, TemplateRow
<1>4. QED
  BY <1>1, <1>2, <1>3

LEMMA NoRequestType == NoRequest \in Request
  BY RowTypes, DashboardsAssumption
  DEF NoRequest, Request, AllOperations, Stages, Users, DashboardRow, TemplateRow

LEMMA RequestFields ==
  ASSUME NEW q \in Request
  PROVE  /\ q.op \in AllOperations \cup {"none"} /\ q.stage \in Stages /\ q.user \in Users
         /\ q.dashboard \in Dashboards \cup {NoDashboard} /\ q.version \in 0 .. MaxVersions
         /\ q.template \in Templates \cup {NoTemplate} /\ q.number \in 0 .. MaxTemplateVersions
         /\ q.opened \in DashboardRow /\ q.row \in DashboardRow
         /\ q.opened_template \in TemplateRow /\ q.template_row \in TemplateRow
         /\ q.now \in 0 .. MaxClock /\ q.purging \in SUBSET Dashboards
  BY DEF Request

LEMMA StageType ==
  ASSUME NEW q \in Request, NEW stage \in Stages
  PROVE  [q EXCEPT !.stage = stage] \in Request
  BY DEF Request

LEMMA LockedType ==
  ASSUME NEW q \in Request, NEW row \in DashboardRow
  PROVE  [q EXCEPT !.row = row, !.stage = "check"] \in Request
  BY DEF Request, Stages

LEMMA TemplateLockedType ==
  ASSUME NEW q \in Request, NEW row \in TemplateRow
  PROVE  [q EXCEPT !.template_row = row, !.stage = "check_template"] \in Request
  BY DEF Request, Stages

LEMMA TimeType ==
  ASSUME NEW q \in Request, NEW now \in 0 .. MaxClock
  PROVE  [q EXCEPT !.now = now, !.stage = "lock"] \in Request
  BY DEF Request, Stages

LEMMA SourceType ==
  ASSUME NEW q \in Request, NEW d \in Dashboards, NEW v \in Versions, NEW u \in Users
  PROVE  [q EXCEPT !.dashboard = d, !.version = v, !.user = u, !.stage = "lock"] \in Request
<1>1. d \in Dashboards \cup {NoDashboard} /\ v \in 0 .. MaxVersions /\ "lock" \in Stages
  BY DashboardsAssumption DEF Versions, Stages
<1>2. QED
  BY <1>1 DEF Request

LEMMA PurgingType ==
  ASSUME NEW q \in Request, NEW purging \in SUBSET Dashboards, NEW stage \in Stages
  PROVE  [q EXCEPT !.purging = purging, !.stage = stage] \in Request
  BY DEF Request

LEMMA BegunType ==
  ASSUME NEW q \in Request, NEW op \in AllOperations
  PROVE  [q EXCEPT !.op = op] \in Request
  BY DEF Request

LEMMA BegunChangeType ==
  ASSUME NEW d \in Dashboards, NEW u \in Users, NEW row \in DashboardRow, NEW stage \in Stages
  PROVE  [NoRequest EXCEPT !.dashboard = d, !.user = u, !.opened = row, !.stage = stage] \in Request
<1>1. d \in Dashboards \cup {NoDashboard}
  OBVIOUS
<1>2. QED
  BY <1>1, NoRequestType DEF Request

LEMMA BegunSourceType ==
  ASSUME NEW d \in Dashboards, NEW v \in Versions, NEW u \in Users
  PROVE  [NoRequest EXCEPT !.dashboard = d, !.version = v, !.user = u, !.stage = "lock"] \in Request
  BY NoRequestType, SourceType

LEMMA BegunTemplateType ==
  ASSUME NEW t \in Templates, NEW row \in TemplateRow
  PROVE  [NoRequest EXCEPT !.template = t, !.opened_template = row, !.stage = "lock_template"]
           \in Request
  BY NoRequestType DEF Request, Stages

LEMMA BegunInstanceType ==
  ASSUME NEW t \in Templates, NEW n \in TemplateVersions
  PROVE  [NoRequest EXCEPT !.template = t, !.number = n, !.stage = "source"] \in Request
<1>1. t \in Templates \cup {NoTemplate} /\ n \in 0 .. MaxTemplateVersions /\ "source" \in Stages
  BY DashboardsAssumption DEF TemplateVersions, Stages
<1>2. QED
  BY <1>1, NoRequestType DEF Request

LEMMA BegunPurgeType ==
  ASSUME NEW now \in 0 .. MaxClock
  PROVE  [NoRequest EXCEPT !.now = now, !.stage = "expired"] \in Request
  BY NoRequestType DEF Request, Stages

-----------------------------------------------------------------------------
(* The steps of a request keep the types.                                  *)

LEMMA RequestType ==
  ASSUME TypeOK, NEW s \in Sessions, NEW q \in Request,
         request' = [request EXCEPT ![s] = q], UNCHANGED tables,
         lock' \in [Dashboards \cup Templates -> Sessions \cup {NoSession}]
  PROVE  TypeOK'
  BY DEF TypeOK, tables

LEMMA BeginTypes ==
  ASSUME TypeOK, NEW s \in Sessions, NEW op \in AllOperations, NEW first \in Request,
         Begin(s, op, first)
  PROVE  TypeOK'
<1>1. [first EXCEPT !.op = op] \in Request
  BY BegunType
<1>2. QED
  BY <1>1, RequestType DEF Begin, TypeOK

LEMMA ProceedTypes ==
  ASSUME TypeOK, NEW s \in Sessions, NEW stage \in Stages, Proceed(s, stage)
  PROVE  TypeOK'
<1>1. request[s] \in Request
  BY DEF TypeOK
<1>2. [request[s] EXCEPT !.stage = stage] \in Request
  BY <1>1, StageType
<1>3. request' = [request EXCEPT ![s] = [request[s] EXCEPT !.stage = stage]]
  BY DEF Proceed
<1>4. QED
  BY <1>2, <1>3, RequestType DEF Proceed, TypeOK

LEMMA FinishTypes ==
  ASSUME TypeOK, NEW s \in Sessions, Finish(s)
  PROVE  /\ request' \in [Sessions -> Request]
         /\ lock' \in [Dashboards \cup Templates -> Sessions \cup {NoSession}]
  BY NoRequestType DEF TypeOK, Finish

LEMMA CommitTypes ==
  ASSUME TypeOK, NEW s \in Sessions, NEW row \in DashboardRow, Commit(s, row),
         request[s].dashboard \in Dashboards,
         dashboard_versions' \in
           [Dashboards -> [Versions -> {"absent", "draft", "active", "archived"}]]
  PROVE  TypeOK'
<1>1. dashboards' \in [Dashboards -> DashboardRow]
  BY DEF TypeOK, Commit
<1>2. QED
  BY <1>1, FinishTypes DEF TypeOK, Commit

LEMMA NextRevisionType ==
  ASSUME NEW row \in DashboardRow, NEW grants \in SUBSET Capabilities, row.revision < MaxRevision
  PROVE  [row EXCEPT !.revision = row.revision + 1, !.grants = grants] \in DashboardRow
<1>1. row.revision + 1 \in 0 .. MaxRevision
  BY DashboardsAssumption DEF DashboardRow
<1>2. QED
  BY <1>1 DEF DashboardRow

LEMMA ChangedType ==
  ASSUME TypeOK, NEW s \in Sessions, request[s].dashboard \in Dashboards,
         request[s].row.revision < MaxRevision
  PROVE  Changed(s) \in DashboardRow
<1>1. request[s].row \in DashboardRow /\ dashboards[request[s].dashboard] \in DashboardRow
  BY RequestFields DEF TypeOK
<1>2. dashboards[request[s].dashboard].grants \in SUBSET Capabilities
  BY <1>1 DEF DashboardRow
<1>3. QED
  BY <1>1, <1>2, NextRevisionType DEF Changed

-----------------------------------------------------------------------------
(* What another session has found out stays true.                          *)

IsLockedByOther(s, d) ==
  lock[d] # s /\ lock[d] # NoSession /\ dashboards[d].status # "absent"

Respects(s) ==
  /\ \A r \in Sessions \ {s} : request'[r] = request[r]
  /\ \A d \in Dashboards : IsLockedByOther(s, d) =>
       /\ lock'[d] = lock[d] /\ dashboards'[d] = dashboards[d]
       /\ IsReferenced(d)' => IsReferenced(d)
  /\ \A d \in Dashboards :
       \/ dashboards'[d] = dashboards[d]
       \/ dashboards'[d].status = "purged"
       \/ /\ dashboards[d].status # "purged" /\ dashboards'[d].status # "absent"
          /\ dashboards'[d].revision > dashboards[d].revision
  /\ clock' = clock

LEMMA OthersKept ==
  ASSUME DashboardsInv, NEW s \in Sessions, NEW r \in Sessions \ {s}, Respects(s),
         dashboards' \in [Dashboards -> DashboardRow]
  PROVE  RequestInv(r)'
<1> DEFINE d == request[r].dashboard
<1>1. request'[r] = request[r] /\ request[r] \in Request /\ r # NoSession /\ r # s
  BY DashboardsAssumption DEF Respects, DashboardsInv, TypeOK
<1>2. RequestInv(r)
  BY DEF DashboardsInv
<1>3. \A e \in Dashboards : lock[e] = r /\ dashboards[e].status # "absent" =>
        /\ lock'[e] = r /\ dashboards'[e] = dashboards[e]
        /\ IsReferenced(e)' => IsReferenced(e)
  BY <1>1 DEF Respects, IsLockedByOther
<1>4. LockedIsAsRead(r)'
  <2> USE <1>1, <1>2, <1>3 DEF RequestInv, LockedIsAsRead
  <2>1. CASE ~ (request[r].op \in Changes \cup SourceOperations
                  /\ request[r].stage \in {"check", "commit"})
    BY <2>1
  <2>2. CASE /\ request[r].op \in Changes \cup SourceOperations
             /\ request[r].stage \in {"check", "commit"}
    <3>1. /\ d \in Dashboards /\ lock[d] = r /\ dashboards[d].status # "absent"
          /\ request[r].row = dashboards[d]
      BY <2>2
    <3>2. lock'[d] = r /\ dashboards'[d] = dashboards[d] /\ (IsReferenced(d)' => IsReferenced(d))
      BY <3>1
    <3>3. /\ Capable(r, Needed(request[r].op))' = Capable(r, Needed(request[r].op))
          /\ RevisionAsExpected(r)' = RevisionAsExpected(r)
      BY <3>2 DEF Capable, Needed, RevisionAsExpected
    <3>4. QED
      BY <2>2, <3>1, <3>2, <3>3 DEF Live
  <2>3. QED
    BY <2>1, <2>2
<1>5. WaitingIsForRow(r)'
  BY <1>1, <1>2 DEF RequestInv, WaitingIsForRow, Respects
<1>6. OpenedIsPast(r)'
  <2>1. CASE request[r].op \notin Changes
    BY <1>1, <2>1 DEF OpenedIsPast
  <2>2. CASE request[r].op \in Changes
    <3>1. d \in Dashboards /\ request[r].opened.revision > 0
      BY <1>2, <2>2 DEF RequestInv, OpenedIsPast
    <3>2. /\ dashboards[d].revision \in Nat /\ dashboards'[d].revision \in Nat
          /\ request[r].opened.revision \in Nat
      BY <1>1, <3>1, RequestFields, DashboardsAssumption DEF DashboardsInv, TypeOK, DashboardRow
    <3>3. \/ dashboards'[d] = dashboards[d]
          \/ dashboards'[d].status = "purged"
          \/ /\ dashboards[d].status # "purged"
             /\ dashboards'[d].revision > dashboards[d].revision
      BY <3>1 DEF Respects
    <3>4. QED
      BY <1>1, <1>2, <2>2, <3>1, <3>2, <3>3 DEF RequestInv, OpenedIsPast
  <2>3. QED
    BY <2>1, <2>2
<1>7. PurgingIsExpired(r)'
  <2>1. request[r].purging \in SUBSET Dashboards
    BY <1>1, RequestFields
  <2>2. QED
    BY <1>1, <1>2, <1>3, <2>1 DEF RequestInv, PurgingIsExpired, Respects
<1>8. QED
  BY <1>4, <1>5, <1>6, <1>7 DEF RequestInv

LEMMA FinishedKept ==
  ASSUME NEW s \in Sessions, request'[s] = NoRequest
  PROVE  RequestInv(s)'
  BY DEF RequestInv, LockedIsAsRead, WaitingIsForRow, OpenedIsPast, PurgingIsExpired,
         NoRequest, Changes, SourceOperations

(* Steps that write no row.                                                *)
LEMMA QuietKept ==
  ASSUME DashboardsInv, NEW s \in Sessions, UNCHANGED tables, TypeOK', RequestInv(s)',
         \A r \in Sessions \ {s} : request'[r] = request[r],
         \A d \in Dashboards : IsLockedByOther(s, d) => lock'[d] = lock[d]
  PROVE  DashboardsInv'
<1>1. Respects(s)
  BY DEF Respects, tables, IsReferenced
<1>2. \A r \in Sessions : RequestInv(r)'
  BY <1>1, OthersKept DEF TypeOK
<1>3. TemplateSourcesAvailable' /\ ActiveIsCurrent' /\ \A d \in Dashboards : RowInv(d)'
  BY DEF DashboardsInv, TemplateSourcesAvailable, ActiveIsCurrent, RowInv, tables
<1>4. QED
  BY <1>2, <1>3 DEF DashboardsInv

(* Steps that change no lock and only their own request.                   *)
LEMMA BeginKept ==
  ASSUME DashboardsInv, NEW s \in Sessions, NEW op \in AllOperations, NEW first \in Request,
         Begin(s, op, first), RequestInv(s)'
  PROVE  DashboardsInv'
<1>1. TypeOK'
  BY BeginTypes DEF DashboardsInv
<1>2. QED
  BY <1>1, QuietKept DEF Begin, DashboardsInv, TypeOK

LEMMA ProceedKept ==
  ASSUME DashboardsInv, NEW s \in Sessions, NEW stage \in Stages, Proceed(s, stage), RequestInv(s)'
  PROVE  DashboardsInv'
<1>1. TypeOK'
  BY ProceedTypes DEF DashboardsInv
<1>2. QED
  BY <1>1, QuietKept DEF Proceed, DashboardsInv, TypeOK

-----------------------------------------------------------------------------
(* Requests that begin.                                                    *)

LEMMA BeginChangeKept ==
  ASSUME DashboardsInv, NEW s \in Sessions, NEW op \in Changes, NEW d \in Dashboards,
         BeginChange(s, op, d)
  PROVE  DashboardsInv'
<1>1. PICK u \in Users :
        Begin(s, op, [NoRequest EXCEPT
          !.dashboard = d, !.user = u, !.opened = dashboards[d],
          !.stage = IF op = "restore" THEN "now" ELSE "lock"])
  BY DEF BeginChange
<1> DEFINE stage == IF op = "restore" THEN "now" ELSE "lock"
           first == [NoRequest EXCEPT !.dashboard = d, !.user = u, !.opened = dashboards[d],
                                      !.stage = stage]
<1>2. /\ stage \in {"now", "lock"} /\ stage \in Stages
      /\ op \in AllOperations /\ op # "purge" /\ op \notin SourceOperations
  BY DEF Stages, AllOperations, Changes, SourceOperations
<1>3. dashboards[d] \in DashboardRow
  BY DEF DashboardsInv, TypeOK
<1> HIDE DEF stage
<1>4. first \in Request
  BY <1>2, <1>3, BegunChangeType
<1>5. /\ first.dashboard = d /\ first.opened = dashboards[d] /\ first.stage = stage
  BY NoRequestType DEF Request
<1>6. Begin(s, op, first)
  BY <1>1 DEF stage
<1> HIDE DEF first
<1>7. request'[s] = [first EXCEPT !.op = op] /\ UNCHANGED tables
  BY <1>6 DEF Begin, DashboardsInv, TypeOK
<1>8. /\ request'[s].op = op /\ request'[s].dashboard = d
      /\ request'[s].opened = dashboards[d] /\ request'[s].stage = stage
  BY <1>4, <1>5, <1>7 DEF Request
<1>9. dashboards[d].status \notin {"absent", "purged"} /\ dashboards[d].revision > 0
  BY DEF BeginChange, DashboardsInv, RowInv
<1>10. dashboards[d].revision <= dashboards[d].revision
  BY <1>3, DashboardsAssumption DEF DashboardRow
<1>11. RequestInv(s)'
  BY <1>2, <1>7, <1>8, <1>9, <1>10
  DEF RequestInv, LockedIsAsRead, WaitingIsForRow, OpenedIsPast, PurgingIsExpired, tables
<1>12. QED
  BY <1>2, <1>4, <1>6, <1>11, BeginKept

LEMMA BeginCreateTemplateKept ==
  ASSUME DashboardsInv, NEW s \in Sessions, NEW d \in Dashboards, NEW v \in Versions,
         BeginCreateTemplate(s, d, v)
  PROVE  DashboardsInv'
<1>1. PICK u \in Users :
        Begin(s, "create_template", [NoRequest EXCEPT
          !.dashboard = d, !.version = v, !.user = u, !.stage = "lock"])
  BY DEF BeginCreateTemplate
<1> DEFINE first == [NoRequest EXCEPT !.dashboard = d, !.version = v, !.user = u, !.stage = "lock"]
<1>2. first \in Request
  BY BegunSourceType
<1>3. first.dashboard = d /\ first.version = v /\ first.stage = "lock"
  BY NoRequestType DEF Request
<1> HIDE DEF first
<1>4. Begin(s, "create_template", first) /\ "create_template" \in AllOperations
  BY <1>1 DEF first, AllOperations
<1>5. request'[s] = [first EXCEPT !.op = "create_template"] /\ UNCHANGED tables
  BY <1>4 DEF Begin, DashboardsInv, TypeOK
<1>6. /\ request'[s].op = "create_template" /\ request'[s].dashboard = d
      /\ request'[s].version = v /\ request'[s].stage = "lock"
  BY <1>2, <1>3, <1>5 DEF Request
<1>7. dashboards[d].status # "absent"
  BY DEF BeginCreateTemplate, DashboardsInv, RowInv
<1>8. RequestInv(s)'
  BY <1>5, <1>6, <1>7
  DEF RequestInv, LockedIsAsRead, WaitingIsForRow, OpenedIsPast, PurgingIsExpired, tables,
      Changes, SourceOperations
<1>9. QED
  BY <1>2, <1>4, <1>8, BeginKept

LEMMA BeginTemplateChangeKept ==
  ASSUME DashboardsInv, NEW s \in Sessions, NEW op \in TemplateChanges, NEW t \in Templates,
         BeginTemplateChange(s, op, t)
  PROVE  DashboardsInv'
<1> DEFINE first == [NoRequest EXCEPT !.template = t, !.opened_template = templates[t],
                                      !.stage = "lock_template"]
<1>1. templates[t] \in TemplateRow
  BY DEF DashboardsInv, TypeOK
<1>2. first \in Request
  BY <1>1, BegunTemplateType
<1>3. first.stage = "lock_template" /\ first.template = t
  BY NoRequestType DEF Request
<1> HIDE DEF first
<1>4. Begin(s, op, first) /\ op \in AllOperations
  BY DEF BeginTemplateChange, first, AllOperations
<1>5. request'[s] = [first EXCEPT !.op = op] /\ UNCHANGED tables
  BY <1>4 DEF Begin, DashboardsInv, TypeOK
<1>6. request'[s].op = op /\ request'[s].stage = "lock_template" /\ request'[s].template = t
  BY <1>2, <1>3, <1>5 DEF Request
<1>7. RequestInv(s)'
  BY <1>5, <1>6
  DEF RequestInv, LockedIsAsRead, WaitingIsForRow, OpenedIsPast, PurgingIsExpired,
      TemplateChanges, Changes
<1>8. QED
  BY <1>2, <1>4, <1>7, BeginKept

LEMMA BeginInstantiateKept ==
  ASSUME DashboardsInv, NEW s \in Sessions, NEW t \in Templates, NEW n \in TemplateVersions,
         BeginInstantiate(s, t, n)
  PROVE  DashboardsInv'
<1> DEFINE first == [NoRequest EXCEPT !.template = t, !.number = n, !.stage = "source"]
<1>1. first \in Request
  BY BegunInstanceType
<1>2. first.stage = "source"
  BY NoRequestType DEF Request
<1> HIDE DEF first
<1>3. Begin(s, "instantiate", first) /\ "instantiate" \in AllOperations
  BY DEF BeginInstantiate, first, AllOperations
<1>4. request'[s] = [first EXCEPT !.op = "instantiate"] /\ UNCHANGED tables
  BY <1>3 DEF Begin, DashboardsInv, TypeOK
<1>5. request'[s].op = "instantiate" /\ request'[s].stage = "source"
  BY <1>1, <1>2, <1>4 DEF Request
<1>6. RequestInv(s)'
  BY <1>4, <1>5
  DEF RequestInv, LockedIsAsRead, WaitingIsForRow, OpenedIsPast, PurgingIsExpired, Changes
<1>7. QED
  BY <1>1, <1>3, <1>6, BeginKept

LEMMA BeginPurgeKept ==
  ASSUME DashboardsInv, NEW s \in Sessions, BeginPurge(s)
  PROVE  DashboardsInv'
<1> DEFINE first == [NoRequest EXCEPT !.now = clock, !.stage = "expired"]
<1>1. clock \in 0 .. MaxClock /\ clock <= clock
  BY DashboardsAssumption DEF DashboardsInv, TypeOK
<1>2. first \in Request
  BY <1>1, BegunPurgeType
<1>3. first.stage = "expired" /\ first.now = clock
  BY NoRequestType DEF Request
<1> HIDE DEF first
<1>4. Begin(s, "purge", first) /\ "purge" \in AllOperations
  BY DEF BeginPurge, first, AllOperations
<1>5. request'[s] = [first EXCEPT !.op = "purge"] /\ UNCHANGED tables
  BY <1>4 DEF Begin, DashboardsInv, TypeOK
<1>6. request'[s].op = "purge" /\ request'[s].stage = "expired" /\ request'[s].now = clock
  BY <1>2, <1>3, <1>5 DEF Request
<1>7. RequestInv(s)'
  BY <1>1, <1>5, <1>6
  DEF RequestInv, LockedIsAsRead, WaitingIsForRow, OpenedIsPast, PurgingIsExpired, Changes,
      SourceOperations, tables
<1>8. QED
  BY <1>2, <1>4, <1>7, BeginKept

-----------------------------------------------------------------------------
(* Requests that lock and check.                                           *)

LEMMA StageFields ==
  ASSUME NEW q \in Request, NEW stage \in Stages
  PROVE  LET p == [q EXCEPT !.stage = stage] IN
         /\ p.stage = stage /\ p.op = q.op /\ p.user = q.user
         /\ p.dashboard = q.dashboard /\ p.version = q.version
         /\ p.opened = q.opened /\ p.row = q.row /\ p.now = q.now /\ p.purging = q.purging
  BY DEF Request

(* Only the stage changes: what the new stage promises has to be shown.    *)
LEMMA ProceededKept ==
  ASSUME DashboardsInv, NEW s \in Sessions, NEW stage \in Stages, Proceed(s, stage),
         stage \notin {"now", "lock", "lock_template"},
         LockedIsAsRead(s)',
         request[s].op # "purge"
  PROVE  DashboardsInv'
<1>1. request[s] \in Request
  BY DEF DashboardsInv, TypeOK
<1>2. request'[s] = [request[s] EXCEPT !.stage = stage] /\ UNCHANGED tables
  BY DEF Proceed, DashboardsInv, TypeOK
<1>3. /\ request'[s].stage = stage /\ request'[s].op = request[s].op
      /\ request'[s].dashboard = request[s].dashboard /\ request'[s].opened = request[s].opened
  BY <1>1, <1>2, StageFields
<1>4. OpenedIsPast(s)
  BY DEF DashboardsInv, RequestInv
<1>5. RequestInv(s)'
  BY <1>2, <1>3, <1>4
  DEF RequestInv, WaitingIsForRow, OpenedIsPast, PurgingIsExpired, tables
<1>6. QED
  BY <1>5, ProceedKept

LEMMA TakeTimeKept ==
  ASSUME DashboardsInv, NEW s \in Sessions, TakeTime(s)
  PROVE  DashboardsInv'
<1>1. request[s] \in Request /\ clock \in 0 .. MaxClock /\ RequestInv(s)
  BY DEF DashboardsInv, TypeOK
<1> DEFINE q == [request[s] EXCEPT !.now = clock, !.stage = "lock"]
<1>2. q \in Request
  BY <1>1, TimeType
<1>3. request' = [request EXCEPT ![s] = q] /\ UNCHANGED <<tables, lock>>
  BY DEF TakeTime
<1>4. /\ q.op = request[s].op /\ q.dashboard = request[s].dashboard
      /\ q.version = request[s].version /\ q.opened = request[s].opened /\ q.stage = "lock"
  BY <1>1 DEF Request
<1> HIDE DEF q
<1>5. request'[s] = q /\ request[s].op = "restore" /\ request[s].stage = "now"
  BY <1>3 DEF DashboardsInv, TypeOK, TakeTime, At
<1>6. RequestInv(s)'
  BY <1>1, <1>3, <1>4, <1>5
  DEF RequestInv, LockedIsAsRead, WaitingIsForRow, OpenedIsPast, PurgingIsExpired, tables
<1>7. TypeOK'
  BY <1>2, <1>3, RequestType DEF DashboardsInv, TypeOK
<1>8. QED
  BY <1>3, <1>6, <1>7, QuietKept DEF DashboardsInv, TypeOK

LEMMA LockDashboardKept ==
  ASSUME DashboardsInv, NEW s \in Sessions, LockDashboard(s)
  PROVE  DashboardsInv'
<1> DEFINE d == request[s].dashboard
<1>1. /\ request[s] \in Request /\ RequestInv(s)
      /\ lock \in [Dashboards \cup Templates -> Sessions \cup {NoSession}]
  BY DEF DashboardsInv, TypeOK
<1>2. /\ request[s].stage = "lock" /\ d \in Dashboards /\ dashboards[d].status # "absent"
      /\ request[s].op \in Changes \cup SourceOperations /\ lock[d] = NoSession
  BY <1>1 DEF LockDashboard, RequestInv, WaitingIsForRow, IsFree
<1>3. dashboards[d] \in DashboardRow
  BY <1>2 DEF DashboardsInv, TypeOK
<1> DEFINE q == [request[s] EXCEPT !.row = dashboards[d], !.stage = "check"]
<1>4. q \in Request
  BY <1>1, <1>3, LockedType
<1>5. request' = [request EXCEPT ![s] = q] /\ lock' = [lock EXCEPT ![d] = s] /\ UNCHANGED tables
  BY DEF LockDashboard
<1>6. /\ q.op = request[s].op /\ q.dashboard = d /\ q.row = dashboards[d]
      /\ q.version = request[s].version
      /\ q.opened = request[s].opened /\ q.stage = "check"
  BY <1>1 DEF Request
<1> HIDE DEF q
<1>7. request'[s] = q /\ \A r \in Sessions \ {s} : request'[r] = request[r]
  BY <1>5 DEF DashboardsInv, TypeOK
<1>8. lock'[d] = s
  BY <1>1, <1>2, <1>5
<1>9. request[s].op # "purge"
  BY <1>2 DEF Changes, SourceOperations
<1>10. RequestInv(s)'
  BY <1>1, <1>2, <1>5, <1>6, <1>7, <1>8, <1>9
  DEF RequestInv, LockedIsAsRead, WaitingIsForRow, OpenedIsPast, PurgingIsExpired, tables
<1>11. lock' \in [Dashboards \cup Templates -> Sessions \cup {NoSession}]
  BY <1>1, <1>5
<1>12. TypeOK'
  BY <1>4, <1>5, <1>11, RequestType DEF DashboardsInv
<1>13. \A e \in Dashboards : IsLockedByOther(s, e) => lock'[e] = lock[e]
  BY <1>1, <1>2, <1>5 DEF IsLockedByOther
<1>14. QED
  BY <1>5, <1>7, <1>10, <1>12, <1>13, QuietKept

LEMMA LockTemplateKept ==
  ASSUME DashboardsInv, NEW s \in Sessions, LockTemplate(s)
  PROVE  DashboardsInv'
<1> DEFINE t == request[s].template
<1>1. /\ request[s] \in Request /\ RequestInv(s)
      /\ t \in Templates /\ templates[t] \in TemplateRow
      /\ lock \in [Dashboards \cup Templates -> Sessions \cup {NoSession}]
  BY DEF DashboardsInv, TypeOK, RequestInv, WaitingIsForRow, LockTemplate
<1> DEFINE q == [request[s] EXCEPT !.template_row = templates[t], !.stage = "check_template"]
<1>2. q \in Request
  BY <1>1, TemplateLockedType
<1>3. request' = [request EXCEPT ![s] = q] /\ lock' = [lock EXCEPT ![t] = s] /\ UNCHANGED tables
  BY DEF LockTemplate
<1>4. /\ q.op = request[s].op /\ q.dashboard = request[s].dashboard
      /\ q.opened = request[s].opened /\ q.now = request[s].now /\ q.stage = "check_template"
  BY <1>1 DEF Request
<1> HIDE DEF q
<1>5. request'[s] = q /\ \A r \in Sessions \ {s} : request'[r] = request[r]
  BY <1>3 DEF DashboardsInv, TypeOK
<1>6. RequestInv(s)'
  BY <1>1, <1>3, <1>4, <1>5
  DEF RequestInv, LockedIsAsRead, WaitingIsForRow, OpenedIsPast, PurgingIsExpired, tables
<1>7. lock' \in [Dashboards \cup Templates -> Sessions \cup {NoSession}]
  BY <1>1, <1>3
<1>8. TypeOK'
  BY <1>2, <1>3, <1>7, RequestType DEF DashboardsInv
<1>9. \A e \in Dashboards : lock'[e] = lock[e]
  BY <1>1, <1>3, DashboardsAssumption
<1>10. QED
  BY <1>3, <1>5, <1>6, <1>8, <1>9, QuietKept

LEMMA CheckChangeKept ==
  ASSUME DashboardsInv, NEW s \in Sessions, CheckChange(s)
  PROVE  DashboardsInv'
<1>1. /\ request[s] \in Request /\ LockedIsAsRead(s) /\ Proceed(s, "commit")
      /\ request[s].op \in Changes /\ request[s].stage = "check"
  BY DEF DashboardsInv, TypeOK, RequestInv, CheckChange, At
<1>2. request'[s] = [request[s] EXCEPT !.stage = "commit"] /\ UNCHANGED <<tables, lock>>
  BY <1>1 DEF Proceed, DashboardsInv, TypeOK
<1>3. /\ request'[s].stage = "commit" /\ request'[s].op = request[s].op
      /\ request'[s].dashboard = request[s].dashboard /\ request'[s].opened = request[s].opened
      /\ request'[s].row = request[s].row /\ request'[s].user = request[s].user
      /\ request'[s].version = request[s].version
  BY <1>1, <1>2, StageFields DEF Stages
<1>4. /\ Capable(s, Needed(request[s].op))' /\ RevisionAsExpected(s)'
      /\ request[s].op = "delete" => ~ IsReferenced(request[s].dashboard)'
  BY <1>2, <1>3
  DEF CheckChange, Capable, Needed, RevisionAsExpected, MayChange, IsReferenced, tables
<1>5. /\ request[s].op # "purge"
      /\ IF request[s].op = "restore" THEN request[s].row.status = "deleted"
         ELSE Live(request[s].row)
  BY <1>1 DEF CheckChange, Changes
<1>6. LockedIsAsRead(s)'
  BY <1>1, <1>2, <1>3, <1>4, <1>5 DEF LockedIsAsRead, Live, tables
<1>7. QED
  BY <1>1, <1>5, <1>6, ProceededKept DEF Stages

LEMMA CheckSourceKept ==
  ASSUME DashboardsInv, NEW s \in Sessions, CheckSource(s)
  PROVE  DashboardsInv'
<1>1. /\ request[s] \in Request /\ LockedIsAsRead(s) /\ Proceed(s, "commit")
      /\ request[s].op \in SourceOperations /\ request[s].stage = "check"
      /\ Live(request[s].row)
  BY DEF DashboardsInv, TypeOK, RequestInv, CheckSource, At, MayBeSource
<1>2. request'[s] = [request[s] EXCEPT !.stage = "commit"] /\ UNCHANGED <<tables, lock>>
  BY <1>1 DEF Proceed, DashboardsInv, TypeOK
<1>3. /\ request'[s].stage = "commit" /\ request'[s].op = request[s].op
      /\ request'[s].dashboard = request[s].dashboard /\ request'[s].row = request[s].row
      /\ request'[s].version = request[s].version
  BY <1>1, <1>2, StageFields DEF Stages
<1>4. request[s].op \notin Changes /\ request[s].op \notin {"purge", "delete", "restore"}
  BY <1>1 DEF Changes, SourceOperations
<1>5. LockedIsAsRead(s)'
  BY <1>1, <1>2, <1>3, <1>4 DEF LockedIsAsRead, Live, Changes, tables
<1>6. QED
  BY <1>1, <1>4, <1>5, ProceededKept DEF Stages

LEMMA OtherChecksKept ==
  ASSUME DashboardsInv, NEW s \in Sessions, ReadSource(s) \/ CheckPublish(s)
  PROVE  DashboardsInv'
<1>1. /\ request[s] \in Request /\ Proceed(s, "commit") /\ "commit" \in Stages
      /\ request[s].op \in {"instantiate", "publish_template"}
  BY DEF DashboardsInv, TypeOK, ReadSource, CheckPublish, At, Stages
<1>2. request'[s] = [request[s] EXCEPT !.stage = "commit"]
  BY <1>1 DEF Proceed, DashboardsInv, TypeOK
<1>3. request'[s].op = request[s].op
  BY <1>1, <1>2, StageFields
<1>4. LockedIsAsRead(s)'
  BY <1>1, <1>3 DEF LockedIsAsRead, Changes, SourceOperations
<1>5. QED
  BY <1>1, <1>4, ProceededKept

LEMMA CheckTemplateVersionKept ==
  ASSUME DashboardsInv, NEW s \in Sessions, NEW d \in Dashboards, NEW v \in Versions,
         CheckTemplateVersion(s, d, v)
  PROVE  DashboardsInv'
<1>1. /\ request[s] \in Request /\ request[s].op = "create_template_version"
      /\ UNCHANGED <<tables, lock>>
  BY DEF DashboardsInv, TypeOK, CheckTemplateVersion, At
<1>2. PICK u \in Users :
        request' = [request EXCEPT ![s].dashboard = d, ![s].version = v, ![s].user = u,
                                   ![s].stage = "lock"]
  BY DEF CheckTemplateVersion
<1> DEFINE q == [request[s] EXCEPT !.dashboard = d, !.version = v, !.user = u, !.stage = "lock"]
<1>3. q \in Request
  BY <1>1, SourceType
<1>4. request' = [request EXCEPT ![s] = q]
  BY <1>2
<1>5. /\ q.op = "create_template_version" /\ q.dashboard = d /\ q.version = v
      /\ q.stage = "lock"
  BY <1>1 DEF Request
<1> HIDE DEF q
<1>6. request'[s] = q
  BY <1>4 DEF DashboardsInv, TypeOK
<1>7. dashboards[d].status # "absent"
  BY DEF CheckTemplateVersion, DashboardsInv, RowInv
<1>8. RequestInv(s)'
  BY <1>1, <1>5, <1>6, <1>7
  DEF RequestInv, LockedIsAsRead, WaitingIsForRow, OpenedIsPast, PurgingIsExpired, tables,
      Changes, SourceOperations
<1>9. TypeOK'
  BY <1>1, <1>3, <1>4, RequestType DEF DashboardsInv, TypeOK
<1>10. QED
  BY <1>1, <1>4, <1>8, <1>9, QuietKept DEF DashboardsInv, TypeOK

LEMMA LockExpiredKept ==
  ASSUME DashboardsInv, NEW s \in Sessions, LockExpired(s)
  PROVE  DashboardsInv'
<1> DEFINE candidates == {d \in Expired(request[s].now) : IsFree(d)}
<1>1. /\ request[s] \in Request /\ RequestInv(s) /\ request[s].op = "purge"
      /\ lock \in [Dashboards \cup Templates -> Sessions \cup {NoSession}]
  BY DEF DashboardsInv, TypeOK, LockExpired, At
<1>2. /\ candidates \in SUBSET Dashboards
      /\ \A d \in candidates :
           /\ lock[d] = NoSession /\ dashboards[d].status = "deleted"
           /\ dashboards[d].deleted_at + Retention <= request[s].now
  BY DEF Expired, IsFree
<1>3. /\ lock' = [r \in Dashboards \cup Templates |-> IF r \in candidates THEN s ELSE lock[r]]
      /\ request' = [request EXCEPT ![s].purging = candidates, ![s].stage = "check"]
      /\ UNCHANGED tables
  BY DEF LockExpired
<1> HIDE DEF candidates
<1> DEFINE q == [request[s] EXCEPT !.purging = candidates, !.stage = "check"]
<1>4. q \in Request
  BY <1>1, <1>2, PurgingType DEF Stages
<1>5. request' = [request EXCEPT ![s] = q]
  BY <1>3
<1>6. q.op = "purge" /\ q.stage = "check" /\ q.purging = candidates /\ q.now = request[s].now
  BY <1>1 DEF Request
<1> HIDE DEF q
<1>7. request'[s] = q /\ \A r \in Sessions \ {s} : request'[r] = request[r]
  BY <1>5 DEF DashboardsInv, TypeOK
<1>8. \A d \in candidates : lock'[d] = s
  BY <1>2, <1>3
<1>9. RequestInv(s)'
  BY <1>1, <1>2, <1>3, <1>6, <1>7, <1>8
  DEF RequestInv, LockedIsAsRead, WaitingIsForRow, OpenedIsPast, PurgingIsExpired, tables,
      Changes, SourceOperations
<1>10. lock' \in [Dashboards \cup Templates -> Sessions \cup {NoSession}]
  BY <1>1, <1>3
<1>11. TypeOK'
  BY <1>3, <1>4, <1>5, <1>10, RequestType DEF DashboardsInv
<1>12. \A d \in Dashboards : IsLockedByOther(s, d) => lock'[d] = lock[d]
  BY <1>2, <1>3 DEF IsLockedByOther
<1>13. QED
  BY <1>3, <1>7, <1>9, <1>11, <1>12, QuietKept

LEMMA CheckPurgeKept ==
  ASSUME DashboardsInv, NEW s \in Sessions, CheckPurge(s)
  PROVE  DashboardsInv'
<1> DEFINE eligible == {d \in request[s].purging : ~ IsReferenced(d)}
<1>1. /\ request[s] \in Request /\ RequestInv(s)
      /\ request[s].op = "purge" /\ request[s].stage = "check"
  BY DEF DashboardsInv, TypeOK, CheckPurge, At
<1>2. eligible \in SUBSET Dashboards /\ eligible \subseteq request[s].purging
  BY <1>1, RequestFields
<1>3. /\ request' = [request EXCEPT ![s].purging = eligible, ![s].stage = "commit"]
      /\ UNCHANGED <<tables, lock>>
  BY DEF CheckPurge
<1> HIDE DEF eligible
<1> DEFINE q == [request[s] EXCEPT !.purging = eligible, !.stage = "commit"]
<1>4. q \in Request
  BY <1>1, <1>2, PurgingType DEF Stages
<1>5. request' = [request EXCEPT ![s] = q]
  BY <1>3
<1>6. q.op = "purge" /\ q.stage = "commit" /\ q.purging = eligible /\ q.now = request[s].now
  BY <1>1 DEF Request
<1> HIDE DEF q
<1>7. request'[s] = q /\ \A r \in Sessions \ {s} : request'[r] = request[r]
  BY <1>5 DEF DashboardsInv, TypeOK
<1>8. RequestInv(s)'
  BY <1>1, <1>2, <1>3, <1>6, <1>7
  DEF RequestInv, LockedIsAsRead, WaitingIsForRow, OpenedIsPast, PurgingIsExpired, tables,
      Changes, SourceOperations
<1>9. TypeOK'
  BY <1>3, <1>4, <1>5, RequestType DEF DashboardsInv, TypeOK
<1>10. QED
  BY <1>3, <1>7, <1>8, <1>9, QuietKept

-----------------------------------------------------------------------------
(* Requests that commit.                                                   *)

LEMMA FinishLocks ==
  ASSUME DashboardsInv, NEW s \in Sessions, Finish(s)
  PROVE  /\ request'[s] = NoRequest
         /\ \A r \in Sessions \ {s} : request'[r] = request[r]
         /\ \A d \in Dashboards : lock[d] # s => lock'[d] = lock[d]
  BY DEF Finish, DashboardsInv, TypeOK

(* A change of the locked dashboard is one the others know of by its       *)
(* revision, and it leaves a source where a template shows it.             *)
LEMMA CommitKept ==
  ASSUME DashboardsInv, NEW s \in Sessions, NEW row \in DashboardRow, Commit(s, row),
         request[s].op \in Changes, request[s].stage = "commit",
         row.revision = request[s].row.revision + 1,
         row.status \in {"draft", "active", "deleted"},
         row.status = "deleted" => request[s].op = "delete",
         row.current_version \in Versions,
         dashboard_versions' \in
           [Dashboards -> [Versions -> {"absent", "draft", "active", "archived"}]],
         \A e \in Dashboards \ {request[s].dashboard} :
           dashboard_versions'[e] = dashboard_versions[e],
         \A v \in Versions : dashboard_versions[request[s].dashboard][v] # "absent" =>
                               dashboard_versions'[request[s].dashboard][v] # "absent",
         \A v, w \in Versions :
           /\ dashboard_versions'[request[s].dashboard][v] = "active"
           /\ dashboard_versions'[request[s].dashboard][w] = "active"
           => v = w,
         row.status = "active" =>
           dashboard_versions'[request[s].dashboard][row.current_version] = "active"
  PROVE  DashboardsInv'
<1> DEFINE d == request[s].dashboard
<1>1. /\ d \in Dashboards /\ lock[d] = s /\ request[s].row = dashboards[d]
      /\ dashboards[d].status \in {"draft", "active", "deleted"}
      /\ request[s].op = "delete" => ~ IsReferenced(d)
  BY DEF DashboardsInv, RequestInv, LockedIsAsRead, Live
<1>2. dashboards[d].revision \in Nat /\ row.revision > dashboards[d].revision /\ row.revision > 0
  BY <1>1, DashboardsAssumption DEF DashboardsInv, TypeOK, DashboardRow
<1>3. /\ dashboards'[d] = row /\ \A e \in Dashboards \ {d} : dashboards'[e] = dashboards[e]
      /\ UNCHANGED <<templates, template_versions, clock, origin>> /\ Finish(s)
  BY <1>1 DEF Commit, DashboardsInv, TypeOK
<1>4. TypeOK'
  BY <1>1, CommitTypes DEF DashboardsInv
<1>5. Respects(s)
  BY <1>1, <1>2, <1>3, FinishLocks DEF Respects, IsLockedByOther, IsReferenced, Live
<1>6. \A r \in Sessions : RequestInv(r)'
  BY <1>3, <1>4, <1>5, FinishLocks, FinishedKept, OthersKept DEF TypeOK
<1>7. \A e \in Dashboards : RowInv(e)'
  BY <1>2, <1>3 DEF DashboardsInv, RowInv, Live
<1>8. TemplateSourcesAvailable'
  <2>1. SUFFICES ASSUME NEW t \in Templates, NEW n \in TemplateVersions,
                        template_versions[t][n] # NoSource
                 PROVE  /\ Live(dashboards'[template_versions[t][n].dashboard])
                        /\ dashboard_versions'[template_versions[t][n].dashboard]
                             [template_versions[t][n].version] # "absent"
    BY <1>3 DEF TemplateSourcesAvailable, Live
  <2> DEFINE source == template_versions[t][n]
  <2>2. source.dashboard \in Dashboards /\ source.version \in Versions
    BY <2>1 DEF DashboardsInv, TypeOK, Source
  <2>3. /\ Live(dashboards[source.dashboard])
        /\ dashboard_versions[source.dashboard][source.version] # "absent"
    BY <2>1 DEF DashboardsInv, TemplateSourcesAvailable
  <2>4. CASE source.dashboard = d
    BY <1>1, <1>3, <2>2, <2>3, <2>4 DEF IsReferenced, Live
  <2>5. CASE source.dashboard # d
    BY <1>3, <2>2, <2>3, <2>5
  <2>6. QED
    BY <2>4, <2>5
<1>9. ActiveIsCurrent'
  BY <1>3 DEF DashboardsInv, ActiveIsCurrent
<1>10. QED
  BY <1>4, <1>6, <1>7, <1>8, <1>9 DEF DashboardsInv

LEMMA ChangedRow ==
  ASSUME DashboardsInv, NEW s \in Sessions, request[s].op \in Changes,
         request[s].stage = "commit", request[s].row.revision < MaxRevision
  PROVE  /\ request[s].dashboard \in Dashboards /\ Changed(s) \in DashboardRow
         /\ Changed(s).revision = request[s].row.revision + 1
         /\ Changed(s).status = request[s].row.status
         /\ request[s].op # "restore" => Live(Changed(s))
         /\ Changed(s).current_version = request[s].row.current_version
         /\ request[s].row.current_version \in Versions
         /\ request[s].row = dashboards[request[s].dashboard]
<1>1. /\ request[s].dashboard \in Dashboards
      /\ request[s].op # "restore" => Live(request[s].row)
      /\ request[s].row = dashboards[request[s].dashboard]
      /\ request[s].row.current_version \in Versions
  BY DEF DashboardsInv, RequestInv, LockedIsAsRead, RowInv, Live
<1>2. request[s].row \in DashboardRow
  BY RequestFields DEF DashboardsInv, TypeOK
<1>3. Changed(s) \in DashboardRow
  BY <1>1, ChangedType DEF DashboardsInv
<1>4. /\ Changed(s).revision = request[s].row.revision + 1
      /\ Changed(s).status = request[s].row.status
      /\ Changed(s).current_version = request[s].row.current_version
  BY <1>2 DEF Changed, DashboardRow
<1>5. QED
  BY <1>1, <1>3, <1>4 DEF Live

LEMMA ChangesKept ==
  ASSUME DashboardsInv, NEW s \in Sessions,
         \/ SaveDashboardVersion(s) \/ ActivateDashboard(s) \/ DeleteDashboard(s)
         \/ RestoreDashboard(s) \/ ReplaceDashboardPermissions(s)
  PROVE  DashboardsInv'
<1> DEFINE d == request[s].dashboard
<1>1. /\ request[s].op \in Changes /\ request[s].stage = "commit"
      /\ request[s].row.revision < MaxRevision
  BY DEF SaveDashboardVersion, ActivateDashboard, DeleteDashboard, RestoreDashboard,
         ReplaceDashboardPermissions, At, Commit, Changes
<1>2. /\ d \in Dashboards /\ Changed(s) \in DashboardRow
      /\ Changed(s).revision = request[s].row.revision + 1
      /\ Changed(s).status = request[s].row.status
      /\ request[s].op # "restore" => Live(Changed(s))
      /\ Changed(s).current_version = request[s].row.current_version
      /\ request[s].row.current_version \in Versions
      /\ request[s].row = dashboards[d]
  BY <1>1, ChangedRow
<1>3. /\ dashboard_versions \in
           [Dashboards -> [Versions -> {"absent", "draft", "active", "archived"}]]
      /\ clock \in 0 .. MaxClock /\ 0 \in 0 .. MaxClock
      /\ request[s].row.current_version \in 0 .. MaxVersions
  BY DashboardsAssumption, RequestFields DEF DashboardsInv, TypeOK, DashboardRow
<1>4. /\ \A v, w \in Versions :
           dashboard_versions[d][v] = "active" /\ dashboard_versions[d][w] = "active" => v = w
      /\ dashboards[d].status = "active" =>
           dashboard_versions[d][dashboards[d].current_version] = "active"
  BY <1>2 DEF DashboardsInv, ActiveIsCurrent
<1>5. CASE SaveDashboardVersion(s)
  <2> DEFINE n == request[s].row.current_version + 1
             row == [Changed(s) EXCEPT !.current_version = n, !.status = "draft"]
  <2>1. /\ n \in Versions /\ Commit(s, row)
        /\ dashboard_versions' = [dashboard_versions EXCEPT ![d][n] = "draft"]
    BY <1>5 DEF SaveDashboardVersion
  <2>2. /\ row \in DashboardRow /\ row.revision = Changed(s).revision /\ row.status = "draft"
        /\ row.current_version = n
    <3>1. n \in 0 .. MaxVersions
      BY <2>1, DashboardsAssumption DEF Versions
    <3> HIDE DEF n
    <3>2. QED
      BY <1>2, <3>1 DEF DashboardRow, Live
  <2> HIDE DEF row, n
  <2>3. /\ dashboard_versions' \in
             [Dashboards -> [Versions -> {"absent", "draft", "active", "archived"}]]
        /\ \A e \in Dashboards \ {d} : dashboard_versions'[e] = dashboard_versions[e]
        /\ \A v \in Versions : dashboard_versions[d][v] # "absent" =>
                                 dashboard_versions'[d][v] # "absent"
    BY <1>2, <1>3, <2>1
  <2>4. \A v, w \in Versions :
          dashboard_versions'[d][v] = "active" /\ dashboard_versions'[d][w] = "active" => v = w
    BY <1>2, <1>3, <1>4, <2>1
  <2>5. QED
    BY <1>1, <1>2, <2>1, <2>2, <2>3, <2>4, CommitKept
<1>6. CASE ActivateDashboard(s)
  <2> DEFINE n == request[s].row.current_version
             row == [Changed(s) EXCEPT !.status = "active"]
  <2>1. /\ Commit(s, row)
        /\ dashboard_versions' = [dashboard_versions EXCEPT ![d] = Activated(d, n)]
    BY <1>6 DEF ActivateDashboard
  <2>2. /\ row \in DashboardRow /\ row.revision = Changed(s).revision /\ row.status = "active"
        /\ row.current_version = n /\ n \in Versions
    BY <1>2, <1>3, <2>1 DEF DashboardRow, Live
  <2> HIDE DEF row, n
  <2>3. /\ \A v \in Versions : Activated(d, n)[v] = "active" <=> v = n
        /\ Activated(d, n) \in [Versions -> {"absent", "draft", "active", "archived"}]
        /\ \A v \in Versions : dashboard_versions[d][v] # "absent" => Activated(d, n)[v] # "absent"
    BY <1>2, <1>3 DEF Activated
  <2>4. /\ dashboard_versions' \in
             [Dashboards -> [Versions -> {"absent", "draft", "active", "archived"}]]
        /\ \A e \in Dashboards \ {d} : dashboard_versions'[e] = dashboard_versions[e]
        /\ \A v \in Versions : dashboard_versions[d][v] # "absent" =>
                                 dashboard_versions'[d][v] # "absent"
        /\ \A v \in Versions : dashboard_versions'[d][v] = "active" <=> v = n
    BY <1>2, <1>3, <2>1, <2>3
  <2>5. QED
    BY <1>1, <1>2, <2>1, <2>2, <2>4, CommitKept
<1>7. CASE DeleteDashboard(s)
  <2> DEFINE row == [Changed(s) EXCEPT !.status = "deleted", !.deleted_at = clock]
  <2>1. Commit(s, row) /\ UNCHANGED dashboard_versions /\ request[s].op = "delete"
    BY <1>7 DEF DeleteDashboard, At
  <2>2. /\ row \in DashboardRow /\ row.revision = Changed(s).revision /\ row.status = "deleted"
        /\ row.current_version = request[s].row.current_version
    BY <1>2, <1>3 DEF DashboardRow
  <2> HIDE DEF row
  <2>3. QED
    BY <1>1, <1>2, <1>3, <1>4, <2>1, <2>2, CommitKept
<1>8. CASE RestoreDashboard(s)
  <2> DEFINE row == [Changed(s) EXCEPT !.status = "draft", !.deleted_at = 0]
  <2>1. Commit(s, row) /\ UNCHANGED dashboard_versions
    BY <1>8 DEF RestoreDashboard, RestoredStatus
  <2>2. /\ row \in DashboardRow /\ row.revision = Changed(s).revision /\ row.status = "draft"
        /\ row.current_version = request[s].row.current_version
    BY <1>2, <1>3 DEF DashboardRow, Live
  <2> HIDE DEF row
  <2>3. QED
    BY <1>1, <1>2, <1>3, <1>4, <2>1, <2>2, CommitKept
<1>9. CASE ReplaceDashboardPermissions(s)
  <2>1. PICK g \in Grants : Commit(s, [Changed(s) EXCEPT !.grants = g])
    BY <1>9 DEF ReplaceDashboardPermissions
  <2> DEFINE row == [Changed(s) EXCEPT !.grants = g]
  <2>2. /\ Commit(s, row) /\ UNCHANGED dashboard_versions
        /\ request[s].op \in {"permissions", "permissions_unchecked"}
    BY <1>9, <2>1 DEF ReplaceDashboardPermissions, At
  <2>3. /\ row \in DashboardRow /\ row.revision = Changed(s).revision
        /\ row.status \in {"draft", "active"}
        /\ row.status = request[s].row.status
        /\ row.current_version = request[s].row.current_version
    BY <1>2, <2>2, DashboardsAssumption DEF DashboardRow, Live
  <2> HIDE DEF row
  <2>4. QED
    BY <1>1, <1>2, <1>3, <1>4, <2>2, <2>3, CommitKept
<1>10. QED
  BY <1>5, <1>6, <1>7, <1>8, <1>9

(* A new dashboard is nothing that a request or a template knows of.       *)
LEMMA InsertKept ==
  ASSUME DashboardsInv, NEW s \in Sessions, NEW d \in Dashboards, NEW from, Insert(d, from),
         from \in [template : Templates \cup {NoTemplate}, number : 0 .. MaxTemplateVersions],
         request' \in [Sessions -> Request],
         lock' \in [Dashboards \cup Templates -> Sessions \cup {NoSession}],
         request'[s] = NoRequest,
         \A r \in Sessions \ {s} : request'[r] = request[r],
         \A e \in Dashboards : lock[e] # s => lock'[e] = lock[e]
  PROVE  DashboardsInv'
<1>1. /\ dashboards[d].status = "absent" /\ dashboards[d].revision = 0
      /\ dashboards'[d] = NewDashboard
      /\ \A e \in Dashboards \ {d} : /\ dashboards'[e] = dashboards[e]
                                     /\ dashboard_versions'[e] = dashboard_versions[e]
      /\ UNCHANGED <<templates, template_versions, clock>>
  BY DEF Insert, DashboardsInv, TypeOK, RowInv
<1>2. /\ NewDashboard.status = "draft" /\ NewDashboard.revision = 1
      /\ NewDashboard.current_version = 1 /\ 1 \in Versions
  BY DashboardsAssumption DEF NewDashboard, Versions
<1>3. TypeOK'
  <2>1. dashboards' \in [Dashboards -> DashboardRow]
    BY RowTypes DEF Insert, DashboardsInv, TypeOK
  <2>2. 1 \in Versions
    BY DashboardsAssumption DEF Versions
  <2>3. dashboard_versions' \in
          [Dashboards -> [Versions -> {"absent", "draft", "active", "archived"}]]
    BY <2>2 DEF Insert, DashboardsInv, TypeOK
  <2>4. origin' \in [Dashboards ->
          [template : Templates \cup {NoTemplate}, number : 0 .. MaxTemplateVersions]]
    BY DEF Insert, DashboardsInv, TypeOK
  <2>5. QED
    BY <1>1, <2>1, <2>3, <2>4 DEF DashboardsInv, TypeOK
<1>4. Respects(s)
  BY <1>1, <1>2 DEF Respects, IsLockedByOther, IsReferenced
<1>5. \A r \in Sessions : RequestInv(r)'
  BY <1>3, <1>4, FinishedKept, OthersKept DEF TypeOK
<1>6. \A e \in Dashboards : RowInv(e)'
  BY <1>1, <1>2 DEF DashboardsInv, RowInv
<1>7. TemplateSourcesAvailable'
  <2>1. SUFFICES ASSUME NEW t \in Templates, NEW n \in TemplateVersions,
                        template_versions[t][n] # NoSource
                 PROVE  /\ Live(dashboards'[template_versions[t][n].dashboard])
                        /\ dashboard_versions'[template_versions[t][n].dashboard]
                             [template_versions[t][n].version] # "absent"
    BY <1>1 DEF TemplateSourcesAvailable, Live
  <2> DEFINE source == template_versions[t][n]
  <2>2. source.dashboard \in Dashboards
    BY <2>1 DEF DashboardsInv, TypeOK, Source
  <2>3. /\ Live(dashboards[source.dashboard])
        /\ dashboard_versions[source.dashboard][source.version] # "absent"
    BY <2>1 DEF DashboardsInv, TemplateSourcesAvailable
  <2>4. source.dashboard # d
    BY <1>1, <2>3 DEF Live
  <2>5. QED
    BY <1>1, <2>2, <2>3, <2>4
<1>8. ActiveIsCurrent'
  <2>1. \A v \in Versions : dashboard_versions'[d][v] # "active"
    BY <1>1 DEF Insert, DashboardsInv, RowInv, TypeOK
  <2>2. QED
    BY <1>1, <1>2, <2>1 DEF DashboardsInv, ActiveIsCurrent
<1>9. QED
  BY <1>3, <1>5, <1>6, <1>7, <1>8 DEF DashboardsInv

LEMMA NewDashboardsKept ==
  ASSUME DashboardsInv, NEW s \in Sessions, NEW d \in Dashboards,
         CreateDashboard(s, d) \/ InstantiateDashboardTemplate(s, d)
  PROVE  DashboardsInv'
<1>1. CASE CreateDashboard(s, d)
  BY <1>1, InsertKept DEF CreateDashboard, DashboardsInv, TypeOK
<1>2. CASE InstantiateDashboardTemplate(s, d)
  <2> DEFINE from == [template |-> request[s].template, number |-> request[s].number]
  <2>1. from \in [template : Templates \cup {NoTemplate}, number : 0 .. MaxTemplateVersions]
    BY RequestFields DEF DashboardsInv, TypeOK
  <2>2. Insert(d, from) /\ Finish(s)
    BY <1>2 DEF InstantiateDashboardTemplate
  <2> HIDE DEF from
  <2>3. QED
    BY <2>1, <2>2, InsertKept, FinishLocks, FinishTypes DEF DashboardsInv
<1>3. QED
  BY <1>1, <1>2

(* The source that a template shows from now on is locked and not deleted. *)
LEMMA ShowSourceKept ==
  ASSUME DashboardsInv, NEW s \in Sessions, NEW t, NEW n \in TemplateVersions,
         At(s, SourceOperations, "commit"), ShowSource(s, t, n), Finish(s),
         templates' \in [Templates -> TemplateRow],
         UNCHANGED <<dashboards, dashboard_versions, clock, origin>>
  PROVE  DashboardsInv'
<1> DEFINE d == request[s].dashboard
           v == request[s].version
           source == [dashboard |-> d, version |-> v]
<1>1. /\ d \in Dashboards /\ lock[d] = s /\ Live(dashboards[d])
  BY DEF DashboardsInv, RequestInv, LockedIsAsRead, At, SourceOperations
<1>2. /\ v \in 0 .. MaxVersions /\ dashboard_versions[d][v] # "absent"
      /\ template_versions' = [template_versions EXCEPT ![t][n] = source]
  BY RequestFields DEF ShowSource, SourceIsThere, DashboardsInv, TypeOK
<1>3. /\ request' \in [Sessions -> Request]
      /\ lock' \in [Dashboards \cup Templates -> Sessions \cup {NoSession}]
  BY FinishTypes DEF DashboardsInv
<1>4. source \in Source
  BY <1>1 DEF Source, DashboardsInv, RequestInv, LockedIsAsRead, At
<1> HIDE DEF source
<1>5. template_versions' \in [Templates -> [TemplateVersions -> Source \cup {NoSource}]]
  BY <1>2, <1>4 DEF DashboardsInv, TypeOK
<1>6. TypeOK'
  BY <1>3, <1>5 DEF DashboardsInv, TypeOK
<1>7. \A u \in Templates, m \in TemplateVersions :
        template_versions'[u][m] \in {template_versions[u][m], source}
  BY <1>2 DEF DashboardsInv, TypeOK
<1>8. Respects(s)
  <2>1. ASSUME NEW e \in Dashboards, lock[e] # s, IsReferenced(e)'
        PROVE  IsReferenced(e)
    <3>1. source.dashboard # e
      BY <1>1, <2>1 DEF source
    <3>2. PICK u \in Templates, m \in TemplateVersions : template_versions'[u][m].dashboard = e
      BY <2>1 DEF IsReferenced
    <3>3. QED
      BY <1>7, <3>1, <3>2 DEF IsReferenced
  <2>2. QED
    BY <2>1, FinishLocks DEF Respects, IsLockedByOther
<1>9. \A r \in Sessions : RequestInv(r)'
  BY <1>6, <1>8, FinishLocks, FinishedKept, OthersKept DEF TypeOK
<1>10. \A e \in Dashboards : RowInv(e)'
  BY DEF DashboardsInv, RowInv
<1>11. TemplateSourcesAvailable'
  <2>1. Live(dashboards[source.dashboard])
        /\ dashboard_versions[source.dashboard][source.version] # "absent"
    BY <1>1, <1>2 DEF source
  <2>2. QED
    BY <1>7, <2>1 DEF DashboardsInv, TemplateSourcesAvailable, Live
<1>12. ActiveIsCurrent'
  BY DEF DashboardsInv, ActiveIsCurrent
<1>13. QED
  BY <1>6, <1>9, <1>10, <1>11, <1>12 DEF DashboardsInv

LEMMA TemplatesKept ==
  ASSUME DashboardsInv, NEW s \in Sessions,
         \/ \E t \in Templates : CreateDashboardTemplate(s, t)
         \/ CreateDashboardTemplateVersion(s)
         \/ PublishDashboardTemplate(s)
  PROVE  DashboardsInv'
<1>1. /\ request[s].template_row \in TemplateRow /\ templates \in [Templates -> TemplateRow]
      /\ 1 \in TemplateVersions
  BY RequestFields, DashboardsAssumption DEF DashboardsInv, TypeOK, TemplateVersions
<1>2. ASSUME NEW t \in Templates, CreateDashboardTemplate(s, t)
      PROVE  DashboardsInv'
  <2>1. [status |-> "draft", revision |-> 1, current_version |-> 1] \in TemplateRow
    BY DashboardsAssumption DEF TemplateRow
  <2>2. templates' \in [Templates -> TemplateRow] /\ At(s, SourceOperations, "commit")
    BY <1>1, <1>2, <2>1 DEF CreateDashboardTemplate, At, SourceOperations
  <2>3. QED
    BY <1>1, <1>2, <2>2, ShowSourceKept DEF CreateDashboardTemplate
<1>3. CASE CreateDashboardTemplateVersion(s)
  <2> DEFINE t == request[s].template
             n == request[s].template_row.current_version + 1
             row == [status |-> "draft", revision |-> request[s].template_row.revision + 1,
                     current_version |-> n]
  <2>1. n \in TemplateVersions /\ request[s].template_row.revision < MaxRevision
    BY <1>3 DEF CreateDashboardTemplateVersion
  <2>2. row \in TemplateRow
    BY <1>1, <2>1, DashboardsAssumption DEF TemplateRow, TemplateVersions
  <2>3. /\ templates' = [templates EXCEPT ![t] = row] /\ ShowSource(s, t, n) /\ Finish(s)
        /\ UNCHANGED <<dashboards, dashboard_versions, clock, origin>>
        /\ At(s, SourceOperations, "commit")
    BY <1>3 DEF CreateDashboardTemplateVersion, At, SourceOperations
  <2> HIDE DEF row, n
  <2>4. templates' \in [Templates -> TemplateRow]
    BY <1>1, <2>2, <2>3
  <2>5. QED
    BY <2>1, <2>3, <2>4, ShowSourceKept
<1>4. CASE PublishDashboardTemplate(s)
  <2> DEFINE row == [request[s].template_row EXCEPT !.status = "published", !.revision = @ + 1]
  <2>1. request[s].template_row.revision + 1 \in 0 .. MaxRevision
    BY <1>1, <1>4, DashboardsAssumption DEF PublishDashboardTemplate, TemplateRow
  <2>2. row \in TemplateRow
    BY <1>1, <2>1 DEF TemplateRow
  <2> HIDE DEF row
  <2>3. /\ templates' = [templates EXCEPT ![request[s].template] = row] /\ Finish(s)
        /\ UNCHANGED <<dashboards, dashboard_versions, template_versions, clock, origin>>
    BY <1>4 DEF PublishDashboardTemplate, row
  <2>4. templates' \in [Templates -> TemplateRow]
    BY <1>1, <2>2, <2>3
  <2>5. TypeOK'
    BY <2>3, <2>4, FinishTypes DEF DashboardsInv, TypeOK
  <2>6. Respects(s)
    BY <2>3, FinishLocks DEF Respects, IsLockedByOther, IsReferenced
  <2>7. \A r \in Sessions : RequestInv(r)'
    BY <2>3, <2>5, <2>6, FinishLocks, FinishedKept, OthersKept DEF TypeOK
  <2>8. QED
    BY <2>3, <2>5, <2>7 DEF DashboardsInv, RowInv, TemplateSourcesAvailable, ActiveIsCurrent
<1>5. QED
  BY <1>2, <1>3, <1>4

(* The script purges what it has locked, which is deleted: nothing shows it.*)
LEMMA PurgeKept ==
  ASSUME DashboardsInv, NEW s \in Sessions, PurgeExpiredDashboards(s)
  PROVE  DashboardsInv'
<1> DEFINE purging == request[s].purging
<1>1. \A d \in purging : d \in Dashboards /\ lock[d] = s /\ dashboards[d].status = "deleted"
  <2>1. purging \in SUBSET Dashboards
    BY RequestFields DEF DashboardsInv, TypeOK
  <2>2. QED
    BY <2>1 DEF DashboardsInv, RequestInv, PurgingIsExpired, PurgeExpiredDashboards, At
<1>2. /\ \A d \in purging : dashboards'[d].status = "purged"
      /\ \A d \in Dashboards \ purging :
           dashboards'[d] = dashboards[d] /\ dashboard_versions'[d] = dashboard_versions[d]
      /\ UNCHANGED <<templates, template_versions, clock, origin>> /\ Finish(s)
  BY <1>1 DEF PurgeExpiredDashboards, NoRow
<1>3. TypeOK'
  <2>1. [NoRow EXCEPT !.status = "purged"] \in DashboardRow
    BY RowTypes DEF DashboardRow
  <2>2. dashboards' \in [Dashboards -> DashboardRow]
    BY <2>1 DEF PurgeExpiredDashboards, DashboardsInv, TypeOK
  <2>3. dashboard_versions' \in
          [Dashboards -> [Versions -> {"absent", "draft", "active", "archived"}]]
    BY DEF PurgeExpiredDashboards, DashboardsInv, TypeOK
  <2>4. QED
    BY <1>2, <2>2, <2>3, FinishTypes DEF DashboardsInv, TypeOK
<1>4. Respects(s)
  BY <1>1, <1>2, FinishLocks DEF Respects, IsLockedByOther, IsReferenced
<1>5. \A r \in Sessions : RequestInv(r)'
  BY <1>2, <1>3, <1>4, FinishLocks, FinishedKept, OthersKept DEF TypeOK
<1>6. \A d \in Dashboards : RowInv(d)'
  BY <1>2 DEF DashboardsInv, RowInv
<1>7. TemplateSourcesAvailable'
  <2>1. SUFFICES ASSUME NEW t \in Templates, NEW n \in TemplateVersions,
                        template_versions[t][n] # NoSource
                 PROVE  /\ Live(dashboards'[template_versions[t][n].dashboard])
                        /\ dashboard_versions'[template_versions[t][n].dashboard]
                             [template_versions[t][n].version] # "absent"
    BY <1>2 DEF TemplateSourcesAvailable, Live
  <2> DEFINE source == template_versions[t][n]
  <2>2. source.dashboard \in Dashboards
    BY <2>1 DEF DashboardsInv, TypeOK, Source
  <2>3. /\ Live(dashboards[source.dashboard])
        /\ dashboard_versions[source.dashboard][source.version] # "absent"
    BY <2>1 DEF DashboardsInv, TemplateSourcesAvailable
  <2>4. source.dashboard \notin purging
    BY <1>1, <2>3 DEF Live
  <2>5. QED
    BY <1>2, <2>2, <2>3, <2>4
<1>8. ActiveIsCurrent'
  <2>1. \A d \in purging, v \in Versions : dashboard_versions'[d][v] = "absent"
    BY <1>1 DEF PurgeExpiredDashboards
  <2>2. QED
    BY <1>2, <2>1 DEF DashboardsInv, ActiveIsCurrent
<1>9. QED
  BY <1>3, <1>5, <1>6, <1>7, <1>8 DEF DashboardsInv

LEMMA RollBackKept ==
  ASSUME DashboardsInv, NEW s \in Sessions, RollBack(s)
  PROVE  DashboardsInv'
<1>1. Finish(s) /\ UNCHANGED tables
  BY DEF RollBack
<1>2. TypeOK'
  BY <1>1, FinishTypes DEF DashboardsInv, TypeOK, tables
<1>3. QED
  BY <1>1, <1>2, FinishLocks, FinishedKept, QuietKept DEF IsLockedByOther

LEMMA TickKept ==
  ASSUME DashboardsInv, Tick
  PROVE  DashboardsInv'
<1>1. /\ UNCHANGED <<dashboards, dashboard_versions, templates, template_versions, lock, request,
                     origin>>
      /\ clock \in 0 .. MaxClock /\ clock' = clock + 1 /\ clock' \in 0 .. MaxClock
  BY DashboardsAssumption DEF Tick, DashboardsInv, TypeOK
<1>2. TypeOK'
  BY <1>1 DEF DashboardsInv, TypeOK
<1>3. ASSUME NEW s \in Sessions
      PROVE  RequestInv(s)'
  <2>1. RequestInv(s) /\ request[s].now \in 0 .. MaxClock
    BY RequestFields DEF DashboardsInv, TypeOK
  <2>2. request[s].now <= clock => request[s].now <= clock'
    BY <1>1, <2>1, DashboardsAssumption
  <2>3. QED
    BY <1>1, <2>1, <2>2
    DEF RequestInv, LockedIsAsRead, WaitingIsForRow, OpenedIsPast, PurgingIsExpired,
        Capable, RevisionAsExpected, IsReferenced, Live
<1>4. QED
  BY <1>1, <1>2, <1>3 DEF DashboardsInv, RowInv, TemplateSourcesAvailable, ActiveIsCurrent, Live

-----------------------------------------------------------------------------
(* The invariant holds.                                                    *)

LEMMA InitDashboardsInv == Init => DashboardsInv
<1> SUFFICES ASSUME Init PROVE DashboardsInv
  OBVIOUS
<1>1. TypeOK
  BY RowTypes, NoRequestType, DashboardsAssumption DEF Init, TypeOK
<1>2. \A d \in Dashboards : RowInv(d)
  BY DEF Init, RowInv, NoRow
<1>3. \A s \in Sessions : RequestInv(s)
  BY DEF Init, RequestInv, LockedIsAsRead, WaitingIsForRow, OpenedIsPast, PurgingIsExpired,
         NoRequest, Changes, SourceOperations
<1>4. TemplateSourcesAvailable
  BY DEF Init, TemplateSourcesAvailable
<1>5. ActiveIsCurrent
  BY DEF Init, ActiveIsCurrent, NoRow
<1>6. QED
  BY <1>1, <1>2, <1>3, <1>4, <1>5 DEF DashboardsInv

LEMMA ReceiveKept ==
  ASSUME DashboardsInv, NEW s \in Sessions, Receive(s)
  PROVE  DashboardsInv'
<1>1. ASSUME NEW d \in Dashboards, CreateDashboard(s, d) PROVE DashboardsInv'
  BY <1>1, NewDashboardsKept
<1>2. ASSUME NEW d \in Dashboards, NEW op \in Changes, BeginChange(s, op, d) PROVE DashboardsInv'
  BY <1>2, BeginChangeKept
<1>3. ASSUME NEW d \in Dashboards, NEW v \in Versions, BeginCreateTemplate(s, d, v)
      PROVE  DashboardsInv'
  BY <1>3, BeginCreateTemplateKept
<1>4. ASSUME NEW t \in Templates, NEW op \in TemplateChanges, BeginTemplateChange(s, op, t)
      PROVE  DashboardsInv'
  BY <1>4, BeginTemplateChangeKept
<1>5. ASSUME NEW t \in Templates, NEW n \in TemplateVersions, BeginInstantiate(s, t, n)
      PROVE  DashboardsInv'
  BY <1>5, BeginInstantiateKept
<1>6. CASE BeginPurge(s)
  BY <1>6, BeginPurgeKept
<1>7. QED
  BY <1>1, <1>2, <1>3, <1>4, <1>5, <1>6 DEF Receive

LEMMA ContinueKept ==
  ASSUME DashboardsInv, NEW s \in Sessions, Continue(s)
  PROVE  DashboardsInv'
<1>1. CASE TakeTime(s)
  BY <1>1, TakeTimeKept
<1>2. CASE LockDashboard(s)
  BY <1>2, LockDashboardKept
<1>3. CASE CheckChange(s)
  BY <1>3, CheckChangeKept
<1>4. CASE \/ SaveDashboardVersion(s) \/ ActivateDashboard(s) \/ DeleteDashboard(s)
           \/ RestoreDashboard(s) \/ ReplaceDashboardPermissions(s)
  BY <1>4, ChangesKept
<1>5. CASE ReadSource(s) \/ CheckPublish(s)
  BY <1>5, OtherChecksKept
<1>6. CASE \E d \in Dashboards : InstantiateDashboardTemplate(s, d)
  BY <1>6, NewDashboardsKept
<1>7. CASE LockTemplate(s)
  BY <1>7, LockTemplateKept
<1>8. CASE \E d \in Dashboards, v \in Versions : CheckTemplateVersion(s, d, v)
  BY <1>8, CheckTemplateVersionKept
<1>9. CASE CheckSource(s)
  BY <1>9, CheckSourceKept
<1>10. CASE \/ \E t \in Templates : CreateDashboardTemplate(s, t)
            \/ CreateDashboardTemplateVersion(s) \/ PublishDashboardTemplate(s)
  BY <1>10, TemplatesKept
<1>11. CASE LockExpired(s)
  BY <1>11, LockExpiredKept
<1>12. CASE CheckPurge(s)
  BY <1>12, CheckPurgeKept
<1>13. CASE PurgeExpiredDashboards(s)
  BY <1>13, PurgeKept
<1>14. QED
  BY <1>1, <1>2, <1>3, <1>4, <1>5, <1>6, <1>7, <1>8, <1>9, <1>10, <1>11, <1>12, <1>13 DEF Continue

LEMMA StutterKept ==
  ASSUME DashboardsInv, UNCHANGED vars
  PROVE  DashboardsInv'
<1>1. TypeOK'
  BY DEF DashboardsInv, TypeOK, vars
<1>2. \A s \in Sessions : RequestInv(s)'
  BY DEF DashboardsInv, RequestInv, LockedIsAsRead, WaitingIsForRow, OpenedIsPast,
         PurgingIsExpired, Capable, RevisionAsExpected, IsReferenced, vars
<1>3. QED
  BY <1>1, <1>2 DEF DashboardsInv, RowInv, TemplateSourcesAvailable, ActiveIsCurrent, vars

LEMMA NextKept == DashboardsInv /\ [Next]_vars => DashboardsInv'
<1> SUFFICES ASSUME DashboardsInv, [Next]_vars PROVE DashboardsInv'
  OBVIOUS
<1>1. CASE Tick
  BY <1>1, TickKept
<1>2. ASSUME NEW s \in Sessions, Receive(s) PROVE DashboardsInv'
  BY <1>2, ReceiveKept
<1>3. ASSUME NEW s \in Sessions, Continue(s) PROVE DashboardsInv'
  BY <1>3, ContinueKept
<1>4. ASSUME NEW s \in Sessions, RollBack(s) PROVE DashboardsInv'
  BY <1>4, RollBackKept
<1>5. CASE UNCHANGED vars
  BY <1>5, StutterKept
<1>6. QED
  BY <1>1, <1>2, <1>3, <1>4, <1>5 DEF Next

(* What a session has locked and checked stays as it found it, and every   *)
(* row keeps its type: the locks of service.py serialize the requests.     *)
THEOREM DashboardsInvHolds == Spec => []DashboardsInv
<1>1. Init => DashboardsInv
  BY InitDashboardsInv
<1>2. DashboardsInv /\ [Next]_vars => DashboardsInv'
  BY NextKept
<1>3. QED
  BY <1>1, <1>2, PTL DEF Spec

(* Every row of dashboards, templates and their versions keeps its type.   *)
THEOREM DashboardTypeCorrect == Spec => []TypeOK
<1>1. DashboardsInv => TypeOK
  BY DEF DashboardsInv
<1>2. QED
  BY <1>1, DashboardsInvHolds, PTL

(* The source of a template is never deleted or purged under it, however   *)
(* deletions, purges and new templates interleave.                         *)
THEOREM SourcesStayAvailable == Spec => []TemplateSourcesAvailable
<1>1. DashboardsInv => TemplateSourcesAvailable
  BY DEF DashboardsInv
<1>2. QED
  BY <1>1, DashboardsInvHolds, PTL

(* No change of a dashboard uses a grant that was withdrawn meanwhile.     *)
THEOREM GrantsAreCurrent == Spec => ChangesAreGranted
<1>1. DashboardsInv => \A s \in Sessions : Commits(s, Changes) => Capable(s, Needed(request[s].op))
  BY DEF DashboardsInv, RequestInv, LockedIsAsRead, Commits, At
<1>2. DashboardsInv /\ [Next]_vars =>
        [\A s \in Sessions : Commits(s, Changes) => Capable(s, Needed(request[s].op))]_vars
  BY <1>1
<1>3. QED
  BY <1>2, DashboardsInvHolds, PTL DEF Spec, ChangesAreGranted

(* One version is active at most, and an active dashboard shows it.        *)
THEOREM ActiveStaysCurrent == Spec => []ActiveIsCurrent
<1>1. DashboardsInv => ActiveIsCurrent
  BY DEF DashboardsInv
<1>2. QED
  BY <1>1, DashboardsInvHolds, PTL

(* Every step but the purge leaves a dashboard that is not purged so.      *)
LEMMA OnlyPurgePurges ==
  ASSUME DashboardsInv, Next, NEW d \in Dashboards, dashboards[d].status # "purged",
         ~ \E s \in Sessions : PurgeExpiredDashboards(s)
  PROVE  dashboards'[d].status # "purged"
<1>1. CASE UNCHANGED dashboards
  BY <1>1
<1>2. ASSUME NEW s \in Sessions, NEW e \in Dashboards, NEW from, Insert(e, from)
      PROVE  dashboards'[d].status # "purged"
  BY <1>2 DEF Insert, NewDashboard, DashboardsInv, TypeOK
<1>3. ASSUME NEW s \in Sessions,
             \/ SaveDashboardVersion(s) \/ ActivateDashboard(s) \/ DeleteDashboard(s)
             \/ RestoreDashboard(s) \/ ReplaceDashboardPermissions(s)
      PROVE  dashboards'[d].status # "purged"
  <2>1. /\ request[s].op \in Changes /\ request[s].stage = "commit"
        /\ request[s].row.revision < MaxRevision
    BY <1>3 DEF SaveDashboardVersion, ActivateDashboard, DeleteDashboard, RestoreDashboard,
                ReplaceDashboardPermissions, At, Commit, Changes
  <2>2. /\ request[s].dashboard \in Dashboards /\ Changed(s) \in DashboardRow
        /\ request[s].op # "restore" => Live(Changed(s))
    BY <2>1, ChangedRow
  <2>3. \E row : Commit(s, row) /\ row.status # "purged"
    <3>1. CASE SaveDashboardVersion(s)
      <4> DEFINE row == [Changed(s) EXCEPT !.current_version = request[s].row.current_version + 1,
                                                 !.status = "draft"]
      <4>1. Commit(s, row)
        BY <3>1 DEF SaveDashboardVersion
      <4>2. row.status # "purged"
        BY <2>2 DEF DashboardRow
      <4> HIDE DEF row
      <4>3. QED
        BY <4>1, <4>2
    <3>2. CASE ActivateDashboard(s)
      BY <2>2, <3>2 DEF ActivateDashboard, DashboardRow
    <3>3. CASE DeleteDashboard(s)
      <4> DEFINE row == [Changed(s) EXCEPT !.status = "deleted", !.deleted_at = clock]
      <4>1. Commit(s, row)
        BY <3>3 DEF DeleteDashboard
      <4>2. row.status # "purged"
        BY <2>2 DEF DashboardRow
      <4> HIDE DEF row
      <4>3. QED
        BY <4>1, <4>2
    <3>4. CASE RestoreDashboard(s)
      <4> DEFINE row == [Changed(s) EXCEPT !.status = RestoredStatus(s), !.deleted_at = 0]
      <4>1. Commit(s, row)
        BY <3>4 DEF RestoreDashboard
      <4>2. row.status # "purged"
        BY <2>2 DEF RestoredStatus, DashboardRow
      <4> HIDE DEF row
      <4>3. QED
        BY <4>1, <4>2
    <3>5. CASE ReplaceDashboardPermissions(s)
      BY <2>2, <3>5 DEF ReplaceDashboardPermissions, At, DashboardRow, Live
    <3>6. QED
      BY <1>3, <3>1, <3>2, <3>3, <3>4, <3>5
  <2>4. PICK row : Commit(s, row) /\ row.status # "purged"
    BY <2>3
  <2>5. QED
    BY <2>2, <2>4 DEF Commit, DashboardsInv, TypeOK
<1>4. ASSUME NEW s \in Sessions, Receive(s)
      PROVE  dashboards'[d].status # "purged"
  BY <1>1, <1>2, <1>4 DEF Receive, CreateDashboard, BeginChange, BeginCreateTemplate,
     BeginTemplateChange, BeginInstantiate, BeginPurge, Begin, tables
<1>5. ASSUME NEW s \in Sessions, Continue(s)
      PROVE  dashboards'[d].status # "purged"
  <2>1. CASE \/ TakeTime(s) \/ LockDashboard(s) \/ CheckChange(s) \/ ReadSource(s)
             \/ LockTemplate(s) \/ CheckSource(s) \/ CheckPublish(s)
             \/ LockExpired(s) \/ CheckPurge(s)
    BY <1>1, <2>1 DEF TakeTime, LockDashboard, CheckChange, ReadSource, LockTemplate, CheckSource,
       CheckPublish, LockExpired, CheckPurge, Proceed, tables
  <2>2. CASE \/ \E e \in Dashboards, v \in Versions : CheckTemplateVersion(s, e, v)
             \/ \E t \in Templates : CreateDashboardTemplate(s, t)
             \/ CreateDashboardTemplateVersion(s) \/ PublishDashboardTemplate(s)
    BY <1>1, <2>2 DEF CheckTemplateVersion, CreateDashboardTemplate,
       CreateDashboardTemplateVersion, PublishDashboardTemplate, tables
  <2>3. CASE \E e \in Dashboards : InstantiateDashboardTemplate(s, e)
    BY <1>2, <2>3 DEF InstantiateDashboardTemplate
  <2>4. QED
    BY <1>3, <1>5, <2>1, <2>2, <2>3 DEF Continue
<1>6. QED
  BY <1>1, <1>4, <1>5 DEF Next, Tick, RollBack, tables

(* Only what was deleted for the whole retention is purged.                *)
THEOREM PurgeWaitsForRetention == Spec => PurgedAfterRetention
<1> DEFINE Waited(d) ==
      dashboards'[d].status = "purged" =>
        \/ dashboards[d].status = "purged"
        \/ dashboards[d].status = "deleted" /\ dashboards[d].deleted_at + Retention <= clock
<1>1. ASSUME DashboardsInv, Next, NEW d \in Dashboards, dashboards'[d].status = "purged",
             dashboards[d].status # "purged"
      PROVE  dashboards[d].status = "deleted" /\ dashboards[d].deleted_at + Retention <= clock
  <2>1. PICK s \in Sessions : PurgeExpiredDashboards(s)
    BY <1>1, OnlyPurgePurges
  <2>2. d \in request[s].purging
    BY <1>1, <2>1 DEF PurgeExpiredDashboards
  <2>3. /\ dashboards[d].status = "deleted"
        /\ dashboards[d].deleted_at + Retention <= request[s].now
        /\ request[s].now <= clock
    BY <1>1, <2>1, <2>2 DEF DashboardsInv, RequestInv, PurgingIsExpired, PurgeExpiredDashboards, At
  <2>4. /\ dashboards[d].deleted_at \in Nat /\ Retention \in Nat
        /\ request[s].now \in Nat /\ clock \in Nat
    BY <1>1, RequestFields, DashboardsAssumption DEF DashboardsInv, TypeOK, DashboardRow
  <2>5. QED
    BY <2>3, <2>4
<1>2. DashboardsInv /\ [Next]_vars => [\A d \in Dashboards : Waited(d)]_vars
  BY <1>1
<1>3. QED
  BY <1>2, DashboardsInvHolds, PTL DEF Spec, PurgedAfterRetention

-----------------------------------------------------------------------------
(* Templates.  Who has the lock of one knows it as it is, and what has been*)
(* published of it stays published.                                        *)

Advances(t) ==
  \/ templates'[t] = templates[t]
  \/ templates'[t].status # "absent" /\ templates'[t].revision > templates[t].revision

RespectsTemplates(s) ==
  /\ \A r \in Sessions \ {s} : request'[r] = request[r]
  /\ \A t \in Templates : lock[t] # s /\ lock[t] # NoSession /\ templates[t].status # "absent" =>
       lock'[t] = lock[t] /\ templates'[t] = templates[t]
  /\ \A t \in Templates : Advances(t)
  /\ \A t \in Templates, n \in 0 .. MaxTemplateVersions :
       HasBeenPublished(t, n) => HasBeenPublished(t, n)'

LEMMA OtherTemplateRequests ==
  ASSUME DashboardsInv, TemplatesInv, templates' \in [Templates -> TemplateRow],
         NEW s \in Sessions, NEW r \in Sessions \ {s}, RespectsTemplates(s)
  PROVE  TemplateRequestInv(r)'
<1>1. request'[r] = request[r] /\ request[r] \in Request /\ r # NoSession /\ r # s
  BY DashboardsAssumption DEF RespectsTemplates, DashboardsInv, TypeOK
<1>2. TemplateRequestInv(r)
  BY DEF TemplatesInv
<1>3. CASE request[r].op = "instantiate"
  <2>1. PICK t \in Templates, n \in 0 .. MaxTemplateVersions :
          /\ t = request[r].template /\ n = request[r].number /\ HasBeenPublished(t, n)
    BY <1>1, <1>2, <1>3, RequestFields DEF TemplateRequestInv
  <2>2. HasBeenPublished(t, n)'
    BY <2>1 DEF RespectsTemplates
  <2> QED
    BY <1>1, <1>3, <2>1, <2>2 DEF TemplateRequestInv, TemplateChanges, HasBeenPublished
<1>4. CASE request[r].op \in TemplateChanges
  <2>1. PICK t \in Templates : t = request[r].template /\ templates[t].status # "absent"
    BY <1>2, <1>4 DEF TemplateRequestInv
  <2>2. /\ templates[t].revision \in Nat /\ templates'[t].revision \in Nat
        /\ request[r].opened_template.revision \in Nat
    BY <1>1, RequestFields, DashboardsAssumption DEF DashboardsInv, TypeOK, TemplateRow
  <2>3. /\ templates'[t].status # "absent"
        /\ request[r].opened_template.revision <= templates'[t].revision
        /\ request[r].opened_template.revision = templates'[t].revision =>
             request[r].opened_template = templates'[t]
    <3>1. Advances(t)
      BY DEF RespectsTemplates
    <3> QED
      BY <1>2, <1>4, <2>1, <2>2, <3>1 DEF TemplateRequestInv, Advances
  <2>4. lock[t] = r => lock'[t] = r /\ templates'[t] = templates[t]
    BY <1>1, <2>1 DEF RespectsTemplates
  <2> QED
    BY <1>1, <1>2, <1>4, <2>1, <2>3, <2>4 DEF TemplateRequestInv, TemplateChanges, IsFrom
<1> QED
  BY <1>1, <1>3, <1>4 DEF TemplateRequestInv

LEMMA EndedTemplateRequest ==
  ASSUME NEW s \in Sessions, request'[s] = NoRequest
  PROVE  TemplateRequestInv(s)'
BY DEF TemplateRequestInv, NoRequest, TemplateChanges

LEMMA QuietTemplates ==
  ASSUME DashboardsInv, TemplatesInv, NEW s \in Sessions,
         UNCHANGED <<templates, template_versions>>,
         \A d \in Dashboards : origin'[d] = origin[d],
         \A r \in Sessions \ {s} : request'[r] = request[r],
         \A t \in Templates : lock[t] # s /\ lock[t] # NoSession => lock'[t] = lock[t],
         TemplateRequestInv(s)'
  PROVE  TemplatesInv'
<1>1. \A t, n : HasBeenPublished(t, n)' = HasBeenPublished(t, n)
  BY DEF HasBeenPublished
<1>2. RespectsTemplates(s)
  BY <1>1 DEF RespectsTemplates, Advances
<1>3. templates' \in [Templates -> TemplateRow]
  BY DEF DashboardsInv, TypeOK
<1>4. \A r \in Sessions : TemplateRequestInv(r)'
  BY <1>2, <1>3, OtherTemplateRequests
<1>5. \A t \in Templates : TemplateRowInv(t)'
  BY DEF TemplatesInv, TemplateRowInv
<1>6. \A d \in Dashboards : OriginInv(d)'
  BY DEF TemplatesInv, OriginInv, HasBeenPublished
<1> QED
  BY <1>4, <1>5, <1>6 DEF TemplatesInv

(* A commit that writes dashboards alone, or a rollback.                   *)
LEMMA EndedQuietly ==
  ASSUME DashboardsInv, TemplatesInv, NEW s \in Sessions, Finish(s),
         UNCHANGED <<templates, template_versions, origin>>
  PROVE  TemplatesInv'
<1>1. /\ request'[s] = NoRequest /\ \A r \in Sessions \ {s} : request'[r] = request[r]
      /\ \A t \in Templates : lock[t] # s => lock'[t] = lock[t]
  BY DEF Finish, DashboardsInv, TypeOK
<1> QED
  BY <1>1, EndedTemplateRequest, QuietTemplates

(* Steps of a request that is not about templates, or has checked its own. *)
LEMMA ProceededTemplates ==
  ASSUME DashboardsInv, TemplatesInv, NEW s \in Sessions, UNCHANGED tables,
         \A r \in Sessions \ {s} : request'[r] = request[r],
         \A t \in Templates : lock'[t] = lock[t],
         request'[s].op = request[s].op, request'[s].template = request[s].template,
         request'[s].number = request[s].number,
         request'[s].opened_template = request[s].opened_template,
         request'[s].template_row = request[s].template_row,
         request[s].op \in TemplateChanges =>
           request[s].stage \notin {"lock_template", "check_template"}
  PROVE  TemplatesInv'
<1>1. TemplateRequestInv(s) /\ templates' = templates
  BY DEF TemplatesInv, tables
<1>2. TemplateRequestInv(s)'
  BY <1>1 DEF TemplateRequestInv, TemplateChanges, HasBeenPublished, IsFrom
<1> QED
  BY <1>2, QuietTemplates DEF tables

-----------------------------------------------------------------------------
(* The steps that leave the templates as they are.                         *)

LEMMA TemplateFields ==
  ASSUME NEW q \in Request, NEW stage \in Stages
  PROVE  LET p == [q EXCEPT !.stage = stage] IN
         /\ p.stage = stage /\ p.op = q.op /\ p.template = q.template /\ p.number = q.number
         /\ p.opened_template = q.opened_template /\ p.template_row = q.template_row
  BY DEF Request

LEMMA ProceedTemplates ==
  ASSUME DashboardsInv, TemplatesInv, NEW s \in Sessions, NEW stage \in Stages,
         Proceed(s, stage),
         request[s].op \in TemplateChanges =>
           request[s].stage \notin {"lock_template", "check_template"}
  PROVE  TemplatesInv'
<1>1. request[s] \in Request
  BY DEF DashboardsInv, TypeOK
<1>2. /\ request'[s] = [request[s] EXCEPT !.stage = stage]
      /\ \A r \in Sessions \ {s} : request'[r] = request[r]
      /\ UNCHANGED tables /\ lock' = lock
  BY DEF Proceed, DashboardsInv, TypeOK
<1>3. /\ request'[s].op = request[s].op /\ request'[s].template = request[s].template
      /\ request'[s].number = request[s].number
      /\ request'[s].opened_template = request[s].opened_template
      /\ request'[s].template_row = request[s].template_row
  BY <1>1, <1>2, TemplateFields
<1> QED
  BY <1>2, <1>3, ProceededTemplates

LEMMA BegunTemplates ==
  ASSUME DashboardsInv, TemplatesInv, NEW s \in Sessions, NEW op \in AllOperations,
         NEW first \in Request, Begin(s, op, first),
         op \in TemplateChanges \cup {"instantiate"} => TemplateRequestInv(s)'
  PROVE  TemplatesInv'
<1>1. /\ request'[s] = [first EXCEPT !.op = op]
      /\ \A r \in Sessions \ {s} : request'[r] = request[r]
      /\ UNCHANGED tables /\ lock' = lock
  BY DEF Begin, DashboardsInv, TypeOK
<1>2. request'[s].op = op
  BY <1>1 DEF Request
<1>3. TemplateRequestInv(s)'
  <2>1. CASE op \in TemplateChanges \cup {"instantiate"}
    BY <2>1
  <2>2. CASE op \notin TemplateChanges \cup {"instantiate"}
    BY <1>2, <2>2 DEF TemplateRequestInv
  <2> QED
    BY <2>1, <2>2
<1> QED
  BY <1>1, <1>3, QuietTemplates DEF tables

LEMMA BeginTemplateChangeTemplates ==
  ASSUME DashboardsInv, TemplatesInv, NEW s \in Sessions, NEW op \in TemplateChanges,
         NEW t \in Templates, BeginTemplateChange(s, op, t)
  PROVE  TemplatesInv'
<1> DEFINE first == [NoRequest EXCEPT !.template = t, !.opened_template = templates[t],
                                      !.stage = "lock_template"]
<1>1. templates[t] \in TemplateRow
  BY DEF DashboardsInv, TypeOK
<1>2. first \in Request
  BY <1>1, BegunTemplateType
<1>3. /\ first.stage = "lock_template" /\ first.template = t
      /\ first.opened_template = templates[t]
  BY NoRequestType DEF Request
<1> HIDE DEF first
<1>4. Begin(s, op, first) /\ op \in AllOperations /\ templates[t].status # "absent"
  BY DEF BeginTemplateChange, first, AllOperations
<1>5. request'[s] = [first EXCEPT !.op = op] /\ templates' = templates
  BY <1>4 DEF Begin, DashboardsInv, TypeOK, tables
<1>6. /\ request'[s].op = op /\ request'[s].stage = "lock_template"
      /\ request'[s].template = t /\ request'[s].opened_template = templates[t]
  BY <1>2, <1>3, <1>5 DEF Request
<1>7. templates[t].revision \in Nat
  BY <1>1, DashboardsAssumption DEF TemplateRow
<1>8. TemplateRequestInv(s)'
  BY <1>4, <1>5, <1>6, <1>7 DEF TemplateRequestInv, TemplateChanges
<1> QED
  BY <1>2, <1>4, <1>8, BegunTemplates

LEMMA BeginInstantiateTemplates ==
  ASSUME DashboardsInv, TemplatesInv, NEW s \in Sessions, NEW t \in Templates,
         NEW n \in TemplateVersions, BeginInstantiate(s, t, n)
  PROVE  TemplatesInv'
<1> DEFINE first == [NoRequest EXCEPT !.template = t, !.number = n, !.stage = "source"]
<1>1. first \in Request
  BY BegunInstanceType
<1>2. first.template = t /\ first.number = n
  BY NoRequestType DEF Request
<1> HIDE DEF first
<1>3. Begin(s, "instantiate", first) /\ "instantiate" \in AllOperations
  BY DEF BeginInstantiate, first, AllOperations
<1>4. request'[s] = [first EXCEPT !.op = "instantiate"] /\ templates' = templates
  BY <1>3 DEF Begin, DashboardsInv, TypeOK, tables
<1>5. request'[s].op = "instantiate" /\ request'[s].template = t /\ request'[s].number = n
  BY <1>1, <1>2, <1>4 DEF Request
<1>6. HasBeenPublished(t, n)
  <2>1. n <= templates[t].current_version
    BY DEF BeginInstantiate, TemplatesInv, TemplateRowInv
  <2> QED
    BY <2>1 DEF BeginInstantiate, IsPublished, HasBeenPublished
<1>7. TemplateRequestInv(s)'
  BY <1>4, <1>5, <1>6 DEF TemplateRequestInv, TemplateChanges, HasBeenPublished
<1> QED
  BY <1>1, <1>3, <1>7, BegunTemplates

LEMMA ReceiveTemplates ==
  ASSUME DashboardsInv, TemplatesInv, NEW s \in Sessions, Receive(s)
  PROVE  TemplatesInv'
<1>1. ASSUME NEW d \in Dashboards, CreateDashboard(s, d) PROVE TemplatesInv'
  <2>1. /\ UNCHANGED <<templates, template_versions, lock, request>>
        /\ \A e \in Dashboards : origin'[e] = origin[e]
    BY <1>1 DEF CreateDashboard, Insert, DashboardsInv, TypeOK
  <2>2. TemplateRequestInv(s)'
    BY <2>1 DEF TemplatesInv, TemplateRequestInv, HasBeenPublished, IsFrom
  <2> QED
    BY <2>1, <2>2, QuietTemplates
<1>2. ASSUME NEW d \in Dashboards, NEW op \in Changes, BeginChange(s, op, d)
      PROVE  TemplatesInv'
  <2>1. PICK u \in Users :
          Begin(s, op, [NoRequest EXCEPT
            !.dashboard = d, !.user = u, !.opened = dashboards[d],
            !.stage = IF op = "restore" THEN "now" ELSE "lock"])
    BY <1>2 DEF BeginChange
  <2>2. dashboards[d] \in DashboardRow /\ op \in AllOperations
        /\ op \notin TemplateChanges \cup {"instantiate"}
        /\ (IF op = "restore" THEN "now" ELSE "lock") \in Stages
    BY <1>2 DEF DashboardsInv, TypeOK, AllOperations, Changes, TemplateChanges, Stages
  <2>3. [NoRequest EXCEPT !.dashboard = d, !.user = u, !.opened = dashboards[d],
            !.stage = IF op = "restore" THEN "now" ELSE "lock"] \in Request
    BY <2>2, BegunChangeType
  <2> QED
    BY <2>1, <2>2, <2>3, BegunTemplates
<1>3. ASSUME NEW d \in Dashboards, NEW v \in Versions, BeginCreateTemplate(s, d, v)
      PROVE  TemplatesInv'
  <2>1. PICK u \in Users :
          Begin(s, "create_template", [NoRequest EXCEPT
            !.dashboard = d, !.version = v, !.user = u, !.stage = "lock"])
    BY <1>3 DEF BeginCreateTemplate
  <2>2. "create_template" \in AllOperations
        /\ "create_template" \notin TemplateChanges \cup {"instantiate"}
    BY DEF AllOperations, TemplateChanges
  <2>3. [NoRequest EXCEPT !.dashboard = d, !.version = v, !.user = u, !.stage = "lock"]
          \in Request
    BY BegunSourceType
  <2> QED
    BY <2>1, <2>2, <2>3, BegunTemplates
<1>4. ASSUME NEW t \in Templates, NEW op \in TemplateChanges, BeginTemplateChange(s, op, t)
      PROVE  TemplatesInv'
  BY <1>4, BeginTemplateChangeTemplates
<1>5. ASSUME NEW t \in Templates, NEW n \in TemplateVersions, BeginInstantiate(s, t, n)
      PROVE  TemplatesInv'
  BY <1>5, BeginInstantiateTemplates
<1>6. CASE BeginPurge(s)
  <2>1. Begin(s, "purge", [NoRequest EXCEPT !.now = clock, !.stage = "expired"])
    BY <1>6 DEF BeginPurge
  <2>2. "purge" \in AllOperations /\ "purge" \notin TemplateChanges \cup {"instantiate"}
    BY DEF AllOperations, TemplateChanges
  <2>3. [NoRequest EXCEPT !.now = clock, !.stage = "expired"] \in Request
    BY BegunPurgeType DEF DashboardsInv, TypeOK
  <2> QED
    BY <2>1, <2>2, <2>3, BegunTemplates
<1> QED
  BY <1>1, <1>2, <1>3, <1>4, <1>5, <1>6 DEF Receive

LEMMA LockTemplateTemplates ==
  ASSUME DashboardsInv, TemplatesInv, NEW s \in Sessions, LockTemplate(s)
  PROVE  TemplatesInv'
<1> DEFINE t == request[s].template
           q == [request[s] EXCEPT !.template_row = templates[t], !.stage = "check_template"]
<1>1. /\ request[s] \in Request /\ TemplateRequestInv(s) /\ t \in Templates
      /\ lock \in [Dashboards \cup Templates -> Sessions \cup {NoSession}]
      /\ request[s].stage = "lock_template" /\ lock[t] = NoSession
  BY DEF DashboardsInv, TypeOK, RequestInv, WaitingIsForRow, LockTemplate, IsFree, TemplatesInv
<1>2. /\ request' = [request EXCEPT ![s] = q] /\ lock' = [lock EXCEPT ![t] = s]
      /\ UNCHANGED tables
  BY DEF LockTemplate
<1>3. /\ q.op = request[s].op /\ q.template = t /\ q.number = request[s].number
      /\ q.opened_template = request[s].opened_template /\ q.template_row = templates[t]
      /\ q.stage = "check_template"
  BY <1>1 DEF Request
<1> HIDE DEF q
<1>4. request'[s] = q /\ \A r \in Sessions \ {s} : request'[r] = request[r]
  BY <1>2 DEF DashboardsInv, TypeOK
<1>5. lock'[t] = s /\ \A u \in Templates : lock[u] # NoSession => lock'[u] = lock[u]
  BY <1>1, <1>2
<1>6. TemplateRequestInv(s)'
  BY <1>1, <1>2, <1>3, <1>4, <1>5
  DEF TemplateRequestInv, TemplateChanges, HasBeenPublished, tables
<1> QED
  BY <1>2, <1>4, <1>5, <1>6, QuietTemplates DEF tables

LEMMA CheckTemplateVersionTemplates ==
  ASSUME DashboardsInv, TemplatesInv, NEW s \in Sessions, NEW d \in Dashboards,
         NEW v \in Versions, CheckTemplateVersion(s, d, v)
  PROVE  TemplatesInv'
<1>1. PICK u \in Users :
        request' = [request EXCEPT ![s].dashboard = d, ![s].version = v, ![s].user = u,
                                   ![s].stage = "lock"]
  BY DEF CheckTemplateVersion
<1> DEFINE q == [request[s] EXCEPT !.dashboard = d, !.version = v, !.user = u, !.stage = "lock"]
<1>2. /\ request[s] \in Request /\ TemplateRequestInv(s) /\ UNCHANGED tables /\ lock' = lock
      /\ request[s].op = "create_template_version" /\ request[s].stage = "check_template"
      /\ IsFrom(s, "published")
  BY DEF CheckTemplateVersion, At, DashboardsInv, TypeOK, TemplatesInv
<1>3. /\ q.op = request[s].op /\ q.template = request[s].template /\ q.number = request[s].number
      /\ q.opened_template = request[s].opened_template
      /\ q.template_row = request[s].template_row /\ q.stage = "lock"
  BY <1>2 DEF Request
<1>4. request'[s] = q /\ \A r \in Sessions \ {s} : request'[r] = request[r]
  BY <1>1 DEF DashboardsInv, TypeOK
<1> HIDE DEF q
<1>5. TemplateRequestInv(s)'
  BY <1>2, <1>3, <1>4 DEF TemplateRequestInv, TemplateChanges, IsFrom, tables
<1> QED
  BY <1>2, <1>4, <1>5, QuietTemplates DEF tables

LEMMA CheckPublishTemplates ==
  ASSUME DashboardsInv, TemplatesInv, NEW s \in Sessions, CheckPublish(s)
  PROVE  TemplatesInv'
<1>1. /\ request[s] \in Request /\ TemplateRequestInv(s)
      /\ request[s].op = "publish_template" /\ request[s].stage = "check_template"
      /\ IsFrom(s, "draft") /\ Proceed(s, "commit") /\ "commit" \in Stages
  BY DEF CheckPublish, At, DashboardsInv, TypeOK, TemplatesInv, Stages
<1>2. /\ request'[s] = [request[s] EXCEPT !.stage = "commit"]
      /\ \A r \in Sessions \ {s} : request'[r] = request[r]
      /\ UNCHANGED tables /\ lock' = lock
  BY <1>1 DEF Proceed, DashboardsInv, TypeOK
<1>3. /\ request'[s].op = request[s].op /\ request'[s].template = request[s].template
      /\ request'[s].opened_template = request[s].opened_template
      /\ request'[s].template_row = request[s].template_row /\ request'[s].stage = "commit"
  BY <1>1, <1>2, TemplateFields
<1>4. TemplateRequestInv(s)'
  BY <1>1, <1>2, <1>3 DEF TemplateRequestInv, TemplateChanges, IsFrom, tables
<1> QED
  BY <1>2, <1>4, QuietTemplates DEF tables

LEMMA LockingTemplates ==
  ASSUME DashboardsInv, TemplatesInv, NEW s \in Sessions,
         TakeTime(s) \/ LockDashboard(s) \/ LockExpired(s) \/ CheckPurge(s)
  PROVE  TemplatesInv'
<1>1. request[s] \in Request /\ RequestInv(s)
      /\ lock \in [Dashboards \cup Templates -> Sessions \cup {NoSession}]
  BY DEF DashboardsInv, TypeOK
<1>2. CASE TakeTime(s)
  <2>1. /\ request[s].op = "restore" /\ UNCHANGED tables /\ lock' = lock
        /\ request' = [request EXCEPT ![s] =
             [request[s] EXCEPT !.now = clock, !.stage = "lock"]]
    BY <1>2 DEF TakeTime, At
  <2>2. request'[s] = [request[s] EXCEPT !.now = clock, !.stage = "lock"]
        /\ \A r \in Sessions \ {s} : request'[r] = request[r]
    BY <2>1 DEF DashboardsInv, TypeOK
  <2>3. /\ request'[s].op = request[s].op /\ request'[s].template = request[s].template
        /\ request'[s].number = request[s].number
        /\ request'[s].opened_template = request[s].opened_template
        /\ request'[s].template_row = request[s].template_row
    BY <1>1, <2>2 DEF Request
  <2> QED
    BY <2>1, <2>2, <2>3, ProceededTemplates DEF TemplateChanges
<1>3. CASE LockDashboard(s)
  <2>1. PICK d \in Dashboards :
          /\ d = request[s].dashboard /\ request[s].stage = "lock" /\ UNCHANGED tables
          /\ lock' = [lock EXCEPT ![d] = s]
          /\ request' = [request EXCEPT ![s] =
               [request[s] EXCEPT !.row = dashboards[d], !.stage = "check"]]
    BY <1>1, <1>3 DEF LockDashboard, RequestInv, WaitingIsForRow
  <2>2. request'[s] = [request[s] EXCEPT !.row = dashboards[d], !.stage = "check"]
        /\ \A r \in Sessions \ {s} : request'[r] = request[r]
    BY <2>1 DEF DashboardsInv, TypeOK
  <2>3. /\ request'[s].op = request[s].op /\ request'[s].template = request[s].template
        /\ request'[s].number = request[s].number
        /\ request'[s].opened_template = request[s].opened_template
        /\ request'[s].template_row = request[s].template_row
    BY <1>1, <2>2 DEF Request
  <2>4. \A t \in Templates : lock'[t] = lock[t]
    BY <1>1, <2>1, DashboardsAssumption
  <2> QED
    BY <2>1, <2>2, <2>3, <2>4, ProceededTemplates
<1>4. CASE LockExpired(s)
  <2>1. PICK candidates \in SUBSET Dashboards :
          /\ request[s].op = "purge" /\ UNCHANGED tables
          /\ lock' = [r \in Dashboards \cup Templates |-> IF r \in candidates THEN s ELSE lock[r]]
          /\ request' = [request EXCEPT ![s] =
               [request[s] EXCEPT !.purging = candidates, !.stage = "check"]]
    BY <1>4 DEF LockExpired, At, Expired
  <2>2. request'[s] = [request[s] EXCEPT !.purging = candidates, !.stage = "check"]
        /\ \A r \in Sessions \ {s} : request'[r] = request[r]
    BY <2>1 DEF DashboardsInv, TypeOK
  <2>3. /\ request'[s].op = request[s].op /\ request'[s].template = request[s].template
        /\ request'[s].number = request[s].number
        /\ request'[s].opened_template = request[s].opened_template
        /\ request'[s].template_row = request[s].template_row
    BY <1>1, <2>2 DEF Request
  <2>4. \A t \in Templates : lock'[t] = lock[t]
    BY <2>1, DashboardsAssumption
  <2> QED
    BY <2>1, <2>2, <2>3, <2>4, ProceededTemplates DEF TemplateChanges
<1>5. CASE CheckPurge(s)
  <2> DEFINE purging == {d \in request[s].purging : ~ IsReferenced(d)}
  <2>1. /\ request[s].op = "purge" /\ UNCHANGED tables /\ lock' = lock
        /\ request' = [request EXCEPT ![s] =
             [request[s] EXCEPT !.purging = purging, !.stage = "commit"]]
    BY <1>5 DEF CheckPurge, At
  <2> HIDE DEF purging
  <2>2. request'[s] = [request[s] EXCEPT !.purging = purging, !.stage = "commit"]
        /\ \A r \in Sessions \ {s} : request'[r] = request[r]
    BY <2>1 DEF DashboardsInv, TypeOK
  <2>3. /\ request'[s].op = request[s].op /\ request'[s].template = request[s].template
        /\ request'[s].number = request[s].number
        /\ request'[s].opened_template = request[s].opened_template
        /\ request'[s].template_row = request[s].template_row
    BY <1>1, <2>2 DEF Request
  <2> QED
    BY <2>1, <2>2, <2>3, ProceededTemplates DEF TemplateChanges
<1> QED
  BY <1>2, <1>3, <1>4, <1>5

-----------------------------------------------------------------------------
(* The steps that write a template or make a dashboard of one.             *)

LEMMA TemplateWritten ==
  ASSUME DashboardsInv, TemplatesInv, DashboardsInv', NEW s \in Sessions, Finish(s), origin' = origin,
         NEW t \in Templates, lock[t] = s \/ templates[t].status = "absent",
         \A u \in Templates : u # t =>
           templates'[u] = templates[u] /\ template_versions'[u] = template_versions[u],
         Advances(t), TemplateRowInv(t)',
         \A n \in 0 .. MaxTemplateVersions : HasBeenPublished(t, n) => HasBeenPublished(t, n)'
  PROVE  TemplatesInv'
<1>1. /\ request'[s] = NoRequest /\ \A r \in Sessions \ {s} : request'[r] = request[r]
      /\ \A u \in Templates : lock[u] # s => lock'[u] = lock[u]
  BY DEF Finish, DashboardsInv, TypeOK
<1>2. \A u \in Templates, n \in 0 .. MaxTemplateVersions :
        HasBeenPublished(u, n) => HasBeenPublished(u, n)'
  BY DEF HasBeenPublished
<1>3. RespectsTemplates(s)
  BY <1>1, <1>2 DEF RespectsTemplates, Advances
<1>4. \A r \in Sessions : TemplateRequestInv(r)'
  BY <1>1, <1>3, EndedTemplateRequest, OtherTemplateRequests DEF DashboardsInv, TypeOK
<1>5. \A u \in Templates : TemplateRowInv(u)'
  BY DEF TemplatesInv, TemplateRowInv
<1>6. ASSUME NEW d \in Dashboards PROVE OriginInv(d)'
  <2>1. origin[d] \in [template : Templates \cup {NoTemplate}, number : 0 .. MaxTemplateVersions]
    BY DEF DashboardsInv, TypeOK
  <2>2. CASE origin[d].template = NoTemplate
    BY <2>2 DEF OriginInv
  <2>3. CASE origin[d].template # NoTemplate
    <3>1. PICK u \in Templates, n \in 0 .. MaxTemplateVersions :
            u = origin[d].template /\ n = origin[d].number /\ HasBeenPublished(u, n)
      BY <2>1, <2>3 DEF TemplatesInv, OriginInv
    <3>2. HasBeenPublished(u, n)'
      BY <1>2, <3>1
    <3> QED
      BY <3>1, <3>2 DEF HasBeenPublished, OriginInv
  <2> QED
    BY <2>2, <2>3
<1> QED
  BY <1>4, <1>5, <1>6 DEF TemplatesInv

(* What a commit writes of a template it has locked, or makes.             *)
LEMMA RowWritten ==
  ASSUME DashboardsInv, TemplatesInv, DashboardsInv', NEW s \in Sessions, Finish(s),
         origin' = origin, NEW t \in Templates, NEW row \in TemplateRow,
         lock[t] = s \/ templates[t].status = "absent",
         templates' = [templates EXCEPT ![t] = row], row.status # "absent",
         row.revision > templates[t].revision,
         \/ /\ row.status = "published" /\ templates[t].status # "absent"
            /\ row.current_version = templates[t].current_version
            /\ template_versions' = template_versions
         \/ /\ row.current_version = templates[t].current_version + 1
            /\ \E source : template_versions' =
                 [template_versions EXCEPT ![t][row.current_version] = source]
  PROVE  TemplatesInv'
<1>1. /\ templates \in [Templates -> TemplateRow]
      /\ template_versions \in [Templates -> [TemplateVersions -> Source \cup {NoSource}]]
      /\ TemplateRowInv(t)
  BY DEF DashboardsInv, TypeOK, TemplatesInv
<1>2. /\ templates'[t] = row /\ \A u \in Templates : u # t => templates'[u] = templates[u]
      /\ templates[t].current_version \in Nat /\ row.current_version \in Nat
  BY <1>1, DashboardsAssumption DEF TemplateRow
<1>3. \A u \in Templates : u # t => template_versions'[u] = template_versions[u]
  BY <1>1
<1>4. \A n \in TemplateVersions :
        \/ template_versions'[t][n] = template_versions[t][n]
        \/ n = row.current_version
  BY <1>1
<1>5. row.current_version >= templates[t].current_version
  BY <1>2
<1>6. TemplateRowInv(t)'
  BY <1>1, <1>2, <1>4, <1>5 DEF TemplateRowInv, TemplateVersions
<1>7. \A n \in 0 .. MaxTemplateVersions : HasBeenPublished(t, n) => HasBeenPublished(t, n)'
  BY <1>2 DEF HasBeenPublished
<1>8. Advances(t)
  BY <1>2 DEF Advances
<1> QED
  BY <1>2, <1>3, <1>6, <1>7, <1>8, TemplateWritten

LEMMA WritesTemplates ==
  ASSUME DashboardsInv, TemplatesInv, DashboardsInv', NEW s \in Sessions,
         \/ \E t \in Templates : CreateDashboardTemplate(s, t)
         \/ CreateDashboardTemplateVersion(s)
         \/ PublishDashboardTemplate(s)
  PROVE  TemplatesInv'
<1>1. /\ request[s] \in Request /\ TemplateRequestInv(s)
      /\ templates \in [Templates -> TemplateRow]
  BY DEF DashboardsInv, TypeOK, TemplatesInv
<1>2. ASSUME NEW t \in Templates, CreateDashboardTemplate(s, t) PROVE TemplatesInv'
  <2> DEFINE row == [status |-> "draft", revision |-> 1, current_version |-> 1]
  <2>1. /\ templates[t].status = "absent" /\ templates[t].revision = 0
        /\ templates[t].current_version = 0
    BY <1>2 DEF CreateDashboardTemplate, TemplatesInv, TemplateRowInv
  <2>2. 1 \in 0 .. MaxRevision /\ 1 \in 0 .. MaxTemplateVersions
    BY DashboardsAssumption
  <2>3. /\ row \in TemplateRow /\ row.status = "draft" /\ row.revision = 1
        /\ row.current_version = 1
    BY <2>2 DEF TemplateRow
  <2>4. /\ templates' = [templates EXCEPT ![t] = row] /\ Finish(s) /\ origin' = origin
        /\ \E source : template_versions' = [template_versions EXCEPT ![t][1] = source]
    BY <1>2 DEF CreateDashboardTemplate, ShowSource
  <2> HIDE DEF row
  <2>5. /\ row.revision > templates[t].revision
        /\ row.current_version = templates[t].current_version + 1
    BY <2>1, <2>3
  <2>6. \E source : template_versions' =
          [template_versions EXCEPT ![t][row.current_version] = source]
    <3>1. row.current_version = 1
      BY <2>3
    <3> QED
      BY <2>4, <3>1
  <2> QED
    BY <2>1, <2>3, <2>4, <2>5, <2>6, RowWritten
<1>3. CASE CreateDashboardTemplateVersion(s)
  <2>1. PICK t \in Templates :
          /\ t = request[s].template /\ lock[t] = s
          /\ request[s].template_row = templates[t] /\ templates[t].status # "absent"
    BY <1>1, <1>3 DEF CreateDashboardTemplateVersion, At, TemplateRequestInv, TemplateChanges
  <2> DEFINE n == templates[t].current_version + 1
             row == [status |-> "draft", revision |-> templates[t].revision + 1,
                     current_version |-> n]
  <2>2. /\ templates[t] \in TemplateRow /\ templates[t].revision \in 0 .. MaxRevision
    BY <1>1 DEF TemplateRow
  <2>3. n \in TemplateVersions /\ templates[t].revision < MaxRevision
    BY <1>3, <2>1 DEF CreateDashboardTemplateVersion
  <2>4. templates[t].revision + 1 \in 0 .. MaxRevision /\ n \in 0 .. MaxTemplateVersions
    BY <2>2, <2>3, DashboardsAssumption DEF TemplateVersions
  <2>5. /\ row \in TemplateRow /\ row.status = "draft" /\ row.current_version = n
        /\ row.revision > templates[t].revision
    BY <2>2, <2>4, DashboardsAssumption DEF TemplateRow
  <2>6. /\ templates' = [templates EXCEPT ![t] = row] /\ Finish(s) /\ origin' = origin
        /\ \E source : template_versions' = [template_versions EXCEPT ![t][n] = source]
    BY <1>3, <2>1 DEF CreateDashboardTemplateVersion, ShowSource
  <2>7. /\ row.current_version = templates[t].current_version + 1
        /\ \E source : template_versions' =
             [template_versions EXCEPT ![t][row.current_version] = source]
    BY <2>5, <2>6
  <2> HIDE DEF row
  <2> QED
    BY <2>1, <2>5, <2>6, <2>7, RowWritten
<1>4. CASE PublishDashboardTemplate(s)
  <2>1. PICK t \in Templates :
          /\ t = request[s].template /\ lock[t] = s
          /\ request[s].template_row = templates[t] /\ templates[t].status # "absent"
    BY <1>1, <1>4 DEF PublishDashboardTemplate, At, TemplateRequestInv, TemplateChanges
  <2> DEFINE row == [templates[t] EXCEPT !.status = "published", !.revision = @ + 1]
  <2>2. /\ templates[t] \in TemplateRow /\ templates[t].revision \in 0 .. MaxRevision
        /\ templates[t].revision < MaxRevision
    BY <1>1, <1>4, <2>1 DEF TemplateRow, PublishDashboardTemplate
  <2>3. templates[t].revision + 1 \in 0 .. MaxRevision
        /\ templates[t].revision + 1 > templates[t].revision
    BY <2>2, DashboardsAssumption
  <2>4. /\ row \in TemplateRow /\ row.status = "published"
        /\ row.current_version = templates[t].current_version
        /\ row.revision > templates[t].revision
    BY <2>2, <2>3 DEF TemplateRow
  <2>5. /\ templates' = [templates EXCEPT ![t] = row] /\ Finish(s) /\ origin' = origin
        /\ template_versions' = template_versions
    BY <1>4, <2>1 DEF PublishDashboardTemplate
  <2> HIDE DEF row
  <2> QED
    BY <2>1, <2>4, <2>5, RowWritten
<1> QED
  BY <1>2, <1>3, <1>4

LEMMA InstantiateTemplates ==
  ASSUME DashboardsInv, TemplatesInv, NEW s \in Sessions, NEW e \in Dashboards,
         InstantiateDashboardTemplate(s, e)
  PROVE  TemplatesInv'
<1>1. PICK t \in Templates, n \in 0 .. MaxTemplateVersions :
        /\ t = request[s].template /\ n = request[s].number /\ HasBeenPublished(t, n)
        /\ request[s].op = "instantiate"
  BY RequestFields
  DEF InstantiateDashboardTemplate, At, TemplatesInv, TemplateRequestInv, DashboardsInv, TypeOK
<1>2. /\ origin' = [origin EXCEPT ![e] = [template |-> t, number |-> n]]
      /\ UNCHANGED <<templates, template_versions>> /\ Finish(s)
  BY <1>1 DEF InstantiateDashboardTemplate, Insert
<1>3. /\ request'[s] = NoRequest /\ \A r \in Sessions \ {s} : request'[r] = request[r]
      /\ \A u \in Templates : lock[u] # s => lock'[u] = lock[u]
  BY <1>2 DEF Finish, DashboardsInv, TypeOK
<1>4. TemplateRequestInv(s)'
  BY <1>3, EndedTemplateRequest
<1>5. \A d \in Dashboards : OriginInv(d)'
  BY <1>1, <1>2 DEF DashboardsInv, TypeOK, TemplatesInv, OriginInv, HasBeenPublished
<1>6. RespectsTemplates(s)
  BY <1>2, <1>3 DEF RespectsTemplates, Advances, HasBeenPublished
<1>7. \A r \in Sessions : TemplateRequestInv(r)'
  BY <1>2, <1>4, <1>6, OtherTemplateRequests DEF DashboardsInv, TypeOK
<1> QED
  BY <1>2, <1>5, <1>7 DEF TemplatesInv, TemplateRowInv

LEMMA ContinueTemplates ==
  ASSUME DashboardsInv, TemplatesInv, DashboardsInv', NEW s \in Sessions, Continue(s)
  PROVE  TemplatesInv'
<1>1. CASE TakeTime(s) \/ LockDashboard(s) \/ LockExpired(s) \/ CheckPurge(s)
  BY <1>1, LockingTemplates
<1>2. CASE CheckChange(s) \/ ReadSource(s) \/ CheckSource(s)
  <2>1. /\ Proceed(s, "commit") /\ "commit" \in Stages
        /\ request[s].stage \notin {"lock_template", "check_template"}
           \/ request[s].op \notin TemplateChanges
    BY <1>2 DEF CheckChange, ReadSource, CheckSource, At, Stages
  <2> QED
    BY <2>1, ProceedTemplates
<1>3. CASE \/ SaveDashboardVersion(s) \/ ActivateDashboard(s) \/ DeleteDashboard(s)
           \/ RestoreDashboard(s) \/ ReplaceDashboardPermissions(s)
           \/ PurgeExpiredDashboards(s)
  <2>1. Finish(s) /\ UNCHANGED <<templates, template_versions, origin>>
    BY <1>3 DEF SaveDashboardVersion, ActivateDashboard, DeleteDashboard, RestoreDashboard,
                ReplaceDashboardPermissions, PurgeExpiredDashboards, Commit
  <2> QED
    BY <2>1, EndedQuietly
<1>4. CASE \E d \in Dashboards : InstantiateDashboardTemplate(s, d)
  BY <1>4, InstantiateTemplates
<1>5. CASE LockTemplate(s)
  BY <1>5, LockTemplateTemplates
<1>6. CASE \E d \in Dashboards, v \in Versions : CheckTemplateVersion(s, d, v)
  BY <1>6, CheckTemplateVersionTemplates
<1>7. CASE CheckPublish(s)
  BY <1>7, CheckPublishTemplates
<1>8. CASE \/ \E t \in Templates : CreateDashboardTemplate(s, t)
           \/ CreateDashboardTemplateVersion(s) \/ PublishDashboardTemplate(s)
  BY <1>8, WritesTemplates
<1> QED
  BY <1>1, <1>2, <1>3, <1>4, <1>5, <1>6, <1>7, <1>8 DEF Continue

LEMMA NextTemplates ==
  DashboardsInv /\ DashboardsInv' /\ TemplatesInv /\ [Next]_vars => TemplatesInv'
<1> SUFFICES ASSUME DashboardsInv, DashboardsInv', TemplatesInv, [Next]_vars
             PROVE  TemplatesInv'
  OBVIOUS
<1>1. CASE UNCHANGED <<templates, template_versions, lock, request, origin>>
  BY <1>1 DEF TemplatesInv, TemplateRowInv, TemplateRequestInv, OriginInv, HasBeenPublished, IsFrom
<1>2. ASSUME NEW s \in Sessions, Receive(s) PROVE TemplatesInv'
  BY <1>2, ReceiveTemplates
<1>3. ASSUME NEW s \in Sessions, Continue(s) PROVE TemplatesInv'
  BY <1>3, ContinueTemplates
<1>4. ASSUME NEW s \in Sessions, RollBack(s) PROVE TemplatesInv'
  BY <1>4, EndedQuietly DEF RollBack, tables
<1> QED
  BY <1>1, <1>2, <1>3, <1>4 DEF Next, Tick, vars

(* A template is as the session that has its lock read it, its revision    *)
(* goes up with every change of it, and no version of it that has been     *)
(* published is taken back.                                                *)
THEOREM TemplatesInvHolds == Spec => []TemplatesInv
<1>1. Init => TemplatesInv
  BY DEF Init, TemplatesInv, TemplateRowInv, TemplateRequestInv, OriginInv, NoTemplateRow,
         NoRequest, TemplateChanges
<1> QED
  BY <1>1, NextTemplates, DashboardsInvHolds, PTL DEF Spec

(* A dashboard is only ever made of a version of a template that is        *)
(* published, and the template keeps it so.                                *)
THEOREM InstancesStayPublished == Spec => []InstancesArePublished
<1>1. TemplatesInv => InstancesArePublished
  BY DEF TemplatesInv, OriginInv, HasBeenPublished, InstancesArePublished
<1> QED
  BY <1>1, TemplatesInvHolds, PTL

(* What a session is about to write is a change of what its client read:   *)
(* an unchanged revision means an unchanged row.                           *)
ReadIsCurrent(s) ==
  /\ Commits(s, Changes \ {"permissions_unchecked"}) =>
       request[s].opened = dashboards[request[s].dashboard]
  /\ Commits(s, TemplateChanges) =>
       request[s].opened_template = templates[request[s].template]

(* Every change that names a revision is made to the row its client read,  *)
(* the grants included, whoever else changed it before or after.           *)
THEOREM RevisionsIdentifyRows == Spec => ChangesWhatWasRead
<1>1. ASSUME DashboardsInv, TemplatesInv, NEW s \in Sessions PROVE ReadIsCurrent(s)
  <2>1. ASSUME At(s, Changes \ {"permissions_unchecked"}, "commit")
        PROVE  request[s].opened = dashboards[request[s].dashboard]
    <3>1. /\ request[s].row = dashboards[request[s].dashboard] /\ RevisionAsExpected(s)
          /\ dashboards[request[s].dashboard].status # "purged"
      BY <1>1, <2>1 DEF DashboardsInv, RequestInv, LockedIsAsRead, At, Live
    <3>2. request[s].opened.revision = dashboards[request[s].dashboard].revision
      BY <2>1, <3>1 DEF RevisionAsExpected, At
    <3> QED
      BY <1>1, <2>1, <3>1, <3>2 DEF DashboardsInv, RequestInv, OpenedIsPast, At
  <2>2. ASSUME At(s, TemplateChanges, "commit")
        PROVE  request[s].opened_template = templates[request[s].template]
    BY <1>1, <2>2 DEF TemplatesInv, TemplateRequestInv, IsFrom, At
  <2> QED
    BY <2>1, <2>2 DEF ReadIsCurrent, Commits
<1>2. DashboardsInv /\ TemplatesInv /\ [Next]_vars => [\A s \in Sessions : ReadIsCurrent(s)]_vars
  BY <1>1
<1>3. (\A s \in Sessions : ReadIsCurrent(s)) =>
        \A s \in Sessions :
          /\ Commits(s, Changes \ {"permissions_unchecked"}) =>
               request[s].opened = dashboards[request[s].dashboard]
          /\ Commits(s, TemplateChanges) =>
               request[s].opened_template = templates[request[s].template]
  BY DEF ReadIsCurrent
<1> QED
  BY <1>2, <1>3, DashboardsInvHolds, TemplatesInvHolds, PTL DEF Spec, ChangesWhatWasRead
=============================================================================
