---------------------------- MODULE MCDashboards ----------------------------
(* Small instances of Dashboards for TLC.                                  *)
EXTENDS Dashboards, FiniteSets, TLC

Symmetry == Permutations(Sessions) \cup Permutations(Dashboards)

(* Long histories are examined of one dashboard without templates, less    *)
(* long ones with grants, and short ones of two dashboards, unedited and   *)
(* without grants, with templates.                                         *)
OneDashboard ==
  /\ Cardinality({d \in Dashboards : dashboards[d] # NoRow}) <= 1
  /\ \A t \in Templates : templates[t] = NoTemplateRow
  /\ \A d \in Dashboards : dashboards[d].grants # {} => dashboards[d].revision < MaxRevision
  /\ \A s \in Sessions :
       /\ request[s].op # "create_template"
       /\ request[s].user = "other" =>
            request[s].opened.grants \cup dashboards[request[s].dashboard].grants # {}

ShortHistories ==
  /\ Cardinality({d \in Dashboards : dashboards[d].revision > 1}) <= 1
  /\ \A d \in Dashboards :
       dashboards[d].current_version <= 1 /\ dashboards[d].revision <= 3 /\ dashboards[d].grants = {}
  /\ \A s \in Sessions :
       /\ request[s].user = "owner"
       /\ request[s].op \notin {"save", "activate", "permissions", "permissions_unchecked"}

Focus == OneDashboard \/ ShortHistories
=============================================================================
