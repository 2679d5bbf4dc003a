------------------------------ MODULE Accounts ------------------------------
(* The accounts of a workspace: how the first administrators are created   *)
(* (create_initial_admin.py), how logins count failures, lock an account   *)
(* and open sessions, and how a request finds out who sends it             *)
(* (authentication.py, dependencies.py).                                   *)
(*                                                                         *)
(* A login reads the account, checks the password for a while and writes   *)
(* what it counted: other logins may have written in between. A token is   *)
(* named by the login that made it.                                        *)
EXTENDS Integers, FiniteSets

CONSTANTS
  Users,        \* user names
  Installs,     \* runs of the script that creates an administrator
  Logins,       \* login requests
  Readers,      \* requests that come with a token
  Nobody,
  MaxFailures,  \* five in the code
  SessionTtl,   \* how long a session lasts; twelve hours in the code
  MaxTime       \* the bound of the clock

ASSUME AccountsAssumption ==
  /\ MaxFailures \in Nat \ {0} /\ SessionTtl \in Nat \ {0} /\ MaxTime \in Nat
  /\ Nobody \notin Users \cup Logins

VARIABLES
  role,      \* the status of the role system_admin
  account,   \* the row of each user
  install, login,
  sessions,  \* the session of each token
  reader,
  now,
  failed,    \* how many logins have failed on the password of each user
  closed     \* the tokens that were revoked, expired or of a locked user at some time

accountVars == <<role, account, install, login, sessions, reader, now, failed, closed>>

NoAccount == [status |-> "absent", failures |-> 0]
NoSession == [user |-> Nobody, expires |-> 0, revoked |-> FALSE]
NoInstall == [stage |-> "idle", user |-> Nobody, makesRole |-> FALSE]
NoLogin == [stage |-> "idle", user |-> Nobody, valid |-> FALSE, seen |-> 0, started |-> 0]
NoReader == [stage |-> "idle", token |-> Nobody, at |-> 0, late |-> FALSE]

AccountsInit ==
  /\ role \in {"absent", "active", "archived"}
  /\ account = [u \in Users |-> NoAccount]
  /\ install = [i \in Installs |-> NoInstall]
  /\ login = [l \in Logins |-> NoLogin]
  /\ sessions = [l \in Logins |-> NoSession]
  /\ reader = [r \in Readers |-> NoReader]
  /\ now = 0
  /\ failed = [u \in Users |-> 0]
  /\ closed = {}

-----------------------------------------------------------------------------
(* create_initial_admin: what it looks up, and the insertion, which fails  *)
(* on a unique key when another run was faster.                            *)
LookUp(i, u) ==
  /\ install[i].stage = "idle"
  /\ install' = [install EXCEPT ![i] =
       [stage |-> IF account[u] # NoAccount \/ role = "archived" THEN "refused" ELSE "checked",
        user |-> u, makesRole |-> role = "absent"]]
  /\ UNCHANGED <<role, account, login, sessions, reader, now, failed>>

Conflicts(i) == account[install[i].user] # NoAccount \/ (install[i].makesRole /\ role # "absent")

CreateAdministrator(i) ==
  /\ install[i].stage = "checked" /\ ~ Conflicts(i)
  /\ role' = "active"
  /\ account' = [account EXCEPT ![install[i].user] = [status |-> "active", failures |-> 0]]
  /\ install' = [install EXCEPT ![i].stage = "created"]
  /\ UNCHANGED <<login, sessions, reader, now, failed>>

FailToCreate(i) ==
  /\ install[i].stage = "checked" /\ Conflicts(i)
  /\ install' = [install EXCEPT ![i].stage = "refused"]
  /\ UNCHANGED <<role, account, login, sessions, reader, now, failed>>

-----------------------------------------------------------------------------
(* create_authenticated_session. Only columns whose value changes are      *)
(* written.                                                                *)
ReadAccount(l, u, valid) ==
  /\ login[l].stage = "idle"
  /\ login' = [login EXCEPT ![l] =
       [stage |-> IF account[u].status = "active" THEN "verifying" ELSE "refused",
        user |-> u, valid |-> valid, seen |-> account[u].failures, started |-> now]]
  /\ UNCHANGED <<role, account, install, sessions, reader, now, failed>>

CountedOneEarly(row, seen) ==
  [status |-> IF seen + 2 >= MaxFailures THEN "locked" ELSE row.status, failures |-> seen + 1]

Counted(row, seen) ==
  [status |-> IF seen + 1 >= MaxFailures THEN "locked" ELSE row.status, failures |-> seen + 1]

CountFailure(l) ==
  /\ login[l].stage = "verifying" /\ ~ login[l].valid
  /\ account' = [account EXCEPT ![login[l].user] = Counted(@, login[l].seen)]
  /\ failed' = [failed EXCEPT ![login[l].user] = @ + 1]
  /\ login' = [login EXCEPT ![l].stage = "refused"]
  /\ UNCHANGED <<role, install, sessions, reader, now>>

ResetWithStatus(row, seen) == [status |-> "active", failures |-> 0]

Reset(row, seen) == IF seen = 0 THEN row ELSE [row EXCEPT !.failures = 0]

OpenSession(l) ==
  /\ login[l].stage = "verifying" /\ login[l].valid
  /\ account' = [account EXCEPT ![login[l].user] = Reset(@, login[l].seen)]
  /\ sessions' = [sessions EXCEPT ![l] =
       [user |-> login[l].user, expires |-> login[l].started + SessionTtl, revoked |-> FALSE]]
  /\ login' = [login EXCEPT ![l].stage = "open"]
  /\ UNCHANGED <<role, install, reader, now, failed>>

(* revoke_session_token                                                    *)
Logout(token) ==
  /\ sessions[token] # NoSession /\ ~ sessions[token].revoked
  /\ sessions' = [sessions EXCEPT ![token].revoked = TRUE]
  /\ UNCHANGED <<role, account, install, login, reader, now, failed>>

Tick ==
  /\ now < MaxTime
  /\ now' = now + 1
  /\ UNCHANGED <<role, account, install, login, sessions, reader, failed>>

-----------------------------------------------------------------------------
(* get_query_principal and resolve_query_principal: three statements.      *)
Arrive(r, token) ==
  /\ reader[r].stage = "idle"
  /\ sessions[token] # NoSession
  /\ reader' = [reader EXCEPT ![r] =
       [stage |-> "session", token |-> token, at |-> now, late |-> token \in closed]]
  /\ UNCHANGED <<role, account, install, login, sessions, now, failed>>

To(r, stage) ==
  /\ reader' = [reader EXCEPT ![r].stage = stage]
  /\ UNCHANGED <<role, account, install, login, sessions, now, failed>>

IsOpen(session, at) == ~ session.revoked /\ session.expires > at

FindSession(r) ==
  /\ reader[r].stage = "session"
  /\ To(r, IF IsOpen(sessions[reader[r].token], reader[r].at) THEN "user" ELSE "refused")

UserOf(r) == sessions[reader[r].token].user

FindUser(r) ==
  /\ reader[r].stage = "user"
  /\ To(r, IF account[UserOf(r)].status = "active" THEN "roles" ELSE "refused")

FindRoles(r) == reader[r].stage = "roles" /\ To(r, "admitted")

-----------------------------------------------------------------------------
IsClosed(token) ==
  /\ sessions[token] # NoSession
  /\ ~ IsOpen(sessions[token], now) \/ account[sessions[token].user].status # "active"

AccountsStep ==
  \/ \E i \in Installs : (\E u \in Users : LookUp(i, u)) \/ CreateAdministrator(i) \/ FailToCreate(i)
  \/ \E l \in Logins :
       \/ \E u \in Users, valid \in BOOLEAN : ReadAccount(l, u, valid)
       \/ CountFailure(l) \/ OpenSession(l) \/ Logout(l)
  \/ Tick
  \/ \E r \in Readers :
       (\E l \in Logins : Arrive(r, l)) \/ FindSession(r) \/ FindUser(r) \/ FindRoles(r)

AccountsNext ==
  AccountsStep /\ closed' = closed \cup {token \in Logins : IsClosed(token)'}

AccountsSpec == AccountsInit /\ [][AccountsNext]_accountVars

-----------------------------------------------------------------------------
AccountRows == [status : {"absent", "active", "locked"}, failures : Nat]
InstallRows ==
  [stage : {"idle", "checked", "refused", "created"}, user : Users \cup {Nobody},
   makesRole : BOOLEAN]
LoginRows ==
  [stage : {"idle", "verifying", "refused", "open"}, user : Users \cup {Nobody},
   valid : BOOLEAN, seen : Nat, started : Nat]
SessionRows == [user : Users \cup {Nobody}, expires : Nat, revoked : BOOLEAN]
ReaderRows ==
  [stage : {"idle", "session", "user", "roles", "refused", "admitted"},
   token : Logins \cup {Nobody}, at : Nat, late : BOOLEAN]

AccountsTypeOK ==
  /\ role \in {"absent", "active", "archived"}
  /\ account \in [Users -> AccountRows]
  /\ install \in [Installs -> InstallRows]
  /\ login \in [Logins -> LoginRows]
  /\ sessions \in [Logins -> SessionRows]
  /\ reader \in [Readers -> ReaderRows]
  /\ now \in Nat
  /\ failed \in [Users -> Nat]
  /\ closed \subseteq Logins

(* However logins overlap, an account is locked only after as many failed  *)
(* logins as the limit, and its counter is never above the failures there  *)
(* were: a count read before others wrote, written after them, only loses  *)
(* failures and never makes any up.                                        *)
LocksOnlyAfterFailures ==
  \A u \in Users :
    /\ account[u].failures <= failed[u]
    /\ account[u].status = "locked" => failed[u] >= MaxFailures

(* A token that was ever revoked, had expired or was of a locked user when *)
(* a request came with it admits that request no more, whatever logins     *)
(* that had read the account earlier write meanwhile.                      *)
ClosedSessionsStayOut ==
  \A r \in Readers : reader[r].stage = "admitted" => ~ reader[r].late
=============================================================================
