--------------------------- MODULE Accounts_proofs ---------------------------
(* Why overlapping logins never lock an account too early, and why a token *)
(* that has ended admits no request that comes after.                      *)
EXTENDS Accounts, TLAPS

(* What an action of a login, of the script or of the clock never takes    *)
(* back: sessions keep their user and their end, a revocation and a lock   *)
(* last, and the clock goes forward.                                       *)
Keeps ==
  /\ \A t \in Logins : sessions[t] # NoSession =>
       /\ sessions'[t] # NoSession
       /\ sessions'[t].user = sessions[t].user /\ sessions'[t].expires = sessions[t].expires
       /\ sessions[t].revoked => sessions'[t].revoked
  /\ \A u \in Users :
       /\ account[u].status # "absent" => account'[u].status # "absent"
       /\ account[u].status = "locked" => account'[u].status = "locked"
  /\ now \in Nat /\ now' \in Nat /\ now <= now'

(* The counters behind LocksOnlyAfterFailures.                             *)
CountersInv ==
  /\ LocksOnlyAfterFailures
  /\ \A l \in Logins : login[l].stage = "verifying" =>
       login[l].user \in Users /\ login[l].seen <= failed[login[l].user]

(* Sessions belong to accounts that exist, and only open logins have one.  *)
SessionsInv ==
  /\ \A l \in Logins : login[l].stage = "verifying" =>
       login[l].user \in Users /\ account[login[l].user].status # "absent"
  /\ \A t \in Logins : sessions[t] # NoSession =>
       /\ login[t].stage = "open"
       /\ sessions[t].user \in Users /\ account[sessions[t].user].status # "absent"

HasEnded(t, at) ==
  sessions[t].revoked \/ sessions[t].expires <= at \/ account[sessions[t].user].status = "locked"

ClosedInv == \A t \in closed : sessions[t] # NoSession /\ HasEnded(t, now)

(* How far a request that came too late can get.                           *)
LateInv ==
  \A r \in Readers :
    /\ reader[r].stage # "idle" => reader[r].token \in Logins /\ sessions[reader[r].token] # NoSession
    /\ reader[r].late =>
         /\ reader[r].stage = "session" => HasEnded(reader[r].token, reader[r].at)
         /\ reader[r].stage = "user" => account[UserOf(r)].status = "locked"
         /\ reader[r].stage \notin {"roles", "admitted"}

LEMMA InitHolds == AccountsInit =>
  AccountsTypeOK /\ CountersInv /\ SessionsInv /\ ClosedInv /\ LateInv
BY AccountsAssumption
DEF AccountsInit, AccountsTypeOK, AccountRows, InstallRows, LoginRows, SessionRows, ReaderRows, CountersInv, LocksOnlyAfterFailures, SessionsInv, ClosedInv,
    LateInv, NoAccount, NoSession, NoInstall, NoLogin, NoReader

-----------------------------------------------------------------------------
LEMMA RowsAreTyped ==
  ASSUME AccountsTypeOK
  PROVE /\ \A u \in Users : account[u] \in AccountRows /\ failed[u] \in Nat
        /\ \A i \in Installs : install[i] \in InstallRows
        /\ \A l \in Logins : login[l] \in LoginRows /\ sessions[l] \in SessionRows
        /\ \A r \in Readers : reader[r] \in ReaderRows
BY DEF AccountsTypeOK

LEMMA StepKeepsTypes == AccountsTypeOK /\ SessionsInv /\ AccountsNext => AccountsTypeOK'
<1> SUFFICES ASSUME AccountsTypeOK, SessionsInv, AccountsNext PROVE AccountsTypeOK'
  OBVIOUS
<1> USE AccountsAssumption
<1>c. closed' \subseteq Logins
  BY DEF AccountsNext, AccountsTypeOK
<1>r. /\ \A u \in Users : account[u] \in AccountRows /\ failed[u] \in Nat
      /\ \A i \in Installs : install[i] \in InstallRows
      /\ \A l \in Logins : login[l] \in LoginRows /\ sessions[l] \in SessionRows
      /\ \A r \in Readers : reader[r] \in ReaderRows
  BY RowsAreTyped
<1>1. CASE \E i \in Installs, u \in Users : LookUp(i, u)
  <2> PICK i \in Installs, u \in Users : LookUp(i, u)
    BY <1>1
  <2>1. install'[i] \in InstallRows
    BY DEF LookUp, InstallRows, AccountsTypeOK
  <2> QED
    BY <2>1, <1>c DEF LookUp, AccountsTypeOK
<1>2. CASE \E i \in Installs : CreateAdministrator(i)
  <2> PICK i \in Installs : CreateAdministrator(i)
    BY <1>2
  <2>1. [install[i] EXCEPT !.stage = "created"] \in InstallRows
    BY <1>r DEF InstallRows
  <2>2. [status |-> "active", failures |-> 0] \in AccountRows
    BY DEF AccountRows
  <2> QED
    BY <2>1, <2>2, <1>c DEF CreateAdministrator, AccountsTypeOK
<1>3. CASE \E i \in Installs : FailToCreate(i)
  <2> PICK i \in Installs : FailToCreate(i)
    BY <1>3
  <2>1. [install[i] EXCEPT !.stage = "refused"] \in InstallRows
    BY <1>r DEF InstallRows
  <2> QED
    BY <2>1, <1>c DEF FailToCreate, AccountsTypeOK
<1>4. CASE \E l \in Logins, u \in Users, valid \in BOOLEAN : ReadAccount(l, u, valid)
  <2> PICK l \in Logins, u \in Users, valid \in BOOLEAN : ReadAccount(l, u, valid)
    BY <1>4
  <2>1. account[u].failures \in Nat /\ now \in Nat
    BY <1>r DEF AccountRows, AccountsTypeOK
  <2>2. login'[l] \in LoginRows
    BY <2>1 DEF ReadAccount, LoginRows, AccountsTypeOK
  <2> QED
    BY <2>2, <1>c DEF ReadAccount, AccountsTypeOK
<1>5. CASE \E l \in Logins : CountFailure(l)
  <2> PICK l \in Logins : CountFailure(l)
    BY <1>5
  <2>1. login[l].user \in Users /\ login[l].seen \in Nat
    BY <1>r DEF CountFailure, SessionsInv, LoginRows
  <2>2. Counted(account[login[l].user], login[l].seen) \in AccountRows
    BY <1>r, <2>1 DEF Counted, AccountRows
  <2>3. [login[l] EXCEPT !.stage = "refused"] \in LoginRows
    BY <1>r DEF LoginRows
  <2>4. failed[login[l].user] + 1 \in Nat
    BY <1>r, <2>1
  <2> QED
    BY <2>1, <2>2, <2>3, <2>4, <1>c DEF CountFailure, AccountsTypeOK
<1>6. CASE \E l \in Logins : OpenSession(l)
  <2> PICK l \in Logins : OpenSession(l)
    BY <1>6
  <2>1. login[l].user \in Users /\ login[l].started \in Nat
    BY <1>r DEF OpenSession, SessionsInv, LoginRows
  <2>2. Reset(account[login[l].user], login[l].seen) \in AccountRows
    BY <1>r, <2>1 DEF Reset, AccountRows
  <2>3. [login[l] EXCEPT !.stage = "open"] \in LoginRows
    BY <1>r DEF LoginRows
  <2>4. [user |-> login[l].user, expires |-> login[l].started + SessionTtl, revoked |-> FALSE]
          \in SessionRows
    BY <2>1 DEF SessionRows
  <2> QED
    BY <2>1, <2>2, <2>3, <2>4, <1>c DEF OpenSession, AccountsTypeOK
<1>7. CASE \E l \in Logins : Logout(l)
  <2> PICK l \in Logins : Logout(l)
    BY <1>7
  <2>1. [sessions[l] EXCEPT !.revoked = TRUE] \in SessionRows
    BY <1>r DEF SessionRows
  <2> QED
    BY <2>1, <1>c DEF Logout, AccountsTypeOK
<1>8. CASE Tick
  BY <1>8, <1>c DEF Tick, AccountsTypeOK
<1>9. CASE \E r \in Readers, l \in Logins : Arrive(r, l)
  <2> PICK r \in Readers, l \in Logins : Arrive(r, l)
    BY <1>9
  <2>1. reader'[r] \in ReaderRows
    BY DEF Arrive, ReaderRows, AccountsTypeOK
  <2> QED
    BY <2>1, <1>c DEF Arrive, AccountsTypeOK
<1>10. CASE \E r \in Readers : FindSession(r) \/ FindUser(r) \/ FindRoles(r)
  <2> PICK r \in Readers : FindSession(r) \/ FindUser(r) \/ FindRoles(r)
    BY <1>10
  <2>1. PICK stage \in {"user", "refused", "roles", "admitted"} : To(r, stage)
    BY DEF FindSession, FindUser, FindRoles
  <2>2. [reader[r] EXCEPT !.stage = stage] \in ReaderRows
    BY <1>r DEF ReaderRows
  <2> QED
    BY <2>1, <2>2, <1>c DEF To, AccountsTypeOK
<1> QED
  BY <1>1, <1>2, <1>3, <1>4, <1>5, <1>6, <1>7, <1>8, <1>9, <1>10 DEF AccountsNext, AccountsStep

LEMMA StepKeeps == AccountsTypeOK /\ SessionsInv /\ AccountsNext => Keeps
<1> SUFFICES ASSUME AccountsTypeOK, SessionsInv, AccountsNext PROVE Keeps
  OBVIOUS
<1> USE AccountsAssumption DEF AccountsTypeOK, AccountRows, LoginRows, SessionRows, ReaderRows, Keeps
<1>1. CASE \E i \in Installs : CreateAdministrator(i)
  BY <1>1 DEF CreateAdministrator, Conflicts, NoAccount
<1>2. CASE \E l \in Logins : CountFailure(l)
  <2> PICK l \in Logins : CountFailure(l)
    BY <1>2
  <2>1. login[l].user \in Users /\ account[login[l].user].status # "absent"
    BY DEF CountFailure, SessionsInv
  <2> QED
    BY <2>1 DEF CountFailure, Counted
<1>3. CASE \E l \in Logins : OpenSession(l)
  <2> PICK l \in Logins : OpenSession(l)
    BY <1>3
  <2>1. sessions[l] = NoSession
    BY DEF OpenSession, SessionsInv
  <2> QED
    BY <2>1 DEF OpenSession, Reset
<1>4. CASE \E l \in Logins : Logout(l)
  BY <1>4 DEF Logout, NoSession
<1>5. CASE Tick
  BY <1>5 DEF Tick
<1>6. CASE UNCHANGED <<account, sessions, now>>
  BY <1>6
<1> QED
  BY <1>1, <1>2, <1>3, <1>4, <1>5, <1>6
  DEF AccountsNext, AccountsStep, LookUp, FailToCreate, ReadAccount, Arrive, FindSession,
      FindUser, FindRoles, To

-----------------------------------------------------------------------------
LEMMA StepKeepsCounters ==
  AccountsTypeOK /\ CountersInv /\ AccountsNext => CountersInv'
<1> SUFFICES ASSUME AccountsTypeOK, CountersInv, AccountsNext PROVE CountersInv'
  OBVIOUS
<1> USE AccountsAssumption DEF AccountsTypeOK, AccountRows, LoginRows, SessionRows, ReaderRows, CountersInv, LocksOnlyAfterFailures
<1>1. CASE \E i \in Installs : CreateAdministrator(i)
  BY <1>1 DEF CreateAdministrator
<1>2. CASE \E l \in Logins, u \in Users, valid \in BOOLEAN : ReadAccount(l, u, valid)
  BY <1>2 DEF ReadAccount
<1>3. CASE \E l \in Logins : CountFailure(l)
  BY <1>3 DEF CountFailure, Counted
<1>4. CASE \E l \in Logins : OpenSession(l)
  BY <1>4 DEF OpenSession, Reset
<1>5. CASE UNCHANGED <<account, login, failed>>
  BY <1>5
<1> QED
  BY <1>1, <1>2, <1>3, <1>4, <1>5
  DEF AccountsNext, AccountsStep, LookUp, FailToCreate, Logout, Tick, Arrive, FindSession,
      FindUser, FindRoles, To

LEMMA StepKeepsSessions ==
  AccountsTypeOK /\ SessionsInv /\ AccountsNext => SessionsInv'
<1> SUFFICES ASSUME AccountsTypeOK, SessionsInv, AccountsNext PROVE SessionsInv'
  OBVIOUS
<1> USE AccountsAssumption DEF AccountsTypeOK, AccountRows, LoginRows, SessionRows, ReaderRows, AccountRows, LoginRows, SessionRows, ReaderRows
<1>k. Keeps
  BY StepKeeps
<1>1. CASE \E l \in Logins, u \in Users, valid \in BOOLEAN : ReadAccount(l, u, valid)
  BY <1>1 DEF ReadAccount, SessionsInv
<1>2. CASE \E l \in Logins : CountFailure(l)
  BY <1>2, <1>k DEF CountFailure, SessionsInv, Keeps
<1>3. CASE \E l \in Logins : OpenSession(l)
  BY <1>3, <1>k DEF OpenSession, SessionsInv, Keeps
<1>4. CASE \E l \in Logins : Logout(l)
  BY <1>4, <1>k DEF Logout, SessionsInv, Keeps
<1>5. CASE UNCHANGED <<login, sessions>>
  BY <1>5, <1>k DEF SessionsInv, Keeps
<1> QED
  BY <1>1, <1>2, <1>3, <1>4, <1>5
  DEF AccountsNext, AccountsStep, LookUp, CreateAdministrator, FailToCreate, Tick, Arrive,
      FindSession, FindUser, FindRoles, To

-----------------------------------------------------------------------------
LEMMA EndedStaysEnded ==
  ASSUME AccountsTypeOK, AccountsTypeOK', SessionsInv, Keeps,
         NEW t \in Logins, sessions[t] # NoSession, NEW at \in Nat, HasEnded(t, at),
         NEW later \in Nat, at <= later
  PROVE sessions'[t] # NoSession /\ HasEnded(t, later)'
<1>1. sessions[t].expires \in Nat /\ sessions[t].user \in Users
  BY DEF AccountsTypeOK, SessionsInv, SessionRows
<1> QED
  BY <1>1 DEF HasEnded, Keeps

LEMMA StepKeepsClosed ==
  AccountsTypeOK /\ SessionsInv /\ ClosedInv /\ AccountsNext => ClosedInv'
<1> SUFFICES ASSUME AccountsTypeOK, SessionsInv, ClosedInv, AccountsNext, NEW t \in closed'
             PROVE (sessions[t] # NoSession /\ HasEnded(t, now))'
  BY DEF ClosedInv
<1>k. Keeps /\ AccountsTypeOK' /\ SessionsInv'
  BY StepKeeps, StepKeepsTypes, StepKeepsSessions
<1>1. CASE t \in closed
  <2>1. t \in Logins /\ sessions[t] # NoSession /\ HasEnded(t, now)
    BY <1>1 DEF ClosedInv, AccountsTypeOK
  <2> QED
    BY <1>k, <2>1, EndedStaysEnded DEF Keeps
<1>2. CASE t \in Logins /\ IsClosed(t)'
  <2>1. sessions'[t].user \in Users /\ account'[sessions'[t].user].status # "absent"
    BY <1>2, <1>k DEF SessionsInv, IsClosed
  <2>2. account'[sessions'[t].user].status \in {"absent", "active", "locked"}
        /\ sessions'[t].expires \in Nat /\ now' \in Nat
    BY <1>2, <1>k, <2>1 DEF AccountsTypeOK, AccountRows, LoginRows, SessionRows, ReaderRows
  <2> QED
    BY <1>2, <2>1, <2>2 DEF IsClosed, IsOpen, HasEnded
<1> QED
  BY <1>1, <1>2 DEF AccountsNext

-----------------------------------------------------------------------------
LEMMA StepKeepsLate ==
  AccountsTypeOK /\ SessionsInv /\ ClosedInv /\ LateInv /\ AccountsNext => LateInv'
<1> SUFFICES ASSUME AccountsTypeOK, SessionsInv, ClosedInv, LateInv, AccountsNext,
                    NEW r \in Readers
             PROVE (/\ reader[r].stage # "idle" =>
                         reader[r].token \in Logins /\ sessions[reader[r].token] # NoSession
                    /\ reader[r].late =>
                         /\ reader[r].stage = "session" => HasEnded(reader[r].token, reader[r].at)
                         /\ reader[r].stage = "user" => account[UserOf(r)].status = "locked"
                         /\ reader[r].stage \notin {"roles", "admitted"})'
  BY DEF LateInv
<1>k. Keeps /\ AccountsTypeOK'
  BY StepKeeps, StepKeepsTypes
<1>l. /\ reader[r].stage # "idle" =>
           reader[r].token \in Logins /\ sessions[reader[r].token] # NoSession
      /\ reader[r].late =>
           /\ reader[r].stage = "session" => HasEnded(reader[r].token, reader[r].at)
           /\ reader[r].stage = "user" => account[UserOf(r)].status = "locked"
           /\ reader[r].stage \notin {"roles", "admitted"}
  BY DEF LateInv
<1>t. reader[r].at \in Nat
  BY DEF AccountsTypeOK, AccountRows, LoginRows, SessionRows, ReaderRows
<1>1. CASE reader'[r] = reader[r]
  <2>1. CASE reader[r].stage = "idle"
    BY <1>1, <2>1
  <2>2. CASE reader[r].stage # "idle"
    <3> DEFINE t == reader[r].token
    <3>1. t \in Logins /\ sessions[t] # NoSession /\ sessions[t].user \in Users
      BY <1>l, <2>2 DEF SessionsInv
    <3>2. sessions'[t] # NoSession /\ sessions'[t].user = sessions[t].user
      BY <1>k, <3>1 DEF Keeps
    <3>3. HasEnded(t, reader[r].at) => HasEnded(t, reader[r].at)'
      <4> HAVE HasEnded(t, reader[r].at)
      <4> DEFINE at == reader[r].at
      <4>1. at \in Nat /\ at <= at
        BY <1>t
      <4>2. reader'[r].at = at /\ reader'[r].token = t
        BY <1>1
      <4> HIDE DEF t, at
      <4>3. sessions'[t].expires = sessions[t].expires
        BY <3>1, <1>k DEF Keeps
      <4> QED
        BY <1>1, <1>k, <3>1, <3>2, <4>1, <4>2, <4>3 DEF Keeps, HasEnded, t, at
    <3>4. account[UserOf(r)].status = "locked" => account'[sessions'[t].user].status = "locked"
      BY <1>k, <3>1, <3>2 DEF Keeps, UserOf
    <3> QED
      BY <1>1, <1>l, <3>1, <3>2, <3>3, <3>4 DEF UserOf
  <2> QED
    BY <2>1, <2>2
<1>3. CASE \E token \in Logins : Arrive(r, token)
  <2> PICK token \in Logins : Arrive(r, token)
    BY <1>3
  <2> DEFINE isClosed == token \in closed
  <2>1. reader'[r] = [stage |-> "session", token |-> token, at |-> now, late |-> isClosed]
        /\ sessions' = sessions /\ account' = account /\ sessions[token] # NoSession
    BY DEF Arrive, AccountsTypeOK
  <2>2. token \in closed => HasEnded(token, now)
    BY DEF ClosedInv
  <2>4. /\ reader'[r].stage = "session" /\ reader'[r].token = token /\ reader'[r].at = now
        /\ reader'[r].late => token \in closed
    <3> HIDE DEF isClosed
    <3>1. /\ reader'[r].stage = "session" /\ reader'[r].token = token /\ reader'[r].at = now
          /\ reader'[r].late = isClosed
      BY <2>1
    <3> QED
      BY <3>1 DEF isClosed
  <2>5. reader'[r].late => HasEnded(reader'[r].token, reader'[r].at)
    BY <2>2, <2>4
  <2>6. HasEnded(reader[r].token, reader[r].at)' <=> HasEnded(reader'[r].token, reader'[r].at)
    BY <2>1 DEF HasEnded
  <2> QED
    BY <2>1, <2>4, <2>5, <2>6
<1>4. CASE FindSession(r)
  <2>1. /\ reader'[r].token = reader[r].token /\ reader'[r].late = reader[r].late
        /\ reader'[r].stage \in {"user", "refused"}
        /\ reader'[r].stage = "user" => IsOpen(sessions[reader[r].token], reader[r].at)
        /\ reader[r].stage = "session" /\ sessions' = sessions /\ account' = account
    BY <1>4 DEF FindSession, To, AccountsTypeOK, ReaderRows
  <2>2. sessions[reader[r].token].expires \in Nat
    BY <1>l, <2>1 DEF AccountsTypeOK, AccountRows, LoginRows, SessionRows, ReaderRows
  <2> QED
    BY <1>l, <1>t, <2>1, <2>2 DEF HasEnded, IsOpen, UserOf
<1>5. CASE FindUser(r)
  BY <1>5, <1>l DEF FindUser, To, AccountsTypeOK, ReaderRows, UserOf
<1>6. CASE FindRoles(r)
  BY <1>6, <1>l DEF FindRoles, To, AccountsTypeOK, ReaderRows, UserOf
<1>7. \/ reader'[r] = reader[r]
      \/ \E token \in Logins : Arrive(r, token)
      \/ FindSession(r) \/ FindUser(r) \/ FindRoles(r)
  BY DEF AccountsNext, AccountsStep, LookUp, CreateAdministrator, FailToCreate, ReadAccount,
         CountFailure, OpenSession, Logout, Tick, Arrive, FindSession, FindUser, FindRoles, To,
         AccountsTypeOK
<1> QED
  BY <1>1, <1>3, <1>4, <1>5, <1>6, <1>7

-----------------------------------------------------------------------------
AccountsInv == AccountsTypeOK /\ CountersInv /\ SessionsInv /\ ClosedInv /\ LateInv

LEMMA StepKeepsInv == AccountsInv /\ [AccountsNext]_accountVars => AccountsInv'
<1>1. CASE AccountsNext
  BY <1>1, StepKeepsTypes, StepKeepsCounters, StepKeepsSessions, StepKeepsClosed, StepKeepsLate
  DEF AccountsInv
<1>2. CASE UNCHANGED accountVars
  BY <1>2, AccountsAssumption
  DEF AccountsInv, AccountsTypeOK, CountersInv, LocksOnlyAfterFailures, SessionsInv, ClosedInv,
      LateInv, HasEnded, UserOf, accountVars
<1> QED
  BY <1>1, <1>2

LEMMA InvHolds == AccountsSpec => []AccountsInv
BY InitHolds, StepKeepsInv, PTL DEF AccountsSpec, AccountsInv

(* Every variable has its type.                                            *)
THEOREM AccountTypes == AccountsSpec => []AccountsTypeOK
BY InvHolds, PTL DEF AccountsInv

(* Whatever logins overlap, an account is locked only after MaxFailures    *)
(* failed ones, and its counter is at most the number of them.             *)
THEOREM AccountsLockAfterFailures == AccountsSpec => []LocksOnlyAfterFailures
BY InvHolds, PTL DEF AccountsInv, CountersInv

(* A token that was revoked, expired or of a locked user before a request  *)
(* came with it does not admit that request.                               *)
THEOREM EndedTokensAdmitNobody == AccountsSpec => []ClosedSessionsStayOut
<1>1. LateInv => ClosedSessionsStayOut
  BY DEF LateInv, ClosedSessionsStayOut
<1> QED
  BY <1>1, InvHolds, PTL DEF AccountsInv
=============================================================================
