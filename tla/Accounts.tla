------------------------------ MODULE Accounts ------------------------------
(***************************************************************************)
(* Accounts, their sessions, the brake on logins, the requests to recover  *)
(* a password and the synchronisation with the ERP's system users. Every   *)
(* request is a sequence of reads and writes of its own, none of them in a *)
(* transaction, so requests overlap between any two.                       *)
(*                                                                         *)
(* A password is a number, new for each change; version 0 is the random    *)
(* one nobody knows. A session is the request that opened it, or one the   *)
(* account had at first. An account stands for its e-mail. The role is     *)
(* whether it may manage users.                                            *)
(***************************************************************************)
EXTENDS Naturals, FiniteSets

CONSTANTS Accounts,     \* e-mails
          Managers,     \* accounts that exist at first, with role manager
          Protected,    \* IXC_SYNC_PROTECTED_EMAILS
          AccountRequests,
          Plans,        \* what each request is about: functions of requests to operations
          EmailMax,     \* EMAIL_RULE.max
          IpMax,        \* IP_RULE.max
          MaxPasswords  \* bound on the passwords set

Operations == {"none", "login", "password", "set-active", "set-role", "create", "reset-password",
               "dismiss-reset", "forgot", "logout", "sync"}

ASSUME AccountAssumption ==
    /\ Managers \subseteq Accounts /\ Protected \subseteq Accounts /\ "ip" \notin Accounts
    /\ Accounts \intersect AccountRequests = {}
    /\ Plans \subseteq [AccountRequests -> Operations]
    /\ EmailMax \in Nat /\ IpMax \in Nat /\ MaxPasswords \in Nat \ {0}

VARIABLES plan,         \* never changed
          account,      \* rows of users
          passwords,    \* passwords set so far
          session,      \* rows of sessions
          failures,     \* attempts in the window, by e-mail and for the address
          reset,        \* rows of password_reset_requests, by the request that made them
          call,         \* where each request is
          outvoted,      \* auxiliary: the managers a check counted on were gone when it wrote
          cut,          \* auxiliary: accounts whose change of password failed before its end
          crowded       \* auxiliary: e-mails whose attempts overlapped

accountVars == <<plan, account, passwords, session, failures, reset, call, outvoted, cut, crowded>>

Versions == 0 .. MaxPasswords
AccountRoles == {"manager", "other"}
Keys == Accounts \union {"ip"}
NewCall == [step |-> "idle", target |-> "none", session |-> "none", password |-> 0,
            change |-> [role |-> "other", active |-> FALSE], remaining |-> {}, todo |-> {},
            missed |-> {}]
CallSteps == {"idle", "find", "refused", "open", "clear", "update", "drop", "check", "insert",
              "provision", "resolve", "sync", "write", "done"}

AccountTypeOK ==
    /\ plan \in Plans
    /\ account \in [Accounts -> [exists : BOOLEAN, active : BOOLEAN, role : AccountRoles,
                                 password : Versions, set : {"own", "admin"}]]
    /\ passwords \in Versions
    /\ session \in SUBSET [id : AccountRequests \union Accounts, account : Accounts, password : Versions,
                           late : BOOLEAN]
    /\ failures \in [Keys -> Nat]
    /\ reset \in [AccountRequests -> [account : Accounts \union {"none"},
                                      status : {"none", "pending", "resolved", "dismissed"}]]
    /\ call \in [AccountRequests ->
                    [step : CallSteps, target : Accounts \union {"none"},
                     session : AccountRequests \union Accounts \union {"none"}, password : Versions,
                     change : [role : AccountRoles, active : BOOLEAN],
                     remaining : SUBSET Accounts, todo : SUBSET Accounts,
                     missed : SUBSET AccountRequests]]
    /\ outvoted \in BOOLEAN /\ cut \subseteq Accounts /\ crowded \subseteq Accounts

\* The first accounts come with a script that sets their passwords; one that
\* is not a row yet has the values its row will begin with.
AccountInit ==
    /\ plan \in Plans
    /\ account = [a \in Accounts |-> [exists |-> a \in Managers, active |-> a \in Managers,
                                      role |-> IF a \in Managers THEN "manager" ELSE "other",
                                      password |-> IF a \in Managers THEN 1 ELSE 0,
                                      set |-> "admin"]]
    /\ passwords = 1
    /\ session = {[id |-> a, account |-> a, password |-> 1, late |-> FALSE] : a \in Managers}
    /\ failures = [k \in Keys |-> 0]
    /\ reset = [q \in AccountRequests |-> [account |-> "none", status |-> "none"]]
    /\ call = [q \in AccountRequests |-> NewCall]
    /\ outvoted = FALSE /\ cut = {} /\ crowded = {}

-----------------------------------------------------------------------------
(* Who may do what. *)

ManagersNow == {a \in Accounts : account[a].exists /\ account[a].active /\ account[a].role = "manager"}

\* resolveSession: the account is looked at again on every request.
CurrentUser(s) == s \in session /\ account[s.account].active
Authorize(s) == CurrentUser(s) /\ s.account \in ManagersNow

Idle(q, operation) == plan[q] = operation /\ call[q].step = "idle"
At(q, step) == call[q].step = step
Goes(q, step) == call' = [call EXCEPT ![q].step = step]
\* What is typed is the password of the moment, or anything else.
Typed(a) == {account[a].password, 0}
Done(q) == call' = [call EXCEPT ![q] = [NewCall EXCEPT !.step = "done"]]

\* A session ends after its hours, or is found expired and deleted.
SessionExpires(s) ==
    /\ s \in session
    /\ session' = session \ {s}
    /\ UNCHANGED <<plan, account, passwords, failures, reset, call, outvoted, cut, crowded>>

Logout(q, s) ==
    /\ Idle(q, "logout") /\ s \in session
    /\ session' = session \ {s}
    /\ Done(q)
    /\ UNCHANGED <<plan, account, passwords, failures, reset, outvoted, cut, crowded>>

-----------------------------------------------------------------------------
(* The brake. It asks and records apart; only a refused login and a request
   for recovery record, and a login that succeeds clears the e-mail alone. *)

Braked(a) == failures[a] >= EmailMax \/ failures["ip"] >= IpMax
Trying == {q \in AccountRequests : call[q].step \in {"find", "refused"}}
TriedToo(a) == {a} \intersect {call[q].target : q \in Trying}

RecordFailure(a) == failures' = [failures EXCEPT ![a] = @ + 1, !["ip"] = @ + 1]

\* Mutant: attempts leave the window that never were in it.
AttemptNeverWas(k) ==
    /\ failures' = [failures EXCEPT ![k] = @ - 1]
    /\ UNCHANGED <<plan, account, passwords, session, reset, call, outvoted, cut, crowded>>

\* The oldest attempt leaves the window.
AttemptAges(k) ==
    /\ failures[k] > 0
    /\ failures' = [failures EXCEPT ![k] = @ - 1]
    /\ UNCHANGED <<plan, account, passwords, session, reset, call, outvoted, cut, crowded>>

LoginBraked(q, a) ==
    /\ Idle(q, "login") /\ Braked(a)
    /\ Done(q)
    /\ UNCHANGED <<plan, account, passwords, session, failures, reset, outvoted, cut, crowded>>

LoginBegins(q, a, p) ==
    /\ Idle(q, "login") /\ ~Braked(a)
    /\ call' = [call EXCEPT ![q].step = "find", ![q].target = a, ![q].password = p]
    /\ crowded' = crowded \union TriedToo(a)
    /\ UNCHANGED <<plan, account, passwords, session, failures, reset, outvoted, cut>>

\* The row is read, then the password is compared with what was read.
LoginFinds(q) ==
    /\ At(q, "find")
    /\ LET row == account[call[q].target] IN
       Goes(q, IF row.exists /\ row.active /\ row.password # 0 /\ row.password = call[q].password
               THEN "open" ELSE "refused")
    /\ UNCHANGED <<plan, account, passwords, session, failures, reset, outvoted, cut, crowded>>

LoginRefused(q) ==
    /\ At(q, "refused")
    /\ RecordFailure(call[q].target)
    /\ Done(q)
    /\ UNCHANGED <<plan, account, passwords, session, reset, outvoted, cut, crowded>>

LoginOpens(q) ==
    /\ At(q, "open")
    /\ LET a == call[q].target IN
       session' = session \union {[id |-> q, account |-> a, password |-> call[q].password,
                                   late |-> call[q].password # account[a].password]}
    /\ Goes(q, "clear")
    /\ UNCHANGED <<plan, account, passwords, failures, reset, outvoted, cut, crowded>>

LoginClears(q) ==
    /\ At(q, "clear")
    /\ failures' = [failures EXCEPT ![call[q].target] = 0]
    /\ Done(q)
    /\ UNCHANGED <<plan, account, passwords, session, reset, outvoted, cut, crowded>>

-----------------------------------------------------------------------------
(* The own password: read and compared, then written, then the other sessions
   of the account deleted. *)

ChangeReads(q, s, p) ==
    /\ Idle(q, "password") /\ CurrentUser(s)
    /\ IF p = account[s.account].password
       THEN call' = [call EXCEPT ![q].step = "update", ![q].target = s.account, ![q].session = s.id]
       ELSE Done(q)
    /\ UNCHANGED <<plan, account, passwords, session, failures, reset, outvoted, cut, crowded>>

NewPassword(a, by) ==
    /\ passwords < MaxPasswords
    /\ passwords' = passwords + 1
    /\ account' = [account EXCEPT ![a].password = passwords + 1, ![a].set = by]

ChangeUpdates(q) ==
    /\ At(q, "update") /\ plan[q] = "password"
    /\ NewPassword(call[q].target, "own")
    /\ session' = {IF s.id = call[q].session THEN [s EXCEPT !.password = passwords'] ELSE s : s \in session}
    /\ Goes(q, "drop")
    /\ UNCHANGED <<plan, failures, reset, outvoted, cut, crowded>>

\* Mutant: the sessions of the other devices are left alone.
DropsNobody(q) ==
    /\ At(q, "drop")
    /\ Done(q)
    /\ UNCHANGED <<plan, account, passwords, session, failures, reset, outvoted, cut, crowded>>

DropsOthers(q) ==
    /\ At(q, "drop")
    /\ session' = {s \in session : s.account # call[q].target \/ s.id = call[q].session}
    /\ Done(q)
    /\ UNCHANGED <<plan, account, passwords, failures, reset, outvoted, cut, crowded>>

-----------------------------------------------------------------------------
(* Administration. *)

\* The three operations that name an account; the change is the row's role and
\* activity as the request wants them.
Administer(q, s, t, change) ==
    /\ plan[q] \in {"set-active", "set-role"} /\ At(q, "idle")
    /\ Authorize(s) /\ account[t].exists
    /\ IF plan[q] = "set-active" THEN change.role = account[t].role
                                 ELSE change.active = account[t].active
    /\ call' = [call EXCEPT ![q].step = "check", ![q].target = t, ![q].session = s.id,
                            ![q].change = change]
    /\ UNCHANGED <<plan, account, passwords, session, failures, reset, outvoted, cut, crowded>>

LosesManage(q) == IF plan[q] = "set-active" THEN ~call[q].change.active
                                            ELSE call[q].change.role # "manager"
ActsOnSelf(q) == \E s \in session : s.id = call[q].session /\ s.account = call[q].target

\* Mutant: an administrator is kept from locking out themselves, and nobody else.
AssertNotSelf(q) ==
    /\ At(q, "check") /\ plan[q] # "forgot"
    /\ IF LosesManage(q) /\ ActsOnSelf(q)
       THEN Done(q)
       ELSE call' = [call EXCEPT ![q].step = "update", ![q].remaining = ManagersNow \ {call[q].target}]
    /\ UNCHANGED <<plan, account, passwords, session, failures, reset, outvoted, cut, crowded>>

AssertNotLockout(q) ==
    /\ At(q, "check") /\ plan[q] # "forgot"
    /\ LET remaining == ManagersNow \ {call[q].target} IN
       IF LosesManage(q) /\ (ActsOnSelf(q) \/ remaining = {})
       THEN Done(q)
       ELSE call' = [call EXCEPT ![q].step = "update", ![q].remaining = remaining]
    /\ UNCHANGED <<plan, account, passwords, session, failures, reset, outvoted, cut, crowded>>

AdminUpdates(q) ==
    /\ At(q, "update") /\ plan[q] \in {"set-active", "set-role"}
    /\ LET c == call[q] IN
       /\ account' = IF plan[q] = "set-active"
                     THEN [account EXCEPT ![c.target].active = c.change.active]
                     ELSE [account EXCEPT ![c.target].role = c.change.role]
       /\ outvoted' = \/ outvoted
                      \/ LosesManage(q) /\ c.remaining # {} /\ c.remaining \intersect ManagersNow = {}
    /\ Done(q)
    /\ UNCHANGED <<plan, passwords, session, failures, reset, cut, crowded>>

CreateFinds(q, s, a) ==
    /\ Idle(q, "create") /\ Authorize(s)
    /\ IF account[a].exists THEN Done(q)
       ELSE call' = [call EXCEPT ![q].step = "insert", ![q].target = a]
    /\ UNCHANGED <<plan, account, passwords, session, failures, reset, outvoted, cut, crowded>>

\* The unique index turns a second row of the e-mail away.
CreateInserts(q) ==
    /\ At(q, "insert") /\ plan[q] = "create"
    /\ LET a == call[q].target IN
       IF account[a].exists
       THEN UNCHANGED <<account, passwords>>
       ELSE /\ passwords < MaxPasswords
            /\ passwords' = passwords + 1
            /\ \E role \in AccountRoles :
                  account' = [account EXCEPT ![a] = [exists |-> TRUE, active |-> TRUE, role |-> role,
                                                     password |-> passwords + 1, set |-> "admin"]]
    /\ Done(q)
    /\ UNCHANGED <<plan, session, failures, reset, outvoted, cut, crowded>>

ResetBegins(q, s, t, r) ==
    /\ Idle(q, "reset-password") /\ Authorize(s) /\ account[t].exists
    /\ reset[r].account \in {t, "none"}
    /\ call' = [call EXCEPT ![q].step = "provision", ![q].target = t, ![q].session = r]
    /\ UNCHANGED <<plan, account, passwords, session, failures, reset, outvoted, cut, crowded>>

ResetProvisions(q) ==
    /\ At(q, "provision")
    /\ NewPassword(call[q].target, "admin")
    /\ Goes(q, "resolve")
    /\ UNCHANGED <<plan, session, failures, reset, outvoted, cut, crowded>>

\* By id alone, whatever the row says by now; no row, no change.
Resolve(r, status) ==
    reset' = IF reset[r].status = "none" THEN reset ELSE [reset EXCEPT ![r].status = status]

ResetResolves(q) ==
    /\ At(q, "resolve")
    /\ Resolve(call[q].session, "resolved")
    /\ Done(q)
    /\ UNCHANGED <<plan, account, passwords, session, failures, outvoted, cut, crowded>>

DismissReset(q, s, r) ==
    /\ Idle(q, "dismiss-reset") /\ Authorize(s)
    /\ Resolve(r, "dismissed")
    /\ Done(q)
    /\ UNCHANGED <<plan, account, passwords, session, failures, outvoted, cut, crowded>>

-----------------------------------------------------------------------------
(* Asking for recovery: the brake is asked and the attempt recorded at once,
   the account need not exist. *)

PendingOf(a) == {r \in AccountRequests : reset[r] = [account |-> a, status |-> "pending"]}

ForgotBegins(q, a) ==
    /\ Idle(q, "forgot")
    /\ IF Braked(a)
       THEN Done(q) /\ UNCHANGED <<failures, crowded>>
       ELSE /\ RecordFailure(a)
            /\ crowded' = crowded \union TriedToo(a)
            /\ call' = [call EXCEPT ![q].step = "check", ![q].target = a]
    /\ UNCHANGED <<plan, account, passwords, session, reset, outvoted, cut>>

ForgotLooks(q) ==
    /\ At(q, "check") /\ plan[q] = "forgot"
    /\ IF PendingOf(call[q].target) # {} THEN Done(q) ELSE Goes(q, "insert")
    /\ UNCHANGED <<plan, account, passwords, session, failures, reset, outvoted, cut, crowded>>

ForgotInserts(q) ==
    /\ At(q, "insert") /\ plan[q] = "forgot"
    /\ reset' = [reset EXCEPT ![q] = [account |-> call[q].target, status |-> "pending"]]
    /\ call' = [r \in AccountRequests |->
                  IF r = q THEN [call[q] EXCEPT !.step = "done"]
                  ELSE IF At(r, "insert") /\ plan[r] = "forgot"
                  THEN [call[r] EXCEPT !.missed = @ \union {q}] ELSE call[r]]
    /\ UNCHANGED <<plan, account, passwords, session, failures, outvoted, cut, crowded>>

-----------------------------------------------------------------------------
(* The synchronisation walks the list of the ERP, account by account. *)

SyncBegins(q, s) ==
    /\ Idle(q, "sync") /\ Authorize(s)
    /\ \E listed \in SUBSET Accounts :
          call' = [call EXCEPT ![q].step = "sync", ![q].todo = listed \ Protected]
    /\ UNCHANGED <<plan, account, passwords, session, failures, reset, outvoted, cut, crowded>>

\* What the ERP says of the account; an unmapped group is the least role.
SyncReads(q, a, ixc) ==
    /\ At(q, "sync") /\ a \in call[q].todo
    /\ LET c == [call[q] EXCEPT !.todo = @ \ {a}] IN
       call' = [call EXCEPT ![q] =
                  IF IF account[a].exists THEN ixc # [role |-> account[a].role, active |-> account[a].active]
                                          ELSE ixc.active
                  THEN [c EXCEPT !.step = "write", !.target = a, !.change = ixc] ELSE c]
    /\ UNCHANGED <<plan, account, passwords, session, failures, reset, outvoted, cut, crowded>>

\* A new row has a password nobody knows; nobody counts the managers.
SyncWrites(q) ==
    /\ At(q, "write")
    /\ LET c == call[q] IN
       /\ account' = IF account[c.target].exists
                     THEN [account EXCEPT ![c.target].role = c.change.role, ![c.target].active = c.change.active]
                     ELSE [account EXCEPT ![c.target].exists = TRUE, ![c.target].active = TRUE,
                                          ![c.target].role = c.change.role]
       /\ outvoted' = (outvoted \/ ManagersNow \subseteq {c.target})
    /\ Goes(q, "sync")
    /\ UNCHANGED <<plan, passwords, session, failures, reset, cut, crowded>>

SyncEnds(q) ==
    /\ At(q, "sync") /\ call[q].todo = {}
    /\ Done(q)
    /\ UNCHANGED <<plan, account, passwords, session, failures, reset, outvoted, cut, crowded>>

\* The database fails, or the process ends: what was written stays written.
AccountCallFails(q) ==
    /\ call[q].step \notin {"idle", "done"}
    /\ cut' = IF At(q, "drop") THEN cut \union {call[q].target} ELSE cut
    /\ Done(q)
    /\ UNCHANGED <<plan, account, passwords, session, failures, reset, outvoted, crowded>>

AccountStep(q) ==
    \/ LoginFinds(q) \/ LoginRefused(q) \/ LoginOpens(q) \/ LoginClears(q)
    \/ ChangeUpdates(q) \/ DropsOthers(q)
    \/ AssertNotLockout(q) \/ AdminUpdates(q) \/ CreateInserts(q)
    \/ ResetProvisions(q) \/ ResetResolves(q)
    \/ ForgotLooks(q) \/ ForgotInserts(q)
    \/ SyncWrites(q) \/ SyncEnds(q) \/ AccountCallFails(q)

AccountNext ==
    \/ \E k \in Keys : AttemptAges(k)
    \/ \E s \in session : SessionExpires(s)
    \/ \E q \in AccountRequests :
          \/ AccountStep(q)
          \/ \E a \in Accounts :
                \/ LoginBraked(q, a) \/ ForgotBegins(q, a)
                \/ \E p \in Typed(a) : LoginBegins(q, a, p)
                \/ \E ixc \in [role : AccountRoles, active : BOOLEAN] : SyncReads(q, a, ixc)
          \/ \E s \in session :
                \/ Logout(q, s) \/ SyncBegins(q, s)
                \/ \E p \in Typed(s.account) : ChangeReads(q, s, p)
                \/ \E r \in AccountRequests : DismissReset(q, s, r)
                \/ \E t \in Accounts :
                      \/ CreateFinds(q, s, t)
                      \/ \E r \in AccountRequests : ResetBegins(q, s, t, r)
                      \/ \E change \in [role : AccountRoles, active : BOOLEAN] : Administer(q, s, t, change)

AccountSpec == AccountInit /\ [][AccountNext]_accountVars

-----------------------------------------------------------------------------
(* assertNotLockout: an account that manages users remains, whatever the
   administrators do to each other, unless the managers a check counted on lost
   their role between the check and its write, or the ERP's list took it. *)
SomebodyManages == ManagersNow = {} => outvoted

(* "Esta é a última conta capaz de gerenciar usuários — deixaria o sistema sem
   administrador": the guard as it is told. Not so in this code: two managers who
   demote each other are both told there is another, and TLC leaves none. *)
SomebodyAlwaysManages == ManagersNow # {}

(* "As outras sessões caem, preservando só a que fez a troca": where the current
   password is one the person chose, a session of an earlier one was opened by a
   login that had compared the old password before, or is about to be deleted,
   unless deleting failed. The session that changed it is of the new password. *)
OldSessionsEnd ==
    \A s \in session :
        LET row == account[s.account] IN
        s.password # row.password /\ row.set = "own" =>
            \/ s.late \/ s.account \in cut
            \/ \E q \in AccountRequests : At(q, "drop") /\ call[q].target = s.account

(* "Um pedido pendente por e-mail basta": two pending requests of an e-mail both
   looked before the other was inserted. *)
OnePending ==
    \A r1, r2 \in AccountRequests :
        r1 # r2 /\ reset[r1].status = "pending" /\ reset[r2] = reset[r1] =>
            r1 \in call[r2].missed \/ r2 \in call[r1].missed

(* The brake: more failures of an e-mail than the rule allows are of attempts
   that were made at the same time. *)
BrakeHolds == \A a \in Accounts : failures[a] > EmailMax => a \in crowded

(* Who comes in, and how often it may be tried. *)
EntryIsGuarded == OldSessionsEnd /\ OnePending /\ BrakeHolds
=============================================================================
