---------------------------- MODULE AccountsProofs ----------------------------
(***************************************************************************)
(* However many accounts and overlapping requests: somebody remains who    *)
(* manages users, and what guards the entry holds, each with the           *)
(* exceptions its statement names.                                         *)
(***************************************************************************)
EXTENDS Accounts, TLAPS

Ids == AccountRequests \union Accounts
Changes == [role : AccountRoles, active : BOOLEAN]
CallRecords ==
    [step : CallSteps, target : Accounts \union {"none"}, session : Ids \union {"none"},
     password : Versions, change : Changes, remaining : SUBSET Accounts,
     todo : SUBSET Accounts, missed : SUBSET AccountRequests]

\* A request in the middle of its steps has the account it is about.
TargetsAreAccounts ==
    \A q \in AccountRequests :
        call[q].step \notin {"idle", "done", "sync"} => call[q].target \in Accounts

(* The managers. *)

\* A change that takes the right to manage away counted somebody else who has it.
Loses(operation, c) == IF operation = "set-active" THEN ~c.change.active
                                                   ELSE c.change.role # "manager"
Counted(operation, c) ==
    c.step = "update" /\ operation \in {"set-active", "set-role"} =>
        /\ c.target \notin c.remaining
        /\ Loses(operation, c) => c.remaining # {}
ChecksCount == \A q \in AccountRequests : Counted(plan[q], call[q])

ManagersInv == ChecksCount /\ SomebodyManages

(* The brake. *)

\* Attempts that do not overlap fit: the one under way was let in below the limit.
Tries(c) == c.step \in {"find", "refused"}
TriesFit ==
    \A a \in Accounts \ crowded :
        /\ failures[a] <= EmailMax
        /\ \A q \in AccountRequests : Tries(call[q]) /\ call[q].target = a =>
              /\ failures[a] < EmailMax
              /\ \A r \in AccountRequests : Tries(call[r]) /\ call[r].target = a => r = q

(* The requests for recovery. *)

\* Who has a row is done; who is about to insert has missed the rows that are pending.
AskedIsDone == \A q \in AccountRequests : reset[q].status # "none" => call[q].step = "done"
LooksMiss ==
    \A q, r \in AccountRequests :
        /\ call[q].step = "insert" /\ plan[q] = "forgot"
        /\ reset[r] = [account |-> call[q].target, status |-> "pending"]
        => r \in call[q].missed

ResetInv == AskedIsDone /\ LooksMiss /\ OnePending

(* The sessions. *)

Opened(i) == i \in Accounts \/ (i \in AccountRequests /\ call[i].step \in {"clear", "done"})
OfOneAccount == \A s, t \in session : s.id = t.id => s.account = t.account
OpenedBefore == \A s \in session : Opened(s.id)

\* Who changes a password does so in a session of the account.
InOwnSession(q, c) ==
    /\ c.step = "drop" => plan[q] = "password"
    /\ c.step = "check" => plan[q] # "password"
    /\ c.step \in {"update", "drop"} /\ plan[q] = "password" =>
          /\ Opened(c.session)
          /\ \A s \in session : s.id = c.session => s.account = c.target
ChangesInSession == \A q \in AccountRequests : InOwnSession(q, call[q])

\* A session of an earlier password waits for a request that will not spare it.
Outdated(s) == s.password # account[s.account].password /\ account[s.account].set = "own"
Going(s, q) == call[q].step = "drop" /\ call[q].target = s.account /\ call[q].session # s.id
OldOnesGo ==
    \A s \in session : Outdated(s) =>
        s.late \/ s.account \in cut \/ \E q \in AccountRequests : Going(s, q)

SessionInv == OfOneAccount /\ OpenedBefore /\ ChangesInSession /\ OldOnesGo

Inv == AccountTypeOK /\ TargetsAreAccounts /\ ManagersInv /\ TriesFit /\ ResetInv /\ SessionInv

USE AccountAssumption

-----------------------------------------------------------------------------
(* What the variables are, with a name for each set of rows.               *)

AccountRows == [exists : BOOLEAN, active : BOOLEAN, role : AccountRoles,
                password : Versions, set : {"own", "admin"}]
SessionRows == [id : Ids, account : Accounts, password : Versions, late : BOOLEAN]
ResetRows == [account : Accounts \union {"none"}, status : {"none", "pending", "resolved", "dismissed"}]

LEMMA TypesOf ==
    AccountTypeOK <=>
        /\ plan \in Plans /\ account \in [Accounts -> AccountRows] /\ passwords \in Versions
        /\ session \in SUBSET SessionRows /\ failures \in [Keys -> Nat]
        /\ reset \in [AccountRequests -> ResetRows] /\ call \in [AccountRequests -> CallRecords]
        /\ outvoted \in BOOLEAN /\ cut \subseteq Accounts /\ crowded \subseteq Accounts
  BY DEF AccountTypeOK, AccountRows, SessionRows, ResetRows, CallRecords, Ids, Changes

LEMMA NewCallIsRecord == NewCall \in CallRecords /\ [NewCall EXCEPT !.step = "done"] \in CallRecords
<1>1. 0 \in Versions
  BY DEF Versions
<1>2. [role |-> "other", active |-> FALSE] \in Changes
  BY DEF Changes, AccountRoles
<1>3. NewCall \in CallRecords
  BY <1>1, <1>2 DEF NewCall, CallRecords, CallSteps
<1> QED BY <1>3 DEF CallRecords, CallSteps

LEMMA RecordsChange ==
    ASSUME NEW r \in CallRecords, NEW s \in CallSteps, NEW t \in Accounts, NEW i \in Ids,
           NEW p \in Versions, NEW d \in Changes, NEW R \in SUBSET Accounts,
           NEW M \in SUBSET AccountRequests
    PROVE  /\ [r EXCEPT !.step = s] \in CallRecords
           /\ [r EXCEPT !.step = s, !.target = t] \in CallRecords
           /\ [r EXCEPT !.step = s, !.target = t, !.password = p] \in CallRecords
           /\ [r EXCEPT !.step = s, !.target = t, !.session = i] \in CallRecords
           /\ [r EXCEPT !.step = s, !.target = t, !.session = i, !.change = d] \in CallRecords
           /\ [r EXCEPT !.step = s, !.target = t, !.change = d] \in CallRecords
           /\ [r EXCEPT !.step = s, !.remaining = R] \in CallRecords
           /\ [r EXCEPT !.step = s, !.todo = R] \in CallRecords
           /\ [r EXCEPT !.todo = R] \in CallRecords
           /\ [r EXCEPT !.missed = M] \in CallRecords
<1>1. [r EXCEPT !.step = s] \in CallRecords
  BY DEF CallRecords
<1>2. [r EXCEPT !.step = s, !.target = t] \in CallRecords
  BY DEF CallRecords
<1>3. [r EXCEPT !.step = s, !.target = t, !.password = p] \in CallRecords
  BY DEF CallRecords
<1>4. [r EXCEPT !.step = s, !.target = t, !.session = i] \in CallRecords
  BY DEF CallRecords
<1>5. [r EXCEPT !.step = s, !.target = t, !.session = i, !.change = d] \in CallRecords
  BY DEF CallRecords
<1>6. [r EXCEPT !.step = s, !.target = t, !.change = d] \in CallRecords
  BY DEF CallRecords
<1>7. [r EXCEPT !.step = s, !.remaining = R] \in CallRecords
  BY DEF CallRecords
<1>8. [r EXCEPT !.step = s, !.todo = R] \in CallRecords /\ [r EXCEPT !.todo = R] \in CallRecords
  BY DEF CallRecords
<1>9. [r EXCEPT !.missed = M] \in CallRecords
  BY DEF CallRecords
<1> QED BY <1>1, <1>2, <1>3, <1>4, <1>5, <1>6, <1>7, <1>8, <1>9

-----------------------------------------------------------------------------
(* What a step may do that leaves a part of the invariant alone: the request *)
(* q goes from call[q] to c.                                               *)

LEMMA KeepsTargets ==
    ASSUME Inv, NEW q \in AccountRequests, NEW c \in CallRecords, call' = [call EXCEPT ![q] = c],
           c.step \notin {"idle", "done", "sync"} => c.target \in Accounts
    PROVE  TargetsAreAccounts' /\ call' \in [AccountRequests -> CallRecords]
  BY TypesOf DEF Inv, TargetsAreAccounts

LEMMA KeepsManagers ==
    ASSUME Inv, NEW q \in AccountRequests, NEW c \in CallRecords, call' = [call EXCEPT ![q] = c],
           UNCHANGED <<plan, account, outvoted>>, Counted(plan[q], c)
    PROVE  ManagersInv'
<1>1. ChecksCount'
  BY TypesOf DEF Inv, ManagersInv, ChecksCount, Counted, Loses
<1>2. SomebodyManages'
  BY DEF Inv, ManagersInv, SomebodyManages, ManagersNow
<1> QED BY <1>1, <1>2 DEF ManagersInv

LEMMA KeepsTries ==
    ASSUME Inv, NEW q \in AccountRequests, NEW c \in CallRecords, call' = [call EXCEPT ![q] = c],
           failures' \in [Keys -> Nat], \A k \in Keys : failures'[k] <= failures[k],
           crowded \subseteq crowded',
           Tries(c) => Tries(call[q]) /\ c.target = call[q].target
    PROVE  TriesFit'
<1> SUFFICES ASSUME NEW a \in Accounts, a \notin crowded'
             PROVE /\ failures'[a] <= EmailMax
                   /\ \A p \in AccountRequests : Tries(call'[p]) /\ call'[p].target = a =>
                         /\ failures'[a] < EmailMax
                         /\ \A r \in AccountRequests : Tries(call'[r]) /\ call'[r].target = a => r = p
  BY DEF TriesFit, Tries
<1>1. /\ a \in Keys /\ failures[a] \in Nat /\ failures'[a] \in Nat /\ failures'[a] <= failures[a]
      /\ EmailMax \in Nat
  BY TypesOf DEF Inv, Keys
<1>2. \A p \in AccountRequests : Tries(call'[p]) /\ call'[p].target = a => Tries(call[p]) /\ call[p].target = a
  BY TypesOf DEF Inv
<1>3. /\ failures[a] <= EmailMax
      /\ \A p \in AccountRequests : Tries(call[p]) /\ call[p].target = a =>
            /\ failures[a] < EmailMax
            /\ \A r \in AccountRequests : Tries(call[r]) /\ call[r].target = a => r = p
  BY DEF Inv, TriesFit
<1> QED BY <1>1, <1>2, <1>3

LEMMA KeepsReset ==
    ASSUME Inv, NEW q \in AccountRequests, NEW c \in CallRecords, call' = [call EXCEPT ![q] = c],
           UNCHANGED plan, call[q].step # "done",
           \A r \in AccountRequests :
              \/ reset'[r] = reset[r]
              \/ reset[r].status # "none" /\ reset'[r].status \notin {"none", "pending"},
           c.step = "insert" /\ plan[q] = "forgot" => PendingOf(c.target) = {}
    PROVE  ResetInv'
<1>1. \A r \in AccountRequests : r # q => call'[r] = call[r]
  BY TypesOf DEF Inv
<1>2. call'[q] = c /\ reset[q].status = "none"
  BY TypesOf DEF Inv, ResetInv, AskedIsDone
<1>3. AskedIsDone'
  BY <1>1, <1>2 DEF Inv, ResetInv, AskedIsDone
<1>4. LooksMiss'
  BY <1>1, <1>2 DEF Inv, ResetInv, LooksMiss, PendingOf
<1>5. OnePending'
  BY <1>1, <1>2 DEF Inv, ResetInv, OnePending
<1> QED BY <1>3, <1>4, <1>5 DEF ResetInv

LEMMA KeepsSessions ==
    ASSUME Inv, NEW q \in AccountRequests, NEW c \in CallRecords, call' = [call EXCEPT ![q] = c],
           UNCHANGED plan, call[q].step # "done", session' \subseteq session, cut \subseteq cut',
           \A a \in Accounts : \/ account'[a].set = "admin"
                               \/ /\ account'[a].password = account[a].password
                                  /\ account'[a].set = account[a].set,
           call[q].step = "clear" => c.step = "done",
           call[q].step = "drop" => call[q].target \in cut',
           InOwnSession(q, c)
    PROVE  SessionInv'
<1>1. \A r \in AccountRequests : r # q => call'[r] = call[r]
  BY TypesOf DEF Inv
<1>2. call'[q] = c
  BY TypesOf DEF Inv
<1>3. OfOneAccount'
  BY DEF Inv, SessionInv, OfOneAccount
<1>4. \A i \in Ids \union {"none"} : Opened(i) => Opened(i)'
  BY <1>1, <1>2 DEF Opened
<1>5. OpenedBefore'
  <2>1. \A s \in session : s.id \in Ids
    BY TypesOf DEF Inv, SessionRows
  <2> QED BY <1>4, <2>1 DEF Inv, SessionInv, OpenedBefore
<1>6. ChangesInSession'
  <2>1. \A r \in AccountRequests : InOwnSession(r, call[r])
    BY DEF Inv, SessionInv, ChangesInSession
  <2>2. \A r \in AccountRequests : call'[r].session \in Ids \union {"none"}
    BY <1>1, <1>2, TypesOf DEF Inv, CallRecords
  <2>3. \A r \in AccountRequests : InOwnSession(r, call'[r])
    BY <1>1, <1>2, <2>1
  <2> QED BY <1>4, <2>2, <2>3 DEF ChangesInSession, InOwnSession
<1>7. OldOnesGo'
  <2> SUFFICES ASSUME NEW s \in session', s.password # account'[s.account].password,
                      account'[s.account].set = "own"
               PROVE s.late \/ s.account \in cut' \/ \E r \in AccountRequests : Going(s, r)'
    BY DEF OldOnesGo, Outdated, Going
  <2>1. s \in session /\ s.account \in Accounts
    BY TypesOf DEF Inv, SessionRows
  <2>2. Outdated(s)
    BY <2>1 DEF Outdated
  <2>3. s.late \/ s.account \in cut \/ \E r \in AccountRequests : Going(s, r)
    BY <2>1, <2>2 DEF Inv, SessionInv, OldOnesGo
  <2>4. ASSUME NEW r \in AccountRequests, Going(s, r) PROVE s.account \in cut' \/ Going(s, r)'
    BY <1>1, <2>4 DEF Going
  <2> QED BY <2>3, <2>4
<1> QED BY <1>3, <1>5, <1>6, <1>7 DEF SessionInv

\* A step that leaves the accounts as they are, and may only end sessions, forget
\* failures and settle requests.
Fits(q, c) ==
    /\ c.step \notin {"idle", "done", "sync"} => c.target \in Accounts
    /\ Counted(plan[q], c)
    /\ Tries(c) => Tries(call[q]) /\ c.target = call[q].target
    /\ c.step = "insert" /\ plan[q] = "forgot" => PendingOf(c.target) = {}
    /\ InOwnSession(q, c)
    /\ call[q].step = "clear" => c.step = "done"
    /\ call[q].step = "drop" => call[q].target \in cut'

QuietVars ==
    /\ UNCHANGED <<plan, account, passwords, outvoted>>
    /\ session' \subseteq session
    /\ failures' \in [Keys -> Nat] /\ \A k \in Keys : failures'[k] <= failures[k]
    /\ reset' \in [AccountRequests -> ResetRows]
    /\ \A r \in AccountRequests :
          \/ reset'[r] = reset[r]
          \/ reset[r].status # "none" /\ reset'[r].status \notin {"none", "pending"}
    /\ cut \subseteq cut' /\ cut' \subseteq Accounts
    /\ crowded \subseteq crowded' /\ crowded' \subseteq Accounts

LEMMA QuietStep ==
    ASSUME Inv, NEW q \in AccountRequests, NEW c \in CallRecords, call' = [call EXCEPT ![q] = c],
           call[q].step # "done", QuietVars, Fits(q, c)
    PROVE  Inv'
<1>1. TargetsAreAccounts' /\ call' \in [AccountRequests -> CallRecords]
  BY KeepsTargets DEF Fits
<1>2. AccountTypeOK'
  BY <1>1, TypesOf DEF Inv, QuietVars, AccountTypeOK, CallRecords, ResetRows, Ids, Changes
<1>3. ManagersInv'
  BY KeepsManagers DEF Fits, QuietVars
<1>4. TriesFit'
  BY KeepsTries DEF Fits, QuietVars
<1>5. ResetInv'
  BY KeepsReset DEF Fits, QuietVars
<1>6. SessionInv'
  BY KeepsSessions DEF Fits, QuietVars
<1> QED BY <1>1, <1>2, <1>3, <1>4, <1>5, <1>6 DEF Inv

\* A request that is done fits everywhere, but in the middle of a change of password.
LEMMA DoneFits ==
    ASSUME Inv, NEW q \in AccountRequests, call[q].step # "drop"
    PROVE  Fits(q, [NewCall EXCEPT !.step = "done"])
  BY DEF Fits, NewCall, Counted, Tries, InOwnSession

LEMMA Stays ==
    ASSUME Inv, UNCHANGED <<plan, account, passwords, session, failures, reset, outvoted>>,
           cut' = cut, crowded' = crowded
    PROVE  QuietVars
  BY TypesOf DEF Inv, QuietVars

-----------------------------------------------------------------------------
(* One lemma per action, the quiet ones first.                             *)

LEMMA EndKeeps ==
    ASSUME Inv, NEW q \in AccountRequests, QuietVars, Done(q),
           call[q].step \notin {"done", "drop"}
    PROVE  Inv'
  BY QuietStep, DoneFits, NewCallIsRecord DEF Done

LEMMA CallIsRecord ==
    ASSUME Inv, NEW q \in AccountRequests
    PROVE  /\ call \in [AccountRequests -> CallRecords] /\ call[q] \in CallRecords
           /\ call[q].step \in CallSteps /\ call[q].target \in Accounts \union {"none"}
           /\ call[q].session \in Ids \union {"none"} /\ call[q].change \in Changes
           /\ call[q].todo \in SUBSET Accounts /\ call[q].missed \in SUBSET AccountRequests
           /\ call[q].step \notin {"idle", "done", "sync"} => call[q].target \in Accounts
           /\ Counted(plan[q], call[q]) /\ InOwnSession(q, call[q])
  BY TypesOf DEF Inv, CallRecords, TargetsAreAccounts, ManagersInv, ChecksCount, SessionInv, ChangesInSession

LEMMA LogoutKeeps ==
    ASSUME Inv, NEW q \in AccountRequests, NEW s \in session, Logout(q, s) PROVE Inv'
<1>1. QuietVars
  BY TypesOf DEF Inv, Logout, QuietVars
<1> QED BY <1>1, EndKeeps DEF Logout, Idle

LEMMA BrakingKeeps ==
    ASSUME Inv, NEW q \in AccountRequests, NEW a \in Accounts, LoginBraked(q, a) PROVE Inv'
<1>1. QuietVars
  BY Stays DEF LoginBraked
<1> QED BY <1>1, EndKeeps DEF LoginBraked, Idle

LEMMA FindingKeeps ==
    ASSUME Inv, NEW q \in AccountRequests, LoginFinds(q) PROVE Inv'
<1>1. QuietVars
  BY Stays DEF LoginFinds
<1>2. PICK x \in {"open", "refused"} : call' = [call EXCEPT ![q].step = x]
  BY DEF LoginFinds, Goes
<1> DEFINE c == [call[q] EXCEPT !.step = x]
<1>3. call' = [call EXCEPT ![q] = c] /\ c \in CallRecords /\ call[q].step = "find"
  <2>1. x \in CallSteps /\ call[q] \in CallRecords
    BY CallIsRecord DEF CallSteps
  <2>2. c \in CallRecords
    BY <2>1 DEF CallRecords
  <2>3. call' = [call EXCEPT ![q] = c]
    BY <1>2
  <2> QED BY <2>2, <2>3 DEF LoginFinds, At
<1>4. Fits(q, c)
  BY <1>3, CallIsRecord DEF Fits, Counted, Tries, InOwnSession, CallRecords
<1> QED BY <1>1, <1>3, <1>4, QuietStep

LEMMA ClearingKeeps ==
    ASSUME Inv, NEW q \in AccountRequests, LoginClears(q) PROVE Inv'
<1>1. failures \in [Keys -> Nat] /\ call[q].target \in Accounts
  BY TypesOf, CallIsRecord DEF Inv, LoginClears, At
<1>2. QuietVars
  BY <1>1, TypesOf DEF Inv, LoginClears, QuietVars, Keys
<1> QED BY <1>2, EndKeeps DEF LoginClears, At

LEMMA ReadingKeeps ==
    ASSUME Inv, NEW q \in AccountRequests, NEW s \in session, NEW p \in Versions, ChangeReads(q, s, p)
    PROVE  Inv'
<1>1. QuietVars
  BY Stays DEF ChangeReads
<1>2. call[q].step = "idle" /\ plan[q] = "password"
  BY DEF ChangeReads, Idle
<1> DEFINE c == [call[q] EXCEPT !.step = "update", !.target = s.account, !.session = s.id]
<1>3. CASE call' = [call EXCEPT ![q].step = "update", ![q].target = s.account, ![q].session = s.id]
  <2>1. s.account \in Accounts /\ s.id \in Ids
    BY TypesOf DEF Inv, SessionRows
  <2>2. call' = [call EXCEPT ![q] = c] /\ c \in CallRecords
    <3>1. "update" \in CallSteps /\ call[q] \in CallRecords
      BY CallIsRecord DEF CallSteps
    <3>2. c \in CallRecords
      BY <2>1, <3>1 DEF CallRecords
    <3> QED BY <1>3, <3>2
  <2>3. /\ c.step = "update" /\ c.target = s.account /\ c.session = s.id
    BY CallIsRecord DEF CallRecords
  <2>4. Opened(s.id) /\ \A t \in session : t.id = s.id => t.account = s.account
    BY DEF Inv, SessionInv, OpenedBefore, OfOneAccount
  <2>5. Fits(q, c)
    BY <1>2, <2>1, <2>3, <2>4 DEF Fits, Counted, Tries, InOwnSession
  <2> QED BY <1>1, <1>2, <2>2, <2>5, QuietStep
<1>4. CASE Done(q)
  BY <1>1, <1>2, <1>4, EndKeeps
<1> QED BY <1>3, <1>4 DEF ChangeReads

LEMMA AdministeringKeeps ==
    ASSUME Inv, NEW q \in AccountRequests, NEW s \in session, NEW t \in Accounts,
           NEW d \in Changes, Administer(q, s, t, d)
    PROVE  Inv'
<1>1. QuietVars
  BY Stays DEF Administer
<1> DEFINE c == [call[q] EXCEPT !.step = "check", !.target = t, !.session = s.id, !.change = d]
<1>2. s.id \in Ids /\ call[q].step = "idle" /\ plan[q] # "password"
  BY TypesOf DEF Inv, SessionRows, Administer, At
<1>3. call' = [call EXCEPT ![q] = c] /\ c \in CallRecords
  <2>1. "check" \in CallSteps /\ call[q] \in CallRecords
    BY CallIsRecord DEF CallSteps
  <2>2. c \in CallRecords
    BY <1>2, <2>1 DEF CallRecords
  <2> QED BY <2>2 DEF Administer
<1>4. c.step = "check" /\ c.target = t
  BY CallIsRecord DEF CallRecords
<1>5. Fits(q, c)
  BY <1>2, <1>4 DEF Fits, Counted, Tries, InOwnSession
<1> QED BY <1>1, <1>2, <1>3, <1>5, QuietStep

\* The check: who takes the right to manage away has seen somebody else with it.
LEMMA CheckingKeeps ==
    ASSUME Inv, NEW q \in AccountRequests, AssertNotLockout(q) PROVE Inv'
<1>1. QuietVars
  BY Stays DEF AssertNotLockout
<1>2. call[q].step = "check" /\ call[q].target \in Accounts
  BY CallIsRecord DEF AssertNotLockout, At
<1> DEFINE rest == ManagersNow \ {call[q].target}
           c == [call[q] EXCEPT !.step = "update", !.remaining = rest]
<1>3. CASE Done(q)
  BY <1>1, <1>2, <1>3, EndKeeps
<1>4. CASE call' = [call EXCEPT ![q].step = "update", ![q].remaining = rest] /\ (LosesManage(q) => rest # {})
  <2>1. rest \in SUBSET Accounts
    BY DEF ManagersNow
  <2>2. call' = [call EXCEPT ![q] = c] /\ c \in CallRecords
    <3>1. "update" \in CallSteps /\ call[q] \in CallRecords
      BY CallIsRecord DEF CallSteps
    <3>2. c \in CallRecords
      <4> HIDE DEF rest
      <4> QED BY <2>1, <3>1 DEF CallRecords
    <3> QED BY <1>4, <3>2
  <2>3. /\ c.step = "update" /\ c.target = call[q].target /\ c.remaining = rest
        /\ c.change = call[q].change /\ c.session = call[q].session
    BY CallIsRecord DEF CallRecords
  <2>4. Counted(plan[q], c)
    BY <1>4, <2>3 DEF Counted, Loses, LosesManage
  <2>5. plan[q] # "password"
    BY <1>2, CallIsRecord DEF InOwnSession
  <2>6. Fits(q, c)
    BY <1>2, <2>3, <2>4, <2>5 DEF Fits, Tries, InOwnSession
  <2> QED BY <1>1, <1>2, <2>2, <2>6, QuietStep
<1> QED BY <1>3, <1>4 DEF AssertNotLockout

LEMMA CreatingKeeps ==
    ASSUME Inv, NEW q \in AccountRequests, NEW s \in session, NEW a \in Accounts, CreateFinds(q, s, a)
    PROVE  Inv'
<1>1. QuietVars
  BY Stays DEF CreateFinds
<1>2. call[q].step = "idle" /\ plan[q] = "create"
  BY DEF CreateFinds, Idle
<1>3. CASE Done(q)
  BY <1>1, <1>2, <1>3, EndKeeps
<1>4. CASE call' = [call EXCEPT ![q].step = "insert", ![q].target = a]
  <2> DEFINE c == [call[q] EXCEPT !.step = "insert", !.target = a]
  <2>1. "insert" \in CallSteps /\ call[q] \in CallRecords
    BY CallIsRecord DEF CallSteps
  <2>2. c \in CallRecords /\ c.step = "insert" /\ c.target = a
    BY <2>1 DEF CallRecords
  <2>3. call' = [call EXCEPT ![q] = c]
    BY <1>4
  <2>4. Fits(q, c)
    BY <1>2, <2>2 DEF Fits, Counted, Tries, InOwnSession
  <2> QED BY <1>1, <1>2, <2>2, <2>3, <2>4, QuietStep
<1> QED BY <1>3, <1>4 DEF CreateFinds

LEMMA ResettingKeeps ==
    ASSUME Inv, NEW q \in AccountRequests, NEW s \in session, NEW t \in Accounts,
           NEW r \in AccountRequests, ResetBegins(q, s, t, r)
    PROVE  Inv'
<1>1. QuietVars
  BY Stays DEF ResetBegins
<1> DEFINE c == [call[q] EXCEPT !.step = "provision", !.target = t, !.session = r]
<1>2. "provision" \in CallSteps /\ call[q] \in CallRecords /\ r \in Ids /\ call[q].step = "idle"
  BY CallIsRecord DEF CallSteps, Ids, ResetBegins, Idle
<1>3. c \in CallRecords /\ c.step = "provision" /\ c.target = t
  BY <1>2 DEF CallRecords
<1>4. call' = [call EXCEPT ![q] = c]
  BY DEF ResetBegins
<1>5. Fits(q, c)
  BY <1>2, <1>3 DEF Fits, Counted, Tries, InOwnSession
<1> QED BY <1>1, <1>2, <1>3, <1>4, <1>5, QuietStep

LEMMA SettlingIsQuiet ==
    ASSUME Inv, NEW r, NEW status \in {"resolved", "dismissed"}, Resolve(r, status),
           UNCHANGED <<plan, account, passwords, session, failures, outvoted, cut, crowded>>
    PROVE  QuietVars
<1>1. reset \in [AccountRequests -> ResetRows]
  BY TypesOf DEF Inv
<1>2. reset' \in [AccountRequests -> ResetRows]
  <2>1. \A row \in ResetRows : [row EXCEPT !.status = status] \in ResetRows
    BY DEF ResetRows
  <2>2. reset' = reset \/ reset' = [reset EXCEPT ![r] = [reset[r] EXCEPT !.status = status]]
    BY DEF Resolve
  <2> QED BY <1>1, <2>1, <2>2
<1>3. ASSUME NEW p \in AccountRequests
      PROVE  \/ reset'[p] = reset[p]
             \/ reset[p].status # "none" /\ reset'[p].status \notin {"none", "pending"}
  <2>1. CASE p = r /\ reset[r].status # "none"
    <3>1. reset'[p] = [reset[p] EXCEPT !.status = status] /\ reset[p] \in ResetRows
      BY <1>1, <2>1 DEF Resolve
    <3> QED BY <2>1, <3>1 DEF ResetRows
  <2>2. CASE reset[r].status = "none"
    BY <2>2 DEF Resolve
  <2>3. CASE p # r /\ reset[r].status # "none"
    <3>1. reset' = [reset EXCEPT ![r].status = status]
      BY <2>3 DEF Resolve
    <3> QED BY <1>1, <2>3, <3>1
  <2> QED BY <2>1, <2>2, <2>3
<1> QED BY <1>2, <1>3, TypesOf DEF Inv, QuietVars

LEMMA ResolvingKeeps ==
    ASSUME Inv, NEW q \in AccountRequests, ResetResolves(q) PROVE Inv'
<1>1. QuietVars
  BY SettlingIsQuiet DEF ResetResolves
<1> QED BY <1>1, EndKeeps DEF ResetResolves, At

LEMMA DismissingKeeps ==
    ASSUME Inv, NEW q \in AccountRequests, NEW s \in session, NEW r \in AccountRequests,
           DismissReset(q, s, r)
    PROVE  Inv'
<1>1. QuietVars
  BY SettlingIsQuiet DEF DismissReset
<1> QED BY <1>1, EndKeeps DEF DismissReset, Idle

\* Who goes on to insert has seen no pending request.
LEMMA LookingKeeps ==
    ASSUME Inv, NEW q \in AccountRequests, ForgotLooks(q) PROVE Inv'
<1>1. QuietVars
  BY Stays DEF ForgotLooks
<1>2. call[q].step = "check" /\ call[q].target \in Accounts /\ plan[q] = "forgot"
  BY CallIsRecord DEF ForgotLooks, At
<1>3. CASE Done(q)
  BY <1>1, <1>2, <1>3, EndKeeps
<1>4. CASE PendingOf(call[q].target) = {} /\ Goes(q, "insert")
  <2> DEFINE c == [call[q] EXCEPT !.step = "insert"]
  <2>1. "insert" \in CallSteps /\ call[q] \in CallRecords
    BY CallIsRecord DEF CallSteps
  <2>2. c \in CallRecords /\ c.step = "insert" /\ c.target = call[q].target
    BY <2>1 DEF CallRecords
  <2>3. call' = [call EXCEPT ![q] = c]
    BY <1>4 DEF Goes
  <2>4. Fits(q, c)
    BY <1>2, <1>4, <2>2 DEF Fits, Counted, Tries, InOwnSession
  <2> QED BY <1>1, <1>2, <2>2, <2>3, <2>4, QuietStep
<1> QED BY <1>3, <1>4 DEF ForgotLooks

LEMMA ListingKeeps ==
    ASSUME Inv, NEW q \in AccountRequests, NEW s \in session, SyncBegins(q, s) PROVE Inv'
<1>1. QuietVars
  BY Stays DEF SyncBegins
<1>2. PICK listed \in SUBSET Accounts :
          call' = [call EXCEPT ![q].step = "sync", ![q].todo = listed \ Protected]
  BY DEF SyncBegins
<1> DEFINE c == [call[q] EXCEPT !.step = "sync", !.todo = listed \ Protected]
<1>3. "sync" \in CallSteps /\ call[q] \in CallRecords /\ call[q].step = "idle"
  BY CallIsRecord DEF CallSteps, SyncBegins, Idle
<1>4. c \in CallRecords /\ c.step = "sync"
  BY <1>3 DEF CallRecords
<1>5. call' = [call EXCEPT ![q] = c]
  BY <1>2
<1>6. Fits(q, c)
  BY <1>3, <1>4 DEF Fits, Counted, Tries, InOwnSession
<1> QED BY <1>1, <1>3, <1>4, <1>5, <1>6, QuietStep

LEMMA WalkingKeeps ==
    ASSUME Inv, NEW q \in AccountRequests, NEW a \in Accounts, NEW d \in Changes, SyncReads(q, a, d)
    PROVE  Inv'
<1>1. QuietVars
  BY Stays DEF SyncReads
<1> DEFINE c == [call[q] EXCEPT !.todo = @ \ {a}]
           w == [c EXCEPT !.step = "write", !.target = a, !.change = d]
<1>2. {"sync", "write"} \subseteq CallSteps /\ call[q] \in CallRecords /\ call[q].step = "sync"
  BY CallIsRecord DEF CallSteps, SyncReads, At
<1>3. c \in CallRecords /\ c.step = "sync"
  BY <1>2 DEF CallRecords
<1>4. w \in CallRecords /\ w.step = "write" /\ w.target = a
  <2> HIDE DEF c
  <2> QED BY <1>2, <1>3 DEF CallRecords
<1>5. Fits(q, c) /\ Fits(q, w)
  BY <1>2, <1>3, <1>4 DEF Fits, Counted, Tries, InOwnSession
<1>6. call' = [call EXCEPT ![q] = c] \/ call' = [call EXCEPT ![q] = w]
  BY DEF SyncReads
<1> QED BY <1>1, <1>2, <1>3, <1>4, <1>5, <1>6, QuietStep

LEMMA WalkEndKeeps ==
    ASSUME Inv, NEW q \in AccountRequests, SyncEnds(q) PROVE Inv'
<1>1. QuietVars
  BY Stays DEF SyncEnds
<1> QED BY <1>1, EndKeeps DEF SyncEnds, At

\* Who fails before deleting the other sessions leaves the account cut.
LEMMA FailingKeeps ==
    ASSUME Inv, NEW q \in AccountRequests, AccountCallFails(q) PROVE Inv'
<1> DEFINE c == [NewCall EXCEPT !.step = "done"]
<1>1. call[q].step = "drop" => call[q].target \in Accounts
  BY CallIsRecord
<1>2. QuietVars /\ (call[q].step = "drop" => call[q].target \in cut')
  BY <1>1, TypesOf DEF Inv, QuietVars, AccountCallFails, At
<1>3. Fits(q, c)
  BY <1>2 DEF Fits, NewCall, Counted, Tries, InOwnSession
<1> QED BY <1>2, <1>3, QuietStep, NewCallIsRecord DEF AccountCallFails, Done

LEMMA ExpiringKeeps ==
    ASSUME Inv, NEW s \in session, SessionExpires(s) PROVE Inv'
<1>1. UNCHANGED <<plan, account, failures, reset, call, outvoted, cut, crowded>> /\ session' \subseteq session
  BY DEF SessionExpires
<1>2. AccountTypeOK'
  BY <1>1 DEF Inv, AccountTypeOK, SessionExpires
<1>3. TargetsAreAccounts' /\ ManagersInv' /\ TriesFit' /\ ResetInv'
  BY <1>1 DEF Inv, TargetsAreAccounts, ManagersInv, ChecksCount, SomebodyManages, ManagersNow,
              TriesFit, ResetInv, AskedIsDone, LooksMiss, OnePending
<1>4. SessionInv'
  BY <1>1 DEF Inv, SessionInv, OfOneAccount, OpenedBefore, Opened, ChangesInSession, InOwnSession,
              OldOnesGo, Outdated, Going
<1> QED BY <1>2, <1>3, <1>4 DEF Inv

LEMMA AgeingKeeps ==
    ASSUME Inv, NEW k \in Keys, AttemptAges(k) PROVE Inv'
<1>1. UNCHANGED <<plan, account, passwords, session, reset, call, outvoted, cut, crowded>>
  BY DEF AttemptAges
<1>2. failures' \in [Keys -> Nat] /\ \A j \in Keys : failures'[j] <= failures[j] /\ failures[j] \in Nat
  BY TypesOf DEF Inv, AttemptAges
<1>3. AccountTypeOK'
  BY <1>1, <1>2 DEF Inv, AccountTypeOK
<1>4. TargetsAreAccounts' /\ ManagersInv' /\ ResetInv'
  BY <1>1 DEF Inv, TargetsAreAccounts, ManagersInv, ChecksCount, SomebodyManages, ManagersNow,
              ResetInv, AskedIsDone, LooksMiss, OnePending
<1>5. SessionInv'
  BY <1>1 DEF Inv, SessionInv, OfOneAccount, OpenedBefore, Opened, ChangesInSession, InOwnSession,
              OldOnesGo, Outdated, Going
<1>6. TriesFit'
  <2>1. \A a \in Accounts : a \in Keys /\ EmailMax \in Nat
    BY DEF Keys
  <2>2. \A a \in Accounts : /\ failures[a] <= EmailMax => failures'[a] <= EmailMax
                            /\ failures[a] < EmailMax => failures'[a] < EmailMax
    BY <1>2, <2>1
  <2> QED BY <1>1, <2>2 DEF Inv, TriesFit
<1> QED BY <1>3, <1>4, <1>5, <1>6 DEF Inv

-----------------------------------------------------------------------------
(* The actions that change what the invariant is about.                    *)

\* An attempt is let in below the limit, alone or crowded.
LEMMA BeginningKeeps ==
    ASSUME Inv, NEW q \in AccountRequests, NEW a \in Accounts, NEW p \in Versions,
           LoginBegins(q, a, p)
    PROVE  Inv'
<1> DEFINE c == [call[q] EXCEPT !.step = "find", !.target = a, !.password = p]
<1>1. /\ UNCHANGED <<plan, account, passwords, session, failures, reset, outvoted, cut>>
      /\ crowded' = crowded \union TriedToo(a) /\ call[q].step = "idle" /\ plan[q] = "login"
      /\ failures[a] < EmailMax
  <2>1. failures[a] \in Nat /\ EmailMax \in Nat
    BY TypesOf DEF Inv, Keys
  <2> QED BY <2>1 DEF LoginBegins, Idle, Braked
<1>2. "find" \in CallSteps /\ call[q] \in CallRecords /\ call \in [AccountRequests -> CallRecords]
  BY CallIsRecord DEF CallSteps
<1>3. c \in CallRecords /\ c.step = "find" /\ c.target = a
  BY <1>2 DEF CallRecords
<1>4. call' = [call EXCEPT ![q] = c]
  BY DEF LoginBegins
<1> HIDE DEF c
<1>5. TargetsAreAccounts' /\ call' \in [AccountRequests -> CallRecords]
  BY <1>3, <1>4, KeepsTargets
<1>6. AccountTypeOK'
  <2>1. crowded' \subseteq Accounts
    BY <1>1, TypesOf DEF Inv, TriedToo
  <2> QED BY <1>1, <1>5, <2>1 DEF Inv, AccountTypeOK, CallRecords, Ids, Changes
<1>7. ManagersInv'
  BY <1>1, <1>3, <1>4, KeepsManagers DEF Counted
<1>8. TriesFit'
  <2> SUFFICES ASSUME NEW b \in Accounts, b \notin crowded'
               PROVE /\ failures[b] <= EmailMax
                     /\ \A r \in AccountRequests : Tries(call'[r]) /\ call'[r].target = b =>
                           /\ failures[b] < EmailMax
                           /\ \A o \in AccountRequests : Tries(call'[o]) /\ call'[o].target = b => o = r
    BY <1>1 DEF TriesFit, Tries
  <2>1. /\ failures[b] <= EmailMax
        /\ \A r \in AccountRequests : Tries(call[r]) /\ call[r].target = b =>
              /\ failures[b] < EmailMax
              /\ \A o \in AccountRequests : Tries(call[o]) /\ call[o].target = b => o = r
    BY <1>1 DEF Inv, TriesFit
  <2>2. \A r \in AccountRequests : r # q => call'[r] = call[r]
    BY <1>2, <1>4
  <2>3. call'[q].target = a
    BY <1>2, <1>3, <1>4
  <2>4. CASE b # a
    BY <2>1, <2>2, <2>3, <2>4
  <2>5. CASE b = a
    <3>1. \A r \in AccountRequests : Tries(call[r]) => call[r].target # a
      BY <1>1, <2>5 DEF TriedToo, Trying, Tries
    <3> QED BY <1>1, <2>1, <2>2, <2>5, <3>1
  <2> QED BY <2>4, <2>5
<1>9. ResetInv'
  BY <1>1, <1>3, <1>4, KeepsReset
<1>10. SessionInv'
  <2>1. InOwnSession(q, c)
    BY <1>3 DEF InOwnSession
  <2> QED BY <1>1, <1>3, <1>4, <2>1, KeepsSessions
<1> QED BY <1>5, <1>6, <1>7, <1>8, <1>9, <1>10 DEF Inv

\* One more failure of an e-mail fits, where nobody else tries it.
Room(q, a) ==
    /\ failures[a] < EmailMax
    /\ \A r \in AccountRequests \ {q} : Tries(call[r]) => call[r].target # a

LEMMA CountingFits ==
    ASSUME Inv, NEW q \in AccountRequests, NEW c \in CallRecords, call' = [call EXCEPT ![q] = c],
           NEW a \in Accounts, RecordFailure(a), crowded \subseteq crowded', ~Tries(c),
           a \in crowded' \/ Room(q, a)
    PROVE  TriesFit' /\ failures' \in [Keys -> Nat]
<1>1. failures \in [Keys -> Nat] /\ call \in [AccountRequests -> CallRecords] /\ EmailMax \in Nat
  BY TypesOf DEF Inv
<1>2. a \in Keys /\ "ip" \in Keys /\ a # "ip" /\ \A b \in Accounts : b \in Keys /\ b # "ip"
  BY DEF Keys
<1>3. failures' \in [Keys -> Nat] /\ failures'[a] = failures[a] + 1
      /\ \A b \in Accounts : b # a => failures'[b] = failures[b]
  BY <1>1, <1>2 DEF RecordFailure
<1>4. \A r \in AccountRequests : r # q => call'[r] = call[r]
  BY <1>1
<1>5. call'[q] = c
  BY <1>1
<1> SUFFICES ASSUME NEW b \in Accounts, b \notin crowded'
             PROVE /\ failures'[b] <= EmailMax
                   /\ \A p \in AccountRequests : Tries(call'[p]) /\ call'[p].target = b =>
                         /\ failures'[b] < EmailMax
                         /\ \A r \in AccountRequests : Tries(call'[r]) /\ call'[r].target = b => r = p
  BY <1>3 DEF TriesFit, Tries
<1>6. /\ failures[b] <= EmailMax
      /\ \A p \in AccountRequests : Tries(call[p]) /\ call[p].target = b =>
            /\ failures[b] < EmailMax
            /\ \A r \in AccountRequests : Tries(call[r]) /\ call[r].target = b => r = p
  BY DEF Inv, TriesFit
<1>7. CASE b # a
  BY <1>3, <1>4, <1>5, <1>6, <1>7
<1>8. CASE b = a
  <2>1. failures[a] \in Nat /\ failures'[a] <= EmailMax
    BY <1>1, <1>2, <1>3, <1>8 DEF Room
  <2> QED BY <1>4, <1>5, <1>8, <2>1 DEF Room
<1> QED BY <1>7, <1>8

LEMMA RefusingKeeps ==
    ASSUME Inv, NEW q \in AccountRequests, LoginRefused(q) PROVE Inv'
<1> DEFINE c == [NewCall EXCEPT !.step = "done"]
           a == call[q].target
<1>1. /\ UNCHANGED <<plan, account, passwords, session, reset, outvoted, cut, crowded>>
      /\ call[q].step = "refused" /\ a \in Accounts /\ RecordFailure(a)
  BY CallIsRecord DEF LoginRefused, At
<1>2. call' = [call EXCEPT ![q] = c] /\ c \in CallRecords /\ c.step = "done"
  BY NewCallIsRecord DEF LoginRefused, Done, NewCall
<1>3. a \in crowded \/ Room(q, a)
  BY <1>1 DEF Inv, TriesFit, Tries, Room
<1> HIDE DEF c
<1>4. TriesFit' /\ failures' \in [Keys -> Nat]
  BY <1>1, <1>2, <1>3, CountingFits DEF Tries
<1>5. TargetsAreAccounts' /\ call' \in [AccountRequests -> CallRecords]
  BY <1>2, KeepsTargets
<1>6. AccountTypeOK'
  BY <1>1, <1>4, <1>5 DEF Inv, AccountTypeOK, CallRecords, Ids, Changes
<1>7. ManagersInv'
  BY <1>1, <1>2, KeepsManagers DEF Counted
<1>8. ResetInv'
  BY <1>1, <1>2, KeepsReset
<1>9. SessionInv'
  <2>1. InOwnSession(q, c)
    BY <1>2 DEF InOwnSession
  <2> QED BY <1>1, <1>2, <2>1, KeepsSessions
<1> QED BY <1>4, <1>5, <1>6, <1>7, <1>8, <1>9 DEF Inv

LEMMA AskingKeeps ==
    ASSUME Inv, NEW q \in AccountRequests, NEW a \in Accounts, ForgotBegins(q, a) PROVE Inv'
<1>1. /\ UNCHANGED <<plan, account, passwords, session, reset, outvoted, cut>>
      /\ call[q].step = "idle" /\ plan[q] = "forgot"
  BY DEF ForgotBegins, Idle
<1>2. CASE Braked(a)
  <2>1. QuietVars /\ Done(q)
    BY <1>1, <1>2, Stays DEF ForgotBegins
  <2> QED BY <1>1, <2>1, EndKeeps
<1>3. CASE ~Braked(a)
  <2> DEFINE c == [call[q] EXCEPT !.step = "check", !.target = a]
  <2>1. RecordFailure(a) /\ crowded' = crowded \union TriedToo(a)
    BY <1>3 DEF ForgotBegins
  <2>2. "check" \in CallSteps /\ call[q] \in CallRecords
    BY CallIsRecord DEF CallSteps
  <2>3. c \in CallRecords /\ c.step = "check" /\ c.target = a
    BY <2>2 DEF CallRecords
  <2>4. call' = [call EXCEPT ![q] = c]
    BY <1>3 DEF ForgotBegins
  <2> HIDE DEF c
  <2>5. a \in crowded' \/ Room(q, a)
    <3>1. failures[a] \in Nat /\ EmailMax \in Nat
      BY TypesOf DEF Inv, Keys
    <3>2. failures[a] < EmailMax
      BY <1>3, <3>1 DEF Braked
    <3>3. ASSUME NEW r \in AccountRequests, Tries(call[r]), call[r].target = a
          PROVE  TriedToo(a) # {}
      <4>1. r \in Trying
        BY <3>3 DEF Trying, Tries
      <4>2. a \in {call[o].target : o \in Trying}
        BY <3>3, <4>1
      <4> QED BY <4>2 DEF TriedToo
    <3>4. TriedToo(a) # {} => a \in crowded'
      <4>1. TriedToo(a) # {} => a \in TriedToo(a)
        BY DEF TriedToo
      <4> QED BY <2>1, <4>1
    <3>5. CASE TriedToo(a) # {}
      BY <3>4, <3>5
    <3>6. CASE TriedToo(a) = {}
      BY <3>2, <3>3, <3>6 DEF Room
    <3> QED BY <3>5, <3>6
  <2>6. TriesFit' /\ failures' \in [Keys -> Nat]
    <3>1. ~Tries(c) /\ crowded \subseteq crowded'
      BY <2>1, <2>3 DEF Tries
    <3> QED BY <2>1, <2>3, <2>4, <2>5, <3>1, CountingFits
  <2>7. TargetsAreAccounts' /\ call' \in [AccountRequests -> CallRecords]
    BY <2>3, <2>4, KeepsTargets
  <2>8. AccountTypeOK'
    <3>1. crowded' \subseteq Accounts
      BY <2>1, TypesOf DEF Inv, TriedToo
    <3> QED BY <1>1, <2>6, <2>7, <3>1 DEF Inv, AccountTypeOK, CallRecords, Ids, Changes
  <2>9. ManagersInv'
    BY <1>1, <2>3, <2>4, KeepsManagers DEF Counted
  <2>10. ResetInv'
    BY <1>1, <2>3, <2>4, KeepsReset
  <2>11. SessionInv'
    <3>1. InOwnSession(q, c)
      BY <1>1, <2>3 DEF InOwnSession
    <3> QED BY <1>1, <2>3, <2>4, <3>1, KeepsSessions
  <2> QED BY <2>6, <2>7, <2>8, <2>9, <2>10, <2>11 DEF Inv
<1> QED BY <1>2, <1>3

\* A login that succeeds adds a session of its own account.
LEMMA OpeningKeeps ==
    ASSUME Inv, NEW q \in AccountRequests, LoginOpens(q) PROVE Inv'
<1> DEFINE c == [call[q] EXCEPT !.step = "clear"]
           a == call[q].target
           n == [id |-> q, account |-> a, password |-> call[q].password,
                 late |-> call[q].password # account[a].password]
<1>1. /\ UNCHANGED <<plan, account, passwords, failures, reset, outvoted, cut, crowded>>
      /\ call[q].step = "open" /\ a \in Accounts /\ session' = session \union {n}
  BY CallIsRecord DEF LoginOpens, At
<1>2. "clear" \in CallSteps /\ call[q] \in CallRecords /\ call \in [AccountRequests -> CallRecords]
  BY CallIsRecord DEF CallSteps
<1>3. c \in CallRecords /\ c.step = "clear"
  BY <1>2 DEF CallRecords
<1>4. call' = [call EXCEPT ![q] = c]
  BY DEF LoginOpens, Goes
<1>5. n \in SessionRows
  BY <1>1, <1>2 DEF SessionRows, CallRecords, Ids
<1>6. n.id = q /\ n.account = a /\ (n.password # account[n.account].password => n.late)
  OBVIOUS
<1> HIDE DEF c, n
<1>7. TargetsAreAccounts' /\ call' \in [AccountRequests -> CallRecords]
  <2>1. c.target \in Accounts
    BY <1>1, <1>2 DEF c, CallRecords
  <2> QED BY <1>3, <1>4, <2>1, KeepsTargets
<1>8. AccountTypeOK'
  <2>1. session' \in SUBSET SessionRows
    BY <1>1, <1>5, TypesOf DEF Inv
  <2> QED BY <1>1, <1>7, <2>1, TypesOf DEF Inv, AccountTypeOK, CallRecords, Ids, Changes, SessionRows
<1>9. ManagersInv'
  BY <1>1, <1>3, <1>4, KeepsManagers DEF Counted
<1>10. TriesFit'
  <2>1. failures' \in [Keys -> Nat] /\ \A k \in Keys : failures'[k] <= failures[k]
    BY <1>1, TypesOf DEF Inv
  <2> QED BY <1>1, <1>3, <1>4, <2>1, KeepsTries DEF Tries
<1>11. ResetInv'
  BY <1>1, <1>3, <1>4, KeepsReset
<1>12. SessionInv'
  <2>1. \A r \in AccountRequests : r # q => call'[r] = call[r]
    BY <1>2, <1>4
  <2>2. call'[q] = c
    BY <1>2, <1>4
  <2>3. ~Opened(q) /\ Opened(q)'
    BY <1>1, <1>3, <2>2 DEF Opened
  <2>4. \A i \in Ids \union {"none"} : Opened(i) => Opened(i)'
    BY <1>1, <2>1, <2>2, <2>3 DEF Opened
  <2>5. \A s \in session : s.id # q /\ s.id \in Ids
    BY <2>3, TypesOf DEF Inv, SessionInv, OpenedBefore, SessionRows
  <2>6. OfOneAccount'
    BY <1>1, <1>6, <2>5 DEF Inv, SessionInv, OfOneAccount
  <2>7. OpenedBefore'
    BY <1>1, <1>6, <2>3, <2>4, <2>5 DEF Inv, SessionInv, OpenedBefore
  <2>8. ChangesInSession'
    <3> SUFFICES ASSUME NEW r \in AccountRequests PROVE InOwnSession(r, call[r])'
      BY DEF ChangesInSession
    <3>1. CASE r = q
      BY <1>3, <2>2, <3>1 DEF InOwnSession
    <3>2. CASE r # q
      <4>1. InOwnSession(r, call[r]) /\ call'[r] = call[r] /\ call[r].session \in Ids \union {"none"}
        BY <2>1, <3>2, CallIsRecord
      <4>2. Opened(call[r].session) => call[r].session # q
        BY <2>3
      <4> QED BY <1>1, <1>6, <2>4, <4>1, <4>2 DEF InOwnSession
    <3> QED BY <3>1, <3>2
  <2>9. OldOnesGo'
    <3> SUFFICES ASSUME NEW s \in session', s.password # account[s.account].password,
                        account[s.account].set = "own"
                 PROVE s.late \/ s.account \in cut \/ \E r \in AccountRequests : Going(s, r)'
      BY <1>1 DEF OldOnesGo, Outdated, Going
    <3>1. CASE s = n
      BY <1>6, <3>1
    <3>2. CASE s \in session
      <4>1. s.late \/ s.account \in cut \/ \E r \in AccountRequests : Going(s, r)
        BY <3>2 DEF Inv, SessionInv, OldOnesGo, Outdated
      <4>2. ASSUME NEW r \in AccountRequests, Going(s, r) PROVE Going(s, r)'
        <5>1. r # q
          BY <1>1, <4>2 DEF Going
        <5> QED BY <2>1, <4>2, <5>1 DEF Going
      <4> QED BY <4>1, <4>2
    <3> QED BY <1>1, <3>1, <3>2
  <2> QED BY <2>6, <2>7, <2>8, <2>9 DEF SessionInv
<1> QED BY <1>7, <1>8, <1>9, <1>10, <1>11, <1>12 DEF Inv

\* Deleting the sessions of the other devices: the ones an earlier password
\* opened go, unless another change of the account is still to delete them.
LEMMA DroppingKeeps ==
    ASSUME Inv, NEW q \in AccountRequests, DropsOthers(q) PROVE Inv'
<1> DEFINE c == [NewCall EXCEPT !.step = "done"]
<1>1. /\ UNCHANGED <<plan, account, passwords, failures, reset, outvoted, cut, crowded>>
      /\ call[q].step = "drop" /\ session' \subseteq session
      /\ \A s \in session' : s.account # call[q].target \/ s.id = call[q].session
  BY DEF DropsOthers, At
<1>2. call' = [call EXCEPT ![q] = c] /\ c \in CallRecords /\ c.step = "done"
  BY NewCallIsRecord DEF DropsOthers, Done, NewCall
<1> HIDE DEF c
<1>3. TargetsAreAccounts' /\ call' \in [AccountRequests -> CallRecords]
  BY <1>2, KeepsTargets
<1>4. AccountTypeOK'
  <2>1. session' \in SUBSET SessionRows
    BY <1>1, TypesOf DEF Inv
  <2> QED BY <1>1, <1>3, <2>1, TypesOf DEF Inv, AccountTypeOK, CallRecords, Ids, Changes, SessionRows
<1>5. ManagersInv'
  BY <1>1, <1>2, KeepsManagers DEF Counted
<1>6. TriesFit'
  <2>1. failures' \in [Keys -> Nat] /\ \A k \in Keys : failures'[k] <= failures[k]
    BY <1>1, TypesOf DEF Inv
  <2> QED BY <1>1, <1>2, <2>1, KeepsTries DEF Tries
<1>7. ResetInv'
  BY <1>1, <1>2, KeepsReset
<1>8. SessionInv'
  <2>1. \A r \in AccountRequests : r # q => call'[r] = call[r]
    BY <1>2, TypesOf DEF Inv
  <2>2. call'[q] = c
    BY <1>2, TypesOf DEF Inv
  <2>3. \A i : Opened(i) => Opened(i)'
    BY <1>1, <1>2, <2>1, <2>2 DEF Opened
  <2>4. OfOneAccount' /\ OpenedBefore'
    BY <1>1, <2>3 DEF Inv, SessionInv, OfOneAccount, OpenedBefore
  <2>5. ChangesInSession'
    <3> SUFFICES ASSUME NEW r \in AccountRequests PROVE InOwnSession(r, call[r])'
      BY DEF ChangesInSession
    <3>1. CASE r = q
      BY <1>2, <2>2, <3>1 DEF InOwnSession
    <3>2. CASE r # q
      <4>1. InOwnSession(r, call[r]) /\ call'[r] = call[r]
        BY <2>1, <3>2, CallIsRecord
      <4> QED BY <1>1, <2>3, <4>1 DEF InOwnSession
    <3> QED BY <3>1, <3>2
  <2>6. OldOnesGo'
    <3> SUFFICES ASSUME NEW s \in session', s.password # account[s.account].password,
                        account[s.account].set = "own"
                 PROVE s.late \/ s.account \in cut \/ \E r \in AccountRequests : Going(s, r)'
      BY <1>1 DEF OldOnesGo, Outdated, Going
    <3>1. s.late \/ s.account \in cut \/ \E r \in AccountRequests : Going(s, r)
      BY <1>1 DEF Inv, SessionInv, OldOnesGo, Outdated
    <3>2. ASSUME NEW r \in AccountRequests, Going(s, r) PROVE Going(s, r)'
      <4>1. r # q
        BY <1>1, <3>2 DEF Going
      <4> QED BY <2>1, <3>2, <4>1 DEF Going
    <3> QED BY <3>1, <3>2
  <2> QED BY <2>4, <2>5, <2>6 DEF SessionInv
<1> QED BY <1>3, <1>4, <1>5, <1>6, <1>7, <1>8 DEF Inv

\* A new password that an administrator sets, or that the person does.
LEMMA NewPasswordIs ==
    ASSUME Inv, NEW a \in Accounts, NEW by \in {"own", "admin"}, NewPassword(a, by)
    PROVE  /\ account' \in [Accounts -> AccountRows] /\ passwords' \in Versions
           /\ account'[a].password = passwords' /\ account'[a].set = by
           /\ \A b \in Accounts : b # a => account'[b] = account[b]
           /\ ManagersNow' = ManagersNow
<1>1. account \in [Accounts -> AccountRows] /\ passwords \in Versions /\ MaxPasswords \in Nat
  BY TypesOf DEF Inv
<1>2. passwords' \in Versions /\ passwords' = passwords + 1
  BY <1>1 DEF NewPassword, Versions
<1>3. account' = [account EXCEPT ![a] = [account[a] EXCEPT !.password = passwords', !.set = by]]
  BY <1>2 DEF NewPassword
<1> DEFINE row == [account[a] EXCEPT !.password = passwords', !.set = by]
<1>4. /\ row \in AccountRows /\ row.password = passwords' /\ row.set = by
      /\ row.exists = account[a].exists /\ row.active = account[a].active /\ row.role = account[a].role
  <2>1. account[a] \in AccountRows
    BY <1>1
  <2> QED BY <1>2, <2>1 DEF AccountRows
<1>5. account' = [account EXCEPT ![a] = row]
  BY <1>3
<1> HIDE DEF row
<1>6. /\ account' \in [Accounts -> AccountRows] /\ account'[a] = row
      /\ \A b \in Accounts : b # a => account'[b] = account[b]
  BY <1>1, <1>4, <1>5
<1>7. ManagersNow' = ManagersNow
  BY <1>4, <1>6 DEF ManagersNow
<1> QED BY <1>2, <1>4, <1>6, <1>7

\* Changing the own password: the sessions it leaves behind wait for this request.
LEMMA ChangingKeeps ==
    ASSUME Inv, NEW q \in AccountRequests, ChangeUpdates(q) PROVE Inv'
<1> DEFINE c == [call[q] EXCEPT !.step = "drop"]
           a == call[q].target
           After(s) == IF s.id = call[q].session THEN [s EXCEPT !.password = passwords'] ELSE s
<1>1. /\ UNCHANGED <<plan, failures, reset, outvoted, cut, crowded>>
      /\ call[q].step = "update" /\ plan[q] = "password" /\ a \in Accounts
      /\ NewPassword(a, "own") /\ session' = {After(s) : s \in session}
  BY CallIsRecord DEF ChangeUpdates, At
<1>2. "drop" \in CallSteps /\ call[q] \in CallRecords /\ call \in [AccountRequests -> CallRecords]
  BY CallIsRecord DEF CallSteps
<1>3. /\ c \in CallRecords /\ c.step = "drop" /\ c.target = a /\ c.session = call[q].session
  BY <1>2 DEF CallRecords
<1>4. call' = [call EXCEPT ![q] = c]
  BY DEF ChangeUpdates, Goes
<1>5. /\ account' \in [Accounts -> AccountRows] /\ passwords' \in Versions
      /\ account'[a].password = passwords' /\ account'[a].set = "own"
      /\ \A b \in Accounts : b # a => account'[b] = account[b]
      /\ ManagersNow' = ManagersNow
  BY <1>1, NewPasswordIs
<1>6. ASSUME NEW s \in session
      PROVE  /\ After(s) \in SessionRows /\ After(s).id = s.id /\ After(s).account = s.account
             /\ After(s).late = s.late
             /\ s.id = call[q].session => After(s).password = passwords'
             /\ s.id # call[q].session => After(s) = s
  <2>1. s \in SessionRows
    BY TypesOf DEF Inv
  <2> QED BY <1>5, <2>1 DEF SessionRows
<1> HIDE DEF c, After
<1>7. TargetsAreAccounts' /\ call' \in [AccountRequests -> CallRecords]
  BY <1>1, <1>3, <1>4, KeepsTargets
<1>8. AccountTypeOK'
  <2>1. session' \in SUBSET SessionRows
    BY <1>1, <1>6
  <2> QED BY <1>1, <1>5, <1>7, <2>1, TypesOf
          DEF Inv, AccountTypeOK, AccountRows, CallRecords, Ids, Changes, SessionRows
<1>9. \A r \in AccountRequests : r # q => call'[r] = call[r]
  BY <1>2, <1>4
<1>10. call'[q] = c
  BY <1>2, <1>4
<1>11. ManagersInv'
  <2>1. ChecksCount'
    BY <1>1, <1>3, <1>9, <1>10 DEF Inv, ManagersInv, ChecksCount, Counted, Loses
  <2> QED BY <1>1, <1>5, <2>1 DEF Inv, ManagersInv, SomebodyManages
<1>12. TriesFit'
  <2>1. failures' \in [Keys -> Nat] /\ \A k \in Keys : failures'[k] <= failures[k]
    BY <1>1, TypesOf DEF Inv
  <2> QED BY <1>1, <1>3, <1>4, <2>1, KeepsTries DEF Tries
<1>13. ResetInv'
  BY <1>1, <1>3, <1>4, KeepsReset
<1>14. SessionInv'
  <2>1. \A i : Opened(i) <=> Opened(i)'
    BY <1>1, <1>3, <1>9, <1>10 DEF Opened
  <2>2. ASSUME NEW s \in session'
        PROVE  \E o \in session : s = After(o)
    BY <1>1
  <2>3. OfOneAccount'
    BY <1>6, <2>2 DEF Inv, SessionInv, OfOneAccount
  <2>4. OpenedBefore'
    BY <1>6, <2>1, <2>2 DEF Inv, SessionInv, OpenedBefore
  <2>5. InOwnSession(q, call[q])
    BY CallIsRecord
  <2>6. ChangesInSession'
    <3> SUFFICES ASSUME NEW r \in AccountRequests PROVE InOwnSession(r, call[r])'
      BY DEF ChangesInSession
    <3>1. CASE r = q
      <4>1. PICK i : i = call[q].session
        OBVIOUS
      <4>2. Opened(i)'
        BY <1>1, <2>1, <2>5, <4>1 DEF InOwnSession
      <4>3. \A s \in session' : s.id = i => s.account = a
        BY <1>1, <1>6, <2>2, <2>5, <4>1 DEF InOwnSession
      <4>4. call'[r].session = i /\ call'[r].target = a /\ call'[r].step = "drop" /\ plan'[r] = "password"
        BY <1>1, <1>3, <1>10, <3>1, <4>1
      <4> QED BY <4>2, <4>3, <4>4 DEF InOwnSession
    <3>2. CASE r # q
      <4>1. InOwnSession(r, call[r]) /\ call'[r] = call[r]
        BY <1>9, <3>2, CallIsRecord
      <4> QED BY <1>1, <1>6, <2>1, <2>2, <4>1 DEF InOwnSession
    <3> QED BY <3>1, <3>2
  <2>7. OldOnesGo'
    <3> SUFFICES ASSUME NEW s \in session', s.password # account'[s.account].password,
                        account'[s.account].set = "own"
                 PROVE s.late \/ s.account \in cut \/ \E r \in AccountRequests : Going(s, r)'
      BY <1>1 DEF OldOnesGo, Outdated, Going
    <3>1. PICK o \in session : s = After(o)
      BY <2>2
    <3>2. s.id = o.id /\ s.account = o.account /\ s.late = o.late /\ o.account \in Accounts
      BY <1>6, <3>1, TypesOf DEF Inv, SessionRows
    <3>3. CASE o.account = a
      <4>1. s.id # c.session
        BY <1>3, <1>5, <1>6, <3>1, <3>2, <3>3
      <4> QED BY <1>3, <1>10, <3>2, <3>3, <4>1 DEF Going
    <3>4. CASE o.account # a
      <4>1. o.id # call[q].session
        BY <1>1, <2>5, <3>4 DEF InOwnSession
      <4>2. s = o /\ account'[o.account] = account[o.account]
        BY <1>5, <1>6, <3>1, <3>2, <3>4, <4>1
      <4>3. s.late \/ s.account \in cut \/ \E r \in AccountRequests : Going(s, r)
        BY <4>2 DEF Inv, SessionInv, OldOnesGo, Outdated
      <4>4. ASSUME NEW r \in AccountRequests, Going(s, r) PROVE Going(s, r)'
        <5>1. r # q
          BY <1>1, <4>4 DEF Going
        <5> QED BY <1>9, <4>4, <5>1 DEF Going
      <4> QED BY <4>3, <4>4
    <3> QED BY <3>3, <3>4
  <2> QED BY <2>3, <2>4, <2>6, <2>7 DEF SessionInv
<1> QED BY <1>7, <1>8, <1>11, <1>12, <1>13, <1>14 DEF Inv

\* A new password set by an administrator leaves no session behind that should go.
LEMMA ProvisioningKeeps ==
    ASSUME Inv, NEW q \in AccountRequests, ResetProvisions(q) PROVE Inv'
<1> DEFINE c == [call[q] EXCEPT !.step = "resolve"]
           a == call[q].target
<1>1. /\ UNCHANGED <<plan, session, failures, reset, outvoted, cut, crowded>>
      /\ call[q].step = "provision" /\ a \in Accounts /\ NewPassword(a, "admin")
  BY CallIsRecord DEF ResetProvisions, At
<1>2. "resolve" \in CallSteps /\ call[q] \in CallRecords
  BY CallIsRecord DEF CallSteps
<1>3. /\ c \in CallRecords /\ c.step = "resolve" /\ c.target = a
  BY <1>2 DEF CallRecords
<1>4. call' = [call EXCEPT ![q] = c]
  BY DEF ResetProvisions, Goes
<1>5. /\ account' \in [Accounts -> AccountRows] /\ passwords' \in Versions
      /\ account'[a].password = passwords' /\ account'[a].set = "admin"
      /\ \A b \in Accounts : b # a => account'[b] = account[b]
      /\ ManagersNow' = ManagersNow
  BY <1>1, NewPasswordIs
<1> HIDE DEF c
<1>6. TargetsAreAccounts' /\ call' \in [AccountRequests -> CallRecords]
  BY <1>1, <1>3, <1>4, KeepsTargets
<1>7. AccountTypeOK'
  BY <1>1, <1>5, <1>6, TypesOf
     DEF Inv, AccountTypeOK, AccountRows, CallRecords, Ids, Changes
<1>8. ManagersInv'
  <2>1. ChecksCount'
    BY <1>1, <1>3, <1>4, TypesOf DEF Inv, ManagersInv, ChecksCount, Counted, Loses
  <2> QED BY <1>1, <1>5, <2>1 DEF Inv, ManagersInv, SomebodyManages
<1>9. TriesFit'
  <2>1. failures' \in [Keys -> Nat] /\ \A k \in Keys : failures'[k] <= failures[k]
    BY <1>1, TypesOf DEF Inv
  <2> QED BY <1>1, <1>3, <1>4, <2>1, KeepsTries DEF Tries
<1>10. ResetInv'
  BY <1>1, <1>3, <1>4, KeepsReset
<1>11. SessionInv'
  <2>1. InOwnSession(q, c)
    BY <1>3 DEF InOwnSession
  <2> QED BY <1>1, <1>3, <1>4, <1>5, <2>1, KeepsSessions
<1> QED BY <1>6, <1>7, <1>8, <1>9, <1>10, <1>11 DEF Inv

\* A request that writes an account and leaves its password, if it had one.
LEMMA WritingKeeps ==
    ASSUME Inv, NEW q \in AccountRequests, NEW c \in CallRecords, call' = [call EXCEPT ![q] = c],
           UNCHANGED <<plan, session, failures, reset, cut, crowded>>,
           account' \in [Accounts -> AccountRows], passwords' \in Versions, outvoted' \in BOOLEAN,
           \A b \in Accounts : \/ account'[b].set = "admin"
                               \/ /\ account'[b].password = account[b].password
                                  /\ account'[b].set = account[b].set,
           SomebodyManages', c.step \in {"sync", "done"},
           call[q].step \notin {"clear", "drop", "done"}
    PROVE  Inv'
<1>1. TargetsAreAccounts' /\ call' \in [AccountRequests -> CallRecords]
  BY KeepsTargets
<1>2. AccountTypeOK'
  BY <1>1, TypesOf DEF Inv, AccountTypeOK, AccountRows, CallRecords, Ids, Changes
<1>3. ManagersInv'
  <2>1. ChecksCount'
    BY TypesOf DEF Inv, ManagersInv, ChecksCount, Counted, Loses
  <2> QED BY <2>1 DEF ManagersInv
<1>4. TriesFit'
  <2>1. failures' \in [Keys -> Nat] /\ \A k \in Keys : failures'[k] <= failures[k]
    BY TypesOf DEF Inv
  <2> QED BY <2>1, KeepsTries DEF Tries
<1>5. ResetInv'
  BY KeepsReset
<1>6. SessionInv'
  <2>1. InOwnSession(q, c)
    BY DEF InOwnSession
  <2> QED BY <2>1, KeepsSessions
<1> QED BY <1>1, <1>2, <1>3, <1>4, <1>5, <1>6 DEF Inv

\* Activity or role of an account: the check counted a manager who is not the
\* target, who is there still, or is one the check was wrong about.
LEMMA UpdatingKeeps ==
    ASSUME Inv, NEW q \in AccountRequests, AdminUpdates(q) PROVE Inv'
<1> DEFINE c == [NewCall EXCEPT !.step = "done"]
           t == call[q].target
           d == call[q].change
<1>1. /\ UNCHANGED <<plan, passwords, session, failures, reset, cut, crowded>>
      /\ call[q].step = "update" /\ t \in Accounts /\ plan[q] \in {"set-active", "set-role"}
      /\ d \in Changes
  BY CallIsRecord DEF AdminUpdates, At
<1>2. call' = [call EXCEPT ![q] = c] /\ c \in CallRecords /\ c.step = "done"
  BY NewCallIsRecord DEF AdminUpdates, Done, NewCall
<1>3. PICK row \in AccountRows :
         /\ account' = [account EXCEPT ![t] = row]
         /\ row.exists = account[t].exists /\ row.password = account[t].password /\ row.set = account[t].set
         /\ plan[q] = "set-active" => row.active = d.active /\ row.role = account[t].role
         /\ plan[q] # "set-active" => row.role = d.role /\ row.active = account[t].active
  <2>1. account[t] \in AccountRows
    BY <1>1, TypesOf DEF Inv
  <2>2. CASE plan[q] = "set-active"
    <3>1. account' = [account EXCEPT ![t] = [account[t] EXCEPT !.active = d.active]]
      BY <2>2 DEF AdminUpdates
    <3>2. [account[t] EXCEPT !.active = d.active] \in AccountRows
      BY <1>1, <2>1 DEF AccountRows, Changes
    <3> QED BY <2>1, <2>2, <3>1, <3>2 DEF AccountRows
  <2>3. CASE plan[q] # "set-active"
    <3>1. account' = [account EXCEPT ![t] = [account[t] EXCEPT !.role = d.role]]
      BY <2>3 DEF AdminUpdates
    <3>2. [account[t] EXCEPT !.role = d.role] \in AccountRows
      BY <1>1, <2>1 DEF AccountRows, Changes
    <3> QED BY <2>1, <2>3, <3>1, <3>2 DEF AccountRows
  <2> QED BY <2>2, <2>3
<1>4. /\ account' \in [Accounts -> AccountRows] /\ account'[t] = row
      /\ \A b \in Accounts : b # t => account'[b] = account[b]
  BY <1>1, <1>3, TypesOf DEF Inv
<1>5. outvoted' \in BOOLEAN
  BY TypesOf DEF Inv, AdminUpdates
<1>6. SomebodyManages'
  <2> SUFFICES ASSUME ManagersNow' = {} PROVE outvoted'
    BY DEF SomebodyManages
  <2>1. ManagersNow \subseteq {t}
    BY <1>4 DEF ManagersNow
  <2>2. CASE ManagersNow = {}
    BY <2>2 DEF Inv, ManagersInv, SomebodyManages, AdminUpdates
  <2>3. CASE t \in ManagersNow
    <3>1. LosesManage(q)
      BY <1>1, <1>3, <1>4, <2>3 DEF LosesManage, ManagersNow
    <3>2. t \notin call[q].remaining /\ call[q].remaining # {}
      BY <1>1, <3>1, CallIsRecord DEF Counted, Loses, LosesManage
    <3>3. call[q].remaining \intersect ManagersNow = {}
      BY <2>1, <3>2
    <3> QED BY <3>1, <3>2, <3>3 DEF AdminUpdates
  <2> QED BY <2>1, <2>2, <2>3
<1>7. \A b \in Accounts : account'[b].password = account[b].password /\ account'[b].set = account[b].set
  BY <1>3, <1>4
<1>8. passwords' \in Versions
  BY <1>1, TypesOf DEF Inv
<1> HIDE DEF c
<1> QED BY <1>1, <1>2, <1>4, <1>5, <1>6, <1>7, <1>8, WritingKeeps

LEMMA InsertingKeeps ==
    ASSUME Inv, NEW q \in AccountRequests, CreateInserts(q) PROVE Inv'
<1> DEFINE a == call[q].target
<1>1. /\ UNCHANGED <<plan, session, failures, reset, outvoted, cut, crowded>>
      /\ call[q].step = "insert" /\ a \in Accounts /\ Done(q)
  BY CallIsRecord DEF CreateInserts, At
<1>2. CASE account[a].exists
  <2>1. QuietVars
    BY <1>1, <1>2, Stays DEF CreateInserts
  <2> QED BY <1>1, <2>1, EndKeeps
<1>3. CASE ~account[a].exists
  <2> DEFINE c == [NewCall EXCEPT !.step = "done"]
  <2>1. call' = [call EXCEPT ![q] = c] /\ c \in CallRecords /\ c.step = "done"
    BY <1>1, NewCallIsRecord DEF Done, NewCall
  <2>2. passwords \in Versions /\ MaxPasswords \in Nat /\ account \in [Accounts -> AccountRows]
    BY TypesOf DEF Inv
  <2>3. passwords + 1 \in Versions /\ passwords' = passwords + 1
    BY <1>3, <2>2 DEF CreateInserts, Versions
  <2>4. PICK role \in AccountRoles :
            account' = [account EXCEPT ![a] = [exists |-> TRUE, active |-> TRUE, role |-> role,
                                               password |-> passwords + 1, set |-> "admin"]]
    BY <1>3 DEF CreateInserts
  <2>5. /\ account' \in [Accounts -> AccountRows] /\ account'[a].set = "admin"
        /\ \A b \in Accounts : b # a => account'[b] = account[b]
    BY <1>1, <2>2, <2>3, <2>4 DEF AccountRows
  <2>6. outvoted' \in BOOLEAN
    BY <1>1, TypesOf DEF Inv
  <2>7. SomebodyManages'
    <3>1. ManagersNow \subseteq ManagersNow'
      BY <1>3, <2>5 DEF ManagersNow
    <3> QED BY <1>1, <3>1 DEF Inv, ManagersInv, SomebodyManages
  <2> HIDE DEF c
  <2> QED BY <1>1, <2>1, <2>3, <2>5, <2>6, <2>7, WritingKeeps
<1> QED BY <1>2, <1>3

\* The synchronisation may take the last manager, and then says so.
LEMMA SyncWritingKeeps ==
    ASSUME Inv, NEW q \in AccountRequests, SyncWrites(q) PROVE Inv'
<1> DEFINE c == [call[q] EXCEPT !.step = "sync"]
           t == call[q].target
           d == call[q].change
<1>1. /\ UNCHANGED <<plan, passwords, session, failures, reset, cut, crowded>>
      /\ call[q].step = "write" /\ t \in Accounts /\ d \in Changes
      /\ outvoted' = (outvoted \/ ManagersNow \subseteq {t})
  BY CallIsRecord DEF SyncWrites, At
<1>2. "sync" \in CallSteps /\ call[q] \in CallRecords
  BY CallIsRecord DEF CallSteps
<1>3. c \in CallRecords /\ c.step = "sync"
  BY <1>2 DEF CallRecords
<1>4. call' = [call EXCEPT ![q] = c]
  BY DEF SyncWrites, Goes
<1>5. account \in [Accounts -> AccountRows] /\ account[t] \in AccountRows
  BY <1>1, TypesOf DEF Inv
<1>6. PICK row \in AccountRows :
         /\ account' = [account EXCEPT ![t] = row]
         /\ row.password = account[t].password /\ row.set = account[t].set
  <2>1. CASE account[t].exists
    <3>1. account' = [account EXCEPT ![t] = [account[t] EXCEPT !.role = d.role, !.active = d.active]]
      BY <2>1 DEF SyncWrites
    <3>2. [account[t] EXCEPT !.role = d.role, !.active = d.active] \in AccountRows
      BY <1>1, <1>5 DEF AccountRows, Changes
    <3> QED BY <1>5, <3>1, <3>2 DEF AccountRows
  <2>2. CASE ~account[t].exists
    <3>1. account' = [account EXCEPT ![t] = [account[t] EXCEPT !.exists = TRUE, !.active = TRUE,
                                                               !.role = d.role]]
      BY <2>2 DEF SyncWrites
    <3>2. [account[t] EXCEPT !.exists = TRUE, !.active = TRUE, !.role = d.role] \in AccountRows
      BY <1>1, <1>5 DEF AccountRows, Changes
    <3> QED BY <1>5, <3>1, <3>2 DEF AccountRows
  <2> QED BY <2>1, <2>2
<1>7. /\ account' \in [Accounts -> AccountRows] /\ account'[t] = row
      /\ \A b \in Accounts : b # t => account'[b] = account[b]
  BY <1>1, <1>5, <1>6
<1>8. SomebodyManages'
  <2> SUFFICES ASSUME ManagersNow' = {} PROVE ManagersNow \subseteq {t}
    BY <1>1 DEF SomebodyManages
  <2> QED BY <1>7 DEF ManagersNow
<1>9. outvoted' \in BOOLEAN /\ passwords' \in Versions
  BY <1>1, TypesOf DEF Inv
<1>10. \A b \in Accounts : account'[b].password = account[b].password /\ account'[b].set = account[b].set
  BY <1>6, <1>7
<1> HIDE DEF c
<1> QED BY <1>1, <1>3, <1>4, <1>7, <1>8, <1>9, <1>10, WritingKeeps

\* Inserting a request for recovery: whoever looked and has not inserted has missed it.
LEMMA RequestingKeeps ==
    ASSUME Inv, NEW q \in AccountRequests, ForgotInserts(q) PROVE Inv'
<1> DEFINE a == call[q].target
           Waits(r) == call[r].step = "insert" /\ plan[r] = "forgot"
<1>1. /\ UNCHANGED <<plan, account, passwords, session, failures, outvoted, cut, crowded>>
      /\ call[q].step = "insert" /\ plan[q] = "forgot" /\ a \in Accounts
      /\ reset' = [reset EXCEPT ![q] = [account |-> a, status |-> "pending"]]
  BY CallIsRecord DEF ForgotInserts, At
<1>2. call' = [r \in AccountRequests |->
                  IF r = q THEN [call[q] EXCEPT !.step = "done"]
                  ELSE IF Waits(r) THEN [call[r] EXCEPT !.missed = @ \union {q}] ELSE call[r]]
  BY DEF ForgotInserts, At
<1>3. call \in [AccountRequests -> CallRecords] /\ reset \in [AccountRequests -> ResetRows]
  BY TypesOf DEF Inv
<1>4. /\ call'[q] \in CallRecords /\ call'[q].step = "done" /\ call'[q].missed = call[q].missed
  <2>1. call'[q] = [call[q] EXCEPT !.step = "done"]
    BY <1>2
  <2> QED BY <1>3, <2>1 DEF CallRecords, CallSteps
<1>5. ASSUME NEW r \in AccountRequests, r # q
      PROVE  /\ call'[r] \in CallRecords /\ call'[r].step = call[r].step
             /\ call'[r].target = call[r].target /\ call'[r].session = call[r].session
             /\ call'[r].change = call[r].change /\ call'[r].remaining = call[r].remaining
             /\ call[r].missed \subseteq call'[r].missed
             /\ Waits(r) => q \in call'[r].missed
  <2>1. CASE Waits(r)
    <3>1. call'[r] = [call[r] EXCEPT !.missed = call[r].missed \union {q}]
      BY <1>2, <1>5, <2>1
    <3> QED BY <1>3, <3>1 DEF CallRecords
  <2>2. CASE ~Waits(r)
    <3>1. call'[r] = call[r]
      BY <1>2, <1>5, <2>2
    <3> QED BY <1>3, <2>2, <3>1
  <2> QED BY <2>1, <2>2
<1>6. call' \in [AccountRequests -> CallRecords]
  <2>1. \A r \in AccountRequests : call'[r] \in CallRecords
    BY <1>4, <1>5
  <2> QED BY <1>2, <2>1
<1>7. /\ reset' \in [AccountRequests -> ResetRows]
      /\ reset'[q] = [account |-> a, status |-> "pending"]
      /\ \A r \in AccountRequests : r # q => reset'[r] = reset[r]
  BY <1>1, <1>3 DEF ResetRows
<1>8. AccountTypeOK'
  BY <1>1, <1>6, <1>7, TypesOf DEF Inv, AccountTypeOK, CallRecords, ResetRows, Ids, Changes
<1>9. TargetsAreAccounts'
  BY <1>4, <1>5 DEF Inv, TargetsAreAccounts
<1>10. ManagersInv'
  <2>1. ChecksCount'
    BY <1>1, <1>4, <1>5 DEF Inv, ManagersInv, ChecksCount, Counted, Loses
  <2> QED BY <1>1, <2>1 DEF Inv, ManagersInv, SomebodyManages, ManagersNow
<1>11. TriesFit'
  <2>1. \A r \in AccountRequests : Tries(call'[r]) => Tries(call[r]) /\ call'[r].target = call[r].target
    BY <1>4, <1>5 DEF Tries
  <2> QED BY <1>1, <2>1 DEF Inv, TriesFit
<1>12. ResetInv'
  <2>1. AskedIsDone'
    BY <1>4, <1>5, <1>7 DEF Inv, ResetInv, AskedIsDone
  <2>2. LooksMiss'
    <3> SUFFICES ASSUME NEW p \in AccountRequests, NEW r \in AccountRequests,
                        call'[p].step = "insert", plan[p] = "forgot",
                        reset'[r] = [account |-> call'[p].target, status |-> "pending"]
                 PROVE r \in call'[p].missed
      BY <1>1 DEF LooksMiss
    <3>1. p # q
      BY <1>4
    <3>2. CASE r = q
      BY <1>5, <3>1, <3>2
    <3>3. CASE r # q
      <4>1. r \in call[p].missed
        BY <1>5, <1>7, <3>1, <3>3 DEF Inv, ResetInv, LooksMiss
      <4> QED BY <1>5, <3>1, <4>1
    <3> QED BY <3>2, <3>3
  <2>3. OnePending'
    <3>1. \A r \in AccountRequests : call[r].missed \subseteq call'[r].missed
      BY <1>4, <1>5
    <3>2. \A r \in AccountRequests : r # q /\ reset[r] = reset'[q] => r \in call[q].missed
      BY <1>1, <1>7 DEF Inv, ResetInv, LooksMiss
    <3> QED BY <1>7, <3>1, <3>2 DEF Inv, ResetInv, OnePending
  <2> QED BY <2>1, <2>2, <2>3 DEF ResetInv
<1>13. SessionInv'
  <2>1. \A i : Opened(i) => Opened(i)'
    BY <1>4, <1>5 DEF Opened
  <2>2. OfOneAccount' /\ OpenedBefore'
    BY <1>1, <2>1 DEF Inv, SessionInv, OfOneAccount, OpenedBefore
  <2>3. ChangesInSession'
    <3> SUFFICES ASSUME NEW r \in AccountRequests PROVE InOwnSession(r, call[r])'
      BY DEF ChangesInSession
    <3>1. CASE r = q
      BY <1>4, <3>1 DEF InOwnSession
    <3>2. CASE r # q
      <4>1. InOwnSession(r, call[r])
        BY CallIsRecord
      <4> QED BY <1>1, <1>5, <2>1, <3>2, <4>1 DEF InOwnSession
    <3> QED BY <3>1, <3>2
  <2>4. OldOnesGo'
    <3>1. \A s, r : r \in AccountRequests /\ Going(s, r) => Going(s, r)'
      BY <1>1, <1>5 DEF Going
    <3> QED BY <1>1, <3>1 DEF Inv, SessionInv, OldOnesGo, Outdated
  <2> QED BY <2>2, <2>3, <2>4 DEF SessionInv
<1> QED BY <1>8, <1>9, <1>10, <1>11, <1>12, <1>13 DEF Inv

-----------------------------------------------------------------------------
(* The specification.                                                      *)

\* The script that makes the first accounts makes one that manages users.
SomebodyAtFirst == Managers # {}

LEMMA InitialInv ==
    ASSUME AccountInit, SomebodyAtFirst PROVE Inv
<1>1. NewCall \in CallRecords /\ NewCall.step = "idle"
  BY NewCallIsRecord DEF NewCall
<1>2. \A q \in AccountRequests : call[q] = NewCall
  BY DEF AccountInit
<1>3. AccountTypeOK
  <2>1. call \in [AccountRequests -> CallRecords]
    BY <1>1 DEF AccountInit
  <2>2. passwords \in Versions /\ 0 \in Versions /\ 1 \in Versions
    BY DEF AccountInit, Versions
  <2>3. account \in [Accounts -> AccountRows]
    BY <2>2 DEF AccountInit, AccountRows, AccountRoles
  <2>4. session \in SUBSET SessionRows
    <3>1. ASSUME NEW a \in Managers
          PROVE  [id |-> a, account |-> a, password |-> 1, late |-> FALSE] \in SessionRows
      BY <2>2 DEF SessionRows, Ids
    <3>2. session = {[id |-> a, account |-> a, password |-> 1, late |-> FALSE] : a \in Managers}
      BY DEF AccountInit
    <3> QED BY <3>1, <3>2
  <2>5. failures \in [Keys -> Nat] /\ reset \in [AccountRequests -> ResetRows]
    BY DEF AccountInit, ResetRows
  <2>6. plan \in Plans /\ outvoted \in BOOLEAN /\ cut \subseteq Accounts /\ crowded \subseteq Accounts
    BY DEF AccountInit
  <2> QED BY <2>1, <2>2, <2>3, <2>4, <2>5, <2>6, TypesOf
<1>4. TargetsAreAccounts
  BY <1>1, <1>2 DEF TargetsAreAccounts
<1>5. ManagersInv
  <2>1. ManagersNow = Managers
    BY DEF AccountInit, ManagersNow
  <2> QED BY <1>1, <1>2, <2>1 DEF SomebodyAtFirst, ManagersInv, SomebodyManages, ChecksCount, Counted
<1>6. TriesFit
  BY <1>1, <1>2 DEF AccountInit, TriesFit, Tries, Keys
<1>7. ResetInv
  BY <1>1, <1>2 DEF AccountInit, ResetInv, AskedIsDone, LooksMiss, OnePending
<1>8. SessionInv
  <2>1. \A s \in session : s.id \in Accounts /\ s.account = s.id /\ account[s.account].set = "admin"
    BY DEF AccountInit
  <2> QED BY <1>1, <1>2, <2>1
      DEF SessionInv, OfOneAccount, OpenedBefore, Opened, ChangesInSession, InOwnSession, OldOnesGo, Outdated
<1> QED BY <1>3, <1>4, <1>5, <1>6, <1>7, <1>8 DEF Inv

LEMMA WhatIsTyped ==
    ASSUME Inv, NEW a \in Accounts, NEW p \in Typed(a) PROVE p \in Versions
  BY TypesOf DEF Inv, Typed, AccountRows, Versions

LEMMA RequestKeeps ==
    ASSUME Inv, NEW q \in AccountRequests, AccountStep(q) PROVE Inv'
  BY FindingKeeps, RefusingKeeps, OpeningKeeps, ClearingKeeps, ChangingKeeps, DroppingKeeps,
     CheckingKeeps, UpdatingKeeps, InsertingKeeps, ProvisioningKeeps, ResolvingKeeps, LookingKeeps,
     RequestingKeeps, SyncWritingKeeps, WalkEndKeeps, FailingKeeps DEF AccountStep

LEMMA StepKeeps ==
    ASSUME Inv, [AccountNext]_accountVars PROVE Inv'
<1>1. CASE UNCHANGED accountVars
  BY <1>1 DEF accountVars, Inv, AccountTypeOK, TargetsAreAccounts, ManagersInv, ChecksCount,
     SomebodyManages, ManagersNow, TriesFit, ResetInv, AskedIsDone, LooksMiss, OnePending, SessionInv,
     OfOneAccount, OpenedBefore, Opened, ChangesInSession, InOwnSession, OldOnesGo, Outdated, Going
<1>2. CASE \E k \in Keys : AttemptAges(k)
  BY <1>2, AgeingKeeps
<1>3. CASE \E s \in session : SessionExpires(s)
  BY <1>3, ExpiringKeeps
<1>4. ASSUME NEW q \in AccountRequests, AccountStep(q) PROVE Inv'
  BY <1>4, RequestKeeps
<1>5. ASSUME NEW q \in AccountRequests, NEW a \in Accounts,
             \/ LoginBraked(q, a) \/ ForgotBegins(q, a)
             \/ \E p \in Typed(a) : LoginBegins(q, a, p)
             \/ \E d \in Changes : SyncReads(q, a, d)
      PROVE  Inv'
  BY <1>5, BrakingKeeps, AskingKeeps, BeginningKeeps, WhatIsTyped, WalkingKeeps
<1>6. ASSUME NEW q \in AccountRequests, NEW s \in session,
             \/ Logout(q, s) \/ SyncBegins(q, s)
             \/ \E p \in Typed(s.account) : ChangeReads(q, s, p)
             \/ \E r \in AccountRequests : DismissReset(q, s, r)
      PROVE  Inv'
  <2>1. s.account \in Accounts
    BY TypesOf DEF Inv, SessionRows
  <2> QED BY <1>6, <2>1, LogoutKeeps, ListingKeeps, ReadingKeeps, WhatIsTyped, DismissingKeeps
<1>7. ASSUME NEW q \in AccountRequests, NEW s \in session, NEW t \in Accounts,
             \/ CreateFinds(q, s, t)
             \/ \E r \in AccountRequests : ResetBegins(q, s, t, r)
             \/ \E d \in Changes : Administer(q, s, t, d)
      PROVE  Inv'
  BY <1>7, CreatingKeeps, ResettingKeeps, AdministeringKeeps
<1> QED BY <1>1, <1>2, <1>3, <1>4, <1>5, <1>6, <1>7 DEF AccountNext, Changes

\* The invariant holds in every behaviour that begins with somebody who manages.
LEMMA InvHolds == SomebodyAtFirst /\ AccountSpec => []Inv
<1>1. SomebodyAtFirst /\ AccountInit => Inv
  BY InitialInv
<1>2. Inv /\ [AccountNext]_accountVars => Inv'
  BY StepKeeps
<1> QED BY <1>1, <1>2, PTL DEF AccountSpec

\* The rows and requests stay what they are: an account, session or request
\* never has a value its column cannot hold.
THEOREM AccountsAreTyped == SomebodyAtFirst /\ AccountSpec => []AccountTypeOK
<1>1. Inv => AccountTypeOK
  BY DEF Inv
<1> QED BY <1>1, InvHolds, PTL

\* An account that manages users remains, for any number of accounts and of
\* administrators who change each other at once, unless a write took away a
\* manager its check had counted on, or the ERP's list took the last.
THEOREM SomebodyRemains == SomebodyAtFirst /\ AccountSpec => []SomebodyManages
<1>1. Inv => SomebodyManages
  BY DEF Inv, ManagersInv
<1> QED BY <1>1, InvHolds, PTL

\* Sessions of an earlier password end, requests for recovery of an e-mail are
\* one at a time, and attempts stay within the rule, for any number of requests,
\* each with the exceptions the property names.
THEOREM EntryStaysGuarded == SomebodyAtFirst /\ AccountSpec => []EntryIsGuarded
<1>1. Inv => OldSessionsEnd
  BY DEF Inv, SessionInv, OldOnesGo, Outdated, Going, OldSessionsEnd, At
<1>2. Inv => BrakeHolds
  <2> SUFFICES ASSUME Inv, NEW a \in Accounts, failures[a] > EmailMax PROVE a \in crowded
    BY DEF BrakeHolds
  <2>1. failures[a] \in Nat /\ EmailMax \in Nat
    BY TypesOf DEF Inv, Keys
  <2> QED BY <2>1 DEF Inv, TriesFit
<1>3. Inv => EntryIsGuarded
  BY <1>1, <1>2 DEF Inv, ResetInv, EntryIsGuarded
<1> QED BY <1>3, InvHolds, PTL
=============================================================================
