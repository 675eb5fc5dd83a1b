---------------------------- MODULE ContractAudit ----------------------------
(***************************************************************************)
(* The audit of new contracts (contract-audit-service.ts): a pass reads    *)
(* the contracts above the saved stopping point, checks the registration   *)
(* of each one's customer in the ERP, saves the result and moves the       *)
(* point; then it checks again what is pending and looks up who created    *)
(* the contracts audited before that was recorded.  Passes are started by  *)
(* the screen, by hand and by a schedule; a button checks one contract.    *)
(*                                                                         *)
(* Every database call and every ERP query is a step of its own.  A stamp  *)
(* is the number of passes begun so far: all the code compares is whether  *)
(* a row was checked before a pass began.                                  *)
(***************************************************************************)
EXTENDS Integers, FiniteSets

CONSTANTS
    LastContract,   \* bound: contracts the ERP will have
    Customers,      \* customers in the ERP
    CustomerOf,     \* whose each contract is, or Nobody
    Nobody,         \* a row without the customer: the audit cannot read it
    Registrations,  \* the field values a customer's registration may have
    Missing,        \* the ERP finds no registration
    Passes,         \* bound: runs of the audit
    Buttons,        \* bound: presses of the button "check this contract again"
    PerPass,        \* NEW_PER_RUN and BASELINE_CONTRACTS
    MaxAsides,      \* bound: changes of a registration and presses of a button
    Null            \* the absence of a row, of a cursor, of a read

Contracts == 1..LastContract

Issues == {"sem_celular", "celular_invalido", "sem_email", "email_invalido",
           "numero_vazio", "numero_zero", "numero_fora_do_padrao"}
AuditRows == [status : {"ok", "pending", "resolved", "unverified"}, issues : SUBSET Issues,
              firstIssues : SUBSET Issues, creatorChecked : BOOLEAN, lastChecked : Nat]

ASSUME AuditAssumption ==
    /\ LastContract \in Nat \ {0} /\ PerPass \in Nat \ {0} /\ MaxAsides \in Nat
    /\ CustomerOf \in [Contracts -> Customers \cup {Nobody}]
    /\ Nobody \notin Customers /\ Missing \notin Registrations
    /\ Null \notin Registrations /\ Null # Missing /\ Null \notin Contracts /\ Null \notin AuditRows
    /\ Passes \cap Buttons = {} /\ IsFiniteSet(Passes \cup Buttons)

VARIABLES
    erp,       \* contracts created so far, and each customer's registration
    audits,    \* contract_audits: the row of each contract
    cursor,    \* sync_checkpoints: the id of the last contract audited
    runs,      \* contract_audit_runs: none, open, lapsed (the lock's 5 minutes are over), closed
    begun,     \* passes begun so far: the clock of the stamps
    worker     \* the local variables of each pass and of each press of the button

auditVars == <<erp, audits, cursor, runs, begun, worker>>

AuditTypeOK ==
    /\ erp \in [born : 0..LastContract, edits : 0..MaxAsides,
                of : [Customers -> Registrations \cup {Missing}]]
    /\ cursor \in Contracts \cup {Null}
    /\ runs \in [Passes -> {"none", "open", "lapsed", "closed"}]
    /\ begun \in 0..Cardinality(Passes)
    /\ \A c \in Contracts : audits[c] # Null =>
          /\ audits[c] \in AuditRows
          /\ (audits[c].status = "pending") = (audits[c].issues # {})

(***************************************************************************)
(* The rules (contract-audit-shared.ts).                                   *)
(***************************************************************************)
Best(f) == IF f.mobile > f.whatsapp THEN f.mobile ELSE f.whatsapp

PhoneIssues(f) == CASE Best(f) = 0 -> {"sem_celular"}
                    [] Best(f) \in 1..9 -> {"celular_invalido"}
                    [] OTHER -> {}
EmailIssues(f) == CASE f.email = "none" -> {"sem_email"}
                    [] f.email = "malformed" -> {"email_invalido"}
                    [] OTHER -> {}
NumberIssues(f) == CASE f.number = "vazio" -> {"numero_vazio"}
                     [] f.number = "zero" -> {"numero_zero"}
                     [] f.number = "fora_do_padrao" -> {"numero_fora_do_padrao"}
                     [] OTHER -> {}

EvaluateContact(f) == PhoneIssues(f) \cup EmailIssues(f) \cup NumberIssues(f)

(***************************************************************************)
(* The next row of a contract (nextRecord), from the previous one, what    *)
(* the ERP answered and whether its log was asked for the creator.         *)
(***************************************************************************)
FirstIssues(previous, issues) ==
    IF previous # Null /\ previous.status # "unverified" THEN previous.firstIssues ELSE issues

\* Mutant: what was pending stays so until somebody says otherwise.
StatusOfHad(previous, issues) ==
    CASE issues # {} \/ (previous # Null /\ previous.status = "pending") -> "pending"
      [] OTHER -> IF FirstIssues(previous, issues) # {} THEN "resolved" ELSE "ok"

StatusOf(previous, issues) ==
    LET had == \/ FirstIssues(previous, issues) # {}
               \/ previous # Null /\ previous.status \in {"pending", "resolved"}
    IN  IF issues # {} THEN "pending" ELSE IF had THEN "resolved" ELSE "ok"

NextRecord(previous, fields, asked) ==
    LET known  == asked \/ (previous # Null /\ previous.creatorChecked)
        kept   == IF previous = Null THEN {} ELSE previous.firstIssues
        issues == EvaluateContact(fields)
    IN  IF fields = Missing
        THEN [status |-> "unverified", issues |-> {}, firstIssues |-> kept,
              creatorChecked |-> known, lastChecked |-> begun]
        ELSE [status |-> StatusOf(previous, issues), issues |-> issues,
              firstIssues |-> FirstIssues(previous, issues),
              creatorChecked |-> known, lastChecked |-> begun]

(***************************************************************************)
(* The ERP's lists (listLatestContracts, listContractsAfter): a row whose  *)
(* customer is blank is dropped, the rest goes from the oldest up.         *)
(***************************************************************************)
Readable(c) == CustomerOf[c] # Nobody

Latest == {c \in 1..erp.born : c > erp.born - PerPass}
After(id) == {c \in 1..erp.born : c > id /\ c <= id + PerPass}

ToAudit(from) == {c \in (IF from = Null THEN Latest ELSE After(from)) : Readable(c)}
\* Mutant: the newest contract first, as the ERP lists them.
Newest(S) == CHOOSE c \in S : \A d \in S : c >= d
Oldest(S) == CHOOSE c \in S : \A d \in S : c <= d

\* Rows found by a query, as (contract, row) pairs: taken by the time of the check, or
\* from the newest contract down.
RowsOf(S) == {<<c, audits[c]>> : c \in S}
ToRecheck(before) ==
    RowsOf({c \in Contracts : /\ audits[c] # Null
                             /\ audits[c].status \in {"pending", "unverified"}
                             /\ audits[c].lastChecked < before})
LeastRecent(S) ==
    CHOOSE a \in S : \A b \in S :
        \/ a[2].lastChecked < b[2].lastChecked
        \/ a[2].lastChecked = b[2].lastChecked /\ a[1] <= b[1]
ToBackfill == RowsOf({c \in Contracts : audits[c] # Null /\ ~audits[c].creatorChecked})
LatestRow(S) == CHOOSE a \in S : \A b \in S : a[1] >= b[1]

Resting == [at |-> "idle", from |-> Null, started |-> 0, todo |-> {},
            seen |-> [k \in Customers |-> Null], fields |-> Null, previous |-> Null,
            contract |-> Null]

\* The first audit, or a base already audited before the creators were recorded.
Audited(c) == [status |-> "ok", issues |-> {}, firstIssues |-> {},
               creatorChecked |-> FALSE, lastChecked |-> 0]

AuditInit ==
    /\ \E r \in [Customers -> Registrations] :
          erp = [born |-> 1, edits |-> 0, of |-> r]
    /\ \/ cursor = Null /\ audits = [c \in Contracts |-> Null]
       \/ /\ Readable(1) /\ cursor = 1
          /\ audits = [c \in Contracts |-> IF c = 1 THEN Audited(c) ELSE Null]
    /\ runs = [p \in Passes |-> "none"] /\ begun = 0
    /\ worker = [w \in Passes \cup Buttons |-> Resting]

(***************************************************************************)
(* The ERP: a contract is created, somebody changes a registration, or it  *)
(* cannot be found for a while.                                            *)
(***************************************************************************)
ContractIsCreated ==
    /\ erp.born < LastContract
    /\ erp' = [erp EXCEPT !.born = @ + 1]
    /\ UNCHANGED <<audits, cursor, runs, begun, worker>>

Asides == erp.edits + Cardinality({b \in Buttons : worker[b] # Resting})

RegistrationChanges ==
    /\ Asides < MaxAsides
    /\ \E k \in Customers, f \in Registrations \cup {Missing} :
          erp' = [erp EXCEPT !.of[k] = f, !.edits = @ + 1]
    /\ UNCHANGED <<audits, cursor, runs, begun, worker>>

Local(w, change) == worker' = [worker EXCEPT ![w] = change]
AtStep(w, s) == worker[w].at = s
Moves(w, s) == Local(w, [worker[w] EXCEPT !.at = s])

(***************************************************************************)
(* runContractAudit, up to the list of what to audit.                      *)
(***************************************************************************)
LooksForARun(p) ==   \* runningSince
    /\ AtStep(p, "idle")
    /\ Moves(p, IF \E q \in Passes : runs[q] = "open" THEN "ended" ELSE "start")
    /\ UNCHANGED <<erp, audits, cursor, runs, begun>>

StartsRun(p) ==
    /\ AtStep(p, "start")
    /\ runs' = [runs EXCEPT ![p] = "open"]
    /\ begun' = begun + 1
    /\ Local(p, [worker[p] EXCEPT !.at = "cursor", !.started = begun'])
    /\ UNCHANGED <<erp, audits, cursor>>

ReadsCursor(p) ==
    /\ AtStep(p, "cursor")
    /\ Local(p, [worker[p] EXCEPT !.at = "list", !.from = cursor])
    /\ UNCHANGED <<erp, audits, cursor, runs, begun>>

\* Onto the next contract of the list, or onto the rows to check again.
NextContract(p, todo) ==
    IF todo # {}
    THEN [worker[p] EXCEPT !.at = "customer", !.todo = todo, !.previous = Null, !.fields = Null]
    ELSE [Resting EXCEPT !.at = "pending", !.started = worker[p].started, !.seen = worker[p].seen]

ListsContracts(p) ==
    /\ AtStep(p, "list")
    /\ Local(p, NextContract(p, ToAudit(worker[p].from)))
    /\ UNCHANGED <<erp, audits, cursor, runs, begun>>

(***************************************************************************)
(* One new contract: its customer (read once per pass), the creator, the   *)
(* previous row, the new row, the stopping point.                          *)
(***************************************************************************)
AtHand(p) == Oldest(worker[p].todo)

\* customer(id): the pass keeps what it read of each customer.  The ERP's log is asked for
\* the creator right after; who created a contract never changes, so that is no step.
Read(w, k) == IF worker[w].seen[k] # Null THEN worker[w].seen[k] ELSE erp.of[k]

ReadsCustomer(p) ==
    /\ AtStep(p, "customer")
    /\ LET k == CustomerOf[AtHand(p)] IN
       Local(p, [worker[p] EXCEPT !.at = "get", !.fields = Read(p, k),
                                  !.seen[k] = Read(p, k)])
    /\ UNCHANGED <<erp, audits, cursor, runs, begun>>

GetsRow(p) ==
    /\ AtStep(p, "get")
    /\ Local(p, [worker[p] EXCEPT !.at = "save", !.previous = audits[AtHand(p)]])
    /\ UNCHANGED <<erp, audits, cursor, runs, begun>>

SavesRow(p) ==
    /\ AtStep(p, "save")
    /\ audits' = [audits EXCEPT ![AtHand(p)] =
                    NextRecord(worker[p].previous, worker[p].fields, TRUE)]
    /\ Moves(p, "advance")
    /\ UNCHANGED <<erp, cursor, runs, begun>>

SavesCursor(p) ==    \* greatest(cursor, id): it only moves forward
    /\ AtStep(p, "advance")
    /\ cursor' = IF cursor = Null \/ cursor < AtHand(p) THEN AtHand(p) ELSE cursor
    /\ Local(p, NextContract(p, worker[p].todo \ {AtHand(p)}))
    /\ UNCHANGED <<erp, audits, runs, begun>>

(***************************************************************************)
(* The rows to check again, then the rows without a creator: both lists    *)
(* are read once, and each row is written whole from what was read.        *)
(***************************************************************************)
NextOf(p, s, after, todo) ==
    [worker[p] EXCEPT !.at = IF todo = {} THEN after ELSE s, !.todo = todo, !.fields = Null]

Again(p) == LeastRecent(worker[p].todo)
Uncredited(p) == LatestRow(worker[p].todo)

ListsPending(p) ==
    /\ AtStep(p, "pending")
    /\ Local(p, NextOf(p, "again", "uncredited", ToRecheck(worker[p].started)))
    /\ UNCHANGED <<erp, audits, cursor, runs, begun>>

ReadsAgain(p) ==
    /\ AtStep(p, "again") /\ worker[p].fields = Null
    /\ LET k == CustomerOf[Again(p)[1]] IN
       Local(p, [worker[p] EXCEPT !.fields = Read(p, k), !.seen[k] = Read(p, k)])
    /\ UNCHANGED <<erp, audits, cursor, runs, begun>>

SavesAgain(p) ==
    /\ AtStep(p, "again") /\ worker[p].fields # Null
    /\ audits' = [audits EXCEPT ![Again(p)[1]] =
                    NextRecord(Again(p)[2], worker[p].fields, FALSE)]
    /\ Local(p, NextOf(p, "again", "uncredited", worker[p].todo \ {Again(p)}))
    /\ UNCHANGED <<erp, cursor, runs, begun>>

ListsUncredited(p) ==
    /\ AtStep(p, "uncredited")
    /\ Local(p, [Resting EXCEPT !.at = IF ToBackfill = {} THEN "finish" ELSE "credit",
                                !.todo = ToBackfill])
    /\ UNCHANGED <<erp, audits, cursor, runs, begun>>

SavesCreator(p) ==   \* the query to the log comes first and may stop the pass
    /\ AtStep(p, "credit")
    /\ audits' = [audits EXCEPT ![Uncredited(p)[1]] = [Uncredited(p)[2] EXCEPT !.creatorChecked = TRUE]]
    /\ Local(p, NextOf(p, "credit", "finish", worker[p].todo \ {Uncredited(p)}))
    /\ UNCHANGED <<erp, cursor, runs, begun>>

(***************************************************************************)
(* The pass ends: the budget or the reserve of the rate limit is spent,    *)
(* the ERP or the database fails, or everything is done.                   *)
(***************************************************************************)
Working == {"cursor", "list", "customer", "get", "save", "advance",
            "pending", "again", "uncredited", "credit"}

Stops(p) ==
    /\ worker[p].at \in Working
    /\ Local(p, [Resting EXCEPT !.at = "finish"])
    /\ UNCHANGED <<erp, audits, cursor, runs, begun>>

FinishesRun(p) ==    \* a failure of this write is swallowed
    /\ AtStep(p, "finish")
    /\ \E r \in {runs[p], "closed"} : runs' = [runs EXCEPT ![p] = r]
    /\ Local(p, [Resting EXCEPT !.at = "ended"])
    /\ UNCHANGED <<erp, audits, cursor, begun>>

PassDies(p) ==       \* the process ends; its run stays open
    /\ worker[p].at \in Working
    /\ Local(p, [Resting EXCEPT !.at = "ended"])
    /\ UNCHANGED <<erp, audits, cursor, runs, begun>>

LockLapses(p) ==     \* RUN_LOCK_MS; only a pass about to begin looks at it
    /\ runs[p] = "open" /\ \E q \in Passes : AtStep(q, "idle")
    /\ runs' = [runs EXCEPT ![p] = "lapsed"]
    /\ UNCHANGED <<erp, audits, cursor, begun, worker>>

(***************************************************************************)
(* recheckContract: the button, for one contract.                          *)
(***************************************************************************)
ButtonReads(b) ==
    /\ AtStep(b, "idle") /\ Asides < MaxAsides
    /\ \E c \in Contracts :
          Local(b, IF audits[c] = Null THEN [Resting EXCEPT !.at = "ended"]
                   ELSE [worker[b] EXCEPT !.at = "ask", !.previous = audits[c], !.contract = c])
    /\ UNCHANGED <<erp, audits, cursor, runs, begun>>

ButtonAsks(b) ==     \* the registration and, unless known, the creator; either may fail
    /\ AtStep(b, "ask")
    /\ \/ Local(b, [worker[b] EXCEPT !.at = "write",
                                     !.fields = erp.of[CustomerOf[worker[b].contract]]])
       \/ Local(b, [Resting EXCEPT !.at = "ended"])
    /\ UNCHANGED <<erp, audits, cursor, runs, begun>>

ButtonSaves(b) ==
    /\ AtStep(b, "write")
    /\ audits' = [audits EXCEPT ![worker[b].contract] =
                    NextRecord(worker[b].previous, worker[b].fields, TRUE)]
    /\ Local(b, [Resting EXCEPT !.at = "ended"])
    /\ UNCHANGED <<erp, cursor, runs, begun>>

AuditNext ==
    \/ ContractIsCreated \/ RegistrationChanges
    \/ \E p \in Passes :
          \/ LooksForARun(p) \/ StartsRun(p) \/ ReadsCursor(p) \/ ListsContracts(p)
          \/ ReadsCustomer(p) \/ GetsRow(p) \/ SavesRow(p) \/ SavesCursor(p)
          \/ ListsPending(p) \/ ReadsAgain(p) \/ SavesAgain(p)
          \/ ListsUncredited(p) \/ SavesCreator(p)
          \/ Stops(p) \/ FinishesRun(p) \/ PassDies(p) \/ LockLapses(p)
    \/ \E b \in Buttons : ButtonReads(b) \/ ButtonAsks(b) \/ ButtonSaves(b)

AuditSpec == AuditInit /\ [][AuditNext]_auditVars

-----------------------------------------------------------------------------
(***************************************************************************)
(* Nothing is lost when the ERP fails halfway ("se o IXC cair no meio nada *)
(* se perde"): a pass that began from a saved stopping point never moves   *)
(* the point past a contract that has no audit row, whatever other pass    *)
(* runs beside it, stops or dies.  (A first audit has no point to start    *)
(* from: two of them at the same time may leave contracts between them.)   *)
(***************************************************************************)
NothingIsSkipped ==
    [][\A p \in Passes :
         AtStep(p, "advance") /\ worker[p].from # Null /\ worker'[p].at # "advance" /\ cursor' # cursor
            => \A c \in Contracts :
                  worker[p].from < c /\ c <= cursor' /\ Readable(c) => audits'[c] # Null]_auditVars

(***************************************************************************)
(* What was wrong at the first check is a fact of the audit and does not   *)
(* change ("corrigir depois não apaga o fato de o contrato ter nascido     *)
(* incompleto").  Not so in this code: a stale row is written whole over a *)
(* newer one, and TLC finds the fact that is gone.                         *)
(***************************************************************************)
BornIncompleteStays ==
    [][\A c \in Contracts :
         audits[c] # Null /\ audits[c].firstIssues # {}
            => audits'[c].firstIssues = audits[c].firstIssues]_auditVars
=============================================================================
