------------------------------- MODULE IxcWrites -------------------------------
(***************************************************************************)
(* The writes of LZR HUB in the IXC, the provider's ERP: second copy of a  *)
(* boleto, service order, renegotiation of a debt, registration of a       *)
(* customer (src/lib/platform/ixc-write-service.ts and its four routes).   *)
(*                                                                         *)
(* All four follow one rule: the route gathers what the policy needs, the  *)
(* service looks the key up in the ledger, asks the policy, calls the IXC  *)
(* and inserts a row, which the unique index on (operation, key) turns     *)
(* away when there is one.  A renegotiation is four calls, the others one. *)
(* A behaviour is one operation: the ledger never lets two of them meet.   *)
(*                                                                         *)
(* A subject is what the policy protects: the invoice, the customer with   *)
(* the matter of the order, the invoices of the debt, the lead with its    *)
(* document.  The snapshot of the customer the routes gather from is       *)
(* cached for IXC_CACHE_TTL_SECONDS.  The IXC is outside src/: a call it   *)
(* receives is carried out or refused, at once or after the caller gave up.*)
(***************************************************************************)
EXTENDS Naturals

CONSTANTS Requests, Keys, KeyOf, Subjects, SubjectOf, Nobody,
          Modes,      \* which operations, and whether their requests may overlap
          MaxFaults   \* bound: errors of the database or of a read, and crashes

Catalog == {"invoice.reissue", "service_order.open", "negotiation.register", "customer.create"}

ASSUME ModesAssumption == Modes \subseteq [operation : Catalog, overlap : BOOLEAN]
ASSUME RequestsAssumption ==
    /\ KeyOf \in [Requests -> Keys] /\ SubjectOf \in [Requests -> Subjects]
    /\ Nobody \notin Requests
ASSUME WritesBoundsAssumption == MaxFaults \in Nat

VARIABLES mode,     \* the operation, and FALSE in overlap: one request at a time
          pc,       \* pc[r]: where the request is
          seen,     \* seen[r]: what was gathered says that the subject is taken
          step,     \* step[r]: the call it is in, or was in last
          known,    \* known[r]: it has the id of what it created
          call,     \* call[r]: that call, as the IXC knows it
          effects,  \* effects[r]: how many of its calls the IXC carried out
          answer,   \* answer[r]: what its caller was told
          ledger,   \* ledger[k]: the row of the key in ixc_write_operations
          cache,    \* the cached snapshot: what it shows as taken
          linked,   \* leads with the id of their customer
          paid,     \* subjects somebody else settled in the IXC
          faults

local == <<pc, seen, step, known, call, effects, answer>>
shared == <<ledger, cache, linked, paid, faults>>
vars == <<mode, local, shared>>

Operation == mode.operation
Overlap == mode.overlap
Steps == IF Operation = "negotiation.register" THEN 4 ELSE 1

NoRow == [status |-> "none", by |-> Nobody, named |-> FALSE, step |-> 0]
Snapshot(taken, partial) == [valid |-> TRUE, partial |-> partial, taken |-> taken]
NoSnapshot == [valid |-> FALSE, partial |-> FALSE, taken |-> {}]
Active == {"gathered", "asked", "calling", "returned", "linked", "thrown"}

TypeOK ==
    /\ mode \in Modes
    /\ pc \in [Requests -> Active \cup {"idle", "done"}]
    /\ seen \in [Requests -> BOOLEAN] /\ known \in [Requests -> BOOLEAN]
    /\ step \in [Requests -> 0..Steps] /\ effects \in [Requests -> 0..Steps]
    /\ call \in [Requests -> {"none", "flying", "made", "refused"}]
    /\ answer \in [Requests -> {"nothing", "success", "blocked", "failed", "error"}]
    /\ ledger \in [Keys -> [status : {"none", "success", "blocked", "failed"}, by : Requests \cup {Nobody},
                            named : BOOLEAN, step : 0..Steps]]
    /\ cache \in [valid : BOOLEAN, partial : BOOLEAN, taken : SUBSET Subjects]
    /\ linked \subseteq Subjects /\ paid \subseteq Subjects
    /\ faults \in 0..MaxFaults

Init ==
    /\ mode \in Modes
    /\ pc = [r \in Requests |-> "idle"]
    /\ seen = [r \in Requests |-> FALSE]
    /\ step = [r \in Requests |-> 0]
    /\ known = [r \in Requests |-> FALSE]
    /\ call = [r \in Requests |-> "none"]
    /\ effects = [r \in Requests |-> 0]
    /\ answer = [r \in Requests |-> "nothing"]
    /\ ledger = [k \in Keys |-> NoRow]
    /\ cache = NoSnapshot
    /\ linked = {} /\ paid = {}
    /\ faults = 0

Go(r, where) == pc' = [pc EXCEPT ![r] = where]
Tell(r, what) == Go(r, "done") /\ answer' = [answer EXCEPT ![r] = what]
Fault == faults < MaxFaults /\ faults' = faults + 1
Free(r) == ledger[KeyOf[r]].status = "none"
Insert(r, status, named) ==
    ledger' = [ledger EXCEPT ![KeyOf[r]] = [status |-> status, by |-> r, named |-> named, step |-> step[r]]]

(***************************************************************************)
(* The route: what the policy will go by.                                  *)
(***************************************************************************)
MayBegin(r) ==
    /\ pc[r] = "idle"
    /\ Overlap \/ \A q \in Requests : pc[q] \notin Active

\* What the IXC shows as taken: a boleto leaves no mark on its invoice, and of a
\* renegotiation halfway nothing is known.
Done(s) == \E r \in Requests : SubjectOf[r] = s /\ effects[r] = Steps
Begun(s) == \E r \in Requests : SubjectOf[r] = s /\ effects[r] > 0
MayShow ==
    IF Operation = "invoice.reissue" THEN {paid}
    ELSE {paid \cup {s \in Subjects : Done(s)} \cup half :
              half \in SUBSET {s \in Subjects : Begun(s) /\ ~Done(s)}}

\* getSnapshot: the cached one, or a new one.  A list that could not be read is
\* empty, and cached so: no open order, no invoice to renegotiate; a boleto whose
\* invoice is not there is a 404 without a row.
LookAt(r) ==
    IF Operation = "invoice.reissue" /\ cache'.partial
    THEN Tell(r, "error") /\ UNCHANGED seen
    ELSE Go(r, "gathered") /\ seen' = [seen EXCEPT ![r] = SubjectOf[r] \in cache'.taken]
         /\ UNCHANGED answer

Gather(r) ==
    /\ MayBegin(r)
    /\ Operation # "customer.create"
    /\ \/ cache.valid /\ UNCHANGED <<cache, faults>>
       \/ /\ ~cache.valid
          /\ \E shown \in MayShow : cache' = Snapshot(shown, FALSE)
          /\ UNCHANGED faults
       \/ /\ ~cache.valid
          /\ cache' = Snapshot(IF Operation = "service_order.open" THEN {} ELSE Subjects, TRUE)
          /\ Fault
    /\ LookAt(r)
    /\ UNCHANGED <<step, known, call, effects, ledger, linked, paid>>

\* Mutant: the document is looked up, and the lead is not.
LookUpDocument(r) ==
    /\ MayBegin(r)
    /\ Operation = "customer.create"
    /\ \/ \E shown \in MayShow : seen' = [seen EXCEPT ![r] = SubjectOf[r] \in shown]
          /\ UNCHANGED faults
       \/ seen' = [seen EXCEPT ![r] = FALSE] /\ Fault
    /\ Go(r, "gathered")
    /\ UNCHANGED <<step, known, call, effects, answer, ledger, cache, linked, paid>>

\* The lead and the document, each read anew; a document that could not be
\* looked up counts as one nobody has.
LookUpCustomer(r) ==
    /\ MayBegin(r)
    /\ Operation = "customer.create"
    /\ \/ \E shown \in MayShow :
             seen' = [seen EXCEPT ![r] = SubjectOf[r] \in shown \cup linked]
          /\ UNCHANGED faults
       \/ seen' = [seen EXCEPT ![r] = SubjectOf[r] \in linked] /\ Fault
    /\ Go(r, "gathered")
    /\ UNCHANGED <<step, known, call, effects, answer, ledger, cache, linked, paid>>

(***************************************************************************)
(* The service up to the call.                                             *)
(***************************************************************************)
\* A row answers for the request, whatever it says.
Replay(r) ==
    /\ pc[r] = "gathered"
    /\ ~Free(r)
    /\ Tell(r, ledger[KeyOf[r]].status)
    /\ UNCHANGED <<seen, step, known, call, effects, shared>>

FindNothing(r) ==
    /\ pc[r] = "gathered"
    /\ Free(r)
    /\ Go(r, "asked")
    /\ UNCHANGED <<seen, step, known, call, effects, answer, shared>>

\* The policy or the flag refuses.  An insert that fails is an error 500, with or
\* without its row.
Block(r) ==
    /\ pc[r] = "asked"
    /\ \/ /\ Free(r) /\ Insert(r, "blocked", FALSE)
          /\ \/ Tell(r, "blocked") /\ UNCHANGED faults
             \/ Tell(r, "error") /\ Fault
       \/ ~Free(r) /\ Tell(r, "error") /\ UNCHANGED <<ledger, faults>>
    /\ UNCHANGED <<seen, step, known, call, effects, cache, linked, paid>>

\* The second copy is the only one whose policy reads the ledger: no success of
\* the invoice in the last 24 hours.
Reissued(s) ==
    \E k \in Keys : ledger[k].status = "success" /\ SubjectOf[ledger[k].by] = s
Allowed(r) ==
    ~seen[r] /\ (Operation = "invoice.reissue" => ~Reissued(SubjectOf[r]))

Place(r, n) ==
    /\ step' = [step EXCEPT ![r] = n]
    /\ call' = [call EXCEPT ![r] = "flying"]

Call(r) ==
    /\ pc[r] = "asked"
    /\ Allowed(r)
    /\ Go(r, "calling")
    /\ Place(r, 1)
    /\ UNCHANGED <<seen, known, effects, answer, shared>>

(***************************************************************************)
(* The call, and the IXC on the other side of it.                          *)
(***************************************************************************)
CarryOut(r) ==
    /\ call[r] = "flying"
    /\ call' = [call EXCEPT ![r] = "made"]
    /\ effects' = [effects EXCEPT ![r] = @ + 1]
    /\ UNCHANGED <<pc, seen, step, known, answer, shared>>

Refuse(r) ==
    /\ call[r] = "flying"
    /\ call' = [call EXCEPT ![r] = "refused"]
    /\ UNCHANGED <<pc, seen, step, known, effects, answer, shared>>

\* Mutant: HTTP 200 is enough, whatever the body says.
HearAnything(r) ==
    /\ pc[r] = "calling"
    /\ call[r] \in {"made", "refused"}
    /\ known' = [known EXCEPT ![r] = TRUE]
    /\ IF step[r] < Steps THEN Place(r, step[r] + 1) /\ UNCHANGED pc
       ELSE Go(r, "returned") /\ UNCHANGED <<step, call>>
    /\ UNCHANGED <<seen, effects, answer, shared>>

\* The IXC refuses with HTTP 200 and an error in the body, which the second copy
\* of a boleto does not look for.
LooksGood(r) ==
    call[r] = "made" \/ (Operation = "invoice.reissue" /\ call[r] = "refused")

\* A good answer: the next call of the wizard, or the end.
Hear(r) ==
    /\ pc[r] = "calling"
    /\ LooksGood(r)
    /\ known' = [known EXCEPT ![r] = TRUE]
    /\ IF step[r] < Steps THEN Place(r, step[r] + 1) /\ UNCHANGED pc
       ELSE Go(r, "returned") /\ UNCHANGED <<step, call>>
    /\ UNCHANGED <<seen, effects, answer, shared>>

\* A refusal; or a timeout, a status, an unreadable body or a missing id, behind
\* which the IXC may have carried out the call or may still do so.
HearError(r) ==
    /\ pc[r] = "calling"
    /\ Go(r, "thrown")
    /\ UNCHANGED <<seen, step, known, call, effects, answer, shared>>

(***************************************************************************)
(* The ledger afterwards.                                                  *)
(***************************************************************************)
\* onCreated: the lead gets the id; an error of that is noted and swallowed.
Link(r) ==
    /\ pc[r] = "returned"
    /\ Operation = "customer.create"
    /\ \/ linked' = linked \cup {SubjectOf[r]} /\ UNCHANGED faults
       \/ UNCHANGED linked /\ Fault
    /\ Go(r, "linked")
    /\ UNCHANGED <<seen, step, known, call, effects, answer, ledger, cache, paid>>

\* An insert that fails, or meets the row of another request, throws inside the
\* try of the call; a failing database may have committed it all the same.
RecordSuccess(r) ==
    /\ pc[r] = IF Operation = "customer.create" THEN "linked" ELSE "returned"
    /\ \/ /\ Free(r)
          /\ Insert(r, "success", TRUE)
          /\ \/ Tell(r, "success") /\ UNCHANGED faults
             \/ Go(r, "thrown") /\ UNCHANGED answer /\ Fault
       \/ ~Free(r) /\ Go(r, "thrown") /\ UNCHANGED <<answer, ledger, faults>>
       \/ Fault /\ Go(r, "thrown") /\ UNCHANGED <<answer, ledger>>
    /\ UNCHANGED <<seen, step, known, call, effects, cache, linked, paid>>

\* The failure names what it left behind if the progress does, which only the
\* renegotiation reports.
Names(r) == Operation = "negotiation.register" /\ known[r]

\* Mutants: the failed row keeps the invoices, not the renegotiation; the step is
\* the last one that ended well.
RecordFailedUnnamed(r) ==
    /\ pc[r] = "thrown"
    /\ Free(r) /\ Insert(r, "failed", FALSE) /\ Tell(r, "failed")
    /\ UNCHANGED <<seen, step, known, call, effects, cache, linked, paid, faults>>

RecordFailedStepBefore(r) ==
    /\ pc[r] = "thrown"
    /\ Free(r) /\ Tell(r, "failed")
    /\ ledger' = [ledger EXCEPT ![KeyOf[r]] =
                    [status |-> "failed", by |-> r, named |-> Names(r), step |-> step[r] - 1]]
    /\ UNCHANGED <<seen, step, known, call, effects, cache, linked, paid, faults>>

RecordFailed(r) ==
    /\ pc[r] = "thrown"
    /\ \/ /\ Free(r) /\ Insert(r, "failed", Names(r))
          /\ \/ Tell(r, "failed") /\ UNCHANGED faults
             \/ Tell(r, "error") /\ Fault
       \/ ~Free(r) /\ Tell(r, "error") /\ UNCHANGED <<ledger, faults>>
    /\ UNCHANGED <<seen, step, known, call, effects, cache, linked, paid>>

\* A read of the IXC or of the database fails where the code does not catch it,
\* or the process dies: no row says so.
Break(r) ==
    /\ pc[r] \in Active
    /\ Fault
    /\ Tell(r, "error")
    /\ UNCHANGED <<seen, step, known, call, effects, ledger, cache, linked, paid>>

(***************************************************************************)
(* The rest of the world.                                                  *)
(***************************************************************************)
Expire ==
    /\ cache.valid
    /\ cache' = NoSnapshot
    /\ UNCHANGED <<local, ledger, linked, paid, faults>>

\* The customer pays the invoice, or somebody else opens the order or registers
\* the customer.
Settle(s) ==
    /\ s \notin paid
    /\ paid' = paid \cup {s}
    /\ UNCHANGED <<local, ledger, cache, linked, faults>>

Step ==
    \/ \E r \in Requests :
          \/ Gather(r) \/ LookUpCustomer(r) \/ Replay(r) \/ FindNothing(r) \/ Block(r) \/ Call(r)
          \/ CarryOut(r) \/ Refuse(r) \/ Hear(r) \/ HearError(r)
          \/ Link(r) \/ RecordSuccess(r) \/ RecordFailed(r) \/ Break(r)
    \/ Expire
    \/ \E s \in Subjects : Settle(s)

Next == Step /\ UNCHANGED mode

Spec == Init /\ [][Next]_vars

-----------------------------------------------------------------------------
(* The properties. *)

\* A row that says success is of an operation the IXC carried out to its end
\* ("uma recusa viraria sucesso no ledger"). Not so in this code for the second copy
\* of a boleto, whose answer nobody looks at for a refusal.
SuccessIsReal ==
    \A k \in Keys : ledger[k].status = "success" => effects[ledger[k].by] = Steps

\* The same of the three operations that look for a refusal in the answer.
SuccessIsWhole == Operation # "invoice.reissue" => SuccessIsReal

\* The step of a failed row tells how far the IXC went, to the one call whose
\* fate is not known (head comment of requestRenegotiation): that call may have been
\* carried out, or still be, also when it is the first.
LedgerTellsHowFar ==
    \A k \in Keys : ledger[k].status = "failed" =>
        effects[ledger[k].by] \in {ledger[k].step - 1, ledger[k].step}

\* "Falhou antes de gravar qualquer coisa no IXC (passo 1)": a failed row without the id of
\* a renegotiation left none in the IXC. Not so in this code: the first call may time
\* out, or answer without an id, and have been carried out.
UnnamedLeftNothing ==
    Operation = "negotiation.register" =>
        \A k \in Keys : ledger[k].status = "failed" /\ ~ledger[k].named => effects[ledger[k].by] = 0

\* Whoever was told how a renegotiation ended, halfway too, finds what it created
\* in the ledger by its id.
KnownIsNamed ==
    Operation = "negotiation.register" =>
        \A r \in Requests : known[r] /\ answer[r] \in {"success", "failed"} =>
            ledger[KeyOf[r]].by = r /\ ledger[KeyOf[r]].named

\* Every decision the caller was told of is in the ledger, refusals too.
AnsweredIsOnLedger ==
    \A r \in Requests : answer[r] \in {"success", "blocked", "failed"} =>
        ledger[KeyOf[r]].status = answer[r]

\* What the caller heard can be read in the ledger, with what was left in the IXC.
AnswersAreOnRecord == KnownIsNamed /\ AnsweredIsOnLedger

\* A key never calls the IXC twice ("reenviar a mesma chave nunca dispara duas
\* vezes").
OncePerKey ==
    \A r, q \in Requests : step[r] > 0 /\ step[q] > 0 /\ KeyOf[r] = KeyOf[q] => r = q

\* Requests that come one after another keep that promise, but for one that broke
\* off between the call and its row, whose caller heard of no result.
RepeatedIsReplayed ==
    ~Overlap => \A r, q \in Requests :
        /\ step[r] > 0 /\ step[q] > 0 /\ KeyOf[r] = KeyOf[q]
        /\ answer[r] # "error" /\ answer[q] # "error"
        => r = q

\* An invoice has one success in the ledger, however the requests and their
\* failures follow one another within the 24 hours of the policy.
OneSuccess ==
    Operation = "invoice.reissue" /\ ~Overlap => \A j, k \in Keys :
        /\ ledger[j].status = "success" /\ ledger[k].status = "success"
        /\ SubjectOf[ledger[j].by] = SubjectOf[ledger[k].by]
        => j = k

\* A lead with a customer is never registered again, even when the look-up of its
\* document fails ("Guardar o vinculo e o que impede o segundo cadastro").
CallsUnlinked ==
    Operation = "customer.create" /\ ~Overlap =>
        \A r \in Requests : step[r] = 0 /\ step'[r] = 1 => SubjectOf[r] \notin linked
LinkedIsFinal == [][CallsUnlinked]_vars

\* Requests that come one after another do nothing twice: not with the same key,
\* not to the same invoice, not for a lead that has its customer.
RepeatsAreHarmless == []RepeatedIsReplayed /\ []OneSuccess /\ LinkedIsFinal

\* A subject is written once. Not so in this code: the caller of the first order heard
\* of no result, or the cached snapshot does not show it, and TLC finds the second.
OncePerSubject ==
    \A r, q \in Requests :
        effects[r] > 0 /\ effects[q] > 0 /\ SubjectOf[r] = SubjectOf[q] => r = q
=============================================================================
