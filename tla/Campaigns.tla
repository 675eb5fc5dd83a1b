------------------------------ MODULE Campaigns ------------------------------
(***************************************************************************)
(* Who is contacted today: the collection rule over the open invoices and  *)
(* the notices of a network incident. Each contact is a row of a ledger    *)
(* whose unique index decides duplicates, and a job of the queue under the *)
(* same key.                                                               *)
(*                                                                         *)
(* A collection job is an invoice with a step of a version of the rule; a  *)
(* notice job is a customer (a number: the order of the list) and a kind.  *)
(* Everything happens on one business day, so the date in the keys is left *)
(* out. Requests are pairs of a run and a job, and calls of operators.     *)
(***************************************************************************)
EXTENDS JobQueue

CONSTANTS Runs,          \* POSTs that run the rule or notify an incident
          Due,           \* <<invoice, position of a step>> whose date is today
          Customers,     \* customers of the incident's area, in list order
          MaxNotices,    \* MAX_NOTICES_PER_RUN
          MaxVersions,   \* bound on how often the rule is saved
          Operated       \* jobs the operators' calls are about

ASSUME CampaignAssumption ==
    /\ Customers \subseteq Nat
    /\ MaxNotices \in Nat \ {0}
    /\ MaxVersions \in Nat
    /\ Operated \subseteq Jobs

VARIABLES kind,       \* what this instance is about, never changed
          rule,       \* the versions saved, each with the steps it has so far
          open,       \* the open invoices
          incident,   \* the status of the incident, "none" before it exists
          ledger,     \* rows of collection_dispatches and mass_notice_dispatches
          run

campaignVars == <<kind, rule, open, incident, ledger, run>>
vars == <<queueVars, campaignVars>>

Kinds == {"operators", "collection", "notice"}
Positions == {d[2] : d \in Due}
Invoices == {d[1] : d \in Due}
Versions == 1 .. MaxVersions

CollectionJob(i, v, p) == [kind |-> "collection", invoice |-> i, step |-> <<v, p>>]
NoticeJob(c, k) == [kind |-> k, customer |-> c]
CollectionJobs == {CollectionJob(d[1], v, d[2]) : d \in Due, v \in Versions}
NoticeJobs == {NoticeJob(c, k) : c \in Customers, k \in {"opened", "closed"}}

\* Every contact has its job, and every run its own call for each.
ASSUME ContactsAssumption ==
    /\ CollectionJobs \union NoticeJobs \subseteq Jobs
    /\ Runs \X Jobs \subseteq Requests
    /\ "unsaved" \notin Positions

RunSteps == {"idle", "record", "queue", "wait", "done", "died"}
NewRun == [step |-> "idle", todo |-> {}, batch |-> {}, inserted |-> {},
           asked |-> {}, clean |-> TRUE]

CampaignTypeOK ==
    /\ kind \in Kinds
    /\ rule \in [1 .. MaxVersions -> (SUBSET Positions) \union {{"unsaved"}}]
    /\ open \subseteq Invoices
    /\ incident \in {"none", "investigating", "resolved"}
    /\ ledger \subseteq Jobs
    /\ run \in [Runs -> [step : RunSteps, todo : SUBSET Jobs, batch : SUBSET Jobs,
                         inserted : SUBSET Jobs, asked : SUBSET Jobs, clean : BOOLEAN]]

DispatchTypeOK == QueueTypeOK /\ CampaignTypeOK

CampaignInit ==
    /\ QueueInit
    /\ kind \in Kinds
    /\ rule = [v \in Versions |-> {"unsaved"}]
    /\ open = Invoices
    /\ incident = "none"
    /\ ledger = {}
    /\ run = [r \in Runs |-> NewRun]

-----------------------------------------------------------------------------
(* The rule. A save is two inserts, of the version and of its steps, whose
   ids are new in every version. *)

Saved == {v \in Versions : rule[v] # {"unsaved"}}
Latest == CHOOSE v \in Saved : \A w \in Saved : w <= v

SaveVersion(v) ==
    /\ v = Cardinality(Saved) + 1
    /\ rule' = [rule EXCEPT ![v] = {}]
    /\ UNCHANGED <<kind, open, incident, ledger, run>>

\* An inactive step is never a candidate, and is as one that is not there.
SaveSteps(v) ==
    /\ rule[v] = {}
    /\ \E active \in (SUBSET Positions) \ {{}} : rule' = [rule EXCEPT ![v] = active]
    /\ UNCHANGED <<kind, open, incident, ledger, run>>

\* The ERP receives a payment.
Pay(i) ==
    /\ i \in open
    /\ open' = open \ {i}
    /\ UNCHANGED <<kind, rule, incident, ledger, run>>

CreateIncident ==
    /\ incident = "none"
    /\ incident' = "investigating"
    /\ UNCHANGED <<kind, rule, open, ledger, run>>

CloseIncident ==
    /\ incident # "none"
    /\ incident' = "resolved"
    /\ UNCHANGED <<kind, rule, open, ledger, run>>

-----------------------------------------------------------------------------
(* A run. *)

\* Invoices of customers the ERP did not answer for are missing.
TodayCandidates(answered) ==
    {CollectionJob(d[1], Latest, d[2]) : d \in {x \in Due : /\ x[1] \in open \cap answered
                                                            /\ x[2] \in rule[Latest]}}

StartDispatch(r) ==
    /\ run[r].step = "idle"
    /\ Saved # {}
    /\ \E answered \in SUBSET Invoices :
          LET found == TodayCandidates(answered) IN
          run' = [run EXCEPT ![r] = [NewRun EXCEPT !.step = "record", !.todo = found, !.batch = found]]
    /\ UNCHANGED <<kind, rule, open, incident, ledger>>

FirstNotices(matched) ==
    {c \in matched : Cardinality({b \in matched : b < c}) < MaxNotices}

\* The kind of a notice is not compared with the incident's status.
StartNotice(r) ==
    /\ run[r].step = "idle"
    /\ incident # "none"
    /\ \E matched \in SUBSET Customers, k \in {"opened", "closed"} :
          LET batch == {NoticeJob(c, k) : c \in FirstNotices(matched)} IN
          run' = [run EXCEPT ![r] = [NewRun EXCEPT !.step = "record", !.todo = batch, !.batch = batch]]
    /\ UNCHANGED <<kind, rule, open, incident, ledger>>

\* One insert, with onConflictDoNothing.
Record(r, j) ==
    /\ run[r].step = "record" /\ j \in run[r].todo
    /\ ledger' = ledger \union {j}
    /\ run' = [run EXCEPT ![r].todo = @ \ {j},
                          ![r].inserted = IF j \in ledger THEN @ ELSE @ \union {j}]
    /\ UNCHANGED <<kind, rule, open, incident>>

\* Mutant: a notice too queues only what it inserted itself.
ToQueueInserted(r) == run[r].inserted

\* The rule queues what it inserted, a notice its whole batch.
ToQueue(r) == IF kind = "notice" THEN run[r].batch ELSE run[r].inserted

RecordedAll(r) ==
    /\ run[r].step = "record" /\ run[r].todo = {}
    /\ run' = [run EXCEPT ![r].step = "queue", ![r].todo = ToQueue(r)]
    /\ UNCHANGED <<kind, rule, open, incident, ledger>>

Enqueue(r, j) ==
    /\ run[r].step = "queue" /\ j \in run[r].todo
    /\ Ask(<<r, j>>, "enqueue", j)
    /\ run' = [run EXCEPT ![r].step = "wait", ![r].todo = @ \ {j},
                          ![r].asked = {j}]
    /\ UNCHANGED <<kind, rule, open, incident, ledger>>

AskedIs(r, steps) == \A j \in run[r].asked : request[<<r, j>>].step \in steps

Answered(r) ==
    /\ run[r].step = "wait"
    /\ AskedIs(r, Answers)
    /\ run' = [run EXCEPT ![r].step = "queue", ![r].asked = {}]
    /\ UNCHANGED <<queueVars, kind, rule, open, incident, ledger>>

\* The call fails, or takes more than five seconds: the run goes on with the
\* next job, and the queue may still carry the call out.
EnqueueFails(r) ==
    /\ run[r].step = "wait"
    /\ IF AskedIs(r, {"died"}) THEN UNCHANGED faults ELSE Fault
    /\ run' = [run EXCEPT ![r].step = "queue", ![r].asked = {}, ![r].clean = FALSE]
    /\ UNCHANGED <<job, dead, handler, request, done, redone, lost, raced,
                   kind, rule, open, incident, ledger>>

Ends(r) ==
    /\ run[r].step = "queue" /\ run[r].todo = {}
    /\ run' = [run EXCEPT ![r].step = "done"]
    /\ UNCHANGED <<queueVars, kind, rule, open, incident, ledger>>

RunDies(r) ==
    /\ run[r].step \in {"record", "queue", "wait"}
    /\ Fault
    /\ run' = [run EXCEPT ![r].step = "died"]
    /\ UNCHANGED <<job, dead, handler, request, done, redone, lost, raced,
                   kind, rule, open, incident, ledger>>

-----------------------------------------------------------------------------
Operators ==
    \E r \in Requests, op \in Operations, j \in Operated :
        /\ r \notin Runs \X Jobs
        /\ kind = "operators"
        /\ Ask(r, op, j)
        /\ UNCHANGED campaignVars

Collections ==
    /\ kind = "collection"
    /\ UNCHANGED queueVars
    /\ \/ \E v \in Versions : SaveVersion(v) \/ SaveSteps(v)
       \/ \E i \in Invoices : Pay(i)
       \/ \E r \in Runs : StartDispatch(r)

Notices ==
    /\ kind = "notice"
    /\ UNCHANGED queueVars
    /\ \/ CreateIncident \/ CloseIncident
       \/ \E r \in Runs : StartNotice(r)

RunStep(r) ==
    \/ UNCHANGED queueVars /\ (RecordedAll(r) \/ \E j \in Jobs : Record(r, j))
    \/ \E j \in Jobs : Enqueue(r, j)
    \/ Answered(r) \/ Ends(r)

CampaignNext ==
    \/ Operators \/ Collections \/ Notices
    \/ QueueStep /\ UNCHANGED campaignVars
    \/ \E r \in Runs : RunStep(r) \/ EnqueueFails(r) \/ RunDies(r)

CampaignSpec ==
    /\ CampaignInit
    /\ [][CampaignNext]_vars
    /\ \A j \in Jobs : WF_queueVars(Work(j))

-----------------------------------------------------------------------------
(* The queue never holds a contact the ledger does not know of. *)
QueuedIsRecorded ==
    kind # "operators" => \A j \in Jobs : job[j].state # "none" => j \in ledger

(* A notice run that ended without a failing call leaves all it decided on in
   the queue, also what an earlier run recorded and then died over. *)
NoticesReachQueue ==
    kind = "notice" =>
        \A r \in Runs : run[r].step = "done" /\ run[r].clean =>
            \A j \in run[r].batch : job[j].state # "none"

(* Ledger and queue agree, whichever of the two writes a run died between. *)
ContactsAreTold == QueuedIsRecorded /\ NoticesReachQueue

(* "Zero duplicidade de cobrança": an invoice is contacted once for each
   position of the rule on one day. Not so in this code: a rule saved again has
   new step ids, and TLC finds the second contact of the day. *)
OneContactADay ==
    \A j, k \in ledger \cap CollectionJobs :
        j.invoice = k.invoice /\ j.step[2] = k.step[2] => j = k
=============================================================================
