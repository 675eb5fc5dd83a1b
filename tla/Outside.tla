------------------------------- MODULE Outside --------------------------------
(***************************************************************************)
(* What deals with the ERP and with the language model, in parts that      *)
(* share no state: the queries to the ERP and the reads made of them       *)
(* (Reads), the audit of the new contracts (ContractAudit), the turns of   *)
(* the agent with their tools (Agent), and the ticket the triage fills in  *)
(* (Triage).  A behaviour is one of one of them, and the others wait.      *)
(***************************************************************************)
EXTENDS Reads, ContractAudit, Agent, Triage

CONSTANT Outsiders  \* the parts of which a behaviour takes one

ASSUME OutsidersAssumption == Outsiders \subseteq {"reads", "audit", "agent", "triage"}

VARIABLE outsider   \* the part that runs

outsideVars == <<outsider, readsVars, auditVars, agentVars, triageVars>>

(* What runs starts anywhere it can; what waits, in one place. *)
OutsideInit ==
    /\ outsider \in Outsiders
    /\ ReadsInit
    /\ AuditInit
    /\ AgentInit
    /\ TriageInit
    /\ outsider # "audit" => erp.of = (CHOOSE of \in [Customers -> Registrations] : TRUE) /\ cursor = Null
    /\ outsider # "agent" => caller = (CHOOSE c \in Callers : TRUE) /\ profile = "default"

ReadsRun == outsider = "reads" /\ ReadsNext /\ UNCHANGED <<outsider, auditVars, agentVars, triageVars>>

AuditRuns == outsider = "audit" /\ AuditNext /\ UNCHANGED <<outsider, readsVars, agentVars, triageVars>>

AgentRuns == outsider = "agent" /\ AgentNext /\ UNCHANGED <<outsider, readsVars, auditVars, triageVars>>

TriageRuns == outsider = "triage" /\ TriageNext /\ UNCHANGED <<outsider, readsVars, auditVars, agentVars>>

OutsideNext == ReadsRun \/ AuditRuns \/ AgentRuns \/ TriageRuns

OutsideSpec == OutsideInit /\ [][OutsideNext]_outsideVars

-----------------------------------------------------------------------------
(* The type invariants of the parts; a part that waits is as its Init left it. *)
OutsideTypeOK ==
    CASE outsider = "reads" -> ReadsTypeOK
      [] outsider = "audit" -> AuditTypeOK
      [] outsider = "agent" -> AgentTypeOK
      [] outsider = "triage" -> TriageTypeOK
=============================================================================
