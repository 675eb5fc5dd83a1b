------------------------------- MODULE Agent -------------------------------
(***************************************************************************)
(* The agent pipeline over a whole conversation: what a message means by   *)
(* itself and after what was said before, the tools of the intention with  *)
(* their receipts, the decision to hand off, the reply and the two texts   *)
(* that may take its place. Three callers: the training screen (/api/agent *)
(* with the fixed context), a trusted homologation with a profile of       *)
(* failures, and the WhatsApp channel, whose intention comes from the      *)
(* classifier and whose text is the approved reply of the intention.       *)
(***************************************************************************)
EXTENDS Integers, FiniteSets, Sequences, SequencesExt

CONSTANTS Messages,        \* what a customer writes
          Reading,         \* what the rules see in each message
          Guesses,         \* what the language model may answer: <<intent, confidence>>
          Profiles,        \* the homologation profiles, "default" among them
          Callers,         \* of {"training", "homologation", "whatsapp"}
          MaxHistory,      \* rows the caller keeps of a conversation (40 in the code)
          MaxRows          \* bound on the rows of a conversation

\* What the rules see in a message: its own intention and confidence (in percent);
\* whether it opens with a word that refers back; "cadê" or "não recebi"; PIX; an
\* insult; work at home; what was tried; its first words, none for a short one.
ASSUME AgentAssumption ==
    /\ \A m \in Messages : DOMAIN Reading[m] =
          {"intent", "confidence", "refers", "where", "pix", "angry", "home", "tried", "opening"}
    /\ \A m \in Messages : Reading[m].tried \in {"nothing", "restart", "steps"}
    /\ "default" \in Profiles /\ MaxHistory \in Nat \ {0} /\ MaxRows \in Nat

VARIABLES talk,            \* the conversation, oldest first; suggestions are not in it
          profile,         \* simulationProfile of the context
          caller,          \* who runs the pipeline
          turn             \* the last result

agentVars == <<talk, profile, caller, turn>>

Customer(m) == [role |-> "customer", text |-> m]
Reply(says, kindly) == [says |-> says, kindly |-> kindly]
Agent(reply) == [role |-> "agent", text |-> reply]
NoTurn == [heard |-> "nothing", intent |-> "nothing", tools |-> {}, reason |-> "none",
           reply |-> Reply("nothing", FALSE), status |-> "none"]

-----------------------------------------------------------------------------
(* What the customer means.                                                *)

General == "general_information"
Says(history, role) == SelectSeq(history, LAMBDA row : row.role = role)
Means(intent, confidence) == [intent |-> intent, confidence |-> confidence]
AnalyzeIntent(m) == Means(Reading[m].intent, Reading[m].confidence)

\* The last thing the customer said that had an intention of its own.
PreviousIntent(history) ==
    LET told == SelectSeq(Says(history, "customer"),
                          LAMBDA row : Reading[row.text].intent # General) IN
    IF told = <<>> THEN {} ELSE {AnalyzeIntent(Last(told).text)}

MentionsPix(row) == IF row.role = "customer" THEN Reading[row.text].pix
                    ELSE row.text.says \in {"pix", "financial_pix"}

\* "sim", "não", "não funcionou", "já reiniciei" take the last intention, whatever
\* else the message says; "cadê", "essa" only when it says nothing else.
ResolveIntent(m, history, alone) ==
    LET read == Reading[m]
        refers == \/ read.refers = "strong"
                  \/ read.refers = "weak" /\ alone.intent = General
        known == IF refers THEN PreviousIntent(history) ELSE {}
    IN  IF read.where /\ \E i \in DOMAIN history : MentionsPix(history[i])
        THEN Means("financial_pix", 98)
        ELSE IF known # {} THEN Means((CHOOSE k \in known : TRUE).intent, 90) ELSE alone

\* classifyIntent never throws: without a model, or with an answer that is late,
\* refused or unreadable, the rules decide.
Classify(m) == {AnalyzeIntent(m)} \union {Means(g[1], g[2]) : g \in Guesses}

-----------------------------------------------------------------------------
(* The tools: receipts of a completed simulation or of a failure.          *)

Receipt(tool, outcome) == [tool |-> tool, outcome |-> outcome]
Simulated(tools) == {Receipt(t, "simulated") : t \in tools}
IsFailed(receipt) == receipt.outcome \notin {"success", "simulated"}
Failures(tools) == {r.outcome : r \in {x \in tools : IsFailed(x)}}
Completed(tools) == {r.tool : r \in {x \in tools : ~IsFailed(x)}}

FailureOf == [tool_unavailable |-> "unavailable", tool_timeout |-> "timeout", tool_empty |-> "invalid",
              tool_error |-> "error", tool_contradictory |-> "partial",
              diagnostic_inconclusive |-> "partial"]
FailsFor(p, ps) == p \in DOMAIN FailureOf /\ p \in ps
FromProfile == DOMAIN FailureOf \ {"diagnostic_inconclusive"}

Diagnose(p) ==
    CASE FailsFor(p, DOMAIN FailureOf) -> {Receipt("network.diagnostics", FailureOf[p])}
      [] p = "regional_reports_unconfirmed" ->
            {Receipt("network.regional_reports", "partial")} \union Simulated({"network.regional_incident"})
      [] p = "regional_incident" -> Simulated({"network.regional_incident"})
      [] p = "onu_offline" -> Simulated({"network.onu_status", "network.regional_incident"})
      [] p = "optical_critical" -> Simulated({"network.onu_status", "network.optical_power"})
      [] OTHER -> Simulated({"network.onu_status", "network.pppoe_status",
                             "network.optical_power", "network.regional_incident"})

BillingTools(p, artefact) ==
    CASE p = "multiple_invoices" -> Simulated({"billing.open_invoices"})
      [] p = "tool_unavailable" -> {Receipt("billing.open_invoice", "unavailable")}
      [] OTHER -> Simulated({"billing.open_invoice", artefact})

HandsOverByItself == {"human_handoff", "complaint", "cancellation_risk"}
LooksUp(tools) == Simulated({"customer.lookup"}) \union tools

ExecuteAgentTools(intent, m, p) ==
    IF p = "multiple_contracts" /\ intent \notin HandsOverByItself \union {"unauthorized_request"}
    THEN LooksUp({})
    ELSE CASE intent = "financial_pix" -> LooksUp(BillingTools(p, "billing.generate_pix"))
           [] intent = "financial_invoice" -> LooksUp(BillingTools(p, "billing.issue_copy"))
           [] intent = "financial_payment" -> LooksUp(Simulated({"billing.payment_status"}))
           [] intent = "financial_unlock" -> LooksUp({Receipt("billing.unlock", "forbidden")})
           [] intent = "technical_no_connection" ->
                 LooksUp(Diagnose(p) \union IF Reading[m].tried = "nothing" THEN {}
                                            ELSE Simulated({"support.open_ticket"}))
           [] intent = "technical_slow" ->
                 LooksUp(IF FailsFor(p, FromProfile) THEN {Receipt("network.diagnostics", FailureOf[p])}
                         ELSE Simulated({"network.onu_status", "network.optical_power", "network.speed_diagnostics"}))
           [] intent = "technical_wifi" -> LooksUp(Simulated({"network.cpe_status", "network.wifi_diagnostics"}))
           [] intent = "technical_restart" -> LooksUp({Receipt("network.restart_cpe", "forbidden")})
           [] intent = "technical_ticket" ->
                 LooksUp({Receipt("support.prepare_ticket",
                                  CASE p = "ticket_failure" -> "error"
                                    [] p = "action_disabled" -> "requires_human"
                                    [] OTHER -> "simulated")})
           [] intent = "technical_visit" ->
                 LooksUp(IF p = "schedule_unavailable" THEN {Receipt("support.available_slots", "not_found")}
                         ELSE Simulated({"support.available_slots"})
                              \union {Receipt("support.prepare_visit", "requires_human")})
           [] intent \in HandsOverByItself -> Simulated({"workflow.prepare_handoff"})
           [] intent = "unauthorized_request" -> {Receipt("security.block_request", "forbidden")}
           [] intent = "financial_discount_request" -> {Receipt("billing.discount_request", "forbidden")}
           [] OTHER -> {Receipt("knowledge.search", "success")}

-----------------------------------------------------------------------------
(* Repetition, handoff and the reply.                                      *)

\* Two messages are alike when their first words are: all short ones are.
AlikeMessages(m, n) == m = n \/ Reading[m].opening = Reading[n].opening
\* The sentence of empathy is the whole opening of the replies that have it.
LongReplies == {"already restarted", "session offline"}
AlikeReplies(a, b) ==
    \/ a = b
    \/ a.kindly /\ b.kindly
    \/ a.says = b.says /\ a.says \in LongReplies
LastThree(s) == SubSeq(s, Len(s) - 2, Len(s))
Recent(s) == ToSet(IF Len(s) <= 3 THEN s ELSE LastThree(s))

CustomerRepeated(m, history) ==
    \E row \in Recent(Says(history, "customer")) : AlikeMessages(m, row.text)
RepeatedWithoutResolution(m, history) ==
    CustomerRepeated(m, history) /\ Says(history, "agent") # <<>>

\* Mutant: a failing tool is no reason.
DecideHandoffByWords(m, meant, tools, repeated) ==
    CASE meant.intent = "human_handoff" -> "customer_requested_human"
      [] meant.intent # "human_handoff" /\ repeated -> "repetition_without_resolution"
      [] OTHER -> "none"

DecideHandoff(m, meant, tools, repeated) ==
    CASE meant.intent = "human_handoff" -> "customer_requested_human"
      [] meant.intent = "complaint" -> "formal_complaint"
      [] meant.intent \in {"cancellation_risk", "unauthorized_request"} -> meant.intent
      [] meant.intent \in {"financial_unlock", "financial_discount_request"} -> "sensitive_action"
      [] OTHER -> CASE meant.confidence < 60 -> "low_intent_confidence"
                    [] meant.confidence >= 60 /\ repeated -> "repetition_without_resolution"
                    [] meant.confidence >= 60 /\ ~repeated /\ Reading[m].angry -> "customer_irritated"
                    [] OTHER -> CASE Failures(tools) = {} -> "none"
                                  [] "forbidden" \in Failures(tools) -> "action_forbidden"
                                  [] "partial" \in Failures(tools) -> "contradictory_or_partial_data"
                                  [] OTHER -> "required_tool_failed"

\* What the reply says when no tool failed; each says only what is its own.
ByIntent(intent, m, p) ==
    CASE intent = "financial_pix" -> "pix"
      [] intent = "financial_invoice" -> "copy"
      [] intent = "financial_payment" -> IF p = "payment_recognized" THEN "paid" ELSE "not paid yet"
      [] intent = "technical_no_connection" ->
            (CASE Reading[m].tried = "restart" -> "already restarted"
               [] Reading[m].tried = "steps" -> "steps did not help"
               [] Reading[m].tried = "nothing" ->
                     IF p \in {"regional_incident", "onu_offline", "optical_critical"} THEN p
                     ELSE "session offline")
      [] intent = "technical_slow" -> IF p = "cable_slow" THEN "slow on cable" ELSE "slow on wifi"
      [] intent = "technical_wifi" -> "wifi"
      [] intent = "technical_ticket" -> "ticket"
      [] intent \in HandsOverByItself -> "protocol"
      [] intent = "out_of_scope" -> "scope"
      [] OTHER -> "which contract"

ResponseFor(intent, m, p, tools) ==
    LET kindly == Reading[m].home /\ intent \in {"technical_no_connection", "technical_slow"}
    IN  IF Failures(tools) # {} THEN Reply(CHOOSE o \in Failures(tools) : TRUE, FALSE)
        ELSE IF p \in {"multiple_contracts", "multiple_invoices"} THEN Reply(p, FALSE)
        ELSE Reply(ByIntent(intent, m, p), kindly)

Regenerated == Reply("did not help, context kept for a person", FALSE)
SafeReply == Reply("not confirmed", FALSE)
\* Of the replies to a failure only this one says that nothing real was done.
Discloses(reply) == reply.says \notin {"timeout", "unavailable", "partial", "forbidden", "not_found",
                                       "invalid", "error", "which contract", "scope"}
\* A receipt that did not fail is evidence. None of the fixed replies says that anything
\* was done ("gerei", "foi enviado"): for one that did, the check would ask for more.
Evidence(tools) == {r \in tools : ~IsFailed(r)}
ClaimsSuccess == {}
HasUnsafeSuccessClaim(reply, tools) ==
    /\ reply.says \in ClaimsSuccess
    /\ \/ Failures(tools) # {} \/ Evidence(tools) = {}
       \/ (\A r \in Evidence(tools) : r.outcome = "simulated") /\ ~Discloses(reply)
SimulationIsDisclosed(reply, tools) == (\A r \in tools : r.outcome # "simulated") \/ Discloses(reply)

\* A reply too like one of the last three takes the fixed text, which is not looked at
\* again; one that claims too much or hides a simulation takes the safe text.
Final(reply, recent, reason, tools) ==
    LET fresh == IF reason = "none" /\ \E row \in recent : AlikeReplies(reply, row.text)
                 THEN Regenerated ELSE reply
    IN  IF HasUnsafeSuccessClaim(fresh, tools) \/ ~SimulationIsDisclosed(fresh, tools)
        THEN SafeReply ELSE fresh

Asks(reply) == reply.says \in {"session offline", "slow on wifi", "wifi", "multiple_contracts", "multiple_invoices"}
DetermineFinalStatus(intent, reason, tools, reply) ==
    CASE intent = "unauthorized_request" -> "blocked"
      [] intent # "unauthorized_request" /\ reason # "none" -> "handoff"
      [] OTHER -> IF Failures(tools) # {} THEN "failed"
                  ELSE IF Asks(reply) THEN "waiting_customer"
                  ELSE IF \E r \in tools : r.outcome = "simulated" THEN "simulated" ELSE "resolved"

RunAgentPipeline(m, history, p, alone) ==
    LET meant == ResolveIntent(m, history, alone)
        tools == ExecuteAgentTools(meant.intent, m, p)
        reason == DecideHandoff(m, meant, tools, RepeatedWithoutResolution(m, history))
        reply == Final(ResponseFor(meant.intent, m, p, tools), Recent(Says(history, "agent")), reason, tools)
    IN  [heard |-> alone.intent, intent |-> meant.intent, tools |-> tools, reason |-> reason,
         reply |-> reply, status |-> DetermineFinalStatus(meant.intent, reason, tools, reply)]

-----------------------------------------------------------------------------
Keeps(rows) == IF Len(rows) <= MaxHistory THEN rows ELSE SubSeq(rows, Len(rows) - MaxHistory + 1, Len(rows))

\* The training screen sends the message a second time, as the last row of the history.
TrainingTurn(m) ==
    LET updated == Append(talk, Customer(m))
        result == RunAgentPipeline(m, Keeps(updated), "default", AnalyzeIntent(m))
    IN  /\ caller = "training" /\ Len(updated) < MaxRows
        /\ turn' = result
        /\ talk' = Append(updated, Agent(result.reply))
        /\ UNCHANGED <<profile, caller>>

\* The call failed: the screen says so in the name of the agent, and keeps it.
TrainingFails(m) ==
    /\ caller = "training" /\ Len(talk) + 1 < MaxRows
    /\ talk' = talk \o <<Customer(m), Agent(Reply("tools failed", FALSE))>>
    /\ UNCHANGED <<profile, caller, turn>>

NewConversation ==
    /\ caller = "training" /\ talk # <<>>
    /\ talk' = <<>> /\ turn' = NoTurn
    /\ UNCHANGED <<profile, caller>>

\* The homologation gives the conversation so far and a profile, and takes the text.
HomologationTurn(m) ==
    LET result == RunAgentPipeline(m, talk, profile, AnalyzeIntent(m))
    IN  /\ caller = "homologation" /\ Len(talk) + 1 < MaxRows
        /\ turn' = result
        /\ talk' = talk \o <<Customer(m), Agent(result.reply)>>
        /\ UNCHANGED <<profile, caller>>

\* The channel sends the approved reply of the intention, never the pipeline's text; when
\* nothing leaves, the row is a suggestion and later turns do not see it.
WhatsappTurn(m, alone, sent) ==
    LET result == RunAgentPipeline(m, Keeps(talk), "default", alone)
        row == IF sent THEN <<Agent(Reply(result.intent, FALSE))>> ELSE <<>>
    IN  /\ caller = "whatsapp" /\ Len(talk) + 1 < MaxRows
        /\ alone \in Classify(m)
        /\ turn' = result
        /\ talk' = Append(talk, Customer(m)) \o row
        /\ UNCHANGED <<profile, caller>>

AgentInit ==
    /\ caller \in Callers
    /\ profile \in IF caller = "homologation" THEN Profiles ELSE {"default"}
    /\ talk = <<>> /\ turn = NoTurn

AgentNext ==
    \/ \E m \in Messages :
          \/ TrainingTurn(m) \/ TrainingFails(m) \/ HomologationTurn(m)
          \/ \E alone \in Classify(m), sent \in BOOLEAN : WhatsappTurn(m, alone, sent)
    \/ NewConversation

AgentSpec == AgentInit /\ [][AgentNext]_agentVars

-----------------------------------------------------------------------------
AgentTypeOK ==
    /\ \A i \in DOMAIN talk : /\ talk[i].role \in {"customer", "agent"}
                             /\ talk[i].role = "customer" => talk[i].text \in Messages
    /\ Len(talk) <= MaxRows + 1
    /\ profile \in Profiles /\ caller \in Callers
    /\ turn.status \in {"none", "blocked", "handoff", "waiting_customer", "simulated", "resolved"}

ArtefactsOf(says) ==
    CASE says = "pix" -> {"billing.generate_pix"}
      [] says = "copy" -> {"billing.issue_copy"}
      [] says = "ticket" -> {"support.prepare_ticket"}
      [] says = "protocol" -> {"workflow.prepare_handoff"}
      [] says \in {"already restarted", "steps did not help"} -> {"support.open_ticket"}
      [] OTHER -> {}

\* A reply that names an artefact has the receipt of the tool that prepared it, in that
\* same turn, and a turn in which a tool failed names none and is handed to a person,
\* whatever the conversation made of the message (lib/agent/evidence.ts, handoff.ts).
RepliesHaveReceipts ==
    /\ ArtefactsOf(turn.reply.says) \subseteq Completed(turn.tools)
    /\ Failures(turn.tools) # {} =>
          /\ turn.reason # "none"
          /\ turn.reply.says \in Failures(turn.tools) \union {SafeReply.says}

\* A customer who asks for a person, in words the rules or the model read as that, is
\* handed over in that turn (docs/issue-3-agent-pipeline-homologation-report.md:109).
\* Not so in this code, and TLC finds it: a word that refers back replaces the request
\* by the intention of an earlier message.
AskedForAPersonGetsOne == turn.heard = "human_handoff" => turn.reason # "none"

\* The reason "repetition" is given only to a customer who wrote the like before.
\* Not so in this code: components/modules/training.tsx:51 sends the message inside the
\* history, and TLC finds a first message that repeats itself.
RepetitionIsTheCustomers ==
    turn.reason = "repetition_without_resolution" =>
        LET told == Says(talk, "customer") IN
        \E i \in 1..(Len(told) - 1) : AlikeMessages(told[i].text, Last(told).text)
=============================================================================
