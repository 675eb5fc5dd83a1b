-------------------------------- MODULE Triage --------------------------------
(***************************************************************************)
(* The ticket of a conversation as the messages fill it in: who the        *)
(* customer is, what it is about (said by the classifier or picked from    *)
(* the menu), the sector, and the diagnosis of the connection that is made *)
(* of the ERP's data and of the registered outages.                        *)
(*                                                                         *)
(* A message reads the ticket once, at its start, and every decision about *)
(* the ticket is made by what it read then: the hooks of triageHooks close *)
(* over that row.  Its writes are UPDATEs by id, of the fields they name,  *)
(* each a step of its own; a message may come while another waits for the  *)
(* ERP.  (The reply itself, its question and the silence of 24 hours are   *)
(* MetaInbound; the capture of leads, with what it asks the ERP, is Leads.)*)
(***************************************************************************)
EXTENDS Integers, Sequences, FiniteSets

CONSTANTS
    Turns,        \* messages handled at a time
    MaxTurns,     \* bound: messages
    MaxTickets,   \* bound: tickets of the conversation
    Understandings,  \* what the classifier may answer: <<intent, confidence in percent>>
    Numbers,      \* numbers a customer may write
    Situations,   \* what the ERP may have of a customer: logins, contracts, open service orders
    OutageLists   \* the outages that may be on record, newest first

ASSUME TriageAssumption ==
    /\ {MaxTurns, MaxTickets} \subseteq Nat /\ MaxTickets > 0
    /\ Numbers \subseteq Nat /\ \A g \in Understandings : g[2] \in 0..100
    /\ \A s \in Situations :
          /\ s.contracts \in Seq([id : Nat, status : STRING, internet : STRING, unlocked : BOOLEAN])
          /\ s.logins \in Seq([contract : Nat, online : {"yes", "no", "unsaid"}, neighborhood : STRING])

VARIABLES tickets,   \* the rows of support_tickets, in the order of their seq
          said,      \* messages begun so far
          turns      \* the local variables of each message

triageVars == <<tickets, said, turns>>

-----------------------------------------------------------------------------
(* The rules (triage-shared.ts).                                           *)

Vague == "general_information"
CLARIFY_BELOW == 60
TRIAGE_MENU == <<"technical_no_connection", "technical_slow", "financial_invoice", "financial_unlock",
                 "financial_payment", "technical_visit", "sales_inquiry", "cancellation_risk", "human_handoff">>
DIAGNOSABLE_INTENTS == {"technical_no_connection", "technical_slow", "technical_wifi", "technical_restart"}
Technical == DIAGNOSABLE_INTENTS \cup {"technical_visit", "technical_ticket"}
Financial == {"financial_invoice", "financial_unlock", "financial_payment", "financial_pix"}

QueueForIntent(intent) ==
    CASE intent \in Technical -> "tecnico"
      [] intent \in Financial -> "financeiro"
      [] intent \in {"sales_inquiry", "cancellation_risk"} -> "comercial"
      [] OTHER -> "atendimento"

\* A number of the menu; another number is a text like any other.
MenuChoice(number) == IF number \in DOMAIN TRIAGE_MENU THEN {TRIAGE_MENU[number]} ELSE {}

Confident(entry) == entry.source = "menu" \/ (entry.confidence >= CLARIFY_BELOW /\ entry.intent # Vague)

-----------------------------------------------------------------------------
(* diagnoseConnection (connection-diagnosis-shared.ts).                    *)

NoDiagnosis == [verdict |-> "none", next |-> "none", trustUnlock |-> FALSE]
FirstOf(s, default) == IF s = <<>> THEN default ELSE Head(s)
FirstAmong(s, places, default) ==   \* find, at the places where its test holds
    IF places = {} THEN default ELSE s[CHOOSE i \in places : \A j \in places : i <= j]
NoContract == [id |-> 0, status |-> "none", internet |-> "none", unlocked |-> FALSE]
NoLogin == [contract |-> 0, online |-> "unsaid", neighborhood |-> "unsaid"]
BLOCKED == {"CM", "CA", "FA"}
DEBT_BLOCK == {"CA", "FA"}

TheContract(data) ==
    FirstAmong(data.contracts, {i \in DOMAIN data.contracts : data.contracts[i].status = "A"},
               FirstOf(data.contracts, NoContract))
TheLogin(data) ==
    FirstAmong(data.logins, {i \in DOMAIN data.logins : /\ data.contracts # <<>>
                                                       /\ data.logins[i].contract = TheContract(data).id},
               FirstOf(data.logins, NoLogin))

\* The outages not resolved; the neighborhood is compared, the city is not.
Running(list) == SelectSeq(list, LAMBDA i : i.status # "resolved")
HasOutage(data, running) ==
    /\ TheLogin(data).neighborhood # "unsaid"
    /\ \E i \in DOMAIN running : running[i].neighborhood = TheLogin(data).neighborhood

Eligible(contract) == contract.internet \in DEBT_BLOCK /\ ~contract.unlocked

DiagnoseConnection(data, running) ==
    LET contract == TheContract(data)
        login == TheLogin(data)
        verdict == CASE contract.internet \in BLOCKED -> "blocked"
                     [] contract.internet \notin BLOCKED /\ login.online = "no" -> "offline"
                     [] contract.internet \notin BLOCKED /\ login.online = "yes" -> "online"
                     [] OTHER -> "unknown"
    IN  [verdict |-> verdict, trustUnlock |-> Eligible(contract),
         next |-> CASE verdict = "blocked" -> IF Eligible(contract) THEN "offer the unlock"
                                              ELSE IF contract.internet = "CM" THEN "ask who blocked"
                                              ELSE "send to billing"
                    [] verdict = "offline" -> IF HasOutage(data, running) THEN "tell of the outage"
                                              ELSE IF data.orders # <<>> THEN "follow the order"
                                              ELSE "open an order"
                    [] verdict = "online" -> IF data.orders # <<>> THEN "follow the order" ELSE "check the wifi"
                    [] OTHER -> "look into it"]

-----------------------------------------------------------------------------
NewTicket == [open |-> TRUE, identification |-> "pending", intent |-> "none", source |-> "none",
              confidence |-> 0, stage |-> "new", diagnosis |-> NoDiagnosis]
\* What a message keeps of the row it read, and what it found out.
SeenOf(row) == [identification |-> row.identification, stage |-> row.stage,
                about |-> row.intent # "none", diagnosed |-> row.diagnosis # NoDiagnosis]
NothingFound == [data |-> [logins |-> <<>>, contracts |-> <<>>, orders |-> <<>>], list |-> <<>>]
NewTurn == [step |-> "idle", of |-> 0, seen |-> SeenOf(NewTicket), intent |-> "none", source |-> "none",
            confidence |-> 0, asks |-> FALSE, delivered |-> FALSE, found |-> NothingFound]

IntentSources == {"none", "menu", "model"}
TriageTypeOK ==
    /\ \A i \in DOMAIN tickets :
          /\ tickets[i].identification \in {"pending", "identified", "not_found", "unavailable"}
          /\ tickets[i].stage \in {"new", "clarifying", "routed"} /\ tickets[i].source \in IntentSources
          /\ tickets[i].diagnosis.verdict \in {"none", "blocked", "offline", "online", "unknown"}
    /\ Len(tickets) <= MaxTickets /\ said \in 0..MaxTurns
    /\ \A t \in Turns : turns[t].of \in 0..Len(tickets) /\ turns[t].source \in IntentSources

TriageInit == tickets = <<>> /\ said = 0 /\ turns = [t \in Turns |-> NewTurn]

AtTurn(t, step) == turns[t].step = step
Goes(t, change) == turns' = [turns EXCEPT ![t] = change]
GoesTo(t, step) == Goes(t, [turns[t] EXCEPT !.step = step])
\* The 200 of the webhook: whoever handled the message is free for another.
Answers(t) == Goes(t, NewTurn)
\* The UPDATE of a message's ticket, by its id; or it fails, and the failure is swallowed.
Updates(t, row) == tickets' \in {tickets, [tickets EXCEPT ![turns[t].of] = row]}
Row(t) == tickets[turns[t].of]

\* openOrContinueTicket: the open ticket, or a new one.
StartTriage(t) ==
    /\ AtTurn(t, "idle") /\ said < MaxTurns
    /\ LET continues == tickets # <<>> /\ tickets[Len(tickets)].open IN
       /\ continues \/ Len(tickets) < MaxTickets
       /\ tickets' = IF continues THEN tickets ELSE Append(tickets, NewTicket)
       /\ LET row == tickets'[Len(tickets')] IN
          Goes(t, [NewTurn EXCEPT !.of = Len(tickets'), !.seen = SeenOf(row),
                   !.step = IF row.identification \in {"identified", "not_found"} THEN "hear" ELSE "lookup"])
    /\ said' = said + 1

\* identifyTicketCustomer: the search, then the UPDATE; the message goes by its own answer.
IdentifyTicketCustomer(t, answer) ==
    /\ AtTurn(t, "lookup")
    /\ Goes(t, [turns[t] EXCEPT !.step = "identify", !.seen.identification = answer])
    /\ UNCHANGED <<tickets, said>>

SaveIdentification(t) ==
    /\ AtTurn(t, "identify")
    /\ Updates(t, [Row(t) EXCEPT !.identification = turns[t].seen.identification])
    /\ GoesTo(t, "hear")
    /\ UNCHANGED said

\* What the message is about: a choice of the menu, when the ticket it read was waiting for
\* one, or the classifier's word. A vague one is answered with the question, once, and only
\* when the automatic replies are on.
Chosen(t, number) == IF turns[t].seen.stage = "clarifying" THEN MenuChoice(number) ELSE {}

HearChoice(t, number) ==
    /\ AtTurn(t, "hear")
    /\ \E intent \in Chosen(t, number) :
          Goes(t, [turns[t] EXCEPT !.step = "record", !.intent = intent, !.source = "menu", !.confidence = 100])
    /\ UNCHANGED <<tickets, said>>

IsVague(guess) == guess[2] < CLARIFY_BELOW \/ guess[1] = Vague

HearWords(t, number, guess, auto, delivered) ==
    /\ AtTurn(t, "hear") /\ Chosen(t, number) = {}
    /\ LET asks == auto /\ turns[t].seen.stage = "new" /\ IsVague(guess) IN
       /\ delivered => asks   \* whether Meta took the question; of a reply nobody asks
       /\ Goes(t, [turns[t] EXCEPT !.step = "record", !.intent = guess[1], !.source = "model",
                                   !.confidence = guess[2], !.asks = asks, !.delivered = delivered])
    /\ UNCHANGED <<tickets, said>>

\* recordTriage. Mutant: a subject that is known is written over by any other.
RecordTriageAlways(t) ==
    /\ AtTurn(t, "record")
    /\ Updates(t, [Row(t) EXCEPT !.intent = turns[t].intent, !.source = turns[t].source,
                                 !.confidence = turns[t].confidence,
                                 !.stage = IF turns[t].asks THEN "clarifying" ELSE "routed"])
    /\ IF turns[t].asks THEN Answers(t) ELSE GoesTo(t, "diagnose")
    /\ UNCHANGED said

StageAfter(t) ==
    IF turns[t].asks THEN IF turns[t].delivered THEN "clarifying" ELSE Row(t).stage
    ELSE IF Confident(turns[t]) \/ turns[t].seen.stage = "clarifying" THEN "routed" ELSE Row(t).stage

RecordTriage(t) ==
    /\ AtTurn(t, "record")
    /\ LET about == IF Confident(turns[t]) \/ ~turns[t].seen.about THEN turns[t] ELSE Row(t) IN
       Updates(t, [Row(t) EXCEPT !.intent = about.intent, !.source = about.source,
                                 !.confidence = about.confidence, !.stage = StageAfter(t)])
    /\ IF turns[t].asks THEN Answers(t) ELSE GoesTo(t, "diagnose")
    /\ UNCHANGED said

\* diagnoseTicket: once per ticket, for a technical subject, of a customer that is known.
Diagnosable(t) ==
    /\ ~turns[t].seen.diagnosed
    /\ turns[t].intent \in DIAGNOSABLE_INTENTS
    /\ turns[t].seen.identification = "identified"

DiagnoseTicket(t) ==
    /\ AtTurn(t, "diagnose")
    /\ IF Diagnosable(t) THEN GoesTo(t, "asked") ELSE Answers(t)
    /\ UNCHANGED <<tickets, said>>

\* ixcDiagnose: the ERP's data, whatever they are by then, and the running outages, none
\* when the list does not load.
ReadSituation(t, data, outages) ==
    /\ AtTurn(t, "asked")
    /\ \E list \in {Running(outages), <<>>} :
          Goes(t, [turns[t] EXCEPT !.step = "keep", !.found = [data |-> data, list |-> list]])
    /\ UNCHANGED <<tickets, said>>

\* The ERP fails, or the budget of time is over and what still comes is not looked at.
DiagnosisIsLate(t) ==
    /\ AtTurn(t, "asked")
    /\ Answers(t)
    /\ UNCHANGED <<tickets, said>>

KeepDiagnosis(t) ==
    /\ AtTurn(t, "keep")
    /\ Updates(t, [Row(t) EXCEPT !.diagnosis = DiagnoseConnection(turns[t].found.data, turns[t].found.list)])
    /\ Answers(t)
    /\ UNCHANGED said

\* closeOpenTicket, when somebody resolves the conversation.
TicketCloses ==
    /\ tickets # <<>> /\ tickets[Len(tickets)].open
    /\ tickets' = [tickets EXCEPT ![Len(tickets)].open = FALSE]
    /\ UNCHANGED <<said, turns>>

TriageNext ==
    \/ \E t \in Turns :
          \/ StartTriage(t) \/ SaveIdentification(t) \/ RecordTriage(t) \/ DiagnoseTicket(t)
          \/ DiagnosisIsLate(t) \/ KeepDiagnosis(t)
          \/ \E answer \in {"identified", "not_found", "unavailable"} : IdentifyTicketCustomer(t, answer)
          \/ \E number \in Numbers :
                \/ HearChoice(t, number)
                \/ \E guess \in Understandings, auto, delivered \in BOOLEAN :
                      HearWords(t, number, guess, auto, delivered)
          \/ \E data \in Situations, outages \in OutageLists : ReadSituation(t, data, outages)
    \/ TicketCloses

TriageSpec == TriageInit /\ [][TriageNext]_triageVars

-----------------------------------------------------------------------------
(* "O 'ok, obrigado' do fim da conversa nao pode mudar o setor de quem pediu
   segunda via": a sector somebody was sure of is left only for another one that
   somebody is sure of, or through a message that had read the ticket before it
   was about anything. *)
KeepsSector ==
    \A i \in DOMAIN tickets :
        Confident(tickets[i]) /\ QueueForIntent(tickets'[i].intent) # QueueForIntent(tickets[i].intent) =>
            \/ Confident(tickets'[i])
            \/ \E t \in Turns : AtTurn(t, "record") /\ turns[t].of = i /\ ~turns[t].seen.about

(* "Uma vez por atendimento": a diagnosis that was kept is replaced only by a
   message that had read the ticket before there was one. *)
KeepsDiagnosis ==
    \A i \in DOMAIN tickets :
        tickets[i].diagnosis # NoDiagnosis /\ tickets'[i].diagnosis # tickets[i].diagnosis =>
            \E t \in Turns : /\ AtTurn(t, "keep") /\ turns[t].of = i
                             /\ ~turns[t].seen.diagnosed

TicketsKeepWhatTheyKnow == [][KeepsSector /\ KeepsDiagnosis]_triageVars

(* What the attendant is told to do fits the facts it was read from: an order is
   proposed only where none is open, for a login that is down, with no running
   outage in its neighborhood, of a contract whose line is not blocked, an ended
   one only if all are; only a contract without a login is answered by another's. *)
Judged(data, l) ==
    \/ data.contracts = <<>>
    \/ \E c \in DOMAIN data.contracts :
          /\ data.contracts[c].internet \notin BLOCKED
          /\ data.contracts[c].status = "A" \/ \A d \in DOMAIN data.contracts : data.contracts[d].status # "A"
          /\ \/ data.logins[l].contract = data.contracts[c].id
             \/ \A m \in DOMAIN data.logins : data.logins[m].contract # data.contracts[c].id

AdviceFits ==
    \A t \in Turns :
        LET data == turns[t].found.data
            list == turns[t].found.list
        IN  DiagnoseConnection(data, list).next = "open an order" =>
                /\ data.orders = <<>>
                /\ \E l \in DOMAIN data.logins :
                      /\ data.logins[l].online = "no" /\ Judged(data, l)
                      /\ data.logins[l].neighborhood = "unsaid"
                           \/ \A i \in DOMAIN list : list[i].neighborhood # data.logins[l].neighborhood

(* A ticket can be relied on: it keeps what it knows, and its advice fits. *)
TicketsAreReliable == TicketsKeepWhatTheyKnow /\ []AdviceFits
=============================================================================
