----------------------------- MODULE MetaInbound ------------------------------
(***************************************************************************)
(* One WhatsApp conversation from Meta's webhook to the database: the POST *)
(* of src/app/api/channels/meta/route.ts, the triage it starts, the gate   *)
(* that decides whether the AI answers by itself (metaAutoReplyOptions),   *)
(* processChannelMessage with its records, and the attendants who act on   *)
(* the same conversation meanwhile.                                        *)
(*                                                                         *)
(* The attempts of ReplyClaims are the deliveries of the webhook, its keys *)
(* the messages (wamid): Meta delivers a message again when it does not    *)
(* hear 200, or when another message of the same POST failed, and          *)
(* deliveries may overlap.  Every await of the route is a place where      *)
(* another delivery or an attendant may come in between; consecutive reads *)
(* of one helper (the state and the history in the gate, the steps of      *)
(* startTriage) are taken together, which only narrows the windows the     *)
(* other awaits already open.                                              *)
(*                                                                         *)
(* Left out: the rating question, which this route never asks, the lead of *)
(* the CRM, the identification of the customer and the contact's name,     *)
(* none of which any other step reads.                                     *)
(***************************************************************************)
EXTENDS ReplyClaims, Sequences, Naturals, FiniteSets

CONSTANTS Kinds,        \* the kinds of message there are
          MaxFaults,    \* bound: errors and crashes
          MaxEvents     \* bound: actions of the attendants, and silences of 24 hours

\* A text, a text of more than MAX_MESSAGE_LENGTH, or what is not text.
MessageKinds == {"text", "long", "media"}

ASSUME KindsAssumption == Kinds \subseteq MessageKinds
ASSUME BoundsAssumption == MaxFaults \in Nat /\ MaxEvents \in Nat

VARIABLES kind,       \* kind[m]: what the customer sent
          step,       \* step[d]: where the handler of delivery d is
          turn,       \* turn[d]: what the handler of d has read and decided
          history,    \* channel_messages of the conversation, oldest first
          processed,  \* messages with a row in channel_idempotency_keys
          state,      \* the row of conversation_states
          ticket,     \* the last row of support_tickets
          resolutions,  \* auxiliary: where in the history it was resolved
          faults, events

records == <<history, processed, state, ticket, resolutions>>
inboundVars == <<step, turn, records, faults, events>>
vars == <<kind, claimVars, inboundVars>>

Media == {m \in Keys : kind[m] = "media"}
TooLong == {m \in Keys : kind[m] = "long"}

Working == {"triaged", "gated", "replying", "answered", "saved", "kept"}

\* A row of channel_messages: message is the wamid the row belongs to, text the
\* attempt whose text it holds.
Row(role, m, a) == [role |-> role, message |-> m, text |-> a]
\* seen is auxiliary: how much of the history there was at the gate.
NoTurn == [ticket |-> 0, stage |-> "none", intent |-> "none", auto |-> FALSE, class |-> "none", seen |-> 0]

Rows == [role : {"customer", "suggestion", "ai", "human"}, message : Keys \cup {NoAttempt},
         text : Attempts \cup {NoAttempt}]
Stages == {"new", "clarifying", "routed"}

TypeOK ==
    /\ ClaimTypeOK
    /\ kind \in [Keys -> Kinds]
    /\ step \in [Attempts -> Working \cup {"expected", "acked", "error"}]
    /\ turn \in [Attempts -> [ticket : Nat, stage : Stages \cup {"none"},
                              intent : {"none", "vague", "sure"}, auto : BOOLEAN,
                              class : {"none", "menu", "sure", "vague"}, seen : Nat]]
    /\ history \in Seq(Rows)
    /\ processed \subseteq Keys
    /\ state \in [status : {"open", "resolved"}, assigned : BOOLEAN, resolvedAt : Nat]
    /\ ticket \in [number : Nat, open : BOOLEAN, stage : Stages, intent : {"none", "vague", "sure"}]
    /\ resolutions \subseteq Nat
    /\ faults \in 0..MaxFaults /\ events \in 0..MaxEvents

Init ==
    /\ ClaimInit
    /\ kind \in [Keys -> Kinds]
    /\ step = [d \in Attempts |-> "expected"]
    /\ turn = [d \in Attempts |-> NoTurn]
    /\ history = <<>>
    /\ processed = {}
    /\ state = [status |-> "open", assigned |-> FALSE, resolvedAt |-> 0]
    /\ ticket = [number |-> 0, open |-> FALSE, stage |-> "new", intent |-> "none"]
    /\ resolutions = {}
    /\ faults = 0 /\ events = 0

Go(d, s) == step' = [step EXCEPT ![d] = s]
Fault == faults < MaxFaults /\ faults' = faults + 1
Event == events < MaxEvents /\ events' = events + 1

(***************************************************************************)
(* The gate.  Positions in the history stand for the time of its rows.     *)
(***************************************************************************)
BotMayReply == ~(state.status = "open" /\ state.assigned)

\* The AI has answered in this wait: its last reply comes after the last human
\* reply and after the moment the conversation was resolved.
AutoReplyUsed ==
    \E i \in 1..Len(history) :
        /\ history[i].role = "ai"
        /\ \A j \in i + 1 .. Len(history) : history[j].role \notin {"ai", "human"}
        /\ state.status = "resolved" => i > state.resolvedAt

\* The state that counts for the screen: a resolved conversation the customer
\* wrote to since is open and nobody's.
Reopened ==
    state.status = "resolved" /\ \E i \in 1..Len(history) :
        i > state.resolvedAt /\ history[i].role = "customer"
Assigned == state.status = "open" /\ state.assigned

(***************************************************************************)
(* The handler of a delivery.                                              *)
(***************************************************************************)
MayArrive(d) == step[d] = "expected"

\* startTriage: the open ticket, or a new one when there is none or its customer
\* has been silent for 24 hours; the row as it is now is what the hooks of this
\* delivery go by.
Triage(d) ==
    /\ MayArrive(d)
    /\ Go(d, "triaged")
    /\ \E silent \in BOOLEAN :
          /\ IF silent THEN ticket.open /\ Event ELSE UNCHANGED events
          /\ LET current == IF ticket.open /\ ~silent THEN ticket
                            ELSE [number |-> ticket.number + 1, open |-> TRUE,
                                  stage |-> "new", intent |-> "none"]
             IN /\ ticket' = current
                /\ turn' = [turn EXCEPT ![d] = [NoTurn EXCEPT !.ticket = current.number,
                                                !.stage = current.stage, !.intent = current.intent]]
    /\ UNCHANGED <<claimVars, history, processed, state, resolutions, faults>>

\* An error of it leaves the delivery without triage.
TriageUnavailable(d) ==
    /\ MayArrive(d)
    /\ Fault
    /\ Go(d, "triaged")
    /\ UNCHANGED <<claimVars, turn, records, events>>

\* A text above the limit is acknowledged and goes nowhere.
IgnoreLong(d) ==
    /\ step[d] = "triaged"
    /\ KeyOf[d] \in TooLong
    /\ Go(d, "acked")
    /\ UNCHANGED <<claimVars, turn, records, faults, events>>

\* recordUnsupportedMessage: no gate and no answer.
Unsupported(d) ==
    /\ step[d] = "triaged"
    /\ KeyOf[d] \in Media
    /\ Go(d, IF KeyOf[d] \in processed THEN "acked" ELSE "answered")
    /\ UNCHANGED <<claimVars, turn, records, faults, events>>

\* Mutant: the gate only looks at who is in charge.
GateForgetsReply(d) ==
    /\ step[d] = "triaged"
    /\ KeyOf[d] \notin Media \cup TooLong
    /\ Go(d, "gated")
    /\ turn' = [turn EXCEPT ![d].auto = BotMayReply, ![d].seen = Len(history)]
    /\ UNCHANGED <<claimVars, records, faults, events>>

\* metaAutoReplyOptions; the answer to the menu is exempt from "one per wait".
Gate(d) ==
    /\ step[d] = "triaged"
    /\ KeyOf[d] \notin Media \cup TooLong
    /\ Go(d, "gated")
    /\ turn' = [turn EXCEPT ![d].auto = BotMayReply /\ (turn[d].stage = "clarifying" \/ ~AutoReplyUsed),
                            ![d].seen = Len(history)]
    /\ UNCHANGED <<claimVars, records, faults, events>>

\* A state or a history that cannot be read counts as "may not".
GateUnreadable(d) ==
    /\ step[d] = "triaged"
    /\ KeyOf[d] \notin Media \cup TooLong
    /\ Fault
    /\ Go(d, "gated")
    /\ UNCHANGED <<claimVars, turn, records, events>>

\* findIdempotent: the message was processed by an earlier delivery.
FindProcessed(d) ==
    /\ step[d] = "gated"
    /\ KeyOf[d] \in processed
    /\ Go(d, "acked")
    /\ UNCHANGED <<claimVars, turn, records, faults, events>>

\* The menu's choice, or what the classifier makes of the text.
Classify(d) ==
    /\ step[d] = "gated"
    /\ KeyOf[d] \notin processed
    /\ \E class \in {"sure", "vague"} \cup (IF turn[d].stage = "clarifying" THEN {"menu"} ELSE {}) :
          turn' = [turn EXCEPT ![d].class = class]
    /\ Go(d, IF turn[d].auto THEN "replying" ELSE "answered")
    /\ UNCHANGED <<claimVars, records, faults, events>>

\* The triage's question goes out instead of the approved reply.
Clarifies(d) == turn[d].auto /\ turn[d].class = "vague" /\ turn[d].stage = "new"

\* deliver: the sender of ReplyClaims, step by step.
Reply(d) ==
    /\ step[d] = "replying"
    /\ AttemptStep(d)
    /\ IF pc'[d] = "done" THEN Go(d, "answered") ELSE UNCHANGED step
    /\ UNCHANGED <<turn, records, faults, events>>

MetaMoves(d) == MetaStep(d) /\ UNCHANGED inboundVars

\* Mutants: what was meant to be sent is recorded as sent; what was sent is
\* recorded as suggested.
SaveTurnAsMeant(d) ==
    /\ step[d] = "answered"
    /\ Go(d, "saved")
    /\ history' = history \o <<Row("customer", KeyOf[d], NoAttempt),
                               Row(IF turn[d].auto THEN "ai" ELSE "suggestion", KeyOf[d],
                                   IF turn[d].auto THEN d ELSE NoAttempt)>>
    /\ UNCHANGED <<claimVars, turn, processed, state, ticket, resolutions, faults, events>>

SaveTurnSuggested(d) ==
    /\ step[d] = "answered"
    /\ Go(d, "saved")
    /\ history' = history \o <<Row("customer", KeyOf[d], NoAttempt),
                               Row("suggestion", KeyOf[d], NoAttempt)>>
    /\ UNCHANGED <<claimVars, turn, processed, state, ticket, resolutions, faults, events>>

\* saveMessages: the customer's message and what the AI said, or only suggests,
\* in one insert.
SaveTurn(d) ==
    /\ step[d] = "answered"
    /\ Go(d, "saved")
    /\ history' = history
         \o <<Row("customer", KeyOf[d], NoAttempt)>>
         \o (IF KeyOf[d] \in Media THEN <<>>
             ELSE IF answer[d].told = "sent" THEN <<Row("ai", KeyOf[d], answer[d].text)>>
             ELSE <<Row("suggestion", KeyOf[d], NoAttempt)>>)
    /\ UNCHANGED <<claimVars, turn, processed, state, ticket, resolutions, faults, events>>

\* Mutant: only the messages the AI answered are remembered.
KeepResponseOfSent(d) ==
    /\ step[d] = "saved"
    /\ processed' = IF answer[d].told = "sent" THEN processed \cup {KeyOf[d]} ELSE processed
    /\ Go(d, "kept")
    /\ UNCHANGED <<claimVars, turn, history, state, ticket, resolutions, faults, events>>

\* saveIdempotency: a plain insert, which throws when the row is there.
KeepResponse(d) ==
    /\ step[d] = "saved"
    /\ KeyOf[d] \notin processed
    /\ processed' = processed \cup {KeyOf[d]}
    /\ Go(d, "kept")
    /\ UNCHANGED <<claimVars, turn, history, state, ticket, resolutions, faults, events>>

KeepConflicts(d) ==
    /\ step[d] = "saved"
    /\ KeyOf[d] \in processed
    /\ Go(d, "error")
    /\ UNCHANGED <<claimVars, turn, records, faults, events>>

Confident(d) == turn[d].class \in {"menu", "sure"}

\* Mutant: the question counts as asked when it was meant to be.
NoteAsMeant(d) ==
    /\ step[d] = "kept"
    /\ Go(d, "acked")
    /\ turn[d].ticket = ticket.number
    /\ ticket' = [ticket EXCEPT !.intent = IF Confident(d) THEN "sure" ELSE "vague",
                               !.stage = IF Clarifies(d) THEN "clarifying" ELSE "routed"]
    /\ UNCHANGED <<claimVars, turn, history, processed, state, resolutions, faults, events>>

\* recordTriage: it updates the ticket the delivery started from, by id and by
\* what that ticket was then (an error of it is swallowed); then the 200.
Note(d) ==
    /\ step[d] = "kept"
    /\ Go(d, "acked")
    /\ LET clarified == Clarifies(d) /\ answer[d].told = "sent"
           stage == IF Clarifies(d) THEN (IF clarified THEN "clarifying" ELSE ticket.stage)
                    ELSE IF Confident(d) \/ turn[d].stage = "clarifying" THEN "routed"
                    ELSE ticket.stage
           intent == IF Confident(d) THEN "sure"
                     ELSE IF turn[d].intent = "none" THEN "vague" ELSE ticket.intent
       IN \/ /\ turn[d].stage # "none" /\ KeyOf[d] \notin Media /\ turn[d].ticket = ticket.number
             /\ ticket' = [ticket EXCEPT !.stage = stage, !.intent = intent]
             /\ UNCHANGED faults
          \/ /\ turn[d].stage = "none" \/ KeyOf[d] \in Media \/ turn[d].ticket # ticket.number
             /\ UNCHANGED <<ticket, faults>>
          \/ Fault /\ UNCHANGED ticket
    /\ UNCHANGED <<claimVars, turn, history, processed, state, resolutions, events>>

\* Mutant: the handler cleans up the reservation when it fails.
FailReleases(d) ==
    /\ step[d] \in Working
    /\ Fault
    /\ Go(d, "error")
    /\ pc' = [pc EXCEPT ![d] = "done"]
    /\ claim' = [claim EXCEPT ![KeyOf[d]] = NoClaim]
    /\ UNCHANGED <<wire, failure, answer, turn, records, events>>

\* Any step of the handler may throw (500) or be the last of its process.
Fail(d) ==
    /\ step[d] \in Working
    /\ Fault
    /\ Go(d, "error")
    /\ IF pc[d] \in Begun THEN Die(d) ELSE UNCHANGED claimVars
    /\ UNCHANGED <<turn, records, events>>

(***************************************************************************)
(* The attendants: changeConversationState, and the reply that claims the  *)
(* conversation when it is nobody's (claimIfUnassigned, whose failure is   *)
(* swallowed).                                                             *)
(***************************************************************************)
InCharge == [status |-> "open", assigned |-> TRUE, resolvedAt |-> 0]

HumanClaims ==
    /\ Event
    /\ history # <<>>
    /\ state' = InCharge
    /\ UNCHANGED <<claimVars, step, turn, history, processed, ticket, resolutions, faults>>

HumanReplies ==
    /\ Event
    /\ \E i \in 1..Len(history) : history[i].role = "customer"
    /\ history' = Append(history, Row("human", NoAttempt, NoAttempt))
    /\ \/ state' = InCharge /\ UNCHANGED faults
       \/ UNCHANGED state /\ Fault
    /\ UNCHANGED <<claimVars, step, turn, processed, ticket, resolutions>>

\* Giving the conversation back to the AI, and reopening a resolved one.
HumanReleases ==
    /\ Event
    /\ Assigned \/ (state.status = "resolved" /\ ~Reopened)
    /\ state' = [status |-> "open", assigned |-> FALSE, resolvedAt |-> 0]
    /\ UNCHANGED <<claimVars, step, turn, history, processed, ticket, resolutions, faults>>

\* Resolving closes the ticket, with an error of that swallowed.
HumanResolves ==
    /\ Event
    /\ history # <<>>
    /\ state.status = "open" \/ Reopened
    /\ state' = [status |-> "resolved", assigned |-> Assigned, resolvedAt |-> Len(history)]
    /\ \/ ticket' = [ticket EXCEPT !.open = FALSE] /\ UNCHANGED faults
       \/ UNCHANGED ticket /\ Fault
    /\ resolutions' = resolutions \cup {Len(history)}
    /\ UNCHANGED <<claimVars, step, turn, history, processed>>

Handler(d) ==
    \/ IgnoreLong(d) \/ Unsupported(d) \/ Gate(d) \/ FindProcessed(d) \/ Classify(d) \/ Reply(d)
    \/ SaveTurn(d) \/ KeepResponse(d) \/ KeepConflicts(d) \/ Note(d)
Arrival(d) == Triage(d) \/ TriageUnavailable(d)
HumanStep == HumanClaims \/ HumanReplies \/ HumanReleases \/ HumanResolves

Step ==
    \/ \E d \in Attempts : Arrival(d) \/ Handler(d) \/ GateUnreadable(d) \/ MetaMoves(d) \/ Fail(d)
    \/ HumanStep

Next == Step /\ UNCHANGED kind

Spec == Init /\ [][Next]_vars

(***************************************************************************)
(* Fairness: Meta delivers again until it hears 200, and a handler that    *)
(* has begun runs to its end.  Nothing is assumed of the attendants.       *)
(***************************************************************************)
FairSpec ==
    Spec /\ \A d \in Attempts : WF_vars(Arrival(d) /\ UNCHANGED kind)
                               /\ WF_vars(Handler(d) /\ UNCHANGED kind)

-----------------------------------------------------------------------------
(* The properties. *)

\* Only what Meta accepted is recorded as sent: a row of the AI names a text of
\* its message that the customer has (head comment of the automatic reply).
RowsAreReal ==
    \A i \in 1..Len(history) : history[i].role = "ai" =>
        /\ wire[history[i].text] = "accepted"
        /\ KeyOf[history[i].text] = history[i].message

\* What the customer wrote is never lost: once Meta hears 200 for a message it
\* will not deliver it again, so the message is in the history by then.
Recorded(m) == \E i \in 1..Len(history) : history[i].role = "customer" /\ history[i].message = m
AckedIsRecorded ==
    \A d \in Attempts : step[d] = "acked" /\ KeyOf[d] \notin TooLong => Recorded(KeyOf[d])

\* The handler uses the reservation as the senders do: whatever the webhook, the
\* faults and the attendants do to it is a step of ReplyClaims.
FollowsReservation == ClaimSpec

\* The wait of the customer goes on from row i to row j: nobody answered and nobody
\* resolved in between.
OneWait(i, j) ==
    /\ \A k \in i..j : history[k].role # "human"
    /\ resolutions \cap i..(j - 1) = {}

\* "Primeira resposta, uma por espera" (autoReplyUsed), but for the answer to the menu.
\* Not so in this code: the gate reads a history that a message handled at the same
\* time has not written yet, and TLC finds the two answers.
OnePerWait ==
    \A i, j \in 1..Len(history) :
        /\ i < j
        /\ history[i].role = "ai" /\ history[j].role = "ai"
        /\ OneWait(i, j)
        => turn[history[j].text].stage = "clarifying"

\* What the gate does achieve, whatever overlaps, fails or dies: a further answer in a
\* wait was let through before the earlier one was in the history.
OneAnswerPerGate ==
    \A i, j \in 1..Len(history) :
        /\ i < j
        /\ history[i].role = "ai" /\ history[j].role = "ai"
        /\ OneWait(i, j)
        => LET t == turn[history[j].text] IN t.stage = "clarifying" \/ t.seen < i

\* The answer to the menu is exempt because its customer was asked: a ticket waits for
\* the choice only if a delivery that had to ask heard that its answer went out, so the
\* customer has a text for that message.
MenuWasAsked ==
    ticket.stage = "clarifying" =>
        \E d \in Attempts :
            /\ Clarifies(d) /\ turn[d].ticket = ticket.number
            /\ \E a \in Attempts : KeyOf[a] = KeyOf[d] /\ wire[a] = "accepted"

\* "O 'ok, obrigado' do fim da conversa nao pode mudar o setor de quem pediu segunda
\* via", and a ticket handed to its sector does not go back to the menu.  Not so in this
\* code: a message writes by what it read of the ticket when it arrived.
KeepsSector ==
    ticket'.number = ticket.number =>
        /\ ticket.intent = "sure" => ticket'.intent = "sure"
        /\ ticket.stage = "routed" => ticket'.stage = "routed"
SectorStays == [][KeepsSector]_vars

\* "Registra o que saiu, sem reenviar": a redelivery records what an earlier one sent. Not so in this code: the gate
\* is asked before the reservation, and TLC finds the delivery that sends and fails
\* before its insert, followed by one the gate turns into a suggestion. When no delivery is being
\* handled, a processed message whose reservation says sent has the AI's row.
SentIsOnRecord ==
    (\A d \in Attempts : step[d] \notin Working) =>
        \A m \in processed : claim[m].status = "sent" =>
            \E i \in 1..Len(history) : history[i].role = "ai" /\ history[i].message = m

\* A message is in the history more than once only by as many deliveries as
\* failed after they had written it: one row has its 200, each other an error.
Copies(m) == {i \in 1..Len(history) : history[i].role = "customer" /\ history[i].message = m}
RepeatsAreFailures ==
    \A m \in Keys :
        Cardinality(Copies(m)) <=
            Cardinality({d \in Attempts : KeyOf[d] = m /\ step[d] \in {"saved", "error"}})
            + (IF m \in processed THEN 1 ELSE 0)

\* The history says what happened: no text that did not go out, and no message
\* twice but for failures.
HistoryIsReal == RowsAreReal /\ RepeatsAreFailures

\* Every message ends up processed, as long as Meta delivers it once more than
\* the handler fails.
EveryMessageIsKept == \A m \in Keys : <>(m \in processed \/ m \in TooLong)

\* An answer "sent" is followed by its row, or by an error that has Meta deliver
\* the message again.
ToldIsRecorded ==
    \A d \in Attempts : answer[d] = SaidSent(d) ~>
        \/ step[d] = "error"
        \/ \E i \in 1..Len(history) : history[i].role = "ai" /\ history[i].text = d

\* Nothing is lost between Meta and the history, in either direction: not a message
\* that was acknowledged, not a text that was told to be sent.
NothingIsLost == []AckedIsRecorded /\ ToldIsRecorded
=============================================================================
