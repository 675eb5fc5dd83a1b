-------------------------- MODULE ConversationState ---------------------------
(***************************************************************************)
(* Who is in charge of a conversation: the attendants' requests            *)
(* (changeConversationState, claimIfUnassigned) against the row of         *)
(* conversation_states and the customer who goes on writing.               *)
(*                                                                         *)
(* A request reads the time of the last customer message, reads the row,   *)
(* decides, and writes the whole row with an upsert; nothing ties the      *)
(* write to what was read.  The webhook opens or continues the ticket      *)
(* before it records the message, goes on without one when the table does  *)
(* not answer, and a resolution closes the ticket after it wrote the row.  *)
(* The properties therefore say what holds unless somebody came in         *)
(* between, and auxiliary variables say when somebody did.                 *)
(***************************************************************************)
EXTENDS Naturals

CONSTANTS Requests, Actors, By, Nobody,
          MaxMessages  \* bound: messages of the customer

ASSUME ActorsAssumption == By \in [Requests -> Actors] /\ Nobody \notin Actors
ASSUME BoundAssumption == MaxMessages \in Nat \ {0}

VARIABLES stateRow, \* the row of conversation_states
          clock,    \* the hour, which moves when the customer writes
          last,     \* when the last recorded customer message was written
          ticket,   \* the last row of support_tickets
          webhook,  \* the message being handled: none, one with a ticket, one without
          pc,       \* pc[r]: where request r is
          op,       \* op[r]: its action
          read,     \* read[r]: the last customer message it saw
          next,     \* next[r]: the row it is going to write
          overtaken,  \* auxiliary: requests that go by what is no longer so
          closedBehind, \* auxiliary: the open ticket was closed behind a message
          untriaged     \* auxiliary: the last message left no ticket open

aux == <<overtaken, closedBehind, untriaged>>
stateVars == <<stateRow, clock, last, ticket, webhook, pc, op, read, next, aux>>

STATE_ACTIONS == {"claim", "takeOver", "release", "resolve", "reopen", "reply"}
Row(status, who, at) == [status |-> status, assignee |-> who, resolvedAt |-> at]
Unassigned == Row("open", Nobody, 0)
StateRows == [status : {"open", "resolved"}, assignee : Actors \cup {Nobody}, resolvedAt : Nat]

StateTypeOK ==
    /\ stateRow \in StateRows /\ next \in [Requests -> StateRows]
    /\ clock \in 1..(MaxMessages + 1) /\ last \in 0..clock
    /\ ticket \in [number : 1..(MaxMessages + 1), open : BOOLEAN]
    /\ webhook \in {"none", "ticketed", "untriaged"}
    /\ pc \in [Requests -> {"idle", "begun", "reading", "saving", "closing", "done", "failed"}]
    /\ op \in [Requests -> STATE_ACTIONS \cup {"none"}]
    /\ read \in [Requests -> Nat]
    /\ overtaken \subseteq Requests /\ {closedBehind, untriaged} \subseteq BOOLEAN

StateInit ==
    /\ stateRow = Unassigned
    /\ clock = 1 /\ last = 1
    /\ ticket = [number |-> 1, open |-> TRUE] /\ webhook = "none"
    /\ pc = [r \in Requests |-> "idle"]
    /\ op = [r \in Requests |-> "none"]
    /\ read = [r \in Requests |-> 0]
    /\ next = [r \in Requests |-> Unassigned]
    /\ overtaken = {} /\ closedBehind = FALSE /\ untriaged = FALSE

\* A resolved conversation the customer has written to since is open and nobody's.
effectiveState(aRow, lastCustomerAt) ==
    IF aRow.status = "resolved" /\ lastCustomerAt > aRow.resolvedAt THEN Unassigned ELSE aRow
Current == effectiveState(stateRow, last)
Owner == IF Current.status = "open" THEN Current.assignee ELSE Nobody

(***************************************************************************)
(* The webhook: startTriage, then saveMessages.                            *)
(***************************************************************************)
Handles(how) ==
    /\ webhook = "none" /\ clock <= MaxMessages
    /\ webhook' = how
    /\ UNCHANGED <<stateRow, clock, last, pc, op, read, next>>

NextTicket == [number |-> ticket.number + 1, open |-> TRUE]

\* Mutant: the last ticket is continued, closed or not.
ReceiveContinuesLatest ==
    /\ Handles("ticketed")
    /\ UNCHANGED ticket

\* openOrContinueTicket: an open ticket is continued, unless the customer was
\* silent for longer than the window, when it is closed and another one opened.
Receive ==
    /\ Handles("ticketed")
    /\ ticket' \in {IF ticket.open THEN ticket ELSE NextTicket, NextTicket}

\* The table did not answer somewhere on the way: the error is swallowed, and the
\* message goes on without a ticket.  One may have been closed for silence, or
\* opened, all the same.
ReceiveUntriaged ==
    /\ Handles("untriaged")
    /\ ticket' \in {ticket, [ticket EXCEPT !.open = FALSE], NextTicket}

RecordMessage ==
    /\ webhook # "none"
    /\ clock' = clock + 1 /\ last' = clock + 1
    /\ webhook' = "none"
    /\ UNCHANGED <<stateRow, ticket, pc, op, read, next>>

(***************************************************************************)
(* A request.                                                              *)
(***************************************************************************)
\* The request answers; what it read and decided is gone.
End(r, how) ==
    /\ pc' = [pc EXCEPT ![r] = how]
    /\ op' = [op EXCEPT ![r] = "none"]
    /\ read' = [read EXCEPT ![r] = 0]
    /\ next' = [next EXCEPT ![r] = Unassigned]

Begin(r) ==
    /\ pc[r] = "idle"
    /\ pc' = [pc EXCEPT ![r] = "begun"]
    /\ \E action \in STATE_ACTIONS : op' = [op EXCEPT ![r] = action]
    /\ UNCHANGED <<stateRow, clock, last, ticket, webhook, read, next>>

ReadLast(r) ==
    /\ pc[r] = "begun"
    /\ pc' = [pc EXCEPT ![r] = "reading"]
    /\ read' = [read EXCEPT ![r] = last]
    /\ UNCHANGED <<stateRow, clock, last, ticket, webhook, op, next>>

Seen(r) == effectiveState(stateRow, read[r])

\* An action that would change nothing, and a claim of what a colleague has,
\* end without a write.
Redundant(r) ==
    CASE op[r] \in {"claim", "takeOver"} -> Seen(r).status = "open" /\ Seen(r).assignee = By[r]
      [] op[r] = "release" -> Seen(r).status = "open" /\ Seen(r).assignee = Nobody
      [] op[r] = "resolve" -> Seen(r).status = "resolved"
      [] op[r] = "reopen"  -> Seen(r).status = "open"
      [] op[r] = "reply"   -> Seen(r).status = "open" /\ Seen(r).assignee # Nobody
Refused(r) == op[r] = "claim" /\ Seen(r).status = "open" /\ Seen(r).assignee \notin {Nobody, By[r]}

Leave(r) ==
    /\ pc[r] = "reading"
    /\ Redundant(r) \/ Refused(r)
    /\ End(r, "done")
    /\ UNCHANGED <<stateRow, clock, last, ticket, webhook>>

\* claimIfUnassigned has looked, and goes on to changeConversationState, which
\* looks again.
ReplyClaims(r) ==
    /\ pc[r] = "reading" /\ op[r] = "reply" /\ ~Redundant(r)
    /\ op' = [op EXCEPT ![r] = "claim"]
    /\ pc' = [pc EXCEPT ![r] = "begun"]
    /\ UNCHANGED <<stateRow, clock, last, ticket, webhook, read, next>>

NewRow(r) ==
    CASE op[r] \in {"claim", "takeOver"} -> Row("open", By[r], 0)
      [] op[r] \in {"release", "reopen"} -> Unassigned
      [] op[r] = "resolve" -> Row("resolved", Seen(r).assignee, clock)

\* Mutant: a claim never asks whose the conversation is.
DecideOverColleague(r) ==
    /\ pc[r] = "reading" /\ op[r] # "reply"
    /\ ~Redundant(r)
    /\ next' = [next EXCEPT ![r] = NewRow(r)]
    /\ pc' = [pc EXCEPT ![r] = "saving"]
    /\ UNCHANGED <<stateRow, clock, last, ticket, webhook, op, read>>

Decide(r) ==
    /\ pc[r] = "reading" /\ op[r] # "reply"
    /\ ~Redundant(r) /\ ~Refused(r)
    /\ next' = [next EXCEPT ![r] = NewRow(r)]
    /\ pc' = [pc EXCEPT ![r] = "saving"]
    /\ UNCHANGED <<stateRow, clock, last, ticket, webhook, op, read>>

\* save: the upsert; a resolution then closes the ticket.
Save(r) ==
    /\ pc[r] = "saving"
    /\ stateRow' = next[r]
    /\ IF op[r] = "resolve"
       THEN pc' = [pc EXCEPT ![r] = "closing"] /\ UNCHANGED <<op, read, next>>
       ELSE End(r, "done")
    /\ UNCHANGED <<clock, last, ticket, webhook>>

\* closeOpenTicket, whose error is swallowed.
CloseTicket(r) ==
    /\ pc[r] = "closing"
    /\ ticket' \in {ticket, [ticket EXCEPT !.open = FALSE]}
    /\ End(r, "done")
    /\ UNCHANGED <<stateRow, clock, last, webhook>>

\* The database fails before the write (503), or the process dies.
Fail(r) ==
    /\ pc[r] \in {"begun", "reading", "saving", "closing"}
    /\ End(r, "failed")
    /\ UNCHANGED <<stateRow, clock, last, ticket, webhook>>

StateStep ==
    \/ Receive \/ ReceiveUntriaged \/ RecordMessage
    \/ \E r \in Requests :
          \/ Begin(r) \/ ReadLast(r) \/ Leave(r) \/ ReplyClaims(r) \/ Decide(r)
          \/ Save(r) \/ CloseTicket(r) \/ Fail(r)

\* A request is overtaken when the customer writes after it has read the last
\* message, or the row is written after it has read the row.  A ticket is crossed
\* when it is closed while a message goes to it, or after one did, and when an
\* overtaken resolution is written, which dates from before the message.  A message
\* is untriaged when its handling leaves no ticket open.
Observe ==
    /\ overtaken' = {r \in Requests :
           /\ pc'[r] \in {"reading", "saving"}
           /\ \/ r \in overtaken
              \/ pc[r] \in {"reading", "saving"} /\ last' # last
              \/ pc[r] = "saving" /\ stateRow' # stateRow}
    /\ closedBehind' = \/ closedBehind /\ ticket'.number = ticket.number
                       \/ ticket.open /\ ~ticket'.open
                          /\ (webhook # "none" \/ (stateRow.status = "resolved" /\ last > stateRow.resolvedAt))
                       \/ \E r \in overtaken : pc[r] = "saving" /\ pc'[r] = "closing"
    /\ untriaged' = IF webhook = "none" /\ webhook' # "none"
                    THEN webhook' = "untriaged" /\ ~ticket'.open
                    ELSE untriaged

StateNext == StateStep /\ Observe

StateSpec == StateInit /\ [][StateNext]_stateVars

-----------------------------------------------------------------------------
(* The properties. *)

\* A conversation goes from one attendant to another only when the other decided
\* to take it ("precisa ser decidido") or was overtaken by the first.
TakesOnPurpose ==
    Owner # Nobody /\ Owner' \notin {Nobody, Owner} =>
        \E r \in Requests :
            pc[r] = "saving" /\ pc'[r] = "done" /\ (op[r] = "takeOver" \/ r \in overtaken)
TakenOnlyOnPurpose == [][TakesOnPurpose]_stateVars

\* Nobody is put in charge by somebody else: whoever becomes the owner has just
\* had a claim of their own written.
Volunteers ==
    Owner' \notin {Nobody, Owner} =>
        \E r \in Requests : pc[r] = "saving" /\ pc'[r] = "done" /\ By[r] = Owner'
                            /\ op[r] \in {"claim", "takeOver"}
NobodyIsVolunteered == [][Volunteers]_stateVars

\* What is written changes something ("duplo clique nao vira duas linhas"), but
\* for a request that was overtaken.
Changes ==
    (\E r \in Requests \ overtaken : pc[r] = "saving" /\ pc'[r] \in {"closing", "done"})
        => Current'.status # Current.status \/ Owner' # Owner
NoEmptyChange == [][Changes]_stateVars

\* "Duplo clique nao vira duas linhas": what is written is never what the
\* row says already. Not so in this code: both requests of a double click read the
\* row before either wrote it, and both write it.
DoubleClickIsOne == [][
    (\E r \in Requests : pc[r] = "saving" /\ pc'[r] \in {"closing", "done"})
        => stateRow' # stateRow]_stateVars

\* Whatever a request writes was somebody's decision about what they saw: none of
\* the three above is ever broken.
WritesAreDeliberate == TakenOnlyOnPurpose /\ NobodyIsVolunteered /\ NoEmptyChange

\* A customer who wrote after the last resolution has an open ticket, unless the
\* table did not answer the message ("o canal segue como antes, sem protocolo") or
\* a resolution crossed it.
WaitingHasTicket ==
    webhook = "none" /\ Current.status = "open" /\ stateRow.status = "resolved" =>
        ticket.open \/ untriaged \/ closedBehind

\* "A proxima fala abre outro, com outro protocolo": a customer who wrote after the
\* last resolution has an open ticket, whenever the table answered the message.
\* Not so: a message that came just before the resolution goes on in the ticket
\* that is being closed, and is recorded after it.
NextMessageOpensAnother ==
    webhook = "none" /\ Current.status = "open" /\ stateRow.status = "resolved" =>
        ticket.open \/ untriaged
=============================================================================
