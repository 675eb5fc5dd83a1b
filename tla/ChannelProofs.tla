---------------------------- MODULE ChannelProofs ----------------------------
(***************************************************************************)
(* What goes on around a conversation, for any requests, attendants, texts *)
(* and POSTs.  First the parts by themselves: the receipts, the attendants *)
(* who take and leave the conversation, the POSTs of n8n and Evolution;    *)
(* then the composition, each step of which is a step of one part and      *)
(* leaves the others alone, so that all of it holds of it too.             *)
(***************************************************************************)
EXTENDS Channel, SequenceTheorems, TLAPS

-----------------------------------------------------------------------------
(* The receipts: nothing is forgotten and nothing is taken back, in whatever
   order and however often Meta delivers them. *)

\* Meta delivers, and the row shows, only what Meta issued.
RowIsReported ==
    \A t \in Texts : inbox[t] \subseteq reported[t] /\ row[t] \in reported[t] \cup {"none"}

ReceiptsInv == TypeOK /\ RowIsReported /\ NothingIsForgotten

LEMMA RankIsNat == \A s \in Statuses \cup {"none"} : STATUS_RANK[s] \in Nat
  BY DEF STATUS_RANK, Statuses

LEMMA SavingKeeps ==
    ASSUME ReceiptsInv, NEW x \in Texts, SaveRow(x) \/ SaveFails(x)
    PROVE  ReceiptsInv' /\ KeepsRank
<1>1. TypeOK'
  BY DEF ReceiptsInv, TypeOK, SaveRow, SaveFails
<1>2. UNCHANGED <<row, reported, inbox, early>>
  BY DEF SaveRow, SaveFails
<1>3. RowIsReported' /\ NothingIsForgotten'
  BY <1>2 DEF ReceiptsInv, RowIsReported, NothingIsForgotten
<1>4. KeepsRank
  BY <1>2, RankIsNat DEF ReceiptsInv, TypeOK, RowIsReported, KeepsRank
<1> QED BY <1>1, <1>3, <1>4 DEF ReceiptsInv

LEMMA IssuingKeeps ==
    ASSUME ReceiptsInv, NEW x \in Texts, NEW s \in Statuses, Issue(x, s)
    PROVE  ReceiptsInv' /\ KeepsRank
<1>1. TypeOK'
  BY DEF ReceiptsInv, TypeOK, Issue
<1>2. /\ UNCHANGED <<row, early>>
      /\ \A t \in Texts : t # x => reported'[t] = reported[t] /\ inbox'[t] = inbox[t]
      /\ reported'[x] = reported[x] \cup {s} /\ inbox'[x] = inbox[x] \cup {s}
  BY DEF ReceiptsInv, TypeOK, Issue
<1>3. RowIsReported'
  BY <1>2 DEF ReceiptsInv, RowIsReported
<1>4. NothingIsForgotten'
  BY <1>2 DEF ReceiptsInv, NothingIsForgotten
<1>5. KeepsRank
  BY <1>2, RankIsNat DEF ReceiptsInv, TypeOK, RowIsReported, KeepsRank
<1> QED BY <1>1, <1>3, <1>4, <1>5 DEF ReceiptsInv

LEMMA ApplyingKeeps ==
    ASSUME ReceiptsInv, NEW x \in Texts, NEW s \in Statuses, Apply(x, s)
    PROVE  ReceiptsInv' /\ KeepsRank
<1> DEFINE raises == saved[x] = "there" /\ STATUS_RANK[row[x]] < STATUS_RANK[s]
<1>1. TypeOK'
  BY DEF ReceiptsInv, TypeOK, Apply
<1>2. /\ UNCHANGED reported
      /\ s \in reported[x] \/ s \in inbox[x]
      /\ row'[x] = IF raises THEN s ELSE row[x]
      /\ early'[x] = IF saved[x] = "there" THEN early[x] ELSE early[x] \cup {s}
      /\ inbox'[x] = inbox[x] \/ inbox'[x] = inbox[x] \ {s}
      /\ \A t \in Texts : t # x => row'[t] = row[t] /\ early'[t] = early[t] /\ inbox'[t] = inbox[t]
  BY DEF ReceiptsInv, TypeOK, Apply
<1>3. STATUS_RANK[row[x]] \in Nat /\ STATUS_RANK[s] \in Nat
  BY RankIsNat DEF ReceiptsInv, TypeOK
<1>4. NothingIsForgotten'
  <2>1. SUFFICES ASSUME NEW r \in reported[x], r \notin inbox'[x] \cup early'[x]
                 PROVE  STATUS_RANK[r] <= STATUS_RANK[row'[x]]
    BY <1>2 DEF ReceiptsInv, NothingIsForgotten
  <2>2. STATUS_RANK[r] \in Nat
    BY <2>1, RankIsNat DEF ReceiptsInv, TypeOK
  <2>3. CASE r = s
    BY <1>2, <1>3, <2>1, <2>3
  <2>4. CASE r # s
    <3>1. STATUS_RANK[r] <= STATUS_RANK[row[x]]
      BY <1>2, <2>1, <2>4 DEF ReceiptsInv, NothingIsForgotten
    <3> QED BY <1>2, <1>3, <2>2, <3>1
  <2> QED BY <2>3, <2>4
<1>5. KeepsRank /\ RowIsReported'
  <2>1. s \in reported[x]
    BY DEF ReceiptsInv, RowIsReported, Apply
  <2> QED BY <1>2, <1>3, <2>1, RankIsNat DEF ReceiptsInv, TypeOK, RowIsReported, KeepsRank
<1> QED BY <1>1, <1>4, <1>5 DEF ReceiptsInv

\* The inductive invariant, and what every step keeps.
LEMMA StepKeeps ==
    ASSUME ReceiptsInv, [Next]_vars
    PROVE  ReceiptsInv' /\ KeepsRank
<1>1. CASE UNCHANGED vars
  BY <1>1, RankIsNat DEF vars, ReceiptsInv, TypeOK, RowIsReported, NothingIsForgotten, KeepsRank
<1>2. ASSUME NEW t \in Texts, SaveRow(t) \/ SaveFails(t) PROVE ReceiptsInv' /\ KeepsRank
  BY <1>2, SavingKeeps
<1>3. ASSUME NEW t \in Texts, NEW s \in Statuses, Issue(t, s) PROVE ReceiptsInv' /\ KeepsRank
  BY <1>3, IssuingKeeps
<1>4. ASSUME NEW t \in Texts, NEW s \in Statuses, Apply(t, s) PROVE ReceiptsInv' /\ KeepsRank
  BY <1>4, ApplyingKeeps
<1> QED BY <1>1, <1>2, <1>3, <1>4 DEF Next

LEMMA ReceiptsInvariance == Spec => []ReceiptsInv
<1>1. Init => ReceiptsInv
  BY DEF Init, ReceiptsInv, TypeOK, RowIsReported, NothingIsForgotten, Statuses
<1>2. ReceiptsInv /\ [Next]_vars => ReceiptsInv'
  BY StepKeeps
<1> QED BY <1>1, <1>2, PTL DEF Spec

-----------------------------------------------------------------------------
(* Who is in charge. *)

\* The webhook numbers a ticket for a message that is still to be recorded.
NumbersFit ==
    /\ webhook # "none" => clock <= MaxMessages
    /\ ticket.number <= IF webhook = "none" THEN clock ELSE clock + 1

\* A request has an action until it ends; what it is going to write is what its
\* action says.
RequestsDecided ==
    \A r \in Requests :
        /\ pc[r] \in {"begun", "reading"} => op[r] \in STATE_ACTIONS
        /\ pc[r] = "saving" =>
              \/ op[r] \in {"claim", "takeOver"} /\ next[r] = Row("open", By[r], 0)
              \/ op[r] \in {"release", "reopen"} /\ next[r] = Unassigned
              \/ op[r] = "resolve" /\ next[r].status = "resolved"

\* A request nobody came in between of still sees what is there, and what it
\* decided still holds.
DecisionsHold ==
    \A r \in Requests \ overtaken :
        /\ pc[r] \in {"reading", "saving"} => read[r] = last
        /\ pc[r] = "saving" =>
              /\ ~Redundant(r) /\ ~Refused(r)
              /\ op[r] = "resolve" => next[r].resolvedAt >= last

\* A message on its way, and one that came after the resolution, has its ticket,
\* or none could be opened for it.
MessagesHaveTicket ==
    webhook # "none" \/ (stateRow.status = "resolved" /\ last > stateRow.resolvedAt)
        => ticket.open \/ untriaged \/ closedBehind

StateInv == StateTypeOK /\ NumbersFit /\ RequestsDecided /\ DecisionsHold /\ MessagesHaveTicket

LEMMA RowsAreRows ==
    /\ Unassigned \in StateRows
    /\ \A r \in Requests : Row("open", By[r], 0) \in StateRows
    /\ \A w \in Actors \cup {Nobody}, at \in Nat : Row("resolved", w, at) \in StateRows
  BY ActorsAssumption DEF Unassigned, Row, StateRows

\* What a request decides on is a row, and the one its action says.
LEMMA DecidesWell ==
    ASSUME StateTypeOK, RequestsDecided, NEW r \in Requests, Decide(r)
    PROVE  /\ NewRow(r) \in StateRows
           /\ \/ op[r] \in {"claim", "takeOver"} /\ NewRow(r) = Row("open", By[r], 0)
              \/ op[r] \in {"release", "reopen"} /\ NewRow(r) = Unassigned
              \/ op[r] = "resolve" /\ NewRow(r).status = "resolved" /\ NewRow(r).resolvedAt = clock
<1>1. op[r] \in STATE_ACTIONS \ {"reply"}
  BY DEF Decide, RequestsDecided
<1>2. CASE op[r] \in {"claim", "takeOver"}
  BY <1>2, RowsAreRows DEF NewRow
<1>3. CASE op[r] \in {"release", "reopen"}
  BY <1>3, RowsAreRows DEF NewRow
<1>4. CASE op[r] = "resolve"
  <2>1. NewRow(r) = Row("resolved", Seen(r).assignee, clock)
    BY <1>4 DEF NewRow
  <2>2. Seen(r).assignee \in Actors \cup {Nobody} /\ clock \in Nat
    BY BoundAssumption DEF StateTypeOK, Seen, effectiveState, StateRows, Unassigned, Row
  <2>3. Row("resolved", Seen(r).assignee, clock) \in StateRows
    BY <2>2, RowsAreRows
  <2> QED BY <1>4, <2>1, <2>3 DEF Row
<1> QED BY <1>1, <1>2, <1>3, <1>4 DEF STATE_ACTIONS

LEMMA StateTypeStays ==
    ASSUME StateTypeOK, NumbersFit, RequestsDecided, StateNext
    PROVE  StateTypeOK' /\ NumbersFit'
<1> USE BoundAssumption
<1>1. overtaken' \subseteq Requests /\ {closedBehind, untriaged}' \subseteq BOOLEAN
  BY DEF StateNext, Observe, StateTypeOK
<1>2. CASE Receive \/ ReceiveUntriaged
  <2>1. /\ webhook = "none" /\ clock <= MaxMessages
        /\ webhook' \in {"ticketed", "untriaged"}
        /\ UNCHANGED <<stateRow, clock, last, pc, op, read, next>>
        /\ ticket' \in {ticket, [ticket EXCEPT !.open = FALSE], NextTicket}
    BY <1>2 DEF Receive, ReceiveUntriaged, Handles
  <2>2. /\ ticket' \in [number : 1..(MaxMessages + 1), open : BOOLEAN]
        /\ ticket'.number <= clock + 1
    <3>1. ticket.number \in 1..clock /\ ticket.open \in BOOLEAN /\ clock \in Nat
      BY <2>1 DEF StateTypeOK, NumbersFit
    <3>2. CASE ticket' = ticket
      BY <2>1, <3>1, <3>2 DEF StateTypeOK
    <3>3. CASE ticket' = [ticket EXCEPT !.open = FALSE]
      <4>1. /\ ticket' \in [number : 1..(MaxMessages + 1), open : BOOLEAN]
            /\ ticket'.number = ticket.number
        BY <3>3 DEF StateTypeOK
      <4> QED BY <2>1, <3>1, <4>1
    <3>4. CASE ticket' = NextTicket
      BY <2>1, <3>1, <3>4 DEF NextTicket
    <3> QED BY <2>1, <3>2, <3>3, <3>4
  <2> QED BY <1>1, <2>1, <2>2 DEF StateTypeOK, NumbersFit
<1>3. CASE RecordMessage
  BY <1>1, <1>3 DEF RecordMessage, StateTypeOK, NumbersFit
<1>4. ASSUME NEW r \in Requests, Begin(r) \/ ReadLast(r) \/ ReplyClaims(r)
      PROVE  StateTypeOK' /\ NumbersFit'
  BY <1>1, <1>4 DEF Begin, ReadLast, ReplyClaims, StateTypeOK, NumbersFit, STATE_ACTIONS
<1>5. ASSUME NEW r \in Requests, Decide(r)
      PROVE  StateTypeOK' /\ NumbersFit'
  <2>1. NewRow(r) \in StateRows
    BY <1>5, DecidesWell
  <2> QED BY <1>1, <1>5, <2>1 DEF Decide, StateTypeOK, NumbersFit
<1>6. ASSUME NEW r \in Requests, NEW how \in {"done", "failed"}, End(r, how)
      PROVE  /\ pc' \in [Requests -> {"idle", "begun", "reading", "saving", "closing", "done", "failed"}]
             /\ op' \in [Requests -> STATE_ACTIONS \cup {"none"}]
             /\ read' \in [Requests -> Nat]
             /\ next' \in [Requests -> StateRows]
  BY <1>6, RowsAreRows DEF End, StateTypeOK
<1>7. ASSUME NEW r \in Requests, Leave(r) \/ Fail(r)
      PROVE  StateTypeOK' /\ NumbersFit'
  BY <1>1, <1>6, <1>7 DEF Leave, Fail, StateTypeOK, NumbersFit
<1>8. ASSUME NEW r \in Requests, CloseTicket(r)
      PROVE  StateTypeOK' /\ NumbersFit'
  BY <1>1, <1>6, <1>8 DEF CloseTicket, StateTypeOK, NumbersFit
<1>9. ASSUME NEW r \in Requests, Save(r)
      PROVE  StateTypeOK' /\ NumbersFit'
  <2>1. CASE op[r] = "resolve"
    BY <1>1, <1>9, <2>1 DEF Save, StateTypeOK, NumbersFit
  <2>2. CASE op[r] # "resolve"
    BY <1>1, <1>6, <1>9, <2>2 DEF Save, StateTypeOK, NumbersFit
  <2> QED BY <2>1, <2>2
<1> QED BY <1>2, <1>3, <1>4, <1>5, <1>7, <1>8, <1>9 DEF StateNext, StateStep

LEMMA DecisionsStay ==
    ASSUME StateTypeOK, RequestsDecided, StateNext
    PROVE  RequestsDecided'
<1>1. CASE Receive \/ ReceiveUntriaged \/ RecordMessage
  BY <1>1 DEF Receive, ReceiveUntriaged, Handles, RecordMessage, RequestsDecided
<1>2. ASSUME NEW x \in Requests, Begin(x) \/ ReadLast(x) \/ ReplyClaims(x)
      PROVE  RequestsDecided'
  BY <1>2 DEF Begin, ReadLast, ReplyClaims, RequestsDecided, StateTypeOK, STATE_ACTIONS
<1>3. ASSUME NEW x \in Requests, Decide(x)
      PROVE  RequestsDecided'
  <2>1. op' = op /\ pc' = [pc EXCEPT ![x] = "saving"] /\ next' = [next EXCEPT ![x] = NewRow(x)]
    BY <1>3 DEF Decide
  <2> QED BY <1>3, <2>1, DecidesWell DEF RequestsDecided, StateTypeOK
<1>4. ASSUME NEW x \in Requests, NEW how \in {"done", "failed"}, End(x, how)
      PROVE  RequestsDecided'
  BY <1>4 DEF End, RequestsDecided, StateTypeOK
<1>5. ASSUME NEW x \in Requests, Save(x)
      PROVE  RequestsDecided'
  BY <1>4, <1>5 DEF Save, RequestsDecided, StateTypeOK
<1> QED BY <1>1, <1>2, <1>3, <1>4, <1>5 DEF StateNext, StateStep, Leave, Fail, CloseTicket

\* What the next step of the others leaves alone.
LEMMA HoldsOn ==
    ASSUME StateTypeOK, DecisionsHold, StateNext, NEW r \in Requests \ overtaken',
           pc[r] \in {"reading", "saving"}, pc'[r] = pc[r],
           op'[r] = op[r], read'[r] = read[r], next'[r] = next[r]
    PROVE  /\ read'[r] = last'
           /\ pc'[r] = "saving" =>
                 /\ ~Redundant(r)' /\ ~Refused(r)'
                 /\ op'[r] = "resolve" => next'[r].resolvedAt >= last'
<1>1. r \notin overtaken /\ last' = last /\ (pc[r] = "saving" => stateRow' = stateRow)
  BY DEF StateNext, Observe
<1>2. read[r] = last /\ (pc[r] = "saving" => ~Redundant(r) /\ ~Refused(r) /\ (op[r] = "resolve" => next[r].resolvedAt >= last))
  BY <1>1 DEF DecisionsHold
<1>3. pc[r] = "saving" => Seen(r)' = Seen(r)
  BY <1>1 DEF Seen, effectiveState
<1>4. pc[r] = "saving" => Redundant(r)' = Redundant(r) /\ Refused(r)' = Refused(r)
  BY <1>3 DEF Redundant, Refused
<1> QED BY <1>1, <1>2, <1>4

LEMMA HoldingStays ==
    ASSUME StateTypeOK, RequestsDecided, DecisionsHold, StateNext
    PROVE  DecisionsHold'
<1> SUFFICES ASSUME NEW r \in Requests \ overtaken', pc'[r] \in {"reading", "saving"}
             PROVE  /\ read'[r] = last'
                    /\ pc'[r] = "saving" =>
                          /\ ~Redundant(r)' /\ ~Refused(r)'
                          /\ op'[r] = "resolve" => next'[r].resolvedAt >= last'
  BY DEF DecisionsHold
<1>1. CASE pc[r] \in {"reading", "saving"} /\ pc'[r] = pc[r]
  <2>1. op'[r] = op[r] /\ read'[r] = read[r] /\ next'[r] = next[r]
    BY <1>1 DEF StateNext, StateStep, Receive, ReceiveUntriaged, Handles, RecordMessage, Begin, ReadLast, Leave, ReplyClaims,
                Decide, Save, CloseTicket, Fail, End, StateTypeOK
  <2> QED BY <1>1, <2>1, HoldsOn
<1>2. CASE ReadLast(r)
  BY <1>2 DEF ReadLast, StateTypeOK
<1>3. CASE Decide(r)
  <2>1. /\ UNCHANGED <<stateRow, last, op, read>> /\ pc[r] = "reading"
        /\ next'[r] = NewRow(r) /\ ~Redundant(r) /\ ~Refused(r)
    BY <1>3 DEF Decide, StateTypeOK
  <2>2. r \notin overtaken
    BY <2>1 DEF StateNext, Observe
  <2>3. Redundant(r)' = Redundant(r) /\ Refused(r)' = Refused(r)
    BY <2>1 DEF Redundant, Refused, Seen, effectiveState
  <2>4. op[r] = "resolve" => NewRow(r).resolvedAt >= last
    BY <1>3, DecidesWell, BoundAssumption DEF StateTypeOK
  <2> QED BY <2>1, <2>2, <2>3, <2>4 DEF DecisionsHold
<1>4. \/ pc[r] \in {"reading", "saving"} /\ pc'[r] = pc[r]
      \/ ReadLast(r) \/ Decide(r)
  BY DEF StateNext, StateStep, Receive, ReceiveUntriaged, Handles, RecordMessage, Begin, ReadLast, Leave, ReplyClaims,
         Decide, Save, CloseTicket, Fail, End, StateTypeOK
<1> QED BY <1>1, <1>2, <1>3, <1>4

LEMMA TicketStays ==
    ASSUME StateTypeOK, RequestsDecided, DecisionsHold, MessagesHaveTicket, StateNext
    PROVE  MessagesHaveTicket'
<1>1. CASE Receive \/ ReceiveUntriaged
  <2>1. CASE ticket'.open
    BY <2>1 DEF MessagesHaveTicket
  <2>2. CASE ~ticket'.open
    <3>1. ReceiveUntriaged
      BY <1>1, <2>2 DEF Receive, NextTicket
    <3>2. webhook = "none" /\ webhook' = "untriaged"
      BY <3>1 DEF ReceiveUntriaged, Handles
    <3>3. untriaged'
      BY <2>2, <3>2 DEF StateNext, Observe
    <3> QED BY <3>3 DEF MessagesHaveTicket
  <2> QED BY <2>1, <2>2
<1>2. CASE RecordMessage
  BY <1>2 DEF RecordMessage, MessagesHaveTicket, StateNext, Observe
<1>3. ASSUME NEW r \in Requests, Save(r)
      PROVE  MessagesHaveTicket'
  <2>1. UNCHANGED <<last, ticket, webhook>> /\ pc[r] = "saving" /\ stateRow' = next[r]
    BY <1>3 DEF Save
  <2>2. CASE next[r].status = "resolved"
    <3>1. op[r] = "resolve" /\ pc'[r] = "closing"
      BY <1>3, <2>1, <2>2 DEF Save, StateTypeOK, RequestsDecided, Row, Unassigned
    <3>2. CASE r \in overtaken
      BY <2>1, <3>1, <3>2 DEF StateNext, Observe, MessagesHaveTicket
    <3>3. CASE r \notin overtaken
      <4>1. ~(last > next[r].resolvedAt)
        BY <2>1, <3>1, <3>3 DEF DecisionsHold, StateTypeOK, StateRows
      <4> QED BY <2>1, <4>1 DEF StateNext, Observe, MessagesHaveTicket
    <3> QED BY <3>2, <3>3
  <2>3. CASE next[r].status # "resolved"
    BY <2>1, <2>3 DEF StateNext, Observe, MessagesHaveTicket
  <2> QED BY <2>2, <2>3
<1>4. ASSUME NEW r \in Requests, CloseTicket(r)
      PROVE  MessagesHaveTicket'
  BY <1>4 DEF CloseTicket, StateNext, Observe, MessagesHaveTicket, StateTypeOK
<1>5. ASSUME UNCHANGED <<stateRow, last, ticket, webhook>>
      PROVE  MessagesHaveTicket'
  BY <1>5 DEF StateNext, Observe, MessagesHaveTicket
<1> QED BY <1>1, <1>2, <1>3, <1>4, <1>5
        DEF StateNext, StateStep, Begin, ReadLast, Leave, ReplyClaims, Decide, Fail

\* Who is in charge is what the row says; the customer's message leaves nobody
\* in charge of what was nobody's.
LEMMA OwnerOfRow ==
    ASSUME StateTypeOK
    PROVE  /\ Owner = IF stateRow.status = "open" THEN stateRow.assignee ELSE Nobody
           /\ stateRow.status = "open" => Current = stateRow
           /\ Current.status \in {"open", "resolved"}
           /\ Owner # Nobody => Current.status = "open" /\ Owner = Current.assignee
  BY DEF StateTypeOK, StateRows, Owner, Current, effectiveState, Unassigned, Row

\* What a write does to the owner.
LEMMA SavingIsDeliberate ==
    ASSUME StateTypeOK, StateTypeOK', RequestsDecided, DecisionsHold, NEW r \in Requests, Save(r)
    PROVE  /\ Owner' # Nobody => /\ pc'[r] = "done" /\ By[r] = Owner' /\ op[r] \in {"claim", "takeOver"}
                                 /\ op[r] = "claim" /\ r \notin overtaken => Owner \in {Nobody, Owner'}
           /\ r \notin overtaken => Current'.status # Current.status \/ Owner' # Owner
<1>1. /\ pc[r] = "saving" /\ stateRow' = next[r] /\ last' = last
      /\ pc'[r] = IF op[r] = "resolve" THEN "closing" ELSE "done"
  BY DEF Save, End, StateTypeOK
<1>2. r \notin overtaken => /\ Seen(r) = Current /\ ~Redundant(r) /\ ~Refused(r)
                            /\ op[r] = "resolve" => next[r].resolvedAt >= last
  BY <1>1 DEF DecisionsHold, Seen, Current
<1>3. /\ Owner' = IF stateRow'.status = "open" THEN stateRow'.assignee ELSE Nobody
      /\ stateRow'.status = "open" => Current' = stateRow'
  BY OwnerOfRow DEF StateTypeOK, StateRows, Owner, Current, effectiveState, Unassigned, Row
<1>4. CASE op[r] \in {"claim", "takeOver"} /\ next[r] = Row("open", By[r], 0)
  <2>1. Owner' = By[r] /\ Current'.status = "open"
    BY <1>1, <1>3, <1>4 DEF Row
  <2>2. r \notin overtaken /\ op[r] = "claim" => Owner \in {Nobody, By[r]}
    BY <1>2, OwnerOfRow DEF Refused
  <2>3. r \notin overtaken => ~(Current.status = "open" /\ Current.assignee = By[r])
    BY <1>2, <1>4 DEF Redundant
  <2>4. By[r] # Nobody
    BY ActorsAssumption
  <2> QED BY <1>1, <1>4, <2>1, <2>2, <2>3, <2>4, OwnerOfRow
<1>5. CASE op[r] \in {"release", "reopen"} /\ next[r] = Unassigned
  <2>1. Owner' = Nobody /\ Current'.status = "open"
    BY <1>1, <1>3, <1>5 DEF Unassigned, Row
  <2>2. r \notin overtaken => Current.status # "open" \/ Current.assignee # Nobody
    BY <1>2, <1>5 DEF Redundant
  <2> QED BY <2>1, <2>2 DEF Owner
<1>6. CASE op[r] = "resolve" /\ next[r].status = "resolved"
  <2>1. Owner' = Nobody
    BY <1>1, <1>3, <1>6
  <2>2. r \notin overtaken => Current.status # "resolved"
    BY <1>2, <1>6 DEF Redundant
  <2>3. r \notin overtaken => Current' = next[r]
    BY <1>1, <1>2, <1>6 DEF Current, effectiveState, StateTypeOK, StateRows
  <2> QED BY <1>6, <2>1, <2>2, <2>3
<1> QED BY <1>1, <1>4, <1>5, <1>6 DEF RequestsDecided

LEMMA StateStepKeeps ==
    ASSUME StateInv, [StateNext]_stateVars
    PROVE  /\ StateInv'
           /\ [TakesOnPurpose]_stateVars /\ [Volunteers]_stateVars /\ [Changes]_stateVars
<1>1. CASE UNCHANGED stateVars
  BY <1>1 DEF stateVars, aux, StateInv, StateTypeOK, NumbersFit, RequestsDecided, DecisionsHold,
              MessagesHaveTicket, Redundant, Refused, Seen, effectiveState
<1>2. CASE StateNext
  <2>1. StateInv'
    BY <1>2, StateTypeStays, DecisionsStay, HoldingStays, TicketStays DEF StateInv
  <2>2. ASSUME NEW r \in Requests, Save(r)
        PROVE  /\ \A q \in Requests : pc[q] = "saving" /\ pc'[q] \in {"closing", "done"} => q = r
               /\ pc[r] = "saving"
    BY <2>2 DEF Save, End, StateInv, StateTypeOK
  <2>3. ASSUME NEW r \in Requests, Save(r)
        PROVE  TakesOnPurpose /\ Volunteers /\ Changes
    <3>1. /\ Owner' # Nobody => /\ pc'[r] = "done" /\ By[r] = Owner' /\ op[r] \in {"claim", "takeOver"}
                                /\ op[r] = "claim" /\ r \notin overtaken => Owner \in {Nobody, Owner'}
          /\ r \notin overtaken => Current'.status # Current.status \/ Owner' # Owner
      BY <2>1, <2>3, SavingIsDeliberate DEF StateInv
    <3>2. TakesOnPurpose
      BY <2>2, <2>3, <3>1 DEF TakesOnPurpose
    <3>3. Volunteers
      BY <2>2, <2>3, <3>1 DEF Volunteers
    <3>4. Changes
      BY <2>2, <2>3, <3>1 DEF Changes
    <3> QED BY <3>2, <3>3, <3>4
  <2>4. ASSUME stateRow' = stateRow, \A q \in Requests : pc[q] = "saving" => pc'[q] \notin {"closing", "done"}
        PROVE  TakesOnPurpose /\ Volunteers /\ Changes
    <3>1. Owner' = Owner
      <4>1. StateTypeOK /\ StateTypeOK'
        BY <2>1 DEF StateInv
      <4>2. Owner = IF stateRow.status = "open" THEN stateRow.assignee ELSE Nobody
        BY <4>1, OwnerOfRow
      <4>3. Owner' = IF stateRow'.status = "open" THEN stateRow'.assignee ELSE Nobody
        BY <4>1 DEF StateTypeOK, StateRows, Owner, Current, effectiveState, Unassigned, Row
      <4> QED BY <2>4, <4>2, <4>3
    <3>2. TakesOnPurpose /\ Volunteers
      BY <3>1 DEF TakesOnPurpose, Volunteers
    <3> QED BY <2>4, <3>2 DEF Changes
  <2>5. \/ \E r \in Requests : Save(r)
        \/ /\ stateRow' = stateRow
           /\ \A q \in Requests : pc[q] = "saving" => pc'[q] \notin {"closing", "done"}
    BY <1>2 DEF StateNext, StateStep, Receive, ReceiveUntriaged, Handles, RecordMessage, Begin, ReadLast, Leave, ReplyClaims,
                Decide, CloseTicket, Fail, End, StateInv, StateTypeOK
  <2> QED BY <2>1, <2>3, <2>4, <2>5
<1> QED BY <1>1, <1>2

LEMMA StateInvariance == StateSpec => []StateInv
<1>1. StateInit => StateInv
  <2> SUFFICES ASSUME StateInit PROVE StateInv
    OBVIOUS
  <2>1. StateTypeOK
    <3>1. stateRow \in StateRows /\ next \in [Requests -> StateRows]
      BY RowsAreRows DEF StateInit
    <3>2. /\ clock \in 1..(MaxMessages + 1) /\ last \in 0..clock
          /\ ticket \in [number : 1..(MaxMessages + 1), open : BOOLEAN]
          /\ webhook \in {"none", "ticketed", "untriaged"}
      BY BoundAssumption DEF StateInit
    <3> QED BY <3>1, <3>2 DEF StateInit, StateTypeOK
  <2>2. NumbersFit /\ RequestsDecided /\ DecisionsHold /\ MessagesHaveTicket
    BY DEF StateInit, NumbersFit, RequestsDecided, DecisionsHold, MessagesHaveTicket, Unassigned, Row
  <2> QED BY <2>1, <2>2 DEF StateInv
<1>2. StateInv /\ [StateNext]_stateVars => StateInv'
  BY StateStepKeeps
<1> QED BY <1>1, <1>2, PTL DEF StateSpec

LEMMA StateInvSays == StateInv => StateTypeOK /\ WaitingHasTicket
  BY DEF StateInv, WaitingHasTicket, MessagesHaveTicket, Current, effectiveState

-----------------------------------------------------------------------------
(* The POSTs of n8n and Evolution. *)

QuestionAsked == \E i \in 1 .. Len(dialogue) : dialogue[i] = [role |-> "agent", text |-> "answer and question"]

\* A POST that waits for its turn is of no message; any other is of one.
PostsOfOneMessage ==
    \A d \in Posts :
        IF posting[d].step = "idle" THEN posting[d].message = {} /\ d \notin outcomes
        ELSE \E k \in Said : posting[d].message = {k}

\* Only a score after the question is going to be saved as a rating.
RatesAfterQuestion ==
    \A d \in Posts : posting[d].step = "rate" =>
        QuestionAsked /\ \A k \in posting[d].message : words[k] = "score"

\* Who has something to say says something; who has kept it, or is answered,
\* has what is kept for the message, and one POST of a message keeps it.
Keeper(d) == posting[d].step = "outcome" \/ d \in outcomes
SaysWhatIsKept ==
    /\ \A d \in Posts :
          /\ posting[d].step \in {"rows", "key"} => posting[d].response # NoResponse
          /\ d \in outcomes => posting[d].step = "answered"
          /\ posting[d].step \in {"outcome", "answered"} =>
                \A k \in posting[d].message : kept[k] # NoResponse /\ posting[d].response = kept[k]
    /\ \A c, d \in Posts :
          Keeper(c) /\ Keeper(d) /\ posting[c].message = posting[d].message => c = d

TurnInv == TurnTypeOK /\ PostsOfOneMessage /\ RatesAfterQuestion /\ SaysWhatIsKept /\ RatingsWereAskedFor

\* What a step of one POST does to the POSTs.
LEMMA PostMoves ==
    ASSUME TurnTypeOK, NEW d \in Posts, NEW step, NEW response, Then(d, step, response)
    PROVE  /\ posting'[d].step = step /\ posting'[d].response = response
           /\ posting'[d].message = posting[d].message /\ posting'[d].auto = posting[d].auto
           /\ \A e \in Posts : e # d => posting'[e] = posting[e]
  BY DEF Then, TurnTypeOK

PostSteps == {"idle", "read", "rate", "decide", "rows", "key", "outcome", "answered", "error"}

LEMMA PostTypes ==
    ASSUME TurnTypeOK, NEW d \in Posts, NEW step \in PostSteps, NEW response \in Responses,
           Then(d, step, response)
    PROVE  posting' \in [Posts -> [step : PostSteps, message : SUBSET Said, auto : BOOLEAN, response : Responses]]
<1>1. posting[d] \in [step : PostSteps, message : SUBSET Said, auto : BOOLEAN, response : Responses]
  BY DEF TurnTypeOK, PostSteps
<1>2. [posting[d] EXCEPT !.step = step, !.response = response]
          \in [step : PostSteps, message : SUBSET Said, auto : BOOLEAN, response : Responses]
  BY <1>1
<1>3. posting' = [posting EXCEPT ![d] = [posting[d] EXCEPT !.step = step, !.response = response]]
  BY DEF Then, TurnTypeOK
<1> QED BY <1>2, <1>3 DEF TurnTypeOK, PostSteps

LEMMA TurnTypeStays ==
    ASSUME TurnTypeOK, TurnNext
    PROVE  TurnTypeOK'
<1>0. NoResponse \in Responses
  BY DEF NoResponse, Responses, Replies, TurnStatuses
<1>1. ASSUME NEW d \in Posts, NEW k \in Said, NEW auto \in BOOLEAN, ArrivePost(d, k, auto)
      PROVE  TurnTypeOK'
  <2>1. [NewPost EXCEPT !.step = "read", !.message = {k}, !.auto = auto]
            \in [step : PostSteps, message : SUBSET Said, auto : BOOLEAN, response : Responses]
    BY <1>0 DEF NewPost, PostSteps
  <2>2. [NewPost EXCEPT !.step = "answered", !.message = {k}, !.response = kept[k]]
            \in [step : PostSteps, message : SUBSET Said, auto : BOOLEAN, response : Responses]
    BY <1>0 DEF NewPost, PostSteps, TurnTypeOK
  <2>3. posting' \in [Posts -> [step : PostSteps, message : SUBSET Said, auto : BOOLEAN, response : Responses]]
    BY <1>1, <2>1, <2>2 DEF ArrivePost, TurnTypeOK, PostSteps
  <2> QED BY <1>1, <2>3 DEF ArrivePost, TurnTypeOK, PostSteps
<1>2. ASSUME NEW d \in Posts, NEW k \in Said, ReadDialogue(d, k)
      PROVE  TurnTypeOK'
  <2>1. posting' \in [Posts -> [step : PostSteps, message : SUBSET Said, auto : BOOLEAN, response : Responses]]
    BY <1>0, <1>2, PostTypes DEF ReadDialogue, PostSteps
  <2> QED BY <1>2, <2>1 DEF ReadDialogue, TurnTypeOK, PostSteps
<1>3. ASSUME NEW d \in Posts, NEW k \in Said, SaveRating(d, k)
      PROVE  TurnTypeOK'
  <2>1. [reply |-> "thanks", sent |-> posting[d].auto, status |-> "rated"] \in Responses
    BY DEF TurnTypeOK, Responses, Replies, TurnStatuses
  <2>2. posting' \in [Posts -> [step : PostSteps, message : SUBSET Said, auto : BOOLEAN, response : Responses]]
    BY <1>3, <2>1, PostTypes DEF SaveRating, PostSteps
  <2> QED BY <1>3, <2>2 DEF SaveRating, TurnTypeOK, PostSteps
<1>4. ASSUME NEW d \in Posts, NEW k \in Said, NEW final \in {"resolved", "handoff"}, DecideTurn(d, k, final)
      PROVE  TurnTypeOK'
  <2>1. PICK reply \in {"answer", "answer and question"}, status \in {"resolved", "handoff", "suggested"} :
            Then(d, "rows", [reply |-> reply, sent |-> posting[d].auto, status |-> status])
    BY <1>4 DEF DecideTurn
  <2>2. [reply |-> reply, sent |-> posting[d].auto, status |-> status] \in Responses
    BY <2>1 DEF TurnTypeOK, Responses, Replies, TurnStatuses
  <2>3. posting' \in [Posts -> [step : PostSteps, message : SUBSET Said, auto : BOOLEAN, response : Responses]]
    BY <2>1, <2>2, PostTypes DEF PostSteps
  <2> QED BY <1>4, <2>3 DEF DecideTurn, TurnTypeOK, PostSteps
<1>5. ASSUME NEW d \in Posts, NEW k \in Said, SaveRows(d, k)
      PROVE  TurnTypeOK'
  <2>1. posting[d].response \in Responses /\ posting[d].response.reply \in Replies
    BY DEF TurnTypeOK, Responses
  <2>2. posting' \in [Posts -> [step : PostSteps, message : SUBSET Said, auto : BOOLEAN, response : Responses]]
    BY <1>5, <2>1, PostTypes DEF SaveRows, PostSteps
  <2>3. /\ [role |-> "customer", text |-> "words"] \in DialogueRows
        /\ [role |-> IF posting[d].response.sent THEN "agent" ELSE "suggestion", text |-> posting[d].response.reply]
              \in DialogueRows
    BY <2>1 DEF DialogueRows
  <2>4. dialogue' \in Seq(DialogueRows)
    BY <1>5, <2>3 DEF SaveRows, TurnTypeOK
  <2> QED BY <1>5, <2>2, <2>4 DEF SaveRows, TurnTypeOK, PostSteps
<1>6. ASSUME NEW d \in Posts, NEW k \in Said, SaveIdempotency(d, k) \/ SaveOutcome(d, k)
      PROVE  TurnTypeOK'
  <2>1. posting[d].response \in Responses
    BY DEF TurnTypeOK
  <2>2. posting' \in [Posts -> [step : PostSteps, message : SUBSET Said, auto : BOOLEAN, response : Responses]]
    BY <1>6, <2>1, PostTypes DEF SaveIdempotency, SaveOutcome, PostSteps
  <2> QED BY <1>6, <2>1, <2>2 DEF SaveIdempotency, SaveOutcome, TurnTypeOK, PostSteps
<1>7. ASSUME NEW d \in Posts, PostFails(d)
      PROVE  TurnTypeOK'
  <2>1. Then(d, "error", posting[d].response) /\ posting[d].response \in Responses
    BY <1>7 DEF PostFails, Then, TurnTypeOK
  <2>2. posting' \in [Posts -> [step : PostSteps, message : SUBSET Said, auto : BOOLEAN, response : Responses]]
    BY <2>1, PostTypes DEF PostSteps
  <2> QED BY <1>7, <2>2 DEF PostFails, TurnTypeOK, PostSteps
<1>8. CASE AttendantReplies
  <2>1. [role |-> "agent", text |-> "answer"] \in DialogueRows
    BY DEF DialogueRows, Replies
  <2>2. dialogue' \in Seq(DialogueRows)
    BY <1>8, <2>1 DEF AttendantReplies, TurnTypeOK
  <2> QED BY <1>8, <2>2 DEF AttendantReplies, TurnTypeOK
<1> QED BY <1>1, <1>2, <1>3, <1>4, <1>5, <1>6, <1>7, <1>8 DEF TurnNext

\* The dialogue only grows, so what was asked stays asked.
LEMMA AskedStays ==
    ASSUME TurnTypeOK, TurnNext, QuestionAsked
    PROVE  QuestionAsked'
<1> DEFINE grows == /\ Len(dialogue) \in Nat /\ Len(dialogue') \in Nat /\ Len(dialogue) <= Len(dialogue')
                    /\ \A i \in 1 .. Len(dialogue) : dialogue'[i] = dialogue[i]
<1>1. grows
  <2>1. ASSUME NEW more \in Seq(DialogueRows), dialogue' = dialogue \o more
        PROVE  grows
    <3>1. dialogue \in Seq(DialogueRows) /\ Len(dialogue) \in Nat /\ Len(more) \in Nat
      BY DEF TurnTypeOK
    <3>2. /\ Len(dialogue \o more) = Len(dialogue) + Len(more)
          /\ \A i \in 1 .. Len(dialogue) + Len(more) :
                (dialogue \o more)[i] = IF i <= Len(dialogue) THEN dialogue[i] ELSE more[i - Len(dialogue)]
      BY <3>1, ConcatProperties
    <3>3. ASSUME NEW i \in 1 .. Len(dialogue)
          PROVE  dialogue'[i] = dialogue[i]
      <4>1. i \in 1 .. Len(dialogue) + Len(more) /\ i <= Len(dialogue)
        BY <3>1
      <4> QED BY <2>1, <3>2, <4>1
    <3> QED BY <2>1, <3>1, <3>2, <3>3
  <2>2. CASE dialogue' = dialogue
    BY <2>2 DEF TurnTypeOK
  <2>3. ASSUME AttendantReplies
        PROVE  grows
    <3>1. [role |-> "agent", text |-> "answer"] \in DialogueRows
      BY DEF DialogueRows, Replies
    <3>2. dialogue' = Append(dialogue, [role |-> "agent", text |-> "answer"])
      BY <2>3 DEF AttendantReplies
    <3> QED BY <3>1, <3>2, AppendProperties DEF TurnTypeOK
  <2>4. ASSUME NEW d \in Posts, NEW k \in Said, SaveRows(d, k)
        PROVE  \E more \in Seq(DialogueRows) : dialogue' = dialogue \o more
    <3>1. posting[d].response.reply \in Replies
      BY DEF TurnTypeOK, Responses
    <3>2. /\ [role |-> "customer", text |-> "words"] \in DialogueRows
          /\ [role |-> IF posting[d].response.sent THEN "agent" ELSE "suggestion", text |-> posting[d].response.reply]
                \in DialogueRows
      BY <3>1 DEF DialogueRows
    <3> DEFINE both == <<[role |-> "customer", text |-> "words"],
                         [role |-> IF posting[d].response.sent THEN "agent" ELSE "suggestion",
                          text |-> posting[d].response.reply]>>
    <3>3. both \in Seq(DialogueRows)
      BY <3>2
    <3>4. dialogue' = dialogue \o both
      BY <2>4 DEF SaveRows
    <3> QED BY <3>3, <3>4
  <2> QED BY <2>1, <2>2, <2>3, <2>4
          DEF TurnNext, ArrivePost, ReadDialogue, SaveRating, DecideTurn, SaveIdempotency, SaveOutcome, PostFails
<1>2. PICK i \in 1 .. Len(dialogue) : dialogue[i] = [role |-> "agent", text |-> "answer and question"]
  BY DEF QuestionAsked
<1>3. dialogue'[i] = [role |-> "agent", text |-> "answer and question"]
  BY <1>1, <1>2
<1>4. i \in 1 .. Len(dialogue')
  BY <1>1
<1> QED BY <1>3, <1>4 DEF QuestionAsked

\* Every step but the arrival of a POST moves one that has arrived.
LEMMA WhoMoves ==
    ASSUME TurnTypeOK, TurnNext
    PROVE  \/ \E d \in Posts, k \in Said, auto \in BOOLEAN : ArrivePost(d, k, auto)
           \/ \E d \in Posts, step \in PostSteps \ {"idle"}, response \in Responses :
                 /\ Then(d, step, response)
                 /\ posting[d].step \notin {"idle", "answered", "error"}
                 /\ outcomes' \in {outcomes, outcomes \union {d}}
                 /\ outcomes' # outcomes => step = "answered"
           \/ UNCHANGED <<words, kept, outcomes, rating, posting>>
<1>1. ASSUME NEW d \in Posts, NEW k \in Said, ReadDialogue(d, k)
      PROVE  \E step \in {"rate", "decide"}, response \in Responses :
                Then(d, step, response) /\ posting[d].step = "read" /\ UNCHANGED outcomes
  BY <1>1 DEF ReadDialogue, AtStep, NoResponse, Responses, Replies, TurnStatuses
<1>2. ASSUME NEW d \in Posts, NEW k \in Said, SaveRating(d, k)
      PROVE  \E response \in Responses :
                Then(d, "rows", response) /\ posting[d].step = "rate" /\ UNCHANGED outcomes
  BY <1>2 DEF SaveRating, AtStep, TurnTypeOK, Responses, Replies, TurnStatuses
<1>3. ASSUME NEW d \in Posts, NEW k \in Said, NEW final \in {"resolved", "handoff"}, DecideTurn(d, k, final)
      PROVE  \E response \in Responses :
                Then(d, "rows", response) /\ posting[d].step = "decide" /\ UNCHANGED outcomes
  <2>1. PICK reply \in {"answer", "answer and question"}, status \in {"resolved", "handoff", "suggested"} :
            Then(d, "rows", [reply |-> reply, sent |-> posting[d].auto, status |-> status])
    BY <1>3 DEF DecideTurn
  <2>2. [reply |-> reply, sent |-> posting[d].auto, status |-> status] \in Responses
    BY <2>1 DEF TurnTypeOK, Responses, Replies, TurnStatuses
  <2> QED BY <1>3, <2>1, <2>2 DEF DecideTurn, AtStep
<1>4. \A d \in Posts : posting[d].response \in Responses
  BY DEF TurnTypeOK
<1>5. ASSUME NEW d \in Posts, NEW k \in Said,
             SaveRows(d, k) \/ SaveIdempotency(d, k) \/ SaveOutcome(d, k)
      PROVE  \E step \in {"key", "outcome", "error", "answered"} :
                /\ Then(d, step, posting[d].response) /\ posting[d].step \in {"rows", "key", "outcome"}
                /\ outcomes' \in {outcomes, outcomes \union {d}}
                /\ outcomes' # outcomes => step = "answered"
  BY <1>5 DEF SaveRows, SaveIdempotency, SaveOutcome, AtStep
<1>6. ASSUME NEW d \in Posts, PostFails(d)
      PROVE  /\ Then(d, "error", posting[d].response) /\ UNCHANGED outcomes
             /\ posting[d].step \notin {"idle", "answered", "error"}
  BY <1>6 DEF PostFails, Then, TurnTypeOK
<1>7. CASE AttendantReplies
  BY <1>7 DEF AttendantReplies
<1> QED BY <1>1, <1>2, <1>3, <1>4, <1>5, <1>6, <1>7 DEF TurnNext, PostSteps

LEMMA MessagesStay ==
    ASSUME TurnTypeOK, PostsOfOneMessage, TurnNext
    PROVE  PostsOfOneMessage'
<1>1. ASSUME NEW d \in Posts, NEW k \in Said, NEW auto \in BOOLEAN, ArrivePost(d, k, auto)
      PROVE  PostsOfOneMessage'
  <2>1. posting'[d].step # "idle" /\ posting'[d].message = {k}
    BY <1>1 DEF ArrivePost, NewPost, TurnTypeOK
  <2>2. \A e \in Posts : e # d => posting'[e] = posting[e]
    BY <1>1 DEF ArrivePost, TurnTypeOK
  <2> QED BY <1>1, <2>1, <2>2 DEF ArrivePost, PostsOfOneMessage
<1>2. ASSUME NEW d \in Posts, NEW step \in PostSteps \ {"idle"}, NEW response \in Responses,
             Then(d, step, response), posting[d].step \notin {"idle", "answered", "error"},
             outcomes' \in {outcomes, outcomes \union {d}}
      PROVE  PostsOfOneMessage'
  BY <1>2, PostMoves DEF PostsOfOneMessage
<1>3. CASE UNCHANGED <<words, kept, outcomes, rating, posting>>
  BY <1>3 DEF PostsOfOneMessage
<1> QED BY <1>1, <1>2, <1>3, WhoMoves

LEMMA RatesStay ==
    ASSUME TurnTypeOK, RatesAfterQuestion, RatingsWereAskedFor, TurnNext
    PROVE  RatesAfterQuestion' /\ RatingsWereAskedFor'
<1>1. words' = words
  BY DEF TurnNext, ArrivePost, ReadDialogue, SaveRating, DecideTurn, SaveRows, SaveIdempotency, SaveOutcome,
         PostFails, AttendantReplies
<1>2. ASSUME NEW d \in Posts, posting'[d].step = "rate"
      PROVE  QuestionAsked' /\ \A k \in posting'[d].message : words'[k] = "score"
  <2>1. CASE posting[d].step = "rate" /\ posting'[d].message = posting[d].message
    BY <1>1, <2>1, AskedStays DEF RatesAfterQuestion
  <2>2. ASSUME NEW k \in Said, ReadDialogue(d, k)
        PROVE  QuestionAsked' /\ \A j \in posting'[d].message : words'[j] = "score"
    <3>1. posting'[d].message = {k} /\ IsAwaitingCsat /\ words[k] = "score"
      BY <1>2, <2>2, PostMoves DEF ReadDialogue, AtStep
    <3>2. QuestionAsked
      BY <3>1 DEF QuestionAsked, IsAwaitingCsat
    <3> QED BY <1>1, <3>1, <3>2, AskedStays
  <2>3. CASE posting'[d] = posting[d]
    BY <1>2, <2>1, <2>3
  <2>4. ASSUME NEW e \in Posts, NEW k \in Said, NEW auto \in BOOLEAN, ArrivePost(e, k, auto)
        PROVE  posting'[d] = posting[d]
    BY <1>2, <2>4 DEF ArrivePost, NewPost, TurnTypeOK
  <2>5. ASSUME NEW e \in Posts, NEW k \in Said, ReadDialogue(e, k), e # d
        PROVE  posting'[d] = posting[d]
    BY <2>5, PostMoves DEF ReadDialogue
  <2>6. ASSUME NEW e \in Posts, NEW step \in PostSteps \ {"rate"}, NEW response, Then(e, step, response)
        PROVE  posting'[d] = posting[d]
    BY <1>2, <2>6, PostMoves
  <2>7. ASSUME NEW e \in Posts, PostFails(e)
        PROVE  posting'[d] = posting[d]
    BY <1>2, <2>7 DEF PostFails, TurnTypeOK
  <2>8. CASE AttendantReplies
    BY <2>3, <2>8 DEF AttendantReplies
  <2>9. ASSUME NEW e \in Posts, NEW k \in Said, NEW final \in {"resolved", "handoff"},
               SaveRating(e, k) \/ DecideTurn(e, k, final) \/ SaveRows(e, k)
        PROVE  posting'[d] = posting[d]
    <3>1. \E step \in {"rows", "key"} : \E response : Then(e, step, response)
      BY <2>9 DEF SaveRating, DecideTurn, SaveRows
    <3> QED BY <2>6, <3>1 DEF PostSteps
  <2>10. ASSUME NEW e \in Posts, NEW k \in Said, SaveIdempotency(e, k) \/ SaveOutcome(e, k)
         PROVE  posting'[d] = posting[d]
    <3>1. \E step \in {"outcome", "error", "answered"} : \E response : Then(e, step, response)
      BY <2>10 DEF SaveIdempotency, SaveOutcome
    <3> QED BY <2>6, <3>1 DEF PostSteps
  <2>11. \A e \in Posts, k \in Said : SaveRating(e, k) \/ SaveRows(e, k) => posting'[d] = posting[d]
    BY <2>9
  <2> QED BY <2>2, <2>3, <2>4, <2>5, <2>7, <2>8, <2>9, <2>10, <2>11 DEF TurnNext
<1>3. ASSUME rating' = rating
      PROVE  RatingsWereAskedFor'
  <2>1. rating # {} => QuestionAsked /\ \A k \in rating : words[k] = "score"
    BY DEF RatingsWereAskedFor, QuestionAsked
  <2>2. rating # {} => QuestionAsked'
    BY <2>1, AskedStays
  <2>3. rating' # {} => QuestionAsked' /\ \A k \in rating' : words'[k] = "score"
    BY <1>1, <1>3, <2>1, <2>2
  <2> QED BY <2>3 DEF RatingsWereAskedFor, QuestionAsked
<1>4. ASSUME NEW d \in Posts, NEW k \in Said, SaveRating(d, k), rating' = {k}
      PROVE  RatingsWereAskedFor'
  <2>1. QuestionAsked /\ words[k] = "score"
    BY <1>4 DEF SaveRating, AtStep, RatesAfterQuestion
  <2>2. QuestionAsked'
    BY <2>1, AskedStays
  <2> QED BY <1>1, <1>4, <2>1, <2>2 DEF RatingsWereAskedFor, QuestionAsked
<1>5. rating' = rating \/ \E d \in Posts, k \in Said : SaveRating(d, k) /\ rating' = {k}
  BY DEF TurnNext, ArrivePost, ReadDialogue, SaveRating, DecideTurn, SaveRows, SaveIdempotency, SaveOutcome,
         PostFails, AttendantReplies
<1> QED BY <1>2, <1>3, <1>4, <1>5 DEF RatesAfterQuestion

\* A POST that goes on without keeping anything, with something to say if it is
\* at a step that needs it.
LEMMA GoesOn ==
    ASSUME TurnTypeOK, SaysWhatIsKept, NEW d \in Posts, NEW step, NEW response, Then(d, step, response),
           posting[d].step # "answered", step \notin {"outcome", "answered"},
           step \in {"rows", "key"} => response # NoResponse, UNCHANGED <<kept, outcomes>>
    PROVE  SaysWhatIsKept'
<1>1. d \notin outcomes
  BY DEF SaysWhatIsKept
<1>2. \A e \in Posts : e # d => posting'[e] = posting[e]
  BY PostMoves
<1>3. posting'[d].step = step /\ posting'[d].response = response
  BY PostMoves
<1>4. \A e \in Posts : Keeper(e)' => e # d /\ Keeper(e)
  BY <1>1, <1>2, <1>3 DEF Keeper
<1> QED BY <1>1, <1>2, <1>3, <1>4 DEF SaysWhatIsKept

LEMMA KeptStays ==
    ASSUME TurnTypeOK, PostsOfOneMessage, SaysWhatIsKept, TurnNext
    PROVE  SaysWhatIsKept'
<1>1. ASSUME NEW d \in Posts, NEW k \in Said, NEW auto \in BOOLEAN, ArrivePost(d, k, auto)
      PROVE  SaysWhatIsKept'
  <2>1. /\ d \notin outcomes /\ UNCHANGED <<kept, outcomes>>
        /\ \A e \in Posts : e # d => posting'[e] = posting[e]
    BY <1>1 DEF ArrivePost, PostsOfOneMessage, TurnTypeOK
  <2>2. /\ posting'[d].message = {k}
        /\ \/ posting'[d].step = "read"
           \/ posting'[d].step = "answered" /\ kept[k] # NoResponse /\ posting'[d].response = kept[k]
    BY <1>1 DEF ArrivePost, NewPost, TurnTypeOK
  <2>3. \A e \in Posts : Keeper(e)' => e # d /\ Keeper(e)
    BY <2>1, <2>2 DEF Keeper
  <2> QED BY <2>1, <2>2, <2>3 DEF SaysWhatIsKept
<1>2. ASSUME NEW d \in Posts, NEW k \in Said, ReadDialogue(d, k)
      PROVE  SaysWhatIsKept'
  BY <1>2, GoesOn DEF ReadDialogue, AtStep
<1>3. ASSUME NEW d \in Posts, NEW k \in Said, SaveRating(d, k)
      PROVE  SaysWhatIsKept'
  BY <1>3, GoesOn DEF SaveRating, AtStep, NoResponse
<1>4. ASSUME NEW d \in Posts, NEW k \in Said, NEW final \in {"resolved", "handoff"}, DecideTurn(d, k, final)
      PROVE  SaysWhatIsKept'
  <2>0. PICK reply \in {"answer", "answer and question"} :
            \E sent, status : Then(d, "rows", [reply |-> reply, sent |-> sent, status |-> status])
    BY <1>4 DEF DecideTurn
  <2>1. PICK sent, status : Then(d, "rows", [reply |-> reply, sent |-> sent, status |-> status])
    BY <2>0
  <2>2. [reply |-> reply, sent |-> sent, status |-> status] # NoResponse
    BY <2>1 DEF NoResponse
  <2>3. posting[d].step = "decide" /\ UNCHANGED <<kept, outcomes>>
    BY <1>4 DEF DecideTurn, AtStep
  <2> DEFINE response == [reply |-> reply, sent |-> sent, status |-> status]
  <2>4. Then(d, "rows", response) /\ response # NoResponse
    BY <2>1, <2>2
  <2> HIDE DEF response
  <2> QED BY <2>3, <2>4, GoesOn
<1>5. ASSUME NEW d \in Posts, NEW k \in Said, SaveRows(d, k)
      PROVE  SaysWhatIsKept'
  <2>1. posting[d].response # NoResponse
    BY <1>5 DEF SaveRows, AtStep, SaysWhatIsKept
  <2> QED BY <1>5, <2>1, GoesOn DEF SaveRows, AtStep
<1>6. ASSUME NEW d \in Posts, PostFails(d)
      PROVE  SaysWhatIsKept'
  <2>1. Then(d, "error", posting[d].response) /\ posting[d].step # "answered"
    BY <1>6 DEF PostFails, Then, TurnTypeOK
  <2> QED BY <1>6, <2>1, GoesOn DEF PostFails
<1>7. ASSUME NEW d \in Posts, NEW k \in Said, SaveIdempotency(d, k), kept[k] # NoResponse
      PROVE  SaysWhatIsKept'
  BY <1>7, GoesOn DEF SaveIdempotency, AtStep
<1>8. ASSUME NEW d \in Posts, NEW k \in Said, SaveIdempotency(d, k), kept[k] = NoResponse
      PROVE  SaysWhatIsKept'
  <2>1. /\ posting[d].step = "key" /\ posting[d].message = {k} /\ posting[d].response # NoResponse
        /\ Then(d, "outcome", posting[d].response) /\ UNCHANGED outcomes
        /\ kept' = [kept EXCEPT ![k] = posting[d].response]
    BY <1>8 DEF SaveIdempotency, AtStep, SaysWhatIsKept
  <2>2. /\ \A e \in Posts : e # d => posting'[e] = posting[e]
        /\ posting'[d].step = "outcome" /\ posting'[d].response = posting[d].response
        /\ posting'[d].message = {k}
    BY <2>1, PostMoves
  <2>3. /\ kept'[k] = posting[d].response
        /\ \A j \in Said : j # k => kept'[j] = kept[j]
    BY <2>1 DEF TurnTypeOK
  <2>4. \A e \in Posts : posting[e].step \in {"outcome", "answered"} => k \notin posting[e].message
    BY <1>8 DEF SaysWhatIsKept
  <2>5. \A e \in Posts : posting[e].message \subseteq Said
    BY DEF TurnTypeOK
  <2>6. \A e \in Posts : posting'[e].step \in {"outcome", "answered"} =>
            \A j \in posting'[e].message : kept'[j] # NoResponse /\ posting'[e].response = kept'[j]
    BY <2>1, <2>2, <2>3, <2>4, <2>5 DEF SaysWhatIsKept
  <2>7. \A e \in Posts : Keeper(e) => k \notin posting[e].message
    BY <2>4 DEF Keeper, SaysWhatIsKept
  <2>8. \A e \in Posts : Keeper(e)' => e = d \/ Keeper(e)
    BY <2>1, <2>2 DEF Keeper
  <2>9. \A c, e \in Posts : Keeper(c)' /\ Keeper(e)' /\ posting'[c].message = posting'[e].message => c = e
    BY <2>2, <2>7, <2>8 DEF SaysWhatIsKept
  <2>10. \A e \in Posts : /\ posting'[e].step \in {"rows", "key"} => posting'[e].response # NoResponse
                          /\ e \in outcomes' => posting'[e].step = "answered"
    BY <2>1, <2>2 DEF SaysWhatIsKept
  <2> QED BY <2>6, <2>9, <2>10 DEF SaysWhatIsKept
<1>9. ASSUME NEW d \in Posts, NEW k \in Said, SaveOutcome(d, k)
      PROVE  SaysWhatIsKept'
  <2>1. /\ posting[d].step = "outcome" /\ Then(d, "answered", posting[d].response) /\ UNCHANGED kept
        /\ outcomes \subseteq outcomes' /\ outcomes' \subseteq outcomes \union {d}
    BY <1>9 DEF SaveOutcome, AtStep
  <2>2. /\ \A e \in Posts : e # d => posting'[e] = posting[e]
        /\ posting'[d].step = "answered" /\ posting'[d].response = posting[d].response
        /\ posting'[d].message = posting[d].message
    BY <2>1, PostMoves
  <2>3. \A e \in Posts : Keeper(e)' => Keeper(e)
    BY <2>1, <2>2 DEF Keeper
  <2> QED BY <2>1, <2>2, <2>3 DEF SaysWhatIsKept
<1>10. CASE AttendantReplies
  BY <1>10 DEF AttendantReplies, SaysWhatIsKept, Keeper
<1> QED BY <1>1, <1>2, <1>3, <1>4, <1>5, <1>6, <1>7, <1>8, <1>9, <1>10 DEF TurnNext

LEMMA TurnInvariance == TurnSpec => []TurnInv
<1>1. TurnInit => TurnInv
  <2> SUFFICES ASSUME TurnInit PROVE TurnInv
    OBVIOUS
  <2>1. NoResponse \in Responses /\ NewPost.response = NoResponse /\ NewPost.step = "idle" /\ NewPost.message = {}
    BY DEF NoResponse, Responses, Replies, TurnStatuses, NewPost
  <2>2. posting \in [Posts -> [step : PostSteps, message : SUBSET Said, auto : BOOLEAN, response : Responses]]
    <3>1. NewPost \in [step : PostSteps, message : SUBSET Said, auto : BOOLEAN, response : Responses]
      BY <2>1 DEF NewPost, PostSteps
    <3> QED BY <3>1 DEF TurnInit
  <2>3. dialogue \in Seq(DialogueRows)
    <3>1. /\ [role |-> "customer", text |-> "words"] \in DialogueRows
          /\ [role |-> "agent", text |-> "answer and question"] \in DialogueRows
      BY DEF DialogueRows, Replies
    <3>2. <<>> \in Seq(DialogueRows)
      OBVIOUS
    <3>3. Asked \in Seq(DialogueRows)
      <4> DEFINE customer == [role |-> "customer", text |-> "words"]
                 agent == [role |-> "agent", text |-> "answer and question"]
      <4>1. customer \in DialogueRows /\ agent \in DialogueRows /\ Asked = <<customer, agent>>
        BY <3>1 DEF Asked
      <4> HIDE DEF customer, agent
      <4> QED BY <4>1
    <3> QED BY <3>2, <3>3 DEF TurnInit
  <2>4. TurnTypeOK
    BY <2>1, <2>2, <2>3 DEF TurnInit, TurnTypeOK, PostSteps
  <2>5. PostsOfOneMessage /\ RatesAfterQuestion /\ SaysWhatIsKept /\ RatingsWereAskedFor
    BY <2>1 DEF TurnInit, PostsOfOneMessage, RatesAfterQuestion, SaysWhatIsKept, Keeper, RatingsWereAskedFor
  <2> QED BY <2>4, <2>5 DEF TurnInv
<1>2. TurnInv /\ [TurnNext]_turnVars => TurnInv'
  <2> SUFFICES ASSUME TurnInv, [TurnNext]_turnVars PROVE TurnInv'
    OBVIOUS
  <2>1. CASE TurnNext
    BY <2>1, TurnTypeStays, MessagesStay, RatesStay, KeptStays DEF TurnInv
  <2>2. CASE UNCHANGED turnVars
    <3>1. TurnTypeOK' /\ PostsOfOneMessage'
      BY <2>2 DEF turnVars, TurnInv, TurnTypeOK, PostsOfOneMessage
    <3>2. RatesAfterQuestion' /\ RatingsWereAskedFor'
      BY <2>2 DEF turnVars, TurnInv, RatesAfterQuestion, QuestionAsked, RatingsWereAskedFor
    <3>3. SaysWhatIsKept'
      BY <2>2 DEF turnVars, TurnInv, SaysWhatIsKept, Keeper
    <3> QED BY <3>1, <3>2, <3>3 DEF TurnInv
  <2> QED BY <2>1, <2>2
<1> QED BY <1>1, <1>2, PTL DEF TurnSpec

LEMMA TurnInvSays == TurnInv => TurnTypeOK /\ PostsCountOnce
<1> SUFFICES ASSUME TurnInv PROVE OneAnswerPerMessage
  BY DEF TurnInv, PostsCountOnce
<1> SUFFICES ASSUME NEW c \in Posts, NEW d \in Posts, c # d, posting[c].message = posting[d].message
             PROVE  /\ ~(c \in outcomes /\ d \in outcomes)
                    /\ posting[c].step = "answered" /\ posting[d].step = "answered" =>
                          posting[c].response = posting[d].response
  BY DEF OneAnswerPerMessage
<1>1. ~(c \in outcomes /\ d \in outcomes)
  BY DEF TurnInv, SaysWhatIsKept, Keeper
<1>2. ASSUME posting[c].step = "answered", posting[d].step = "answered"
      PROVE  posting[c].response = posting[d].response
  <2>1. PICK k \in Said : posting[c].message = {k}
    BY <1>2 DEF TurnInv, PostsOfOneMessage
  <2>2. posting[d].message = {k} /\ k \in {k}
    BY <2>1
  <2>3. \A e \in {c, d} : \A j \in posting[e].message : posting[e].response = kept[j]
    BY <1>2 DEF TurnInv, SaysWhatIsKept
  <2>4. posting[c].response = kept[k] /\ posting[d].response = kept[k]
    BY <2>1, <2>2, <2>3
  <2> QED BY <2>4
<1> QED BY <1>1, <1>2

-----------------------------------------------------------------------------
(* The channel. *)

\* Each part sees its own steps and nothing else: what the parts promise by
\* themselves holds of the channel.
THEOREM PartsKeepApart == ChannelSpec => StateSpec /\ Spec /\ TurnSpec
<1>1. ChannelInit => StateInit /\ Init /\ TurnInit
  BY DEF ChannelInit
<1>2. [ChannelNext]_channelVars => [StateNext]_stateVars /\ [Next]_vars /\ [TurnNext]_turnVars
  BY DEF ChannelNext, StateRuns, ReceiptsRun, TurnRuns, channelVars
<1> QED BY <1>1, <1>2, PTL DEF ChannelSpec, StateSpec, Spec, TurnSpec

\* The types of the part that runs.
THEOREM ChannelTypes == ChannelSpec => []ChannelTypeOK
<1>1. channelPart \in {"state", "receipts", "turn"} /\ StateInv /\ ReceiptsInv /\ TurnInv => ChannelTypeOK
  BY StateInvSays, TurnInvSays DEF ReceiptsInv, ChannelTypeOK
<1>2. ChannelSpec => [](channelPart \in {"state", "receipts", "turn"})
  <2>1. ChannelInit => channelPart \in {"state", "receipts", "turn"}
    BY ChannelPartsAssumption DEF ChannelInit
  <2>2. [ChannelNext]_channelVars /\ channelPart \in {"state", "receipts", "turn"}
            => (channelPart \in {"state", "receipts", "turn"})'
    BY DEF ChannelNext, StateRuns, ReceiptsRun, TurnRuns, channelVars
  <2> QED BY <2>1, <2>2, PTL DEF ChannelSpec
<1> QED BY <1>1, <1>2, PartsKeepApart, StateInvariance, ReceiptsInvariance, TurnInvariance, PTL

\* For every set of texts: whatever the order and the repetitions, no receipt
\* delivered after the row was there is above what the row shows.
THEOREM ReceiptsConverge == ChannelSpec => []NothingIsForgotten
<1>1. ReceiptsInv => NothingIsForgotten
  BY DEF ReceiptsInv
<1> QED BY <1>1, PartsKeepApart, ReceiptsInvariance, PTL

\* For every set of texts: no receipt lowers what another one raised.
THEOREM ReceiptsOnlyRise == ChannelSpec => NeverDowngrades
<1>1. ReceiptsInv /\ [Next]_vars => [KeepsRank]_vars
  BY StepKeeps
<1> QED BY <1>1, PartsKeepApart, ReceiptsInvariance, PTL DEF Spec, NeverDowngrades

\* For any requests of any attendants: a customer who wrote after the last
\* resolution has an open ticket, unless the table did not answer the message or a
\* resolution crossed it.
THEOREM CustomersHaveTickets == ChannelSpec => []WaitingHasTicket
  BY PartsKeepApart, StateInvariance, StateInvSays, PTL

\* For any requests of any attendants, in any order: a conversation passes from
\* one to another only by a takeover or by one who was overtaken, nobody is put in
\* charge by somebody else, and what is written changes something.
THEOREM NobodyIsSurprised == ChannelSpec => WritesAreDeliberate
<1>1. StateInv /\ [StateNext]_stateVars =>
          [TakesOnPurpose]_stateVars /\ [Volunteers]_stateVars /\ [Changes]_stateVars
  BY StateStepKeeps
<1> QED BY <1>1, PartsKeepApart, StateInvariance, PTL
        DEF StateSpec, WritesAreDeliberate, TakenOnlyOnPurpose, NobodyIsVolunteered, NoEmptyChange

\* For any POSTs of any messages, failing and repeated anywhere: a message counts as
\* one outcome at most, its answers agree, and a rating was asked for.
THEOREM PostsAreCountedOnce == ChannelSpec => []PostsCountOnce
  BY PartsKeepApart, TurnInvariance, TurnInvSays, PTL
=============================================================================
