--------------------------- MODULE MetaInboundProofs ---------------------------
(***************************************************************************)
(* What TLAPS proves of the webhook for any messages, deliveries, faults   *)
(* and attendants: it uses the reservation as the senders do, its history  *)
(* says what happened, what was acknowledged is in it, and the AI answers  *)
(* and asks as far as its gate and its menu can see.                       *)
(***************************************************************************)
EXTENDS MetaInbound, ReplyClaimsProofs, FiniteSetTheorems, SequenceTheorems

-----------------------------------------------------------------------------
(* The webhook implements the reservation.                                 *)

LEMMA StepFollows == ASSUME [Next]_vars PROVE [ClaimNext]_claimVars
<1>1. CASE UNCHANGED vars
  BY <1>1 DEF vars
<1>2. CASE HumanStep
  BY <1>2 DEF HumanStep, HumanClaims, HumanReplies, HumanReleases, HumanResolves
<1>3. ASSUME NEW d \in Attempts, Arrival(d) \/ GateUnreadable(d)
      PROVE  UNCHANGED claimVars
  BY <1>3 DEF Arrival, Triage, TriageUnavailable, GateUnreadable
<1>4. ASSUME NEW d \in Attempts, Reply(d) \/ MetaMoves(d)
      PROVE  ClaimNext
  BY <1>4 DEF Reply, MetaMoves, ClaimNext
<1>5. ASSUME NEW d \in Attempts, Fail(d)
      PROVE  [ClaimNext]_claimVars
  BY <1>5 DEF Fail, ClaimNext
<1>6. ASSUME NEW d \in Attempts, Handler(d)
      PROVE  Reply(d) \/ UNCHANGED claimVars
  BY <1>6 DEF Handler, IgnoreLong, Unsupported, Gate, FindProcessed, Classify, SaveTurn, KeepResponse,
              KeepConflicts, Note
<1> QED BY <1>1, <1>2, <1>3, <1>4, <1>5, <1>6 DEF Next, Step

\* Whatever the handlers, their errors and the attendants do to the reservation is
\* a step of the senders, for any messages and deliveries.
THEOREM HandlersFollowReservation == Spec => FollowsReservation
<1>1. Init => ClaimInit
  BY DEF Init
<1>2. [Next]_vars => [ClaimNext]_claimVars
  BY StepFollows
<1> QED BY <1>1, <1>2, PTL DEF Spec, FollowsReservation, ClaimSpec

\* So the customer of the webhook, too, never has one reply twice, but for the copies
\* that a sender disowned, whatever the handlers, Meta and the attendants do.
THEOREM WebhookNeverTwice == Spec => []AtMostOnce
<1> QED BY HandlersFollowReservation, NeverTwice, PTL DEF FollowsReservation

-----------------------------------------------------------------------------
(* The types of the records.                                               *)

Turns == [ticket : Nat, stage : Stages \cup {"none"}, intent : {"none", "vague", "sure"},
          auto : BOOLEAN, class : {"none", "menu", "sure", "vague"}, seen : Nat]
Tickets == [number : Nat, open : BOOLEAN, stage : Stages, intent : {"none", "vague", "sure"}]

\* The rows that a handler inserts: the customer's, and at most one more.
LEMMA SavedRows ==
    ASSUME TypeOK, NEW d \in Attempts, SaveTurn(d)
    PROVE  /\ history' \in Seq(Rows)
           /\ \/ Len(history') = Len(history) + 1
              \/ Len(history') = Len(history) + 2
           /\ \A i \in 1..Len(history) : history'[i] = history[i]
           /\ history'[Len(history) + 1] = Row("customer", KeyOf[d], NoAttempt)
           /\ Len(history') = Len(history) + 2 =>
                \/ /\ answer[d].told = "sent"
                   /\ history'[Len(history) + 2] = Row("ai", KeyOf[d], answer[d].text)
                \/ history'[Len(history) + 2] = Row("suggestion", KeyOf[d], NoAttempt)
<1> DEFINE first == Row("customer", KeyOf[d], NoAttempt)
           said == Row("ai", KeyOf[d], answer[d].text)
           hint == Row("suggestion", KeyOf[d], NoAttempt)
<1>1. history \in Seq(Rows) /\ Len(history) \in Nat
  BY DEF TypeOK
<1>2. first \in Rows /\ said \in Rows /\ hint \in Rows
  BY KeysAssumption DEF TypeOK, ClaimTypeOK, Answers, Rows, Row
<1>3. PICK more \in Seq(Rows) :
         /\ history' = history \o <<first>> \o more
         /\ \/ Len(more) = 0
            \/ Len(more) = 1 /\ more[1] = said /\ answer[d].told = "sent"
            \/ Len(more) = 1 /\ more[1] = hint
  <2>1. CASE KeyOf[d] \in Media
    <3>1. history' = history \o <<first>> \o <<>>
      BY <2>1 DEF SaveTurn
    <3>2. <<>> \in Seq(Rows) /\ Len(<<>>) = 0
      OBVIOUS
    <3> QED BY <3>1, <3>2
  <2>2. CASE KeyOf[d] \notin Media /\ answer[d].told = "sent"
    <3>1. history' = history \o <<first>> \o <<said>>
      BY <2>2 DEF SaveTurn
    <3>2. <<said>> \in Seq(Rows) /\ Len(<<said>>) = 1 /\ <<said>>[1] = said
      BY <1>2
    <3> QED BY <2>2, <3>1, <3>2
  <2>3. CASE KeyOf[d] \notin Media /\ answer[d].told # "sent"
    <3>1. history' = history \o <<first>> \o <<hint>>
      BY <2>3 DEF SaveTurn
    <3>2. <<hint>> \in Seq(Rows) /\ Len(<<hint>>) = 1 /\ <<hint>>[1] = hint
      BY <1>2
    <3> QED BY <3>1, <3>2
  <2> QED BY <2>1, <2>2, <2>3
<1> DEFINE longer == history \o <<first>>
<1> HIDE DEF first, said, hint
<1>4. /\ longer \in Seq(Rows)
      /\ Len(longer) = Len(history) + 1
      /\ \A i \in 1..Len(history) : longer[i] = history[i]
      /\ longer[Len(history) + 1] = first
  BY <1>1, <1>2
<1>5. history' = longer \o more
  BY <1>3
<1> HIDE DEF longer
<1>7. /\ history' \in Seq(Rows)
      /\ Len(history') = Len(longer) + Len(more)
      /\ \A i \in 1..Len(longer) : history'[i] = longer[i]
      /\ Len(more) = 1 => history'[Len(longer) + 1] = more[1]
  <2>1. /\ longer \o more \in Seq(Rows)
        /\ Len(longer \o more) = Len(longer) + Len(more)
        /\ \A i \in 1 .. Len(longer) + Len(more) :
              (longer \o more)[i] = IF i <= Len(longer) THEN longer[i] ELSE more[i - Len(longer)]
    BY <1>4, ConcatProperties
  <2>2. Len(longer) \in Nat /\ Len(more) \in Nat /\ Len(longer) + 1 - Len(longer) = 1
    BY <1>1, <1>4
  <2>3. Len(more) = 1 => (longer \o more)[Len(longer) + 1] = more[1]
    BY <2>1, <2>2
  <2> QED BY <1>5, <2>1, <2>2, <2>3
<1>8. Len(history') = Len(history) + 1 + Len(more) /\ Len(more) \in {0, 1}
  BY <1>3, <1>4, <1>7
<1>9. history'[Len(history) + 1] = first /\ \A i \in 1..Len(history) : history'[i] = history[i]
  BY <1>1, <1>4, <1>7
<1>10. Len(history') = Len(history) + 2 =>
          \/ answer[d].told = "sent" /\ history'[Len(history) + 2] = said
          \/ history'[Len(history) + 2] = hint
  BY <1>1, <1>3, <1>4, <1>7
<1>11. \/ Len(history') = Len(history) + 1
       \/ Len(history') = Len(history) + 2
  <2>1. CASE Len(more) = 0
    BY <1>1, <1>8, <2>1
  <2>2. CASE Len(more) = 1
    BY <1>1, <1>8, <2>2
  <2> QED BY <1>8, <2>1, <2>2
<1> QED BY <1>7, <1>9, <1>10, <1>11 DEF first, said, hint

LEMMA HumanRow ==
    ASSUME TypeOK, HumanReplies
    PROVE  /\ history' \in Seq(Rows)
           /\ Len(history') = Len(history) + 1
           /\ \A i \in 1..Len(history) : history'[i] = history[i]
           /\ history'[Len(history) + 1] = Row("human", NoAttempt, NoAttempt)
<1>1. Row("human", NoAttempt, NoAttempt) \in Rows /\ history \in Seq(Rows)
  BY DEF TypeOK, Rows, Row
<1> QED BY <1>1 DEF HumanReplies

LEMMA FaultType == ASSUME TypeOK, Fault \/ UNCHANGED faults PROVE faults' \in 0..MaxFaults
BY BoundsAssumption DEF TypeOK, Fault

LEMMA EventType == ASSUME TypeOK, Event \/ UNCHANGED events PROVE events' \in 0..MaxEvents
BY BoundsAssumption DEF TypeOK, Event

RecordsOK ==
    /\ step \in [Attempts -> Working \cup {"expected", "acked", "error"}]
    /\ turn \in [Attempts -> Turns]
    /\ history \in Seq(Rows)
    /\ processed \subseteq Keys
    /\ ticket \in Tickets
    /\ state \in [status : {"open", "resolved"}, assigned : BOOLEAN, resolvedAt : Nat]
    /\ resolutions \subseteq Nat
    /\ faults \in 0..MaxFaults /\ events \in 0..MaxEvents

LEMMA TypeParts == TypeOK <=> ClaimTypeOK /\ RecordsOK /\ kind \in [Keys -> Kinds]
BY DEF TypeOK, RecordsOK, Turns, Tickets

LEMMA TriageTypes ==
    ASSUME RecordsOK, NEW d \in Attempts, Triage(d)
    PROVE  turn' \in [Attempts -> Turns] /\ ticket' \in Tickets
<1>1. PICK current \in Tickets :
        /\ ticket' = current
        /\ turn' = [turn EXCEPT ![d] = [NoTurn EXCEPT !.ticket = current.number,
                                        !.stage = current.stage, !.intent = current.intent]]
  <2>1. ticket \in Tickets /\ [number |-> ticket.number + 1, open |-> TRUE,
                               stage |-> "new", intent |-> "none"] \in Tickets
    BY DEF RecordsOK, Tickets, Stages
  <2> QED BY <2>1 DEF Triage
<1>2. [NoTurn EXCEPT !.ticket = current.number, !.stage = current.stage, !.intent = current.intent] \in Turns
  BY <1>1 DEF Turns, NoTurn, Tickets
<1> QED BY <1>1, <1>2 DEF RecordsOK

LEMMA NoteTypes ==
    ASSUME RecordsOK, NEW d \in Attempts, Note(d)
    PROVE  ticket' \in Tickets
<1>1. UNCHANGED ticket \/ \E s \in Stages, i \in {"none", "vague", "sure"} :
                             ticket' = [ticket EXCEPT !.stage = s, !.intent = i]
  BY DEF RecordsOK, Tickets, Note, Stages
<1> QED BY <1>1 DEF RecordsOK, Tickets

LEMMA HandlerTypes ==
    ASSUME TypeOK, NEW d \in Attempts, Arrival(d) \/ Handler(d)
    PROVE  RecordsOK'
<1>1. RecordsOK /\ KeyOf[d] \in Keys
  BY TypeParts, KeysAssumption
<1>2. step' \in [Attempts -> Working \cup {"expected", "acked", "error"}]
  BY <1>1 DEF RecordsOK, Arrival, Triage, TriageUnavailable, Handler, Go, Working, IgnoreLong, Unsupported,
              Gate, FindProcessed, Classify, Reply, SaveTurn, KeepResponse, KeepConflicts, Note
<1>3. faults' \in 0..MaxFaults /\ events' \in 0..MaxEvents
  <2>1. (Fault \/ UNCHANGED faults) /\ (Event \/ UNCHANGED events)
    BY DEF Arrival, Triage, TriageUnavailable, Handler, IgnoreLong, Unsupported, Gate, FindProcessed,
           Classify, Reply, SaveTurn, KeepResponse, KeepConflicts, Note, records
  <2> QED BY <2>1, FaultType, EventType
<1>4. turn' \in [Attempts -> Turns]
  <2>1. CASE Triage(d)
    BY <1>1, <2>1, TriageTypes
  <2>2. CASE Gate(d)
    <3>0. /\ (BotMayReply /\ (turn[d].stage = "clarifying" \/ ~AutoReplyUsed)) \in BOOLEAN
          /\ Len(history) \in Nat
      BY <1>1 DEF RecordsOK
    <3>1. PICK auto \in BOOLEAN, n \in Nat : turn' = [turn EXCEPT ![d].auto = auto, ![d].seen = n]
      BY <2>2, <3>0, Zenon DEF Gate
    <3> QED BY ZenonT(60), <1>1, <3>1 DEF RecordsOK, Turns
  <2>3. CASE Classify(d)
    <3>1. PICK class \in {"sure", "vague", "menu"} : turn' = [turn EXCEPT ![d].class = class]
      BY <2>3 DEF Classify
    <3> QED BY ZenonT(60), <1>1, <3>1 DEF RecordsOK, Turns
  <2> QED BY <1>1, <2>1, <2>2, <2>3 DEF RecordsOK, Arrival, TriageUnavailable, Handler, IgnoreLong,
             Unsupported, FindProcessed, Reply, SaveTurn, KeepResponse, KeepConflicts, Note
<1>5. ticket' \in Tickets
  <2>1. CASE Triage(d)
    BY <1>1, <2>1, TriageTypes
  <2>2. CASE Note(d)
    BY <1>1, <2>2, NoteTypes
  <2> QED BY <1>1, <2>1, <2>2 DEF RecordsOK, records, Arrival, TriageUnavailable, Handler, IgnoreLong,
             Unsupported, Gate, FindProcessed, Classify, Reply, SaveTurn, KeepResponse, KeepConflicts
<1>6. history' \in Seq(Rows)
  <2>1. CASE SaveTurn(d)
    BY <2>1, SavedRows
  <2> QED BY <1>1, <2>1 DEF RecordsOK, records, Arrival, Triage, TriageUnavailable, Handler, IgnoreLong,
             Unsupported, Gate, FindProcessed, Classify, Reply, KeepResponse, KeepConflicts, Note
<1>7. processed' \subseteq Keys /\ UNCHANGED <<state, resolutions>>
  BY <1>1 DEF RecordsOK, records, Arrival, Triage, TriageUnavailable, Handler, IgnoreLong, Unsupported,
              Gate, FindProcessed, Classify, Reply, SaveTurn, KeepResponse, KeepConflicts, Note
<1> QED BY <1>1, <1>2, <1>3, <1>4, <1>5, <1>6, <1>7 DEF RecordsOK

LEMMA HumanTypes ==
    ASSUME TypeOK, HumanStep
    PROVE  RecordsOK'
<1>1. RecordsOK /\ Len(history) \in Nat
  BY TypeParts DEF RecordsOK
<1>2. history' \in Seq(Rows)
  BY <1>1, HumanRow DEF RecordsOK, HumanStep, HumanClaims, HumanReleases, HumanResolves
<1>3. faults' \in 0..MaxFaults /\ events' \in 0..MaxEvents
  <2>1. (Fault \/ UNCHANGED faults) /\ Event
    BY DEF HumanStep, HumanClaims, HumanReplies, HumanReleases, HumanResolves
  <2> QED BY <2>1, FaultType, EventType
<1>4. state' \in [status : {"open", "resolved"}, assigned : BOOLEAN, resolvedAt : Nat]
  <2>1. CASE HumanResolves
    <3>1. Assigned \in BOOLEAN
      BY DEF Assigned
    <3> QED BY <1>1, <2>1, <3>1 DEF HumanResolves
  <2>2. CASE ~HumanResolves
    <3>1. \/ UNCHANGED state
          \/ state' = [status |-> "open", assigned |-> TRUE, resolvedAt |-> 0]
          \/ state' = [status |-> "open", assigned |-> FALSE, resolvedAt |-> 0]
      BY <2>2 DEF HumanStep, HumanClaims, HumanReplies, HumanReleases, InCharge
    <3>2. /\ [status |-> "open", assigned |-> TRUE, resolvedAt |-> 0]
                \in [status : {"open", "resolved"}, assigned : BOOLEAN, resolvedAt : Nat]
          /\ [status |-> "open", assigned |-> FALSE, resolvedAt |-> 0]
                \in [status : {"open", "resolved"}, assigned : BOOLEAN, resolvedAt : Nat]
      OBVIOUS
    <3> QED BY <1>1, <3>1, <3>2, Zenon DEF RecordsOK
  <2> QED BY <2>1, <2>2
<1>5. ticket' \in Tickets /\ resolutions' \subseteq Nat
  BY <1>1 DEF RecordsOK, Tickets, HumanStep, HumanClaims, HumanReplies, HumanReleases, HumanResolves
<1>6. UNCHANGED <<step, turn, processed>>
  BY DEF HumanStep, HumanClaims, HumanReplies, HumanReleases, HumanResolves
<1> QED BY <1>1, <1>2, <1>3, <1>4, <1>5, <1>6 DEF RecordsOK

LEMMA InboundTypeStays ==
    ASSUME TypeOK, [Next]_vars, ClaimTypeOK'
    PROVE  TypeOK'
<1>1. CASE UNCHANGED vars
  BY <1>1 DEF vars, inboundVars, records, TypeOK
<1>2. ASSUME HumanStep \/ (\E d \in Attempts : Arrival(d) \/ Handler(d))
      PROVE  RecordsOK'
  BY <1>2, HumanTypes, HandlerTypes
<1>3. ASSUME NEW d \in Attempts, GateUnreadable(d) \/ MetaMoves(d) \/ Fail(d)
      PROVE  RecordsOK'
  <2>1. RecordsOK
    BY TypeParts
  <2>2. step' \in [Attempts -> Working \cup {"expected", "acked", "error"}]
    BY <1>3, <2>1 DEF RecordsOK, GateUnreadable, MetaMoves, Fail, Go, Working, inboundVars
  <2>3. (Fault \/ UNCHANGED faults) /\ UNCHANGED <<turn, records, events>>
    BY <1>3 DEF GateUnreadable, MetaMoves, Fail, inboundVars
  <2>4. faults' \in 0..MaxFaults /\ events' \in 0..MaxEvents
    BY <2>3, FaultType, EventType
  <2> QED BY <2>1, <2>2, <2>3, <2>4 DEF RecordsOK, records
<1>4. UNCHANGED kind
  BY DEF Next, vars
<1> QED BY <1>1, <1>2, <1>3, <1>4, TypeParts DEF Next, Step, TypeOK, RecordsOK, Turns, Tickets

\* The types hold in every behaviour.
THEOREM InboundTypes == Spec => []TypeOK
<1>1. Init => TypeOK
  <2>1. Init => ClaimTypeOK
    BY InitEstablishes DEF Init, ClaimInv
  <2>2. Init => RecordsOK
    BY BoundsAssumption DEF Init, RecordsOK, Turns, Tickets, Stages, NoTurn, Working
  <2> QED BY <2>1, <2>2, TypeParts DEF Init
<1>2. Spec => []ClaimTypeOK
  <2>1. ClaimInv => ClaimTypeOK
    BY DEF ClaimInv
  <2> QED BY <2>1, HandlersFollowReservation, InitEstablishes, StepKeeps, PTL DEF ClaimSpec, FollowsReservation
<1>3. TypeOK /\ [Next]_vars /\ ClaimTypeOK' => TypeOK'
  BY InboundTypeStays
<1> QED BY <1>1, <1>2, <1>3, PTL DEF Spec

-----------------------------------------------------------------------------
(* The history says what happened.                                         *)

\* The history only grows: a step leaves it, adds the reply of an attendant, or
\* adds the rows of one delivery.
LEMMA HistoryGrows ==
    ASSUME TypeOK, [Next]_vars
    PROVE  \/ UNCHANGED history
           \/ /\ HumanReplies
              /\ UNCHANGED <<claimVars, step, turn, processed>>
           \/ \E d \in Attempts : SaveTurn(d)
<1>1. CASE UNCHANGED vars
  BY <1>1 DEF vars, inboundVars, records
<1>2. CASE HumanStep
  BY <1>2 DEF HumanStep, HumanClaims, HumanReplies, HumanReleases, HumanResolves
<1>3. ASSUME NEW d \in Attempts,
             Arrival(d) \/ Handler(d) \/ GateUnreadable(d) \/ MetaMoves(d) \/ Fail(d)
      PROVE  UNCHANGED history \/ SaveTurn(d)
  BY <1>3 DEF Arrival, Triage, TriageUnavailable, Handler, IgnoreLong, Unsupported, Gate, FindProcessed,
              Classify, Reply, KeepResponse, KeepConflicts, Note, GateUnreadable, MetaMoves, Fail,
              records, inboundVars
<1> QED BY <1>1, <1>2, <1>3 DEF Next, Step

LEMMA HistoryKeeps ==
    ASSUME TypeOK, [Next]_vars
    PROVE  /\ Len(history) \in Nat /\ Len(history') \in Nat /\ Len(history') >= Len(history)
           /\ \A i \in 1..Len(history) : history'[i] = history[i]
<1>1. Len(history) \in Nat
  BY DEF TypeOK
<1>2. CASE UNCHANGED history
  BY <1>1, <1>2
<1>3. CASE HumanReplies
  BY <1>1, <1>3, HumanRow
<1>4. CASE \E d \in Attempts : SaveTurn(d)
  BY <1>1, <1>4, SavedRows
<1> QED BY <1>2, <1>3, <1>4, HistoryGrows

\* A message that is in the history stays there.
LEMMA RecordedStays ==
    ASSUME TypeOK, [Next]_vars, NEW m, Recorded(m)
    PROVE  Recorded(m)'
<1>1. PICK i \in 1..Len(history) : history[i].role = "customer" /\ history[i].message = m
  BY DEF Recorded
<1>2. i \in 1..Len(history') /\ history'[i] = history[i]
  BY <1>1, HistoryKeeps
<1> QED BY <1>1, <1>2 DEF Recorded

LEMMA SavedIsRecorded ==
    ASSUME TypeOK, NEW d \in Attempts, SaveTurn(d)
    PROVE  Recorded(KeyOf[d])'
<1>1. Len(history) + 1 \in 1..Len(history')
  BY SavedRows DEF TypeOK
<1>2. /\ history'[Len(history) + 1].role = "customer"
      /\ history'[Len(history) + 1].message = KeyOf[d]
  <2>1. history'[Len(history) + 1] = Row("customer", KeyOf[d], NoAttempt)
    BY SavedRows
  <2> QED BY <2>1 DEF Row
<1> QED BY <1>1, <1>2 DEF Recorded

\* What the customer wrote is in the history once its row of channel_idempotency_keys
\* is there, and once the handler is past its insert.
Records == /\ \A d \in Attempts : step[d] \in {"saved", "kept"} => Recorded(KeyOf[d])
           /\ \A m \in processed : Recorded(m)
           /\ AckedIsRecorded

LEMMA RecordsStay ==
    ASSUME TypeOK, Records, [Next]_vars
    PROVE  Records'
<1>0. /\ \A m \in Keys : Recorded(m) => Recorded(m)'
      /\ step \in [Attempts -> Working \cup {"expected", "acked", "error"}]
      /\ \A d \in Attempts : KeyOf[d] \in Keys
      /\ TooLong' = TooLong
      /\ processed \subseteq Keys
  <2>1. TooLong' = TooLong
    BY DEF TooLong, Next, vars
  <2> QED BY <2>1, RecordedStays, KeysAssumption DEF TypeOK
<1>1. CASE UNCHANGED <<step, processed>>
  BY <1>0, <1>1 DEF Records, AckedIsRecorded
<1>2. ASSUME NEW d \in Attempts, Arrival(d) \/ GateUnreadable(d) \/ Gate(d) \/ Classify(d) \/ Reply(d) \/ Fail(d)
      PROVE  Records'
  <2>1. UNCHANGED processed
    BY <1>2 DEF Arrival, Triage, TriageUnavailable, GateUnreadable, Gate, Classify, Reply, Fail, records
  <2>2. \A e \in Attempts : step'[e] \in {"saved", "kept", "acked"} => step'[e] = step[e]
    BY <1>0, <1>2 DEF Arrival, Triage, TriageUnavailable, GateUnreadable, Gate, Classify, Reply, Fail, Go
  <2> QED BY <1>0, <2>1, <2>2 DEF Records, AckedIsRecorded
<1>3. ASSUME NEW d \in Attempts,
             IgnoreLong(d) \/ Unsupported(d) \/ FindProcessed(d) \/ KeepConflicts(d) \/ Note(d)
      PROVE  Records'
  <2>1. UNCHANGED processed
    BY <1>3 DEF IgnoreLong, Unsupported, FindProcessed, KeepConflicts, Note, records
  <2>2. \A e \in Attempts : e # d => step'[e] = step[e]
    BY <1>0, <1>3 DEF IgnoreLong, Unsupported, FindProcessed, KeepConflicts, Note, Go
  <2>3. step'[d] \in {"acked", "answered", "error"}
    BY <1>0, <1>3 DEF IgnoreLong, Unsupported, FindProcessed, KeepConflicts, Note, Go
  <2>4. step'[d] = "acked" /\ KeyOf[d] \notin TooLong => Recorded(KeyOf[d])
    BY <1>0, <1>3, <2>3 DEF IgnoreLong, Unsupported, FindProcessed, KeepConflicts, Note, Go, Records
  <2> QED BY <1>0, <2>1, <2>2, <2>3, <2>4 DEF Records, AckedIsRecorded
<1>4. ASSUME NEW d \in Attempts, SaveTurn(d)
      PROVE  Records'
  <2>1. UNCHANGED processed /\ step' = [step EXCEPT ![d] = "saved"]
    BY <1>4 DEF SaveTurn, Go
  <2> QED BY <1>0, <1>4, <2>1, SavedIsRecorded DEF Records, AckedIsRecorded
<1>5. ASSUME NEW d \in Attempts, KeepResponse(d)
      PROVE  Records'
  <2>1. /\ processed' = processed \cup {KeyOf[d]}
        /\ step' = [step EXCEPT ![d] = "kept"]
        /\ step[d] = "saved"
    BY <1>5 DEF KeepResponse, Go
  <2> QED BY <1>0, <2>1 DEF Records, AckedIsRecorded
<1>6. CASE HumanStep \/ UNCHANGED vars \/ \E d \in Attempts : MetaMoves(d)
  BY <1>1, <1>6 DEF HumanStep, HumanClaims, HumanReplies, HumanReleases, HumanResolves, MetaMoves,
                    inboundVars, records, vars
<1> QED BY <1>2, <1>3, <1>4, <1>5, <1>6 DEF Next, Step, Handler

\* Once Meta hears 200 for a message it is in the history, whatever failed, was
\* redelivered or overlapped before.
THEOREM NothingAckedIsLost == Spec => []AckedIsRecorded
<1>1. Init => Records
  BY DEF Init, Records, AckedIsRecorded
<1>2. TypeOK /\ Records /\ [Next]_vars => Records'
  BY RecordsStay
<1>3. Records => AckedIsRecorded
  BY DEF Records
<1> QED BY <1>1, <1>2, <1>3, InboundTypes, PTL DEF Spec

\* A text that Meta accepted stays accepted.
LEMMA AcceptedStays ==
    ASSUME ClaimInv, [ClaimNext]_claimVars
    PROVE  \A a \in Attempts : wire[a] = "accepted" => wire'[a] = "accepted"
<1>1. CASE UNCHANGED wire
  BY <1>1
<1>2. ASSUME NEW x \in Attempts, Send(x) \/ MetaAccepts(x) \/ MetaTurnsAway(x)
      PROVE  \A a \in Attempts : wire[a] = "accepted" => wire'[a] = "accepted"
  BY <1>2 DEF ClaimInv, ClaimTypeOK, Places, Send, MetaAccepts, MetaTurnsAway
<1>3. ASSUME NEW x \in Attempts, AttemptStep(x) \/ MetaStep(x) \/ Die(x)
      PROVE  UNCHANGED wire \/ Send(x) \/ MetaAccepts(x) \/ MetaTurnsAway(x)
  BY <1>3 DEF AttemptStep, MetaStep, Die, FindSent, FindUnsettled, FindNothing, PolicyBlocks, Reserve,
              LoseRace, ReserveFails, HearAccepted, HearFailure, SettleFailure, SettleAccepted
<1> QED BY <1>1, <1>2, <1>3 DEF ClaimNext, claimVars

\* RowsAreReal needs to know that the named text is an attempt at all.
RowsInv == \A i \in 1..Len(history) : history[i].role = "ai" =>
              /\ history[i].text \in Attempts
              /\ wire[history[i].text] = "accepted"
              /\ KeyOf[history[i].text] = history[i].message

LEMMA RowsStay ==
    ASSUME TypeOK, ClaimInv, RowsInv, [Next]_vars
    PROVE  RowsInv'
<1>1. \A a \in Attempts : wire[a] = "accepted" => wire'[a] = "accepted"
  BY AcceptedStays, StepFollows
<1>2. CASE UNCHANGED history
  BY <1>1, <1>2 DEF RowsInv
<1>3. CASE HumanReplies
  <2>1. history'[Len(history) + 1].role # "ai"
    BY <1>3, HumanRow DEF Row
  <2>2. /\ Len(history) \in Nat /\ Len(history') = Len(history) + 1
        /\ \A i \in 1..Len(history) : history'[i] = history[i]
    BY <1>3, HumanRow DEF TypeOK
  <2>3. \A i \in 1..Len(history') : history'[i].role = "ai" => i \in 1..Len(history) /\ history'[i] = history[i]
    BY <2>1, <2>2
  <2> QED BY <1>1, <2>3 DEF RowsInv
<1>4. ASSUME NEW d \in Attempts, SaveTurn(d)
      PROVE  RowsInv'
  <2>0. Len(history) \in Nat
    BY DEF TypeOK
  <2>1. SUFFICES ASSUME NEW i \in 1..Len(history'), history'[i].role = "ai"
                 PROVE  /\ history'[i].text \in Attempts
                        /\ wire'[history'[i].text] = "accepted"
                        /\ KeyOf[history'[i].text] = history'[i].message
    BY DEF RowsInv
  <2>2. CASE i \in 1..Len(history)
    <3>1. history'[i] = history[i]
      BY <1>4, <2>2, SavedRows
    <3> QED BY <1>1, <2>1, <2>2, <3>1 DEF RowsInv
  <2>3. CASE i = Len(history) + 1
    <3>1. history'[i] = Row("customer", KeyOf[d], NoAttempt)
      BY <1>4, <2>3, SavedRows
    <3> QED BY <2>1, <3>1 DEF Row
  <2>4. CASE i = Len(history) + 2
    <3>1. Len(history') = Len(history) + 2
      BY <1>4, <2>0, <2>1, <2>4, SavedRows
    <3>2. answer[d].told = "sent" /\ history'[i] = Row("ai", KeyOf[d], answer[d].text)
      <4>1. \/ answer[d].told = "sent" /\ history'[i] = Row("ai", KeyOf[d], answer[d].text)
            \/ history'[i] = Row("suggestion", KeyOf[d], NoAttempt)
        BY <1>4, <2>4, <3>1, SavedRows
      <4> QED BY <2>1, <4>1 DEF Row
    <3>3. history'[i].text = answer[d].text /\ history'[i].message = KeyOf[d]
      BY <3>2 DEF Row
    <3>4. answer[d].text \in Attempts /\ wire[answer[d].text] = "accepted" /\ KeyOf[answer[d].text] = KeyOf[d]
      BY <3>2 DEF ClaimInv, Words, ToldTheTruth
    <3> QED BY <1>1, <3>3, <3>4
  <2>5. i \in 1..Len(history) \/ i = Len(history) + 1 \/ i = Len(history) + 2
    <3>1. Len(history') = Len(history) + 1 \/ Len(history') = Len(history) + 2
      BY <1>4, SavedRows
    <3> QED BY <2>0, <2>1, <3>1
  <2> QED BY <2>2, <2>3, <2>4, <2>5
<1> QED BY <1>2, <1>3, <1>4, HistoryGrows

\* The deliveries of m that have written, or may have, and not been answered 200.
Failed(m) == {d \in Attempts : KeyOf[d] = m /\ step[d] \in {"saved", "error"}}

RepeatsInv == /\ \A m \in Keys : IsFiniteSet(Failed(m))
              /\ RepeatsAreFailures

\* The copies of a message are finitely many.
LEMMA CopiesFinite ==
    ASSUME TypeOK, NEW m
    PROVE  IsFiniteSet(Copies(m)) /\ Cardinality(Copies(m)) \in Nat
<1>1. Len(history) \in Int /\ 1 \in Int
  BY DEF TypeOK
<1>2. IsFiniteSet(1..Len(history))
  BY <1>1, FS_Interval
<1>3. Copies(m) \in SUBSET (1..Len(history))
  BY DEF Copies
<1> QED BY <1>2, <1>3, FS_Subset, FS_CardinalityType

\* Only the insert of a delivery of m makes one more copy of m.
LEMMA CopiesKept ==
    ASSUME TypeOK, [Next]_vars, NEW m, \A d \in Attempts : SaveTurn(d) => KeyOf[d] # m
    PROVE  Copies(m)' = Copies(m)
<1>0. Len(history) \in Nat
  BY DEF TypeOK
<1>1. CASE UNCHANGED history
  BY <1>1 DEF Copies
<1>2. CASE HumanReplies
  <2>1. history'[Len(history) + 1].role # "customer"
    BY <1>2, HumanRow DEF Row
  <2> QED BY <1>0, <1>2, <2>1, HumanRow DEF Copies
<1>3. ASSUME NEW d \in Attempts, SaveTurn(d)
      PROVE  Copies(m)' = Copies(m)
  <2>1. history'[Len(history) + 1].message # m
    <3>1. history'[Len(history) + 1] = Row("customer", KeyOf[d], NoAttempt)
      BY <1>3, SavedRows
    <3> QED BY <1>3, <3>1 DEF Row
  <2>2. Len(history') = Len(history) + 2 => history'[Len(history) + 2].role # "customer"
    <3>1. Len(history') = Len(history) + 2 =>
            \/ history'[Len(history) + 2] = Row("ai", KeyOf[d], answer[d].text)
            \/ history'[Len(history) + 2] = Row("suggestion", KeyOf[d], NoAttempt)
      BY <1>3, SavedRows
    <3> QED BY <3>1 DEF Row
  <2>3. SUFFICES ASSUME NEW i
                 PROVE  i \in Copies(m)' <=> i \in Copies(m)
    OBVIOUS
  <2>4. /\ \A j \in 1..Len(history) : history'[j] = history[j]
        /\ Len(history') = Len(history) + 1 \/ Len(history') = Len(history) + 2
    BY <1>3, SavedRows
  <2>5. CASE i \in 1..Len(history)
    BY <1>0, <2>4, <2>5 DEF Copies
  <2>6. CASE i \notin 1..Len(history)
    <3>1. i \in 1..Len(history') => i = Len(history) + 1 \/ (i = Len(history) + 2 /\ Len(history') = Len(history) + 2)
      BY <1>0, <2>4, <2>6
    <3> QED BY <2>1, <2>2, <2>6, <3>1 DEF Copies
  <2> QED BY <2>5, <2>6
<1> QED BY <1>1, <1>2, <1>3, HistoryGrows

LEMMA CopiesGrow ==
    ASSUME TypeOK, NEW d \in Attempts, SaveTurn(d)
    PROVE  Copies(KeyOf[d])' = Copies(KeyOf[d]) \cup {Len(history) + 1}
<1>0. Len(history) \in Nat
  BY DEF TypeOK
<1>1. history'[Len(history) + 1].message = KeyOf[d] /\ history'[Len(history) + 1].role = "customer"
  <2>1. history'[Len(history) + 1] = Row("customer", KeyOf[d], NoAttempt)
    BY SavedRows
  <2> QED BY <2>1 DEF Row
<1>2. Len(history') = Len(history) + 2 => history'[Len(history) + 2].role # "customer"
  <2>1. Len(history') = Len(history) + 2 =>
          \/ history'[Len(history) + 2] = Row("ai", KeyOf[d], answer[d].text)
          \/ history'[Len(history) + 2] = Row("suggestion", KeyOf[d], NoAttempt)
    BY SavedRows
  <2> QED BY <2>1 DEF Row
<1>3. SUFFICES ASSUME NEW i
               PROVE  i \in Copies(KeyOf[d])' <=> i \in Copies(KeyOf[d]) \cup {Len(history) + 1}
  OBVIOUS
<1>4. /\ \A j \in 1..Len(history) : history'[j] = history[j]
      /\ Len(history') = Len(history) + 1 \/ Len(history') = Len(history) + 2
  BY SavedRows
<1>5. CASE i \in 1..Len(history)
  BY <1>0, <1>4, <1>5 DEF Copies
<1>6. CASE i = Len(history) + 1
  BY <1>0, <1>1, <1>4, <1>6 DEF Copies
<1>7. CASE i \notin 1..Len(history) /\ i # Len(history) + 1
  <2>1. i \in 1..Len(history') => i = Len(history) + 2 /\ Len(history') = Len(history) + 2
    BY <1>0, <1>4, <1>7
  <2> QED BY <1>2, <1>7, <2>1 DEF Copies
<1> QED BY <1>5, <1>6, <1>7

LEMMA RepeatsStay ==
    ASSUME TypeOK, RepeatsInv, [Next]_vars
    PROVE  RepeatsInv'
<1>0. /\ step \in [Attempts -> Working \cup {"expected", "acked", "error"}]
      /\ \A d \in Attempts : KeyOf[d] \in Keys
      /\ \A m \in Keys : /\ IsFiniteSet(Failed(m))
                         /\ Cardinality(Failed(m)) \in Nat /\ Cardinality(Copies(m)) \in Nat
                         /\ Cardinality(Copies(m)) <= Cardinality(Failed(m)) + (IF m \in processed THEN 1 ELSE 0)
  <2>1. \A m \in Keys : Cardinality(Copies(m)) \in Nat
    BY CopiesFinite
  <2>2. \A m \in Keys : IsFiniteSet(Failed(m)) /\ Cardinality(Failed(m)) \in Nat
    BY FS_CardinalityType DEF RepeatsInv
  <2>3. \A m \in Keys : Cardinality(Copies(m)) <= Cardinality(Failed(m)) + (IF m \in processed THEN 1 ELSE 0)
    BY DEF RepeatsInv, RepeatsAreFailures, Failed
  <2> QED BY <2>1, <2>2, <2>3, KeysAssumption DEF TypeOK
<1> SUFFICES ASSUME NEW m \in Keys
             PROVE  /\ IsFiniteSet(Failed(m)')
                    /\ Cardinality(Copies(m)') <= Cardinality(Failed(m)') + (IF m \in processed' THEN 1 ELSE 0)
  BY DEF RepeatsInv, RepeatsAreFailures, Failed
\* A step that makes no copy, forgets no failed delivery and unmarks nothing.
<1>1. ASSUME Copies(m)' = Copies(m), m \in processed => m \in processed',
             Failed(m)' = Failed(m) \/ \E d \in Attempts : Failed(m)' = Failed(m) \cup {d}
      PROVE  /\ IsFiniteSet(Failed(m)')
             /\ Cardinality(Copies(m)') <= Cardinality(Failed(m)') + (IF m \in processed' THEN 1 ELSE 0)
  <2>1. IsFiniteSet(Failed(m)') /\ Cardinality(Failed(m)') \in Nat
        /\ Cardinality(Failed(m)') >= Cardinality(Failed(m))
    <3>1. CASE Failed(m)' = Failed(m)
      BY <1>0, <3>1
    <3>2. ASSUME NEW d \in Attempts, Failed(m)' = Failed(m) \cup {d}
          PROVE  /\ IsFiniteSet(Failed(m)') /\ Cardinality(Failed(m)') \in Nat
                 /\ Cardinality(Failed(m)') >= Cardinality(Failed(m))
      <4>1. /\ IsFiniteSet(Failed(m) \cup {d})
            /\ Cardinality(Failed(m) \cup {d}) \in {Cardinality(Failed(m)), Cardinality(Failed(m)) + 1}
        BY <1>0, FS_AddElement
      <4> QED BY <1>0, <3>2, <4>1
    <3> QED BY <1>1, <3>1, <3>2
  <2> QED BY <1>0, <1>1, <2>1
<1>2. ASSUME NEW d \in Attempts, SaveTurn(d)
      PROVE  /\ IsFiniteSet(Failed(m)')
             /\ Cardinality(Copies(m)') <= Cardinality(Failed(m)') + (IF m \in processed' THEN 1 ELSE 0)
  <2>1. UNCHANGED processed /\ step[d] = "answered" /\ step' = [step EXCEPT ![d] = "saved"]
    BY <1>2 DEF SaveTurn, Go
  <2>2. CASE KeyOf[d] = m
    <3>1. d \notin Failed(m) /\ Failed(m)' = Failed(m) \cup {d}
      BY <1>0, <2>1, <2>2 DEF Failed
    <3>2. IsFiniteSet(Failed(m)') /\ Cardinality(Failed(m)') = Cardinality(Failed(m)) + 1
      BY <1>0, <3>1, FS_AddElement
    <3>3. IsFiniteSet(Copies(m))
      BY CopiesFinite
    <3>4. Copies(m)' = Copies(m) \cup {Len(history) + 1}
      BY <1>2, <2>2, CopiesGrow
    <3>5. Cardinality(Copies(m)') <= Cardinality(Copies(m)) + 1
      <4>1. Cardinality(Copies(m) \cup {Len(history) + 1}) \in {Cardinality(Copies(m)), Cardinality(Copies(m)) + 1}
        BY <3>3, FS_AddElement
      <4> QED BY <1>0, <3>4, <4>1
    <3>6. Cardinality(Copies(m)') \in Nat
      BY <3>3, <3>4, FS_AddElement, FS_CardinalityType
    <3> QED BY <1>0, <2>1, <3>2, <3>5, <3>6
  <2>3. CASE KeyOf[d] # m
    <3>1. Failed(m)' = Failed(m)
      BY <1>0, <2>1, <2>3 DEF Failed
    <3>2. \A e \in Attempts : SaveTurn(e) => KeyOf[e] # m
      <4>1. \A e \in Attempts : SaveTurn(e) => step' = [step EXCEPT ![e] = "saved"] /\ step[e] = "answered"
        BY DEF SaveTurn, Go
      <4> QED BY <1>0, <2>1, <2>3, <4>1
    <3> QED BY <1>1, <2>1, <3>1, <3>2, CopiesKept
  <2> QED BY <2>2, <2>3
<1>3. ASSUME NEW d \in Attempts, KeepResponse(d)
      PROVE  /\ IsFiniteSet(Failed(m)')
             /\ Cardinality(Copies(m)') <= Cardinality(Failed(m)') + (IF m \in processed' THEN 1 ELSE 0)
  <2>1. /\ processed' = processed \cup {KeyOf[d]} /\ KeyOf[d] \notin processed
        /\ step[d] = "saved" /\ step' = [step EXCEPT ![d] = "kept"]
        /\ UNCHANGED history
    BY <1>3 DEF KeepResponse, Go
  <2>2. Copies(m)' = Copies(m)
    BY <2>1 DEF Copies
  <2>3. CASE KeyOf[d] = m
    <3>1. d \in Failed(m) /\ Failed(m)' = Failed(m) \ {d}
      BY <1>0, <2>1, <2>3 DEF Failed
    <3>2. IsFiniteSet(Failed(m)') /\ Cardinality(Failed(m)') = Cardinality(Failed(m)) - 1
      BY <1>0, <3>1, FS_RemoveElement
    <3> QED BY <1>0, <2>1, <2>2, <2>3, <3>2
  <2>4. CASE KeyOf[d] # m
    <3>1. Failed(m)' = Failed(m)
      BY <1>0, <2>1, <2>4 DEF Failed
    <3> QED BY <1>1, <2>1, <2>2, <3>1
  <2> QED BY <2>3, <2>4
<1>4. ASSUME NEW d \in Attempts, Arrival(d) \/ Handler(d) \/ GateUnreadable(d) \/ MetaMoves(d) \/ Fail(d),
             ~SaveTurn(d), ~KeepResponse(d)
      PROVE  /\ IsFiniteSet(Failed(m)')
             /\ Cardinality(Copies(m)') <= Cardinality(Failed(m)') + (IF m \in processed' THEN 1 ELSE 0)
  <2>1. UNCHANGED <<history, processed>>
    BY <1>4 DEF Arrival, Triage, TriageUnavailable, Handler, IgnoreLong, Unsupported, Gate, FindProcessed,
                Classify, Reply, KeepConflicts, Note, GateUnreadable, MetaMoves, Fail, records, inboundVars
  <2>2. Copies(m)' = Copies(m)
    BY <2>1 DEF Copies
  <2>3. \/ UNCHANGED step
        \/ /\ step' = [step EXCEPT ![d] = step'[d]]
           /\ step[d] # "error" /\ (step[d] = "saved" => step'[d] = "error")
    BY <1>0, <1>4 DEF Arrival, Triage, TriageUnavailable, MayArrive, Handler, IgnoreLong, Unsupported, Gate,
                FindProcessed, Classify, Reply, KeepConflicts, Note, GateUnreadable, MetaMoves, Fail,
                Working, Go, records, inboundVars
  <2>4. Failed(m)' = Failed(m) \/ Failed(m)' = Failed(m) \cup {d}
    BY <1>0, <2>3 DEF Failed
  <2> QED BY <1>1, <2>1, <2>2, <2>4
<1>5. CASE HumanStep \/ UNCHANGED vars
  <2>1. UNCHANGED <<step, processed>>
    BY <1>5 DEF HumanStep, HumanClaims, HumanReplies, HumanReleases, HumanResolves, vars, inboundVars, records
  <2>2. Failed(m)' = Failed(m)
    BY <2>1 DEF Failed
  <2>3. \A d \in Attempts : ~SaveTurn(d)
    BY <1>0, <2>1 DEF SaveTurn, Go
  <2> QED BY <1>1, <2>1, <2>2, <2>3, CopiesKept
<1> QED BY <1>2, <1>3, <1>4, <1>5 DEF Next, Step

LEMMA ReservationAlways == Spec => []ClaimInv
BY HandlersFollowReservation, InitEstablishes, StepKeeps, PTL DEF ClaimSpec, FollowsReservation

\* A row of the AI names a text of its message that the customer has, and a message is
\* in the history more than once only by as many deliveries as failed after writing it.
THEOREM HistorySaysWhatHappened == Spec => []HistoryIsReal
<1>1. Init => RowsInv /\ RepeatsInv
  <2>1. ASSUME Init, NEW m \in Keys PROVE Failed(m) = {} /\ Copies(m) = {}
    <3>1. history = <<>> /\ \A d \in Attempts : step[d] = "expected"
      BY <2>1 DEF Init
    <3> QED BY <3>1 DEF Failed, Copies
  <2>2. ASSUME Init PROVE RepeatsInv
    <3>1. /\ IsFiniteSet({}) /\ Cardinality({}) = 0
          /\ \A m \in Keys : Failed(m) = {} /\ Copies(m) = {}
      BY <2>1, <2>2, FS_EmptySet
    <3>3. \A m \in Keys : IsFiniteSet(Failed(m))
      BY <3>1
    <3>4. processed = {}
      BY <2>2 DEF Init
    <3>5. RepeatsAreFailures
      <4> SUFFICES ASSUME NEW m \in Keys
                   PROVE  Cardinality(Copies(m)) <= Cardinality(Failed(m)) + (IF m \in processed THEN 1 ELSE 0)
        BY DEF RepeatsAreFailures, Failed
      <4> QED BY <3>1, <3>4
    <3> QED BY <3>3, <3>5 DEF RepeatsInv
  <2>3. Init => RowsInv
    BY DEF Init, RowsInv
  <2> QED BY <2>2, <2>3
<1>2. TypeOK /\ ClaimInv /\ RowsInv /\ RepeatsInv /\ [Next]_vars => RowsInv' /\ RepeatsInv'
  BY RowsStay, RepeatsStay
<1>3. RowsInv /\ RepeatsInv => HistoryIsReal
  BY DEF RowsInv, RepeatsInv, HistoryIsReal, RowsAreReal
<1> QED BY <1>1, <1>2, <1>3, InboundTypes, ReservationAlways, PTL DEF Spec

-----------------------------------------------------------------------------
(* The gate: what a handler does by what it read of the conversation.      *)

\* A step of the handler that reads nothing of the ticket and writes nothing to it.
Moves(d) ==
    /\ step[d] \in Working
    /\ \A e \in Attempts : e # d => step'[e] = step[e] /\ turn'[e] = turn[e]
    /\ step'[d] \in Working \cup {"acked", "error"}
    /\ turn'[d].ticket = turn[d].ticket /\ turn'[d].stage = turn[d].stage /\ turn'[d].intent = turn[d].intent
    /\ UNCHANGED ticket

LEMMA HandlerMoves ==
    ASSUME TypeOK, NEW d \in Attempts, Handler(d) \/ GateUnreadable(d) \/ Fail(d), ~Note(d)
    PROVE  Moves(d)
<1>0. step \in [Attempts -> Working \cup {"expected", "acked", "error"}] /\ turn \in [Attempts -> Turns]
  BY DEF TypeOK, Turns
<1>1. UNCHANGED ticket
  BY DEF Handler, IgnoreLong, Unsupported, Gate, FindProcessed, Classify, Reply, SaveTurn, KeepResponse,
         KeepConflicts, GateUnreadable, Fail, records
<1>2. step[d] \in Working /\ step'[d] \in Working \cup {"acked", "error"}
  BY <1>0 DEF Handler, IgnoreLong, Unsupported, Gate, FindProcessed, Classify, Reply, SaveTurn, KeepResponse,
              KeepConflicts, GateUnreadable, Fail, Go, Working
<1>3. \A e \in Attempts : e # d => step'[e] = step[e]
  BY <1>0 DEF Handler, IgnoreLong, Unsupported, Gate, FindProcessed, Classify, Reply, SaveTurn, KeepResponse,
              KeepConflicts, GateUnreadable, Fail, Go, Working
<1>4. UNCHANGED turn \/ Gate(d) \/ Classify(d)
  BY DEF Handler, IgnoreLong, Unsupported, FindProcessed, Reply, SaveTurn, KeepResponse, KeepConflicts,
         GateUnreadable, Fail
<1>5. /\ \A e \in Attempts : e # d => turn'[e] = turn[e]
      /\ turn'[d].ticket = turn[d].ticket /\ turn'[d].stage = turn[d].stage
      /\ turn'[d].intent = turn[d].intent
  BY <1>0, <1>4 DEF Gate, Classify, Turns
<1> QED BY <1>1, <1>2, <1>3, <1>5 DEF Moves

LEMMA HumanLeaves ==
    ASSUME TypeOK, HumanStep
    PROVE  /\ UNCHANGED <<claimVars, step, turn, processed>>
           /\ ticket'.number = ticket.number /\ ticket'.stage = ticket.stage /\ ticket'.intent = ticket.intent
<1>1. ticket \in Tickets
  BY DEF TypeOK, Tickets
<1> QED BY <1>1 DEF Tickets, HumanStep, HumanClaims, HumanReplies, HumanReleases, HumanResolves

LEMMA TriageSets ==
    ASSUME TypeOK, NEW d \in Attempts, Triage(d)
    PROVE  /\ step' = [step EXCEPT ![d] = "triaged"]
           /\ \A e \in Attempts : e # d => turn'[e] = turn[e]
           /\ turn'[d].ticket = ticket'.number /\ turn'[d].stage = ticket'.stage
           /\ turn'[d].intent = ticket'.intent /\ turn'[d].auto = FALSE /\ turn'[d].seen = 0
           /\ \/ UNCHANGED ticket
              \/ ticket'.number = ticket.number + 1 /\ ticket'.stage = "new" /\ ticket'.intent = "none"
<1>0. turn \in [Attempts -> Turns] /\ ticket \in Tickets
  BY DEF TypeOK, Turns, Tickets
<1>1. /\ \/ UNCHANGED ticket
         \/ ticket' = [number |-> ticket.number + 1, open |-> TRUE, stage |-> "new", intent |-> "none"]
      /\ turn' = [turn EXCEPT ![d] = [NoTurn EXCEPT !.ticket = ticket'.number,
                                      !.stage = ticket'.stage, !.intent = ticket'.intent]]
      /\ step' = [step EXCEPT ![d] = "triaged"]
  BY DEF Triage, Go
<1>2. turn'[d] = [NoTurn EXCEPT !.ticket = ticket'.number, !.stage = ticket'.stage, !.intent = ticket'.intent]
      /\ \A e \in Attempts : e # d => turn'[e] = turn[e]
  BY <1>0, <1>1
<1>3. /\ turn'[d].ticket = ticket'.number /\ turn'[d].stage = ticket'.stage
      /\ turn'[d].intent = ticket'.intent /\ turn'[d].auto = FALSE /\ turn'[d].seen = 0
  BY <1>2 DEF NoTurn
<1>4. \/ UNCHANGED ticket
      \/ ticket'.number = ticket.number + 1 /\ ticket'.stage = "new" /\ ticket'.intent = "none"
  BY <1>1
<1> QED BY <1>1, <1>2, <1>3, <1>4

\* A delivery past the gate keeps what it read and decided there.
LEMMA TurnKeeps ==
    ASSUME TypeOK, [Next]_vars, NEW t \in Attempts
    PROVE  \/ /\ turn'[t].auto = turn[t].auto /\ turn'[t].stage = turn[t].stage
              /\ turn'[t].seen = turn[t].seen
           \/ step[t] = "expected" /\ turn'[t].auto = FALSE /\ turn'[t].seen = 0
           \/ Gate(t)
<1>0. turn \in [Attempts -> Turns]
  BY DEF TypeOK, Turns
<1>1. CASE UNCHANGED turn
  BY <1>1
<1>2. ASSUME NEW d \in Attempts, Triage(d)
      PROVE  \/ turn'[t] = turn[t]
             \/ step[t] = "expected" /\ turn'[t].auto = FALSE /\ turn'[t].seen = 0
  BY <1>2, TriageSets DEF Triage, MayArrive
<1>3. ASSUME NEW d \in Attempts, Gate(d)
      PROVE  turn'[t] = turn[t] \/ Gate(t)
  BY <1>0, <1>3 DEF Gate
<1>4. ASSUME NEW d \in Attempts, Classify(d)
      PROVE  /\ turn'[t].auto = turn[t].auto /\ turn'[t].stage = turn[t].stage
             /\ turn'[t].seen = turn[t].seen
  BY <1>0, <1>4 DEF Classify, Turns
<1>5. CASE HumanStep
  BY <1>1, <1>5, HumanLeaves
<1>6. ASSUME NEW d \in Attempts,
             TriageUnavailable(d) \/ GateUnreadable(d) \/ MetaMoves(d) \/ Fail(d)
             \/ (Handler(d) /\ ~Gate(d) /\ ~Classify(d))
      PROVE  UNCHANGED turn
  BY <1>6 DEF TriageUnavailable, GateUnreadable, MetaMoves, Fail, Handler, IgnoreLong, Unsupported,
              FindProcessed, Reply, SaveTurn, KeepResponse, KeepConflicts, Note, inboundVars
<1> QED BY <1>1, <1>2, <1>3, <1>4, <1>5, <1>6 DEF Next, Step, Arrival, vars, inboundVars

\* The sender runs only after the gate, and only when the gate let it.
Before == {"expected", "triaged", "gated"}
Sending ==
    \A d \in Attempts :
        /\ step[d] \in Before => pc[d] = "idle"
        /\ step[d] = "replying" \/ pc[d] # "idle" => turn[d].auto

LEMMA SendingStays ==
    ASSUME TypeOK, Sending, [Next]_vars
    PROVE  Sending'
<1>0. /\ step \in [Attempts -> Working \cup {"expected", "acked", "error"}]
      /\ turn \in [Attempts -> Turns]
      /\ pc \in [Attempts -> Begun \cup {"idle", "done"}]
  BY DEF TypeOK, Turns, ClaimTypeOK
<1> SUFFICES ASSUME NEW t \in Attempts
             PROVE  /\ step'[t] \in Before => pc'[t] = "idle"
                    /\ step'[t] = "replying" \/ pc'[t] # "idle" => turn'[t].auto
  BY DEF Sending
<1>1. CASE step'[t] = step[t] /\ pc'[t] = pc[t] /\ turn'[t].auto = turn[t].auto
  BY <1>1 DEF Sending
<1>2. ASSUME Arrival(t) \/ Gate(t) \/ GateUnreadable(t) \/ IgnoreLong(t) \/ Unsupported(t) \/ FindProcessed(t)
             \/ Classify(t)
      PROVE  step[t] \in Before /\ pc'[t] = pc[t] /\ (step'[t] = "replying" => turn'[t].auto)
  <2>1. CASE Triage(t)
    BY <1>0, <2>1 DEF Triage, MayArrive, Go, Before, claimVars
  <2>2. CASE TriageUnavailable(t)
    BY <1>0, <2>2 DEF TriageUnavailable, MayArrive, Go, Before, claimVars
  <2>3. CASE Classify(t)
    BY <1>0, <2>3 DEF Classify, Go, Before, claimVars, Turns
  <2>4. CASE Gate(t) \/ GateUnreadable(t) \/ IgnoreLong(t) \/ Unsupported(t) \/ FindProcessed(t)
    BY <1>0, <2>4 DEF Gate, GateUnreadable, IgnoreLong, Unsupported, FindProcessed, Go, Before, claimVars
  <2> QED BY <1>2, <2>1, <2>2, <2>3, <2>4 DEF Arrival
<1>3. CASE Reply(t)
  <2>1. step[t] = "replying" /\ step'[t] \in {"replying", "answered"} /\ UNCHANGED turn
    BY <1>0, <1>3 DEF Reply, Go
  <2> QED BY <2>1 DEF Sending, Before
<1>4. ASSUME SaveTurn(t) \/ KeepResponse(t) \/ KeepConflicts(t) \/ Note(t) \/ Fail(t)
      PROVE  /\ step'[t] \notin Before /\ step'[t] # "replying" /\ UNCHANGED turn
             /\ pc'[t] # "idle" => pc[t] # "idle"
  BY <1>0, <1>4 DEF SaveTurn, KeepResponse, KeepConflicts, Note, Fail, Go, Before, claimVars, Begun
<1>5. ASSUME NEW d \in Attempts, d # t,
             Arrival(d) \/ Handler(d) \/ GateUnreadable(d) \/ Fail(d)
      PROVE  step'[t] = step[t] /\ pc'[t] = pc[t] /\ turn'[t] = turn[t]
  <2>1. CASE Reply(d)
    <3>1. AttemptStep(d) /\ UNCHANGED turn /\ step'[t] = step[t]
      BY <1>0, <1>5, <2>1 DEF Reply, Go
    <3>2. pc'[t] = pc[t]
      BY <1>0, <1>5, <3>1 DEF AttemptStep, FindSent, FindUnsettled, FindNothing, PolicyBlocks, Reserve,
             LoseRace, ReserveFails, Send, HearAccepted, HearFailure, SettleFailure, SettleAccepted, Finish
    <3> QED BY <3>1, <3>2
  <2>2. CASE Fail(d)
    <3>1. UNCHANGED turn /\ step'[t] = step[t]
      BY <1>0, <1>5, <2>2 DEF Fail, Go
    <3>2. pc' = [pc EXCEPT ![d] = "done"] \/ UNCHANGED pc
      BY <2>2 DEF Fail, Die, Finish, claimVars
    <3> QED BY <1>0, <1>5, <3>1, <3>2
  <2>3. CASE Triage(d)
    <3>1. UNCHANGED pc /\ step' = [step EXCEPT ![d] = "triaged"] /\ turn'[t] = turn[t]
      BY <1>5, <2>3, TriageSets DEF Triage, claimVars
    <3> QED BY <1>0, <1>5, <3>1
  <2>4. CASE TriageUnavailable(d)
    BY <1>0, <1>5, <2>4 DEF TriageUnavailable, Go, claimVars
  <2>5. CASE (Handler(d) /\ ~Reply(d)) \/ GateUnreadable(d)
    BY <1>0, <1>5, <2>5 DEF Handler, GateUnreadable, IgnoreLong, Unsupported, Gate, FindProcessed, Classify,
            SaveTurn, KeepResponse, KeepConflicts, Note, Go, claimVars
  <2> QED BY <1>5, <2>1, <2>2, <2>3, <2>4, <2>5 DEF Arrival
<1>6. CASE HumanStep \/ UNCHANGED vars \/ \E d \in Attempts : MetaMoves(d)
  <2>1. UNCHANGED <<step, pc, turn>>
    BY <1>6, HumanLeaves DEF vars, claimVars, MetaMoves, MetaStep, MetaAccepts, MetaTurnsAway, inboundVars
  <2> QED BY <1>1, <2>1
<1> QED BY <1>1, <1>2, <1>3, <1>4, <1>5, <1>6 DEF Next, Step, Handler, Sending

\* Every reply of the AI among the first n rows belongs to a wait that is over by then:
\* an attendant has answered since, or the conversation was resolved.
ShutTo(n) ==
    \A i \in 1..Len(history) : i <= n /\ history[i].role = "ai" =>
        \/ \E k \in 1..Len(history) : i < k /\ k <= n /\ history[k].role = "human"
        \/ \E r \in resolutions : i <= r /\ r <= n

\* The AI's last row, which AutoReplyUsed asks for, is there when it has any.
LastAI ==
    \/ \A i \in 1..Len(history) : history[i].role # "ai"
    \/ \E l \in 1..Len(history) :
          history[l].role = "ai" /\ \A i \in 1..Len(history) : history[i].role = "ai" => i <= l

Resolutions ==
    /\ \A r \in resolutions : r <= Len(history)
    /\ state.status = "resolved" => state.resolvedAt \in resolutions

\* What the gate let through outside the menu, it let through with every wait over
\* of which it saw a reply.
Gates ==
    \A d \in Attempts :
        /\ turn[d].seen <= Len(history)
        /\ turn[d].auto /\ turn[d].stage # "clarifying" => ShutTo(turn[d].seen)

\* A row of the AI is written after the gate of the delivery that sent its text.
Later == \A j \in 1..Len(history) : history[j].role = "ai" => turn[history[j].text].seen < j

GateInv == Sending /\ LastAI /\ Resolutions /\ Gates /\ Later

\* What the gate asks of the last row holds of every row that is there.
LEMMA GateCloses ==
    ASSUME TypeOK, LastAI, Resolutions, ~AutoReplyUsed
    PROVE  ShutTo(Len(history))
<1>0. Len(history) \in Nat /\ resolutions \subseteq Nat /\ state.resolvedAt \in Nat
  BY DEF TypeOK
<1>1. CASE \A i \in 1..Len(history) : history[i].role # "ai"
  BY <1>1 DEF ShutTo
<1>2. ASSUME NEW l \in 1..Len(history), history[l].role = "ai",
             \A i \in 1..Len(history) : history[i].role = "ai" => i <= l
      PROVE  ShutTo(Len(history))
  <2>1. \/ \E j \in l + 1 .. Len(history) : history[j].role \in {"ai", "human"}
        \/ state.status = "resolved" /\ ~(l > state.resolvedAt)
    BY <1>2 DEF AutoReplyUsed
  <2>2. CASE \E j \in l + 1 .. Len(history) : history[j].role \in {"ai", "human"}
    <3>1. PICK j \in l + 1 .. Len(history) : history[j].role \in {"ai", "human"}
      BY <2>2
    <3>2. j \in 1..Len(history) /\ j > l
      BY <1>0, <3>1
    <3>3. history[j].role = "human"
      BY <1>0, <1>2, <3>1, <3>2
    <3> QED BY <1>0, <1>2, <3>2, <3>3 DEF ShutTo
  <2>3. CASE state.status = "resolved" /\ ~(l > state.resolvedAt)
    <3>1. /\ state.resolvedAt \in resolutions /\ state.resolvedAt <= Len(history)
          /\ \A i \in 1..l : i <= state.resolvedAt
      BY <1>0, <2>3 DEF Resolutions
    <3>2. \A i \in 1..Len(history) : history[i].role = "ai" => i \in 1..l
      BY <1>0, <1>2
    <3> QED BY <3>1, <3>2 DEF ShutTo
  <2> QED BY <2>1, <2>2, <2>3
<1> QED BY <1>1, <1>2 DEF LastAI

\* ShutTo of the next state, with n a number of this one.
ShutNext(n) ==
    \A i \in 1..Len(history') : i <= n /\ history'[i].role = "ai" =>
        \/ \E k \in 1..Len(history') : i < k /\ k <= n /\ history'[k].role = "human"
        \/ \E r \in resolutions' : i <= r /\ r <= n

\* What is over stays over.
LEMMA ShutStays ==
    ASSUME TypeOK, [Next]_vars, NEW n \in Nat, n <= Len(history), ShutTo(n), resolutions \subseteq resolutions'
    PROVE  ShutNext(n)
<1>1. /\ Len(history) \in Nat /\ Len(history') \in Nat /\ Len(history') >= Len(history)
      /\ \A i \in 1..Len(history) : history'[i] = history[i]
  BY HistoryKeeps
<1> SUFFICES ASSUME NEW i \in 1..Len(history'), i <= n, history'[i].role = "ai"
             PROVE  \/ \E k \in 1..Len(history') : i < k /\ k <= n /\ history'[k].role = "human"
                    \/ \E r \in resolutions' : i <= r /\ r <= n
  BY DEF ShutNext
<1>2. i \in 1..Len(history) /\ history[i].role = "ai"
  BY <1>1
<1>3. CASE \E r \in resolutions : i <= r /\ r <= n
  BY <1>3
<1>4. CASE \E k \in 1..Len(history) : i < k /\ k <= n /\ history[k].role = "human"
  <2>1. PICK k \in 1..Len(history) : i < k /\ k <= n /\ history[k].role = "human"
    BY <1>4
  <2>2. k \in 1..Len(history') /\ history'[k].role = "human"
    BY <1>1, <2>1
  <2> QED BY <2>1, <2>2
<1> QED BY <1>2, <1>3, <1>4 DEF ShutTo

\* A step after which the rows of the AI are the old ones keeps the AI's last row.
LEMMA LastStays ==
    ASSUME TypeOK, LastAI, [Next]_vars,
           \A i \in 1..Len(history') : history'[i].role = "ai" => i \in 1..Len(history)
    PROVE  LastAI'
<1>0. /\ Len(history) \in Nat /\ Len(history') \in Nat /\ Len(history') >= Len(history)
      /\ \A i \in 1..Len(history) : history'[i] = history[i]
  BY HistoryKeeps
<1>1. CASE \A i \in 1..Len(history) : history[i].role # "ai"
  BY <1>0, <1>1 DEF LastAI
<1>2. ASSUME NEW l \in 1..Len(history), history[l].role = "ai",
             \A i \in 1..Len(history) : history[i].role = "ai" => i <= l
      PROVE  LastAI'
  <2>1. l \in 1..Len(history') /\ history'[l].role = "ai"
    BY <1>0, <1>2
  <2>2. \A i \in 1..Len(history') : history'[i].role = "ai" => i <= l
    BY <1>0, <1>2
  <2> QED BY <2>1, <2>2 DEF LastAI
<1> QED BY <1>1, <1>2 DEF LastAI

\* The rows of the AI that a step adds: at most the last one, which names a text that
\* Meta accepted.
LEMMA NewRows ==
    ASSUME TypeOK, ClaimInv, [Next]_vars
    PROVE  \A i \in 1..Len(history') : history'[i].role = "ai" =>
              \/ i \in 1..Len(history)
              \/ /\ i = Len(history) + 2 /\ i = Len(history')
                 /\ history'[i].text \in Attempts /\ wire[history'[i].text] = "accepted"
                 /\ UNCHANGED <<turn, state, resolutions>>
<1>0. Len(history) \in Nat
  BY DEF TypeOK
<1>1. CASE UNCHANGED history
  BY <1>0, <1>1
<1>2. CASE HumanReplies
  <2>1. history'[Len(history) + 1].role # "ai" /\ Len(history') = Len(history) + 1
    BY <1>2, HumanRow DEF Row
  <2> QED BY <1>0, <2>1
<1>3. ASSUME NEW d \in Attempts, SaveTurn(d)
      PROVE  \A i \in 1..Len(history') : history'[i].role = "ai" =>
              \/ i \in 1..Len(history)
              \/ /\ i = Len(history) + 2 /\ i = Len(history')
                 /\ history'[i].text \in Attempts /\ wire[history'[i].text] = "accepted"
                 /\ UNCHANGED <<turn, state, resolutions>>
  <2>1. history'[Len(history) + 1].role # "ai"
    <3>1. history'[Len(history) + 1] = Row("customer", KeyOf[d], NoAttempt)
      BY <1>3, SavedRows
    <3> QED BY <3>1 DEF Row
  <2>2. \/ Len(history') = Len(history) + 1
        \/ /\ Len(history') = Len(history) + 2
           /\ history'[Len(history) + 2].role = "ai" =>
                 answer[d].told = "sent" /\ history'[Len(history) + 2].text = answer[d].text
    <3>1. \/ Len(history') = Len(history) + 1
          \/ Len(history') = Len(history) + 2
      BY <1>3, SavedRows
    <3>2. Len(history') = Len(history) + 2 =>
             \/ answer[d].told = "sent" /\ history'[Len(history) + 2] = Row("ai", KeyOf[d], answer[d].text)
             \/ history'[Len(history) + 2] = Row("suggestion", KeyOf[d], NoAttempt)
      BY <1>3, SavedRows
    <3> QED BY <3>1, <3>2 DEF Row
  <2>3. answer[d].told = "sent" => answer[d].text \in Attempts /\ wire[answer[d].text] = "accepted"
    BY DEF ClaimInv, Words, ToldTheTruth
  <2>4. UNCHANGED <<turn, state, resolutions>>
    BY <1>3 DEF SaveTurn
  <2>5. \A i \in 1..Len(history') : i \in 1..Len(history) \/ i = Len(history) + 1
                                   \/ (i = Len(history) + 2 /\ i = Len(history'))
    BY <1>0, <2>2
  <2> QED BY <2>1, <2>2, <2>3, <2>4, <2>5
<1> QED BY <1>1, <1>2, <1>3, HistoryGrows

\* Resolutions are of what was there, and only an attendant makes one.
LEMMA ResolutionsStay ==
    ASSUME TypeOK, Resolutions, [Next]_vars
    PROVE  Resolutions' /\ resolutions \subseteq resolutions'
<1>0. /\ Len(history) \in Nat /\ Len(history') \in Nat /\ Len(history') >= Len(history)
      /\ resolutions \subseteq Nat
  BY HistoryKeeps DEF TypeOK
<1>1. CASE UNCHANGED <<state, resolutions>>
  BY <1>0, <1>1 DEF Resolutions
<1>2. CASE HumanStep
  <2>1. CASE HumanResolves
    <3>1. /\ UNCHANGED history /\ state'.resolvedAt = Len(history)
          /\ resolutions' = resolutions \cup {Len(history)}
      BY <2>1 DEF HumanResolves
    <3> QED BY <1>0, <3>1 DEF Resolutions
  <2>2. CASE HumanReplies
    <3>1. UNCHANGED resolutions /\ (UNCHANGED state \/ state'.status = "open")
      BY <2>2 DEF HumanReplies, InCharge
    <3> QED BY <1>0, <3>1 DEF Resolutions
  <2>3. CASE HumanClaims \/ HumanReleases
    <3>1. UNCHANGED resolutions /\ state'.status = "open"
      BY <2>3 DEF HumanClaims, HumanReleases, InCharge
    <3> QED BY <1>0, <3>1 DEF Resolutions
  <2> QED BY <1>2, <2>1, <2>2, <2>3 DEF HumanStep
<1>3. ASSUME NEW d \in Attempts,
             Arrival(d) \/ Handler(d) \/ GateUnreadable(d) \/ MetaMoves(d) \/ Fail(d)
      PROVE  UNCHANGED <<state, resolutions>>
  BY <1>3 DEF Arrival, Triage, TriageUnavailable, Handler, IgnoreLong, Unsupported, Gate, FindProcessed,
              Classify, Reply, SaveTurn, KeepResponse, KeepConflicts, Note, GateUnreadable, MetaMoves, Fail,
              records, inboundVars
<1> QED BY <1>1, <1>2, <1>3 DEF Next, Step, vars, inboundVars, records

\* What a sender was let through by does not change once its text is out.
LEMMA SentTurn ==
    ASSUME TypeOK, ClaimInv, Sending, [Next]_vars, NEW t \in Attempts, wire[t] = "accepted"
    PROVE  /\ turn[t].auto
           /\ turn'[t].auto = turn[t].auto /\ turn'[t].stage = turn[t].stage /\ turn'[t].seen = turn[t].seen
<1>1. pc[t] # "idle"
  BY DEF ClaimInv, Places
<1>2. step[t] \notin Before /\ turn[t].auto
  BY <1>1 DEF Sending
<1>3. step[t] # "expected" /\ ~Gate(t)
  BY <1>2 DEF Before, Gate
<1> QED BY <1>2, <1>3, TurnKeeps

LEMMA GatesStay ==
    ASSUME TypeOK, ClaimInv, GateInv, [Next]_vars
    PROVE  Gates'
<1>0. /\ Len(history) \in Nat /\ Len(history') \in Nat /\ Len(history') >= Len(history)
      /\ \A i \in 1..Len(history) : history'[i] = history[i]
      /\ turn \in [Attempts -> Turns] /\ resolutions \subseteq resolutions'
  BY HistoryKeeps, ResolutionsStay DEF TypeOK, Turns, GateInv
<1> SUFFICES ASSUME NEW d \in Attempts
             PROVE  /\ turn'[d].seen <= Len(history')
                    /\ turn'[d].auto /\ turn'[d].stage # "clarifying" => ShutNext(turn'[d].seen)
  BY DEF Gates, ShutTo, ShutNext
<1>1. CASE turn'[d].auto = turn[d].auto /\ turn'[d].stage = turn[d].stage /\ turn'[d].seen = turn[d].seen
  <2>1. turn[d].seen \in Nat /\ turn[d].seen <= Len(history)
    BY <1>0 DEF Turns, GateInv, Gates
  <2>2. turn[d].auto /\ turn[d].stage # "clarifying" => ShutNext(turn[d].seen)
    BY <1>0, <2>1, ShutStays DEF GateInv, Gates
  <2> QED BY <1>0, <1>1, <2>1, <2>2
<1>2. CASE turn'[d].auto = FALSE /\ turn'[d].seen = 0
  BY <1>0, <1>2
<1>3. CASE Gate(d)
  <2>1. /\ UNCHANGED history /\ turn'[d].seen = Len(history) /\ turn'[d].stage = turn[d].stage
        /\ turn'[d].auto => turn[d].stage = "clarifying" \/ ~AutoReplyUsed
    BY <1>0, <1>3 DEF Gate, records, Turns
  <2>2. ~AutoReplyUsed => ShutNext(Len(history))
    BY <1>0, GateCloses, ShutStays DEF GateInv
  <2> QED BY <1>0, <2>1, <2>2
<1> QED BY <1>1, <1>2, <1>3, TurnKeeps

LEMMA LaterStays ==
    ASSUME TypeOK, ClaimInv, RowsInv, GateInv, [Next]_vars
    PROVE  Later'
<1>0. /\ Len(history) \in Nat /\ Len(history') \in Nat
      /\ \A i \in 1..Len(history) : history'[i] = history[i]
      /\ turn \in [Attempts -> Turns]
  BY HistoryKeeps DEF TypeOK, Turns
<1> SUFFICES ASSUME NEW j \in 1..Len(history'), history'[j].role = "ai"
             PROVE  turn'[history'[j].text].seen < j
  BY DEF Later
<1>1. CASE j \in 1..Len(history)
  <2>1. history[j].role = "ai" /\ history'[j] = history[j] /\ turn[history[j].text].seen < j
    BY <1>0, <1>1 DEF GateInv, Later
  <2>2. history[j].text \in Attempts /\ wire[history[j].text] = "accepted"
    BY <1>1, <2>1 DEF RowsInv
  <2>3. turn'[history[j].text].seen = turn[history[j].text].seen
    BY <2>2, SentTurn DEF GateInv
  <2> QED BY <2>1, <2>3
<1>2. CASE j \notin 1..Len(history)
  <2>1. j = Len(history) + 2 /\ history'[j].text \in Attempts /\ UNCHANGED turn
    BY <1>2, NewRows
  <2>2. turn[history'[j].text].seen \in Nat /\ turn[history'[j].text].seen <= Len(history)
    BY <1>0, <2>1 DEF Turns, GateInv, Gates
  <2> QED BY <1>0, <2>1, <2>2
<1> QED BY <1>1, <1>2

LEMMA LastAIStays ==
    ASSUME TypeOK, ClaimInv, GateInv, [Next]_vars
    PROVE  LastAI'
<1>0. Len(history') \in Nat /\ Len(history) \in Nat
  BY HistoryKeeps
<1>1. CASE \A i \in 1..Len(history') : history'[i].role = "ai" => i \in 1..Len(history)
  BY <1>1, LastStays DEF GateInv
<1>2. ASSUME NEW i \in 1..Len(history'), history'[i].role = "ai", i \notin 1..Len(history)
      PROVE  LastAI'
  <2>1. i = Len(history')
    BY <1>2, NewRows
  <2>2. \A k \in 1..Len(history') : k <= i
    BY <1>0, <2>1
  <2> QED BY <1>2, <2>2 DEF LastAI
<1> QED BY <1>1, <1>2

LEMMA GateInvStays ==
    ASSUME TypeOK, ClaimInv, RowsInv, GateInv, [Next]_vars
    PROVE  GateInv'
BY SendingStays, LastAIStays, ResolutionsStay, GatesStay, LaterStays DEF GateInv

\* From the gates to the rows.
LEMMA GatesAnswer ==
    ASSUME TypeOK, ClaimInv, RowsInv, GateInv
    PROVE  OneAnswerPerGate
<1>0. Len(history) \in Nat /\ turn \in [Attempts -> Turns] /\ resolutions \subseteq Nat
  BY DEF TypeOK, Turns
<1> SUFFICES ASSUME NEW i \in 1..Len(history), NEW j \in 1..Len(history), i < j,
                    history[i].role = "ai", history[j].role = "ai", OneWait(i, j),
                    turn[history[j].text].stage # "clarifying"
             PROVE  turn[history[j].text].seen < i
  BY DEF OneAnswerPerGate
<1> DEFINE t == history[j].text
           n == turn[t].seen
<1>1. t \in Attempts /\ wire[t] = "accepted"
  BY DEF RowsInv
<1>2. turn[t].auto
  <2>1. pc[t] # "idle"
    BY <1>1 DEF ClaimInv, Places
  <2> QED BY <1>1, <2>1 DEF GateInv, Sending
<1>3. n \in Nat /\ n < j /\ ShutTo(n)
  BY <1>0, <1>1, <1>2 DEF GateInv, Gates, Later, Turns
<1>4. SUFFICES ASSUME i <= n PROVE FALSE
  BY <1>0, <1>3
<1>5. CASE \E k \in 1..Len(history) : i < k /\ k <= n /\ history[k].role = "human"
  <2>1. PICK k \in 1..Len(history) : i < k /\ k <= n /\ history[k].role = "human"
    BY <1>5
  <2>2. k \in i..j
    BY <1>0, <1>3, <2>1
  <2> QED BY <2>1, <2>2 DEF OneWait
<1>6. CASE \E r \in resolutions : i <= r /\ r <= n
  <2>1. PICK r \in resolutions : i <= r /\ r <= n
    BY <1>6
  <2>2. r \in i..(j - 1)
    BY <1>0, <1>3, <2>1
  <2> QED BY <2>1, <2>2 DEF OneWait
<1> QED BY <1>3, <1>4, <1>5, <1>6 DEF ShutTo

\* Whatever overlaps, fails or is delivered again, the AI answers a second time in one
\* wait only to the menu, or by a message that passed the gate before the first answer
\* was in the history.
THEOREM GateIsRespected == Spec => []OneAnswerPerGate
<1>1. Init => GateInv /\ RowsInv
  BY DEF Init, ClaimInit, GateInv, Sending, LastAI, Resolutions, Gates, Later, NoTurn, Before, ShutTo, RowsInv
<1>2. TypeOK /\ ClaimInv /\ RowsInv /\ GateInv /\ [Next]_vars => RowsInv' /\ GateInv'
  BY RowsStay, GateInvStays
<1>3. TypeOK /\ ClaimInv /\ RowsInv /\ GateInv => OneAnswerPerGate
  BY GatesAnswer
<1> QED BY <1>1, <1>2, <1>3, InboundTypes, ReservationAlways, PTL DEF Spec

-----------------------------------------------------------------------------
(* The menu was asked before its answer is waited for.                     *)

\* The delivery that asked is at its end, and what it goes by stays.
Asked ==
    ticket.stage = "clarifying" =>
        \E d \in Attempts :
            /\ step[d] = "acked" /\ Clarifies(d) /\ turn[d].ticket = ticket.number
            /\ \E a \in Attempts : KeyOf[a] = KeyOf[d] /\ wire[a] = "accepted"

\* A delivery at its end stays there, with its turn.
LEMMA AckedStays ==
    ASSUME TypeOK, [Next]_vars, NEW t \in Attempts, step[t] = "acked"
    PROVE  step'[t] = "acked" /\ turn'[t] = turn[t]
<1>0. step \in [Attempts -> Working \cup {"expected", "acked", "error"}] /\ "acked" \notin Working
  BY DEF TypeOK, Working
<1>1. CASE HumanStep \/ UNCHANGED vars \/ \E d \in Attempts : MetaMoves(d)
  BY <1>1, HumanLeaves DEF vars, MetaMoves, inboundVars
<1>2. ASSUME NEW d \in Attempts, Triage(d)
      PROVE  step'[t] = "acked" /\ turn'[t] = turn[t]
  <2>1. step[d] = "expected"
    BY <1>2 DEF Triage, MayArrive
  <2> QED BY <1>0, <1>2, <2>1, TriageSets
<1>3. ASSUME NEW d \in Attempts, TriageUnavailable(d)
      PROVE  step'[t] = "acked" /\ turn'[t] = turn[t]
  BY <1>0, <1>3 DEF TriageUnavailable, MayArrive, Go
<1>4. ASSUME NEW d \in Attempts, Moves(d)
      PROVE  step'[t] = "acked" /\ turn'[t] = turn[t]
  BY <1>0, <1>4 DEF Moves
<1>5. ASSUME NEW d \in Attempts, Note(d)
      PROVE  step'[t] = "acked" /\ turn'[t] = turn[t]
  BY <1>0, <1>5 DEF Note, Go
<1> QED BY <1>1, <1>2, <1>3, <1>4, <1>5, HandlerMoves DEF Next, Step, Arrival

LEMMA AskedStays ==
    ASSUME TypeOK, ClaimInv, Asked, [Next]_vars
    PROVE  Asked'
<1>0. /\ ticket \in Tickets /\ \A a \in Attempts : wire[a] = "accepted" => wire'[a] = "accepted"
      /\ step \in [Attempts -> Working \cup {"expected", "acked", "error"}]
  BY AcceptedStays, StepFollows DEF TypeOK, Tickets
<1>1. ASSUME ticket'.stage = "clarifying" => ticket.stage = "clarifying" /\ ticket'.number = ticket.number
      PROVE  Asked'
  <2> SUFFICES ASSUME ticket'.stage = "clarifying"
               PROVE  \E d \in Attempts :
                        /\ step'[d] = "acked" /\ Clarifies(d)' /\ turn'[d].ticket = ticket'.number
                        /\ \E a \in Attempts : KeyOf[a] = KeyOf[d] /\ wire'[a] = "accepted"
    BY DEF Asked
  <2>1. PICK d \in Attempts :
            /\ step[d] = "acked" /\ Clarifies(d) /\ turn[d].ticket = ticket.number
            /\ \E a \in Attempts : KeyOf[a] = KeyOf[d] /\ wire[a] = "accepted"
    BY <1>1 DEF Asked
  <2>2. step'[d] = "acked" /\ turn'[d] = turn[d]
    BY <2>1, AckedStays
  <2> QED BY <1>0, <1>1, <2>1, <2>2 DEF Clarifies
<1>2. ASSUME NEW d \in Attempts, Note(d)
      PROVE  Asked'
  <2>1. CASE Clarifies(d) /\ answer[d].told = "sent" /\ turn[d].ticket = ticket.number
    <3>1. step'[d] = "acked" /\ UNCHANGED turn
      BY <1>0, <1>2 DEF Note, Go
    <3>2. /\ answer[d].text \in Attempts /\ KeyOf[answer[d].text] = KeyOf[d]
          /\ wire'[answer[d].text] = "accepted"
      BY <1>0, <2>1 DEF ClaimInv, Words, ToldTheTruth
    <3>3. ticket'.number = ticket.number
      BY <1>0, <1>2 DEF Note, Tickets
    <3> QED BY <2>1, <3>1, <3>2, <3>3 DEF Asked, Clarifies
  <2>2. CASE ~(Clarifies(d) /\ answer[d].told = "sent" /\ turn[d].ticket = ticket.number)
    <3>1. ticket'.stage \in {ticket.stage, "routed"} /\ ticket'.number = ticket.number
      BY <1>0, <1>2, <2>2 DEF Note, Tickets
    <3> QED BY <1>1, <3>1
  <2> QED BY <2>1, <2>2
<1>3. ASSUME NEW d \in Attempts, Triage(d)
      PROVE  Asked'
  BY <1>1, <1>3, TriageSets
<1>4. ASSUME NEW d \in Attempts, TriageUnavailable(d) \/ MetaMoves(d) \/ Moves(d)
      PROVE  Asked'
  <2>1. UNCHANGED ticket
    BY <1>4 DEF TriageUnavailable, MetaMoves, Moves, inboundVars, records
  <2> QED BY <1>1, <2>1
<1>5. CASE HumanStep \/ UNCHANGED vars
  BY <1>1, <1>5, HumanLeaves DEF vars, inboundVars, records
<1> QED BY <1>2, <1>3, <1>4, <1>5, HandlerMoves DEF Next, Step, Arrival

\* A ticket waits for the menu's choice only when its customer has a text that answers
\* a message whose delivery had to ask, whatever overlaps, fails or dies.
THEOREM MenuIsAsked == Spec => []MenuWasAsked
<1>1. Init => Asked
  BY DEF Init, Asked
<1>2. TypeOK /\ ClaimInv /\ Asked /\ [Next]_vars => Asked'
  BY AskedStays
<1>3. Asked => MenuWasAsked
  BY DEF Asked, MenuWasAsked
<1> QED BY <1>1, <1>2, <1>3, InboundTypes, ReservationAlways, PTL DEF Spec
=============================================================================
