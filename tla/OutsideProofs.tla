---------------------------- MODULE OutsideProofs ----------------------------
(***************************************************************************)
(* What deals with the ERP and with the language model, one part after the *)
(* other: the ticket the triage fills in, the search of a customer by      *)
(* telephone, the replies of the agent, the audit of the contracts. At the *)
(* end, that a behaviour of Outside is one of each part.                   *)
(***************************************************************************)
EXTENDS Outside, FiniteSetTheorems, SequenceTheorems, WellFoundedInduction, TLAPS

-----------------------------------------------------------------------------
(* The first of some places of a sequence, and the oldest of some          *)
(* contracts, exist.                                                       *)

LEMMA NaturalsHaveALeast ==
    ASSUME NEW S, S \subseteq Nat, S # {}
    PROVE  \E i \in S : \A j \in S : i <= j
<1> DEFINE Below == {ss \in Nat \X Nat : ss[1] < ss[2]}
<1>1. IsWellFoundedOn(Below, Nat)
    BY NatLessThanWellFounded, Zenon DEF OpToRel
<1>2. PICK i \in S : \A j \in S : ~(<<j, i>> \in Below)
    <2> HIDE DEF Below
    <2> QED BY <1>1, WFMin
<1>3. \A j \in S : ~(j < i)
    BY <1>2
<1> QED
    BY <1>3

LEMMA FirstAmongIsOne ==
    ASSUME NEW s, NEW places, places \subseteq Nat, NEW default
    PROVE  \/ places = {} /\ FirstAmong(s, places, default) = default
           \/ \E i \in places : FirstAmong(s, places, default) = s[i]
<1>1. CASE places # {}
    BY <1>1, NaturalsHaveALeast DEF FirstAmong
<1> QED
    BY <1>1 DEF FirstAmong

-----------------------------------------------------------------------------
(* The triage: what the ERP may have of a customer, and the advice on it.  *)

ContractRows == [id : Nat, status : STRING, internet : STRING, unlocked : BOOLEAN]
LoginRows == [contract : Nat, online : {"yes", "no", "unsaid"}, neighborhood : STRING]
Found == Situations \union {NothingFound.data}

LEMMA FoundIsTyped ==
    ASSUME NEW data \in Found
    PROVE  data.contracts \in Seq(ContractRows) /\ data.logins \in Seq(LoginRows)
<1>1. CASE data \in Situations
    BY <1>1, TriageAssumption DEF ContractRows, LoginRows
<1>2. CASE data = NothingFound.data
    <2>1. data.contracts = <<>> /\ data.logins = <<>>
        BY <1>2 DEF NothingFound
    <2> QED BY <2>1, EmptySeq
<1> QED
    BY <1>1, <1>2 DEF Found

\* The contract is an active one, or the first one, none of them being active.
LEMMA TheContractIs ==
    ASSUME NEW data \in Found, data.contracts # <<>>
    PROVE  \E c \in DOMAIN data.contracts :
              /\ TheContract(data) = data.contracts[c]
              /\ \/ data.contracts[c].status = "A"
                 \/ \A d \in DOMAIN data.contracts : data.contracts[d].status # "A"
<1> DEFINE active == {i \in DOMAIN data.contracts : data.contracts[i].status = "A"}
<1>1. data.contracts \in Seq(ContractRows)
    BY FoundIsTyped
<1>2. /\ DOMAIN data.contracts = 1..Len(data.contracts) /\ 1 \in DOMAIN data.contracts
      /\ Head(data.contracts) = data.contracts[1]
    BY <1>1, EmptySeq
<1>3. active \subseteq Nat
    BY <1>2
<1>4. TheContract(data) = FirstAmong(data.contracts, active, Head(data.contracts))
    BY DEF TheContract, FirstOf
<1>5. CASE active = {}
    BY <1>2, <1>4, <1>5 DEF FirstAmong
<1>6. CASE active # {}
    <2>1. PICK i \in active : TheContract(data) = data.contracts[i]
        <3> HIDE DEF active
        <3> QED BY <1>3, <1>4, <1>6, FirstAmongIsOne
    <2> QED BY <2>1
<1> QED
    BY <1>5, <1>6

\* The login is one of the contract, or the first one, the contract having none.
LEMMA TheLoginIs ==
    ASSUME NEW data \in Found, data.logins # <<>>
    PROVE  \E l \in DOMAIN data.logins :
              /\ TheLogin(data) = data.logins[l]
              /\ \/ data.contracts = <<>>
                 \/ data.logins[l].contract = TheContract(data).id
                 \/ \A m \in DOMAIN data.logins : data.logins[m].contract # TheContract(data).id
<1> DEFINE its == {i \in DOMAIN data.logins : /\ data.contracts # <<>>
                                              /\ data.logins[i].contract = TheContract(data).id}
<1>1. data.logins \in Seq(LoginRows)
    BY FoundIsTyped
<1>2. /\ DOMAIN data.logins = 1..Len(data.logins) /\ 1 \in DOMAIN data.logins
      /\ Head(data.logins) = data.logins[1]
    BY <1>1, EmptySeq
<1>3. its \subseteq Nat
    BY <1>2
<1>4. TheLogin(data) = FirstAmong(data.logins, its, Head(data.logins))
    BY DEF TheLogin, FirstOf
<1>5. CASE its = {}
    BY <1>2, <1>4, <1>5 DEF FirstAmong
<1>6. CASE its # {}
    <2>1. PICK i \in its : TheLogin(data) = data.logins[i]
        <3> HIDE DEF its
        <3> QED BY <1>3, <1>4, <1>6, FirstAmongIsOne
    <2> QED BY <2>1
<1> QED
    BY <1>5, <1>6

LEMMA NobodyIsDown ==
    ASSUME NEW data \in Found, data.logins = <<>>
    PROVE  TheLogin(data).online = "unsaid"
<1> DEFINE its == {i \in DOMAIN data.logins : /\ data.contracts # <<>>
                                              /\ data.logins[i].contract = TheContract(data).id}
<1>1. its = {}
    OBVIOUS
<1>2. TheLogin(data) = NoLogin
    BY <1>1 DEF TheLogin, FirstAmong, FirstOf
<1> QED
    BY <1>2 DEF NoLogin

\* An order is advised in one branch only.
LEMMA WhenAnOrder ==
    ASSUME NEW data, NEW list, DiagnoseConnection(data, list).next = "open an order"
    PROVE  /\ TheContract(data).internet \notin BLOCKED /\ TheLogin(data).online = "no"
           /\ ~HasOutage(data, list) /\ data.orders = <<>>
<1> DEFINE verdict == DiagnoseConnection(data, list).verdict
           next == DiagnoseConnection(data, list).next
<1>1. CASE TheContract(data).internet \in BLOCKED
    <2>1. next \in {"offer the unlock", "ask who blocked", "send to billing"}
        BY <1>1 DEF DiagnoseConnection
    <2> QED BY <2>1
<1>2. CASE TheContract(data).internet \notin BLOCKED /\ TheLogin(data).online = "no"
    <2>1. next = IF HasOutage(data, list) THEN "tell of the outage"
                 ELSE IF data.orders # <<>> THEN "follow the order" ELSE "open an order"
        BY <1>2 DEF DiagnoseConnection
    <2> QED BY <1>2, <2>1
<1>3. CASE TheContract(data).internet \notin BLOCKED /\ TheLogin(data).online # "no"
    <2>1. next \in {"follow the order", "check the wifi", "look into it"}
        BY <1>3 DEF DiagnoseConnection
    <2> QED BY <2>1
<1> QED
    BY <1>1, <1>2, <1>3

OrderFits(data, list) ==
    /\ data.orders = <<>>
    /\ \E l \in DOMAIN data.logins :
          /\ data.logins[l].online = "no" /\ Judged(data, l)
          /\ data.logins[l].neighborhood = "unsaid"
               \/ \A i \in DOMAIN list : list[i].neighborhood # data.logins[l].neighborhood

LEMMA OrdersFit ==
    ASSUME NEW data \in Found, NEW list, DiagnoseConnection(data, list).next = "open an order"
    PROVE  OrderFits(data, list)
<1>1. /\ TheContract(data).internet \notin BLOCKED /\ TheLogin(data).online = "no"
      /\ ~HasOutage(data, list) /\ data.orders = <<>>
    BY WhenAnOrder
<1>2. PICK l \in DOMAIN data.logins :
              /\ TheLogin(data) = data.logins[l]
              /\ \/ data.contracts = <<>>
                 \/ data.logins[l].contract = TheContract(data).id
                 \/ \A m \in DOMAIN data.logins : data.logins[m].contract # TheContract(data).id
    BY <1>1, NobodyIsDown, TheLoginIs
<1>3. Judged(data, l)
    <2>1. CASE data.contracts = <<>>
        BY <2>1 DEF Judged
    <2>2. CASE data.contracts # <<>>
        BY <1>1, <1>2, <2>2, TheContractIs DEF Judged
    <2> QED BY <2>1, <2>2
<1>4. \/ data.logins[l].neighborhood = "unsaid"
      \/ \A i \in DOMAIN list : list[i].neighborhood # data.logins[l].neighborhood
    BY <1>1, <1>2 DEF HasOutage
<1> QED
    BY <1>1, <1>2, <1>3, <1>4 DEF OrderFits

-----------------------------------------------------------------------------
(* The tickets and the messages, typed, and what the messages rely on.     *)

Intents == {"none"} \union {TRIAGE_MENU[i] : i \in DOMAIN TRIAGE_MENU} \union {g[1] : g \in Understandings}
Stages3 == {"new", "clarifying", "routed"}
Identifications == {"pending", "identified", "not_found", "unavailable"}
Advices == {DiagnoseConnection(data, list) : data \in Found, list \in {Running(o) : o \in OutageLists} \union {<<>>}}
TicketRows == [open : BOOLEAN, identification : Identifications, intent : Intents, source : IntentSources,
               confidence : 0..100, stage : Stages3, diagnosis : {NoDiagnosis} \union Advices]
TurnSteps == {"idle", "lookup", "identify", "hear", "record", "diagnose", "asked", "keep"}
SeenRows == [identification : Identifications, stage : Stages3, about : BOOLEAN, diagnosed : BOOLEAN]
FoundRows == [data : Found, list : {Running(o) : o \in OutageLists} \union {<<>>}]
TurnRows == [step : TurnSteps, of : Nat, seen : SeenRows, intent : Intents, source : IntentSources,
             confidence : 0..100, asks : BOOLEAN, delivered : BOOLEAN,
             found : FoundRows]

TriageInv ==
    /\ tickets \in Seq(TicketRows) /\ Len(tickets) <= MaxTickets /\ said \in 0..MaxTurns
    /\ turns \in [Turns -> TurnRows]
    /\ \A t \in Turns : /\ turns[t].of \in 0..Len(tickets)
                        /\ turns[t].step # "idle" => turns[t].of # 0
                        /\ turns[t].step \in {"asked", "keep"} => ~turns[t].seen.diagnosed

LEMMA SeenIsTyped ==
    ASSUME NEW row \in TicketRows
    PROVE  SeenOf(row) \in SeenRows
BY DEF SeenOf, SeenRows, TicketRows

LEMMA NewsAreTyped ==
    /\ NewTicket \in TicketRows /\ NewTurn \in TurnRows
    /\ NewTurn.step = "idle" /\ NewTurn.of = 0 /\ NewTurn.found = NothingFound
<1>1. NewTicket \in TicketRows
    BY DEF NewTicket, TicketRows, Identifications, Stages3, IntentSources, Intents
<1>2. NothingFound \in FoundRows
    BY DEF NothingFound, Found, FoundRows
<1>3. SeenOf(NewTicket) \in SeenRows
    BY <1>1, SeenIsTyped
<1> HIDE DEF NothingFound
<1> QED
    BY <1>1, <1>2, <1>3 DEF NewTurn, TurnRows, TurnSteps, IntentSources, Intents

\* An advice always has a verdict: it is not the absence of one.
LEMMA AdviceHasAVerdict ==
    ASSUME NEW data, NEW list
    PROVE  DiagnoseConnection(data, list).verdict \in {"blocked", "offline", "online", "unknown"}
BY DEF DiagnoseConnection

\* The step of one message leaves the others alone.
LEMMA OneTurnGoes ==
    ASSUME TriageInv, NEW t \in Turns, NEW change \in TurnRows, Goes(t, change),
           tickets' \in Seq(TicketRows), Len(tickets') <= MaxTickets, Len(tickets) <= Len(tickets'),
           said' \in 0..MaxTurns,
           change.of \in 0..Len(tickets'), change.step # "idle" => change.of # 0,
           change.step \in {"asked", "keep"} => ~change.seen.diagnosed
    PROVE  TriageInv'
<1>1. turns' \in [Turns -> TurnRows] /\ turns' = [turns EXCEPT ![t] = change]
    BY DEF TriageInv, Goes
<1>2. Len(tickets) \in Nat /\ Len(tickets') \in Nat
    BY LenProperties DEF TriageInv
<1>3. ASSUME NEW u \in Turns
      PROVE  /\ turns'[u].of \in 0..Len(tickets')
             /\ turns'[u].step # "idle" => turns'[u].of # 0
             /\ turns'[u].step \in {"asked", "keep"} => ~turns'[u].seen.diagnosed
    <2>1. CASE u = t
        BY <1>1, <2>1 DEF TriageInv
    <2>2. CASE u # t
        BY <1>1, <1>2, <2>2 DEF TriageInv
    <2> QED BY <2>1, <2>2
<1> QED
    BY <1>1, <1>3 DEF TriageInv

\* An UPDATE writes a typed row in the place of one.
LEMMA OneRowIsUpdated ==
    ASSUME TriageInv, NEW t \in Turns, turns[t].step # "idle", NEW row \in TicketRows, Updates(t, row)
    PROVE  /\ Row(t) \in TicketRows /\ turns[t].of \in DOMAIN tickets
           /\ tickets' \in Seq(TicketRows) /\ Len(tickets') = Len(tickets) /\ DOMAIN tickets' = DOMAIN tickets
           /\ \A i \in DOMAIN tickets : tickets'[i] # tickets[i] => i = turns[t].of /\ tickets'[i] = row
<1>1. turns[t].of \in 1..Len(tickets) /\ DOMAIN tickets = 1..Len(tickets)
    BY LenProperties DEF TriageInv
<1>2. Row(t) \in TicketRows
    BY <1>1, ElementOfSeq DEF TriageInv, Row
<1>3. CASE tickets' = tickets
    BY <1>1, <1>2, <1>3 DEF TriageInv
<1>4. CASE tickets' = [tickets EXCEPT ![turns[t].of] = row]
    BY <1>1, <1>2, <1>4, ExceptSeq DEF TriageInv
<1> QED
    BY <1>3, <1>4 DEF Updates

TurnOf(n, seen, step) == [NewTurn EXCEPT !.of = n, !.seen = seen, !.step = step]

LEMMA TurnOfIsTyped ==
    ASSUME NEW n \in Nat, NEW seen \in SeenRows, NEW step \in TurnSteps
    PROVE  LET c == TurnOf(n, seen, step) IN c \in TurnRows /\ c.of = n /\ c.step = step
<1>1. NewTurn \in TurnRows
    BY NewsAreTyped
<1> QED
    BY <1>1 DEF TurnRows, TurnOf

LEMMA StartKeepsTriage ==
    ASSUME TriageInv, NEW t \in Turns, StartTriage(t)
    PROVE  TriageInv' /\ \A i \in DOMAIN tickets : tickets'[i] = tickets[i]
<1> DEFINE row == tickets'[Len(tickets')]
           first == IF row.identification \in {"identified", "not_found"} THEN "hear" ELSE "lookup"
           change == TurnOf(Len(tickets'), SeenOf(row), first)
<1>1. /\ tickets' \in Seq(TicketRows) /\ Len(tickets') \in 1..MaxTickets /\ Len(tickets) <= Len(tickets')
      /\ \A i \in DOMAIN tickets : tickets'[i] = tickets[i]
    <2>1. Len(tickets) \in Nat /\ DOMAIN tickets = 1..Len(tickets) /\ MaxTickets \in Nat
        BY LenProperties, TriageAssumption DEF TriageInv
    <2>2. CASE tickets' = tickets /\ tickets # <<>>
        BY <2>1, <2>2, EmptySeq DEF TriageInv
    <2>3. CASE tickets' = Append(tickets, NewTicket) /\ Len(tickets) < MaxTickets
        BY <2>1, <2>3, NewsAreTyped, AppendProperties DEF TriageInv
    <2> QED BY <2>2, <2>3 DEF StartTriage
<1>2. row \in TicketRows
    BY <1>1, ElementOfSeq
<1>3. change \in TurnRows /\ change.of = Len(tickets') /\ change.step \in {"hear", "lookup"}
    <2>1. SeenOf(row) \in SeenRows
        BY <1>2, SeenIsTyped
    <2>2. first \in TurnSteps /\ first \in {"hear", "lookup"} /\ Len(tickets') \in Nat
        BY <1>1 DEF TurnSteps
    <2> HIDE DEF row, first
    <2> QED BY <2>1, <2>2, TurnOfIsTyped
<1>4. Goes(t, change) /\ said' = said + 1 /\ said < MaxTurns
    BY DEF StartTriage, TurnOf
<1>5. said' \in 0..MaxTurns
    BY <1>4, TriageAssumption DEF TriageInv
<1> HIDE DEF change
<1> QED
    BY <1>1, <1>3, <1>4, <1>5, OneTurnGoes

\* A step that only changes what a message knows.
LEMMA HearingKeepsTriage ==
    ASSUME TriageInv, NEW t \in Turns, UNCHANGED <<tickets, said>>,
           NEW change \in TurnRows, Goes(t, change),
           change.of = turns[t].of, change.step # "idle", turns[t].step # "idle",
           change.step \in {"asked", "keep"} => ~change.seen.diagnosed
    PROVE  TriageInv'
<1>1. /\ tickets' \in Seq(TicketRows) /\ Len(tickets') <= MaxTickets /\ Len(tickets) <= Len(tickets')
      /\ said' \in 0..MaxTurns /\ change.of \in 0..Len(tickets') /\ change.of # 0
    BY LenProperties, TriageAssumption DEF TriageInv
<1> QED
    BY <1>1, OneTurnGoes

LEMMA AnsweringKeepsTriage ==
    ASSUME TriageInv, NEW t \in Turns, UNCHANGED <<tickets, said>>, Answers(t)
    PROVE  TriageInv'
<1>1. /\ tickets' \in Seq(TicketRows) /\ Len(tickets') <= MaxTickets /\ Len(tickets) <= Len(tickets')
      /\ said' \in 0..MaxTurns /\ 0 \in 0..Len(tickets')
    BY LenProperties, TriageAssumption DEF TriageInv
<1>2. Goes(t, NewTurn) /\ NewTurn.step \notin {"asked", "keep"}
    BY NewsAreTyped DEF Answers
<1> QED
    BY <1>1, <1>2, NewsAreTyped, OneTurnGoes

LEMMA UpdatingKeepsTriage ==
    ASSUME TriageInv, NEW t \in Turns, turns[t].step # "idle", UNCHANGED said,
           NEW row \in TicketRows, Updates(t, row),
           \/ Answers(t)
           \/ \E step \in TurnSteps \ {"idle", "asked", "keep"} : GoesTo(t, step)
    PROVE  TriageInv'
<1>1. /\ tickets' \in Seq(TicketRows) /\ Len(tickets') <= MaxTickets /\ Len(tickets) <= Len(tickets')
      /\ said' \in 0..MaxTurns /\ 0 \in 0..Len(tickets')
    <2>1. tickets' \in Seq(TicketRows) /\ Len(tickets') = Len(tickets)
        BY OneRowIsUpdated
    <2> QED BY <2>1, LenProperties DEF TriageInv
<1>2. CASE Answers(t)
    <2>1. Goes(t, NewTurn) /\ NewTurn.step \notin {"asked", "keep"}
        BY <1>2, NewsAreTyped DEF Answers
    <2> QED BY <1>1, <2>1, NewsAreTyped, OneTurnGoes
<1>3. ASSUME NEW step \in TurnSteps \ {"idle", "asked", "keep"}, GoesTo(t, step)
      PROVE  TriageInv'
    <2> DEFINE change == [turns[t] EXCEPT !.step = step]
    <2>0. turns[t] \in TurnRows
        BY DEF TriageInv
    <2>1. change \in TurnRows /\ change.of = turns[t].of /\ change.step = step
        BY <2>0 DEF TurnRows
    <2>2. Goes(t, change)
        BY <1>3 DEF GoesTo
    <2>3. change.of \in 0..Len(tickets') /\ change.of # 0
        BY <2>1, OneRowIsUpdated DEF TriageInv
    <2> HIDE DEF change
    <2> QED BY <1>1, <2>1, <2>2, <2>3, OneTurnGoes
<1> QED
    BY <1>2, <1>3

\* What a row loses by an UPDATE, the ticket loses.
LEMMA KeptByUpdate ==
    ASSUME TriageInv, NEW t \in Turns, turns[t].step # "idle", NEW row \in TicketRows, Updates(t, row),
           Confident(Row(t)) /\ QueueForIntent(row.intent) # QueueForIntent(Row(t).intent)
              => Confident(row) \/ (AtTurn(t, "record") /\ ~turns[t].seen.about),
           Row(t).diagnosis # NoDiagnosis /\ row.diagnosis # Row(t).diagnosis
              => AtTurn(t, "keep") /\ ~turns[t].seen.diagnosed
    PROVE  KeepsSector /\ KeepsDiagnosis
<1>1. /\ DOMAIN tickets' = DOMAIN tickets
      /\ \A i \in DOMAIN tickets : tickets'[i] # tickets[i] => i = turns[t].of /\ tickets'[i] = row
    BY OneRowIsUpdated
<1>2. tickets[turns[t].of] = Row(t)
    BY DEF Row
<1> QED
    BY <1>1, <1>2 DEF KeepsSector, KeepsDiagnosis

LEMMA IdentifyingKeepsTriage ==
    ASSUME TriageInv, NEW t \in Turns, SaveIdentification(t)
    PROVE  TriageInv' /\ KeepsSector /\ KeepsDiagnosis
<1> DEFINE row == [Row(t) EXCEPT !.identification = turns[t].seen.identification]
<1>1. turns[t] \in TurnRows /\ turns[t].step = "identify" /\ turns[t].of \in 1..Len(tickets)
    BY LenProperties DEF SaveIdentification, AtTurn, TriageInv
<1>2. Row(t) \in TicketRows
    BY <1>1, ElementOfSeq DEF TriageInv, Row
<1>3. turns[t].seen.identification \in Identifications
    BY <1>1 DEF TurnRows, SeenRows
<1>4. /\ row \in TicketRows /\ row.intent = Row(t).intent /\ row.diagnosis = Row(t).diagnosis
    BY <1>2, <1>3 DEF TicketRows
<1>5. Updates(t, row) /\ GoesTo(t, "hear") /\ UNCHANGED said
    BY DEF SaveIdentification
<1> HIDE DEF row
<1> QED
    BY <1>1, <1>4, <1>5, UpdatingKeepsTriage, KeptByUpdate DEF TurnSteps

LEMMA RecordingKeepsTriage ==
    ASSUME TriageInv, NEW t \in Turns, RecordTriage(t)
    PROVE  TriageInv' /\ KeepsSector /\ KeepsDiagnosis
<1> DEFINE about == IF Confident(turns[t]) \/ ~turns[t].seen.about THEN turns[t] ELSE Row(t)
           row == [Row(t) EXCEPT !.intent = about.intent, !.source = about.source,
                                 !.confidence = about.confidence, !.stage = StageAfter(t)]
<1>1. turns[t] \in TurnRows /\ turns[t].step = "record" /\ turns[t].of \in 1..Len(tickets)
    BY LenProperties DEF RecordTriage, AtTurn, TriageInv
<1>2. Row(t) \in TicketRows
    BY <1>1, ElementOfSeq DEF TriageInv, Row
<1>3. StageAfter(t) \in Stages3
    <2>1. Row(t).stage \in Stages3
        BY <1>2 DEF TicketRows
    <2> QED BY <2>1 DEF StageAfter, Stages3
<1>4. about.intent \in Intents /\ about.source \in IntentSources /\ about.confidence \in 0..100
    <2>1. CASE about = turns[t]
        BY <1>1, <2>1 DEF TurnRows
    <2>2. CASE about = Row(t)
        BY <1>2, <2>2 DEF TicketRows
    <2> QED BY <2>1, <2>2
<1>5. /\ Updates(t, row) /\ UNCHANGED said /\ (Answers(t) \/ GoesTo(t, "diagnose"))
    BY DEF RecordTriage
<1>6. /\ Confident(about) => Confident(turns[t]) \/ ~turns[t].seen.about \/ about = Row(t)
      /\ about = Row(t) \/ ~turns[t].seen.about \/ Confident(about)
    OBVIOUS
<1> HIDE DEF about
<1>7. /\ row \in TicketRows /\ row.diagnosis = Row(t).diagnosis
      /\ row.intent = about.intent /\ row.source = about.source /\ row.confidence = about.confidence
    BY <1>2, <1>3, <1>4 DEF TicketRows
<1> HIDE DEF row
<1>8. Confident(Row(t)) /\ QueueForIntent(row.intent) # QueueForIntent(Row(t).intent)
         => Confident(row) \/ (AtTurn(t, "record") /\ ~turns[t].seen.about)
    BY <1>1, <1>6, <1>7 DEF Confident, AtTurn
<1> QED
    BY <1>1, <1>5, <1>7, <1>8, UpdatingKeepsTriage, KeptByUpdate DEF TurnSteps

LEMMA DiagnosingKeepsTriage ==
    ASSUME TriageInv, NEW t \in Turns, KeepDiagnosis(t)
    PROVE  TriageInv' /\ KeepsSector /\ KeepsDiagnosis
<1> DEFINE advice == DiagnoseConnection(turns[t].found.data, turns[t].found.list)
           row == [Row(t) EXCEPT !.diagnosis = advice]
<1>1. turns[t] \in TurnRows /\ turns[t].step = "keep" /\ turns[t].of \in 1..Len(tickets)
      /\ ~turns[t].seen.diagnosed
    BY LenProperties DEF KeepDiagnosis, AtTurn, TriageInv
<1>2. Row(t) \in TicketRows
    BY <1>1, ElementOfSeq DEF TriageInv, Row
<1>3. advice \in {NoDiagnosis} \union Advices
    <2>1. turns[t].found \in FoundRows
        BY <1>1 DEF TurnRows
    <2> QED BY <2>1 DEF FoundRows, Advices
<1> HIDE DEF advice
<1>4. row \in TicketRows /\ row.intent = Row(t).intent
    BY <1>2, <1>3 DEF TicketRows
<1>5. Updates(t, row) /\ Answers(t) /\ UNCHANGED said
    BY DEF KeepDiagnosis, advice
<1> HIDE DEF row
<1> QED
    BY <1>1, <1>4, <1>5, UpdatingKeepsTriage, KeptByUpdate DEF AtTurn

LEMMA ClosingKeepsTriage ==
    ASSUME TriageInv, TicketCloses
    PROVE  TriageInv' /\ KeepsSector /\ KeepsDiagnosis
<1> DEFINE n == Len(tickets)
           row == [tickets[n] EXCEPT !.open = FALSE]
<1>1. n \in Nat /\ n # 0 /\ DOMAIN tickets = 1..n
    BY EmptySeq, LenProperties DEF TriageInv, TicketCloses
<1>2. tickets[n] \in TicketRows
    BY <1>1, ElementOfSeq DEF TriageInv
<1>3. row \in TicketRows /\ row.intent = tickets[n].intent /\ row.diagnosis = tickets[n].diagnosis
    BY <1>2 DEF TicketRows
<1>4. tickets' = [tickets EXCEPT ![n] = row] /\ UNCHANGED <<said, turns>>
    BY DEF TicketCloses
<1> HIDE DEF row
<1>5. tickets' \in Seq(TicketRows) /\ Len(tickets') = n /\ DOMAIN tickets' = DOMAIN tickets
    BY <1>1, <1>3, <1>4, ExceptSeq DEF TriageInv
<1>6. \A i \in DOMAIN tickets : /\ tickets'[i].intent = tickets[i].intent
                                /\ tickets'[i].diagnosis = tickets[i].diagnosis
    BY <1>1, <1>3, <1>4
<1>7. TriageInv'
    BY <1>4, <1>5 DEF TriageInv
<1> QED
    BY <1>6, <1>7 DEF KeepsSector, KeepsDiagnosis

LEMMA UntouchedTicketsKeep ==
    ASSUME UNCHANGED tickets
    PROVE  KeepsSector /\ KeepsDiagnosis
BY DEF KeepsSector, KeepsDiagnosis

LEMMA LookingUpKeepsTriage ==
    ASSUME TriageInv, NEW t \in Turns, NEW answer \in {"identified", "not_found", "unavailable"},
           IdentifyTicketCustomer(t, answer)
    PROVE  TriageInv'
<1> DEFINE change == [turns[t] EXCEPT !.step = "identify", !.seen.identification = answer]
<1>1. turns[t] \in TurnRows /\ turns[t].step = "lookup"
    BY DEF IdentifyTicketCustomer, AtTurn, TriageInv
<1>2. change \in TurnRows /\ change.of = turns[t].of /\ change.step = "identify"
    <2>1. turns[t].seen \in SeenRows
        BY <1>1 DEF TurnRows
    <2>2. [turns[t].seen EXCEPT !.identification = answer] \in SeenRows
        BY <2>1 DEF SeenRows, Identifications
    <2> QED BY <1>1, <2>2 DEF TurnRows, TurnSteps
<1>3. Goes(t, change) /\ UNCHANGED <<tickets, said>>
    BY DEF IdentifyTicketCustomer
<1> HIDE DEF change
<1> QED
    BY <1>1, <1>2, <1>3, HearingKeepsTriage

LEMMA ChoosingKeepsTriage ==
    ASSUME TriageInv, NEW t \in Turns, NEW number \in Numbers, HearChoice(t, number)
    PROVE  TriageInv'
<1>1. turns[t] \in TurnRows /\ turns[t].step = "hear"
    BY DEF HearChoice, AtTurn, TriageInv
<1>2. PICK intent \in Chosen(t, number) :
          Goes(t, [turns[t] EXCEPT !.step = "record", !.intent = intent, !.source = "menu", !.confidence = 100])
    BY DEF HearChoice
<1>3. intent \in Intents
    BY <1>2 DEF Chosen, MenuChoice, Intents
<1> DEFINE change == [turns[t] EXCEPT !.step = "record", !.intent = intent, !.source = "menu", !.confidence = 100]
<1>4. change \in TurnRows /\ change.of = turns[t].of /\ change.step = "record"
    <2>1. "record" \in TurnSteps /\ "menu" \in IntentSources /\ 100 \in 0..100
        BY DEF TurnSteps, IntentSources
    <2> QED BY <1>1, <1>3, <2>1 DEF TurnRows
<1>5. Goes(t, change) /\ UNCHANGED <<tickets, said>>
    BY <1>2 DEF HearChoice
<1> HIDE DEF change
<1> QED
    BY <1>1, <1>4, <1>5, HearingKeepsTriage

LEMMA WordsKeepTriage ==
    ASSUME TriageInv, NEW t \in Turns, NEW number \in Numbers, NEW guess \in Understandings,
           NEW auto \in BOOLEAN, NEW delivered \in BOOLEAN, HearWords(t, number, guess, auto, delivered)
    PROVE  TriageInv'
<1> DEFINE asks == auto /\ turns[t].seen.stage = "new" /\ IsVague(guess)
           change == [turns[t] EXCEPT !.step = "record", !.intent = guess[1], !.source = "model",
                                      !.confidence = guess[2], !.asks = asks, !.delivered = delivered]
<1>1. turns[t] \in TurnRows /\ turns[t].step = "hear"
    BY DEF HearWords, AtTurn, TriageInv
<1>2. guess[1] \in Intents /\ guess[2] \in 0..100 /\ asks \in BOOLEAN
    BY TriageAssumption DEF Intents
<1>3. Goes(t, change) /\ UNCHANGED <<tickets, said>>
    BY DEF HearWords
<1> HIDE DEF asks
<1>4. change \in TurnRows /\ change.of = turns[t].of /\ change.step = "record"
    BY <1>1, <1>2 DEF TurnRows, TurnSteps, IntentSources
<1> HIDE DEF change
<1> QED
    BY <1>1, <1>3, <1>4, HearingKeepsTriage

LEMMA DecidingKeepsTriage ==
    ASSUME TriageInv, NEW t \in Turns, DiagnoseTicket(t)
    PROVE  TriageInv'
<1>1. CASE Diagnosable(t) /\ GoesTo(t, "asked")
    <2> DEFINE change == [turns[t] EXCEPT !.step = "asked"]
    <2>1. turns[t] \in TurnRows /\ turns[t].step = "diagnose" /\ ~turns[t].seen.diagnosed
        BY <1>1 DEF DiagnoseTicket, AtTurn, TriageInv, Diagnosable
    <2>2. change \in TurnRows /\ change.of = turns[t].of /\ change.step = "asked" /\ change.seen = turns[t].seen
        BY <2>1 DEF TurnRows, TurnSteps
    <2>3. Goes(t, change) /\ UNCHANGED <<tickets, said>>
        BY <1>1 DEF DiagnoseTicket, GoesTo
    <2> HIDE DEF change
    <2> QED BY <2>1, <2>2, <2>3, HearingKeepsTriage
<1>2. CASE Answers(t)
    BY <1>2, AnsweringKeepsTriage DEF DiagnoseTicket
<1> QED
    BY <1>1, <1>2 DEF DiagnoseTicket

LEMMA AskingKeepsTriage ==
    ASSUME TriageInv, NEW t \in Turns, NEW data \in Situations, NEW outages \in OutageLists,
           ReadSituation(t, data, outages)
    PROVE  TriageInv'
<1>1. turns[t] \in TurnRows /\ turns[t].step = "asked" /\ ~turns[t].seen.diagnosed
    BY DEF ReadSituation, AtTurn, TriageInv
<1>2. PICK list \in {Running(outages), <<>>} :
          Goes(t, [turns[t] EXCEPT !.step = "keep", !.found = [data |-> data, list |-> list]])
    BY DEF ReadSituation
<1>3. [data |-> data, list |-> list] \in FoundRows
    BY <1>2 DEF FoundRows, Found
<1> DEFINE found == [data |-> data, list |-> list]
           change == [turns[t] EXCEPT !.step = "keep", !.found = found]
<1>4. Goes(t, change) /\ UNCHANGED <<tickets, said>>
    BY <1>2 DEF ReadSituation
<1> HIDE DEF found
<1>5. /\ change \in TurnRows /\ change.of = turns[t].of /\ change.step = "keep"
      /\ change.seen = turns[t].seen
    BY <1>1, <1>3 DEF TurnRows, TurnSteps, found
<1> HIDE DEF change
<1> QED
    BY <1>1, <1>4, <1>5, HearingKeepsTriage

LEMMA TriageSteps ==
    ASSUME TriageInv, TriageNext
    PROVE  TriageInv' /\ KeepsSector /\ KeepsDiagnosis
<1>1. ASSUME NEW t \in Turns, StartTriage(t)
      PROVE  TriageInv' /\ KeepsSector /\ KeepsDiagnosis
    BY <1>1, StartKeepsTriage DEF KeepsSector, KeepsDiagnosis
<1>2. ASSUME NEW t \in Turns, DiagnosisIsLate(t)
      PROVE  TriageInv' /\ UNCHANGED tickets
    BY <1>2, AnsweringKeepsTriage DEF DiagnosisIsLate
<1>3. ASSUME NEW t \in Turns, DiagnoseTicket(t)
      PROVE  TriageInv' /\ UNCHANGED tickets
    BY <1>3, DecidingKeepsTriage DEF DiagnoseTicket
<1>4. ASSUME NEW t \in Turns, NEW answer \in {"identified", "not_found", "unavailable"},
             IdentifyTicketCustomer(t, answer)
      PROVE  TriageInv' /\ UNCHANGED tickets
    BY <1>4, LookingUpKeepsTriage DEF IdentifyTicketCustomer
<1>5. ASSUME NEW t \in Turns, NEW number \in Numbers, HearChoice(t, number)
      PROVE  TriageInv' /\ UNCHANGED tickets
    BY <1>5, ChoosingKeepsTriage DEF HearChoice
<1>6. ASSUME NEW t \in Turns, NEW number \in Numbers, NEW guess \in Understandings,
             NEW auto \in BOOLEAN, NEW delivered \in BOOLEAN, HearWords(t, number, guess, auto, delivered)
      PROVE  TriageInv' /\ UNCHANGED tickets
    BY <1>6, WordsKeepTriage DEF HearWords
<1>7. ASSUME NEW t \in Turns, NEW data \in Situations, NEW outages \in OutageLists,
             ReadSituation(t, data, outages)
      PROVE  TriageInv' /\ UNCHANGED tickets
    BY <1>7, AskingKeepsTriage DEF ReadSituation
<1> QED
    BY <1>1, <1>2, <1>3, <1>4, <1>5, <1>6, <1>7, UntouchedTicketsKeep, IdentifyingKeepsTriage,
       RecordingKeepsTriage, DiagnosingKeepsTriage, ClosingKeepsTriage DEF TriageNext

LEMMA TriageStarts == TriageInit => TriageInv
<1> SUFFICES ASSUME TriageInit PROVE TriageInv
    OBVIOUS
<1>1. tickets = <<>> /\ said = 0 /\ turns = [t \in Turns |-> NewTurn]
    BY DEF TriageInit
<1>2. <<>> \in Seq(TicketRows) /\ Len(tickets) = 0
    BY <1>1, EmptySeq
<1> QED
    BY <1>1, <1>2, NewsAreTyped, TriageAssumption DEF TriageInv

LEMMA AdviceFitsInTriage == TriageInv => AdviceFits
<1> SUFFICES ASSUME TriageInv, NEW t \in Turns,
                    DiagnoseConnection(turns[t].found.data, turns[t].found.list).next = "open an order"
             PROVE  OrderFits(turns[t].found.data, turns[t].found.list)
    BY DEF AdviceFits, OrderFits
<1>1. turns[t].found.data \in Found
    BY DEF TriageInv, TurnRows, FoundRows
<1> QED
    BY <1>1, OrdersFit

LEMMA TriageIsTyped == TriageInv => TriageTypeOK
<1> SUFFICES ASSUME TriageInv PROVE TriageTypeOK
    OBVIOUS
<1>1. ASSUME NEW i \in DOMAIN tickets
      PROVE  /\ tickets[i].identification \in {"pending", "identified", "not_found", "unavailable"}
             /\ tickets[i].stage \in {"new", "clarifying", "routed"} /\ tickets[i].source \in IntentSources
             /\ tickets[i].diagnosis.verdict \in {"none", "blocked", "offline", "online", "unknown"}
    <2>1. tickets[i] \in TicketRows
        BY ElementOfSeq, LenProperties DEF TriageInv
    <2>2. tickets[i].diagnosis \in {NoDiagnosis} \union Advices
        BY <2>1 DEF TicketRows
    <2>3. tickets[i].diagnosis.verdict \in {"none", "blocked", "offline", "online", "unknown"}
        BY <2>2, AdviceHasAVerdict DEF Advices, NoDiagnosis
    <2> QED BY <2>1, <2>3 DEF TicketRows, Identifications, Stages3
<1>2. \A t \in Turns : turns[t].of \in 0..Len(tickets) /\ turns[t].source \in IntentSources
    BY DEF TriageInv, TurnRows
<1> QED
    BY <1>1, <1>2 DEF TriageTypeOK, TriageInv

-----------------------------------------------------------------------------
(* The search of a customer by telephone.  What a reader has in hand is    *)
(* judged by itself: nothing of it depends on the others.                  *)

Marks == [at : {"no", "out", "ok", "failed"}, tries : Nat]
ReaderKinds == {"free", "snapshot", "sweep", "search", "done"}
Results == Subscribers \union {"nobody", "snapshot", "error", "complete", "truncated", None}
ReaderRows == [kind : ReaderKinds, out : [Slots -> Marks], page : 0..MaxPages, rows : Seq(Invoices),
               total : Nat, there : SUBSET Invoices, tier : {1, 2}, query : 1..4,
               found : SUBSET Subscribers, book : Books \union {None}, result : Results]

\* The customers that the first n queries of a tier name.
HeardFrom(book, tier, n) ==
    {c \in Subscribers : \E i \in 1..n : book[c][Queries(tier)[i].field] = Queries(tier)[i].format}

Answered(x) == IF x.out["page"].at = "ok" THEN x.query ELSE x.query - 1

SearchOK(x) ==
    /\ x.kind # "done" => x.result = None
    /\ x.kind = "sweep" => x.page # 0
    /\ x.result \in Subscribers \union {"nobody"} => x.result = Caller(x.book)
    /\ x.kind = "search" =>
          /\ \A s \in Slots \ {"page"} : x.out[s].at # "out"
          /\ x.found = HeardFrom(x.book, x.tier, Answered(x))
          /\ x.tier = 2 => WhoHas(x.book, 1) = {}

WorldOK ==
    /\ circuit \in [failures : 0..Threshold, state : {"closed", "open", "cooled"}]
    /\ window \in 0..Limit
    /\ cached = None \/ cached \subseteq Slots
    /\ overdue \in Seq(Invoices)

ReadsInv ==
    /\ WorldOK
    /\ reader \in [Readers -> ReaderRows]
    /\ \A r \in Readers : SearchOK(reader[r])

\* The four queries of a tier are the two formats in the two fields.
LEMMA FourQueries ==
    ASSUME NEW book, NEW tier \in {1, 2}
    PROVE  HeardFrom(book, tier, 4) = WhoHas(book, tier)
<1>1. /\ Queries(tier)[1] = [format |-> Formats[1], field |-> Tiers[tier][1]]
      /\ Queries(tier)[2] = [format |-> Formats[1], field |-> Tiers[tier][2]]
      /\ Queries(tier)[3] = [format |-> Formats[2], field |-> Tiers[tier][1]]
      /\ Queries(tier)[4] = [format |-> Formats[2], field |-> Tiers[tier][2]]
    <2>1. /\ (1 - 1) \div 2 = 0 /\ (2 - 1) \div 2 = 0 /\ (3 - 1) \div 2 = 1 /\ (4 - 1) \div 2 = 1
          /\ (1 - 1) % 2 = 0 /\ (2 - 1) % 2 = 1 /\ (3 - 1) % 2 = 0 /\ (4 - 1) % 2 = 1
        OBVIOUS
    <2> QED BY <2>1 DEF Queries
<1>2. 1..4 = {1, 2, 3, 4} /\ 1..2 = {1, 2}
    OBVIOUS
<1>3. ASSUME NEW c \in Subscribers
      PROVE  (\E i \in 1..4 : book[c][Queries(tier)[i].field] = Queries(tier)[i].format)
             <=> \E i, f \in 1..2 : book[c][Tiers[tier][i]] = Formats[f]
    BY <1>1, <1>2
<1> QED
    BY <1>3 DEF HeardFrom, WhoHas

LEMMA OneMoreQuery ==
    ASSUME NEW book, NEW tier, NEW n \in 1..4
    PROVE  HeardFrom(book, tier, n) = HeardFrom(book, tier, n - 1) \union
             {c \in Subscribers : book[c][Queries(tier)[n].field] = Queries(tier)[n].format}
<1>1. 1..n = (1..(n - 1)) \union {n}
    OBVIOUS
<1> QED
    BY <1>1 DEF HeardFrom

LEMMA NobodyHeardYet ==
    ASSUME NEW book, NEW tier
    PROVE  HeardFrom(book, tier, 0) = {}
<1>1. 1..0 = {}
    OBVIOUS
<1> QED
    BY <1>1 DEF HeardFrom

LEMMA HeardAreHolders ==
    ASSUME NEW book, NEW tier \in {1, 2}, NEW n \in 1..4
    PROVE  {c \in Subscribers : book[c][Queries(tier)[n].field] = Queries(tier)[n].format}
              \subseteq WhoHas(book, tier)
<1>1. {c \in Subscribers : book[c][Queries(tier)[n].field] = Queries(tier)[n].format}
         \subseteq HeardFrom(book, tier, 4)
    BY DEF HeardFrom
<1> QED
    BY <1>1, FourQueries

LEMMA NothingIsFine ==
    /\ Nothing \in ReaderRows /\ SearchOK(Nothing)
    /\ \A result \in {"snapshot", "error"} :
          LET x == [Nothing EXCEPT !.kind = "done", !.result = result] IN x \in ReaderRows /\ SearchOK(x)
<1>1. Unsent \in [Slots -> Marks]
    BY DEF Unsent, Marks
<1>2. <<>> \in Seq(Invoices) /\ 0 \in 0..MaxPages
    BY EmptySeq, ReadsAssumption
<1>3. Nothing \in ReaderRows
    BY <1>1, <1>2 DEF Nothing, ReaderRows, ReaderKinds, Results
<1>4. SearchOK(Nothing)
    BY ReadsAssumption DEF SearchOK, Nothing
<1>5. ASSUME NEW result \in {"snapshot", "error"}
      PROVE  LET x == [Nothing EXCEPT !.kind = "done", !.result = result] IN x \in ReaderRows /\ SearchOK(x)
    <2> DEFINE x == [Nothing EXCEPT !.kind = "done", !.result = result]
    <2>1. x \in ReaderRows /\ x.kind = "done" /\ x.result = result
        BY <1>3 DEF ReaderRows, ReaderKinds, Results
    <2>2. result \notin Subscribers \union {"nobody"}
        BY ReadsAssumption
    <2> HIDE DEF x
    <2>3. SearchOK(x)
        BY <2>1, <2>2 DEF SearchOK
    <2> QED BY <2>1, <2>3 DEF x
<1> QED
    BY <1>3, <1>4, <1>5

LEMMA OneReaderMoves ==
    ASSUME ReadsInv, NEW r \in Readers, NEW x \in ReaderRows, SearchOK(x),
           reader' = [reader EXCEPT ![r] = x], WorldOK'
    PROVE  ReadsInv'
<1>1. reader' \in [Readers -> ReaderRows]
    BY DEF ReadsInv
<1>2. ASSUME NEW u \in Readers PROVE SearchOK(reader'[u])
    BY DEF ReadsInv
<1> QED
    BY <1>1, <1>2 DEF ReadsInv

\* What the queries of a list become when they are sent.
Asked(ss, change) ==
    [s \in Slots |-> IF \E i \in 1..Leaving(ss) : ss[i] = s THEN [at |-> "out", tries |-> 0]
                     ELSE IF s \in Range(ss) THEN [at |-> "failed", tries |-> 0]
                     ELSE change.out[s]]

Asking(ss, change) == [change EXCEPT !.out = Asked(ss, change)]

LEMMA LeavingFits ==
    ASSUME WorldOK, NEW ss, Len(ss) \in Nat
    PROVE  Leaving(ss) \in 0..Len(ss) /\ Leaving(ss) <= Limit - window
BY ReadsAssumption DEF WorldOK, Leaving

LEMMA AskingMoves ==
    ASSUME ReadsInv, NEW r \in Readers, NEW ss, Len(ss) \in Nat, NEW change \in ReaderRows,
           Ask(r, ss, change), UNCHANGED <<cached, overdue>>, SearchOK(Asking(ss, change))
    PROVE  ReadsInv'
<1>1. WorldOK'
    <2>1. window' = window + Leaving(ss) /\ window' \in 0..Limit
        BY LeavingFits, ReadsAssumption DEF Ask, ReadsInv, WorldOK
    <2>2. circuit' \in [failures : 0..Threshold, state : {"closed", "open", "cooled"}]
        BY ReadsAssumption DEF Ask, ReadsInv, WorldOK
    <2> QED BY <2>1, <2>2 DEF ReadsInv, WorldOK
<1>2. reader' = [reader EXCEPT ![r] = Asking(ss, change)]
    BY DEF Ask, Asking, Asked
<1>3. Asked(ss, change) \in [Slots -> Marks]
    <2>1. change.out \in [Slots -> Marks]
        BY DEF ReaderRows
    <2> QED BY <2>1 DEF Asked, Marks
<1>4. Asking(ss, change) \in ReaderRows
    BY <1>3 DEF Asking, ReaderRows
<1> QED
    BY <1>1, <1>2, <1>4, OneReaderMoves

\* One query is either on its way or turned away, and the others stay as they are.
LEMMA OneQueryAsked ==
    ASSUME WorldOK, NEW change \in ReaderRows
    PROVE  /\ Len(<<"page">>) \in Nat
           /\ Asking(<<"page">>, change).out["page"].at # "ok"
           /\ \A s \in Slots \ {"page"} : Asking(<<"page">>, change).out[s] = change.out[s]
           /\ \A f \in {"kind", "page", "rows", "total", "there", "tier", "query", "found", "book", "result"} :
                 Asking(<<"page">>, change)[f] = change[f]
<1> DEFINE ss == <<"page">>
<1>1. Len(ss) = 1 /\ ss[1] = "page" /\ Range(ss) = {"page"}
    <2>1. Len(ss) = 1 /\ ss[1] = "page" /\ DOMAIN ss = {1}
        OBVIOUS
    <2> QED BY <2>1 DEF Range
<1>2. Leaving(ss) \in 0..1
    BY <1>1, LeavingFits
<1> HIDE DEF ss
<1>3. "page" \in Slots
    BY DEF Slots
<1>4. Asked(ss, change)["page"].at # "ok"
    BY <1>1, <1>3 DEF Asked
<1>5. \A s \in Slots \ {"page"} : Asked(ss, change)[s] = change.out[s]
    BY <1>1, <1>2 DEF Asked
<1>6. Asking(ss, change).out = Asked(ss, change)
    BY DEF Asking, ReaderRows
<1>7. \A f \in {"kind", "page", "rows", "total", "there", "tier", "query", "found", "book", "result"} :
          Asking(ss, change)[f] = change[f]
    BY DEF Asking, ReaderRows
<1> QED
    BY <1>1, <1>4, <1>5, <1>6, <1>7 DEF ss

\* A read that is no search and has no result is as the search wants it.
LEMMA OtherReadsAreFine ==
    ASSUME NEW x, x.kind # "search", x.result = None, x.kind = "sweep" => x.page # 0
    PROVE  SearchOK(x)
BY ReadsAssumption DEF SearchOK

LEMMA DoneMoves ==
    ASSUME ReadsInv, NEW r \in Readers, NEW result \in {"snapshot", "error"}, Done(r, result), WorldOK'
    PROVE  ReadsInv'
<1> DEFINE x == [Nothing EXCEPT !.kind = "done", !.result = result]
<1>1. x \in ReaderRows /\ SearchOK(x)
    BY NothingIsFine
<1>2. reader' = [reader EXCEPT ![r] = x]
    BY DEF Done
<1> HIDE DEF x
<1> QED
    BY <1>1, <1>2, OneReaderMoves

\* The snapshot: whatever it asks, it is no search.
LEMMA SnapshotsMove ==
    ASSUME ReadsInv, NEW r \in Readers,
           \/ SnapshotBegins(r) \/ SnapshotFollows(r) \/ SnapshotIsKept(r) \/ SnapshotFails(r)
    PROVE  ReadsInv'
<1>1. ASSUME UNCHANGED <<circuit, window, overdue>>, cached' = None \/ cached' \subseteq Slots
      PROVE  WorldOK'
    BY <1>1 DEF ReadsInv, WorldOK
<1>2. cached = None \/ cached \subseteq Slots
    BY DEF ReadsInv, WorldOK
<1>3. ASSUME NEW ss, Len(ss) \in Nat, NEW change \in ReaderRows, Ask(r, ss, change),
             UNCHANGED <<cached, overdue>>, change.kind = "snapshot", change.result = None
      PROVE  ReadsInv'
    <2>1. Asking(ss, change).kind = "snapshot" /\ Asking(ss, change).result = None
        BY <1>3 DEF Asking, ReaderRows
    <2> QED BY <1>3, <2>1, OtherReadsAreFine, AskingMoves
<1>4. CASE SnapshotBegins(r)
    <2>1. CASE Done(r, "snapshot") /\ UNCHANGED <<circuit, window>>
        BY <1>1, <1>2, <1>4, <2>1, DoneMoves DEF SnapshotBegins
    <2>2. CASE Ask(r, <<"customer">>, [Nothing EXCEPT !.kind = "snapshot"])
        <3> DEFINE change == [Nothing EXCEPT !.kind = "snapshot"]
        <3>1. change \in ReaderRows /\ change.kind = "snapshot" /\ change.result = None
            <4>1. Nothing \in ReaderRows /\ Nothing.result = None
                BY NothingIsFine DEF Nothing
            <4> QED BY <4>1 DEF ReaderRows, ReaderKinds
        <3>2. Len(<<"customer">>) \in Nat
            OBVIOUS
        <3> HIDE DEF change
        <3> QED BY <1>3, <1>4, <2>2, <3>1, <3>2 DEF SnapshotBegins, change
    <2> QED BY <1>4, <2>1, <2>2 DEF SnapshotBegins
<1>5. CASE SnapshotFollows(r)
    <2>1. reader[r] \in ReaderRows /\ reader[r].kind = "snapshot" /\ reader[r].result = None
        BY <1>5 DEF SnapshotFollows, MayFollow, Snapshots, ReadsInv, SearchOK
    <2>2. Following(r) \in {Sources, <<"plan">>, <<"payments">>, <<>>}
        BY DEF Following
    <2>3. Len(Sources) \in Nat /\ Len(<<"plan">>) \in Nat /\ Len(<<"payments">>) \in Nat /\ Len(<<>>) \in Nat
        BY ReadsAssumption, LenProperties
    <2> QED BY <1>3, <1>5, <2>1, <2>2, <2>3 DEF SnapshotFollows
<1>6. CASE SnapshotIsKept(r)
    BY <1>1, <1>6, DoneMoves DEF SnapshotIsKept
<1>7. CASE SnapshotFails(r)
    BY <1>1, <1>2, <1>7, DoneMoves DEF SnapshotFails
<1> QED
    BY <1>4, <1>5, <1>6, <1>7

LEMMA PageIsTyped ==
    ASSUME WorldOK, NEW n \in Nat \ {0}
    PROVE  Page(n) \in Seq(Invoices)
<1> DEFINE last == IF n * PageSize < Len(overdue) THEN n * PageSize ELSE Len(overdue)
<1>1. PageSize \in Nat /\ n - 1 \in Nat /\ overdue \in Seq(Invoices) /\ Len(overdue) \in Nat
    BY ReadsAssumption, LenProperties DEF WorldOK
<1>2. (n - 1) * PageSize \in Nat /\ n * PageSize \in Nat
    BY <1>1
<1> DEFINE first == (n - 1) * PageSize + 1
<1>4. last \in 0..Len(overdue) /\ first \in Nat /\ first >= 1
    BY <1>1, <1>2
<1>5. Page(n) = SubSeq(overdue, first, last)
    BY DEF Page
<1> HIDE DEF first, last
<1>6. \A i \in first..last : i \in 1..Len(overdue)
    BY <1>1, <1>4
<1> QED
    BY <1>1, <1>4, <1>5, <1>6, SubSeqProperties

\* The sweep: its pages and the invoices it looks for.
LEMMA SweepsMove ==
    ASSUME ReadsInv, NEW r \in Readers, SweepBegins(r) \/ SweepTurns(r) \/ SweepEnds(r)
    PROVE  ReadsInv'
<1>1. Len(<<"page">>) \in Nat
    OBVIOUS
<1>2. ASSUME NEW change \in ReaderRows, Ask(r, <<"page">>, change),
             UNCHANGED <<cached, overdue>>, change.kind = "sweep", change.result = None, change.page # 0
      PROVE  ReadsInv'
    <2>1. /\ Asking(<<"page">>, change).kind = "sweep" /\ Asking(<<"page">>, change).result = None
          /\ Asking(<<"page">>, change).page # 0
        BY <1>2 DEF Asking, ReaderRows
    <2> QED BY <1>1, <1>2, <2>1, OtherReadsAreFine, AskingMoves
<1>3. CASE SweepBegins(r)
    <2> DEFINE change == [Nothing EXCEPT !.kind = "sweep", !.page = 1, !.there = Range(overdue)]
    <2>1. Range(overdue) \subseteq Invoices
        <3>1. overdue \in Seq(Invoices)
            BY DEF ReadsInv, WorldOK
        <3> QED BY <3>1, ElementOfSeq, LenProperties DEF Range
    <2>2. Nothing \in ReaderRows /\ Nothing.result = None /\ 1 \in 0..MaxPages
        BY NothingIsFine, ReadsAssumption DEF Nothing
    <2>3. /\ change \in ReaderRows /\ change.kind = "sweep" /\ change.result = Nothing.result
          /\ change.page = 1
        BY <2>1, <2>2 DEF ReaderRows, ReaderKinds
    <2> HIDE DEF change
    <2>4. Ask(r, <<"page">>, change) /\ UNCHANGED <<cached, overdue>>
        BY <1>3 DEF SweepBegins, change
    <2> QED BY <1>2, <2>2, <2>3, <2>4
<1>4. CASE SweepTurns(r)
    <2> DEFINE change == [reader[r] EXCEPT !.page = @ + 1]
    <2>1. reader[r] \in ReaderRows /\ reader[r].kind = "sweep" /\ reader[r].result = None
        BY <1>4 DEF SweepTurns, Sweeping, ReadsInv, SearchOK
    <2>2. reader[r].page + 1 \in 1..MaxPages
        BY <1>4, <2>1, ReadsAssumption DEF SweepTurns, Exhausted, ReaderRows
    <2>3. change \in ReaderRows /\ change.kind = "sweep" /\ change.result = None /\ change.page # 0
        BY <2>1, <2>2 DEF ReaderRows
    <2> HIDE DEF change
    <2> QED BY <1>2, <1>4, <2>3 DEF SweepTurns, change
<1>5. CASE SweepEnds(r)
    <2>1. WorldOK'
        BY <1>5 DEF SweepEnds, ReadsInv, WorldOK
    <2>2. CASE Done(r, "error")
        BY <2>1, <2>2, DoneMoves
    <2>3. ASSUME NEW result \in {"truncated", "complete"},
                 reader' = [reader EXCEPT ![r] =
                    [Nothing EXCEPT !.kind = "done", !.rows = reader[r].rows, !.there = reader[r].there,
                                    !.result = result]]
          PROVE  ReadsInv'
        <3> DEFINE x == [Nothing EXCEPT !.kind = "done", !.rows = reader[r].rows, !.there = reader[r].there,
                                        !.result = result]
        <3>1. Nothing \in ReaderRows /\ reader[r] \in ReaderRows
            BY NothingIsFine DEF ReadsInv
        <3>2. x \in ReaderRows /\ x.kind = "done" /\ x.result = result
            BY <3>1 DEF ReaderRows, ReaderKinds, Results
        <3>3. result \notin Subscribers \union {"nobody"}
            BY ReadsAssumption
        <3> HIDE DEF x
        <3>4. SearchOK(x)
            BY <3>2, <3>3 DEF SearchOK
        <3> QED BY <2>1, <2>3, <3>2, <3>4, OneReaderMoves DEF x
    <2> QED BY <1>5, <2>2, <2>3 DEF SweepEnds
<1> QED
    BY <1>3, <1>4, <1>5

\* The search: the next query, of the same tier or of the second.
LEMMA SearchesAsk ==
    ASSUME ReadsInv, NEW r \in Readers, NEW change \in ReaderRows, Ask(r, <<"page">>, change),
           UNCHANGED <<cached, overdue>>,
           change.kind = "search", change.result = None,
           \A s \in Slots \ {"page"} : change.out[s].at # "out",
           change.found = HeardFrom(change.book, change.tier, change.query - 1),
           change.tier = 2 => WhoHas(change.book, 1) = {}
    PROVE  ReadsInv'
<1> DEFINE x == Asking(<<"page">>, change)
<1>1. /\ Len(<<"page">>) \in Nat /\ x.out["page"].at # "ok"
      /\ \A s \in Slots \ {"page"} : x.out[s] = change.out[s]
      /\ x.kind = "search" /\ x.result = None /\ x.found = change.found /\ x.book = change.book
      /\ x.tier = change.tier /\ x.query = change.query
    BY OneQueryAsked DEF ReadsInv
<1> HIDE DEF x
<1>2. Answered(x) = change.query - 1
    BY <1>1 DEF Answered
<1>3. SearchOK(x)
    BY <1>1, <1>2, ReadsAssumption DEF SearchOK
<1> QED
    BY <1>1, <1>3, AskingMoves DEF x

LEMMA SearchesMove ==
    ASSUME ReadsInv, NEW r \in Readers, SearchBegins(r) \/ SearchTurns(r)
    PROVE  ReadsInv'
<1>1. CASE SearchBegins(r)
    <2>1. PICK b \in Books : Ask(r, <<"page">>, [Nothing EXCEPT !.kind = "search", !.book = b])
        BY <1>1 DEF SearchBegins
    <2> DEFINE change == [Nothing EXCEPT !.kind = "search", !.book = b]
    <2>2. Nothing \in ReaderRows
        BY NothingIsFine
    <2>3. /\ change \in ReaderRows /\ change.kind = "search" /\ change.book = b
          /\ change.out = Nothing.out /\ change.result = Nothing.result /\ change.found = Nothing.found
          /\ change.tier = Nothing.tier /\ change.query = Nothing.query
        BY <2>2 DEF ReaderRows, ReaderKinds
    <2>4. Nothing.result = None /\ Nothing.found = {} /\ Nothing.tier = 1 /\ Nothing.query = 1
          /\ \A s \in Slots : Nothing.out[s].at = "no"
        BY DEF Nothing, Unsent
    <2> HIDE DEF change
    <2>5. change.found = HeardFrom(change.book, change.tier, change.query - 1)
        <3>1. change.query - 1 = 0 /\ change.found = {}
            BY <2>3, <2>4
        <3> QED BY <3>1, NobodyHeardYet
    <2>6. Ask(r, <<"page">>, change) /\ UNCHANGED <<cached, overdue>>
        BY <1>1, <2>1 DEF SearchBegins, change
    <2>7. /\ \A s \in Slots \ {"page"} : change.out[s].at # "out"
          /\ change.result = None /\ change.tier # 2
        BY <2>3, <2>4
    <2> QED BY <2>3, <2>5, <2>6, <2>7, SearchesAsk
<1>2. CASE SearchTurns(r)
    <2>1. /\ reader[r] \in ReaderRows /\ SearchOK(reader[r]) /\ reader[r].kind = "search"
          /\ reader[r].result = None /\ reader[r].out["page"].at = "ok"
        BY <1>2 DEF SearchTurns, Searching, State, ReadsInv, SearchOK
    <2>2. /\ \A s \in Slots \ {"page"} : reader[r].out[s].at # "out"
          /\ reader[r].found = HeardFrom(reader[r].book, reader[r].tier, reader[r].query)
          /\ reader[r].tier = 2 => WhoHas(reader[r].book, 1) = {}
        BY <2>1 DEF SearchOK, Answered
    <2>3. CASE /\ ~TierIsRead(r)
               /\ Ask(r, <<"page">>, [reader[r] EXCEPT !.query = @ + 1])
        <3> DEFINE change == [reader[r] EXCEPT !.query = @ + 1]
        <3>1. reader[r].query + 1 \in 1..4
            BY <2>1, <2>3 DEF TierIsRead, ReaderRows
        <3>2. /\ change \in ReaderRows /\ change.query = reader[r].query + 1 /\ change.kind = "search"
              /\ change.result = None /\ change.out = reader[r].out /\ change.found = reader[r].found
              /\ change.book = reader[r].book /\ change.tier = reader[r].tier
            BY <2>1, <3>1 DEF ReaderRows
        <3>3. change.query - 1 = reader[r].query
            BY <2>1, <3>2 DEF ReaderRows
        <3> HIDE DEF change
        <3> QED BY <1>2, <2>2, <2>3, <3>2, <3>3, SearchesAsk DEF SearchTurns, change
    <2>4. CASE /\ TierIsRead(r) /\ reader[r].found = {} /\ reader[r].tier = 1
               /\ Ask(r, <<"page">>, [reader[r] EXCEPT !.query = 1, !.tier = 2])
        <3> DEFINE change == [reader[r] EXCEPT !.query = 1, !.tier = 2]
        <3>0. reader[r] \in ReaderRows /\ 1 \in 1..4 /\ 2 \in {1, 2}
            BY <2>1
        <3>1. /\ change \in ReaderRows /\ change.query = 1 /\ change.kind = reader[r].kind
              /\ change.result = reader[r].result /\ change.out = reader[r].out
              /\ change.found = reader[r].found /\ change.book = reader[r].book /\ change.tier = 2
            BY <3>0 DEF ReaderRows
        <3>2. WhoHas(reader[r].book, 1) = {}
            BY <2>2, <2>4, FourQueries DEF TierIsRead
        <3>3. HeardFrom(change.book, change.tier, change.query - 1) = {}
            BY <3>1, NobodyHeardYet
        <3> HIDE DEF change
        <3>4. Ask(r, <<"page">>, change) /\ UNCHANGED <<cached, overdue>>
            BY <1>2, <2>4 DEF SearchTurns, change
        <3> QED BY <2>1, <2>2, <2>4, <3>1, <3>2, <3>3, <3>4, SearchesAsk
    <2> QED BY <1>2, <2>3, <2>4 DEF SearchTurns
<1> QED
    BY <1>1, <1>2

\* The verdict on a caller whom a tier settles, the first of the two not naming anybody else.
LEMMA WhoCalls ==
    ASSUME NEW book, NEW tier \in {1, 2}, tier = 2 => WhoHas(book, 1) = {},
           tier = 1 => WhoHas(book, 1) # {}
    PROVE  Caller(book) = IF Cardinality(WhoHas(book, tier)) = 1 THEN TheOne(WhoHas(book, tier)) ELSE "nobody"
BY DEF Caller

LEMMA SearchesEnd ==
    ASSUME ReadsInv, NEW r \in Readers, SearchEnds(r)
    PROVE  ReadsInv'
<1>1. WorldOK'
    BY DEF SearchEnds, ReadsInv, WorldOK
<1>2. /\ reader[r] \in ReaderRows /\ SearchOK(reader[r]) /\ reader[r].kind = "search"
    BY DEF SearchEnds, Searching, ReadsInv
<1> DEFINE book == reader[r].book
           tier == reader[r].tier
           n == reader[r].query
           holders == {c \in Subscribers : book[c][Queries(tier)[n].field] = Queries(tier)[n].format}
<1>3. tier \in {1, 2} /\ n \in 1..4 /\ book \in Books \union {None}
    BY <1>2 DEF ReaderRows
<1>4. Holders(r, Queries(tier)[n]) = holders
    BY DEF Holders
<1>5. tier = 2 => WhoHas(book, 1) = {}
    BY <1>2 DEF SearchOK
<1>6. ASSUME NEW result \in Subscribers \union {"nobody"}, result = Caller(book),
             reader' = [reader EXCEPT ![r] =
                          [Nothing EXCEPT !.kind = "done", !.book = book, !.result = result]]
      PROVE  ReadsInv'
    <2> DEFINE x == [Nothing EXCEPT !.kind = "done", !.book = book, !.result = result]
    <2> HIDE DEF book
    <2>1. x \in ReaderRows /\ x.kind = "done" /\ x.result = result /\ x.book = book
        BY <1>3, NothingIsFine DEF ReaderRows, ReaderKinds, Results
    <2> HIDE DEF x
    <2>2. SearchOK(x)
        BY <1>6, <2>1 DEF SearchOK
    <2> QED BY <1>1, <1>6, <2>1, <2>2, OneReaderMoves DEF x
<1>7. CASE Done(r, "error")
    BY <1>1, <1>7, DoneMoves
<1>8. CASE /\ Ambiguous(r)
           /\ reader' = [reader EXCEPT ![r] = [Nothing EXCEPT !.kind = "done", !.book = book,
                                                              !.result = "nobody"]]
    <2>1. Cardinality(holders) > 1
        BY <1>4, <1>8 DEF Ambiguous
    <2>2. holders \subseteq WhoHas(book, tier)
        BY <1>3, HeardAreHolders
    <2>3. IsFiniteSet(WhoHas(book, tier)) /\ WhoHas(book, tier) \subseteq Subscribers
        BY ReadsAssumption, FS_Subset DEF WhoHas
    <2> HIDE DEF book, tier, n, holders
    <2>4. Cardinality(WhoHas(book, tier)) > 1
        <3>1. /\ Cardinality(holders) <= Cardinality(WhoHas(book, tier))
              /\ Cardinality(WhoHas(book, tier)) \in Nat /\ Cardinality(holders) \in Nat
            BY <2>2, <2>3, FS_Subset, FS_CardinalityType
        <3> QED BY <2>1, <3>1
    <2>5. WhoHas(book, tier) # {}
        BY <2>4, FS_EmptySet
    <2>6. Caller(book) = "nobody"
        BY <1>3, <1>5, <2>4, <2>5, WhoCalls
    <2> QED BY <1>6, <1>8, <2>6
<1>9. CASE /\ State(r, "page") = "ok" /\ TierIsRead(r)
           /\ reader[r].found # {} \/ reader[r].tier = 2
           /\ reader' = [reader EXCEPT ![r] =
                [Nothing EXCEPT !.kind = "done", !.book = book,
                    !.result = IF Cardinality(reader[r].found) = 1
                               THEN TheOne(reader[r].found) ELSE "nobody"]]
    <2>1. reader[r].found = HeardFrom(book, tier, 4)
        BY <1>2, <1>9 DEF SearchOK, Answered, State, TierIsRead
    <2>2. reader[r].found = WhoHas(book, tier)
        BY <1>3, <2>1, FourQueries
    <2> DEFINE result == IF Cardinality(reader[r].found) = 1 THEN TheOne(reader[r].found) ELSE "nobody"
    <2>3. result = Caller(book)
        BY <1>3, <1>5, <1>9, <2>2, WhoCalls
    <2>4. result \in Subscribers \union {"nobody"}
        <3>1. CASE Cardinality(reader[r].found) = 1
            <4>1. reader[r].found # {}
                BY <3>1, FS_EmptySet
            <4>2. reader[r].found \subseteq Subscribers
                BY <1>2 DEF ReaderRows
            <4> QED BY <3>1, <4>1, <4>2 DEF TheOne
        <3> QED BY <3>1
    <2>5. reader' = [reader EXCEPT ![r] = [Nothing EXCEPT !.kind = "done", !.book = book, !.result = result]]
        BY <1>9
    <2> HIDE DEF result, book
    <2> QED BY <1>6, <2>3, <2>4, <2>5
<1> QED
    BY <1>7, <1>8, <1>9 DEF SearchEnds

\* An answer, a query sent again and a failure.
LEMMA AnswersMove ==
    ASSUME ReadsInv, NEW r \in Readers, NEW s \in Slots, Answer(r, s)
    PROVE  ReadsInv'
<1> DEFINE y == Received(r)
           x == [y EXCEPT !.out[s].at = "ok"]
<1>1. reader[r] \in ReaderRows /\ SearchOK(reader[r]) /\ reader[r].out[s].at = "out"
      /\ reader[r].page \in 0..MaxPages
    BY DEF Answer, State, ReadsInv, ReaderRows
<1>2. WorldOK'
    BY ReadsAssumption DEF Answer, ReadsInv, WorldOK
<1>3. reader' = [reader EXCEPT ![r] = x]
    BY DEF Answer
<1>4. ASSUME y \in ReaderRows, y.out = reader[r].out
      PROVE  /\ x \in ReaderRows /\ x.out["page"].at = (IF s = "page" THEN "ok" ELSE y.out["page"].at)
             /\ \A u \in Slots \ {"page"} : x.out[u].at # "out" \/ x.out[u].at = y.out[u].at
             /\ x.kind = y.kind /\ x.result = y.result /\ x.found = y.found /\ x.book = y.book
             /\ x.tier = y.tier /\ x.query = y.query
    <2> HIDE DEF y
    <2>1. y.out \in [Slots -> Marks] /\ "page" \in Slots
        BY <1>4 DEF ReaderRows, Slots
    <2> DEFINE out == [y.out EXCEPT ![s].at = "ok"]
    <2>2. out \in [Slots -> Marks] /\ out["page"].at = (IF s = "page" THEN "ok" ELSE y.out["page"].at)
          /\ \A u \in Slots : out[u].at = "ok" \/ out[u].at = y.out[u].at
        BY <2>1 DEF Marks
    <2>3. x = [y EXCEPT !.out = out]
        OBVIOUS
    <2> HIDE DEF out, x
    <2>4. /\ x \in ReaderRows /\ x.out = out
          /\ x.kind = y.kind /\ x.result = y.result /\ x.found = y.found /\ x.book = y.book
          /\ x.tier = y.tier /\ x.query = y.query
        BY <1>4, <2>2, <2>3 DEF ReaderRows
    <2> QED BY <2>2, <2>4
<1>5. CASE reader[r].kind = "sweep"
    <2>1. PICK page \in Seq(Invoices) : y = [reader[r] EXCEPT !.rows = @ \o page, !.total = Len(overdue)]
        <3>1. reader[r].page \in Nat \ {0}
            BY <1>1, <1>5, ReadsAssumption DEF SearchOK
        <3>2. Page(reader[r].page) \in Seq(Invoices)
            BY <3>1, PageIsTyped DEF ReadsInv
        <3> QED BY <1>5, <3>2 DEF Received
    <2>2. reader[r].rows \o page \in Seq(Invoices) /\ Len(overdue) \in Nat
        BY <1>1, ConcatProperties, LenProperties DEF ReaderRows, ReadsInv, WorldOK
    <2> DEFINE rows == reader[r].rows \o page
    <2> HIDE DEF y, rows
    <2>3. y = [reader[r] EXCEPT !.rows = rows, !.total = Len(overdue)]
        BY <2>1 DEF rows
    <2>4. /\ y \in ReaderRows /\ y.out = reader[r].out /\ y.kind = "sweep" /\ y.result = reader[r].result
          /\ y.page = reader[r].page
        BY <1>1, <1>5, <2>2, <2>3 DEF ReaderRows, rows
    <2>5. x \in ReaderRows /\ x.kind = "sweep" /\ x.result = None /\ x.page # 0
        BY <1>1, <1>4, <1>5, <2>4 DEF SearchOK
    <2> HIDE DEF x
    <2> QED BY <1>2, <1>3, <2>5, OtherReadsAreFine, OneReaderMoves
<1>6. CASE reader[r].kind = "search"
    <2> DEFINE book == reader[r].book
               tier == reader[r].tier
               n == reader[r].query
               holders == {c \in Subscribers : book[c][Queries(tier)[n].field] = Queries(tier)[n].format}
    <2>1. s = "page" /\ "page" \in Slots
        BY <1>1, <1>6 DEF SearchOK, Slots
    <2>2. y = [reader[r] EXCEPT !.found = @ \union holders]
        BY <1>6 DEF Received, Holders
    <2>3. reader[r].found = HeardFrom(book, tier, n - 1) /\ n \in 1..4 /\ reader[r].result = None
        BY <1>1, <1>6, <2>1 DEF SearchOK, Answered, ReaderRows
    <2>4. reader[r].found \union holders = HeardFrom(book, tier, n)
        BY <2>3, OneMoreQuery
    <2>5. holders \subseteq Subscribers
        OBVIOUS
    <2>6. tier = 2 => WhoHas(book, 1) = {}
        BY <1>1, <1>6 DEF SearchOK
    <2>7. \A u \in Slots \ {"page"} : reader[r].out[u].at # "out"
        BY <1>1, <1>6 DEF SearchOK
    <2> HIDE DEF y, holders
    <2>8. /\ y \in ReaderRows /\ y.out = reader[r].out /\ y.kind = "search" /\ y.result = None
          /\ y.found = reader[r].found \union holders /\ y.book = book /\ y.tier = tier /\ y.query = n
        BY <1>1, <1>6, <2>2, <2>3, <2>5 DEF ReaderRows
    <2>9. /\ x \in ReaderRows /\ x.kind = "search" /\ x.result = None /\ x.out["page"].at = "ok"
          /\ x.found = HeardFrom(x.book, x.tier, x.query)
          /\ x.tier = 2 => WhoHas(x.book, 1) = {}
          /\ \A u \in Slots \ {"page"} : x.out[u].at # "out"
        BY <1>4, <2>1, <2>4, <2>6, <2>7, <2>8
    <2> HIDE DEF x
    <2>10. SearchOK(x)
        BY <2>9, ReadsAssumption DEF SearchOK, Answered
    <2> QED BY <1>2, <1>3, <2>9, <2>10, OneReaderMoves
<1>7. CASE reader[r].kind \notin {"sweep", "search"}
    <2>1. y = reader[r]
        BY <1>7 DEF Received
    <2>2. x \in ReaderRows /\ x.kind = reader[r].kind /\ x.result = reader[r].result /\ x.book = reader[r].book
        BY <1>1, <1>4, <2>1
    <2> HIDE DEF x
    <2>3. SearchOK(x)
        BY <1>1, <1>7, <2>2 DEF SearchOK
    <2> QED BY <1>2, <1>3, <2>2, <2>3, OneReaderMoves
<1> QED
    BY <1>5, <1>6, <1>7

\* A change of one mark, which may not make an answer.
LEMMA MarksMove ==
    ASSUME ReadsInv, NEW r \in Readers, NEW s \in Slots, NEW mark \in Marks,
           reader[r].out[s].at = "out", mark.at \in {"out", "failed"},
           reader' = [reader EXCEPT ![r].out[s] = mark], WorldOK'
    PROVE  ReadsInv'
<1> DEFINE out == [reader[r].out EXCEPT ![s] = mark]
           x == [reader[r] EXCEPT !.out = out]
<1>1. reader[r] \in ReaderRows /\ SearchOK(reader[r]) /\ reader[r].out \in [Slots -> Marks]
    BY DEF ReadsInv, ReaderRows
<1>2. /\ out \in [Slots -> Marks]
      /\ (out["page"].at = "ok") = (reader[r].out["page"].at = "ok")
      /\ \A u \in Slots : out[u].at = "out" => reader[r].out[u].at = "out"
    <2>1. "page" \in Slots
        BY DEF Slots
    <2> QED BY <1>1, <2>1
<1>3. reader' = [reader EXCEPT ![r] = x]
    BY <1>1
<1> HIDE DEF out
<1>4. /\ x \in ReaderRows /\ x.out = out
      /\ \A f \in {"kind", "page", "rows", "total", "there", "tier", "query", "found", "book", "result"} :
            x[f] = reader[r][f]
    BY <1>1, <1>2 DEF ReaderRows
<1> HIDE DEF x
<1>5. Answered(x) = Answered(reader[r])
    BY <1>2, <1>4 DEF Answered
<1>6. SearchOK(x)
    BY <1>1, <1>2, <1>4, <1>5 DEF SearchOK
<1> QED
    BY <1>3, <1>4, <1>6, OneReaderMoves

LEMMA FailuresMove ==
    ASSUME ReadsInv, NEW r \in Readers, NEW s \in Slots, SendAgain(r, s) \/ Fail(r, s)
    PROVE  ReadsInv'
<1>1. reader[r].out[s] \in Marks /\ reader[r].out[s].at = "out" /\ reader[r].out \in [Slots -> Marks]
      /\ reader[r] \in ReaderRows
    BY DEF SendAgain, Fail, State, ReadsInv, ReaderRows
<1>2. CASE SendAgain(r, s)
    <2> DEFINE mark == [reader[r].out[s] EXCEPT !.tries = @ + 1]
    <2>1. mark \in Marks /\ mark.at = "out"
        BY <1>1 DEF Marks
    <2>2. reader' = [reader EXCEPT ![r].out[s] = mark]
        BY <1>2 DEF SendAgain
    <2>3. WorldOK'
        BY <1>2 DEF SendAgain, ReadsInv, WorldOK
    <2> HIDE DEF mark
    <2> QED BY <1>1, <2>1, <2>2, <2>3, MarksMove
<1>3. CASE Fail(r, s)
    <2> DEFINE mark == [reader[r].out[s] EXCEPT !.at = "failed"]
    <2>1. mark \in Marks /\ mark.at = "failed"
        BY <1>1 DEF Marks
    <2>2. reader' = [reader EXCEPT ![r].out[s] = mark]
        BY <1>3 DEF Fail
    <2>3. WorldOK'
        <3> DEFINE n == IF circuit.failures < Threshold THEN circuit.failures + 1 ELSE Threshold
        <3>1. n \in 0..Threshold
            BY ReadsAssumption DEF ReadsInv, WorldOK
        <3>2. circuit' = [failures |-> n, state |-> IF n >= Threshold THEN "open" ELSE circuit.state]
            BY <1>3 DEF Fail
        <3> HIDE DEF n
        <3>3. circuit' \in [failures : 0..Threshold, state : {"closed", "open", "cooled"}]
            BY <3>1, <3>2 DEF ReadsInv, WorldOK
        <3> QED BY <1>3, <3>3 DEF Fail, ReadsInv, WorldOK
    <2> HIDE DEF mark
    <2> QED BY <1>1, <2>1, <2>2, <2>3, MarksMove
<1> QED
    BY <1>2, <1>3

LEMMA RemovedIsTyped ==
    ASSUME NEW S, NEW q \in Seq(S), NEW n \in DOMAIN q
    PROVE  RemoveAt(q, n) \in Seq(S)
<1>1. DOMAIN q = 1..Len(q) /\ Len(q) \in Nat /\ n \in 1..Len(q)
    BY LenProperties
<1>2. \A i \in 1..Len(q) : q[i] \in S
    BY <1>1, ElementOfSeq
<1>3. SubSeq(q, 1, n - 1) \in Seq(S)
    BY <1>1, <1>2, SubSeqProperties
<1>4. SubSeq(q, n + 1, Len(q)) \in Seq(S)
    BY <1>1, <1>2, SubSeqProperties
<1> QED
    BY <1>3, <1>4, ConcatProperties DEF RemoveAt

LEMMA TheWorldMoves ==
    ASSUME ReadsInv, CooldownEnds \/ WindowSlides \/ SnapshotExpires \/ InvoiceIsPaid
    PROVE  ReadsInv'
<1>1. CASE CooldownEnds \/ WindowSlides \/ SnapshotExpires
    <2>1. WorldOK'
        BY <1>1, ReadsAssumption DEF CooldownEnds, WindowSlides, SnapshotExpires, ReadsInv, WorldOK
    <2>2. UNCHANGED reader
        BY <1>1 DEF CooldownEnds, WindowSlides, SnapshotExpires
    <2> QED BY <2>1, <2>2 DEF ReadsInv
<1>2. CASE InvoiceIsPaid
    <2>1. PICK n \in DOMAIN overdue :
              /\ overdue' = RemoveAt(overdue, n)
              /\ reader' = [r \in Readers |-> [reader[r] EXCEPT !.there = @ \ {overdue[n]}]]
        BY <1>2 DEF InvoiceIsPaid
    <2>2. WorldOK'
        BY <1>2, <2>1, RemovedIsTyped DEF InvoiceIsPaid, ReadsInv, WorldOK
    <2>3. ASSUME NEW r \in Readers
          PROVE  reader'[r] \in ReaderRows /\ SearchOK(reader'[r])
        <3> DEFINE there == reader[r].there \ {overdue[n]}
                   x == [reader[r] EXCEPT !.there = there]
        <3>1. reader[r] \in ReaderRows /\ SearchOK(reader[r])
            BY DEF ReadsInv
        <3>2. there \in SUBSET Invoices
            BY <3>1 DEF ReaderRows
        <3> HIDE DEF there
        <3>3. /\ x \in ReaderRows
              /\ \A f \in {"kind", "out", "page", "tier", "query", "found", "book", "result"} :
                    x[f] = reader[r][f]
            BY <3>1, <3>2 DEF ReaderRows
        <3>4. reader'[r] = x
            BY <2>1 DEF there
        <3> HIDE DEF x
        <3>5. SearchOK(x)
            BY <3>1, <3>3 DEF SearchOK, Answered
        <3> QED BY <3>3, <3>4, <3>5
    <2>4. reader' = [r \in Readers |-> reader'[r]]
        BY <2>1
    <2>5. reader' \in [Readers -> ReaderRows]
        BY <2>3, <2>4
    <2> QED BY <2>2, <2>3, <2>5 DEF ReadsInv
<1> QED
    BY <1>1, <1>2

LEMMA ReadsSteps ==
    ASSUME ReadsInv, ReadsNext
    PROVE  ReadsInv'
BY TheWorldMoves, AnswersMove, FailuresMove, SnapshotsMove, SweepsMove, SearchesMove, SearchesEnd
   DEF ReadsNext

LEMMA ReadsStart == ReadsInit => ReadsInv
<1> SUFFICES ASSUME ReadsInit PROVE ReadsInv
    OBVIOUS
<1>1. overdue \in Seq(Invoices)
    <2>1. overdue = [i \in 1..LastInvoice |-> i] /\ LastInvoice \in Nat
        BY ReadsAssumption DEF ReadsInit, Invoices
    <2>2. \A i \in 1..LastInvoice : i \in Invoices
        BY DEF Invoices
    <2> QED BY <2>1, <2>2, IsASeq
<1>2. WorldOK
    BY <1>1, ReadsAssumption DEF ReadsInit, WorldOK
<1>3. reader = [r \in Readers |-> Nothing]
    BY DEF ReadsInit
<1> QED
    BY <1>2, <1>3, NothingIsFine DEF ReadsInv

LEMMA ExactlyOneInReads == ReadsInv => ExactlyOneOrNobody
BY DEF ReadsInv, SearchOK, ExactlyOneOrNobody

LEMMA ReadsAreTyped == ReadsInv => ReadsTypeOK
BY DEF ReadsInv, WorldOK, ReaderRows, ReadsTypeOK

-----------------------------------------------------------------------------
(* The agent: what the tools of an intention answer, and what the reply of *)
(* that intention names.                                                   *)

FailedOutcomes == {"unavailable", "timeout", "invalid", "error", "partial", "forbidden",
                   "requires_human", "not_found"}
Outcomes == FailedOutcomes \union {"success", "simulated"}

LEMMA SimulatedAre ==
    ASSUME NEW T, NEW t \in T
    PROVE  Receipt(t, "simulated") \in Simulated(T)
BY DEF Simulated

LEMMA SimulatedOutcomes ==
    ASSUME NEW T, NEW r \in Simulated(T)
    PROVE  r.outcome = "simulated"
BY DEF Simulated, Receipt

LEMMA LookedUpOutcomes ==
    ASSUME NEW tools, \A r \in tools : r.outcome \in Outcomes
    PROVE  \A r \in LooksUp(tools) : r.outcome \in Outcomes
BY SimulatedOutcomes DEF LooksUp, Outcomes

LEMMA ProfileOutcomes ==
    ASSUME NEW p, p \in DOMAIN FailureOf
    PROVE  FailureOf[p] \in FailedOutcomes
BY DEF FailureOf, FailedOutcomes

LEMMA OneOutcome ==
    ASSUME NEW tool, NEW outcome \in Outcomes
    PROVE  \A r \in {Receipt(tool, outcome)} : r.outcome \in Outcomes
BY DEF Receipt

LEMMA DiagnosisOutcomes ==
    ASSUME NEW p
    PROVE  \A r \in Diagnose(p) : r.outcome \in Outcomes
<1>1. CASE FailsFor(p, DOMAIN FailureOf)
    <2>1. Diagnose(p) = {Receipt("network.diagnostics", FailureOf[p])}
        BY <1>1 DEF Diagnose, FailsFor, FailureOf
    <2>2. FailureOf[p] \in Outcomes
        BY <1>1, ProfileOutcomes DEF FailsFor, Outcomes
    <2> QED BY <2>1, <2>2, OneOutcome
<1>2. CASE ~FailsFor(p, DOMAIN FailureOf)
    <2>1. \E T \in {{"network.regional_incident"}, {"network.onu_status", "network.regional_incident"},
                    {"network.onu_status", "network.optical_power"},
                    {"network.onu_status", "network.pppoe_status",
                     "network.optical_power", "network.regional_incident"}} :
             \/ Diagnose(p) = Simulated(T)
             \/ Diagnose(p) = {Receipt("network.regional_reports", "partial")} \union Simulated(T)
        BY <1>2 DEF Diagnose
    <2>2. Receipt("network.regional_reports", "partial").outcome \in Outcomes
        BY DEF Receipt, Outcomes, FailedOutcomes
    <2> QED BY <2>1, <2>2, SimulatedOutcomes DEF Outcomes
<1> QED
    BY <1>1, <1>2

LEMMA BillingOutcomes ==
    ASSUME NEW p, NEW artefact
    PROVE  /\ \A r \in BillingTools(p, artefact) : r.outcome \in Outcomes
           /\ \/ p = "multiple_invoices"
              \/ \E r \in BillingTools(p, artefact) : r.outcome = "unavailable"
              \/ Receipt(artefact, "simulated") \in BillingTools(p, artefact)
<1>1. CASE p = "multiple_invoices"
    BY <1>1, SimulatedOutcomes DEF BillingTools, Outcomes
<1>2. CASE p = "tool_unavailable"
    BY <1>2 DEF BillingTools, Receipt, Outcomes, FailedOutcomes
<1>3. CASE p \notin {"multiple_invoices", "tool_unavailable"}
    BY <1>3, SimulatedOutcomes, SimulatedAre DEF BillingTools, Outcomes
<1> QED
    BY <1>1, <1>2, <1>3

\* A tool answers one of the outcomes the handoff and the reply know of.
LEMMA ToolOutcomes ==
    ASSUME NEW intent, NEW m, NEW p
    PROVE  \A r \in ExecuteAgentTools(intent, m, p) : r.outcome \in Outcomes
<1> DEFINE tools == ExecuteAgentTools(intent, m, p)
           Fine(T) == \A r \in T : r.outcome \in Outcomes
<1>1. \A T : Fine(Simulated(T))
    BY SimulatedOutcomes DEF Outcomes
<1>2. /\ \A T : Fine(T) => Fine(LooksUp(T))
      /\ \A tool : \A o \in Outcomes : Fine({Receipt(tool, o)})
      /\ \A T, U : Fine(T) /\ Fine(U) => Fine(T \union U)
    BY LookedUpOutcomes, OneOutcome
<1>3. Fine({}) /\ Fine(Diagnose(p)) /\ \A a : Fine(BillingTools(p, a))
    BY DiagnosisOutcomes, BillingOutcomes
<1> HIDE DEF Fine
<1>4. CASE p = "multiple_contracts" /\ intent \notin HandsOverByItself \union {"unauthorized_request"}
    <2>1. tools = LooksUp({})
        BY <1>4 DEF ExecuteAgentTools, HandsOverByItself
    <2> QED BY <1>2, <1>3, <2>1 DEF Fine
<1>5. CASE p # "multiple_contracts" \/ intent \in HandsOverByItself \union {"unauthorized_request"}
    <2>1. CASE intent \in {"financial_pix", "financial_invoice"}
        <3>1. \E artefact : tools = LooksUp(BillingTools(p, artefact))
            BY <1>5, <2>1 DEF ExecuteAgentTools, HandsOverByItself
        <3> QED BY <1>2, <1>3, <3>1 DEF Fine
    <2>2. CASE intent \in {"financial_payment", "technical_wifi"}
        <3>1. \E T : tools = LooksUp(Simulated(T))
            BY <1>5, <2>2 DEF ExecuteAgentTools, HandsOverByItself
        <3> QED BY <1>1, <1>2, <3>1 DEF Fine
    <2>3. CASE intent \in {"financial_unlock", "technical_restart", "technical_ticket", "unauthorized_request",
                           "financial_discount_request"}
        <3>1. \E tool : \E o \in Outcomes : \/ tools = LooksUp({Receipt(tool, o)})
                                            \/ tools = {Receipt(tool, o)}
            <4>1. {"forbidden", "error", "requires_human", "simulated"} \subseteq Outcomes
                BY DEF Outcomes, FailedOutcomes
            <4>2. CASE intent = "technical_ticket"
                <5> DEFINE o == CASE p = "ticket_failure" -> "error"
                                  [] p = "action_disabled" -> "requires_human"
                                  [] OTHER -> "simulated"
                <5>1. o \in Outcomes
                    BY <4>1
                <5>2. tools = LooksUp({Receipt("support.prepare_ticket", o)})
                    BY <1>5, <4>2 DEF ExecuteAgentTools, HandsOverByItself
                <5> HIDE DEF o
                <5> QED BY <5>1, <5>2
            <4>3. CASE intent # "technical_ticket"
                BY <1>5, <2>3, <4>1, <4>3 DEF ExecuteAgentTools, HandsOverByItself
            <4> QED BY <4>2, <4>3
        <3> QED BY <1>2, <3>1 DEF Fine
    <2>4. CASE intent = "technical_no_connection"
        <3>1. \/ tools = LooksUp(Diagnose(p) \union {})
              \/ tools = LooksUp(Diagnose(p) \union Simulated({"support.open_ticket"}))
            BY <1>5, <2>4 DEF ExecuteAgentTools, HandsOverByItself
        <3> QED BY <1>1, <1>2, <1>3, <3>1 DEF Fine
    <2>5. CASE intent = "technical_slow"
        <3>1. CASE FailsFor(p, FromProfile)
            <4>1. tools = LooksUp({Receipt("network.diagnostics", FailureOf[p])})
                BY <1>5, <2>5, <3>1 DEF ExecuteAgentTools, HandsOverByItself
            <4>2. FailureOf[p] \in Outcomes
                BY <3>1, ProfileOutcomes DEF FailsFor, Outcomes
            <4> QED BY <1>2, <4>1, <4>2 DEF Fine
        <3>2. CASE ~FailsFor(p, FromProfile)
            <4>1. tools = LooksUp(Simulated({"network.onu_status", "network.optical_power",
                                             "network.speed_diagnostics"}))
                BY <1>5, <2>5, <3>2 DEF ExecuteAgentTools, HandsOverByItself
            <4> QED BY <1>1, <1>2, <4>1 DEF Fine
        <3> QED BY <3>1, <3>2
    <2>6. CASE intent = "technical_visit"
        <3>1. \/ tools = LooksUp({Receipt("support.available_slots", "not_found")})
              \/ tools = LooksUp(Simulated({"support.available_slots"})
                                  \union {Receipt("support.prepare_visit", "requires_human")})
            BY <1>5, <2>6 DEF ExecuteAgentTools, HandsOverByItself
        <3>2. {"not_found", "requires_human"} \subseteq Outcomes
            BY DEF Outcomes, FailedOutcomes
        <3> QED BY <1>1, <1>2, <3>1, <3>2 DEF Fine
    <2>7. CASE intent \in HandsOverByItself
        <3>1. tools = Simulated({"workflow.prepare_handoff"})
            BY <1>5, <2>7 DEF ExecuteAgentTools, HandsOverByItself
        <3> QED BY <1>1, <3>1 DEF Fine
    <2>8. CASE intent \notin {"financial_pix", "financial_invoice", "financial_payment", "technical_wifi",
                              "financial_unlock", "technical_restart", "technical_ticket", "unauthorized_request",
                              "financial_discount_request", "technical_no_connection", "technical_slow",
                              "technical_visit"} \union HandsOverByItself
        <3>1. tools = {Receipt("knowledge.search", "success")}
            BY <1>5, <2>8 DEF ExecuteAgentTools, HandsOverByItself
        <3>2. "success" \in Outcomes
            BY DEF Outcomes
        <3> QED BY <1>2, <3>1, <3>2 DEF Fine
    <2> QED BY <2>1, <2>2, <2>3, <2>4, <2>5, <2>6, <2>7, <2>8
<1> QED
    BY <1>4, <1>5

LEMMA FailuresAreKnown ==
    ASSUME NEW intent, NEW m, NEW p
    PROVE  Failures(ExecuteAgentTools(intent, m, p)) \subseteq FailedOutcomes
BY ToolOutcomes DEF Failures, IsFailed, Outcomes

LEMMA SimulatedIsCompleted ==
    ASSUME NEW tools, NEW tool, Receipt(tool, "simulated") \in tools
    PROVE  tool \in Completed(tools)
<1>1. Receipt(tool, "simulated").tool = tool /\ ~IsFailed(Receipt(tool, "simulated"))
    BY DEF Receipt, IsFailed
<1> QED
    BY <1>1 DEF Completed

LEMMA OneFailure ==
    ASSUME NEW tools, NEW r \in tools, r.outcome \notin {"success", "simulated"}
    PROVE  Failures(tools) # {}
BY DEF Failures, IsFailed

\* Where no tool failed, the reply of an intention names what its tools prepared.
LEMMA WhatIsNamedIsPrepared ==
    ASSUME NEW intent, NEW m \in Messages, NEW p, p \notin {"multiple_contracts", "multiple_invoices"},
           Failures(ExecuteAgentTools(intent, m, p)) = {}
    PROVE  ArtefactsOf(ByIntent(intent, m, p)) \subseteq Completed(ExecuteAgentTools(intent, m, p))
<1> DEFINE tools == ExecuteAgentTools(intent, m, p)
           says == ByIntent(intent, m, p)
<1>1. CASE intent \in {"financial_pix", "financial_invoice"}
    <2>1. PICK artefact \in {"billing.generate_pix", "billing.issue_copy"} :
             /\ tools = LooksUp(BillingTools(p, artefact)) /\ ArtefactsOf(says) = {artefact}
        <3>1. CASE intent = "financial_pix"
            <4>1. tools = LooksUp(BillingTools(p, "billing.generate_pix"))
                BY <3>1 DEF ExecuteAgentTools, HandsOverByItself
            <4>2. says = "pix"
                BY <3>1 DEF ByIntent, HandsOverByItself
            <4>3. ArtefactsOf(says) = {"billing.generate_pix"}
                BY <4>2 DEF ArtefactsOf
            <4> QED BY <4>1, <4>3
        <3>2. CASE intent = "financial_invoice"
            <4>1. tools = LooksUp(BillingTools(p, "billing.issue_copy"))
                BY <3>2 DEF ExecuteAgentTools, HandsOverByItself
            <4>2. says = "copy"
                BY <3>2 DEF ByIntent, HandsOverByItself
            <4>3. ArtefactsOf(says) = {"billing.issue_copy"}
                BY <4>2 DEF ArtefactsOf
            <4> QED BY <4>1, <4>3
        <3> QED BY <1>1, <3>1, <3>2
    <2>2. BillingTools(p, artefact) \subseteq tools
        BY <2>1 DEF LooksUp
    <2> HIDE DEF tools, says
    <2>3. ~\E r \in BillingTools(p, artefact) : r.outcome = "unavailable"
        BY <2>2, OneFailure DEF tools
    <2>4. Receipt(artefact, "simulated") \in tools
        BY <2>2, <2>3, BillingOutcomes
    <2> QED BY <2>1, <2>4, SimulatedIsCompleted DEF tools, says
<1>2. CASE intent = "technical_no_connection"
    <2>1. CASE Reading[m].tried = "nothing"
        <3>1. says \in {"regional_incident", "onu_offline", "optical_critical", "session offline"}
            BY <1>2, <2>1 DEF ByIntent, HandsOverByItself
        <3>2. ArtefactsOf(says) = {}
            <4> HIDE DEF says
            <4> QED BY <3>1 DEF ArtefactsOf
        <3> QED BY <3>2
    <2>2. CASE Reading[m].tried \in {"restart", "steps"}
        <3>1. says \in {"already restarted", "steps did not help"}
            <4>1. CASE Reading[m].tried = "restart"
                BY <1>2, <4>1 DEF ByIntent, HandsOverByItself
            <4>2. CASE Reading[m].tried = "steps"
                BY <1>2, <4>2 DEF ByIntent, HandsOverByItself
            <4> QED BY <2>2, <4>1, <4>2
        <3>2. ArtefactsOf(says) = {"support.open_ticket"}
            <4> HIDE DEF says
            <4> QED BY <3>1 DEF ArtefactsOf
        <3>3. tools = LooksUp(Diagnose(p) \union Simulated({"support.open_ticket"}))
            BY <1>2, <2>2 DEF ExecuteAgentTools, HandsOverByItself
        <3>4. Receipt("support.open_ticket", "simulated") \in tools
            BY <3>3, SimulatedAre DEF LooksUp
        <3> QED BY <3>2, <3>4, SimulatedIsCompleted
    <2> QED BY <2>1, <2>2, AgentAssumption
<1>3. CASE intent = "technical_ticket"
    <2> DEFINE o == CASE p = "ticket_failure" -> "error"
                      [] p = "action_disabled" -> "requires_human"
                      [] OTHER -> "simulated"
    <2>1. tools = LooksUp({Receipt("support.prepare_ticket", o)})
        BY <1>3 DEF ExecuteAgentTools, HandsOverByItself
    <2>2. o \in {"error", "requires_human", "simulated"}
        OBVIOUS
    <2> HIDE DEF o, tools
    <2>3. Receipt("support.prepare_ticket", o) \in tools
        BY <2>1 DEF LooksUp
    <2>4. o = "simulated"
        <3>1. Receipt("support.prepare_ticket", o).outcome = o
            BY DEF Receipt
        <3> QED BY <2>2, <2>3, <3>1, OneFailure DEF tools
    <2>5. ArtefactsOf(says) = {"support.prepare_ticket"}
        BY <1>3 DEF ByIntent, ArtefactsOf, HandsOverByItself
    <2> HIDE DEF says
    <2> QED BY <2>3, <2>4, <2>5, SimulatedIsCompleted DEF tools, says
<1>4. CASE intent \in HandsOverByItself
    <2>1. tools = Simulated({"workflow.prepare_handoff"})
        BY <1>4 DEF ExecuteAgentTools, HandsOverByItself
    <2>2. ArtefactsOf(says) = {"workflow.prepare_handoff"}
        BY <1>4 DEF ByIntent, ArtefactsOf, HandsOverByItself
    <2>3. Receipt("workflow.prepare_handoff", "simulated") \in tools
        BY <2>1, SimulatedAre
    <2> QED BY <2>2, <2>3, SimulatedIsCompleted
<1>5. CASE intent \notin {"financial_pix", "financial_invoice", "technical_no_connection", "technical_ticket"}
                           \union HandsOverByItself
    <2>1. says \in {"paid", "not paid yet", "slow on cable", "slow on wifi", "wifi", "scope", "which contract"}
        BY <1>5 DEF ByIntent
    <2>2. ArtefactsOf(says) = {}
        <3> HIDE DEF says
        <3> QED BY <2>1 DEF ArtefactsOf
    <2> QED BY <2>2
<1> QED
    BY <1>1, <1>2, <1>3, <1>4, <1>5

\* A turn in which a tool failed is handed to a person.
LEMMA FailureHandsOver ==
    ASSUME NEW m, NEW meant, NEW tools, NEW repeated, Failures(tools) # {}
    PROVE  DecideHandoff(m, meant, tools, repeated) # "none"
<1> DEFINE late == CASE Failures(tools) = {} -> "none"
                     [] "forbidden" \in Failures(tools) -> "action_forbidden"
                     [] "partial" \in Failures(tools) -> "contradictory_or_partial_data"
                     [] OTHER -> "required_tool_failed"
           middle == CASE meant.confidence < 60 -> "low_intent_confidence"
                       [] meant.confidence >= 60 /\ repeated -> "repetition_without_resolution"
                       [] meant.confidence >= 60 /\ ~repeated /\ Reading[m].angry -> "customer_irritated"
                       [] OTHER -> late
<1>1. late # "none"
    OBVIOUS
<1>2. middle # "none"
    <2> HIDE DEF late
    <2> QED BY <1>1
<1>3. DecideHandoff(m, meant, tools, repeated) =
         CASE meant.intent = "human_handoff" -> "customer_requested_human"
           [] meant.intent = "complaint" -> "formal_complaint"
           [] meant.intent \in {"cancellation_risk", "unauthorized_request"} -> meant.intent
           [] meant.intent \in {"financial_unlock", "financial_discount_request"} -> "sensitive_action"
           [] OTHER -> middle
    BY DEF DecideHandoff
<1> HIDE DEF middle
<1> QED
    BY <1>2, <1>3

LEMMA FinalTextIs ==
    ASSUME NEW reply, NEW recent, NEW reason, NEW tools
    PROVE  /\ Final(reply, recent, reason, tools) \in {reply, Regenerated, SafeReply}
           /\ reason # "none" => Final(reply, recent, reason, tools) \in {reply, SafeReply}
BY DEF Final

LEMMA FixedTextsNameNothing ==
    /\ ArtefactsOf(Regenerated.says) = {} /\ ArtefactsOf(SafeReply.says) = {}
    /\ \A says \in FailedOutcomes \union {"multiple_contracts", "multiple_invoices"} : ArtefactsOf(says) = {}
BY DEF ArtefactsOf, Regenerated, SafeReply, Reply, FailedOutcomes

LEMMA ReplySays ==
    ASSUME NEW says, NEW kindly
    PROVE  Reply(says, kindly).says = says
BY DEF Reply

\* What the reply says before the two texts that may take its place.
LEMMA ResponseIs ==
    ASSUME NEW intent, NEW m \in Messages, NEW p
    PROVE  LET tools == ExecuteAgentTools(intent, m, p)
               says == ResponseFor(intent, m, p, tools).says
           IN  /\ Failures(tools) # {} => says \in Failures(tools)
               /\ ArtefactsOf(says) \subseteq Completed(tools)
<1> DEFINE tools == ExecuteAgentTools(intent, m, p)
           says == ResponseFor(intent, m, p, tools).says
<1>1. CASE Failures(tools) # {}
    <2>1. says = CHOOSE o \in Failures(tools) : TRUE
        BY <1>1, ReplySays DEF ResponseFor
    <2>2. says \in Failures(tools)
        <3> HIDE DEF tools
        <3> QED BY <1>1, <2>1
    <2>3. ArtefactsOf(says) = {}
        <3>1. Failures(tools) \subseteq FailedOutcomes
            BY FailuresAreKnown
        <3> QED BY <2>2, <3>1, FixedTextsNameNothing
    <2> QED BY <2>2, <2>3
<1>2. CASE Failures(tools) = {} /\ p \in {"multiple_contracts", "multiple_invoices"}
    <2>1. says = p
        BY <1>2, ReplySays DEF ResponseFor
    <2> QED BY <1>2, <2>1, FixedTextsNameNothing
<1>3. CASE Failures(tools) = {} /\ p \notin {"multiple_contracts", "multiple_invoices"}
    <2>1. says = ByIntent(intent, m, p)
        BY <1>3, ReplySays DEF ResponseFor
    <2> QED BY <1>3, <2>1, WhatIsNamedIsPrepared
<1> QED
    BY <1>1, <1>2, <1>3

TurnOK(result) ==
    /\ ArtefactsOf(result.reply.says) \subseteq Completed(result.tools)
    /\ Failures(result.tools) # {} =>
          /\ result.reason # "none"
          /\ result.reply.says \in Failures(result.tools) \union {SafeReply.says}
    /\ result.status \in {"none", "blocked", "handoff", "waiting_customer", "simulated", "resolved"}

LEMMA StatusIs ==
    ASSUME NEW intent, NEW reason, NEW tools, NEW reply, Failures(tools) # {} => reason # "none"
    PROVE  DetermineFinalStatus(intent, reason, tools, reply)
              \in {"blocked", "handoff", "waiting_customer", "simulated", "resolved"}
<1>1. CASE reason # "none"
    BY <1>1 DEF DetermineFinalStatus
<1>2. CASE reason = "none" /\ intent = "unauthorized_request"
    BY <1>2 DEF DetermineFinalStatus
<1>3. CASE reason = "none" /\ intent # "unauthorized_request"
    BY <1>3 DEF DetermineFinalStatus
<1> QED
    BY <1>1, <1>2, <1>3

\* Whatever the conversation and the profile, the result of a turn holds together.
LEMMA PipelineIsHonest ==
    ASSUME NEW m \in Messages, NEW history, NEW p, NEW alone
    PROVE  TurnOK(RunAgentPipeline(m, history, p, alone))
<1> DEFINE meant == ResolveIntent(m, history, alone)
           tools == ExecuteAgentTools(meant.intent, m, p)
           repeated == RepeatedWithoutResolution(m, history)
           reason == DecideHandoff(m, meant, tools, repeated)
           first == ResponseFor(meant.intent, m, p, tools)
           reply == Final(first, Recent(Says(history, "agent")), reason, tools)
           result == RunAgentPipeline(m, history, p, alone)
           status == DetermineFinalStatus(meant.intent, reason, tools, reply)
<1>1. /\ result.tools = tools /\ result.reason = reason
      /\ result.reply = reply /\ result.status = status
    BY DEF RunAgentPipeline
<1>2. /\ Failures(tools) # {} => first.says \in Failures(tools)
      /\ ArtefactsOf(first.says) \subseteq Completed(tools)
    BY ResponseIs
<1>3. Failures(tools) # {} => reason # "none"
    BY FailureHandsOver
<1>4. /\ reply \in {first, Regenerated, SafeReply}
      /\ reason # "none" => reply \in {first, SafeReply}
    BY FinalTextIs
<1>5. status \in {"blocked", "handoff", "waiting_customer", "simulated", "resolved"}
    BY <1>3, StatusIs
<1> HIDE DEF tools, reason, first, reply, status, result
<1>6. ArtefactsOf(reply.says) \subseteq Completed(tools)
    BY <1>2, <1>4, FixedTextsNameNothing
<1>7. Failures(tools) # {} => reply.says \in Failures(tools) \union {SafeReply.says}
    BY <1>2, <1>3, <1>4
<1>8. TurnOK(result)
    BY <1>1, <1>3, <1>5, <1>6, <1>7 DEF TurnOK
<1> QED
    BY <1>8 DEF result

CustomerRows == [role : {"customer"}, text : Messages]
AgentRows(T) == [role : {"agent"}, text : T]
TalkOK(rows) == \E T : rows \in Seq(CustomerRows \union AgentRows(T))

LEMMA SpokenByTheCustomer == ASSUME NEW m \in Messages PROVE TalkOK(<<Customer(m)>>)
<1>1. Customer(m) \in CustomerRows \union AgentRows({})
    BY DEF Customer, CustomerRows
<1> QED
    BY <1>1 DEF TalkOK

LEMMA SpokenByTheAgent == ASSUME NEW reply PROVE TalkOK(<<Agent(reply)>>)
<1>1. Agent(reply) \in CustomerRows \union AgentRows({reply})
    BY DEF Agent, AgentRows
<1>2. <<Agent(reply)>> \in Seq(CustomerRows \union AgentRows({reply}))
    BY <1>1
<1> QED
    BY <1>2 DEF TalkOK

LEMMA TalkGoesOn ==
    ASSUME NEW before, NEW after, TalkOK(before), TalkOK(after)
    PROVE  TalkOK(before \o after) /\ Len(before \o after) = Len(before) + Len(after)
<1>1. PICK T : before \in Seq(CustomerRows \union AgentRows(T))
    BY DEF TalkOK
<1>2. PICK U : after \in Seq(CustomerRows \union AgentRows(U))
    BY DEF TalkOK
<1> DEFINE R == CustomerRows \union AgentRows(T \union U)
<1>3. CustomerRows \union AgentRows(T) \subseteq R /\ CustomerRows \union AgentRows(U) \subseteq R
    BY DEF AgentRows
<1> HIDE DEF R
<1>4. before \in Seq(R) /\ after \in Seq(R)
    BY <1>1, <1>2, <1>3, SeqMonotonic
<1>5. before \o after \in Seq(R) /\ Len(before \o after) = Len(before) + Len(after)
    BY <1>4, ConcatProperties
<1> QED
    BY <1>5 DEF TalkOK, R

LEMMA TalkAppended ==
    ASSUME NEW before, TalkOK(before), NEW row, TalkOK(<<row>>)
    PROVE  TalkOK(Append(before, row)) /\ Len(Append(before, row)) = Len(before) + 1
<1>1. PICK T : before \in Seq(CustomerRows \union AgentRows(T))
    BY DEF TalkOK
<1>2. PICK U : <<row>> \in Seq(CustomerRows \union AgentRows(U))
    BY DEF TalkOK
<1> DEFINE R == CustomerRows \union AgentRows(T \union U)
<1>3. CustomerRows \union AgentRows(T) \subseteq R /\ CustomerRows \union AgentRows(U) \subseteq R
    BY DEF AgentRows
<1> HIDE DEF R
<1>4. before \in Seq(R) /\ <<row>> \in Seq(R)
    BY <1>1, <1>2, <1>3, SeqMonotonic
<1>5. row \in R
    BY <1>4
<1>6. Append(before, row) \in Seq(R) /\ Len(Append(before, row)) = Len(before) + 1
    BY <1>4, <1>5, AppendProperties
<1> QED
    BY <1>6 DEF TalkOK, R

\* A message and its answer, and the row of the channel that may be missing.
LEMMA TheirWordsAreRows ==
    ASSUME NEW m \in Messages, NEW reply
    PROVE  /\ TalkOK(<<Customer(m), Agent(reply)>>) /\ Len(<<Customer(m), Agent(reply)>>) = 2
           /\ TalkOK(<<>>) /\ Len(<<>>) = 0
<1>1. /\ Customer(m) \in CustomerRows \union AgentRows({reply})
      /\ Agent(reply) \in CustomerRows \union AgentRows({reply})
    BY DEF Customer, CustomerRows, Agent, AgentRows
<1>2. <<Customer(m), Agent(reply)>> \in Seq(CustomerRows \union AgentRows({reply}))
    BY <1>1
<1>3. <<>> \in Seq(CustomerRows \union AgentRows({reply}))
    OBVIOUS
<1> QED
    BY <1>2, <1>3 DEF TalkOK

LEMMA RowsOfTheTalk ==
    ASSUME NEW rows, TalkOK(rows)
    PROVE  /\ Len(rows) \in Nat
           /\ \A i \in DOMAIN rows : /\ rows[i].role \in {"customer", "agent"}
                                     /\ rows[i].role = "customer" => rows[i].text \in Messages
<1>1. PICK T : rows \in Seq(CustomerRows \union AgentRows(T))
    BY DEF TalkOK
<1>2. \A row \in CustomerRows \union AgentRows(T) : /\ row.role \in {"customer", "agent"}
                                                    /\ row.role = "customer" => row.text \in Messages
    BY DEF CustomerRows, AgentRows
<1>3. \A i \in DOMAIN rows : rows[i] \in CustomerRows \union AgentRows(T)
    BY <1>1
<1> QED
    BY <1>1, <1>2, <1>3

AgentInv ==
    /\ TalkOK(talk) /\ Len(talk) <= MaxRows + 1
    /\ profile \in Profiles /\ caller \in Callers
    /\ TurnOK(turn)

LEMMA NoTurnIsFine == TurnOK(NoTurn)
<1>1. /\ NoTurn.reply.says = "nothing" /\ NoTurn.tools = {} /\ NoTurn.status = "none"
    BY DEF NoTurn, Reply
<1>2. ArtefactsOf("nothing") = {} /\ Failures({}) = {}
    BY DEF ArtefactsOf, Failures
<1> QED
    BY <1>1, <1>2 DEF TurnOK

LEMMA AgentStarts == AgentInit => AgentInv
<1> SUFFICES ASSUME AgentInit PROVE AgentInv
    OBVIOUS
<1>1. TalkOK(talk) /\ Len(talk) <= MaxRows + 1
    <2>1. <<>> \in Seq(CustomerRows \union AgentRows({}))
        OBVIOUS
    <2> QED BY <2>1, AgentAssumption DEF AgentInit, TalkOK
<1>2. profile \in Profiles /\ caller \in Callers /\ turn = NoTurn
    BY AgentAssumption DEF AgentInit
<1> QED
    BY <1>1, <1>2, NoTurnIsFine DEF AgentInv

LEMMA AgentSteps == AgentInv /\ AgentNext => AgentInv'
<1> SUFFICES ASSUME AgentInv, AgentNext PROVE AgentInv'
    OBVIOUS
<1>1. /\ TalkOK(talk) /\ Len(talk) \in Nat /\ MaxRows \in Nat /\ TurnOK(turn)
      /\ profile \in Profiles /\ caller \in Callers
    BY RowsOfTheTalk, AgentAssumption DEF AgentInv
<1>2. SUFFICES /\ TalkOK(talk') /\ Len(talk') <= MaxRows + 1 /\ TurnOK(turn')
               /\ profile' = profile /\ caller' = caller
    BY <1>1 DEF AgentInv, TalkOK, TurnOK
<1>3. ASSUME NEW m \in Messages, TrainingTurn(m)
      PROVE  /\ TalkOK(talk') /\ Len(talk') <= MaxRows + 1 /\ TurnOK(turn')
             /\ profile' = profile /\ caller' = caller
    <2> DEFINE updated == Append(talk, Customer(m))
               result == RunAgentPipeline(m, Keeps(updated), "default", AnalyzeIntent(m))
    <2>1. /\ Len(updated) < MaxRows /\ turn' = result /\ talk' = Append(updated, Agent(result.reply))
          /\ profile' = profile /\ caller' = caller
        BY <1>3 DEF TrainingTurn
    <2>2. TurnOK(result)
        BY PipelineIsHonest
    <2>3. TalkOK(updated) /\ Len(updated) = Len(talk) + 1
        BY <1>1, SpokenByTheCustomer, TalkAppended
    <2> HIDE DEF updated, result
    <2>4. TalkOK(talk') /\ Len(talk') = Len(updated) + 1
        BY <2>1, <2>3, SpokenByTheAgent, TalkAppended
    <2> QED BY <1>1, <2>1, <2>2, <2>3, <2>4
<1>4. ASSUME NEW m \in Messages, TrainingFails(m)
      PROVE  /\ TalkOK(talk') /\ Len(talk') <= MaxRows + 1 /\ TurnOK(turn')
             /\ profile' = profile /\ caller' = caller
    <2> DEFINE both == <<Customer(m), Agent(Reply("tools failed", FALSE))>>
    <2>1. /\ Len(talk) + 1 < MaxRows /\ talk' = talk \o both /\ turn' = turn
          /\ profile' = profile /\ caller' = caller
        BY <1>4 DEF TrainingFails
    <2>2. TalkOK(both) /\ Len(both) = 2
        BY TheirWordsAreRows
    <2> HIDE DEF both
    <2>3. TalkOK(talk') /\ Len(talk') = Len(talk) + 2
        BY <1>1, <2>1, <2>2, TalkGoesOn
    <2> QED BY <1>1, <2>1, <2>3
<1>5. ASSUME NEW m \in Messages, HomologationTurn(m)
      PROVE  /\ TalkOK(talk') /\ Len(talk') <= MaxRows + 1 /\ TurnOK(turn')
             /\ profile' = profile /\ caller' = caller
    <2> DEFINE result == RunAgentPipeline(m, talk, profile, AnalyzeIntent(m))
               both == <<Customer(m), Agent(result.reply)>>
    <2>1. /\ Len(talk) + 1 < MaxRows /\ talk' = talk \o both /\ turn' = result
          /\ profile' = profile /\ caller' = caller
        BY <1>5 DEF HomologationTurn
    <2>2. TurnOK(result)
        BY PipelineIsHonest
    <2>3. TalkOK(both) /\ Len(both) = 2
        BY TheirWordsAreRows
    <2> HIDE DEF both, result
    <2>4. TalkOK(talk') /\ Len(talk') = Len(talk) + 2
        BY <1>1, <2>1, <2>3, TalkGoesOn
    <2> QED BY <1>1, <2>1, <2>2, <2>4
<1>6. ASSUME NEW m \in Messages, NEW alone \in Classify(m), NEW sent \in BOOLEAN, WhatsappTurn(m, alone, sent)
      PROVE  /\ TalkOK(talk') /\ Len(talk') <= MaxRows + 1 /\ TurnOK(turn')
             /\ profile' = profile /\ caller' = caller
    <2> DEFINE result == RunAgentPipeline(m, Keeps(talk), "default", alone)
               row == IF sent THEN <<Agent(Reply(result.intent, FALSE))>> ELSE <<>>
               asked == Append(talk, Customer(m))
    <2>1. /\ Len(talk) + 1 < MaxRows /\ talk' = asked \o row /\ turn' = result
          /\ profile' = profile /\ caller' = caller
        BY <1>6 DEF WhatsappTurn
    <2>2. TurnOK(result)
        BY PipelineIsHonest
    <2>3. TalkOK(asked) /\ Len(asked) = Len(talk) + 1
        BY <1>1, SpokenByTheCustomer, TalkAppended
    <2>4. TalkOK(row) /\ Len(row) \in {0, 1}
        <3>1. CASE sent
            <4>1. row = <<Agent(Reply(result.intent, FALSE))>> /\ Len(row) = 1
                BY <3>1
            <4> QED BY <4>1, SpokenByTheAgent
        <3>2. CASE ~sent
            <4>1. row = <<>>
                BY <3>2
            <4> QED BY <4>1, TheirWordsAreRows
        <3> QED BY <3>1, <3>2
    <2> HIDE DEF asked, row, result
    <2>5. TalkOK(talk') /\ Len(talk') = Len(asked) + Len(row)
        BY <2>1, <2>3, <2>4, TalkGoesOn
    <2> QED BY <1>1, <2>1, <2>2, <2>3, <2>4, <2>5
<1>7. ASSUME NewConversation
      PROVE  /\ TalkOK(talk') /\ Len(talk') <= MaxRows + 1 /\ TurnOK(turn')
             /\ profile' = profile /\ caller' = caller
    <2>1. talk' = <<>> /\ turn' = NoTurn /\ profile' = profile /\ caller' = caller
        BY <1>7 DEF NewConversation
    <2>2. <<>> \in Seq(CustomerRows \union AgentRows({})) /\ Len(<<>>) = 0
        OBVIOUS
    <2>3. TalkOK(<<>>)
        BY <2>2 DEF TalkOK
    <2> QED BY <1>1, <2>1, <2>2, <2>3, NoTurnIsFine
<1> QED
    BY <1>3, <1>4, <1>5, <1>6, <1>7 DEF AgentNext

LEMMA RepliesHaveReceiptsInTheAgent == AgentInv => RepliesHaveReceipts
BY DEF AgentInv, TurnOK, RepliesHaveReceipts

LEMMA AgentIsTyped == AgentInv => AgentTypeOK
BY RowsOfTheTalk DEF AgentInv, TurnOK, AgentTypeOK

-----------------------------------------------------------------------------
(* The audit of the contracts: what a pass holds while it works, that the  *)
(* contracts it has left behind have their rows, and that a row never goes *)
(* away.                                                                   *)

Auditable == {c \in Contracts : Readable(c)}
SoundRows == {row \in AuditRows : (row.status = "pending") = (row.issues # {})}
Values == Registrations \cup {Missing, Null}
AuditPairs == Auditable \X SoundRows
OnContracts == {"customer", "get", "save", "advance"}
FreeSteps == {"idle", "start", "cursor", "list", "pending", "uncredited", "finish", "ended"}
WorkSteps == OnContracts \cup FreeSteps \cup {"again", "credit", "ask", "write"}
PassRows == [at : WorkSteps, from : Contracts \cup {Null}, started : Nat, todo : SUBSET (Auditable \cup AuditPairs),
             seen : [Customers -> Values], fields : Values, previous : SoundRows \cup {Null},
             contract : Contracts \cup {Null}]

ErpOK == erp \in [born : 0..LastContract, edits : 0..MaxAsides,
                  of : [Customers -> Registrations \cup {Missing}]]
LedgerOK(rows) == /\ rows \in [Contracts -> SoundRows \cup {Null}]
                  /\ \A c \in Contracts : rows[c] # Null => Readable(c)

\* What is at hand, and what is behind the pass: every contract after its point and
\* before one still on its list has a row.
WorkOK(w, rows) ==
    /\ w.at \in OnContracts => w.todo \subseteq Auditable /\ w.todo # {}
    /\ w.at \in {"again", "credit"} => w.todo \subseteq AuditPairs /\ w.todo # {}
    /\ w.at \in {"ask", "write"} => w.contract \in Auditable
    /\ w.at \in OnContracts /\ w.from # Null =>
          \A c \in Auditable, d \in w.todo : w.from < c /\ c < d /\ c \notin w.todo => rows[c] # Null
    /\ w.at = "advance" => rows[Oldest(w.todo)] # Null
RunOK(at, run) ==
    /\ at \in {"idle", "start"} => run = "none"
    /\ at \notin {"idle", "start", "ended"} => run # "none"
Begun(rs) == {p \in Passes : rs[p] # "none"}
RunsOK == /\ runs \in [Passes -> {"none", "open", "lapsed", "closed"}]
          /\ begun = Cardinality(Begun(runs))
          /\ \A p \in Passes : RunOK(worker[p].at, runs[p])
WorkersOK == /\ worker \in [Passes \cup Buttons -> PassRows]
             /\ \A w \in Passes \cup Buttons : WorkOK(worker[w], audits)

AuditInv == ErpOK /\ LedgerOK(audits) /\ cursor \in Contracts \cup {Null} /\ RunsOK /\ WorkersOK

LEMMA NullIsNoRow == Null \notin SoundRows
BY AuditAssumption DEF SoundRows

LEMMA IssuesAreKnown == \A fields : EvaluateContact(fields) \subseteq Issues
<1> SUFFICES ASSUME NEW fields PROVE EvaluateContact(fields) \subseteq Issues
    OBVIOUS
<1>1. PhoneIssues(fields) \subseteq Issues
    BY DEF PhoneIssues, Issues
<1>2. EmailIssues(fields) \subseteq Issues
    BY DEF EmailIssues, Issues
<1>3. NumberIssues(fields) \subseteq Issues
    BY DEF NumberIssues, Issues
<1> QED
    BY <1>1, <1>2, <1>3 DEF EvaluateContact

\* The next row of a contract is a sound one, whatever was read.
LEMMA NextRecordIsSound ==
    ASSUME NEW previous \in SoundRows \cup {Null}, NEW fields, NEW asked \in BOOLEAN, begun \in Nat
    PROVE  NextRecord(previous, fields, asked) \in SoundRows
<1> DEFINE issues == EvaluateContact(fields)
           known == asked \/ (previous # Null /\ previous.creatorChecked)
           kept == IF previous = Null THEN {} ELSE previous.firstIssues
<1>1. issues \subseteq Issues
    BY IssuesAreKnown
<1>2. kept \subseteq Issues /\ known \in BOOLEAN
    BY DEF SoundRows, AuditRows
<1>3. FirstIssues(previous, issues) \subseteq Issues
    BY <1>1, <1>2 DEF FirstIssues, SoundRows, AuditRows
<1>4. /\ StatusOf(previous, issues) \in {"ok", "pending", "resolved"}
      /\ (StatusOf(previous, issues) = "pending") = (issues # {})
    BY DEF StatusOf
<1>5. NextRecord(previous, fields, asked) =
         IF fields = Missing
         THEN [status |-> "unverified", issues |-> {}, firstIssues |-> kept,
               creatorChecked |-> known, lastChecked |-> begun]
         ELSE [status |-> StatusOf(previous, issues), issues |-> issues,
               firstIssues |-> FirstIssues(previous, issues),
               creatorChecked |-> known, lastChecked |-> begun]
    BY DEF NextRecord
<1> HIDE DEF issues, known, kept
<1> QED
    BY <1>1, <1>2, <1>3, <1>4, <1>5 DEF SoundRows, AuditRows

LEMMA OldestIsOne ==
    ASSUME NEW S, S \subseteq Auditable, S # {}
    PROVE  Oldest(S) \in S /\ \A c \in S : Oldest(S) <= c
<1>1. S \subseteq Nat
    BY AuditAssumption DEF Auditable, Contracts
<1>2. \E c \in S : \A d \in S : c <= d
    BY <1>1, NaturalsHaveALeast
<1> QED
    BY <1>2 DEF Oldest

LEMMA LeastRecentIsOne ==
    ASSUME NEW S, S \subseteq AuditPairs, S # {}
    PROVE  LeastRecent(S) \in S
<1>1. \A a \in S : a[1] \in Nat /\ a[2].lastChecked \in Nat
    BY AuditAssumption DEF AuditPairs, Auditable, Contracts, SoundRows, AuditRows
<1> DEFINE Times == {a[2].lastChecked : a \in S}
<1>2. PICK t \in Times : \A u \in Times : t <= u
    BY <1>1, NaturalsHaveALeast
<1> DEFINE Ids == {a[1] : a \in {b \in S : b[2].lastChecked = t}}
<1>3. PICK i \in Ids : \A j \in Ids : i <= j
    <2>1. Ids # {} /\ Ids \subseteq Nat
        BY <1>1, <1>2
    <2> HIDE DEF Ids
    <2> QED BY <2>1, NaturalsHaveALeast
<1>4. PICK a \in S : a[2].lastChecked = t /\ a[1] = i
    BY <1>3
<1>5. \A b \in S : \/ a[2].lastChecked < b[2].lastChecked
                   \/ a[2].lastChecked = b[2].lastChecked /\ a[1] <= b[1]
    <2> TAKE b \in S
    <2>1. t <= b[2].lastChecked /\ t \in Nat /\ b[2].lastChecked \in Nat
        BY <1>1, <1>2
    <2>2. CASE b[2].lastChecked = t
        <3>1. i <= b[1]
            BY <1>3, <2>2
        <3> QED BY <1>4, <2>2, <3>1
    <2>3. CASE b[2].lastChecked # t
        BY <1>4, <2>1, <2>3
    <2> QED BY <2>2, <2>3
<1> QED
    BY <1>5, Zenon DEF LeastRecent

LEMMA LatestRowIsOne ==
    ASSUME NEW S, S \subseteq AuditPairs, S # {}
    PROVE  LatestRow(S) \in S
<1>1. \A a \in S : a[1] \in 1..LastContract /\ LastContract \in Nat
    BY AuditAssumption DEF AuditPairs, Auditable, Contracts
<1> DEFINE Gaps == {LastContract - a[1] : a \in S}
<1>2. PICK g \in Gaps : \A h \in Gaps : g <= h
    <2>1. Gaps \subseteq Nat /\ Gaps # {}
        BY <1>1
    <2> HIDE DEF Gaps
    <2> QED BY <2>1, NaturalsHaveALeast
<1>3. PICK a \in S : LastContract - a[1] = g
    BY <1>2
<1>4. \A b \in S : a[1] >= b[1]
    <2> TAKE b \in S
    <2>1. LastContract - a[1] <= LastContract - b[1]
        BY <1>2, <1>3
    <2> QED BY <1>1, <2>1
<1> QED
    BY <1>4 DEF LatestRow

\* A row once written stays one.
Grows(before, after) == \A c \in Contracts : before[c] # Null => after[c] # Null

LEMMA ARowIsWritten ==
    ASSUME NEW rows, LedgerOK(rows), NEW c \in Auditable, NEW row \in SoundRows
    PROVE  LET after == [rows EXCEPT ![c] = row] IN
           LedgerOK(after) /\ Grows(rows, after) /\ after[c] = row
<1>1. c \in Contracts /\ Readable(c) /\ row # Null
    BY NullIsNoRow DEF Auditable
<1> QED
    BY <1>1 DEF LedgerOK, Grows

LEMMA WorkGoesOn ==
    ASSUME NEW w \in PassRows, NEW before, NEW after, WorkOK(w, before), Grows(before, after)
    PROVE  WorkOK(w, after)
<1>1. \A c \in Auditable : before[c] # Null => after[c] # Null
    BY DEF Grows, Auditable
<1>2. w.at = "advance" => Oldest(w.todo) \in Auditable
    BY OldestIsOne DEF WorkOK, OnContracts
<1> QED
    BY <1>1, <1>2 DEF WorkOK

\* Away from its lists a pass has nothing to account for.
LEMMA NothingAtHand ==
    ASSUME NEW w, NEW rows, w.at \in FreeSteps
    PROVE  WorkOK(w, rows)
BY DEF WorkOK, OnContracts, FreeSteps

LEMMA WhatAPassHolds ==
    ASSUME AuditInv, NEW w \in Passes \cup Buttons
    PROVE  /\ worker[w] \in PassRows /\ WorkOK(worker[w], audits)
           /\ w \in Passes => RunOK(worker[w].at, runs[w])
BY DEF AuditInv, WorkersOK, RunsOK

LEMMA OneWorkerMoves ==
    ASSUME AuditInv, NEW w \in Passes \cup Buttons, NEW change \in PassRows, Local(w, change),
           Grows(audits, audits'), WorkOK(change, audits')
    PROVE  WorkersOK'
<1>1. /\ worker \in [Passes \cup Buttons -> PassRows] /\ worker' = [worker EXCEPT ![w] = change]
      /\ \A v \in Passes \cup Buttons : WorkOK(worker[v], audits)
    BY DEF AuditInv, WorkersOK, Local
<1>2. worker' \in [Passes \cup Buttons -> PassRows]
    BY <1>1
<1>3. ASSUME NEW v \in Passes \cup Buttons
      PROVE  WorkOK(worker'[v], audits')
    <2>1. CASE v = w
        <3>1. worker'[v] = change
            BY <1>1, <2>1
        <3> QED BY <3>1
    <2>2. CASE v # w
        <3>1. worker'[v] = worker[v] /\ worker[v] \in PassRows
            BY <1>1, <2>2
        <3>2. WorkOK(worker[v], audits')
            BY <1>1, <3>1, WorkGoesOn
        <3> QED BY <3>1, <3>2
    <2> QED BY <2>1, <2>2
<1> QED
    BY <1>2, <1>3 DEF WorkersOK

LEMMA RunsStay ==
    ASSUME AuditInv, NEW w \in Passes \cup Buttons, NEW change \in PassRows, Local(w, change),
           UNCHANGED <<runs, begun>>, w \in Passes => RunOK(change.at, runs[w])
    PROVE  RunsOK'
<1>1. worker \in [Passes \cup Buttons -> PassRows] /\ worker' = [worker EXCEPT ![w] = change]
    BY DEF AuditInv, WorkersOK, Local
<1>2. ASSUME NEW p \in Passes
      PROVE  RunOK(worker'[p].at, runs[p])
    <2>1. CASE p = w
        <3>1. worker'[p] = change
            BY <1>1, <2>1
        <3> QED BY <2>1, <3>1
    <2>2. CASE p # w
        <3>1. worker'[p] = worker[p]
            BY <1>1, <2>2
        <3> QED BY <3>1 DEF AuditInv, RunsOK
    <2> QED BY <2>1, <2>2
<1> QED
    BY <1>2 DEF AuditInv, RunsOK

LEMMA StillGrown == ASSUME audits' = audits PROVE Grows(audits, audits')
BY DEF Grows

\* A step of one worker that reads, or moves the point.
LEMMA AWorkerReads ==
    ASSUME AuditInv, NEW w \in Passes \cup Buttons, NEW change \in PassRows, Local(w, change),
           UNCHANGED <<erp, audits, runs, begun>>, cursor' \in Contracts \cup {Null},
           WorkOK(change, audits), w \in Passes => RunOK(change.at, runs[w])
    PROVE  AuditInv'
<1>1. WorkersOK'
    BY StillGrown, OneWorkerMoves
<1>2. RunsOK'
    BY RunsStay
<1> QED
    BY <1>1, <1>2 DEF AuditInv, ErpOK

\* A step of one worker that writes the row of a contract.
LEMMA AWorkerWrites ==
    ASSUME AuditInv, NEW w \in Passes \cup Buttons, NEW change \in PassRows, Local(w, change),
           UNCHANGED <<erp, cursor, runs, begun>>, NEW c \in Auditable, NEW row \in SoundRows,
           audits' = [audits EXCEPT ![c] = row],
           WorkOK(change, audits'), w \in Passes => RunOK(change.at, runs[w])
    PROVE  AuditInv'
<1>1. LedgerOK(audits') /\ Grows(audits, audits')
    BY ARowIsWritten DEF AuditInv
<1>2. WorkersOK'
    BY <1>1, OneWorkerMoves
<1>3. RunsOK'
    BY RunsStay
<1> QED
    BY <1>1, <1>2, <1>3 DEF AuditInv, ErpOK

LEMMA RestingIsTyped ==
    \A s \in WorkSteps : /\ [Resting EXCEPT !.at = s] \in PassRows /\ [Resting EXCEPT !.at = s].at = s
                     /\ Resting \in PassRows /\ Resting.at = "idle"
BY DEF Resting, PassRows, Values, WorkSteps, FreeSteps

\* A worker that moves to a step where it holds nothing, or gives up.
LEMMA AWorkerMovesOn ==
    ASSUME AuditInv, NEW w \in Passes \cup Buttons, NEW s \in FreeSteps,
           UNCHANGED <<erp, audits, cursor, runs, begun>>,
           \/ Local(w, [Resting EXCEPT !.at = s]) \/ Moves(w, s),
           w \in Passes => RunOK(s, runs[w])
    PROVE  AuditInv'
<1>1. PICK change \in {[Resting EXCEPT !.at = s], [worker[w] EXCEPT !.at = s]} : Local(w, change)
    BY DEF Moves
<1>2. change \in PassRows /\ change.at = s
    <2>1. s \in WorkSteps
        BY DEF WorkSteps
    <2>2. worker[w] \in PassRows
        BY WhatAPassHolds
    <2>3. [worker[w] EXCEPT !.at = s] \in PassRows /\ [worker[w] EXCEPT !.at = s].at = s
        BY <2>1, <2>2 DEF PassRows
    <2> QED BY <1>1, <2>1, <2>3, RestingIsTyped
<1>3. WorkOK(change, audits)
    BY <1>2, NothingAtHand
<1>4. cursor' \in Contracts \cup {Null}
    BY DEF AuditInv
<1> QED
    BY <1>1, <1>2, <1>3, <1>4, AWorkerReads

LEMMA AuditStarts == AuditInit => AuditInv
<1> SUFFICES ASSUME AuditInit PROVE AuditInv
    OBVIOUS
<1>1. 1 \in Contracts /\ 1 \in 0..LastContract /\ 0 \in 0..MaxAsides
    BY AuditAssumption DEF Contracts
<1>2. ErpOK
    BY <1>1 DEF AuditInit, ErpOK
<1>3. LedgerOK(audits) /\ cursor \in Contracts \cup {Null}
    <2>1. \A c \in Contracts : Audited(c) \in SoundRows
        BY DEF Audited, SoundRows, AuditRows
    <2>2. CASE cursor = Null /\ audits = [c \in Contracts |-> Null]
        BY <2>2 DEF LedgerOK
    <2>3. CASE /\ Readable(1) /\ cursor = 1
               /\ audits = [c \in Contracts |-> IF c = 1 THEN Audited(c) ELSE Null]
        BY <1>1, <2>1, <2>3 DEF LedgerOK
    <2> QED BY <2>2, <2>3 DEF AuditInit
<1>4. \A w \in Passes \cup Buttons : worker[w] = Resting
    BY DEF AuditInit
<1>5. WorkersOK
    <2>1. Resting \in PassRows /\ WorkOK(Resting, audits)
        <3>1. "idle" \in FreeSteps /\ "idle" \in WorkSteps
            BY DEF FreeSteps, WorkSteps
        <3>2. Resting \in PassRows /\ Resting.at = "idle"
            BY <3>1, RestingIsTyped
        <3> QED BY <3>1, <3>2, NothingAtHand
    <2>2. worker \in [Passes \cup Buttons -> PassRows]
        BY <2>1 DEF AuditInit
    <2> QED BY <1>4, <2>1, <2>2 DEF WorkersOK
<1>6. RunsOK
    <2>1. runs = [p \in Passes |-> "none"] /\ begun = 0
        BY DEF AuditInit
    <2>2. Begun(runs) = {}
        BY <2>1 DEF Begun
    <2>3. \A p \in Passes : RunOK(worker[p].at, runs[p])
        <3>1. Resting.at = "idle"
            BY DEF Resting
        <3> QED BY <1>4, <2>1, <3>1 DEF RunOK
    <2> QED BY <2>1, <2>2, <2>3, FS_EmptySet DEF RunsOK
<1> QED
    BY <1>2, <1>3, <1>5, <1>6 DEF AuditInv

LEMMA BegunIsANumber == ASSUME RunsOK PROVE begun \in 0..Cardinality(Passes) /\ Cardinality(Passes) \in Nat
<1>1. IsFiniteSet(Passes)
    BY AuditAssumption, FS_Subset
<1>2. Begun(runs) \subseteq Passes
    BY DEF Begun
<1> QED
    BY <1>1, <1>2, FS_Subset, FS_CardinalityType DEF RunsOK

LEMMA TheErpMoves ==
    ASSUME AuditInv, ContractIsCreated \/ RegistrationChanges
    PROVE  AuditInv'
<1>1. UNCHANGED <<audits, cursor, runs, begun, worker>>
    BY DEF ContractIsCreated, RegistrationChanges
<1>2. SUFFICES ErpOK'
    BY <1>1 DEF AuditInv, RunsOK, WorkersOK
<1>3. erp \in [born : 0..LastContract, edits : 0..MaxAsides,
               of : [Customers -> Registrations \cup {Missing}]] /\ LastContract \in Nat /\ MaxAsides \in Nat
    BY AuditAssumption DEF AuditInv, ErpOK
<1>4. CASE ContractIsCreated
    <2>1. erp.born + 1 \in 0..LastContract /\ erp' = [erp EXCEPT !.born = @ + 1]
        BY <1>3, <1>4 DEF ContractIsCreated
    <2> QED BY <1>3, <2>1 DEF ErpOK
<1>5. CASE RegistrationChanges
    <2> DEFINE busy == {b \in Buttons : worker[b] # Resting}
    <2>1. Cardinality(busy) \in Nat
        <3>1. IsFiniteSet(Buttons)
            BY AuditAssumption, FS_Subset
        <3> QED BY <3>1, FS_Subset, FS_CardinalityType
    <2>2. erp.edits + Cardinality(busy) < MaxAsides
        BY <1>5 DEF RegistrationChanges, Asides
    <2> HIDE DEF busy
    <2>3. erp.edits + 1 \in 0..MaxAsides
        BY <1>3, <2>1, <2>2
    <2>4. PICK k \in Customers, f \in Registrations \cup {Missing} :
             erp' = [erp EXCEPT !.of[k] = f, !.edits = @ + 1]
        BY <1>5 DEF RegistrationChanges
    <2> QED BY <1>3, <2>3, <2>4 DEF ErpOK
<1> QED
    BY <1>4, <1>5

LEMMA NextContractIs ==
    ASSUME NEW p, worker[p] \in PassRows, NEW todo, todo \subseteq Auditable
    PROVE  LET next == NextContract(p, todo) IN
           /\ next \in PassRows
           /\ \/ next.at = "pending"
              \/ next.at = "customer" /\ todo # {} /\ next.todo = todo /\ next.from = worker[p].from
<1>1. CASE todo = {}
    BY <1>1, RestingIsTyped DEF NextContract, PassRows, Resting, WorkSteps, FreeSteps, Values
<1>2. CASE todo # {}
    BY <1>2 DEF NextContract, PassRows, WorkSteps, OnContracts, Values
<1> QED
    BY <1>1, <1>2

LEMMA ReadsAValue ==
    ASSUME AuditInv, NEW w \in Passes \cup Buttons, NEW k \in Customers
    PROVE  Read(w, k) \in Values /\ erp.of[k] \in Values
<1>1. worker[w].seen[k] \in Values
    BY WhatAPassHolds DEF PassRows
<1>2. erp.of[k] \in Values
    BY DEF AuditInv, ErpOK, Values
<1> QED
    BY <1>1, <1>2 DEF Read

LEMMA TheCustomerIsKnown ==
    ASSUME NEW c \in Auditable
    PROVE  CustomerOf[c] \in Customers
BY AuditAssumption DEF Auditable, Readable

LEMMA AtHandIs ==
    ASSUME AuditInv, NEW p \in Passes, worker[p].at \in OnContracts
    PROVE  /\ AtHand(p) \in Auditable /\ AtHand(p) \in worker[p].todo
           /\ worker[p].todo \subseteq Auditable /\ \A c \in worker[p].todo : AtHand(p) <= c
           /\ RunOK("get", runs[p]) /\ RunOK("pending", runs[p])
<1>1. WorkOK(worker[p], audits) /\ RunOK(worker[p].at, runs[p])
    BY WhatAPassHolds
<1>2. worker[p].todo \subseteq Auditable /\ worker[p].todo # {}
    BY <1>1 DEF WorkOK
<1> QED
    BY <1>1, <1>2, OldestIsOne DEF AtHand, RunOK, OnContracts

\* The pass begins: nothing but its own place, its run and the clock.
LEMMA APassBegins ==
    ASSUME AuditInv, NEW p \in Passes, LooksForARun(p) \/ StartsRun(p) \/ ReadsCursor(p) \/ ListsContracts(p)
    PROVE  AuditInv'
<1>1. worker[p] \in PassRows /\ RunOK(worker[p].at, runs[p]) /\ p \in Passes \cup Buttons
    BY WhatAPassHolds
<1>2. cursor \in Contracts \cup {Null} /\ RunsOK
    BY DEF AuditInv
<1>3. CASE LooksForARun(p)
    <2>1. PICK s \in {"ended", "start"} : Moves(p, s) /\ UNCHANGED <<erp, audits, cursor, runs, begun>>
        BY <1>3 DEF LooksForARun
    <2>2. s \in FreeSteps /\ RunOK(s, runs[p])
        BY <1>1, <1>3, <2>1 DEF FreeSteps, RunOK, LooksForARun, AtStep
    <2> QED BY <1>1, <2>1, <2>2, AWorkerMovesOn
<1>4. CASE StartsRun(p)
    <2> DEFINE change == [worker[p] EXCEPT !.at = "cursor", !.started = begun']
    <2>1. /\ worker[p].at = "start" /\ begun' = begun + 1 /\ runs' = [runs EXCEPT ![p] = "open"]
          /\ Local(p, change) /\ UNCHANGED <<erp, audits, cursor>>
        BY <1>4 DEF StartsRun, AtStep
    <2>2. /\ runs \in [Passes -> {"none", "open", "lapsed", "closed"}] /\ runs[p] = "none"
          /\ begun = Cardinality(Begun(runs)) /\ begun \in Nat
        BY <1>1, <1>2, <2>1, BegunIsANumber DEF RunsOK, RunOK
    <2>3. begun' \in Nat /\ begun' = Cardinality(Begun(runs'))
        <3>1. Begun(runs') = Begun(runs) \cup {p} /\ p \notin Begun(runs)
            BY <2>1, <2>2 DEF Begun
        <3>2. IsFiniteSet(Begun(runs))
            <4>1. IsFiniteSet(Passes) /\ Begun(runs) \subseteq Passes
                BY AuditAssumption, FS_Subset DEF Begun
            <4> QED BY <4>1, FS_Subset
        <3>3. Cardinality(Begun(runs')) = Cardinality(Begun(runs)) + 1
            BY <3>1, <3>2, FS_AddElement
        <3> QED BY <2>1, <2>2, <3>3
    <2>4. change \in PassRows /\ change.at = "cursor"
        BY <1>1, <2>3 DEF PassRows, WorkSteps, FreeSteps
    <2> HIDE DEF change
    <2>5. WorkersOK'
        <3>1. WorkOK(change, audits')
            BY <2>4, NothingAtHand DEF FreeSteps
        <3> QED BY <1>1, <2>1, <2>4, <3>1, OneWorkerMoves, StillGrown
    <2>6. RunsOK'
        <3>1. worker \in [Passes \cup Buttons -> PassRows] /\ worker' = [worker EXCEPT ![p] = change]
            BY <2>1 DEF AuditInv, WorkersOK, Local
        <3>2. ASSUME NEW q \in Passes
              PROVE  RunOK(worker'[q].at, runs'[q])
            <4>1. CASE q = p
                <5>1. worker'[q] = change /\ runs'[q] = "open"
                    BY <2>1, <2>2, <3>1, <4>1
                <5> QED BY <2>4, <5>1 DEF RunOK
            <4>2. CASE q # p
                <5>1. worker'[q] = worker[q] /\ runs'[q] = runs[q]
                    BY <2>1, <2>2, <3>1, <4>2
                <5> QED BY <1>2, <5>1 DEF RunsOK
            <4> QED BY <4>1, <4>2
        <3>3. runs' \in [Passes -> {"none", "open", "lapsed", "closed"}]
            BY <2>1, <2>2
        <3> QED BY <2>3, <3>2, <3>3 DEF RunsOK
    <2> QED BY <2>1, <2>5, <2>6 DEF AuditInv, ErpOK
<1>5. CASE ReadsCursor(p)
    <2> DEFINE change == [worker[p] EXCEPT !.at = "list", !.from = cursor]
    <2>1. /\ worker[p].at = "cursor" /\ Local(p, change) /\ UNCHANGED <<erp, audits, cursor, runs, begun>>
        BY <1>5 DEF ReadsCursor, AtStep
    <2>2. change \in PassRows /\ change.at = "list"
        BY <1>1, <1>2 DEF PassRows, WorkSteps, FreeSteps
    <2> HIDE DEF change
    <2>3. WorkOK(change, audits) /\ RunOK(change.at, runs[p])
        <3>1. "list" \in FreeSteps
            BY DEF FreeSteps
        <3> QED BY <1>1, <2>1, <2>2, <3>1, NothingAtHand DEF RunOK
    <2> QED BY <1>1, <1>2, <2>1, <2>2, <2>3, AWorkerReads
<1>6. CASE ListsContracts(p)
    <2> DEFINE todo == ToAudit(worker[p].from)
               change == NextContract(p, todo)
    <2>1. /\ worker[p].at = "list" /\ Local(p, change) /\ UNCHANGED <<erp, audits, cursor, runs, begun>>
        BY <1>6 DEF ListsContracts, AtStep
    <2>2. erp.born \in Nat /\ erp.born <= LastContract /\ LastContract \in Nat /\ PerPass \in Nat
        BY AuditAssumption DEF AuditInv, ErpOK
    <2>3. todo \subseteq Auditable
        BY <2>2 DEF ToAudit, Latest, After, Auditable, Contracts
    <2>4. worker[p].from # Null =>
             \A c \in Auditable, d \in todo : worker[p].from < c /\ c < d => c \in todo
        <3> SUFFICES ASSUME worker[p].from # Null, NEW c \in Auditable, NEW d \in todo,
                            worker[p].from < c, c < d
                     PROVE  c \in todo
            OBVIOUS
        <3>1. worker[p].from \in Nat /\ c \in Nat /\ c >= 1 /\ Readable(c)
            BY <1>1, <2>2 DEF PassRows, Contracts, Auditable
        <3>2. d \in After(worker[p].from)
            BY DEF ToAudit
        <3>3. c \in After(worker[p].from)
            BY <2>2, <3>1, <3>2 DEF After
        <3> QED BY <3>1, <3>3 DEF ToAudit
    <2>5. /\ change \in PassRows
          /\ \/ change.at = "pending"
             \/ change.at = "customer" /\ todo # {} /\ change.todo = todo /\ change.from = worker[p].from
        <3> HIDE DEF todo
        <3> QED BY <1>1, <2>3, NextContractIs
    <2> HIDE DEF change, todo
    <2>6. WorkOK(change, audits) /\ RunOK(change.at, runs[p])
        <3>1. CASE change.at = "pending"
            <4>1. "pending" \in FreeSteps
                BY DEF FreeSteps
            <4> QED BY <1>1, <2>1, <3>1, <4>1, NothingAtHand DEF RunOK
        <3>2. CASE change.at = "customer" /\ todo # {} /\ change.todo = todo /\ change.from = worker[p].from
            <4>1. WorkOK(change, audits)
                BY <2>3, <2>4, <3>2 DEF WorkOK, OnContracts
            <4> QED BY <1>1, <2>1, <3>2, <4>1 DEF RunOK
        <3> QED BY <2>5, <3>1, <3>2
    <2> QED BY <1>1, <1>2, <2>1, <2>5, <2>6, AWorkerReads
<1> QED
    BY <1>3, <1>4, <1>5, <1>6

\* One new contract: its customer, the row before, the new row, the point.
LEMMA AContractIsAudited ==
    ASSUME AuditInv, NEW p \in Passes, ReadsCustomer(p) \/ GetsRow(p) \/ SavesRow(p) \/ SavesCursor(p)
    PROVE  AuditInv'
<1> DEFINE w == worker[p]
<1>1. w \in PassRows /\ WorkOK(w, audits) /\ p \in Passes \cup Buttons
    BY WhatAPassHolds
<1>2. cursor \in Contracts \cup {Null} /\ LedgerOK(audits)
    BY DEF AuditInv
<1>3. w.at \in OnContracts
    BY DEF ReadsCustomer, GetsRow, SavesRow, SavesCursor, AtStep, OnContracts
<1>4. /\ AtHand(p) \in Auditable /\ AtHand(p) \in w.todo /\ w.todo \subseteq Auditable
      /\ \A c \in w.todo : AtHand(p) <= c
    BY <1>3, AtHandIs
<1>5. \A at \in {"get", "save", "advance", "customer", "pending"} : RunOK(at, runs[p])
    BY <1>3, AtHandIs DEF RunOK
<1>6. CASE ReadsCustomer(p)
    <2> DEFINE k == CustomerOf[AtHand(p)]
               value == Read(p, k)
               change == [w EXCEPT !.at = "get", !.fields = value, !.seen[k] = value]
    <2>1. Local(p, change) /\ UNCHANGED <<erp, audits, cursor, runs, begun>> /\ w.at = "customer"
        BY <1>6 DEF ReadsCustomer, AtStep
    <2>2. k \in Customers
        BY <1>4, TheCustomerIsKnown
    <2>3. value \in Values
        BY <1>1, <2>2, ReadsAValue
    <2> HIDE DEF k, value
    <2>4. /\ change \in PassRows /\ change.at = "get" /\ change.todo = w.todo /\ change.from = w.from
        BY <1>1, <2>2, <2>3 DEF PassRows, WorkSteps, OnContracts
    <2> HIDE DEF change
    <2>5. WorkOK(change, audits)
        BY <1>1, <2>1, <2>4 DEF WorkOK, OnContracts
    <2> QED BY <1>1, <1>2, <1>5, <2>1, <2>4, <2>5, AWorkerReads
<1>7. CASE GetsRow(p)
    <2> DEFINE change == [w EXCEPT !.at = "save", !.previous = audits[AtHand(p)]]
    <2>1. Local(p, change) /\ UNCHANGED <<erp, audits, cursor, runs, begun>> /\ w.at = "get"
        BY <1>7 DEF GetsRow, AtStep
    <2>2. audits[AtHand(p)] \in SoundRows \cup {Null}
        BY <1>2, <1>4 DEF LedgerOK, Auditable
    <2>3. /\ change \in PassRows /\ change.at = "save" /\ change.todo = w.todo /\ change.from = w.from
        BY <1>1, <2>2 DEF PassRows, WorkSteps, OnContracts
    <2> HIDE DEF change
    <2>4. WorkOK(change, audits)
        BY <1>1, <2>1, <2>3 DEF WorkOK, OnContracts
    <2> QED BY <1>1, <1>2, <1>5, <2>1, <2>3, <2>4, AWorkerReads
<1>8. CASE SavesRow(p)
    <2> DEFINE change == [w EXCEPT !.at = "advance"]
               c == AtHand(p)
               row == NextRecord(w.previous, w.fields, TRUE)
    <2>1. /\ Local(p, change) /\ UNCHANGED <<erp, cursor, runs, begun>> /\ w.at = "save"
          /\ audits' = [audits EXCEPT ![c] = row]
        BY <1>8 DEF SavesRow, AtStep, Moves
    <2>2. row \in SoundRows
        <3>1. w.previous \in SoundRows \cup {Null} /\ begun \in Nat
            BY <1>1, BegunIsANumber DEF PassRows, AuditInv
        <3> QED BY <3>1, NextRecordIsSound
    <2>3. /\ change \in PassRows /\ change.at = "advance" /\ change.todo = w.todo /\ change.from = w.from
        BY <1>1 DEF PassRows, WorkSteps, OnContracts
    <2>4. c = Oldest(w.todo) /\ c \in Auditable
        BY <1>4 DEF AtHand
    <2> HIDE DEF change, row, c
    <2>5. Grows(audits, audits') /\ audits'[c] = row /\ row # Null
        <3>1. LET after == [audits EXCEPT ![c] = row] IN
              Grows(audits, after) /\ after[c] = row
            BY <1>2, <2>2, <2>4, ARowIsWritten
        <3>2. row # Null
            BY <2>2, NullIsNoRow
        <3> QED BY <2>1, <3>1, <3>2
    <2>6. WorkOK(w, audits')
        BY <1>1, <2>5, WorkGoesOn
    <2>7. WorkOK(change, audits')
        BY <2>1, <2>3, <2>4, <2>5, <2>6 DEF WorkOK, OnContracts
    <2> QED BY <1>1, <1>5, <2>1, <2>2, <2>3, <2>4, <2>7, AWorkerWrites
<1>9. CASE SavesCursor(p)
    <2> DEFINE rest == w.todo \ {AtHand(p)}
               change == NextContract(p, rest)
    <2>1. /\ Local(p, change) /\ UNCHANGED <<erp, audits, runs, begun>> /\ w.at = "advance"
          /\ cursor' = IF cursor = Null \/ cursor < AtHand(p) THEN AtHand(p) ELSE cursor
        BY <1>9 DEF SavesCursor, AtStep
    <2>2. cursor' \in Contracts \cup {Null}
        <3>1. AtHand(p) \in Contracts
            BY <1>4 DEF Auditable
        <3>2. cursor' \in {AtHand(p), cursor}
            BY <2>1
        <3> QED BY <1>2, <3>1, <3>2
    <2>3. rest \subseteq Auditable
        BY <1>4
    <2>4. /\ change \in PassRows
          /\ \/ change.at = "pending"
             \/ change.at = "customer" /\ rest # {} /\ change.todo = rest /\ change.from = w.from
        <3> HIDE DEF rest
        <3> QED BY <1>1, <2>3, NextContractIs
    <2>5. audits[AtHand(p)] # Null
        BY <1>1, <2>1 DEF WorkOK, AtHand
    <2>6. w.from # Null =>
             \A c \in Auditable, d \in rest : w.from < c /\ c < d /\ c \notin rest => audits[c] # Null
        BY <1>1, <1>3, <2>5 DEF WorkOK
    <2> HIDE DEF change, rest
    <2>7. WorkOK(change, audits)
        <3>1. CASE change.at = "pending"
            BY <3>1, NothingAtHand DEF FreeSteps
        <3>2. CASE change.at = "customer" /\ rest # {} /\ change.todo = rest /\ change.from = w.from
            BY <2>3, <2>6, <3>2 DEF WorkOK, OnContracts
        <3> QED BY <2>4, <3>1, <3>2
    <2> QED BY <1>1, <1>5, <2>1, <2>2, <2>4, <2>7, AWorkerReads
<1> QED
    BY <1>6, <1>7, <1>8, <1>9

LEMMA NextOfIs ==
    ASSUME NEW p, worker[p] \in PassRows, NEW s \in {"again", "credit"}, NEW after \in FreeSteps,
           NEW todo, todo \subseteq AuditPairs
    PROVE  LET next == NextOf(p, s, after, todo) IN
           /\ next \in PassRows
           /\ \/ next.at = after
              \/ next.at = s /\ next.todo = todo /\ todo # {}
<1>1. after \in WorkSteps /\ s \in WorkSteps
    BY DEF WorkSteps
<1> QED
    BY <1>1 DEF NextOf, PassRows, Values

LEMMA PairsInHand ==
    ASSUME NEW w, NEW rows, w.at \in {"again", "credit"}, w.todo \subseteq AuditPairs, w.todo # {}
    PROVE  WorkOK(w, rows)
BY DEF WorkOK, OnContracts

LEMMA RowsFoundAreSound ==
    ASSUME AuditInv, NEW S, S \subseteq {c \in Contracts : audits[c] # Null}
    PROVE  RowsOf(S) \subseteq AuditPairs
BY DEF AuditInv, LedgerOK, RowsOf, AuditPairs, Auditable

\* The rows to check again, and those without a creator.
LEMMA ARowIsCheckedAgain ==
    ASSUME AuditInv, NEW p \in Passes,
           \/ ListsPending(p) \/ ReadsAgain(p) \/ SavesAgain(p) \/ ListsUncredited(p) \/ SavesCreator(p)
    PROVE  AuditInv'
<1> DEFINE w == worker[p]
<1>1. w \in PassRows /\ WorkOK(w, audits) /\ p \in Passes \cup Buttons
    BY WhatAPassHolds
<1>2. cursor \in Contracts \cup {Null} /\ begun \in Nat
    BY BegunIsANumber DEF AuditInv
<1>3. \A at \in {"again", "credit", "uncredited", "finish"} : RunOK(at, runs[p])
    BY WhatAPassHolds DEF RunOK, ListsPending, ReadsAgain, SavesAgain, ListsUncredited, SavesCreator, AtStep
<1>4. {"uncredited", "finish"} \subseteq FreeSteps
    BY DEF FreeSteps
<1>5. CASE ListsPending(p)
    <2> DEFINE todo == ToRecheck(w.started)
               change == NextOf(p, "again", "uncredited", todo)
    <2>1. Local(p, change) /\ UNCHANGED <<erp, audits, cursor, runs, begun>>
        BY <1>5 DEF ListsPending
    <2>2. todo \subseteq AuditPairs
        BY RowsFoundAreSound DEF ToRecheck
    <2> HIDE DEF todo
    <2>3. /\ change \in PassRows
          /\ change.at = "uncredited" \/ (change.at = "again" /\ change.todo = todo /\ todo # {})
        BY <1>1, <1>4, <2>2, NextOfIs
    <2> HIDE DEF change
    <2>4. WorkOK(change, audits) /\ RunOK(change.at, runs[p])
        BY <1>3, <1>4, <2>2, <2>3, NothingAtHand, PairsInHand
    <2> QED BY <1>1, <1>2, <2>1, <2>3, <2>4, AWorkerReads
<1>6. CASE ReadsAgain(p)
    <2> DEFINE k == CustomerOf[Again(p)[1]]
               value == Read(p, k)
               change == [w EXCEPT !.fields = value, !.seen[k] = value]
    <2>1. Local(p, change) /\ UNCHANGED <<erp, audits, cursor, runs, begun>> /\ w.at = "again"
        BY <1>6 DEF ReadsAgain, AtStep
    <2>2. w.todo \subseteq AuditPairs /\ w.todo # {}
        BY <1>1, <2>1 DEF WorkOK
    <2>3. Again(p)[1] \in Auditable
        BY <2>2, LeastRecentIsOne DEF Again, AuditPairs
    <2>4. k \in Customers
        BY <2>3, TheCustomerIsKnown
    <2>5. value \in Values
        BY <1>1, <2>4, ReadsAValue
    <2> HIDE DEF k, value
    <2>6. change \in PassRows /\ change.at = "again" /\ change.todo = w.todo
        BY <1>1, <2>1, <2>4, <2>5 DEF PassRows
    <2> HIDE DEF change
    <2>7. WorkOK(change, audits)
        BY <2>2, <2>6, PairsInHand
    <2> QED BY <1>1, <1>2, <1>3, <2>1, <2>6, <2>7, AWorkerReads
<1>7. CASE SavesAgain(p)
    <2> DEFINE rest == w.todo \ {Again(p)}
               change == NextOf(p, "again", "uncredited", rest)
               c == Again(p)[1]
               row == NextRecord(Again(p)[2], w.fields, FALSE)
    <2>1. /\ Local(p, change) /\ UNCHANGED <<erp, cursor, runs, begun>> /\ w.at = "again"
          /\ audits' = [audits EXCEPT ![c] = row]
        BY <1>7 DEF SavesAgain, AtStep
    <2>2. w.todo \subseteq AuditPairs /\ w.todo # {}
        BY <1>1, <2>1 DEF WorkOK
    <2>3. c \in Auditable /\ Again(p)[2] \in SoundRows
        BY <2>2, LeastRecentIsOne DEF Again, AuditPairs
    <2>4. row \in SoundRows
        BY <1>2, <2>3, NextRecordIsSound
    <2>5. rest \subseteq AuditPairs
        BY <2>2
    <2> HIDE DEF rest, c, row
    <2>6. /\ change \in PassRows
          /\ change.at = "uncredited" \/ (change.at = "again" /\ change.todo = rest /\ rest # {})
        BY <1>1, <1>4, <2>5, NextOfIs
    <2> HIDE DEF change
    <2>7. WorkOK(change, audits') /\ RunOK(change.at, runs[p])
        BY <1>3, <1>4, <2>5, <2>6, NothingAtHand, PairsInHand
    <2> QED BY <1>1, <2>1, <2>3, <2>4, <2>6, <2>7, AWorkerWrites
<1>8. CASE ListsUncredited(p)
    <2> DEFINE todo == ToBackfill
               at == IF todo = {} THEN "finish" ELSE "credit"
               change == [Resting EXCEPT !.at = at, !.todo = todo]
    <2>1. Local(p, change) /\ UNCHANGED <<erp, audits, cursor, runs, begun>>
        BY <1>8 DEF ListsUncredited
    <2>2. todo \subseteq AuditPairs
        BY RowsFoundAreSound DEF ToBackfill
    <2> HIDE DEF todo
    <2>3. /\ change \in PassRows
          /\ change.at = "finish" \/ (change.at = "credit" /\ change.todo = todo /\ todo # {})
        <3>1. change = [Resting EXCEPT !.at = at, !.todo = todo]
            OBVIOUS
        <3>2. Resting \in PassRows
            BY RestingIsTyped DEF WorkSteps
        <3>3. at \in WorkSteps
            BY DEF WorkSteps, FreeSteps
        <3> HIDE DEF change
        <3> QED BY <2>2, <3>1, <3>2, <3>3 DEF PassRows
    <2> HIDE DEF change
    <2>4. WorkOK(change, audits) /\ RunOK(change.at, runs[p])
        BY <1>3, <1>4, <2>2, <2>3, NothingAtHand, PairsInHand
    <2> QED BY <1>1, <1>2, <2>1, <2>3, <2>4, AWorkerReads
<1>9. CASE SavesCreator(p)
    <2> DEFINE rest == w.todo \ {Uncredited(p)}
               change == NextOf(p, "credit", "finish", rest)
               c == Uncredited(p)[1]
               row == [Uncredited(p)[2] EXCEPT !.creatorChecked = TRUE]
    <2>1. /\ Local(p, change) /\ UNCHANGED <<erp, cursor, runs, begun>> /\ w.at = "credit"
          /\ audits' = [audits EXCEPT ![c] = row]
        BY <1>9 DEF SavesCreator, AtStep
    <2>2. w.todo \subseteq AuditPairs /\ w.todo # {}
        BY <1>1, <2>1 DEF WorkOK
    <2>3. c \in Auditable /\ Uncredited(p)[2] \in SoundRows
        BY <2>2, LatestRowIsOne DEF Uncredited, AuditPairs
    <2>4. row \in SoundRows
        BY <2>3 DEF SoundRows, AuditRows
    <2>5. rest \subseteq AuditPairs
        BY <2>2
    <2> HIDE DEF rest, c, row
    <2>6. /\ change \in PassRows
          /\ change.at = "finish" \/ (change.at = "credit" /\ change.todo = rest /\ rest # {})
        BY <1>1, <1>4, <2>5, NextOfIs
    <2> HIDE DEF change
    <2>7. WorkOK(change, audits') /\ RunOK(change.at, runs[p])
        BY <1>3, <1>4, <2>5, <2>6, NothingAtHand, PairsInHand
    <2> QED BY <1>1, <2>1, <2>3, <2>4, <2>6, <2>7, AWorkerWrites
<1> QED
    BY <1>5, <1>6, <1>7, <1>8, <1>9

\* The pass ends, dies, or its lock lapses.
LEMMA APassEnds ==
    ASSUME AuditInv, NEW p \in Passes, Stops(p) \/ FinishesRun(p) \/ PassDies(p) \/ LockLapses(p)
    PROVE  AuditInv'
<1>1. /\ worker[p] \in PassRows /\ RunOK(worker[p].at, runs[p]) /\ p \in Passes \cup Buttons
      /\ RunsOK /\ WorkersOK
    BY WhatAPassHolds DEF AuditInv
<1>2. RunOK("ended", runs[p])
    BY DEF RunOK
<1>3. "ended" \in FreeSteps /\ "finish" \in FreeSteps
    BY DEF FreeSteps
<1>4. CASE Stops(p)
    <2>1. Local(p, [Resting EXCEPT !.at = "finish"]) /\ UNCHANGED <<erp, audits, cursor, runs, begun>>
        BY <1>4 DEF Stops
    <2>2. RunOK("finish", runs[p])
        BY <1>1, <1>4 DEF Stops, Working, RunOK
    <2> QED BY <1>1, <1>3, <2>1, <2>2, AWorkerMovesOn
<1>5. CASE PassDies(p)
    <2>1. Local(p, [Resting EXCEPT !.at = "ended"]) /\ UNCHANGED <<erp, audits, cursor, runs, begun>>
        BY <1>5 DEF PassDies
    <2> QED BY <1>1, <1>2, <1>3, <2>1, AWorkerMovesOn
<1> DEFINE Good(rs) == rs \in [Passes -> {"none", "open", "lapsed", "closed"}] /\ Begun(rs) = Begun(runs)
<1>6. ASSUME NEW r \in {"open", "lapsed", "closed"}, runs[p] # "none"
      PROVE  Good([runs EXCEPT ![p] = r])
    BY <1>1, <1>6 DEF RunsOK, Begun
<1>7. CASE FinishesRun(p)
    <2> DEFINE change == [Resting EXCEPT !.at = "ended"]
    <2>1. PICK r \in {runs[p], "closed"} : runs' = [runs EXCEPT ![p] = r]
        BY <1>7 DEF FinishesRun
    <2>2. Local(p, change) /\ UNCHANGED <<erp, audits, cursor, begun>> /\ worker[p].at = "finish"
        BY <1>7 DEF FinishesRun, AtStep
    <2>3. runs[p] \in {"open", "lapsed", "closed"}
        BY <1>1, <2>2 DEF RunOK, RunsOK
    <2>4. Good(runs')
        BY <1>6, <2>1, <2>3
    <2>5. change \in PassRows /\ change.at = "ended"
        <3>1. "ended" \in WorkSteps
            BY <1>3 DEF WorkSteps
        <3> QED BY <3>1, RestingIsTyped
    <2> HIDE DEF change
    <2>6. WorkersOK'
        <3>1. WorkOK(change, audits')
            BY <1>3, <2>5, NothingAtHand
        <3> QED BY <1>1, <2>2, <2>5, <3>1, OneWorkerMoves, StillGrown
    <2>7. RunsOK'
        <3>1. worker' = [worker EXCEPT ![p] = change] /\ worker \in [Passes \cup Buttons -> PassRows]
            BY <1>1, <2>2 DEF Local, WorkersOK
        <3>2. ASSUME NEW q \in Passes
              PROVE  RunOK(worker'[q].at, runs'[q])
            <4>1. CASE q = p
                <5>1. worker'[q].at = "ended"
                    BY <2>5, <3>1, <4>1
                <5> QED BY <5>1 DEF RunOK
            <4>2. CASE q # p
                <5>1. worker'[q] = worker[q] /\ runs'[q] = runs[q]
                    BY <1>1, <2>1, <3>1, <4>2 DEF RunsOK
                <5> QED BY <1>1, <5>1 DEF RunsOK
            <4> QED BY <4>1, <4>2
        <3> QED BY <1>1, <2>2, <2>4, <3>2 DEF RunsOK
    <2> QED BY <2>2, <2>6, <2>7 DEF AuditInv, ErpOK
<1>8. CASE LockLapses(p)
    <2>1. runs[p] = "open" /\ runs' = [runs EXCEPT ![p] = "lapsed"] /\ UNCHANGED <<erp, audits, cursor, begun, worker>>
        BY <1>8 DEF LockLapses
    <2>2. Good(runs')
        BY <1>6, <2>1
    <2>3. ASSUME NEW q \in Passes
          PROVE  RunOK(worker'[q].at, runs'[q])
        <3>1. runs'[q] = runs[q] \/ (runs[q] = "open" /\ runs'[q] = "lapsed")
            BY <1>1, <2>1 DEF RunsOK
        <3>2. RunOK(worker[q].at, runs[q])
            BY <1>1 DEF RunsOK
        <3> QED BY <2>1, <3>1, <3>2 DEF RunOK
    <2>4. RunsOK'
        BY <1>1, <2>1, <2>2, <2>3 DEF RunsOK
    <2> QED BY <2>1, <2>4 DEF AuditInv, ErpOK, WorkersOK
<1> QED
    BY <1>4, <1>5, <1>7, <1>8

\* The button: one contract, read, asked of the ERP and written.
LEMMA AButtonChecks ==
    ASSUME AuditInv, NEW b \in Buttons, ButtonReads(b) \/ ButtonAsks(b) \/ ButtonSaves(b)
    PROVE  AuditInv'
<1> DEFINE w == worker[b]
<1>1. /\ w \in PassRows /\ WorkOK(w, audits) /\ b \in Passes \cup Buttons /\ b \notin Passes
      /\ cursor \in Contracts \cup {Null} /\ LedgerOK(audits) /\ begun \in Nat
    BY WhatAPassHolds, AuditAssumption, BegunIsANumber DEF AuditInv
<1>2. "ended" \in FreeSteps
    BY DEF FreeSteps
<1>3. ASSUME Local(b, [Resting EXCEPT !.at = "ended"]), UNCHANGED <<erp, audits, cursor, runs, begun>>
      PROVE  AuditInv'
    BY <1>1, <1>2, <1>3, AWorkerMovesOn
<1>4. CASE ButtonReads(b)
    <2>1. UNCHANGED <<erp, audits, cursor, runs, begun>>
        BY <1>4 DEF ButtonReads
    <2>2. PICK c \in Contracts :
             Local(b, IF audits[c] = Null THEN [Resting EXCEPT !.at = "ended"]
                      ELSE [w EXCEPT !.at = "ask", !.previous = audits[c], !.contract = c])
        BY <1>4 DEF ButtonReads
    <2>3. CASE audits[c] = Null
        BY <1>3, <2>1, <2>2, <2>3
    <2>4. CASE audits[c] # Null
        <3> DEFINE change == [w EXCEPT !.at = "ask", !.previous = audits[c], !.contract = c]
        <3>1. Local(b, change)
            BY <2>2, <2>4
        <3>2. c \in Auditable /\ audits[c] \in SoundRows
            BY <1>1, <2>4 DEF LedgerOK, Auditable
        <3>3. change \in PassRows /\ change.at = "ask" /\ change.contract = c
            BY <1>1, <3>2 DEF PassRows, WorkSteps
        <3> HIDE DEF change
        <3>4. WorkOK(change, audits)
            BY <3>2, <3>3 DEF WorkOK, OnContracts
        <3> QED BY <1>1, <2>1, <3>1, <3>3, <3>4, AWorkerReads
    <2> QED BY <2>3, <2>4
<1>5. CASE ButtonAsks(b)
    <2> DEFINE value == erp.of[CustomerOf[w.contract]]
               change == [w EXCEPT !.at = "write", !.fields = value]
    <2>1. /\ UNCHANGED <<erp, audits, cursor, runs, begun>> /\ w.at = "ask"
          /\ Local(b, change) \/ Local(b, [Resting EXCEPT !.at = "ended"])
        BY <1>5 DEF ButtonAsks, AtStep
    <2>2. w.contract \in Auditable
        BY <1>1, <2>1 DEF WorkOK
    <2>3. value \in Values
        BY <1>1, <2>2, TheCustomerIsKnown, ReadsAValue
    <2> HIDE DEF value
    <2>4. change \in PassRows /\ change.at = "write" /\ change.contract = w.contract
        BY <1>1, <2>3 DEF PassRows, WorkSteps
    <2> HIDE DEF change
    <2>5. WorkOK(change, audits)
        BY <2>2, <2>4 DEF WorkOK, OnContracts
    <2>6. CASE Local(b, change)
        BY <1>1, <2>1, <2>4, <2>5, <2>6, AWorkerReads
    <2>7. CASE Local(b, [Resting EXCEPT !.at = "ended"])
        BY <1>3, <2>1, <2>7
    <2> QED BY <2>1, <2>6, <2>7
<1>6. CASE ButtonSaves(b)
    <2> DEFINE row == NextRecord(w.previous, w.fields, TRUE)
               c == w.contract
               change == [Resting EXCEPT !.at = "ended"]
    <2>1. /\ UNCHANGED <<erp, cursor, runs, begun>> /\ w.at = "write" /\ Local(b, change)
          /\ audits' = [audits EXCEPT ![c] = row]
        BY <1>6 DEF ButtonSaves, AtStep
    <2>2. c \in Auditable
        BY <1>1, <2>1 DEF WorkOK
    <2>3. row \in SoundRows
        <3>1. w.previous \in SoundRows \cup {Null}
            BY <1>1 DEF PassRows
        <3> QED BY <1>1, <3>1, NextRecordIsSound
    <2>4. change \in PassRows /\ WorkOK(change, audits')
        <3>1. "ended" \in WorkSteps
            BY <1>2 DEF WorkSteps
        <3>2. change \in PassRows /\ change.at = "ended"
            BY <3>1, RestingIsTyped
        <3> HIDE DEF change
        <3> QED BY <1>2, <3>2, NothingAtHand
    <2> HIDE DEF row, c, change
    <2> QED BY <1>1, <2>1, <2>2, <2>3, <2>4, AWorkerWrites
<1> QED
    BY <1>4, <1>5, <1>6

LEMMA AuditSteps == AuditInv /\ AuditNext => AuditInv'
<1> SUFFICES ASSUME AuditInv, AuditNext PROVE AuditInv'
    OBVIOUS
<1>1. ASSUME NEW p \in Passes,
             \/ LooksForARun(p) \/ StartsRun(p) \/ ReadsCursor(p) \/ ListsContracts(p)
             \/ ReadsCustomer(p) \/ GetsRow(p) \/ SavesRow(p) \/ SavesCursor(p)
             \/ ListsPending(p) \/ ReadsAgain(p) \/ SavesAgain(p)
             \/ ListsUncredited(p) \/ SavesCreator(p)
             \/ Stops(p) \/ FinishesRun(p) \/ PassDies(p) \/ LockLapses(p)
      PROVE  AuditInv'
    BY <1>1, APassBegins, AContractIsAudited, ARowIsCheckedAgain, APassEnds
<1>2. ASSUME NEW b \in Buttons, ButtonReads(b) \/ ButtonAsks(b) \/ ButtonSaves(b)
      PROVE  AuditInv'
    BY <1>2, AButtonChecks
<1> QED
    BY <1>1, <1>2, TheErpMoves DEF AuditNext

\* What a step of the audit may do to the point, for each pass that began from one.
PointKept ==
    \A p \in Passes :
       AtStep(p, "advance") /\ worker[p].from # Null /\ worker'[p].at # "advance" /\ cursor' # cursor
          => \A c \in Contracts : worker[p].from < c /\ c <= cursor' /\ Readable(c) => audits'[c] # Null

\* Only one action moves the point, and only over what the pass has audited.
LEMMA ThePointIsKept == AuditInv /\ [AuditNext]_auditVars => PointKept
<1> SUFFICES ASSUME AuditInv, [AuditNext]_auditVars, cursor' # cursor, NEW p \in Passes,
                    worker[p].at = "advance", worker[p].from # Null, worker'[p].at # "advance",
                    NEW c \in Contracts, worker[p].from < c, c <= cursor', Readable(c)
             PROVE  audits'[c] # Null
    BY DEF PointKept, AtStep
<1>1. PICK q \in Passes : SavesCursor(q)
    BY DEF AuditNext, auditVars, ContractIsCreated, RegistrationChanges, LooksForARun, StartsRun, ReadsCursor,
           ListsContracts, ReadsCustomer, GetsRow, SavesRow, ListsPending, ReadsAgain, SavesAgain,
           ListsUncredited, SavesCreator, Stops, FinishesRun, PassDies, LockLapses,
           ButtonReads, ButtonAsks, ButtonSaves
<1>2. /\ worker \in [Passes \cup Buttons -> PassRows] /\ WorkOK(worker[p], audits)
      /\ p \in Passes \cup Buttons /\ worker[p] \in PassRows
    BY WhatAPassHolds DEF AuditInv, WorkersOK
<1>3. q = p
    <2>1. q # p => worker'[p] = worker[p]
        BY <1>1, <1>2 DEF SavesCursor, Local
    <2> QED BY <2>1
<1>4. cursor' = AtHand(p) /\ audits' = audits
    BY <1>1, <1>3 DEF SavesCursor
<1>5. /\ AtHand(p) \in Auditable /\ AtHand(p) \in worker[p].todo
      /\ \A d \in worker[p].todo : AtHand(p) <= d
    BY AtHandIs DEF OnContracts
<1>6. c \in Auditable /\ c \in Nat /\ AtHand(p) \in Nat /\ c <= AtHand(p)
    BY <1>4, <1>5, AuditAssumption DEF Auditable, Contracts
<1>7. CASE c = AtHand(p)
    BY <1>2, <1>4, <1>7 DEF WorkOK, AtHand
<1>8. CASE c < AtHand(p)
    <2>1. c \notin worker[p].todo
        BY <1>5, <1>6, <1>8
    <2> QED BY <1>2, <1>4, <1>5, <1>6, <1>8, <2>1 DEF WorkOK, OnContracts
<1> QED
    BY <1>6, <1>7, <1>8

LEMMA AuditIsTyped == AuditInv => AuditTypeOK
<1> SUFFICES ASSUME AuditInv PROVE AuditTypeOK
    OBVIOUS
<1>1. begun \in 0..Cardinality(Passes)
    BY BegunIsANumber DEF AuditInv
<1> QED
    BY <1>1 DEF AuditInv, AuditTypeOK, ErpOK, RunsOK, LedgerOK, SoundRows

-----------------------------------------------------------------------------
(* Each part alone.                                                        *)

LEMMA ReadsKeep == ReadsInv /\ [ReadsNext]_readsVars => ReadsInv'
<1>1. ASSUME ReadsInv, UNCHANGED readsVars
      PROVE  ReadsInv'
    BY <1>1 DEF ReadsInv, WorldOK, readsVars
<1> QED
    BY <1>1, ReadsSteps

LEMMA AuditKeeps == AuditInv /\ [AuditNext]_auditVars => AuditInv'
<1>1. ASSUME AuditInv, UNCHANGED auditVars
      PROVE  AuditInv'
    BY <1>1 DEF AuditInv, ErpOK, RunsOK, WorkersOK, auditVars
<1> QED
    BY <1>1, AuditSteps

LEMMA AgentKeeps == AgentInv /\ [AgentNext]_agentVars => AgentInv'
<1>1. ASSUME AgentInv, UNCHANGED agentVars
      PROVE  AgentInv'
    BY <1>1 DEF AgentInv, agentVars
<1> QED
    BY <1>1, AgentSteps

LEMMA TriageKeeps == TriageInv /\ [TriageNext]_triageVars => TriageInv'
<1>1. ASSUME TriageInv, UNCHANGED triageVars
      PROVE  TriageInv'
    BY <1>1 DEF TriageInv, triageVars
<1> QED
    BY <1>1, TriageSteps

\* Whatever passes, presses of the button and changes of the registrations run beside it,
\* a pass that began from a saved point never moves the point past a readable contract
\* without a row (runContractAudit, "se o IXC cair no meio nada se perde").
THEOREM NoContractIsSkipped == AuditSpec => NothingIsSkipped
<1>1. AuditInv /\ [AuditNext]_auditVars =>
        [\A p \in Passes :
           AtStep(p, "advance") /\ worker[p].from # Null /\ worker'[p].at # "advance" /\ cursor' # cursor
             => \A c \in Contracts :
                   worker[p].from < c /\ c <= cursor' /\ Readable(c) => audits'[c] # Null]_auditVars
    BY ThePointIsKept DEF PointKept
<1> QED
    BY AuditStarts, AuditKeeps, <1>1, PTL DEF AuditSpec, NothingIsSkipped

\* A reply that names an artefact has the receipt of the tool that prepared it, and a turn
\* in which a tool failed names none and is handed over (evidence.ts, handoff.ts), for
\* whatever the messages mean, the model guesses and the profile makes fail.
THEOREM NothingIsClaimed == AgentSpec => []RepliesHaveReceipts
BY AgentStarts, AgentKeeps, RepliesHaveReceiptsInTheAgent, PTL DEF AgentSpec

\* A search by telephone that finds a customer found the only one: of the telephone book of
\* that moment, in the first pair of fields where anybody has the number
\* (customer-identification.ts).
THEOREM NobodyIsGuessed == ReadsSpec => []ExactlyOneOrNobody
BY ReadsStart, ReadsKeep, ExactlyOneInReads, PTL DEF ReadsSpec

\* A ticket keeps its sector and its diagnosis through messages that overlap, and the
\* advice to the attendant fits the facts it was read from (support-triage-service.ts,
\* connection-diagnosis-shared.ts).
THEOREM TicketsTellTrue == TriageSpec => TicketsAreReliable
<1>1. TriageInv /\ [TriageNext]_triageVars => [KeepsSector /\ KeepsDiagnosis]_triageVars
    BY TriageSteps
<1> QED
    BY TriageStarts, TriageKeeps, <1>1, AdviceFitsInTriage, PTL
       DEF TriageSpec, TicketsAreReliable, TicketsKeepWhatTheyKnow

-----------------------------------------------------------------------------
(* The whole.                                                              *)

LEMMA OutsideStep ==
    ASSUME [OutsideNext]_outsideVars
    PROVE  /\ [ReadsNext]_readsVars /\ [AuditNext]_auditVars /\ [AgentNext]_agentVars /\ [TriageNext]_triageVars
           /\ UNCHANGED outsider
<1> USE DEF outsideVars
<1>1. CASE UNCHANGED outsideVars
    BY <1>1
<1>2. CASE ReadsRun
    BY <1>2 DEF ReadsRun
<1>3. CASE AuditRuns
    BY <1>3 DEF AuditRuns
<1>4. CASE AgentRuns
    BY <1>4 DEF AgentRuns
<1>5. CASE TriageRuns
    BY <1>5 DEF TriageRuns
<1> QED
    BY <1>1, <1>2, <1>3, <1>4, <1>5 DEF OutsideNext

\* A behaviour of the whole is one of each part, so that what holds of a part alone holds
\* of it here.
THEOREM OutsideIsItsParts == OutsideSpec => ReadsSpec /\ AuditSpec /\ AgentSpec /\ TriageSpec
<1>1. OutsideInit => ReadsInit /\ AuditInit /\ AgentInit /\ TriageInit
    BY DEF OutsideInit
<1> QED
    BY <1>1, OutsideStep, PTL DEF OutsideSpec, ReadsSpec, AuditSpec, AgentSpec, TriageSpec

\* Each part is of the type its module says, while it runs: the ERP's snapshots and
\* searches, the rows of the audit with their issues, the conversation with the agent, the
\* tickets.
THEOREM OutsideIsTyped == OutsideSpec => []OutsideTypeOK
<1>1. OutsideInit => outsider \in Outsiders
    BY DEF OutsideInit
<1>2. outsider \in Outsiders /\ [OutsideNext]_outsideVars => (outsider \in Outsiders)'
    BY OutsideStep
<1>3. ReadsSpec => []ReadsTypeOK
    BY ReadsStart, ReadsKeep, ReadsAreTyped, PTL DEF ReadsSpec
<1>4. AuditSpec => []AuditTypeOK
    BY AuditStarts, AuditKeeps, AuditIsTyped, PTL DEF AuditSpec
<1>5. AgentSpec => []AgentTypeOK
    BY AgentStarts, AgentKeeps, AgentIsTyped, PTL DEF AgentSpec
<1>6. TriageSpec => []TriageTypeOK
    BY TriageStarts, TriageKeeps, TriageIsTyped, PTL DEF TriageSpec
<1>7. outsider \in Outsiders /\ ReadsTypeOK /\ AuditTypeOK /\ AgentTypeOK /\ TriageTypeOK => OutsideTypeOK
    <2> SUFFICES ASSUME outsider \in Outsiders, ReadsTypeOK, AuditTypeOK, AgentTypeOK, TriageTypeOK
                 PROVE  OutsideTypeOK
        OBVIOUS
    <2>1. outsider \in {"reads", "audit", "agent", "triage"}
        BY OutsidersAssumption
    <2> QED BY <2>1 DEF OutsideTypeOK
<1> QED
    BY <1>1, <1>2, <1>3, <1>4, <1>5, <1>6, <1>7, OutsideIsItsParts, PTL DEF OutsideSpec
=============================================================================
