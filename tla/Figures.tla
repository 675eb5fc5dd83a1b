------------------------------- MODULE Figures --------------------------------
(***************************************************************************)
(* The figures the managers read, computed from what the ERP and the       *)
(* database hold while both change: the position of the invoices           *)
(* (billing-service.ts), the risk of losing a customer                     *)
(* (churn-risk-service.ts), the funnel (crm-service.ts), the goal of the   *)
(* month (sales-goals-service.ts), the conversations (support-metrics.ts)  *)
(* and the cockpit that gathers them, source by source                     *)
(* (cockpit-service.ts).                                                   *)
(*                                                                         *)
(* The functions are pure and are operators here.  A day is a number, a    *)
(* month has 30 of them, every invoice is worth 1, and an unreadable date  *)
(* is Unknown.  A quotient is kept as its two numbers.                     *)
(***************************************************************************)
EXTENDS Integers, FiniteSetsExt, SequencesExt

CONSTANTS Unknown,
          Jumps,      \* the days that pass between two events
          Dues,       \* when an invoice falls due, counted from the day it is issued
          ScanLimit,  \* the overdue invoices one reading of the whole base takes
          MaxNews     \* bound: events

ASSUME JumpsAssumption == Jumps \subseteq Nat \ {0} /\ Unknown \notin Int
ASSUME NewsAssumption == MaxNews \in Nat /\ ScanLimit \in Nat

VARIABLES today, tickets, invoices, leads, goal, sales, talks, incidents, traces, down, events

erp == <<tickets, invoices, sales>>
base == <<leads, goal, talks, incidents, traces>>
figureVars == <<today, erp, base, down, events>>

\* The subject "none" is what the mapper writes when the ERP has none.
Subjects == {"slow", "none"}
LEAD_STAGES == {"novo", "qualificado", "proposta", "ganho", "perdido"}
OPEN_STAGES == {"novo", "qualificado", "proposta"}
\* A rating is a row of its own, at most one for a conversation: 0 where there is none.
Outcomes == [status : {"resolved", "suggested"}, handoff : BOOLEAN, rating : {0, 5}]
Lists == {"invoices", "serviceOrders"}
Sources == {"erp", "db", "langfuse"} \cup Lists
Null == [value |-> Unknown, why |-> "unavailable"]
Measured(n) == [value |-> n, why |-> "measured"]
Count(Test(_), aSeq) == Len(SelectSeq(aSeq, Test))

FiguresInit ==
    /\ today = 1
    /\ tickets = <<>> /\ invoices = <<>> /\ leads = <<>>
    /\ goal = 0 /\ sales = <<>> /\ talks = <<>> /\ incidents = <<>>
    /\ traces = [observations |-> 0, cost |-> 0]
    /\ down = {} /\ events = 0

Occurs == events < MaxNews /\ events' = events + 1

(***************************************************************************)
(* What happens to the company.                                            *)
(***************************************************************************)
DaysPass ==
    /\ Occurs /\ \E n \in Jumps : today' = today + n
    /\ UNCHANGED <<erp, base, down>>

OpensTicket ==
    /\ Occurs
    /\ \E subject \in Subjects, at \in {today, Unknown} :
         tickets' = Append(tickets, [subject |-> subject, openedAt |-> at])
    /\ UNCHANGED <<today, invoices, sales, base, down>>

IsIssued ==
    /\ Occurs
    /\ \E due \in {today + n : n \in Dues} \cup {Unknown} :
         invoices' = Append(invoices, [dueAt |-> due, status |-> "A"])
    /\ UNCHANGED <<today, tickets, sales, base, down>>

\* Paid or cancelled: R and C of the ERP.
IsSettled ==
    /\ Occurs
    /\ \E i \in DOMAIN invoices, status \in {"R", "C"} :
         invoices[i].status = "A" /\ invoices' = [invoices EXCEPT ![i].status = status]
    /\ UNCHANGED <<today, tickets, sales, base, down>>

\* A contract is activated in the month of the goal (the listing asks for no other);
\* the price of its plan is 1, or cannot be read.
Sells ==
    /\ Occurs /\ today <= 30
    /\ \E value \in {1, Unknown} : sales' = Append(sales, [value |-> value, status |-> "A"])
    /\ UNCHANGED <<today, tickets, invoices, base, down>>

IsCancelled ==
    /\ Occurs
    /\ \E i \in DOMAIN sales : sales[i].status = "A" /\ sales' = [sales EXCEPT ![i].status = "I"]
    /\ UNCHANGED <<today, tickets, invoices, base, down>>

SetsGoal ==
    /\ Occurs /\ goal' \in {1, 2} \ {goal}
    /\ UNCHANGED <<today, erp, leads, talks, incidents, traces, down>>

LeadArrives ==
    /\ Occurs /\ leads' = Append(leads, [stage |-> "novo", createdAt |-> today])
    /\ UNCHANGED <<today, erp, goal, talks, incidents, traces, down>>

LeadMoves ==
    /\ Occurs
    /\ \E i \in DOMAIN leads, stage \in LEAD_STAGES : leads' = [leads EXCEPT ![i].stage = stage]
    /\ UNCHANGED <<today, erp, goal, talks, incidents, traces, down>>

TalkEnds ==
    /\ Occurs /\ \E outcome \in Outcomes : talks' = Append(talks, outcome)
    \* the classifier reports no cost, another model may
    /\ \E cost \in {0, 1} : traces' = [observations |-> traces.observations + 1, cost |-> traces.cost + cost]
    /\ UNCHANGED <<today, erp, leads, goal, incidents, down>>

\* Somebody registers how many customers an incident reaches, or closes one.
IncidentTurns ==
    /\ Occurs
    /\ \/ incidents' = Append(incidents, [status |-> "investigating", affectedCustomers |-> 2])
       \/ \E i \in DOMAIN incidents : incidents' = [incidents EXCEPT ![i].status = "resolved"]
    /\ UNCHANGED <<today, erp, leads, goal, talks, traces, down>>

SourceTurns ==
    /\ Occurs /\ \E source \in Sources : down' = SymDiff(down, {source})
    /\ UNCHANGED <<today, erp, base>>

FiguresNext ==
    \/ DaysPass \/ OpensTicket \/ IsIssued \/ IsSettled \/ Sells \/ IsCancelled
    \/ SetsGoal
    \/ LeadArrives \/ LeadMoves \/ TalkEnds \/ IncidentTurns \/ SourceTurns
FiguresSpec == FiguresInit /\ [][FiguresNext]_figureVars

(***************************************************************************)
(* What is read of a customer: one of the lists may fail on its own, which  *)
(* leaves it empty and its name in partialSources.                         *)
(***************************************************************************)
getSnapshot ==
    [invoices |-> IF "invoices" \in down THEN <<>> ELSE invoices,
     serviceOrders |-> IF "serviceOrders" \in down THEN <<>> ELSE tickets,
     partialSources |-> down \cap Lists]

(***************************************************************************)
(* Billing.                                                                *)
(***************************************************************************)
isOpenInvoice(invoice) == invoice.status = "A"
daysOverdue(invoice) == today - invoice.dueAt
Open == SelectSeq(getSnapshot.invoices, isOpenInvoice)
WithoutDue(invoice) == invoice.dueAt = Unknown
Overdue(invoice) == ~WithoutDue(invoice) /\ daysOverdue(invoice) >= 1
Upcoming(invoice) == ~WithoutDue(invoice) /\ daysOverdue(invoice) < 1
BUCKETS == {<<1, 5>>, <<6, 15>>, <<16, 30>>, <<31, 1000>>}
InBucket(bucket) == Count(LAMBDA i : Overdue(i) /\ daysOverdue(i) \in bucket[1]..bucket[2], Open)

InBuckets(anInvoices) ==
    LET Held(bucket) == Count(LAMBDA i : Overdue(i) /\ daysOverdue(i) \in bucket[1]..bucket[2], anInvoices)
    IN  MapThenSumSet(Held, BUCKETS)

summarizeBilling ==
    [open |-> Len(Open), overdue |-> Count(Overdue, Open), upcoming |-> Count(Upcoming, Open),
     withoutDue |-> Count(WithoutDue, Open), aging |-> InBuckets(Open)]

\* Of the whole base only the first page of what the ERP calls overdue is read; the
\* totals are the ERP's own.
OpenInBase == SelectSeq(invoices, isOpenInvoice)
listOverdue == SelectSeq(OpenInBase, LAMBDA i : ~Upcoming(i))
Scanned == SubSeq(listOverdue, 1, Min({ScanLimit, Len(listOverdue)}))
summarizeFullBase ==
    [open |-> Len(OpenInBase), overdue |-> Len(listOverdue), scanned |-> Len(Scanned),
     truncated |-> Len(Scanned) < Len(listOverdue),
     withoutDue |-> Count(WithoutDue, Scanned), aging |-> InBuckets(Scanned)]

(***************************************************************************)
(* The risk of losing the customer, by points.                             *)
(***************************************************************************)
TICKET_WINDOW_DAYS == 90
Recent == SelectSeq(getSnapshot.serviceOrders, LAMBDA t : t.openedAt # Unknown /\ t.openedAt >= today - TICKET_WINDOW_DAYS)
recurrence == LET n == Count(LAMBDA t : t.subject = "slow", Recent) IN IF n > 1 THEN n ELSE 0

\* Points by how many there are: the largest of the steps that are reached.
Steps(n, steps) == Max({0} \cup {step[2] : step \in {s \in steps : n >= s[1]}})
TicketPoints == Steps(Len(Recent), {<<1, 10>>, <<3, 25>>, <<5, 40>>})
RecurrencePoints == IF recurrence > 1 THEN 20 ELSE 0
OverduePoints == Steps(Count(Overdue, Open), {<<1, 15>>, <<2, 25>>, <<3, 35>>})
DelayPoints ==
    LET worst == Max({0} \cup {daysOverdue(i) : i \in {j \in ToSet(Open) : Overdue(j)}})
    IN  IF worst > 30 THEN 15 ELSE 0
Problems == {TicketPoints, RecurrencePoints, OverduePoints, DelayPoints} \ {0}
\* The customer came on day 1: half a year is 180 days.
NewPoints == IF Problems # {} /\ today - 1 < 180 THEN 10 ELSE 0

\* Mutant: many tickets, even undated ones, are taken for a customer who is looked after.
scoreChurnRiskAverage ==
    Min({100, (TicketPoints * 2) \div (1 + Len(tickets)) + RecurrencePoints + OverduePoints + DelayPoints + NewPoints})
scoreChurnRisk ==
    Min({100, TicketPoints + RecurrencePoints + OverduePoints + DelayPoints + NewPoints})
Level == IF scoreChurnRisk >= 70 THEN "crítico"
         ELSE IF scoreChurnRisk >= 45 THEN "alto"
         ELSE IF scoreChurnRisk >= 20 THEN "médio" ELSE "baixo"

(***************************************************************************)
(* The funnel, the goal of month 1 and the conversations.                  *)
(***************************************************************************)
Created(aStage, someLeads) == Count(LAMBDA l : l.stage = aStage, someLeads)
Won(period) == Created("ganho", period)
Closed(period) == Won(period) + Created("perdido", period)
PeriodLeads == SelectSeq(leads, LAMBDA l : l.createdAt >= today - 30)

funnelMetrics(all, period) ==
    [byStage |-> [s \in LEAD_STAGES |-> Created(s, all)], created |-> Len(period),
     open |-> Count(LAMBDA l : l.stage \in OPEN_STAGES, all),
     conversion |-> IF Closed(period) = 0 THEN Unknown ELSE <<Won(period), Closed(period)>>]
Funnel == funnelMetrics(leads, PeriodLeads)

\* The activations are read up to a limit, and the total is the ERP's: a sale that was
\* cancelled stays a sale, and one without a price is no sale at zero.
summarizeSales ==
    LET read == SubSeq(sales, 1, Min({ScanLimit, Len(sales)}))
        Priced(sale) == sale.value # Unknown
    IN  [activations |-> Len(sales), scanned |-> Len(read), truncated |-> Len(read) < Len(sales),
         recurring |-> Count(Priced, read), withoutValue |-> Len(read) - Count(Priced, read),
         alreadyCancelled |-> Count(LAMBDA sale : sale.status = "I", read)]
sold == summarizeSales.activations

DaysInMonth == 30
IsCurrent == today <= DaysInMonth
\* Math.round of what was sold over the share of the month that has gone.
goalProgress ==
    LET projected == IF IsCurrent THEN (2 * sold * DaysInMonth + today) \div (2 * today) ELSE Unknown
    IN  [projected |-> projected,
         behind |-> IF projected # Unknown THEN projected < goal ELSE sold < goal]

WithoutHuman(talk) == ~talk.handoff /\ talk.status = "resolved"
getSupportMetrics ==
    [conversations |-> Len(talks), resolved |-> Count(WithoutHuman, talks),
     handoffs |-> Count(LAMBDA t : t.handoff, talks),
     suggestionsOnly |-> Count(LAMBDA t : t.status = "suggested", talks),
     csatCount |-> Count(LAMBDA t : t.rating > 0, talks),
     csatSum |-> FoldLeft(LAMBDA sum, t : sum + t.rating, 0, talks)]

(***************************************************************************)
(* The cockpit: each card from its source, or null when it did not answer. *)
(***************************************************************************)
From(source, figure) == IF source \in down THEN Null ELSE figure
goalCard ==
    IF "db" \in down \/ goal = 0 THEN Null
    ELSE From("erp", Measured((100 * sold) \div goal))
\* Traces without a cost mean that nobody measures it.
aiCostMetric ==
    IF "langfuse" \in down \/ traces.observations = 0 \/ traces.cost = 0 THEN Null
    ELSE Measured(traces.cost)
OpenIncidents == SelectSeq(incidents, LAMBDA i : i.status # "resolved")
buildCockpitSnapshot ==
    [overdueInvoices |-> From("erp", Measured(summarizeFullBase.overdue)),
     openInvoices    |-> From("erp", Measured(summarizeFullBase.open)),
     conversations   |-> From("db", Measured(getSupportMetrics.conversations)),
     resolutionRate  |-> From("db", IF talks = <<>> THEN Null
                                    ELSE Measured((100 * getSupportMetrics.resolved) \div Len(talks))),
     csat            |-> From("db", IF getSupportMetrics.csatCount = 0 THEN Null
                                    ELSE Measured(getSupportMetrics.csatSum \div getSupportMetrics.csatCount)),
     openIncidents   |-> From("db", Measured(Len(OpenIncidents))),
     affectedCustomers |-> From("db", Measured(FoldLeft(LAMBDA sum, i : sum + i.affectedCustomers, 0, OpenIncidents))),
     goal            |-> goalCard,
     aiCost          |-> aiCostMetric,
     degraded        |-> down \cap {"erp", "db"}]

\* What the other screens answer: unavailable, or the figure.  Those that read the
\* customers one by one do not look at partialSources.
billingOverview(fullBase) ==
    From("erp", IF fullBase THEN Measured(summarizeFullBase.overdue) ELSE Measured(summarizeBilling.overdue))
salesOverview == From("erp", Measured(summarizeSales.activations))
goalsAnswer == From("db", IF goal = 0 \/ "erp" \in down THEN Null ELSE Measured(goalProgress))
\* Only who has a ticket is looked at, and who has no sign of risk is left out.
churnQueue ==
    From("erp", Measured(IF tickets = <<>> \/ scoreChurnRisk = 0 THEN <<>> ELSE <<<<scoreChurnRisk, Level>>>>))
leadsAnswer == From("db", Measured(Funnel.created))
metricsAnswer == From("db", Measured(getSupportMetrics.conversations))

(***************************************************************************)
(* Properties.                                                             *)
(***************************************************************************)
FiguresTypeOK ==
    /\ today \in Nat \ {0} /\ {goal, events} \subseteq Nat
    /\ down \subseteq Sources
    /\ leads \in Seq([stage : LEAD_STAGES, createdAt : Nat \ {0}]) /\ talks \in Seq(Outcomes)
    /\ scoreChurnRisk \in 0..100

\* Nothing is counted twice or lost: every open invoice is overdue, upcoming or without a
\* date, every overdue one is in one band, and a whole scan of the base finds what the
\* customers' own invoices say, where they could be listed (summarizeBilling, summarizeFullBase); every lead is in one
\* stage (funnelMetrics).
FiguresAddUp ==
    LET billing == summarizeBilling
        full == summarizeFullBase IN
    /\ billing.open = billing.overdue + billing.upcoming + billing.withoutDue
    /\ billing.aging = billing.overdue
    /\ full.aging + full.withoutDue = full.scanned
    /\ ~full.truncated /\ "invoices" \notin down => full.aging = billing.overdue /\ full.withoutDue = billing.withoutDue
    /\ MapThenSumSet(LAMBDA s : Funnel.byStage[s], LEAD_STAGES) = Len(leads)
    /\ Funnel.created <= Len(leads)

\* More of what precedes a cancellation on the same day never makes the customer safer,
\* and what is put right never makes it riskier: not another ticket, dated or not, not an
\* invoice entered late, not one that is paid (scoreChurnRisk).
EvidenceOnlyRaisesRisk ==
    [][/\ OpensTicket \/ IsIssued => scoreChurnRisk' >= scoreChurnRisk
       /\ IsSettled => scoreChurnRisk' <= scoreChurnRisk]_figureVars

\* The conversion does not fall because somebody new wrote (funnelMetrics), and who has
\* reached the goal is not told to be behind it, however early in the month and whatever
\* is cancelled later (goalProgress, summarizeSales).
EffortIsNotPunished ==
    [][/\ LeadArrives => Funnel'.conversion = Funnel.conversion
       /\ goal' > 0 /\ sold' >= goal' => ~goalProgress'.behind]_figureVars

\* The figures add up, and the two that people are judged by move as their facts do.
FiguresAreHonest == []FiguresAddUp /\ EvidenceOnlyRaisesRisk /\ EffortIsNotPunished

\* Not so in this code, and TLC finds it.  "Cadastro que nao respondeu e declarado, nao
\* silenciado": what a screen shows is what there is, or nothing.  A customer whose
\* invoices could not be listed counts in the position of the allowlist as one without
\* any, and is left out of the queue of risk.
UnansweredIsDeclared ==
    LET cockpit == buildCockpitSnapshot
        Shows(card, fact) == card.value \in {Unknown, fact}
        overdue == Count(Overdue, OpenInBase)
    IN  /\ Shows(cockpit.overdueInvoices, Len(listOverdue)) /\ Shows(cockpit.openInvoices, Len(OpenInBase))
        /\ Shows(cockpit.conversations, Len(talks)) /\ Shows(cockpit.openIncidents, Len(OpenIncidents))
        /\ Shows(metricsAnswer, Len(talks)) /\ Shows(leadsAnswer, Len(PeriodLeads))
        /\ Shows(salesOverview, Len(sales)) /\ Shows(goalsAnswer, goalProgress)
        /\ Shows(billingOverview(TRUE), Len(listOverdue)) /\ Shows(billingOverview(FALSE), overdue)
        /\ tickets # <<>> /\ overdue > 0 => churnQueue.value # <<>>

\* Not so in this code, and TLC finds it.  "Um contrato cancelado depois da gravacao
\* deixaria a meta batida para sempre": a goal that was missed once the cancelled
\* contracts are taken out is not shown as reached when its month is over.  What is
\* counted are the activations, whatever became of them.
CancelledLeavesGoal ==
    ~IsCurrent /\ goal > 0 /\ Count(LAMBDA sale : sale.status # "I", sales) < goal => goalProgress.behind

\* Not so in this code: the month is projected on its first day too, and TLC finds it.
\* "No dia 1º qualquer projeção seria multiplicar por trinta o que aconteceu em algumas
\* horas": on the first day there is none (sales-goals-service.ts:105).
NoProjectionOnFirstDay == today = 1 => goalProgress.projected = Unknown
===============================================================================
