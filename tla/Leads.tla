-------------------------------- MODULE Leads --------------------------------
(***************************************************************************)
(* Leads: captured from whoever writes on the channel and is no customer,  *)
(* or registered by hand, and moved along the funnel. A message finds out  *)
(* who is writing (the answer is kept on the ticket), then captures; both  *)
(* are reads and writes of their own. Each change of stage is an UPDATE    *)
(* and a row of the history.                                               *)
(*                                                                         *)
(* A contact has one ticket. The ERP knows its number from no customer,    *)
(* from one, or from several ("shared").                                   *)
(***************************************************************************)
EXTENDS Naturals, Sequences

CONSTANTS Contacts,
          LeadRequests,
          OpenStages, ClosedStages

ASSUME LeadAssumption ==
    /\ "novo" \in OpenStages /\ OpenStages \intersect ClosedStages = {}
    /\ "none" \notin OpenStages \union ClosedStages    \* what stands for no lead
    /\ Contacts \intersect LeadRequests = {}

VARIABLES knownAs,        \* what the ERP has for each number
          ticketSays,     \* support_tickets.identification
          lead,           \* rows of leads, a captured one by its contactKey
          history,        \* rows of lead_activities that change a stage, as inserted
          selling,        \* where each request is
          toldNobody,     \* auxiliary: contacts the ERP once answered "no single customer" about
          tangled         \* auxiliary: leads whose moves overlapped, or stopped half-way

leadVars == <<knownAs, ticketSays, lead, history, selling, toldNobody, tangled>>

LeadStages == OpenStages \union ClosedStages
LeadIds == Contacts \union LeadRequests
Identifications == {"pending", "identified", "not_found", "unavailable"}
LeadSteps == {"idle", "lookup", "save", "capture", "insert", "log", "update", "done"}
NewSale == [step |-> "idle", about |-> {}, says |-> "pending", from |-> "none", to |-> "none"]

LeadTypeOK ==
    /\ knownAs \in [Contacts -> {"nobody", "customer", "shared"}]
    /\ ticketSays \in [Contacts -> Identifications]
    /\ lead \in [LeadIds -> [stage : LeadStages \union {"none"}, closed : BOOLEAN]]
    /\ history \in Seq([lead : LeadIds, from : LeadStages \union {"none"}, to : LeadStages])
    /\ selling \in [LeadRequests -> [step : LeadSteps, about : SUBSET LeadIds, says : Identifications,
                                     from : LeadStages \union {"none"}, to : LeadStages \union {"none"}]]
    /\ toldNobody \subseteq Contacts /\ tangled \subseteq LeadIds

LeadInit ==
    /\ knownAs \in [Contacts -> {"nobody", "customer", "shared"}]
    /\ ticketSays = [c \in Contacts |-> "pending"]
    /\ lead = [l \in LeadIds |-> [stage |-> "none", closed |-> FALSE]]
    /\ history = <<>>
    /\ selling = [r \in LeadRequests |-> NewSale]
    /\ toldNobody = {} /\ tangled = {}

-----------------------------------------------------------------------------
Selling(r, step, l) == selling[r].step = step /\ l \in selling[r].about
Resumes(r, step) == selling' = [selling EXCEPT ![r].step = step]
MovesOf(l) == {q \in LeadRequests : l \in selling[q].about /\ selling[q].step \in {"update", "log"}}

\* findCustomerByPhone: exactly one customer, or none; a shared number is
\* answered as an unknown one. The ERP may not answer at all.
Lookups(c) == {IF knownAs[c] = "customer" THEN "identified" ELSE "not_found", "unavailable"}
HeardOf(c, says) == toldNobody' = IF says = "not_found" THEN toldNobody \union {c} ELSE toldNobody

\* The ticket as this message read it; an answered one is not asked again.
TriageReads(r, c) ==
    /\ selling[r].step = "idle"
    /\ selling' = [selling EXCEPT ![r] = [NewSale EXCEPT !.about = {c}, !.says = ticketSays[c],
          !.step = IF ticketSays[c] \in {"identified", "not_found"} THEN "capture" ELSE "lookup"]]
    /\ UNCHANGED <<knownAs, ticketSays, lead, history, toldNobody, tangled>>

LookUp(r, c, says) ==
    /\ Selling(r, "lookup", c) /\ says \in Lookups(c)
    /\ selling' = [selling EXCEPT ![r].step = "save", ![r].says = says]
    /\ HeardOf(c, says)
    /\ UNCHANGED <<knownAs, ticketSays, lead, history, tangled>>

\* The UPDATE is by id, and its failure is swallowed.
SaveIdentity(r, c) ==
    /\ Selling(r, "save", c)
    /\ \/ ticketSays' = [ticketSays EXCEPT ![c] = selling[r].says]
       \/ UNCHANGED ticketSays
    /\ Resumes(r, "capture")
    /\ UNCHANGED <<knownAs, lead, history, toldNobody, tangled>>

\* Without a triage the capture asks the ERP by itself.
CaptureAlone(r, c) ==
    /\ selling[r].step = "idle"
    /\ \E says \in Lookups(c) :
          /\ selling' = [selling EXCEPT ![r] = [NewSale EXCEPT !.about = {c}, !.says = says, !.step = "capture"]]
          /\ HeardOf(c, says)
    /\ UNCHANGED <<knownAs, ticketSays, lead, history, tangled>>

\* Mutant: an ERP that does not answer knows no customer.
CaptureInDoubt(r, c) ==
    /\ Selling(r, "capture", c)
    /\ Resumes(r, IF lead[c].stage = "none" /\ selling[r].says # "identified" THEN "insert" ELSE "done")
    /\ UNCHANGED <<knownAs, ticketSays, lead, history, toldNobody, tangled>>

\* captureLeadFromContact: a contact has one lead, and only who is known to be
\* no customer becomes one (not knowing throws in knownCustomer).
Capture(r, c) ==
    /\ Selling(r, "capture", c)
    /\ Resumes(r, IF lead[c].stage = "none" /\ selling[r].says = "not_found" THEN "insert" ELSE "done")
    /\ UNCHANGED <<knownAs, ticketSays, lead, history, toldNobody, tangled>>

\* The unique index on the contact refuses a second row.
CaptureInserts(r, c) ==
    /\ Selling(r, "insert", c)
    /\ IF lead[c].stage = "none"
       THEN /\ lead' = [lead EXCEPT ![c] = [stage |-> "novo", closed |-> FALSE]]
            /\ selling' = [selling EXCEPT ![r].step = "log", ![r].from = "none", ![r].to = "novo"]
       ELSE Resumes(r, "done") /\ UNCHANGED lead
    /\ UNCHANGED <<knownAs, ticketSays, history, toldNobody, tangled>>

\* parseLeadInput: a lead begins open.
CreateByHand(r, stage) ==
    /\ selling[r].step = "idle" /\ stage \in OpenStages
    /\ lead' = [lead EXCEPT ![r] = [stage |-> stage, closed |-> FALSE]]
    /\ selling' = [selling EXCEPT ![r] = [NewSale EXCEPT !.about = {r}, !.step = "log", !.to = stage]]
    /\ UNCHANGED <<knownAs, ticketSays, history, toldNobody, tangled>>

MoveReads(r, l, to) ==
    /\ selling[r].step = "idle" /\ lead[l].stage # "none"
    /\ selling' = [selling EXCEPT ![r] = [NewSale EXCEPT !.about = {l}, !.step = "update",
                                                         !.from = lead[l].stage, !.to = to]]
    /\ tangled' = IF MovesOf(l) = {} THEN tangled ELSE tangled \union {l}
    /\ UNCHANGED <<knownAs, ticketSays, lead, history, toldNobody>>

MoveUpdates(r, l) ==
    /\ Selling(r, "update", l)
    /\ lead' = [lead EXCEPT ![l] = [stage |-> selling[r].to, closed |-> selling[r].to \in ClosedStages]]
    /\ Resumes(r, "log")
    /\ UNCHANGED <<knownAs, ticketSays, history, toldNobody, tangled>>

LogMove(r, l) ==
    /\ Selling(r, "log", l)
    /\ history' = Append(history, [lead |-> l, from |-> selling[r].from, to |-> selling[r].to])
    /\ Resumes(r, "done")
    /\ UNCHANGED <<knownAs, ticketSays, lead, toldNobody, tangled>>

LeadCallFails(r) ==
    /\ selling[r].step \in {"lookup", "capture", "insert", "update", "log"}
    /\ Resumes(r, "done")
    /\ tangled' = IF selling[r].step = "log" THEN tangled \union selling[r].about ELSE tangled
    /\ UNCHANGED <<knownAs, ticketSays, lead, history, toldNobody>>

LeadNext ==
    \E r \in LeadRequests :
        \/ \E c \in Contacts :
              \/ TriageReads(r, c) \/ SaveIdentity(r, c) \/ CaptureAlone(r, c) \/ Capture(r, c)
              \/ CaptureInserts(r, c) \/ \E says \in Identifications : LookUp(r, c, says)
        \/ \E l \in LeadIds : MoveUpdates(r, l) \/ LogMove(r, l) \/ \E to \in LeadStages : MoveReads(r, l, to)
        \/ LeadCallFails(r) \/ \E stage \in OpenStages : CreateByHand(r, stage)

LeadSpec == LeadInit /\ [][LeadNext]_leadVars

-----------------------------------------------------------------------------
\* The first n rows of the history leave lead l in this stage.
LeaveIn(n, l, stage) ==
    \/ stage = "none" /\ \A i \in 1 .. n : history[i].lead # l
    \/ \E i \in 1 .. n : /\ history[i].lead = l /\ history[i].to = stage
                         /\ \A j \in (i+1) .. n : history[j].lead # l

(* Where no two moves of a lead overlapped and none stopped between its two
   writes, its history tells the way the lead came: it begins at its creation,
   every row leaves the stage the row before entered, and the last enters the
   stage the lead is in (or the row is about to be written). *)
HistoryIsAChain ==
    \A l \in LeadIds \ tangled :
        /\ \A i \in 1 .. Len(history) : history[i].lead = l => LeaveIn(i-1, l, history[i].from)
        /\ \/ LeaveIn(Len(history), l, lead[l].stage)
           \/ \E r \in LeadRequests : Selling(r, "log", l) /\ LeaveIn(Len(history), l, selling[r].from)

(* "Só vira lead quem não é cliente", whatever fails: a contact with a lead is
   one about whom the ERP answered, and did not answer with a customer. *)
LeadsWereAskedAbout == \A c \in Contacts : lead[c].stage # "none" => c \in toldNobody /\ knownAs[c] # "customer"

(* What the funnel shows of a lead: who it is and the way it came. *)
LeadsAreTrue == HistoryIsAChain /\ LeadsWereAskedAbout

(* "Na dúvida, não cria lead", an ambiguous number being named as a doubt. Not so in
   this code: a shared number is answered like an unknown one, and TLC finds the lead. *)
NoLeadInDoubt == \A c \in Contacts : knownAs[c] = "shared" => lead[c].stage = "none"
=============================================================================
