------------------------------ MODULE Promises ------------------------------
(***************************************************************************)
(* Promises of payment: registered by a person, judged by reviews against  *)
(* what the ERP says of the invoice. A review lists the pending promises,  *)
(* asks the ERP once for each customer, decides, and writes one row at a   *)
(* time; reviews may overlap.                                              *)
(*                                                                         *)
(* A promise of Promised is a row that may come to be, over one invoice of *)
(* a customer of its own; asking for the customer is asking for it.        *)
(***************************************************************************)
EXTENDS Naturals

CONSTANTS Promised,   \* promises
          Reviews,    \* POSTs that review
          LastDay     \* bound on the calendar

ASSUME PromiseAssumption == LastDay \in Nat

VARIABLES calendar,
          promise,     \* the row: state and promisedFor
          settled,     \* invoices the ERP lists as not open
          creating,    \* the day of a POST between its checks and the insert, if any
          review,
          sawOpen,     \* auxiliary: a review found the invoice open after the day
          unread,      \* auxiliary: a review had no answer for the customer
          contested        \* auxiliary: written by a review while another one had it on its list

promiseVars == <<calendar, promise, settled, creating, review, sawOpen, unread, contested>>

Days == 0 .. LastDay
States == {"none", "pending", "fulfilled", "broken"}
NewReview == [step |-> "idle", listed |-> {}, asked |-> {}, open |-> {}, paid |-> {},
              fulfilled |-> {}, broken |-> {}]

PromiseTypeOK ==
    /\ calendar \in Days
    /\ promise \in [Promised -> [state : States, until : Days]]
    /\ settled \subseteq Promised
    /\ creating \in [Promised -> SUBSET Days]
    /\ review \in [Reviews -> [step : {"idle", "ask", "write", "done"},
                               listed : SUBSET Promised, asked : SUBSET Promised,
                               open : SUBSET Promised, paid : SUBSET Promised,
                               fulfilled : SUBSET Promised, broken : SUBSET Promised]]
    /\ sawOpen \subseteq Promised /\ unread \subseteq Promised /\ contested \subseteq Promised

PromiseInit ==
    /\ calendar = 0
    /\ promise = [p \in Promised |-> [state |-> "none", until |-> 0]]
    /\ settled = {}
    /\ creating = [p \in Promised |-> {}]
    /\ review = [v \in Reviews |-> NewReview]
    /\ sawOpen = {} /\ unread = {} /\ contested = {}

-----------------------------------------------------------------------------
DayPasses ==
    /\ calendar < LastDay
    /\ calendar' = calendar + 1
    /\ UNCHANGED <<promise, settled, creating, review, sawOpen, unread, contested>>

\* The customer pays, or the invoice is cancelled.
Settle(p) ==
    /\ settled' = settled \union {p}
    /\ settled' # settled
    /\ UNCHANGED <<calendar, promise, creating, review, sawOpen, unread, contested>>

\* The day is neither past nor (as all days of the model) too far ahead, and
\* the ERP lists the invoice, open or not.
PromiseChecks(p, day) ==
    /\ promise[p].state = "none" /\ creating[p] = {}
    /\ day >= calendar
    /\ creating' = [creating EXCEPT ![p] = {day}]
    /\ UNCHANGED <<calendar, promise, settled, review, sawOpen, unread, contested>>

PromiseInserts(p, day) ==
    /\ day \in creating[p]
    /\ promise' = [promise EXCEPT ![p] = [state |-> "pending", until |-> day]]
    /\ creating' = [creating EXCEPT ![p] = {}]
    /\ UNCHANGED <<calendar, settled, review, sawOpen, unread, contested>>

\* Mutant: the list of every promise, judged before or not.
ListAll(v) ==
    /\ review[v].step = "idle"
    /\ LET listed == {p \in Promised : promise[p].state # "none"} IN
       review' = [review EXCEPT ![v] = [NewReview EXCEPT !.step = "ask", !.listed = listed,
                                                         !.asked = listed]]
    /\ UNCHANGED <<calendar, promise, settled, creating, sawOpen, unread, contested>>

ListPending(v) ==
    /\ review[v].step = "idle"
    /\ LET pending == {p \in Promised : promise[p].state = "pending"} IN
       review' = [review EXCEPT ![v] = [NewReview EXCEPT !.step = "ask", !.listed = pending,
                                                         !.asked = pending]]
    /\ UNCHANGED <<calendar, promise, settled, creating, sawOpen, unread, contested>>

\* An answer lists the invoice with its status. No runtime, a failing snapshot
\* and a customer without invoices all give an empty list.
AskErp(v, p) ==
    /\ review[v].step = "ask" /\ p \in review[v].asked
    /\ \/ /\ review' = IF p \in settled
                       THEN [review EXCEPT ![v].asked = @ \ {p}, ![v].paid = @ \union {p}]
                       ELSE [review EXCEPT ![v].asked = @ \ {p}, ![v].open = @ \union {p}]
          /\ UNCHANGED unread
       \/ /\ review' = [review EXCEPT ![v].asked = @ \ {p}]
          /\ unread' = unread \union {p}
    /\ UNCHANGED <<calendar, promise, settled, creating, sawOpen, contested>>

\* evaluatePendingPromise: an invoice without a status counts as paid.
Verdict(v, p) ==
    IF p \notin review[v].open THEN "fulfilled"
    ELSE IF promise[p].until < calendar THEN "broken" ELSE "pending"

Judge(v) ==
    /\ review[v].step = "ask" /\ review[v].asked = {}
    /\ LET Those(verdict) == {p \in review[v].listed : Verdict(v, p) = verdict} IN
       /\ review' = [review EXCEPT ![v].step = "write",
                                   ![v].fulfilled = Those("fulfilled"),
                                   ![v].broken = Those("broken")]
       /\ sawOpen' = sawOpen \union Those("broken")
    /\ UNCHANGED <<calendar, promise, settled, creating, unread, contested>>

\* The UPDATE is by id alone: what the row says by now is not looked at.
Write(v, p, verdict) ==
    /\ promise' = [promise EXCEPT ![p].state = verdict]
    /\ contested' = IF \E w \in Reviews \ {v} : p \in review[w].listed
                    THEN contested \union {p} ELSE contested
    /\ UNCHANGED <<calendar, settled, creating, sawOpen, unread>>

WriteFulfilled(v, p) ==
    /\ review[v].step = "write" /\ p \in review[v].fulfilled
    /\ review' = [review EXCEPT ![v].fulfilled = @ \ {p}]
    /\ Write(v, p, "fulfilled")

WriteBroken(v, p) ==
    /\ review[v].step = "write" /\ review[v].fulfilled = {} /\ p \in review[v].broken
    /\ review' = [review EXCEPT ![v].broken = @ \ {p}]
    /\ Write(v, p, "broken")

ReviewEnds(v) ==
    /\ review[v].step = "write" /\ review[v].fulfilled = {} /\ review[v].broken = {}
    /\ review' = [review EXCEPT ![v] = [NewReview EXCEPT !.step = "done"]]
    /\ UNCHANGED <<calendar, promise, settled, creating, sawOpen, unread, contested>>

\* A failing read or write, or a crash, leaves the rest of the rows as they are.
ReviewDies(v) ==
    /\ review[v].step \in {"ask", "write"}
    /\ review' = [review EXCEPT ![v] = [NewReview EXCEPT !.step = "done"]]
    /\ UNCHANGED <<calendar, promise, settled, creating, sawOpen, unread, contested>>

PromiseNext ==
    \/ DayPasses
    \/ \E p \in Promised : Settle(p) \/ \E d \in Days : PromiseChecks(p, d) \/ PromiseInserts(p, d)
    \/ \E v \in Reviews :
          \/ ListPending(v) \/ Judge(v) \/ ReviewEnds(v) \/ ReviewDies(v)
          \/ \E p \in Promised : AskErp(v, p) \/ WriteFulfilled(v, p) \/ WriteBroken(v, p)

PromiseSpec == PromiseInit /\ [][PromiseNext]_promiseVars

-----------------------------------------------------------------------------
(* A promise is called broken only if a review found its invoice open after
   the day promised, and kept only if the ERP settled the invoice or a review
   had no answer from it. *)
VerdictsHaveReasons ==
    \A p \in Promised :
        /\ promise[p].state = "broken" => p \in sawOpen /\ promise[p].until < calendar
        /\ promise[p].state = "fulfilled" => p \in settled \union unread

(* "Uma vez cumprida ou quebrada, o histórico não muda de novo": a verdict
   changes only where two reviews had listed the promise before either wrote. *)
VerdictsStand ==
    [][\A p \in Promised :
          promise[p].state \in {"fulfilled", "broken"} =>
              promise'[p] = promise[p] \/ p \in contested']_promiseVars

(* What the two say together of a verdict: it has its reason, and it stands. *)
VerdictsAreSound == []VerdictsHaveReasons /\ VerdictsStand

(* "Nunca marca cumprida ou quebrada sem checar o IXC": a kept promise is one
   whose invoice the ERP does not list as open any more. Not so in this code: an
   answer that is missing has no open invoice either, and the promise is kept. *)
KeptIsPaid == \A p \in Promised : promise[p].state = "fulfilled" => p \in settled
=============================================================================
