--------------------------- MODULE DeliveryReceipts ---------------------------
(***************************************************************************)
(* The receipts of a text that went out: Meta reports sent, delivered,     *)
(* read or failed to the webhook, in any order and more than once, while   *)
(* the sender is still writing the row the receipts are kept in.           *)
(*                                                                         *)
(* DbDeliveryRepository.apply is one UPDATE: it finds the row by its wamid *)
(* and raises its status.  A receipt that changes nothing is acknowledged  *)
(* like any other.  Meta is outside src/.                                  *)
(***************************************************************************)
EXTENDS Naturals

CONSTANT Texts  \* the texts Meta accepted

Statuses == {"sent", "delivered", "read", "failed"}

STATUS_RANK == [s \in Statuses \cup {"none"} |->
                  CASE s = "none" -> 0 [] s = "sent" -> 1 [] s = "delivered" -> 2
                    [] s = "read" -> 3 [] s = "failed" -> 4]

VARIABLES saved,     \* saved[t]: the row of channel_messages: not yet, there, or never
          row,       \* row[t]: its delivery_status
          reported,  \* reported[t]: the receipts Meta has issued
          inbox,     \* inbox[t]: those it still has to deliver, or to deliver again
          early      \* auxiliary: receipts handled before the row was there

vars == <<saved, row, reported, inbox, early>>

TypeOK ==
    /\ saved \in [Texts -> {"pending", "there", "never"}]
    /\ row \in [Texts -> Statuses \cup {"none"}]
    /\ reported \in [Texts -> SUBSET Statuses]
    /\ inbox \in [Texts -> SUBSET Statuses]
    /\ early \in [Texts -> SUBSET Statuses]

Init ==
    /\ saved = [t \in Texts |-> "pending"]
    /\ row = [t \in Texts |-> "none"]
    /\ reported = [t \in Texts |-> {}]
    /\ inbox = [t \in Texts |-> {}]
    /\ early = [t \in Texts |-> {}]

\* saveSent, or saveMessages of the turn: the row is born without a status.
\* The insert may fail after Meta accepted the text ("enviada, mas nao gravada").
SaveRow(t) ==
    /\ saved[t] = "pending"
    /\ saved' = [saved EXCEPT ![t] = "there"]
    /\ UNCHANGED <<row, reported, inbox, early>>

\* Mutant: a third state nobody reads.
SaveFailsAsLost(t) ==
    /\ saved[t] = "pending"
    /\ saved' = [saved EXCEPT ![t] = "lost"]
    /\ UNCHANGED <<row, reported, inbox, early>>

SaveFails(t) ==
    /\ saved[t] = "pending"
    /\ saved' = [saved EXCEPT ![t] = "never"]
    /\ UNCHANGED <<row, reported, inbox, early>>

\* Meta's own order: a text that failed is not delivered, nor the reverse.
Issue(t, s) ==
    /\ s \notin reported[t]
    /\ "failed" \notin reported[t]
    /\ s = "failed" => reported[t] \cap {"delivered", "read"} = {}
    /\ reported' = [reported EXCEPT ![t] = @ \cup {s}]
    /\ inbox' = [inbox EXCEPT ![t] = @ \cup {s}]
    /\ UNCHANGED <<saved, row, early>>

\* Mutants: the last receipt wins; a receipt may not skip one.
ApplyLastWins(t, s) ==
    /\ s \in inbox[t]
    /\ inbox' \in {inbox, [inbox EXCEPT ![t] = @ \ {s}]}
    /\ row' = IF saved[t] = "there" THEN [row EXCEPT ![t] = s] ELSE row
    /\ early' = IF saved[t] = "there" THEN early ELSE [early EXCEPT ![t] = @ \cup {s}]
    /\ UNCHANGED <<saved, reported>>

ApplyOnlyNext(t, s) ==
    /\ s \in inbox[t]
    /\ inbox' \in {inbox, [inbox EXCEPT ![t] = @ \ {s}]}
    /\ row' = IF saved[t] = "there" /\ STATUS_RANK[s] = STATUS_RANK[row[t]] + 1
              THEN [row EXCEPT ![t] = s] ELSE row
    /\ early' = IF saved[t] = "there" THEN early ELSE [early EXCEPT ![t] = @ \cup {s}]
    /\ UNCHANGED <<saved, reported>>

\* apply: Meta may deliver the receipt again afterwards (another receipt or
\* message of the same POST failed, or its 200 was lost).
Apply(t, s) ==
    /\ s \in inbox[t]
    /\ inbox' \in {inbox, [inbox EXCEPT ![t] = @ \ {s}]}
    /\ row' = IF saved[t] = "there" /\ STATUS_RANK[row[t]] < STATUS_RANK[s]
              THEN [row EXCEPT ![t] = s] ELSE row
    /\ early' = IF saved[t] = "there" THEN early ELSE [early EXCEPT ![t] = @ \cup {s}]
    /\ UNCHANGED <<saved, reported>>

Next == \E t \in Texts :
            \/ SaveRow(t) \/ SaveFails(t)
            \/ \E s \in Statuses : Issue(t, s) \/ Apply(t, s)

Spec == Init /\ [][Next]_vars

-----------------------------------------------------------------------------
(* The properties. *)

\* However the receipts come in, the screen ends with the furthest one: of all
\* that Meta issued and delivered after the row was there, none is above what
\* the row shows.
NothingIsForgotten ==
    \A t \in Texts : \A s \in reported[t] \ (inbox[t] \cup early[t]) :
        STATUS_RANK[s] <= STATUS_RANK[row[t]]

\* A late receipt never takes back what an earlier one said ("Recibo que chega
\* fora de ordem nao rebaixa"), and no text shows what Meta did not report.
KeepsRank ==
    \A t \in Texts : STATUS_RANK[row[t]] <= STATUS_RANK[row'[t]]
                     /\ row'[t] \in reported[t] \cup {"none"}
NeverDowngrades == [][KeepsRank]_vars

\* A failure Meta reported, and will not report again, is on the screen once the
\* row is there ("O atendente precisa ver essa falha"). Not so in this code for one
\* that comes before the row: its UPDATE finds nothing, and TLC finds the loss.
FailureIsSeen ==
    \A t \in Texts :
        "failed" \in reported[t] \ inbox[t] /\ saved[t] = "there" => row[t] = "failed"
=============================================================================
