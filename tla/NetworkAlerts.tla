---------------------------- MODULE NetworkAlerts ----------------------------
(***************************************************************************)
(* Alerts of the network, as a Telegram group posts them: a message of an  *)
(* outage opens a row, the message of its end closes it. The match is a    *)
(* read, the row a write after it, and whatever fails is answered 200, so  *)
(* Telegram does not send it again.                                        *)
(*                                                                         *)
(* A message text has the key it is correlated by. One in a format nobody  *)
(* knows has no equipment, and without a description every such text has   *)
(* the same key, Unknown.                                                  *)
(***************************************************************************)
EXTENDS Naturals, FiniteSets

CONSTANTS AlertTexts,      \* texts of messages
          Outages,         \* keys of recognised messages
          UnknownKey,         \* "desconhecido::sem-descricao"
          Deliveries,      \* POSTs of the webhook
          KeyOfText,       \* correlationKey of each text
          EndTexts         \* texts with a hint of recovery

ASSUME AlertAssumption ==
    /\ UnknownKey \notin Outages
    /\ KeyOfText \in [AlertTexts -> Outages \union {UnknownKey}]
    /\ EndTexts \subseteq AlertTexts

VARIABLES alerts,          \* rows of network_alerts
          delivery,        \* where each POST is
          heard,           \* auxiliary: the last text of each key that was handled
          muddled          \* auxiliary: keys with two POSTs at once, or one that failed

alertVars == <<alerts, delivery, heard, muddled>>

AlertKeys == Outages \union {UnknownKey}
NewDelivery == [step |-> "idle", text |-> {}, match |-> {}]

AlertTypeOK ==
    /\ alerts \subseteq [id : Deliveries, key : AlertKeys, text : AlertTexts, open : BOOLEAN]
    /\ delivery \in [Deliveries -> [step : {"idle", "find", "close", "insert", "done", "lost"},
                                    text : SUBSET AlertTexts, match : SUBSET Deliveries]]
    /\ heard \in [AlertKeys -> {"nothing", "outage", "end"}]
    /\ muddled \subseteq AlertKeys

AlertInit ==
    /\ alerts = {}
    /\ delivery = [d \in Deliveries |-> NewDelivery]
    /\ heard = [k \in AlertKeys |-> "nothing"]
    /\ muddled = {}

-----------------------------------------------------------------------------
OpenAlerts(k) == {row \in alerts : row.key = k /\ row.open}
InHand(k) == {d \in Deliveries : /\ delivery[d].step \in {"find", "close", "insert"}
                                 /\ \E t \in delivery[d].text : KeyOfText[t] = k}
Handles(d, step, t) == delivery[d].step = step /\ delivery[d].text = {t}
Handled(d, t) ==
    /\ delivery' = [delivery EXCEPT ![d].step = "done"]
    /\ heard' = [heard EXCEPT ![KeyOfText[t]] = IF t \in EndTexts THEN "end" ELSE "outage"]

\* parseNetworkAlertMessage; a text may come again.
ReceiveAlert(d, t) ==
    /\ delivery[d].step = "idle"
    /\ delivery' = [delivery EXCEPT ![d] = [NewDelivery EXCEPT !.step = "find", !.text = {t}]]
    /\ muddled' = IF InHand(KeyOfText[t]) = {} THEN muddled ELSE muddled \union {KeyOfText[t]}
    /\ UNCHANGED <<alerts, heard>>

\* Any open row of the key; an outage that has one already is handled.
FindOpen(d, t) ==
    /\ Handles(d, "find", t)
    /\ LET open == OpenAlerts(KeyOfText[t]) IN
       \/ /\ open = {}
          /\ delivery' = [delivery EXCEPT ![d].step = "insert"] /\ UNCHANGED heard
       \/ /\ open # {} /\ t \in EndTexts
          /\ \E row \in open : delivery' = [delivery EXCEPT ![d].step = "close", ![d].match = {row.id}]
          /\ UNCHANGED heard
       \/ open # {} /\ t \notin EndTexts /\ Handled(d, t)
    /\ UNCHANGED <<alerts, muddled>>

\* Mutant: the row is looked for by the text of the end.
CloseAlertOfText(d, t) ==
    /\ Handles(d, "close", t)
    /\ alerts' = {[row EXCEPT !.open = row.open /\ row.text # t] : row \in alerts}
    /\ Handled(d, t)
    /\ UNCHANGED muddled

CloseAlert(d, t) ==
    /\ Handles(d, "close", t)
    /\ alerts' = {[row EXCEPT !.open = row.open /\ row.id \notin delivery[d].match] : row \in alerts}
    /\ Handled(d, t)
    /\ UNCHANGED muddled

\* An end without an outage becomes a row too, closed from the start.
InsertAlert(d, t) ==
    /\ Handles(d, "insert", t)
    /\ alerts' = alerts \union {[id |-> d, key |-> KeyOfText[t], text |-> t, open |-> t \notin EndTexts]}
    /\ Handled(d, t)
    /\ UNCHANGED muddled

AlertFails(d, t) ==
    /\ d \in InHand(KeyOfText[t]) /\ t \in delivery[d].text
    /\ delivery' = [delivery EXCEPT ![d].step = "lost"]
    /\ muddled' = muddled \union {KeyOfText[t]}
    /\ UNCHANGED <<alerts, heard>>

AlertNext ==
    \E d \in Deliveries, t \in AlertTexts :
        ReceiveAlert(d, t) \/ FindOpen(d, t) \/ CloseAlert(d, t) \/ InsertAlert(d, t) \/ AlertFails(d, t)

AlertSpec == AlertInit /\ [][AlertNext]_alertVars

-----------------------------------------------------------------------------
(* "Casam pela mesma correlationKey e viram uma linha": of a key whose POSTs
   came one after another and none failed, one row is open if the last message
   heard told of an outage, and none if it told of its end. *)
OpenIsLastHeard ==
    \A k \in AlertKeys \ muddled :
        Cardinality(OpenAlerts(k)) = IF heard[k] = "outage" THEN 1 ELSE 0

(* "Reenvio da mesma queda ainda aberta: não duplica": an outage is on one open
   row at most. Not so in this code: nothing ties the insert to the look-up, and
   two POSTs that both found nothing open both insert. *)
OutageIsOneRow == \A k \in Outages : Cardinality(OpenAlerts(k)) <= 1

(* "O que não é reconhecido fica registrado, nunca descartado": a message in an
   unknown format whose POST ended without an error is on a row. Not so in this
   code when there are two: they share one key, and TLC finds the second dropped. *)
UnknownIsKept ==
    \A d \in Deliveries : \A t \in delivery[d].text :
        KeyOfText[t] = UnknownKey /\ delivery[d].step = "done" => \E row \in alerts : row.text = t
=============================================================================
