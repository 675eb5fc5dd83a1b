----------------------------- MODULE OutboundText -----------------------------
(***************************************************************************)
(* What the two senders of LZR HUB promise about a text that goes out to a *)
(* real customer, without saying how.  Of all the attempts made for one    *)
(* idempotency key (one click of an attendant, or one wamid of the         *)
(* customer) only one reaches the customer, but for those whose sender     *)
(* gave them up for lost; whoever is told "it was sent" is told of a text  *)
(* the customer has, and nobody gives up what it was told was sent.        *)
(*                                                                         *)
(* The promise is the head comment of                                      *)
(* src/lib/platform/meta-auto-reply-service.ts ("cada reentrega nao pode   *)
(* virar outra mensagem") and the comment of ReplyInput.idempotencyKey in  *)
(* src/lib/platform/attendant-reply-service.ts, less what the code does    *)
(* not keep of it: the texts disowned.                                     *)
(***************************************************************************)
CONSTANTS Attempts,   \* calls of a sender
          Keys,       \* idempotency keys
          KeyOf,      \* the key an attempt was made for
          NoAttempt   \* "no text yet"

VARIABLES texts,     \* texts[k]: the attempts whose text the customer received
          told,      \* told[a]: the text attempt a was told went out
          disowned   \* the attempts that gave their text up for lost

OTTypeOK ==
    /\ texts \in [Keys -> SUBSET Attempts]
    /\ told \in [Attempts -> Attempts \cup {NoAttempt}]
    /\ disowned \subseteq Attempts

OTInit ==
    /\ texts = [k \in Keys |-> {}]
    /\ told = [a \in Attempts |-> NoAttempt]
    /\ disowned = {}

\* The customer receives the text of a: the only one of its key, but for those
\* given up.
Reach(a) ==
    /\ a \notin texts[KeyOf[a]]
    /\ a \in disowned \/ texts[KeyOf[a]] \subseteq disowned
    /\ texts' = [texts EXCEPT ![KeyOf[a]] = @ \cup {a}]
    /\ UNCHANGED <<told, disowned>>

\* Attempt a takes its text for lost: it does not answer "sent" any more.
Disown(a) ==
    /\ a \notin disowned
    /\ told[a] = NoAttempt
    /\ disowned' = disowned \cup {a}
    /\ UNCHANGED <<texts, told>>

\* Attempt a answers "sent", naming a text the customer has.
Tell(a) ==
    /\ a \notin disowned
    /\ told[a] = NoAttempt
    /\ \E b \in texts[KeyOf[a]] : told' = [told EXCEPT ![a] = b]
    /\ UNCHANGED <<texts, disowned>>

OTNext == \E a \in Attempts : Reach(a) \/ Disown(a) \/ Tell(a)

OTSpec == OTInit /\ [][OTNext]_<<texts, told, disowned>>
=============================================================================
