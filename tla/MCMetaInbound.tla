---------------------------- MODULE MCMetaInbound -----------------------------
(***************************************************************************)
(* Small instances of MetaInbound: which deliveries there are, and of      *)
(* which messages.                                                         *)
(***************************************************************************)
EXTENDS MetaInbound, TLC

CONSTANTS d1, d2, d3, m1

\* One message, redelivered once.
Redelivered == d1 :> m1 @@ d2 :> m1

\* Messages of the same customer, one delivery each: a delivery stands for its
\* message, which makes the deliveries interchangeable.
OwnMessage == [d \in Attempts |-> d]
Deliveries == Permutations(Attempts)
=============================================================================
