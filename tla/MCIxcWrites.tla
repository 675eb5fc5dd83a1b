----------------------------- MODULE MCIxcWrites ------------------------------
(* Requests for TLC: r1 and r2 repeat one key, r3 is a new click on the same *)
(* subject.  The renegotiation, whose four calls leave the most behind, runs *)
(* with overlap; the properties of the other operations are about requests   *)
(* that follow one another.                                                  *)
EXTENDS IxcWrites, TLC

CONSTANTS r1, r2, r3, k1, k2

Clicked == [r \in Requests |-> IF r = r3 THEN k2 ELSE k1]
OneSubject == [r \in Requests |-> CHOOSE s \in Subjects : TRUE]

Alone(operation) == [operation |-> operation, overlap |-> FALSE]
Together(operation) == [operation |-> operation, overlap |-> TRUE]
AllOperations ==
    {Together("negotiation.register"), Alone("invoice.reissue"),
     Alone("service_order.open"), Alone("customer.create")}
Renegotiations == {Together("negotiation.register")}
=============================================================================
