------------------------------ MODULE MCChannel ------------------------------
(* Three requests of two attendants; two texts; two POSTs of one or two messages. *)
EXTENDS Channel, TLC

CONSTANTS r1, r2, r3, ana, bia, w1, w2, k1, k2, d1, d2

MCBy == r1 :> ana @@ r2 :> ana @@ r3 :> bia

\* The requests of one attendant, the texts and the messages differ in their names only.
Alike == Permutations({r1, r2}) \union Permutations({w1, w2}) \union Permutations({k1, k2})
=============================================================================
