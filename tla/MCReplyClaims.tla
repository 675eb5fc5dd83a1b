---------------------------- MODULE MCReplyClaims -----------------------------
(***************************************************************************)
(* A small instance of ReplyClaims: three attempts, which is what a double *)
(* click or a redelivered webhook is.  The keys do not interact.            *)
(***************************************************************************)
EXTENDS ReplyClaims

CONSTANTS a1, a2, a3, k1

MCAttempts == {a1, a2, a3}
MCKeys == {k1}

\* Three attempts of one key: the interleavings that matter.
ThreeOfOneKey == [a \in MCAttempts |-> k1]
=============================================================================
