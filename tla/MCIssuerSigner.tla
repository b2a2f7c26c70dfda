--------------------------- MODULE MCIssuerSigner ---------------------------
(* Small instances of IssuerSigner for TLC.                                 *)
EXTENDS IssuerSigner, TLC

CONSTANTS k1, k2, m1, q1, q2, c1, c2

MCSymmetry == Permutations(Requests) \cup Permutations(Slots)

\* One active key and standbys to rotate to.
MCInit ==
    /\ Init
    /\ keys = [k \in Keys |-> IF k = k1 THEN "active" ELSE "standby"]
=============================================================================
