----------------------------- MODULE MCAuthEmail -----------------------------
(* A small instance of AuthEmail for TLC.                                    *)
EXTENDS AuthEmail, TLC

CONSTANTS a1, a2, i1, i2, p1, p2, h1, h2, h3, s1, s2, k1, k2

MCSymmetry ==
    Permutations({h1, h2}) \cup Permutations(Sessions) \cup Permutations(Slots)

Delivered(a) ==
    [purpose |-> "login", subject |-> a, target |-> None, principal |-> None,
     expiresAt |-> OtpTtl, attempts |-> 1, verifying |-> FALSE,
     consumed |-> FALSE, delivered |-> TRUE]

\* The first principal is registered, has been sent two codes and has mistyped
\* each once, so that the bounds are spent on what happens next; the other
\* identity may still be registered, with either principal.
MCInit ==
    /\ now = 0
    /\ identities = i1 :> [principal |-> p1, address |-> a1]
    /\ subjectIndex = a1 :> i1
    /\ challenges = [h \in {h1, h2} |-> Delivered(a1)]
    /\ rates = a1 :> [windowStart |-> 0, requests |-> 2]
    /\ sessions = EmptyMap /\ revokedSessions = {} /\ calls = EmptyMap
=============================================================================
