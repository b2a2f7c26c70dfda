--------------------------- MODULE MCIssuerService ---------------------------
(***************************************************************************)
(* Small instances of IssuerService for TLC.  What a question needs many   *)
(* of, another can do with one of: `part` says which of them a behaviour   *)
(* is about, and Within bounds it accordingly.                             *)
(***************************************************************************)
EXTENDS IssuerService, TLC

CONSTANTS t1, i1, p1, r1, r2, s1, s2, c1, c2, k1, k2, x1, x2, x3, x4, id1, id2,
          Parts    \* the parts that are explored

VARIABLE part

mcVars == <<part, vars>>

\* Secrets and slots are only ever compared with their kind.
MCSymmetry == Permutations({x1, x2, x3, x4}) \cup Permutations({k1, k2})

\* The issuer stays authorised, and there is one reviewer.
Settings ==
    /\ \A i \in DOMAIN issuers : issuers[i] = Templates
    /\ \A p \in DOMAIN policies : policies[p].reviewers \subseteq {r1}

Terms(expiries, ttl) ==
    /\ \A s \in DOMAIN sessions : sessions[s].expiresAt \in expiries
    /\ \A k \in DOMAIN offerCalls : offerCalls[k].ttl = ttl

\* Two offers and two issuances of one session at a time, both flows, time passing
\* between any two steps.
IssueBounds ==
    Settings /\ DOMAIN sessions \subseteq {s1} /\ Terms({3}, 3) /\ statusCalls = EmptyMap

\* Two reviewers, profile and policy replaced at any time, one issuance.
ReviewBounds ==
    /\ DOMAIN sessions \subseteq {s1} /\ Terms({1, 2}, 1) /\ now <= 2
    /\ \A k \in DOMAIN offerCalls : offerCalls[k].client # c2
    /\ Cardinality(DOMAIN grants \cup DOMAIN accessTokens) <= 3
    /\ Cardinality(DOMAIN issueCalls) <= 1 /\ DOMAIN credentials \subseteq {id1}
    /\ statusCalls = EmptyMap

\* Two status changes of one credential, a reissue, lost answers.
StatusBounds ==
    /\ Settings /\ Terms({1}, 1) /\ now = 0
    /\ \A k \in DOMAIN offerCalls : offerCalls[k].client # c2
    /\ Cardinality(DOMAIN offerCalls) <= 1 /\ Cardinality(DOMAIN issueCalls) <= 1

Within ==
    CASE part = "issue" -> IssueBounds
      [] part = "review" -> ReviewBounds
      [] part = "status" -> StatusBounds

MCInit == part \in Parts /\ Init
MCNext == UNCHANGED part /\ Next /\ Within'
MCSpec == MCInit /\ [][MCNext]_mcVars
=============================================================================
