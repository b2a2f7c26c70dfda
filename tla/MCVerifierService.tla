-------------------------- MODULE MCVerifierService --------------------------
(***************************************************************************)
(* Small instances of VerifierService for TLC: `part` says whether a       *)
(* behaviour has many responses or many snapshots, and Within bounds it    *)
(* accordingly.                                                            *)
(***************************************************************************)
EXTENDS VerifierService, TLC

CONSTANTS s1, s2, r1, r2, r3, c1, c2, m1,
          Parts    \* the parts that are explored

VARIABLE part

mcVars == <<part, vars>>

MCSymmetry == Permutations(Callers)

\* Receipt ids are only ever compared with each other, so they may as well be given
\* out in order.
InOrder == DOMAIN receipts \in {{}, {r1}, {r1, r2}, {r1, r2, r3}}

Says(issuer, key, status) ==
    [issuer |-> issuer, key |-> key, status |-> status, schema |-> "active"]

ActiveKey  == [status |-> "active", from |-> 0, until |-> None]
RetiredKey == [status |-> "retired", from |-> 0, until |-> 1]

MCClean == {Says("active", ActiveKey, "valid")}

\* All is well; all is well for what was issued before the key retired; the
\* credential revoked.
MCContents ==
    MCClean \cup {Says("active", RetiredKey, "valid"),
                  Says("active", ActiveKey, "revoked")}

Presents(nonce, issuedAt, fault, exact) ==
    [nonce |-> nonce, issuedAt |-> issuedAt, fault |-> fault, exact |-> exact,
     expiresAt |-> 2]

MCSound == {Presents(s1, 0, "none", TRUE)}

\* Sound ones of before and after the key retired, one bound elsewhere,
\* ones that fail a check, and one that discloses something else.
MCPresentations ==
    {Presents(s1, 0, "none", TRUE), Presents(s1, 1, "none", TRUE),
     Presents(None, 0, "none", TRUE), Presents(s1, 0, "proof", TRUE),
     Presents(s1, 0, "none", FALSE)}

\* Two responses at a time, three in all, for two sessions; the registry has at
\* most one snapshot, and the clock outlives sessions and snapshot.
RaceBounds ==
    /\ Cardinality(published) <= 1
    /\ \A x \in published : /\ x.sequence = 1 /\ x.content \in MCClean
                            /\ x.expiresAt = x.issuedAt + 1
    /\ \A c \in DOMAIN responses : responses[c].presentation \in MCSound \cup {None}

\* One response, any presentation, to a session made at the start, against a registry
\* that publishes two snapshots while the cache is refreshed, primed and invalidated.
VerdictBounds ==
    /\ DOMAIN sessions \subseteq {s1}
    /\ \A s \in DOMAIN sessions : sessions[s].expiresAt = SessionTtl
    /\ Cardinality(DOMAIN receipts) + Cardinality(DOMAIN responses) <= 1

Within ==
    CASE part = "race" -> RaceBounds
      [] part = "verdict" -> VerdictBounds

MCInit == part \in Parts /\ Init
MCNext == UNCHANGED part /\ Next /\ InOrder' /\ Within'
MCSpec == MCInit /\ [][MCNext]_mcVars
=============================================================================
