--------------------------- MODULE VerifierService ---------------------------
(***************************************************************************)
(* CredentialVerifierService (packages/verifier-service/src/index.ts) with *)
(* its session store, the direct_post handling of packages/openid4vc and   *)
(* the trust registry it asks.  One policy; the ids, state and nonce of a  *)
(* session are all the session's name.                                     *)
(*                                                                         *)
(* A response consumes its session before the first await.  From there it  *)
(* is parked in `responses` while the presentation resolver, the format    *)
(* verifier and the registry work, and other responses run.                *)
(***************************************************************************)
EXTENDS TrustRegistry

CONSTANTS
    Sessions,       \* session ids
    Receipts,       \* receipt ids; also bounds the number of responses
    Presentations,  \* presentations a holder may send, see Presentation
    SessionTtl      \* options.sessionTtlSeconds, in milliseconds

\* What the checks tell apart: the nonce it is bound to, its dates, which
\* group of checks it fails and whether it discloses what was asked for.
Presentation ==
    [nonce : Sessions \cup {None}, issuedAt : Nat, expiresAt : Nat,
     fault : {"none", "format", "proof"}, exact : BOOLEAN]

ASSUME VerifierAssumption ==
    /\ Presentations \subseteq Presentation
    /\ SessionTtl \in Nat \ {0}
    /\ None \notin Presentation /\ None \notin Answer /\ None \notin Receipts

VARIABLES sessions, receipts, responses

vars == <<registryVars, sessions, receipts, responses>>
-----------------------------------------------------------------------------
Session == [status : {"requested", "consumed"}, expiresAt : Nat,
            receipt : Receipts \cup {None}]

\* presentation and answer are history fields: what was evaluated, if the
\* response consumed its session, and the registry's answer, if it was asked.
Receipt == [session : Sessions, result : Decisions,
            presentation : Presentation \cup {None},
            answer : Answer \cup {None}]

Response == [pc : {"resolve", "formats", "registry", "finish"},
             session : Sessions, result : Decisions,
             presentation : Presentation \cup {None},
             answer : Answer \cup {None}]

Init ==
    /\ RegistryInit
    /\ sessions = EmptyMap /\ receipts = EmptyMap /\ responses = EmptyMap
-----------------------------------------------------------------------------
CreateSession(s) ==
    /\ s \notin DOMAIN sessions
    /\ sessions' = Put(sessions, s,
          [status |-> "requested", expiresAt |-> now + SessionTtl,
           receipt |-> None])
    /\ UNCHANGED <<registryVars, receipts, responses>>

\* Mutant of Consumable: a session may be answered as long as it is live.
ConsumableWhileLive(s) == now < sessions[s].expiresAt

\* store.consume succeeds.
Consumable(s) ==
    sessions[s].status = "requested" /\ now < sessions[s].expiresAt

\* There is an id left for the receipt of one more response.
Capacity ==
    Cardinality(DOMAIN receipts) + Cardinality(DOMAIN responses)
        < Cardinality(Receipts)

ParkResponse(c, s, pc, p) ==
    responses' = Put(responses, c,
        [pc |-> pc, session |-> s, result |-> "rejected",
         presentation |-> p, answer |-> None])

\* Mutant of Complete: the last receipt of a session shows on it.
CompleteLast(rid, s, receipt) ==
    /\ receipts' = Put(receipts, rid, receipt)
    /\ sessions' = IF sessions[s].status = "consumed"
                   THEN [sessions EXCEPT ![s].receipt = rid]
                   ELSE sessions

\* store.complete: every receipt is kept, the first one of a consumed
\* session also on the session.
Complete(rid, s, receipt) ==
    /\ receipts' = Put(receipts, rid, receipt)
    /\ sessions' = IF sessions[s].status = "consumed" /\ sessions[s].receipt = None
                   THEN [sessions EXCEPT ![s].receipt = rid]
                   ELSE sessions

\* verifyResponse on an expired session: SESSION_EXPIRED, without an await.
RespondExpired(s, rid) ==
    /\ sessions[s].expiresAt <= now
    /\ Capacity /\ rid \notin DOMAIN receipts
    /\ Complete(rid, s, [session |-> s, result |-> "rejected",
                         presentation |-> None, answer |-> None])
    /\ UNCHANGED <<registryVars, responses>>

\* A malformed body, a foreign state or a consumed session (a replay): the
\* rejection is thrown to verifyResponse, which finishes a microtask later.
RespondRefused(c, s, wellFormed) ==
    /\ c \notin DOMAIN responses /\ Capacity
    /\ now < sessions[s].expiresAt
    /\ ~(wellFormed /\ Consumable(s))
    /\ ParkResponse(c, s, "finish", None)
    /\ UNCHANGED <<registryVars, sessions, receipts>>

\* The session is consumed, then the resolver parses the presentation.
Respond(c, s, p) ==
    /\ c \notin DOMAIN responses /\ Capacity
    /\ Consumable(s)
    /\ sessions' = [sessions EXCEPT ![s].status = "consumed"]
    /\ ParkResponse(c, s, "resolve", p)
    /\ UNCHANGED <<registryVars, receipts>>

\* A response that is not verified by the registry ends in a rejection.
Reject(c) == responses' = [responses EXCEPT ![c].pc = "finish"]

\* External.  resolve(vpToken, {audience, nonce}) checks the binding.
ResolverAccepts(r) == r.presentation.nonce = r.session

\* evaluate compares the format before it calls the format verifier.
Resolved(c) ==
    LET r == responses[c]
    IN  /\ r.pc = "resolve"
        /\ ResolverAccepts(r) /\ r.presentation.fault # "format"
        /\ responses' = [responses EXCEPT ![c].pc = "formats"]
        /\ UNCHANGED <<registryVars, sessions, receipts>>

\* The resolver or the format verifier throws, or a check fails.
Rejected(c) ==
    /\ responses[c].pc \in {"resolve", "formats"}
    /\ Reject(c)
    /\ UNCHANGED <<registryVars, sessions, receipts>>

\* Mutant of LocalChecks: a credential is good in the second it expires.
LocalChecksLate(p) ==
    p.fault = "none" /\ p.issuedAt <= Clock /\ Clock <= p.expiresAt

\* Proof, issuer, schema, type and holder binding, then the dates.
LocalChecks(p) ==
    p.fault = "none" /\ p.issuedAt <= Clock /\ Clock < p.expiresAt

\* The format verifier answered; the registry is asked in the same step.
Evaluate(c) ==
    LET r == responses[c]
    IN  /\ r.pc = "formats"
        /\ LocalChecks(r.presentation)
        /\ responses' = [responses EXCEPT ![c].pc = "registry"]
        /\ AskCredential(c, r.presentation.issuedAt)
        /\ UNCHANGED <<sessions, receipts>>

\* The registry's decision is the result, unless the disclosures differ from
\* the requested ones.
RegistryAnswered(c) ==
    LET r == responses[c]
    IN  /\ r.pc = "registry" /\ c \in DOMAIN answers
        /\ responses' = [responses EXCEPT ![c] =
              [r EXCEPT !.pc = "finish", !.answer = answers[c],
                        !.result = IF r.presentation.exact
                                   THEN answers[c].decision ELSE "rejected"]]
        /\ answers' = Drop(answers, c)
        /\ UNCHANGED <<now, published, entry, lookups, sessions, receipts>>

\* finish: the receipt is written and the call returns it.
Finish(c, rid) ==
    LET r == responses[c]
    IN  /\ r.pc = "finish" /\ rid \notin DOMAIN receipts
        /\ Complete(rid, r.session,
              [session |-> r.session, result |-> r.result,
               presentation |-> r.presentation, answer |-> r.answer])
        /\ responses' = Drop(responses, c)
        /\ UNCHANGED registryVars

VerifierNext ==
    \/ \E s \in Sessions : CreateSession(s)
    \/ \E s \in DOMAIN sessions, rid \in Receipts : RespondExpired(s, rid)
    \/ \E c \in Callers, s \in DOMAIN sessions :
          \/ \E wellFormed \in BOOLEAN : RespondRefused(c, s, wellFormed)
          \/ \E p \in Presentations : Respond(c, s, p)
    \/ \E c \in DOMAIN responses :
          \/ Resolved(c) \/ Rejected(c) \/ Evaluate(c) \/ RegistryAnswered(c)
          \/ \E rid \in Receipts : Finish(c, rid)

Next ==
    \/ VerifierNext
    \/ RegistryNext /\ UNCHANGED <<sessions, receipts, responses>>

Spec == Init /\ [][Next]_vars
-----------------------------------------------------------------------------
TypeOK ==
    /\ RegistryTypeOK
    /\ IsMap(sessions, Sessions, Session)
    /\ IsMap(receipts, Receipts, Receipt)
    /\ IsMap(responses, Callers, Response)

\* The responses and receipts of a session whose presentation was looked at.
Evaluations(s) ==
    {<<"response", c>> : c \in {x \in DOMAIN responses :
        responses[x].session = s /\ responses[x].presentation # None}}
    \cup
    {<<"receipt", rid>> : rid \in {x \in DOMAIN receipts :
        receipts[x].session = s /\ receipts[x].presentation # None}}

\* However many responses race for a session, at most one presentation is
\* ever resolved and evaluated for it: verifyResponse consumes the state
\* before its first await.
OneEvaluationPerSession ==
    \A s \in Sessions : Cardinality(Evaluations(s)) <= 1

\* A content that leaves nothing to object to for a credential of that date.
Clean(content, issuedAt) ==
    /\ content.issuer = "active" /\ content.schema = "active"
    /\ content.key.status \in {"active", "retired"}
    /\ content.key.from <= issuedAt
    /\ content.key.until = None \/ issuedAt < content.key.until
    /\ content.status = "valid"

\* A verified receipt stands for a presentation bound to this very session,
\* sound and exact, of a credential in force when the registry was asked; and
\* for one signed snapshot, in its freshness window at that moment, that
\* clears the issuer, schema, key and status.  Later snapshots, refreshes,
\* invalidations and other responses may come in between.
VerifiedIsJustified ==
    \A rid \in DOMAIN receipts :
        LET r == receipts[rid] p == r.presentation a == r.answer
        IN  r.result = "verified" =>
                /\ p # None /\ a # None
                /\ p.nonce = r.session /\ p.fault = "none" /\ p.exact
                /\ p.issuedAt <= a.at /\ a.at < p.expiresAt
                /\ a.snapshot \in published
                /\ a.snapshot.issuedAt <= a.at /\ a.at < a.snapshot.expiresAt
                /\ Clean(a.snapshot.content, p.issuedAt)

\* A verdict never rests on a snapshot older than the one the cache held when
\* the question was put, however the source lags and whatever other lookups
\* store meanwhile, unless the scope was invalidated in between.
NoRollback ==
    \A rid \in DOMAIN receipts :
        LET a == receipts[rid].answer
        IN  (a # None /\ a.snapshot # None /\ a.stored # None) =>
                \/ a.snapshot = a.stored
                \/ a.snapshot.sequence > a.stored.sequence

\* The receipt a session shows is one of its own, was written once the session
\* was consumed, and neither it nor any other receipt changes afterwards,
\* whichever late responses finish.
ReceiptsStand ==
    [][/\ \A rid \in DOMAIN receipts :
             rid \in DOMAIN receipts' /\ receipts'[rid] = receipts[rid]
       /\ \A s \in DOMAIN sessions :
             sessions[s].receipt # None =>
                /\ sessions'[s].receipt = sessions[s].receipt
                /\ receipts[sessions[s].receipt].session = s
      ]_vars

\* docs/identity-platform/sdk-reference.md:112 tells a client whose submission
\* was ambiguous to query the session: it shows the verdict on the presentation
\* that consumed it.  A response refused meanwhile gets there first.
SessionShowsVerdict ==
    \A rid \in DOMAIN receipts :
        receipts[rid].presentation # None =>
            sessions[receipts[rid].session].receipt = rid
=============================================================================
