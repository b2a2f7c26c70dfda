---------------------------- MODULE SignerPolicy ----------------------------
(***************************************************************************)
(* The policy of an operational signer (packages/signer-policy/src/        *)
(* index.ts): InMemoryPolicyStore and SignerPolicyEvaluator.authorize.     *)
(*                                                                         *)
(* `auths` holds the authorisations in progress.  Each store call and the  *)
(* step-up verification are awaits; policies and sessions are replaced or  *)
(* revoked, and other requests reserve, meanwhile.  A denial is a denial:  *)
(* the reason codes are not told apart.                                    *)
(***************************************************************************)
EXTENDS CallSlots

CONSTANTS
    Sessions, Policies,   \* identifiers
    SessionValues,        \* the sessions that may be put
    PolicyValues,         \* the policies that may be put
    MaxTime               \* bound of the clock

\* Limits and windows of a policy are numbers, if not yet valid ones.
ASSUME SignerPolicyAssumption ==
    /\ MaxTime \in Nat
    /\ \A p \in PolicyValues : p.maxOperations \in Int /\ p.windowSeconds \in Int

VARIABLES
    now,
    policies, sessions, revokedPolicies, revokedSessions,
    usage,                \* frequency key -> the window in use
    consumedRequestIds,
    auths,
    reservations          \* history: every reservation made

policyVars == <<policies, sessions, revokedPolicies, revokedSessions>>
usageVars == <<usage, consumedRequestIds, reservations>>
signerVars == <<now, policies, sessions, revokedPolicies, revokedSessions, usage,
                consumedRequestIds, auths, reservations>>

Sensitive == {"rotate-owner", "export", "migrate", "install-module"}

\* rules: target -> [selectors, operations, assets, maxAmount], the first rule of
\* every target.  Absent lists are {} (operations) and EmptyMap (assets, which
\* maps the assets allowed to their largest amounts).
ValidPolicy(p) ==
    /\ p.chainId >= 1 /\ p.expiresAt > p.validFrom
    /\ DOMAIN p.rules # {}
    /\ \A t \in DOMAIN p.rules : p.rules[t].selectors # {} /\ p.rules[t].maxAmount >= 0
    /\ p.windowSeconds >= 1 /\ p.maxOperations >= 1 /\ p.maxTotalAmount >= 0

ValidSession(s) == s.expiresAt > s.issuedAt

SignerInit ==
    /\ now = 0
    /\ policies = EmptyMap /\ sessions = EmptyMap
    /\ revokedPolicies = {} /\ revokedSessions = {}
    /\ usage = EmptyMap /\ consumedRequestIds = {}
    /\ auths = EmptyMap /\ reservations = {}

Tick ==
    /\ now < MaxTime
    /\ now' = now + 1
    /\ UNCHANGED <<policyVars, usageVars, auths>>

PutPolicy(i, p) ==
    /\ ValidPolicy(p)
    /\ policies' = Put(policies, i, p)
    /\ UNCHANGED <<now, sessions, revokedPolicies, revokedSessions, usageVars, auths>>

PutSession(i, s) ==
    /\ ValidSession(s)
    /\ sessions' = Put(sessions, i, s)
    /\ UNCHANGED <<now, policies, revokedPolicies, revokedSessions, usageVars, auths>>

RevokePolicy(i) ==
    /\ revokedPolicies' = revokedPolicies \cup {i}
    /\ UNCHANGED <<now, policies, sessions, revokedSessions, usageVars, auths>>

RevokeSession(i) ==
    /\ revokedSessions' = revokedSessions \cup {i}
    /\ UNCHANGED <<now, policies, sessions, revokedPolicies, usageVars, auths>>
-----------------------------------------------------------------------------
(* authorize                                                               *)

\* validateRequest, but for the form of addresses and selectors.
WellFormed(r) == r.chainId >= 1 /\ r.amount >= 0

\* at is the caller's time.  revoked is a history field: whether the session or
\* the policy was revoked when the request was made.
Authorize(k, r, at) ==
    /\ k \notin DOMAIN auths /\ WellFormed(r)
    /\ auths' = Put(auths, k, [req |-> r, at |-> at, pc |-> "session",
                               session |-> None, policy |-> None,
                               revoked |-> r.session \in revokedSessions
                                           \/ r.policy \in revokedPolicies])
    /\ UNCHANGED <<now, policyVars, usageVars>>

AuthAt(k, pc) == k \in DOMAIN auths /\ auths[k].pc = pc

\* The call goes on at pc when it passes the checks, and is denied otherwise.
Continue(k, passes, pc) ==
    /\ auths' = [auths EXCEPT ![k].pc = IF passes THEN pc ELSE "denied"]
    /\ UNCHANGED <<now, policyVars, usageVars>>

GetSession(k) ==
    LET i == auths[k].req.session
        found == i \in DOMAIN sessions
    IN  /\ AuthAt(k, "session")
        /\ auths' = [auths EXCEPT ![k].pc = IF found THEN "sessionRevoked" ELSE "denied",
                                  ![k].session = IF found THEN sessions[i] ELSE None]
        /\ UNCHANGED <<now, policyVars, usageVars>>

SessionMatches(a) ==
    /\ a.session.issuedAt <= a.at /\ a.at < a.session.expiresAt
    /\ a.session.signer = a.req.signer /\ a.session.policy = a.req.policy

\* Mutant of IsSessionRevoked: revocation is forgotten.
IsSessionRevokedNever(k) ==
    /\ AuthAt(k, "sessionRevoked")
    /\ Continue(k, SessionMatches(auths[k]), "policy")

IsSessionRevoked(k) ==
    /\ AuthAt(k, "sessionRevoked")
    /\ Continue(k, auths[k].req.session \notin revokedSessions /\ SessionMatches(auths[k]),
                "policy")

GetPolicy(k) ==
    LET i == auths[k].req.policy
        found == i \in DOMAIN policies
    IN  /\ AuthAt(k, "policy")
        /\ auths' = [auths EXCEPT ![k].pc = IF found THEN "policyRevoked" ELSE "denied",
                                  ![k].policy = IF found THEN policies[i] ELSE None]
        /\ UNCHANGED <<now, policyVars, usageVars>>

\* The rules of the policy that was read, and of the first rule of the target.
RulesAllow(p, r, at) ==
    /\ p.validFrom <= at /\ at < p.expiresAt
    /\ p.chainId = r.chainId
    /\ p.operations = {} \/ r.operation \in p.operations
    /\ r.target \in DOMAIN p.rules
    /\ LET rule == p.rules[r.target]
       IN  /\ r.selector \in rule.selectors
           /\ rule.operations = {} \/ r.operation \in rule.operations
           /\ r.amount <= rule.maxAmount
           /\ \/ DOMAIN rule.assets = {}
              \/ r.asset \in DOMAIN rule.assets /\ r.amount <= rule.assets[r.asset]

\* Evidence of step-up: bound to the request and to its time.
StepUpOffered(r, at) ==
    /\ r.stepUp # None
    /\ r.stepUp.requestId = r.id
    /\ r.stepUp.verifiedAt <= at /\ at < r.stepUp.expiresAt

IsPolicyRevoked(k) ==
    LET a == auths[k]
        sensitive == a.req.operation \in Sensitive
    IN  /\ AuthAt(k, "policyRevoked")
        /\ Continue(k, /\ a.req.policy \notin revokedPolicies
                       /\ RulesAllow(a.policy, a.req, a.at)
                       /\ sensitive => StepUpOffered(a.req, a.at),
                    IF sensitive THEN "stepUp" ELSE "reserve")

\* The step-up port accepts the evidence or not; it is the deployment's.
StepUpVerified(k) ==
    /\ AuthAt(k, "stepUp")
    /\ \E accepted \in BOOLEAN : Continue(k, accepted, "reserve")

FrequencyKey(r) == <<r.signer, r.policy, r.target, r.selector>>

WindowStart(p, at) == (at \div p.windowSeconds) * p.windowSeconds

\* Mutant of UsageAt: every request starts a window of its own.
UsageAtRestarted(f, start) == [windowStart |-> start, count |-> 0, amount |-> 0]

\* The usage of the request's window; that of any other window is discarded.
UsageAt(f, start) ==
    IF f \in DOMAIN usage /\ usage[f].windowStart = start THEN usage[f]
    ELSE [windowStart |-> start, count |-> 0, amount |-> 0]

WithinFrequency(p, u, amount) ==
    u.count < p.maxOperations /\ u.amount + amount <= p.maxTotalAmount

\* Mutant of Unused: ids are not remembered.
UnusedAlways(id) == TRUE

\* A request id not used before, by anyone.
Unused(id) == id \notin consumedRequestIds

Reserve(k) ==
    LET a == auths[k]
        f == FrequencyKey(a.req)
        start == WindowStart(a.policy, a.at)
        u == UsageAt(f, start)
        granted == Unused(a.req.id) /\ WithinFrequency(a.policy, u, a.req.amount)
    IN  /\ AuthAt(k, "reserve")
        /\ auths' = [auths EXCEPT ![k].pc = IF granted THEN "allowed" ELSE "denied"]
        /\ IF granted
           THEN /\ usage' = Put(usage, f, [windowStart |-> start, count |-> u.count + 1,
                                           amount |-> u.amount + a.req.amount])
                /\ consumedRequestIds' = consumedRequestIds \cup {a.req.id}
                /\ reservations' = reservations \cup
                      {[req |-> a.req, key |-> f, start |-> start,
                        late |-> \E r \in reservations : r.key = f /\ r.start > start,
                        revoked |-> a.revoked]}
           ELSE UNCHANGED usageVars
        /\ UNCHANGED <<now, policyVars>>

\* The store is unreachable: the authorisation is denied.
StoreUnavailable(k) ==
    /\ k \in DOMAIN auths
    /\ auths[k].pc \notin {"allowed", "denied"}
    /\ Continue(k, FALSE, "denied")

EndAuthorization(k) ==
    /\ k \in DOMAIN auths /\ auths[k].pc \in {"allowed", "denied"}
    /\ auths' = Drop(auths, k)

AuthorizeStep(k) ==
    \/ GetSession(k) \/ IsSessionRevoked(k) \/ GetPolicy(k) \/ IsPolicyRevoked(k)
    \/ StepUpVerified(k) \/ Reserve(k) \/ StoreUnavailable(k)

Administer ==
    \/ \E i \in Policies : RevokePolicy(i) \/ \E p \in PolicyValues : PutPolicy(i, p)
    \/ \E i \in Sessions : RevokeSession(i) \/ \E s \in SessionValues : PutSession(i, s)
-----------------------------------------------------------------------------
\* A request made after its session or its policy was revoked is never allowed,
\* whatever it races with and however often the policy is put again
\* (SignerPolicyEvaluator.authorize).
RevocationStopsRequests == \A r \in reservations : ~r.revoked

\* The operations of a window stay within the limits of the policies put, as
\* long as no request of an earlier window is reserved after one of a later
\* (the usage of a window is discarded when another is used).
WindowsHold ==
    \A r \in reservations :
        LET window == {s \in reservations : s.key = r.key /\ s.start = r.start}
        IN  (\A s \in reservations : s.key = r.key => ~s.late)
                => \E p \in PolicyValues : Cardinality(window) <= p.maxOperations
=============================================================================
