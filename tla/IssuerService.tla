--------------------------- MODULE IssuerService ---------------------------
(***************************************************************************)
(* InstitutionalIssuerService (packages/issuer-service/src/index.ts) for   *)
(* one tenant: reviewed issuance sessions, the single-use grants and       *)
(* access tokens of OpenID4VCI, credential records and their status.       *)
(*                                                                         *)
(* The service is one JavaScript process.  A synchronous stretch of a      *)
(* method is one action; at every `await` the method parks in offerCalls,  *)
(* issueCalls or statusCalls and any other request may run before it       *)
(* resumes.  A request refused before it writes anything changes no state  *)
(* and is no action.                                                       *)
(***************************************************************************)
EXTENDS FiniteSets, JsMap

CONSTANTS
    Templates, Issuers, Policies, Reviewers, Sessions,
    Clients,      \* pairs of client_id and redirect_uri
    Secrets,      \* what uniqueToken draws from
    Credentials,  \* credential ids
    OfferSlots, IssueSlots, StatusSlots,
                  \* slots for createOffer, issueCredential and status
                  \* requests served at the same time
    MaxRequired,  \* 10 in registerReviewerPolicy
    CodeTTL,      \* 60_000 ms in authorize and exchangeToken
    OfferTTLs,    \* values of ttlMs
    Expiries,     \* values of a session's expiresAt
    MaxTime,      \* bound of the clock
    None          \* an absent optional value

ASSUME ConstantsAssumption ==
    /\ MaxRequired \in Nat /\ CodeTTL \in Nat /\ MaxTime \in Nat
    /\ OfferTTLs \subseteq Nat /\ Expiries \subseteq Nat
    /\ None \notin Clients /\ None \notin Credentials
    /\ IsFiniteSet(Reviewers)

VARIABLES
    now,           \* options.clock
    templates,     \* registered, hence published, templates
    issuers,       \* issuer -> authorizedTemplateIds
    policies,      \* policy -> ReviewerPolicy
    sessions,      \* session -> StoredIssuanceSession
    grants,        \* secret -> StoredGrant
    accessTokens,  \* secret -> StoredAccessToken
    credentials,   \* credential id -> CredentialRecord
    offerCalls, issueCalls, statusCalls,   \* methods parked at an await
    registry,      \* external: the status list behind statusPublisher
    returned       \* history: credential ids a caller has been given

config == <<templates, issuers, policies>>
secrets == <<grants, accessTokens>>
calls == <<offerCalls, issueCalls, statusCalls>>
records == <<credentials, registry, returned>>
vars == <<now, config, sessions, secrets, calls, records>>
-----------------------------------------------------------------------------
SessionStates == {"pending_review", "approved", "offered", "issued",
                  "rejected", "expired", "signing_ambiguous"}
GrantKinds == {"pre-authorized_code", "authorization_code"}
Statuses == {"valid", "suspended", "revoked"}
Decisions == {"approved", "rejected"}

PolicyRecord == [template : Templates, required : 1..MaxRequired,
                 reviewers : SUBSET Reviewers]

SessionRecord ==
    [state : SessionStates, issuer : Issuers, template : Templates,
     policy : Policies, expiresAt : Nat,
     reviews : [Reviewers -> Decisions \cup {"none"}],
     claims : {"submitted", "erased"},
     replaces : Credentials \cup {None}]

\* root is a history field: the secret of the offer a grant descends from.
GrantRecord ==
    [session : Sessions, kind : GrantKinds, expiresAt : Nat,
     client : Clients \cup {None}, consumed : BOOLEAN, root : Secrets]

TokenRecord ==
    [session : Sessions, expiresAt : Nat, consumed : BOOLEAN, root : Secrets]

\* session, root and claims are history fields: what the signed artifact was
\* made for and from.
CredentialRecord ==
    [issuer : Issuers, template : Templates, status : Statuses,
     replaces : Credentials \cup {None},
     session : Sessions, root : Secrets, claims : {"submitted", "erased"}]

\* The await a parked method waits at.
OfferCall == [pc : {"describeKey", "evaluateTrust"}, session : Sessions,
              kind : GrantKinds, client : Clients \cup {None}, ttl : Nat]
IssueCall == [pc : {"describeKey", "evaluateTrust", "verifyProof", "sign",
                    "publish", "published"},
              session : Sessions, root : Secrets,
              claims : {"submitted", "erased"},
              credential : Credentials \cup {None}]
StatusCall == [pc : {"publish", "published"}, credential : Credentials,
               status : {"suspended", "revoked"}]

Init ==
    /\ now = 0
    /\ templates = {} /\ issuers = EmptyMap /\ policies = EmptyMap
    /\ sessions = EmptyMap /\ grants = EmptyMap /\ accessTokens = EmptyMap
    /\ credentials = EmptyMap /\ registry = EmptyMap /\ returned = {}
    /\ offerCalls = EmptyMap /\ issueCalls = EmptyMap
    /\ statusCalls = EmptyMap
-----------------------------------------------------------------------------
(* Configuration.                                                          *)

Tick == /\ now < MaxTime
        /\ now' = now + 1
        /\ UNCHANGED <<config, sessions, secrets, calls, records>>

RegisterTemplate(t) ==
    /\ t \notin templates
    /\ templates' = templates \cup {t}
    /\ UNCHANGED <<now, issuers, policies, sessions, secrets, calls, records>>

\* Registering again overwrites the profile.
RegisterIssuer(i, authorized) ==
    /\ issuers' = Put(issuers, i, authorized)
    /\ UNCHANGED <<now, templates, policies, sessions, secrets, calls,
                   records>>

\* Registering again overwrites the policy, also under open sessions.
RegisterReviewerPolicy(p, t, required, reviewers) ==
    /\ required <= Cardinality(reviewers)
    /\ policies' = Put(policies, p, [template |-> t, required |-> required,
                                     reviewers |-> reviewers])
    /\ UNCHANGED <<now, templates, issuers, sessions, secrets, calls, records>>
-----------------------------------------------------------------------------
(* Sessions and reviews.                                                   *)

CreateIssuanceRequest(s, i, t, p, expiresAt, replaces) ==
    /\ expiresAt > now
    /\ t \in templates /\ i \in DOMAIN issuers /\ p \in DOMAIN policies
    /\ t \in issuers[i] /\ policies[p].template = t
    /\ replaces # None =>
         /\ replaces \in DOMAIN credentials \cap returned
         /\ credentials[replaces].template = t
         /\ credentials[replaces].issuer = i
    /\ s \notin DOMAIN sessions
    /\ sessions' = Put(sessions, s,
           [state |-> "pending_review", issuer |-> i, template |-> t,
            policy |-> p, expiresAt |-> expiresAt,
            reviews |-> [r \in Reviewers |-> "none"],
            claims |-> "submitted", replaces |-> replaces])
    /\ UNCHANGED <<now, config, secrets, calls, records>>

Live(s) == now < sessions[s].expiresAt

SetState(s, state) == sessions' = [sessions EXCEPT ![s].state = state]

Approvers(reviews) == {r \in Reviewers : reviews[r] = "approved"}

\* Mutant of Reviewable: a decision can still be added after the approval.
ReviewableLate(s) == sessions[s].state \in {"pending_review", "approved"}

Reviewable(s) == sessions[s].state = "pending_review"

\* The decision of reviewer r: rejection is final, and approval counts every
\* recorded approval against the policy as it is now.
Decide(s, r, decision) ==
    LET policy  == policies[sessions[s].policy]
        reviews == [sessions[s].reviews EXCEPT ![r] = decision]
    IN  /\ Reviewable(s)
        /\ r \in policy.reviewers
        /\ sessions[s].reviews[r] = "none"
        /\ sessions' = [sessions EXCEPT
               ![s].reviews = reviews,
               ![s].state = IF decision = "rejected" THEN "rejected"
                            ELSE IF Cardinality(Approvers(reviews))
                                        >= policy.required
                            THEN "approved"
                            ELSE @]

\* ensureSessionLive writes "expired" over whatever state the session has.
ReviewIssuance(s, r, decision) ==
    /\ s \in DOMAIN sessions
    /\ \/ ~Live(s) /\ SetState(s, "expired")
       \/ Live(s) /\ Decide(s, r, decision)
    /\ UNCHANGED <<now, config, secrets, calls, records>>
-----------------------------------------------------------------------------
(* Authorisation of an issuance: the synchronous part of                   *)
(* assertIssuanceAuthorization; the key and trust answers follow as steps  *)
(* of the parked call.                                                     *)

Authorized(s) ==
    LET m == sessions[s]
        p == policies[m.policy]
    IN  /\ m.template \in templates
        /\ m.template \in issuers[m.issuer]
        /\ p.template = m.template
        /\ Cardinality(Approvers(m.reviews) \cap p.reviewers) >= p.required

CreateOffer(k, s, kind, client, ttl) ==
    /\ k \notin DOMAIN offerCalls
    /\ s \in DOMAIN sessions
    /\ \/ /\ ~Live(s) /\ SetState(s, "expired")
          /\ UNCHANGED offerCalls
       \/ /\ Live(s) /\ sessions[s].state = "approved"
          /\ Authorized(s)
          /\ offerCalls' = Put(offerCalls, k,
                 [pc |-> "describeKey", session |-> s, kind |-> kind,
                  client |-> client, ttl |-> ttl])
          /\ UNCHANGED sessions
    /\ UNCHANGED <<now, config, secrets, issueCalls, statusCalls, records>>

\* uniqueToken: never a secret that a grant or a token already uses.
FreshSecrets == Secrets \ (DOMAIN grants \cup DOMAIN accessTokens)

\* The key is active and its algorithm fits the format.
OfferKeyActive(k) ==
    /\ offerCalls[k].pc = "describeKey"
    /\ offerCalls' = [offerCalls EXCEPT ![k].pc = "evaluateTrust"]
    /\ UNCHANGED <<now, config, sessions, secrets, issueCalls, statusCalls,
                   records>>

\* The rest of createOffer runs without looking at the session's state again.
OfferTrusted(k, secret) ==
    LET c == offerCalls[k]
    IN  /\ c.pc = "evaluateTrust"
        /\ (c.kind = "authorization_code") <=> (c.client # None)
        /\ grants' = Put(grants, secret,
               [session |-> c.session, kind |-> c.kind,
                expiresAt |-> now + c.ttl, client |-> c.client,
                consumed |-> FALSE, root |-> secret])
        /\ SetState(c.session, "offered")
        /\ offerCalls' = Drop(offerCalls, k)
        /\ UNCHANGED <<now, config, accessTokens, issueCalls, statusCalls,
                       records>>

\* The key or the trust answer is negative, the port throws, or the client
\* parameters do not fit the flow.
OfferRefused(k) ==
    /\ offerCalls' = Drop(offerCalls, k)
    /\ UNCHANGED <<now, config, sessions, secrets, issueCalls, statusCalls,
                   records>>
-----------------------------------------------------------------------------
(* Grants and tokens.                                                      *)

\* consumeGrant marks the grant before it looks at the expiry.
ConsumableGrant(secret, kind) ==
    /\ secret \in DOMAIN grants
    /\ grants[secret].kind = kind
    /\ ~grants[secret].consumed

Consume(secret) == [grants EXCEPT ![secret].consumed = TRUE]

GrantExpired(secret) == grants[secret].expiresAt <= now

\* Mutant of Bounded: every exchange starts a new lifetime.
BoundedByNow(secret) == now + CodeTTL

\* The successor of a grant lives no longer than the grant.
Bounded(secret) == MinOf(grants[secret].expiresAt, now + CodeTTL)

\* The request presents an issuer_state; a wrong client spends it too.
Authorize(secret, client, code) ==
    /\ ConsumableGrant(secret, "authorization_code")
    /\ IF GrantExpired(secret) \/ grants[secret].client # client
       THEN grants' = Consume(secret)
       ELSE grants' = Put(Consume(secret), code,
                [session |-> grants[secret].session,
                 kind |-> "authorization_code",
                 expiresAt |-> Bounded(secret), client |-> client,
                 consumed |-> FALSE, root |-> grants[secret].root])
    /\ UNCHANGED <<now, config, sessions, accessTokens, calls, records>>

\* client is None for the pre-authorized flow, which takes no client.
ExchangeToken(secret, client, token) ==
    /\ ConsumableGrant(secret, IF client = None THEN "pre-authorized_code"
                                                ELSE "authorization_code")
    /\ grants' = Consume(secret)
    /\ IF \/ GrantExpired(secret)
          \/ client # None /\ grants[secret].client # client
       THEN UNCHANGED accessTokens
       ELSE accessTokens' = Put(accessTokens, token,
                [session |-> grants[secret].session,
                 expiresAt |-> Bounded(secret),
                 consumed |-> FALSE, root |-> grants[secret].root])
    /\ UNCHANGED <<now, config, sessions, calls, records>>
-----------------------------------------------------------------------------
(* Issuing.                                                                *)

\* Mutant of ConsumableToken: consumedAt is not looked at.
ReplayableToken(token) == token \in DOMAIN accessTokens

\* consumeAccessToken, like consumeGrant, marks before it checks the expiry.
ConsumableToken(token) ==
    /\ token \in DOMAIN accessTokens
    /\ ~accessTokens[token].consumed

TokenExpired(token) == accessTokens[token].expiresAt <= now

\* The request is refused after its token was spent: token expired, session
\* not offered, another configuration asked for, or no authorisation.
IssueCredentialRefused(token) ==
    LET s == accessTokens[token].session
    IN  \/ TokenExpired(token) /\ UNCHANGED sessions
        \/ /\ ~TokenExpired(token) /\ ~Live(s)
           /\ SetState(s, "expired")
        \/ /\ ~TokenExpired(token) /\ Live(s)
           /\ UNCHANGED sessions

IssueCredentialAccepted(k, token) ==
    LET s == accessTokens[token].session
    IN  /\ ~TokenExpired(token) /\ Live(s)
        /\ sessions[s].state = "offered"
        /\ Authorized(s)
        /\ issueCalls' = Put(issueCalls, k,
               [pc |-> "describeKey", session |-> s,
                root |-> accessTokens[token].root,
                claims |-> "submitted", credential |-> None])
        /\ UNCHANGED sessions

IssueCredential(k, token) ==
    /\ k \notin DOMAIN issueCalls
    /\ ConsumableToken(token)
    /\ accessTokens' = [accessTokens EXCEPT ![token].consumed = TRUE]
    /\ \/ IssueCredentialRefused(token) /\ UNCHANGED issueCalls
       \/ IssueCredentialAccepted(k, token)
    /\ UNCHANGED <<now, config, grants, offerCalls, statusCalls, records>>

\* The key is active, then the registry verifies the issuer.
IssueCheckPassed(k) ==
    /\ \/ /\ issueCalls[k].pc = "describeKey"
          /\ issueCalls' = [issueCalls EXCEPT ![k].pc = "evaluateTrust"]
       \/ /\ issueCalls[k].pc = "evaluateTrust"
          /\ issueCalls' = [issueCalls EXCEPT ![k].pc = "verifyProof"]
    /\ UNCHANGED <<now, config, sessions, secrets, offerCalls, statusCalls,
                   records>>

\* The holder's proof verifies: the format port is called with the claims the
\* session holds at this moment.
IssueProofValid(k) ==
    /\ issueCalls[k].pc = "verifyProof"
    /\ issueCalls' = [issueCalls EXCEPT
           ![k].pc = "sign",
           ![k].claims = sessions[issueCalls[k].session].claims]
    /\ UNCHANGED <<now, config, sessions, secrets, offerCalls, statusCalls,
                   records>>

\* A check fails, a port throws, or the signer fails without ambiguity: the
\* session stays as it is.
IssueFailed(k) ==
    /\ issueCalls[k].pc \in {"describeKey", "evaluateTrust", "verifyProof",
                             "sign"}
    /\ issueCalls' = Drop(issueCalls, k)
    /\ UNCHANGED <<now, config, sessions, secrets, offerCalls, statusCalls,
                   records>>

\* The signer's outcome is ambiguous, or its answer does not match the request.
IssueAmbiguous(k) ==
    /\ issueCalls[k].pc = "sign"
    /\ SetState(issueCalls[k].session, "signing_ambiguous")
    /\ issueCalls' = Drop(issueCalls, k)
    /\ UNCHANGED <<now, config, secrets, offerCalls, statusCalls, records>>

\* Signed: the record is stored before its status is published.
IssueSigned(k, id) ==
    LET s == issueCalls[k].session
    IN  /\ issueCalls[k].pc = "sign"
        /\ credentials' = Put(credentials, id,
               [issuer |-> sessions[s].issuer,
                template |-> sessions[s].template, status |-> "valid",
                replaces |-> sessions[s].replaces, session |-> s,
                root |-> issueCalls[k].root,
                claims |-> issueCalls[k].claims])
        /\ issueCalls' = [issueCalls EXCEPT ![k].pc = "publish",
                                            ![k].credential = id]
        /\ UNCHANGED <<now, config, sessions, secrets, offerCalls,
                       statusCalls, registry, returned>>

\* The registry takes the new entry; the answer is still on its way.
IssuePublished(k) ==
    /\ issueCalls[k].pc = "publish"
    /\ registry' = Put(registry, issueCalls[k].credential, "valid")
    /\ issueCalls' = [issueCalls EXCEPT ![k].pc = "published"]
    /\ UNCHANGED <<now, config, sessions, secrets, offerCalls, statusCalls,
                   credentials, returned>>

\* publish rejects, before or after the registry took the entry: nobody
\* learns the credential id and the session keeps its state.
IssuePublishFailed(k) ==
    /\ issueCalls[k].pc \in {"publish", "published"}
    /\ issueCalls' = Drop(issueCalls, k)
    /\ UNCHANGED <<now, config, sessions, secrets, offerCalls, statusCalls,
                   records>>

IssueCompleted(k) ==
    /\ issueCalls[k].pc = "published"
    /\ sessions' = [sessions EXCEPT
           ![issueCalls[k].session].state = "issued",
           ![issueCalls[k].session].claims = "erased"]
    /\ returned' = returned \cup {issueCalls[k].credential}
    /\ issueCalls' = Drop(issueCalls, k)
    /\ UNCHANGED <<now, config, secrets, offerCalls, statusCalls,
                   credentials, registry>>
-----------------------------------------------------------------------------
(* Suspending and revoking.                                                *)

\* Credential ids are random and told only to the caller of issueCredential,
\* so a status request names a returned one.
ChangeStatus(k, id, status) ==
    /\ k \notin DOMAIN statusCalls
    /\ id \in DOMAIN credentials \cap returned
    /\ credentials[id].status \notin {"revoked", status}
    /\ statusCalls' = Put(statusCalls, k,
           [pc |-> "publish", credential |-> id, status |-> status])
    /\ UNCHANGED <<now, config, sessions, secrets, offerCalls, issueCalls,
                   records>>

StatusPublished(k) ==
    /\ statusCalls[k].pc = "publish"
    /\ registry' = Put(registry, statusCalls[k].credential,
                       statusCalls[k].status)
    /\ statusCalls' = [statusCalls EXCEPT ![k].pc = "published"]
    /\ UNCHANGED <<now, config, sessions, secrets, offerCalls, issueCalls,
                   credentials, returned>>

StatusPublishFailed(k) ==
    /\ statusCalls' = Drop(statusCalls, k)
    /\ UNCHANGED <<now, config, sessions, secrets, offerCalls, issueCalls,
                   records>>

\* Mutant of StatusChanged: the record is written without awaiting publish.
StatusChangedEarly(k) ==
    /\ credentials' = [credentials EXCEPT
           ![statusCalls[k].credential].status = statusCalls[k].status]
    /\ statusCalls' = Drop(statusCalls, k)
    /\ UNCHANGED <<now, config, sessions, secrets, offerCalls, issueCalls,
                   registry, returned>>

\* The record read before the await is written back with the new status.
StatusChanged(k) ==
    /\ statusCalls[k].pc = "published"
    /\ credentials' = [credentials EXCEPT
           ![statusCalls[k].credential].status = statusCalls[k].status]
    /\ statusCalls' = Drop(statusCalls, k)
    /\ UNCHANGED <<now, config, sessions, secrets, offerCalls, issueCalls,
                   registry, returned>>
-----------------------------------------------------------------------------
ConfigNext ==
    \/ \E t \in Templates : RegisterTemplate(t)
    \/ \E i \in Issuers, ts \in SUBSET Templates : RegisterIssuer(i, ts)
    \/ \E p \in Policies, t \in Templates, n \in 1..MaxRequired,
          rs \in SUBSET Reviewers : RegisterReviewerPolicy(p, t, n, rs)

SessionNext ==
    \/ \E s \in Sessions, i \in Issuers, t \in Templates, p \in Policies,
          e \in Expiries, c \in Credentials \cup {None} :
          CreateIssuanceRequest(s, i, t, p, e, c)
    \/ \E s \in Sessions, r \in Reviewers, d \in Decisions :
          ReviewIssuance(s, r, d)

OfferNext ==
    \/ \E k \in OfferSlots, s \in Sessions, kind \in GrantKinds,
          client \in Clients \cup {None}, ttl \in OfferTTLs :
          CreateOffer(k, s, kind, client, ttl)
    \/ \E k \in DOMAIN offerCalls :
          \/ OfferKeyActive(k)
          \/ \E secret \in FreshSecrets : OfferTrusted(k, secret)
          \/ OfferRefused(k)

GrantNext ==
    \/ \E g \in Secrets, client \in Clients, code \in FreshSecrets :
          Authorize(g, client, code)
    \/ \E g \in Secrets, client \in Clients \cup {None},
          token \in FreshSecrets : ExchangeToken(g, client, token)

IssueNext ==
    \/ \E k \in IssueSlots, token \in Secrets : IssueCredential(k, token)
    \/ \E k \in DOMAIN issueCalls :
          \/ IssueCheckPassed(k)
          \/ IssueProofValid(k)
          \/ IssueFailed(k)
          \/ IssueAmbiguous(k)
          \/ \E id \in Credentials \ DOMAIN credentials : IssueSigned(k, id)
          \/ IssuePublished(k)
          \/ IssuePublishFailed(k)
          \/ IssueCompleted(k)

StatusNext ==
    \/ \E k \in StatusSlots, id \in Credentials,
          status \in {"suspended", "revoked"} : ChangeStatus(k, id, status)
    \/ \E k \in DOMAIN statusCalls :
          \/ StatusPublished(k)
          \/ StatusPublishFailed(k)
          \/ StatusChanged(k)

Next == Tick \/ ConfigNext \/ SessionNext \/ OfferNext \/ GrantNext
        \/ IssueNext \/ StatusNext

Spec == Init /\ [][Next]_vars
-----------------------------------------------------------------------------
(* What the service promises.                                              *)

\* Every variable keeps to the records of the source.
TypeOK ==
    /\ now \in Nat
    /\ templates \subseteq Templates
    /\ IsMap(issuers, Issuers, SUBSET Templates)
    /\ IsMap(policies, Policies, PolicyRecord)
    /\ IsMap(sessions, Sessions, SessionRecord)
    /\ IsMap(grants, Secrets, GrantRecord)
    /\ IsMap(accessTokens, Secrets, TokenRecord)
    /\ IsMap(credentials, Credentials, CredentialRecord)
    /\ IsMap(offerCalls, OfferSlots, OfferCall)
    /\ IsMap(issueCalls, IssueSlots, IssueCall)
    /\ IsMap(statusCalls, StatusSlots, StatusCall)
    /\ IsMap(registry, Credentials, Statuses)
    /\ returned \subseteq Credentials

\* However authorize, exchangeToken and issueCredential interleave, one offer
\* leads to at most one credential: the grant, the code made from it and the
\* access token are each spent by their first use.
OneCredentialPerOffer ==
    \A c, d \in DOMAIN credentials :
        credentials[c].root = credentials[d].root => c = d

\* Codes and access tokens never outlive the offer they come from, however
\* late each exchange is made (the Math.min in authorize and exchangeToken).
DescendantsExpireWithOffer ==
    /\ \A g \in DOMAIN grants :
          grants[g].expiresAt <= grants[grants[g].root].expiresAt
    /\ \A t \in DOMAIN accessTokens :
          accessTokens[t].expiresAt <= grants[accessTokens[t].root].expiresAt

Rejected(s) == \E r \in Reviewers : sessions[s].reviews[r] = "rejected"
Approved(s) == \E r \in Reviewers : sessions[s].reviews[r] = "approved"

\* The sessions that something is offered, exchanged, signed or recorded for.
InUse == {offerCalls[k].session : k \in DOMAIN offerCalls}
         \cup {grants[g].session : g \in DOMAIN grants}
         \cup {accessTokens[t].session : t \in DOMAIN accessTokens}
         \cup {issueCalls[k].session : k \in DOMAIN issueCalls}
         \cup {credentials[c].session : c \in DOMAIN credentials}

\* Four eyes: whatever happens to policies and to parked calls, nothing is
\* offered, exchanged, signed or recorded for a session that a reviewer
\* rejected or that no reviewer approved.
OnlyReviewedSessionsIssue ==
    \A s \in InUse : s \in DOMAIN sessions /\ Approved(s) /\ ~Rejected(s)

\* A record shows a restriction only when the public status list already
\* does: changeStatus publishes before it writes, and a caller learns a
\* credential id only after "valid" was published.
RestrictionsArePublished ==
    \A c \in DOMAIN credentials :
        credentials[c].status # "valid" =>
            c \in DOMAIN registry /\ registry[c] # "valid"

\* The service throws the claims of a session away, or calls it issued, only
\* after the holder was given a credential of that session whose status is
\* on the public list.
ErasedOnlyAfterDelivery ==
    \A s \in DOMAIN sessions :
        (sessions[s].claims = "erased" \/ sessions[s].state = "issued") =>
            \E c \in returned \cap DOMAIN credentials \cap DOMAIN registry :
                credentials[c].session = s

\* What an offer entails ends with it, and the claims behind it are there until
\* it is honoured.
OfferTermsHold == DescendantsExpireWithOffer /\ ErasedOnlyAfterDelivery

\* The comment at index.ts:759 says that claims are required only while
\* issuing and removed after success.  Two offers made concurrently for one
\* session let a second issuance sign what the first one erased.
ClaimsPresentWhileIssuing ==
    \A c \in DOMAIN credentials : credentials[c].claims = "submitted"

\* Decisions stick: once a session has left pending_review its reviews never
\* change and it never becomes reviewable or approved again, not even when a
\* parked call resumes and writes an old state.
DecisionsStick ==
    [][\A s \in DOMAIN sessions :
          sessions[s].state # "pending_review" =>
            /\ sessions'[s].reviews = sessions[s].reviews
            /\ sessions'[s].state \in {"pending_review", "approved"} =>
                  sessions'[s].state = sessions[s].state]_vars

\* docs/identity-platform/sdk-reference.md:61 calls revocation a terminal
\* status transition.  A suspend request parked in publish while a revoke
\* completes writes "suspended" over "revoked".
RevokedIsTerminal ==
    [][\A c \in DOMAIN credentials :
          credentials[c].status = "revoked" =>
              credentials'[c].status = "revoked"]_vars
-----------------------------------------------------------------------------
(* The inductive strengthenings behind those invariants.                   *)

\* Everything that can still turn into a credential, or has: its kind, its
\* key and the offer it descends from.
Signing == {k \in DOMAIN issueCalls :
               issueCalls[k].pc \notin {"publish", "published"}}
Bearers ==
    {<<"grant", g, grants[g].root>> :
        g \in {h \in DOMAIN grants : ~grants[h].consumed}}
    \cup {<<"token", t, accessTokens[t].root>> :
        t \in {u \in DOMAIN accessTokens : ~accessTokens[u].consumed}}
    \cup {<<"call", k, issueCalls[k].root>> : k \in Signing}
    \cup {<<"credential", c, credentials[c].root>> :
        c \in DOMAIN credentials}

\* Every offer has at most one bearer at any time, and every bearer descends
\* from a stored offer: the capability is passed on, never copied.
SingleBearer ==
    /\ \A x, y \in Bearers : x[3] = y[3] => x = y
    /\ \A x \in Bearers : x[3] \in DOMAIN grants

\* The sessions that have left review with an approval and no rejection.
Settled == {s \in DOMAIN sessions :
               /\ sessions[s].state # "pending_review"
               /\ Approved(s) /\ ~Rejected(s)}

\* The state of a session agrees with its reviews.
StatesAgree ==
    \A s \in DOMAIN sessions :
        /\ sessions[s].state = "pending_review" => ~Rejected(s)
        /\ sessions[s].state \in {"approved", "offered", "issued",
                                  "signing_ambiguous"} => s \in Settled

\* Nothing is in use for a session still under review, so no later decision
\* can contradict what was already offered.
ReviewsSettled == StatesAgree /\ InUse \subseteq Settled

\* Roots are stored grants, so that their expiry is there to compare with.
RootsStored ==
    /\ \A g \in DOMAIN grants : grants[g].root \in DOMAIN grants
    /\ \A t \in DOMAIN accessTokens : accessTokens[t].root \in DOMAIN grants

\* A record being published belongs to one call and to nobody else yet, so a
\* late "valid" never lands on a credential that was restricted meanwhile.
PublicationsExclusive ==
    /\ returned \subseteq DOMAIN credentials \cap DOMAIN registry
    /\ \A k \in DOMAIN issueCalls \ Signing :
          /\ issueCalls[k].credential \in DOMAIN credentials \ returned
          /\ credentials[issueCalls[k].credential].session
                = issueCalls[k].session
          /\ issueCalls[k].pc = "published" =>
                issueCalls[k].credential \in DOMAIN registry
          /\ \A j \in DOMAIN issueCalls \ Signing :
                issueCalls[j].credential = issueCalls[k].credential => j = k
    /\ \A k \in DOMAIN statusCalls :
          /\ statusCalls[k].credential \in returned
          /\ statusCalls[k].pc = "published" =>
                registry[statusCalls[k].credential] # "valid"
    /\ \A c \in DOMAIN credentials :
          credentials[c].status # "valid" => c \in returned
=============================================================================
