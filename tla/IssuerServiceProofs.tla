------------------------ MODULE IssuerServiceProofs ------------------------
(***************************************************************************)
(* Proofs about IssuerService for every number of sessions, reviewers,     *)
(* secrets, credentials and concurrent calls.                              *)
(***************************************************************************)
EXTENDS IssuerService, JsMapTheorems

USE ConstantsAssumption DEF config, secrets, calls, records, vars
-----------------------------------------------------------------------------
(* Type correctness.                                                       *)

\* Registering templates, issuers and policies keeps every variable typed.
LEMMA ConfigTyped ==
    ASSUME TypeOK, ConfigNext
    PROVE  TypeOK'
  <1>1. CASE \E t \in Templates : RegisterTemplate(t)
    BY <1>1 DEF RegisterTemplate, TypeOK
  <1>2. ASSUME NEW i \in Issuers, NEW ts \in SUBSET Templates,
               RegisterIssuer(i, ts)
        PROVE  TypeOK'
    <2>1. IsMap(issuers', Issuers, SUBSET Templates)
      BY <1>2, PutType DEF RegisterIssuer, TypeOK
    <2> QED  BY <1>2, <2>1 DEF RegisterIssuer, TypeOK
  <1>3. ASSUME NEW p \in Policies, NEW t \in Templates,
               NEW n \in 1..MaxRequired, NEW rs \in SUBSET Reviewers,
               RegisterReviewerPolicy(p, t, n, rs)
        PROVE  TypeOK'
    <2>1. [template |-> t, required |-> n, reviewers |-> rs] \in PolicyRecord
      BY DEF PolicyRecord
    <2>2. IsMap(policies', Policies, PolicyRecord)
      BY <1>3, <2>1, PutType DEF RegisterReviewerPolicy, TypeOK
    <2> QED  BY <1>3, <2>2 DEF RegisterReviewerPolicy, TypeOK
  <1> QED  BY <1>1, <1>2, <1>3 DEF ConfigNext

\* A write to the state field of a stored session keeps the sessions typed.
LEMMA SetStateTyped ==
    ASSUME TypeOK, NEW s, NEW state \in SessionStates, SetState(s, state)
    PROVE  IsMap(sessions', Sessions, SessionRecord)
  <1> DEFINE m == [sessions[s] EXCEPT !.state = state]
  <1>1. s \in DOMAIN sessions => m \in SessionRecord
    <2>1. s \in DOMAIN sessions => sessions[s] \in SessionRecord
      BY DEF TypeOK, IsMap
    <2> QED  BY <2>1 DEF SessionRecord
  <1>2. sessions' = [sessions EXCEPT ![s] = m]
    BY DEF SetState
  <1> QED  BY <1>1, <1>2, UpdateType DEF TypeOK

\* Session requests and reviews keep every variable typed.
LEMMA SessionTyped ==
    ASSUME TypeOK, SessionNext
    PROVE  TypeOK'
  <1>1. ASSUME NEW s \in Sessions, NEW i \in Issuers, NEW t \in Templates,
               NEW p \in Policies, NEW e \in Expiries,
               NEW c \in Credentials \cup {None},
               CreateIssuanceRequest(s, i, t, p, e, c)
        PROVE  TypeOK'
    <2> DEFINE m == [state |-> "pending_review", issuer |-> i, template |-> t,
                     policy |-> p, expiresAt |-> e,
                     reviews |-> [r \in Reviewers |-> "none"],
                     claims |-> "submitted", replaces |-> c]
    <2>1. m \in SessionRecord
      BY DEF SessionRecord, SessionStates
    <2>2. IsMap(sessions', Sessions, SessionRecord)
      BY <1>1, <2>1, PutType DEF CreateIssuanceRequest, TypeOK
    <2> QED  BY <1>1, <2>2 DEF CreateIssuanceRequest, TypeOK
  <1>2. ASSUME NEW s \in Sessions, NEW r \in Reviewers, NEW d \in Decisions,
               ReviewIssuance(s, r, d)
        PROVE  TypeOK'
    <2>1. CASE SetState(s, "expired")
      <3>1. IsMap(sessions', Sessions, SessionRecord)
        BY <2>1, SetStateTyped DEF SessionStates
      <3> QED  BY <1>2, <3>1 DEF ReviewIssuance, TypeOK
    <2>2. CASE Decide(s, r, d)
      <3>1. sessions[s] \in SessionRecord
        BY <1>2 DEF ReviewIssuance, TypeOK, IsMap
      <3> DEFINE reviews == [sessions[s].reviews EXCEPT ![r] = d]
      <3>2. reviews \in [Reviewers -> Decisions \cup {"none"}]
        BY <3>1 DEF SessionRecord
      <3>3. PICK state \in SessionStates :
              sessions' = [sessions EXCEPT
                  ![s] = [sessions[s] EXCEPT !.reviews = reviews,
                                             !.state = state]]
        BY <2>2, <3>1 DEF Decide, Reviewable, SessionRecord, SessionStates
      <3>4. [sessions[s] EXCEPT !.reviews = reviews, !.state = state]
              \in SessionRecord
        BY <3>1, <3>2 DEF SessionRecord
      <3>5. IsMap(sessions', Sessions, SessionRecord)
        BY <3>3, <3>4, UpdateType DEF TypeOK
      <3> QED  BY <1>2, <3>5 DEF ReviewIssuance, TypeOK
    <2> QED  BY <1>2, <2>1, <2>2 DEF ReviewIssuance
  <1> QED  BY <1>1, <1>2 DEF SessionNext

\* createOffer and its resumptions keep every variable typed.
LEMMA OfferTyped ==
    ASSUME TypeOK, OfferNext
    PROVE  TypeOK'
  <1>1. ASSUME NEW k \in OfferSlots, NEW s \in Sessions, NEW kind \in GrantKinds,
               NEW client \in Clients \cup {None}, NEW ttl \in OfferTTLs,
               CreateOffer(k, s, kind, client, ttl)
        PROVE  TypeOK'
    <2>1. CASE SetState(s, "expired") /\ UNCHANGED offerCalls
      <3>1. IsMap(sessions', Sessions, SessionRecord)
        BY <2>1, SetStateTyped DEF SessionStates
      <3> QED  BY <1>1, <2>1, <3>1 DEF CreateOffer, TypeOK
    <2>2. CASE /\ offerCalls' = Put(offerCalls, k,
                     [pc |-> "describeKey", session |-> s, kind |-> kind,
                      client |-> client, ttl |-> ttl])
               /\ UNCHANGED sessions
      <3>1. [pc |-> "describeKey", session |-> s, kind |-> kind,
             client |-> client, ttl |-> ttl] \in OfferCall
        BY DEF OfferCall
      <3>2. IsMap(offerCalls', OfferSlots, OfferCall)
        BY <2>2, <3>1, PutType DEF TypeOK
      <3> QED  BY <1>1, <2>2, <3>2 DEF CreateOffer, TypeOK
    <2> QED  BY <1>1, <2>1, <2>2 DEF CreateOffer
  <1>2. ASSUME NEW k \in DOMAIN offerCalls, OfferKeyActive(k)
        PROVE  TypeOK'
    <2>1. [offerCalls[k] EXCEPT !.pc = "evaluateTrust"] \in OfferCall
      BY DEF TypeOK, IsMap, OfferCall
    <2>2. IsMap(offerCalls', OfferSlots, OfferCall)
      BY <1>2, <2>1, UpdateType DEF OfferKeyActive, TypeOK
    <2> QED  BY <1>2, <2>2 DEF OfferKeyActive, TypeOK
  <1>3. ASSUME NEW k \in DOMAIN offerCalls, NEW secret \in FreshSecrets,
               OfferTrusted(k, secret)
        PROVE  TypeOK'
    <2> DEFINE c == offerCalls[k]
               g == [session |-> c.session, kind |-> c.kind,
                     expiresAt |-> now + c.ttl, client |-> c.client,
                     consumed |-> FALSE, root |-> secret]
    <2>1. c \in OfferCall /\ secret \in Secrets /\ now \in Nat
      BY DEF TypeOK, IsMap, FreshSecrets
    <2>2. g \in GrantRecord
      BY <2>1 DEF OfferCall, GrantRecord
    <2>3. IsMap(grants', Secrets, GrantRecord)
      BY <1>3, <2>1, <2>2, PutType DEF OfferTrusted, TypeOK
    <2>4. IsMap(sessions', Sessions, SessionRecord)
      BY <1>3, SetStateTyped DEF OfferTrusted, SessionStates
    <2>5. IsMap(offerCalls', OfferSlots, OfferCall)
      BY <1>3, DropType DEF OfferTrusted, TypeOK
    <2> QED  BY <1>3, <2>3, <2>4, <2>5 DEF OfferTrusted, TypeOK
  <1>4. ASSUME NEW k \in DOMAIN offerCalls, OfferRefused(k)
        PROVE  TypeOK'
    <2>1. IsMap(offerCalls', OfferSlots, OfferCall)
      BY <1>4, DropType DEF OfferRefused, TypeOK
    <2> QED  BY <1>4, <2>1 DEF OfferRefused, TypeOK
  <1> QED  BY <1>1, <1>2, <1>3, <1>4 DEF OfferNext

\* Marking a grant as consumed keeps the grants typed.
LEMMA ConsumeTyped ==
    ASSUME TypeOK, NEW g
    PROVE  IsMap(Consume(g), Secrets, GrantRecord)
  <1>a. g \in DOMAIN grants => grants[g] \in GrantRecord
    BY DEF TypeOK, IsMap
  <1>b. ASSUME NEW r \in GrantRecord
        PROVE  [r EXCEPT !.consumed = TRUE] \in GrantRecord
    BY DEF GrantRecord
  <1>1. g \in DOMAIN grants =>
            [grants[g] EXCEPT !.consumed = TRUE] \in GrantRecord
    BY <1>a, <1>b
  <1>2. Consume(g) = [grants EXCEPT ![g] = [grants[g] EXCEPT !.consumed = TRUE]]
    BY DEF Consume
  <1>3. IsMap([grants EXCEPT ![g] = [grants[g] EXCEPT !.consumed = TRUE]],
              Secrets, GrantRecord)
    BY <1>1, UpdateType DEF TypeOK
  <1> QED  BY <1>2, <1>3

\* authorize and exchangeToken keep every variable typed.
LEMMA GrantTyped ==
    ASSUME TypeOK, GrantNext
    PROVE  TypeOK'
  <1>1. ASSUME NEW g \in DOMAIN grants
        PROVE  grants[g] \in GrantRecord /\ Bounded(g) \in Nat
    BY DEF TypeOK, IsMap, GrantRecord, Bounded, MinOf
  <1>2. ASSUME NEW g \in Secrets, NEW client \in Clients,
               NEW code \in FreshSecrets, Authorize(g, client, code)
        PROVE  TypeOK'
    <2> DEFINE m == [session |-> grants[g].session,
                     kind |-> "authorization_code",
                     expiresAt |-> Bounded(g), client |-> client,
                     consumed |-> FALSE, root |-> grants[g].root]
    <2>1. m \in GrantRecord
      BY <1>1, <1>2 DEF Authorize, ConsumableGrant, GrantRecord, GrantKinds
    <2>2. code \in Secrets
      BY DEF FreshSecrets
    <2>3. grants' = Consume(g) \/ grants' = Put(Consume(g), code, m)
      BY <1>2 DEF Authorize
    <2>4. IsMap(grants', Secrets, GrantRecord)
      BY <2>1, <2>2, <2>3, ConsumeTyped, PutType
    <2> QED  BY <1>2, <2>4 DEF Authorize, TypeOK
  <1>3. ASSUME NEW g \in Secrets, NEW client \in Clients \cup {None},
               NEW token \in FreshSecrets, ExchangeToken(g, client, token)
        PROVE  TypeOK'
    <2> DEFINE m == [session |-> grants[g].session, expiresAt |-> Bounded(g),
                     consumed |-> FALSE, root |-> grants[g].root]
    <2>1. m \in TokenRecord
      BY <1>1, <1>3 DEF ExchangeToken, ConsumableGrant, GrantRecord, TokenRecord
    <2>2. token \in Secrets
      BY DEF FreshSecrets
    <2>3. \/ UNCHANGED accessTokens
          \/ accessTokens' = Put(accessTokens, token, m)
      BY <1>3 DEF ExchangeToken
    <2>4. IsMap(accessTokens', Secrets, TokenRecord)
      BY <2>1, <2>2, <2>3, PutType DEF TypeOK
    <2>5. IsMap(grants', Secrets, GrantRecord)
      BY <1>3, ConsumeTyped DEF ExchangeToken
    <2> QED  BY <1>3, <2>4, <2>5 DEF ExchangeToken, TypeOK
  <1> QED  BY <1>2, <1>3 DEF GrantNext

\* issueCredential and its resumptions keep every variable typed.
LEMMA IssueTyped ==
    ASSUME TypeOK, ReviewsSettled, PublicationsExclusive, IssueNext
    PROVE  TypeOK'
  <1>1. ASSUME NEW k \in IssueSlots, NEW t \in Secrets, IssueCredential(k, t)
        PROVE  TypeOK'
    <2> DEFINE c == [pc |-> "describeKey", session |-> accessTokens[t].session,
                     root |-> accessTokens[t].root,
                     claims |-> "submitted", credential |-> None]
    <2>1. accessTokens[t] \in TokenRecord
      BY <1>1 DEF IssueCredential, ConsumableToken, TypeOK, IsMap
    <2>2. [accessTokens[t] EXCEPT !.consumed = TRUE] \in TokenRecord
      BY <2>1 DEF TokenRecord
    <2>3. IsMap(accessTokens', Secrets, TokenRecord)
      BY <1>1, <2>2, UpdateType DEF IssueCredential, TypeOK
    <2>4. c \in IssueCall
      BY <2>1 DEF TokenRecord, IssueCall
    <2>5. issueCalls' = issueCalls \/ issueCalls' = Put(issueCalls, k, c)
      BY <1>1 DEF IssueCredential, IssueCredentialAccepted
    <2>6. IsMap(issueCalls', IssueSlots, IssueCall)
      BY <2>4, <2>5, PutType DEF TypeOK
    <2>7. UNCHANGED sessions \/ SetState(accessTokens[t].session, "expired")
      BY <1>1 DEF IssueCredential, IssueCredentialAccepted,
                  IssueCredentialRefused
    <2>8. IsMap(sessions', Sessions, SessionRecord)
      BY <2>7, SetStateTyped DEF SessionStates, TypeOK
    <2> QED  BY <1>1, <2>3, <2>6, <2>8 DEF IssueCredential, TypeOK
  <1> SUFFICES ASSUME NEW k \in DOMAIN issueCalls,
                      \/ IssueCheckPassed(k) \/ IssueProofValid(k)
                      \/ IssueFailed(k) \/ IssueAmbiguous(k)
                      \/ \E id \in Credentials \ DOMAIN credentials :
                            IssueSigned(k, id)
                      \/ IssuePublished(k) \/ IssuePublishFailed(k)
                      \/ IssueCompleted(k)
               PROVE  TypeOK'
    BY <1>1 DEF IssueNext
  <1> DEFINE c == issueCalls[k]
  <1>2. c \in IssueCall
    BY DEF TypeOK, IsMap
  <1>3. sessions[c.session] \in SessionRecord
    BY DEF TypeOK, IsMap, ReviewsSettled, InUse, Settled
  <1>4. CASE IssueCheckPassed(k)
    <2>1. PICK pc \in {"evaluateTrust", "verifyProof"} :
            issueCalls' = [issueCalls EXCEPT ![k] = [c EXCEPT !.pc = pc]]
      BY <1>4 DEF IssueCheckPassed
    <2>2. [c EXCEPT !.pc = pc] \in IssueCall
      BY <1>2 DEF IssueCall
    <2>3. IsMap(issueCalls', IssueSlots, IssueCall)
      BY <2>1, <2>2, UpdateType DEF TypeOK
    <2> QED  BY <1>4, <2>3 DEF IssueCheckPassed, TypeOK
  <1>6. CASE IssueFailed(k) \/ IssuePublishFailed(k)
    <2>1. IsMap(issueCalls', IssueSlots, IssueCall)
      BY <1>6, DropType DEF IssueFailed, IssuePublishFailed, TypeOK
    <2> QED  BY <1>6, <2>1 DEF IssueFailed, IssuePublishFailed, TypeOK
  <1>7. CASE IssueAmbiguous(k)
    <2>1. IsMap(issueCalls', IssueSlots, IssueCall)
      BY <1>7, DropType DEF IssueAmbiguous, TypeOK
    <2>2. IsMap(sessions', Sessions, SessionRecord)
      BY <1>7, SetStateTyped DEF IssueAmbiguous, SessionStates
    <2> QED  BY <1>7, <2>1, <2>2 DEF IssueAmbiguous, TypeOK
  <1>9. CASE IssuePublished(k)
    <2>1. [c EXCEPT !.pc = "published"] \in IssueCall
      BY <1>2 DEF IssueCall
    <2>2. IsMap(issueCalls', IssueSlots, IssueCall)
      BY <1>9, <2>1, UpdateType DEF IssuePublished, TypeOK
    <2>3. c.credential \in Credentials
      BY <1>9 DEF IssuePublished, PublicationsExclusive, Signing, TypeOK,
                  IsMap
    <2>4. IsMap(registry', Credentials, Statuses)
      BY <1>9, <2>3, PutType DEF IssuePublished, TypeOK, Statuses
    <2> QED  BY <1>9, <2>2, <2>4 DEF IssuePublished, TypeOK
  <1>5. CASE IssueProofValid(k)
    <2>1. [c EXCEPT !.pc = "sign", !.claims = sessions[c.session].claims]
            \in IssueCall
      BY <1>2, <1>3 DEF IssueCall, SessionRecord
    <2>2. IsMap(issueCalls', IssueSlots, IssueCall)
      BY <1>5, <2>1, UpdateType DEF IssueProofValid, TypeOK
    <2> QED  BY <1>5, <2>2 DEF IssueProofValid, TypeOK
  <1>8. ASSUME NEW id \in Credentials \ DOMAIN credentials,
               IssueSigned(k, id)
        PROVE  TypeOK'
    <2> DEFINE m == [issuer |-> sessions[c.session].issuer,
                     template |-> sessions[c.session].template,
                     status |-> "valid",
                     replaces |-> sessions[c.session].replaces,
                     session |-> c.session, root |-> c.root,
                     claims |-> c.claims]
    <2>1. m \in CredentialRecord
      BY <1>2, <1>3 DEF IssueCall, SessionRecord, CredentialRecord, Statuses
    <2>2. IsMap(credentials', Credentials, CredentialRecord)
      BY <1>8, <2>1, PutType DEF IssueSigned, TypeOK
    <2>3. [c EXCEPT !.pc = "publish", !.credential = id] \in IssueCall
      BY <1>2 DEF IssueCall
    <2>4. IsMap(issueCalls', IssueSlots, IssueCall)
      BY <1>8, <2>3, UpdateType DEF IssueSigned, TypeOK
    <2> QED  BY <1>8, <2>2, <2>4 DEF IssueSigned, TypeOK
  <1>10. CASE IssueCompleted(k)
    <2> DEFINE x == [sessions[c.session] EXCEPT !.state = "issued", !.claims = "erased"]
    <2>1. x \in SessionRecord
      BY <1>3 DEF SessionRecord, SessionStates
    <2>5. sessions' = [sessions EXCEPT ![c.session] = x]
      BY <1>10 DEF IssueCompleted
    <2> HIDE DEF x
    <2>2. IsMap(sessions', Sessions, SessionRecord)
      BY <2>1, <2>5, UpdateType DEF TypeOK
    <2>3. IsMap(issueCalls', IssueSlots, IssueCall)
      BY <1>10, DropType DEF IssueCompleted, TypeOK
    <2>4. c.credential \in Credentials
      BY <1>10 DEF IssueCompleted, PublicationsExclusive, Signing, TypeOK,
                   IsMap
    <2> QED  BY <1>10, <2>2, <2>3, <2>4 DEF IssueCompleted, TypeOK
  <1> QED  BY <1>4, <1>5, <1>6, <1>7, <1>8, <1>9, <1>10

\* Suspending and revoking keeps every variable typed.
LEMMA StatusTyped ==
    ASSUME TypeOK, StatusNext
    PROVE  TypeOK'
  <1>1. ASSUME NEW k \in StatusSlots, NEW id \in Credentials,
               NEW status \in {"suspended", "revoked"},
               ChangeStatus(k, id, status)
        PROVE  TypeOK'
    <2>1. [pc |-> "publish", credential |-> id, status |-> status]
            \in StatusCall
      BY DEF StatusCall
    <2>2. IsMap(statusCalls', StatusSlots, StatusCall)
      BY <1>1, <2>1, PutType DEF ChangeStatus, TypeOK
    <2> QED  BY <1>1, <2>2 DEF ChangeStatus, TypeOK
  <1>2. ASSUME NEW k \in DOMAIN statusCalls
        PROVE  statusCalls[k] \in StatusCall
    BY DEF TypeOK, IsMap
  <1>3. ASSUME NEW k \in DOMAIN statusCalls, StatusPublished(k)
        PROVE  TypeOK'
    <2>1. [statusCalls[k] EXCEPT !.pc = "published"] \in StatusCall
      BY <1>2 DEF StatusCall
    <2>2. IsMap(statusCalls', StatusSlots, StatusCall)
      BY <1>3, <2>1, UpdateType DEF StatusPublished, TypeOK
    <2>3. /\ statusCalls[k].credential \in Credentials
          /\ statusCalls[k].status \in Statuses
      BY <1>2 DEF StatusCall, Statuses
    <2>4. IsMap(registry', Credentials, Statuses)
      BY <1>3, <2>3, PutType DEF StatusPublished, TypeOK
    <2> QED  BY <1>3, <2>2, <2>4 DEF StatusPublished, TypeOK
  <1>4. ASSUME NEW k \in DOMAIN statusCalls, StatusPublishFailed(k)
        PROVE  TypeOK'
    <2>1. IsMap(statusCalls', StatusSlots, StatusCall)
      BY <1>4, DropType DEF StatusPublishFailed, TypeOK
    <2> QED  BY <1>4, <2>1 DEF StatusPublishFailed, TypeOK
  <1>5. ASSUME NEW k \in DOMAIN statusCalls, StatusChanged(k)
        PROVE  TypeOK'
    <2> DEFINE id == statusCalls[k].credential
               m  == [credentials[id] EXCEPT !.status = statusCalls[k].status]
    <2>1. id \in DOMAIN credentials => m \in CredentialRecord
      BY <1>2 DEF TypeOK, IsMap, StatusCall, CredentialRecord, Statuses
    <2>2. credentials' = [credentials EXCEPT ![id] = m]
      BY <1>5 DEF StatusChanged
    <2>3. IsMap(credentials', Credentials, CredentialRecord)
      BY <2>1, <2>2, UpdateType DEF TypeOK
    <2>4. IsMap(statusCalls', StatusSlots, StatusCall)
      BY <1>5, DropType DEF StatusChanged, TypeOK
    <2> QED  BY <1>5, <2>3, <2>4 DEF StatusChanged, TypeOK
  <1> QED  BY <1>1, <1>3, <1>4, <1>5 DEF StatusNext
-----------------------------------------------------------------------------
(* Single use.                                                             *)

\* Dropping bearers keeps every offer with at most one.
LEMMA BearersShrink ==
    ASSUME SingleBearer, Bearers' \subseteq Bearers,
           DOMAIN grants \subseteq DOMAIN grants'
    PROVE  SingleBearer'
  BY DEF SingleBearer

\* So does replacing a bearer by another one of the same offer.
LEMMA BearerPassedOn ==
    ASSUME SingleBearer, NEW x \in Bearers, NEW y, y[3] = x[3],
           Bearers' \subseteq (Bearers \ {x}) \cup {y},
           DOMAIN grants \subseteq DOMAIN grants'
    PROVE  SingleBearer'
  BY DEF SingleBearer

\* So does a bearer of an offer that did not exist before.
LEMMA BearerCreated ==
    ASSUME SingleBearer, NEW y, y[3] \in DOMAIN grants' \ DOMAIN grants,
           Bearers' \subseteq Bearers \cup {y},
           DOMAIN grants \subseteq DOMAIN grants'
    PROVE  SingleBearer'
  BY DEF SingleBearer

\* createOffer makes one bearer of a fresh offer.
LEMMA OfferSingle ==
    ASSUME TypeOK, SingleBearer, OfferNext
    PROVE  SingleBearer'
  <1>1. ASSUME NEW k \in DOMAIN offerCalls, NEW secret \in FreshSecrets,
               OfferTrusted(k, secret)
        PROVE  SingleBearer'
    <2> DEFINE y == <<"grant", secret, secret>>
    <2>1. secret \notin DOMAIN grants
      BY DEF FreshSecrets
    <2>2. /\ DOMAIN grants' = DOMAIN grants \cup {secret}
          /\ grants'[secret].root = secret
          /\ \A g \in DOMAIN grants : grants'[g] = grants[g]
      BY <1>1, <2>1 DEF OfferTrusted, Put
    <2>3. Bearers' \subseteq Bearers \cup {y}
      <3>1. UNCHANGED <<accessTokens, issueCalls, credentials>>
        BY <1>1 DEF OfferTrusted
      <3> QED  BY <2>1, <2>2, <3>1 DEF Bearers, Signing
    <2>4. y[3] \in DOMAIN grants' \ DOMAIN grants
      BY <2>1, <2>2
    <2> QED  BY <2>2, <2>3, <2>4, BearerCreated
  <1>2. CASE UNCHANGED <<grants, accessTokens, issueCalls, credentials>>
    BY <1>2, BearersShrink DEF Bearers, Signing
  <1> QED  BY <1>1, <1>2 DEF OfferNext, CreateOffer, OfferKeyActive,
                             OfferRefused

\* authorize and exchangeToken take the grant's capability away before they
\* create the code or the token.
LEMMA GrantSingle ==
    ASSUME TypeOK, SingleBearer, GrantNext
    PROVE  SingleBearer'
  <1>1. ASSUME NEW g, g \in DOMAIN grants, ~grants[g].consumed
        PROVE  /\ <<"grant", g, grants[g].root>> \in Bearers
               /\ DOMAIN Consume(g) = DOMAIN grants
               /\ Consume(g)[g].consumed
               /\ \A h \in DOMAIN grants :
                     /\ Consume(g)[h].root = grants[h].root
                     /\ h # g => Consume(g)[h] = grants[h]
    <2>1. grants = [h \in DOMAIN grants |-> grants[h]]
          /\ \A h \in DOMAIN grants : grants[h] \in GrantRecord
      BY DEF TypeOK, IsMap
    <2>2. <<"grant", g, grants[g].root>> \in Bearers
      BY <1>1 DEF Bearers
    <2> QED  BY <1>1, <2>1, <2>2 DEF Consume, GrantRecord
  <1>2. ASSUME NEW g \in Secrets, NEW client \in Clients,
               NEW code \in FreshSecrets, Authorize(g, client, code)
        PROVE  SingleBearer'
    <2> DEFINE x == <<"grant", g, grants[g].root>>
               y == <<"grant", code, grants[g].root>>
    <2>1. g \in DOMAIN grants /\ ~grants[g].consumed
      BY <1>2 DEF Authorize, ConsumableGrant
    <2>2. code \notin DOMAIN grants
      BY DEF FreshSecrets
    <2>3. CASE grants' = Consume(g)
      <3>1. Bearers' \subseteq Bearers
        BY <1>1, <1>2, <2>1, <2>3 DEF Authorize, Bearers, Signing
      <3> QED  BY <1>1, <2>1, <2>3, <3>1, BearersShrink
    <2>4. CASE grants' = Put(Consume(g), code,
                [session |-> grants[g].session,
                 kind |-> "authorization_code",
                 expiresAt |-> Bounded(g), client |-> client,
                 consumed |-> FALSE, root |-> grants[g].root])
      <3>1. /\ DOMAIN grants' = DOMAIN grants \cup {code}
            /\ grants'[code].root = grants[g].root
            /\ grants'[g].consumed
            /\ \A h \in DOMAIN grants : h # g => grants'[h] = grants[h]
        BY <1>1, <2>1, <2>2, <2>4 DEF Put
      <3>2. Bearers' \subseteq (Bearers \ {x}) \cup {y}
        BY <1>2, <2>1, <3>1 DEF Authorize, Bearers, Signing
      <3>3. x[3] = y[3]
        OBVIOUS
      <3> QED  BY <1>1, <2>1, <3>1, <3>2, <3>3, BearerPassedOn
    <2> QED  BY <1>2, <2>3, <2>4 DEF Authorize
  <1>3. ASSUME NEW g \in Secrets, NEW client \in Clients \cup {None},
               NEW token \in FreshSecrets, ExchangeToken(g, client, token)
        PROVE  SingleBearer'
    <2> DEFINE x == <<"grant", g, grants[g].root>>
               y == <<"token", token, grants[g].root>>
    <2>1. g \in DOMAIN grants /\ ~grants[g].consumed /\ grants' = Consume(g)
      BY <1>3 DEF ExchangeToken, ConsumableGrant
    <2>2. token \notin DOMAIN accessTokens
      BY DEF FreshSecrets
    <2>3. CASE UNCHANGED accessTokens
      <3>1. Bearers' \subseteq Bearers
        BY <1>1, <1>3, <2>1, <2>3 DEF ExchangeToken, Bearers, Signing
      <3> QED  BY <1>1, <2>1, <2>3, <3>1, BearersShrink
    <2>4. CASE accessTokens' = Put(accessTokens, token,
                [session |-> grants[g].session, expiresAt |-> Bounded(g),
                 consumed |-> FALSE, root |-> grants[g].root])
      <3>1. /\ DOMAIN accessTokens' = DOMAIN accessTokens \cup {token}
            /\ accessTokens'[token].root = grants[g].root
            /\ \A u \in DOMAIN accessTokens :
                  accessTokens'[u] = accessTokens[u]
        BY <2>2, <2>4 DEF Put
      <3>2. Bearers' \subseteq (Bearers \ {x}) \cup {y}
        BY <1>1, <1>3, <2>1, <3>1 DEF ExchangeToken, Bearers, Signing
      <3>3. x[3] = y[3]
        OBVIOUS
      <3> QED  BY <1>1, <2>1, <3>2, <3>3, BearerPassedOn
    <2> QED  BY <1>3, <2>3, <2>4 DEF ExchangeToken
  <1> QED  BY <1>2, <1>3 DEF GrantNext

\* issueCredential spends the token when it starts; the running call is the
\* bearer until the record is stored.
LEMMA IssueSingle ==
    ASSUME TypeOK, SingleBearer, IssueNext
    PROVE  SingleBearer'
  <1>1. ASSUME NEW k \in IssueSlots, NEW t \in Secrets, IssueCredential(k, t)
        PROVE  SingleBearer'
    <2> DEFINE x == <<"token", t, accessTokens[t].root>>
               y == <<"call", k, accessTokens[t].root>>
    <2>1. t \in DOMAIN accessTokens /\ ~accessTokens[t].consumed
      BY <1>1 DEF IssueCredential, ConsumableToken
    <2>2. /\ accessTokens = [u \in DOMAIN accessTokens |-> accessTokens[u]]
          /\ \A u \in DOMAIN accessTokens : accessTokens[u] \in TokenRecord
      BY DEF TypeOK, IsMap
    <2>3. /\ DOMAIN accessTokens' = DOMAIN accessTokens
          /\ accessTokens'[t].consumed
          /\ \A u \in DOMAIN accessTokens :
                u # t => accessTokens'[u] = accessTokens[u]
      BY <1>1, <2>1, <2>2 DEF IssueCredential, TokenRecord
    <2>4. UNCHANGED <<grants, credentials>>
      BY <1>1 DEF IssueCredential
    <2>5. CASE UNCHANGED issueCalls
      <3>1. Bearers' \subseteq Bearers
        BY <2>3, <2>4, <2>5 DEF Bearers, Signing
      <3> QED  BY <2>4, <3>1, BearersShrink
    <2>6. CASE k \notin DOMAIN issueCalls /\ IssueCredentialAccepted(k, t)
      <3>1. /\ DOMAIN issueCalls' = DOMAIN issueCalls \cup {k}
            /\ issueCalls'[k].root = accessTokens[t].root
            /\ \A j \in DOMAIN issueCalls : issueCalls'[j] = issueCalls[j]
        BY <2>6 DEF IssueCredentialAccepted, Put
      <3>2. Bearers' \subseteq (Bearers \ {x}) \cup {y}
        BY <2>1, <2>3, <2>4, <3>1 DEF Bearers, Signing
      <3>3. x \in Bearers /\ x[3] = y[3]
        BY <2>1 DEF Bearers
      <3> QED  BY <2>4, <3>2, <3>3, BearerPassedOn
    <2> QED  BY <1>1, <2>5, <2>6 DEF IssueCredential
  <1>2. ASSUME NEW k \in DOMAIN issueCalls,
               \/ IssueCheckPassed(k) \/ IssueProofValid(k)
               \/ IssueFailed(k) \/ IssueAmbiguous(k)
               \/ IssuePublished(k) \/ IssuePublishFailed(k)
               \/ IssueCompleted(k)
        PROVE  SingleBearer'
    <2>1. /\ issueCalls = [j \in DOMAIN issueCalls |-> issueCalls[j]]
          /\ \A j \in DOMAIN issueCalls : issueCalls[j] \in IssueCall
      BY DEF TypeOK, IsMap
    <2>2. /\ DOMAIN issueCalls' \subseteq DOMAIN issueCalls
          /\ \A j \in DOMAIN issueCalls' :
                /\ issueCalls'[j].root = issueCalls[j].root
                /\ j \notin Signing => j \notin Signing'
      BY <1>2, <2>1 DEF IssueCheckPassed, IssueProofValid, IssueFailed,
           IssueAmbiguous, IssuePublished, IssuePublishFailed,
           IssueCompleted, IssueCall, Drop, Signing
    <2>3. UNCHANGED <<grants, accessTokens, credentials>>
      BY <1>2 DEF IssueCheckPassed, IssueProofValid, IssueFailed,
           IssueAmbiguous, IssuePublished, IssuePublishFailed, IssueCompleted
    <2>4. Signing' \subseteq Signing
      BY <2>2 DEF Signing
    <2>5. Bearers' \subseteq Bearers
      BY <2>2, <2>3, <2>4 DEF Bearers, Signing
    <2> QED  BY <2>3, <2>5, BearersShrink
  <1>3. ASSUME NEW k \in DOMAIN issueCalls,
               NEW id \in Credentials \ DOMAIN credentials, IssueSigned(k, id)
        PROVE  SingleBearer'
    <2> DEFINE x == <<"call", k, issueCalls[k].root>>
               y == <<"credential", id, issueCalls[k].root>>
    <2>1. /\ issueCalls = [j \in DOMAIN issueCalls |-> issueCalls[j]]
          /\ issueCalls[k] \in IssueCall
      BY DEF TypeOK, IsMap
    <2>2. /\ k \in Signing
          /\ Signing' = Signing \ {k}
          /\ \A j \in Signing' : issueCalls'[j] = issueCalls[j]
      BY <1>3, <2>1 DEF IssueSigned, IssueCall, Signing
    <2>3. /\ DOMAIN credentials' = DOMAIN credentials \cup {id}
          /\ credentials'[id].root = issueCalls[k].root
          /\ \A c \in DOMAIN credentials : credentials'[c] = credentials[c]
      BY <1>3 DEF IssueSigned, Put
    <2>4. UNCHANGED <<grants, accessTokens>>
      BY <1>3 DEF IssueSigned
    <2>5. Bearers' \subseteq (Bearers \ {x}) \cup {y}
      BY <2>2, <2>3, <2>4 DEF Bearers
    <2>6. x \in Bearers /\ x[3] = y[3]
      BY <2>2 DEF Bearers
    <2> QED  BY <2>4, <2>5, <2>6, BearerPassedOn
  <1> QED  BY <1>1, <1>2, <1>3 DEF IssueNext

\* A status change keeps the credential and its offer.
LEMMA StatusSingle ==
    ASSUME TypeOK, SingleBearer, StatusNext
    PROVE  SingleBearer'
  <1>1. ASSUME NEW k \in DOMAIN statusCalls, StatusChanged(k)
        PROVE  SingleBearer'
    <2>1. /\ credentials = [c \in DOMAIN credentials |-> credentials[c]]
          /\ \A c \in DOMAIN credentials : credentials[c] \in CredentialRecord
      BY DEF TypeOK, IsMap
    <2>2. /\ DOMAIN credentials' = DOMAIN credentials
          /\ \A c \in DOMAIN credentials :
                credentials'[c].root = credentials[c].root
      BY <1>1, <2>1 DEF StatusChanged, CredentialRecord
    <2>3. Bearers' \subseteq Bearers
      BY <1>1, <2>2 DEF StatusChanged, Bearers, Signing
    <2> QED  BY <1>1, <2>3, BearersShrink DEF StatusChanged
  <1>2. CASE UNCHANGED <<grants, accessTokens, issueCalls, credentials>>
    BY <1>2, BearersShrink DEF Bearers, Signing
  <1> QED  BY <1>1, <1>2 DEF StatusNext, ChangeStatus, StatusPublished,
                             StatusPublishFailed
-----------------------------------------------------------------------------
(* Reviews.                                                                *)

\* What every step does to the sessions it finds.
SessionsKeep ==
    /\ DOMAIN sessions \subseteq DOMAIN sessions'
    /\ \A s \in DOMAIN sessions :
          sessions[s].state # "pending_review" =>
            /\ sessions'[s].reviews = sessions[s].reviews
            /\ sessions'[s].state # "pending_review"
            /\ sessions'[s].state = "approved" => sessions[s].state = "approved"

\* Writing a state after review keeps the sessions and their reviews.
LEMMA SetStateKeeps ==
    ASSUME TypeOK, NEW s,
           NEW state \in {"offered", "issued", "expired", "signing_ambiguous"},
           SetState(s, state)
    PROVE  /\ SessionsKeep
           /\ DOMAIN sessions' = DOMAIN sessions
           /\ \A r \in DOMAIN sessions :
                 /\ sessions'[r].reviews = sessions[r].reviews
                 /\ sessions'[r].state \in {sessions[r].state, state}
                 /\ r # s => sessions'[r] = sessions[r]
  <1>1. /\ sessions = [r \in DOMAIN sessions |-> sessions[r]]
        /\ \A r \in DOMAIN sessions : sessions[r] \in SessionRecord
    BY DEF TypeOK, IsMap
  <1> QED  BY <1>1 DEF SetState, SessionRecord, SessionsKeep

\* No step reopens a session or rewrites its reviews after the decision.
LEMMA SessionsKept ==
    ASSUME TypeOK, [Next]_vars
    PROVE  SessionsKeep
  <1>0. CASE UNCHANGED sessions
    BY <1>0 DEF SessionsKeep
  <1>1. ASSUME NEW s \in Sessions, NEW i \in Issuers, NEW t \in Templates,
               NEW p \in Policies, NEW e \in Expiries,
               NEW c \in Credentials \cup {None},
               CreateIssuanceRequest(s, i, t, p, e, c)
        PROVE  SessionsKeep
    BY <1>1 DEF CreateIssuanceRequest, Put, SessionsKeep
  <1>2. ASSUME NEW s \in Sessions, NEW r \in Reviewers, NEW d \in Decisions,
               ReviewIssuance(s, r, d)
        PROVE  SessionsKeep
    <2>1. CASE SetState(s, "expired")
      BY <2>1, SetStateKeeps
    <2>2. CASE Decide(s, r, d)
      <3>1. /\ sessions = [q \in DOMAIN sessions |-> sessions[q]]
            /\ sessions[s].state = "pending_review"
            /\ DOMAIN sessions' = DOMAIN sessions
            /\ \A q \in DOMAIN sessions : q # s => sessions'[q] = sessions[q]
        BY <2>2 DEF Decide, Reviewable, TypeOK, IsMap
      <3> QED  BY <3>1 DEF SessionsKeep
    <2> QED  BY <1>2, <2>1, <2>2 DEF ReviewIssuance
  <1>3. ASSUME OfferNext PROVE SessionsKeep
    <2>1. CASE UNCHANGED sessions
      BY <2>1, <1>0
    <2>2. ASSUME NEW s, SetState(s, "expired") \/ SetState(s, "offered")
          PROVE  SessionsKeep
      BY <2>2, SetStateKeeps
    <2> QED  BY <1>3, <2>1, <2>2 DEF OfferNext, CreateOffer, OfferKeyActive,
                                     OfferTrusted, OfferRefused
  <1>4. ASSUME NEW k \in IssueSlots, NEW t \in Secrets, IssueCredential(k, t)
        PROVE  SessionsKeep
    <2>1. UNCHANGED sessions \/ SetState(accessTokens[t].session, "expired")
      BY <1>4 DEF IssueCredential, IssueCredentialAccepted,
                  IssueCredentialRefused
    <2> QED  BY <1>0, <2>1, SetStateKeeps
  <1>5. ASSUME NEW k \in DOMAIN issueCalls, IssueAmbiguous(k)
        PROVE  SessionsKeep
    BY <1>5, SetStateKeeps DEF IssueAmbiguous
  <1>6. ASSUME NEW k \in DOMAIN issueCalls, IssueCompleted(k)
        PROVE  SessionsKeep
    <2>1. /\ sessions = [q \in DOMAIN sessions |-> sessions[q]]
          /\ \A q \in DOMAIN sessions : sessions[q] \in SessionRecord
      BY DEF TypeOK, IsMap
    <2> QED  BY <1>6, <2>1 DEF IssueCompleted, SessionRecord, SessionsKeep
  <1>7. CASE IssueNext
    BY <1>0, <1>4, <1>5, <1>6, <1>7 DEF IssueNext, IssueCheckPassed,
         IssueProofValid, IssueFailed, IssueSigned, IssuePublished,
         IssuePublishFailed
  <1>8. CASE Tick \/ ConfigNext \/ GrantNext \/ StatusNext \/ UNCHANGED vars
    BY <1>0, <1>8 DEF Tick, ConfigNext, RegisterTemplate, RegisterIssuer,
         RegisterReviewerPolicy, GrantNext, Authorize, ExchangeToken,
         StatusNext, ChangeStatus, StatusPublished, StatusPublishFailed,
         StatusChanged
  <1> QED  BY <1>1, <1>2, <1>3, <1>7, <1>8 DEF Next, SessionNext

\* Settled sessions stay settled.
LEMMA SettledStays ==
    ASSUME SessionsKeep
    PROVE  Settled \subseteq Settled'
  BY DEF SessionsKeep, Settled, Approved, Rejected

\* Opening and reviewing sessions keeps states and reviews in agreement.
LEMMA SessionSettled ==
    ASSUME TypeOK, StatesAgree, SessionNext
    PROVE  StatesAgree'
  <1>0. /\ sessions = [q \in DOMAIN sessions |-> sessions[q]]
        /\ \A q \in DOMAIN sessions : sessions[q] \in SessionRecord
    BY DEF TypeOK, IsMap
  <1>1. ASSUME NEW s \in Sessions, NEW i \in Issuers, NEW t \in Templates,
               NEW p \in Policies, NEW e \in Expiries,
               NEW c \in Credentials \cup {None},
               CreateIssuanceRequest(s, i, t, p, e, c)
        PROVE  StatesAgree'
    <2>1. /\ s \notin DOMAIN sessions
          /\ DOMAIN sessions' = DOMAIN sessions \cup {s}
          /\ sessions'[s].state = "pending_review"
          /\ \A r \in Reviewers : sessions'[s].reviews[r] = "none"
          /\ \A q \in DOMAIN sessions : sessions'[q] = sessions[q]
      BY <1>1 DEF CreateIssuanceRequest, Put
    <2> QED  BY <2>1 DEF StatesAgree, Settled, Approved, Rejected
  <1>2. ASSUME NEW s \in DOMAIN sessions, SetState(s, "expired")
        PROVE  StatesAgree'
    <2>1. /\ DOMAIN sessions' = DOMAIN sessions
          /\ \A q \in DOMAIN sessions :
                /\ sessions'[q].reviews = sessions[q].reviews
                /\ sessions'[q].state \in {sessions[q].state, "expired"}
      BY <1>2, SetStateKeeps
    <2> QED  BY <2>1 DEF StatesAgree, Settled, Approved, Rejected
  <1>3. ASSUME NEW s \in DOMAIN sessions, NEW r \in Reviewers,
               NEW d \in Decisions, Decide(s, r, d)
        PROVE  StatesAgree'
    <2>1. /\ sessions[s].state = "pending_review"
          /\ DOMAIN sessions' = DOMAIN sessions
          /\ \A q \in DOMAIN sessions : q # s => sessions'[q] = sessions[q]
          /\ sessions'[s].reviews = [sessions[s].reviews EXCEPT ![r] = d]
          /\ d = "rejected" => sessions'[s].state = "rejected"
          /\ sessions'[s].state \in {"rejected", "approved", "pending_review"}
          /\ sessions'[s].state = "rejected" => d = "rejected"
      BY <1>0, <1>3 DEF Decide, Reviewable, SessionRecord, Decisions
    <2>2. sessions[s].reviews \in [Reviewers -> Decisions \cup {"none"}]
      BY <1>0 DEF SessionRecord
    <2>3. \A q \in DOMAIN sessions : q # s =>
             /\ Rejected(q)' <=> Rejected(q)
             /\ (q \in Settled') <=> (q \in Settled)
      BY <2>1 DEF Rejected, Settled, Approved
    <2>4. d = "approved" => ~Rejected(s)' /\ Approved(s)'
      BY <2>1, <2>2 DEF StatesAgree, Rejected, Approved
    <2> QED  BY <2>1, <2>3, <2>4 DEF StatesAgree, Settled, Decisions
  <1> QED  BY <1>1, <1>2, <1>3 DEF SessionNext, ReviewIssuance

\* A state written for a settled session agrees with its reviews.
LEMMA SetStateAgrees ==
    ASSUME TypeOK, StatesAgree, NEW s,
           \/ SetState(s, "expired")
           \/ /\ s \in Settled
              /\ SetState(s, "offered") \/ SetState(s, "signing_ambiguous")
    PROVE  StatesAgree'
  <1>1. PICK state \in {"expired", "offered", "signing_ambiguous"} :
          SetState(s, state) /\ (state # "expired" => s \in Settled)
    OBVIOUS
  <1>2. /\ DOMAIN sessions' = DOMAIN sessions
        /\ SessionsKeep
        /\ \A q \in DOMAIN sessions :
              /\ sessions'[q].reviews = sessions[q].reviews
              /\ sessions'[q].state \in {sessions[q].state, state}
              /\ q # s => sessions'[q] = sessions[q]
    BY <1>1, SetStateKeeps
  <1> QED  BY <1>1, <1>2, SettledStays DEF StatesAgree, Settled, Approved,
                                           Rejected

\* Every step keeps states and reviews in agreement.
LEMMA StatesAgreeStep ==
    ASSUME TypeOK, ReviewsSettled, [Next]_vars
    PROVE  StatesAgree'
  <1>0. CASE UNCHANGED sessions
    BY <1>0 DEF ReviewsSettled, StatesAgree, Settled, Approved, Rejected
  <1>1. CASE SessionNext
    BY <1>1, SessionSettled DEF ReviewsSettled
  <1>2. CASE OfferNext
    <2>1. ASSUME NEW s, SetState(s, "expired")
          PROVE  StatesAgree'
      BY <2>1, SetStateAgrees DEF ReviewsSettled
    <2>2. ASSUME NEW k \in DOMAIN offerCalls,
                 SetState(offerCalls[k].session, "offered")
          PROVE  StatesAgree'
      BY <2>2, SetStateAgrees DEF ReviewsSettled, InUse
    <2> QED  BY <1>0, <1>2, <2>1, <2>2 DEF OfferNext, CreateOffer,
               OfferKeyActive, OfferTrusted, OfferRefused
  <1>3. CASE IssueNext
    <2>1. ASSUME NEW s, SetState(s, "expired")
          PROVE  StatesAgree'
      BY <2>1, SetStateAgrees DEF ReviewsSettled
    <2>2. ASSUME NEW k \in DOMAIN issueCalls, IssueAmbiguous(k)
          PROVE  StatesAgree'
      BY <2>2, SetStateAgrees DEF ReviewsSettled, InUse, IssueAmbiguous
    <2>3. ASSUME NEW k \in DOMAIN issueCalls, IssueCompleted(k)
          PROVE  StatesAgree'
      <3> DEFINE s == issueCalls[k].session
      <3>1. s \in Settled
        BY DEF ReviewsSettled, InUse
      <3>2. /\ sessions = [q \in DOMAIN sessions |-> sessions[q]]
            /\ \A q \in DOMAIN sessions : sessions[q] \in SessionRecord
        BY DEF TypeOK, IsMap
      <3>3. /\ DOMAIN sessions' = DOMAIN sessions
            /\ sessions'[s].reviews = sessions[s].reviews
            /\ sessions'[s].state = "issued"
            /\ \A q \in DOMAIN sessions : q # s => sessions'[q] = sessions[q]
        BY <2>3, <3>1, <3>2 DEF IssueCompleted, SessionRecord, Settled
      <3> QED  BY <3>1, <3>3 DEF ReviewsSettled, StatesAgree, Settled,
                                 Approved, Rejected
    <2> QED  BY <1>0, <1>3, <2>1, <2>2, <2>3 DEF IssueNext, IssueCredential,
               IssueCredentialAccepted, IssueCredentialRefused,
               IssueCheckPassed, IssueProofValid, IssueFailed, IssueSigned,
               IssuePublished, IssuePublishFailed
  <1>4. CASE Tick \/ ConfigNext \/ GrantNext \/ StatusNext \/ UNCHANGED vars
    BY <1>0, <1>4 DEF Tick, ConfigNext, RegisterTemplate, RegisterIssuer,
         RegisterReviewerPolicy, GrantNext, Authorize, ExchangeToken,
         StatusNext, ChangeStatus, StatusPublished, StatusPublishFailed,
         StatusChanged
  <1> QED  BY <1>1, <1>2, <1>3, <1>4 DEF Next

\* The clock, the configuration and reviews touch nothing that is in use.
LEMMA QuietSteps ==
    ASSUME Tick \/ ConfigNext \/ SessionNext \/ UNCHANGED vars
    PROVE  UNCHANGED <<offerCalls, grants, accessTokens, issueCalls,
                       credentials, statusCalls, registry, returned>>
  <1>1. CASE Tick \/ UNCHANGED vars
    BY <1>1 DEF Tick
  <1>2. CASE ConfigNext
    BY <1>2 DEF ConfigNext, RegisterTemplate, RegisterIssuer,
         RegisterReviewerPolicy
  <1>3. CASE SessionNext
    <2>1. ASSUME NEW s, NEW i, NEW t, NEW p, NEW e, NEW c,
                 CreateIssuanceRequest(s, i, t, p, e, c)
          PROVE  UNCHANGED <<offerCalls, grants, accessTokens, issueCalls,
                             credentials, statusCalls, registry, returned>>
      BY <2>1 DEF CreateIssuanceRequest
    <2>2. ASSUME NEW s, NEW r, NEW d, ReviewIssuance(s, r, d)
          PROVE  UNCHANGED <<offerCalls, grants, accessTokens, issueCalls,
                             credentials, statusCalls, registry, returned>>
      BY <2>2 DEF ReviewIssuance
    <2> QED  BY <1>3, <2>1, <2>2 DEF SessionNext
  <1> QED  BY <1>1, <1>2, <1>3

\* What a step takes into use was in use before, or has just been approved.
LEMMA InUseGrows ==
    ASSUME TypeOK, [Next]_vars
    PROVE  InUse' \subseteq InUse \cup {s \in DOMAIN sessions :
                                          sessions[s].state = "approved"}
  <1> DEFINE Goal == InUse' \subseteq InUse \cup {s \in DOMAIN sessions :
                                          sessions[s].state = "approved"}
  <1>0. CASE UNCHANGED <<offerCalls, grants, accessTokens, issueCalls,
                         credentials>>
    BY <1>0 DEF InUse
  <1>1. ASSUME NEW k \in OfferSlots, NEW s \in Sessions,
               NEW kind \in GrantKinds,
               NEW client \in Clients \cup {None}, NEW ttl \in OfferTTLs,
               CreateOffer(k, s, kind, client, ttl)
        PROVE  Goal
    <2>1. CASE UNCHANGED offerCalls
      BY <1>0, <1>1, <2>1 DEF CreateOffer
    <2>2. CASE /\ sessions[s].state = "approved"
               /\ offerCalls' = Put(offerCalls, k,
                     [pc |-> "describeKey", session |-> s, kind |-> kind,
                      client |-> client, ttl |-> ttl])
      <3>1. \A j \in DOMAIN offerCalls' :
               \/ offerCalls'[j].session = s
               \/ j \in DOMAIN offerCalls /\ offerCalls'[j] = offerCalls[j]
        BY <2>2 DEF Put
      <3>2. UNCHANGED <<grants, accessTokens, issueCalls, credentials>>
            /\ s \in DOMAIN sessions
        BY <1>1 DEF CreateOffer
      <3> QED  BY <2>2, <3>1, <3>2 DEF InUse
    <2> QED  BY <1>1, <2>1, <2>2 DEF CreateOffer
  <1>2. ASSUME NEW k \in DOMAIN offerCalls,
               OfferKeyActive(k) \/ OfferRefused(k)
        PROVE  Goal
    <2>1. \A j \in DOMAIN offerCalls' :
             j \in DOMAIN offerCalls
             /\ offerCalls'[j].session = offerCalls[j].session
      BY <1>2 DEF OfferKeyActive, OfferRefused, Drop, TypeOK, IsMap, OfferCall
    <2>2. UNCHANGED <<grants, accessTokens, issueCalls, credentials>>
      BY <1>2 DEF OfferKeyActive, OfferRefused
    <2> QED  BY <2>1, <2>2 DEF InUse
  <1>12. ASSUME NEW k \in DOMAIN offerCalls, NEW secret \in FreshSecrets,
                OfferTrusted(k, secret)
         PROVE  Goal
    <2>1. \A j \in DOMAIN offerCalls' :
             j \in DOMAIN offerCalls /\ offerCalls'[j] = offerCalls[j]
      BY <1>12 DEF OfferTrusted, Drop
    <2>2. \A g \in DOMAIN grants' :
             \/ g \in DOMAIN grants /\ grants'[g] = grants[g]
             \/ grants'[g].session = offerCalls[k].session
      BY <1>12 DEF OfferTrusted, Put
    <2>3. UNCHANGED <<accessTokens, issueCalls, credentials>>
      BY <1>12 DEF OfferTrusted
    <2> QED  BY <2>1, <2>2, <2>3 DEF InUse
  <1>3. ASSUME NEW g \in Secrets, NEW client, NEW fresh,
               Authorize(g, client, fresh) \/ ExchangeToken(g, client, fresh)
        PROVE  Goal
    <2>0. /\ g \in DOMAIN grants
          /\ DOMAIN Consume(g) = DOMAIN grants
          /\ \A h \in DOMAIN grants :
                Consume(g)[h].session = grants[h].session
      BY <1>3 DEF Authorize, ExchangeToken, ConsumableGrant, Consume, TypeOK,
                  IsMap, GrantRecord
    <2>1. \A h \in DOMAIN grants' :
             \/ h \in DOMAIN grants /\ grants'[h].session = grants[h].session
             \/ grants'[h].session = grants[g].session
      BY <1>3, <2>0 DEF Authorize, ExchangeToken, Put
    <2>2. \A t \in DOMAIN accessTokens' :
             \/ t \in DOMAIN accessTokens
                /\ accessTokens'[t] = accessTokens[t]
             \/ accessTokens'[t].session = grants[g].session
      BY <1>3 DEF Authorize, ExchangeToken, Put
    <2>3. UNCHANGED <<offerCalls, issueCalls, credentials>>
      BY <1>3 DEF Authorize, ExchangeToken
    <2> QED  BY <2>0, <2>1, <2>2, <2>3 DEF InUse
  <1>4. ASSUME NEW k \in IssueSlots, NEW t \in Secrets, IssueCredential(k, t)
        PROVE  Goal
    <2>1. /\ t \in DOMAIN accessTokens
          /\ DOMAIN accessTokens' = DOMAIN accessTokens
          /\ \A u \in DOMAIN accessTokens :
                accessTokens'[u].session = accessTokens[u].session
      BY <1>4 DEF IssueCredential, ConsumableToken, TypeOK, IsMap, TokenRecord
    <2>2. \A j \in DOMAIN issueCalls' :
             \/ j \in DOMAIN issueCalls /\ issueCalls'[j] = issueCalls[j]
             \/ issueCalls'[j].session = accessTokens[t].session
      BY <1>4 DEF IssueCredential, IssueCredentialAccepted, Put
    <2>3. UNCHANGED <<offerCalls, grants, credentials>>
      BY <1>4 DEF IssueCredential
    <2> QED  BY <2>1, <2>2, <2>3 DEF InUse
  <1>5. ASSUME NEW k \in DOMAIN issueCalls,
               \/ IssueCheckPassed(k) \/ IssueProofValid(k)
               \/ IssueFailed(k) \/ IssueAmbiguous(k)
               \/ IssuePublished(k) \/ IssuePublishFailed(k)
               \/ IssueCompleted(k)
        PROVE  Goal
    <2>0. /\ issueCalls = [j \in DOMAIN issueCalls |-> issueCalls[j]]
          /\ \A j \in DOMAIN issueCalls : issueCalls[j] \in IssueCall
      BY DEF TypeOK, IsMap
    <2>1. \A j \in DOMAIN issueCalls' :
             j \in DOMAIN issueCalls
             /\ issueCalls'[j].session = issueCalls[j].session
      BY <1>5, <2>0 DEF IssueCheckPassed, IssueProofValid, IssueFailed,
           IssueAmbiguous, IssuePublished, IssuePublishFailed,
           IssueCompleted, IssueCall, Drop
    <2>2. UNCHANGED <<offerCalls, grants, accessTokens, credentials>>
      BY <1>5 DEF IssueCheckPassed, IssueProofValid, IssueFailed,
           IssueAmbiguous, IssuePublished, IssuePublishFailed, IssueCompleted
    <2> QED  BY <2>1, <2>2 DEF InUse
  <1>13. ASSUME NEW k \in DOMAIN issueCalls,
                NEW id \in Credentials \ DOMAIN credentials,
                IssueSigned(k, id)
         PROVE  Goal
    <2>1. \A j \in DOMAIN issueCalls' :
             j \in DOMAIN issueCalls
             /\ issueCalls'[j].session = issueCalls[j].session
      <3>1. \A j \in DOMAIN issueCalls : issueCalls[j] \in IssueCall
        BY DEF TypeOK, IsMap
      <3>2. /\ DOMAIN issueCalls' = DOMAIN issueCalls
            /\ \A j \in DOMAIN issueCalls \ {k} : issueCalls'[j] = issueCalls[j]
        BY <1>13 DEF IssueSigned
      <3>3. issueCalls'[k].session = issueCalls[k].session
        BY <1>13, <3>1 DEF IssueSigned, IssueCall
      <3> QED  BY <3>2, <3>3
    <2>2. \A c \in DOMAIN credentials' :
             \/ c \in DOMAIN credentials /\ credentials'[c] = credentials[c]
             \/ credentials'[c].session = issueCalls[k].session
      <3>1. PICK x : credentials' = Put(credentials, id, x) /\ x.session = issueCalls[k].session
        BY <1>13 DEF IssueSigned
      <3> QED  BY <3>1 DEF Put
    <2>3. UNCHANGED <<offerCalls, grants, accessTokens>>
      BY <1>13 DEF IssueSigned
    <2> QED  BY <2>1, <2>2, <2>3 DEF InUse
  <1>6. ASSUME NEW k \in DOMAIN statusCalls, StatusChanged(k)
        PROVE  Goal
    <2>1. /\ DOMAIN credentials' = DOMAIN credentials
          /\ \A c \in DOMAIN credentials :
                credentials'[c].session = credentials[c].session
      BY <1>6 DEF StatusChanged, TypeOK, IsMap, CredentialRecord
    <2>2. UNCHANGED <<offerCalls, grants, accessTokens, issueCalls>>
      BY <1>6 DEF StatusChanged
    <2> QED  BY <2>1, <2>2 DEF InUse
  <1>7. CASE OfferNext
    BY <1>1, <1>2, <1>7, <1>12 DEF OfferNext
  <1>8. CASE GrantNext
    BY <1>3, <1>8 DEF GrantNext
  <1>9. CASE IssueNext
    BY <1>4, <1>5, <1>9, <1>13 DEF IssueNext
  <1>10. CASE StatusNext
    BY <1>0, <1>6, <1>10 DEF StatusNext, ChangeStatus, StatusPublished,
                             StatusPublishFailed
  <1>11. CASE Tick \/ ConfigNext \/ SessionNext \/ UNCHANGED vars
    BY <1>0, <1>11, QuietSteps
  <1> QED  BY <1>7, <1>8, <1>9, <1>10, <1>11 DEF Next

\* Every step keeps what is in use settled.
LEMMA ReviewsStep ==
    ASSUME TypeOK, ReviewsSettled, [Next]_vars
    PROVE  ReviewsSettled'
  <1>1. Settled \subseteq Settled'
    BY SessionsKept, SettledStays
  <1>2. InUse' \subseteq Settled
    BY InUseGrows DEF ReviewsSettled, StatesAgree
  <1>3. StatesAgree'
    BY StatesAgreeStep
  <1> QED  BY <1>1, <1>2, <1>3 DEF ReviewsSettled
-----------------------------------------------------------------------------
(* Publication of status.                                                  *)

\* Steps of the issuer before signing leave publication alone.
LEMMA UnpublishedSteps ==
    ASSUME OfferNext \/ GrantNext
    PROVE  UNCHANGED <<issueCalls, credentials, statusCalls, registry,
                       returned>>
  BY DEF OfferNext, CreateOffer, OfferKeyActive, OfferTrusted, OfferRefused,
         GrantNext, Authorize, ExchangeToken

\* A record under publication stays with its call.
LEMMA IssueExclusive ==
    ASSUME TypeOK, PublicationsExclusive, IssueNext
    PROVE  PublicationsExclusive'
  <1>0. /\ issueCalls = [j \in DOMAIN issueCalls |-> issueCalls[j]]
        /\ \A j \in DOMAIN issueCalls : issueCalls[j] \in IssueCall
    BY DEF TypeOK, IsMap
  <1>1. ASSUME NEW k \in IssueSlots, NEW t \in Secrets, IssueCredential(k, t)
        PROVE  PublicationsExclusive'
    <2>1. /\ \A j \in DOMAIN issueCalls' \ Signing' :
                /\ j \in DOMAIN issueCalls \ Signing
                /\ issueCalls'[j] = issueCalls[j]
          /\ UNCHANGED <<credentials, statusCalls, registry, returned>>
      BY <1>1 DEF IssueCredential, IssueCredentialAccepted, Put, Signing
    <2> QED  BY <2>1 DEF PublicationsExclusive
  <1>2. ASSUME NEW k \in DOMAIN issueCalls,
               \/ IssueCheckPassed(k) \/ IssueProofValid(k)
               \/ IssueFailed(k) \/ IssueAmbiguous(k)
               \/ IssuePublishFailed(k)
        PROVE  PublicationsExclusive'
    <2>1. /\ \A j \in DOMAIN issueCalls' \ Signing' :
                /\ j \in DOMAIN issueCalls \ Signing
                /\ issueCalls'[j] = issueCalls[j]
          /\ UNCHANGED <<credentials, statusCalls, registry, returned>>
      BY <1>0, <1>2 DEF IssueCheckPassed, IssueProofValid, IssueFailed,
           IssueAmbiguous, IssuePublishFailed, Drop, Signing, IssueCall
    <2> QED  BY <2>1 DEF PublicationsExclusive
  <1>3. ASSUME NEW k \in DOMAIN issueCalls,
               NEW id \in Credentials \ DOMAIN credentials, IssueSigned(k, id)
        PROVE  PublicationsExclusive'
    <2>1. /\ DOMAIN issueCalls' = DOMAIN issueCalls
          /\ Signing' = Signing \ {k}
          /\ issueCalls'[k].credential = id
          /\ issueCalls'[k].pc = "publish"
          /\ issueCalls'[k].session = issueCalls[k].session
          /\ \A j \in DOMAIN issueCalls : j # k => issueCalls'[j] = issueCalls[j]
      BY <1>0, <1>3 DEF IssueSigned, IssueCall, Signing
    <2>2. /\ DOMAIN credentials' = DOMAIN credentials \cup {id}
          /\ credentials'[id].session = issueCalls[k].session
          /\ credentials'[id].status = "valid"
          /\ \A c \in DOMAIN credentials : credentials'[c] = credentials[c]
          /\ UNCHANGED <<statusCalls, registry, returned>>
      BY <1>3 DEF IssueSigned, Put
    <2> QED  BY <2>1, <2>2 DEF PublicationsExclusive
  <1>4. ASSUME NEW k \in DOMAIN issueCalls, IssuePublished(k)
        PROVE  PublicationsExclusive'
    <2> DEFINE id == issueCalls[k].credential
    <2>1. /\ DOMAIN issueCalls' = DOMAIN issueCalls
          /\ Signing' = Signing /\ k \notin Signing
          /\ \A j \in DOMAIN issueCalls :
                /\ issueCalls'[j].credential = issueCalls[j].credential
                /\ issueCalls'[j].session = issueCalls[j].session
                /\ j # k => issueCalls'[j] = issueCalls[j]
      BY <1>0, <1>4 DEF IssuePublished, IssueCall, Signing
    <2>2. /\ DOMAIN registry' = DOMAIN registry \cup {id}
          /\ \A c \in DOMAIN registry : c # id => registry'[c] = registry[c]
          /\ UNCHANGED <<credentials, statusCalls, returned>>
      BY <1>4 DEF IssuePublished, Put
    <2>3. id \notin returned
      BY <2>1 DEF PublicationsExclusive
    <2> QED  BY <2>1, <2>2, <2>3 DEF PublicationsExclusive
  <1>5. ASSUME NEW k \in DOMAIN issueCalls, IssueCompleted(k)
        PROVE  PublicationsExclusive'
    <2> DEFINE id == issueCalls[k].credential
    <2>1. /\ DOMAIN issueCalls' = DOMAIN issueCalls \ {k}
          /\ Signing' = Signing /\ k \notin Signing
          /\ \A j \in DOMAIN issueCalls' : issueCalls'[j] = issueCalls[j]
          /\ returned' = returned \cup {id}
          /\ UNCHANGED <<credentials, statusCalls, registry>>
      BY <1>0, <1>5 DEF IssueCompleted, Drop, Signing
    <2>2. id \in DOMAIN registry \cap DOMAIN credentials
      BY <1>5, <2>1 DEF PublicationsExclusive, IssueCompleted
    <2> QED  BY <2>1, <2>2 DEF PublicationsExclusive
  <1> QED  BY <1>1, <1>2, <1>3, <1>4, <1>5 DEF IssueNext

\* Status changes concern credentials nobody is publishing any more.
LEMMA StatusExclusive ==
    ASSUME TypeOK, PublicationsExclusive, StatusNext
    PROVE  PublicationsExclusive'
  <1>0. /\ statusCalls = [j \in DOMAIN statusCalls |-> statusCalls[j]]
        /\ \A j \in DOMAIN statusCalls : statusCalls[j] \in StatusCall
    BY DEF TypeOK, IsMap
  <1>1. ASSUME NEW k \in StatusSlots, NEW id \in Credentials,
               NEW status \in {"suspended", "revoked"},
               ChangeStatus(k, id, status)
        PROVE  PublicationsExclusive'
    <2>1. /\ \A j \in DOMAIN statusCalls' :
                \/ j \in DOMAIN statusCalls /\ statusCalls'[j] = statusCalls[j]
                \/ /\ statusCalls'[j].credential \in returned
                   /\ statusCalls'[j].pc = "publish"
          /\ UNCHANGED <<issueCalls, credentials, registry, returned>>
      BY <1>1 DEF ChangeStatus, Put
    <2> QED  BY <2>1 DEF PublicationsExclusive, Signing
  <1>2. ASSUME NEW k \in DOMAIN statusCalls, StatusPublished(k)
        PROVE  PublicationsExclusive'
    <2> DEFINE id == statusCalls[k].credential
    <2>1. /\ DOMAIN statusCalls' = DOMAIN statusCalls
          /\ statusCalls[k].status # "valid"
          /\ \A j \in DOMAIN statusCalls :
                /\ statusCalls'[j].credential = statusCalls[j].credential
                /\ j # k => statusCalls'[j] = statusCalls[j]
      BY <1>0, <1>2 DEF StatusPublished, StatusCall
    <2>2. /\ DOMAIN registry' = DOMAIN registry \cup {id}
          /\ registry'[id] = statusCalls[k].status
          /\ \A c \in DOMAIN registry : c # id => registry'[c] = registry[c]
          /\ UNCHANGED <<issueCalls, credentials, returned>>
      BY <1>2 DEF StatusPublished, Put
    <2> QED  BY <2>1, <2>2 DEF PublicationsExclusive, Signing
  <1>3. ASSUME NEW k \in DOMAIN statusCalls, StatusPublishFailed(k)
        PROVE  PublicationsExclusive'
    BY <1>3 DEF StatusPublishFailed, Drop, PublicationsExclusive, Signing
  <1>4. ASSUME NEW k \in DOMAIN statusCalls, StatusChanged(k)
        PROVE  PublicationsExclusive'
    <2>1. /\ DOMAIN credentials' = DOMAIN credentials
          /\ \A c \in DOMAIN credentials :
                /\ credentials'[c].session = credentials[c].session
                /\ c # statusCalls[k].credential =>
                      credentials'[c] = credentials[c]
      BY <1>4 DEF StatusChanged, TypeOK, IsMap, CredentialRecord
    <2>2. /\ \A j \in DOMAIN statusCalls' :
                j \in DOMAIN statusCalls /\ statusCalls'[j] = statusCalls[j]
          /\ UNCHANGED <<issueCalls, registry, returned>>
      BY <1>4 DEF StatusChanged, Drop
    <2> QED  BY <2>1, <2>2 DEF PublicationsExclusive, Signing
  <1> QED  BY <1>1, <1>2, <1>3, <1>4 DEF StatusNext

\* Every step keeps publications exclusive.
LEMMA ExclusiveStep ==
    ASSUME TypeOK, PublicationsExclusive, [Next]_vars
    PROVE  PublicationsExclusive'
  <1>1. CASE UNCHANGED <<issueCalls, credentials, statusCalls, registry,
                         returned>>
    BY <1>1 DEF PublicationsExclusive, Signing
  <1> QED  BY <1>1, QuietSteps, UnpublishedSteps, IssueExclusive,
              StatusExclusive DEF Next

\* Every step keeps the records' restrictions on the public list.
LEMMA RestrictionsStep ==
    ASSUME TypeOK, PublicationsExclusive, RestrictionsArePublished,
           [Next]_vars
    PROVE  RestrictionsArePublished'
  <1>1. CASE UNCHANGED <<credentials, registry>>
    BY <1>1 DEF RestrictionsArePublished
  <1>2. ASSUME NEW k \in DOMAIN issueCalls,
               NEW id \in Credentials \ DOMAIN credentials, IssueSigned(k, id)
        PROVE  RestrictionsArePublished'
    <2>1. PICK x : /\ credentials' = Put(credentials, id, x) /\ x.status = "valid"
                   /\ UNCHANGED registry
      BY <1>2 DEF IssueSigned
    <2>2. /\ DOMAIN credentials' = DOMAIN credentials \cup {id} /\ credentials'[id] = x
          /\ \A j \in DOMAIN credentials : credentials'[j] = credentials[j]
      BY <2>1 DEF Put
    <2> QED  BY <2>1, <2>2 DEF RestrictionsArePublished
  <1>3. ASSUME NEW k \in DOMAIN issueCalls, IssuePublished(k)
        PROVE  RestrictionsArePublished'
    <2> DEFINE id == issueCalls[k].credential
    <2>1. id \notin returned
      BY <1>3 DEF IssuePublished, PublicationsExclusive, Signing
    <2>2. id \in DOMAIN credentials => credentials[id].status = "valid"
      BY <2>1 DEF PublicationsExclusive
    <2> QED  BY <1>3, <2>2 DEF IssuePublished, Put, RestrictionsArePublished
  <1>4. ASSUME NEW k \in DOMAIN statusCalls, StatusPublished(k)
        PROVE  RestrictionsArePublished'
    <2>1. statusCalls[k].status # "valid"
      BY DEF TypeOK, IsMap, StatusCall
    <2> QED  BY <1>4, <2>1 DEF StatusPublished, Put, RestrictionsArePublished
  <1>5. ASSUME NEW k \in DOMAIN statusCalls, StatusChanged(k)
        PROVE  RestrictionsArePublished'
    <2> DEFINE id == statusCalls[k].credential
    <2>1. id \in DOMAIN registry /\ registry[id] # "valid"
      BY <1>5 DEF StatusChanged, PublicationsExclusive
    <2>2. registry' = registry
      BY <1>5 DEF StatusChanged
    <2>3. credentials' = [credentials EXCEPT ![id].status = statusCalls[k].status]
      BY <1>5 DEF StatusChanged
    <2>4. ASSUME NEW f, NEW v
          PROVE  /\ DOMAIN [f EXCEPT ![id].status = v] = DOMAIN f
                 /\ \A c \in DOMAIN f : c # id => [f EXCEPT ![id].status = v][c] = f[c]
      OBVIOUS
    <2>5. /\ DOMAIN credentials' = DOMAIN credentials
          /\ \A c \in DOMAIN credentials : c # id => credentials'[c] = credentials[c]
      BY <2>3, <2>4, Zenon
    <2> QED  BY <2>1, <2>2, <2>5 DEF RestrictionsArePublished
  <1>6. CASE IssueNext
    BY <1>1, <1>2, <1>3, <1>6 DEF IssueNext, IssueCredential,
         IssueCheckPassed, IssueProofValid, IssueFailed, IssueAmbiguous,
         IssuePublishFailed, IssueCompleted
  <1>7. CASE StatusNext
    BY <1>1, <1>4, <1>5, <1>7 DEF StatusNext, ChangeStatus,
         StatusPublishFailed
  <1> QED  BY <1>1, <1>6, <1>7, QuietSteps, UnpublishedSteps DEF Next

\* Every step erases claims only for a session whose credential is delivered.
LEMMA ErasedStep ==
    ASSUME TypeOK, ReviewsSettled, PublicationsExclusive,
           ErasedOnlyAfterDelivery, [Next]_vars
    PROVE  ErasedOnlyAfterDelivery'
  <1> DEFINE Delivered == {credentials[c].session :
                 c \in returned \cap DOMAIN credentials \cap DOMAIN registry}
             Done == {s \in DOMAIN sessions : \/ sessions[s].claims = "erased"
                                              \/ sessions[s].state = "issued"}
  <1>1. ErasedOnlyAfterDelivery <=> Done \subseteq Delivered
    BY DEF ErasedOnlyAfterDelivery
  <1>2. ErasedOnlyAfterDelivery' <=> Done' \subseteq Delivered'
    BY DEF ErasedOnlyAfterDelivery
  <1>3. Delivered \subseteq Delivered'
    <2>1. CASE UNCHANGED <<credentials, registry, returned>>
      BY <2>1
    <2>2. ASSUME /\ returned \subseteq returned'
                 /\ DOMAIN registry \subseteq DOMAIN registry'
                 /\ DOMAIN credentials \subseteq DOMAIN credentials'
                 /\ \A c \in DOMAIN credentials :
                       credentials'[c].session = credentials[c].session
          PROVE  Delivered \subseteq Delivered'
      BY <2>2
    <2>3. ASSUME NEW k \in DOMAIN issueCalls,
                 NEW id \in Credentials \ DOMAIN credentials,
                 IssueSigned(k, id)
          PROVE  Delivered \subseteq Delivered'
      <3>1. PICK x : credentials' = Put(credentials, id, x) /\ UNCHANGED <<registry, returned>>
        BY <2>3 DEF IssueSigned
      <3>2. /\ DOMAIN credentials \subseteq DOMAIN credentials'
            /\ \A j \in DOMAIN credentials : credentials'[j] = credentials[j]
        BY <3>1 DEF Put
      <3> HIDE DEF Delivered
      <3> QED  BY <2>2, <3>1, <3>2
    <2>4. ASSUME NEW k \in DOMAIN issueCalls,
                 IssuePublished(k) \/ IssueCompleted(k)
          PROVE  Delivered \subseteq Delivered'
      BY <2>2, <2>4 DEF IssuePublished, IssueCompleted, Put
    <2>5. CASE IssueNext
      BY <2>1, <2>3, <2>4, <2>5 DEF IssueNext, IssueCredential,
         IssueCheckPassed, IssueProofValid, IssueFailed, IssueAmbiguous,
         IssuePublishFailed
    <2>6. ASSUME NEW k \in DOMAIN statusCalls, StatusPublished(k)
          PROVE  Delivered \subseteq Delivered'
      BY <2>2, <2>6 DEF StatusPublished, Put
    <2>7. ASSUME NEW k \in DOMAIN statusCalls, StatusChanged(k)
          PROVE  Delivered \subseteq Delivered'
      BY <2>2, <2>7 DEF StatusChanged, TypeOK, IsMap, CredentialRecord
    <2>8. CASE StatusNext
      BY <2>1, <2>6, <2>7, <2>8 DEF StatusNext, ChangeStatus,
         StatusPublishFailed
    <2> QED  BY <2>1, <2>5, <2>8, QuietSteps, UnpublishedSteps DEF Next
  <1>4. ASSUME NEW k \in DOMAIN issueCalls, IssueCompleted(k)
        PROVE  Done' \subseteq Delivered'
    <2> DEFINE id == issueCalls[k].credential
               s  == issueCalls[k].session
    <2>1. /\ id \in DOMAIN credentials \cap DOMAIN registry
          /\ credentials[id].session = s
      BY <1>4 DEF IssueCompleted, PublicationsExclusive, Signing
    <2>2. s \in Delivered'
      BY <1>4, <2>1 DEF IssueCompleted
    <2>3. Done' \subseteq Done \cup {s}
      BY <1>4 DEF IssueCompleted, TypeOK, IsMap
    <2> QED  BY <1>1, <1>3, <2>2, <2>3
  <1>5. CASE UNCHANGED sessions
    BY <1>1, <1>2, <1>3, <1>5
  <1>6. ASSUME NEW s, NEW state \in {"expired", "offered", "signing_ambiguous"},
               SetState(s, state)
        PROVE  Done' \subseteq Done
    BY <1>6 DEF SetState, TypeOK, IsMap, SessionRecord
  <1>7. CASE SessionNext
    <2>1. ASSUME NEW s \in Sessions, NEW i \in Issuers, NEW t \in Templates,
                 NEW p \in Policies, NEW e \in Expiries,
                 NEW c \in Credentials \cup {None},
                 CreateIssuanceRequest(s, i, t, p, e, c)
          PROVE  Done' \subseteq Done
      BY <2>1 DEF CreateIssuanceRequest, Put
    <2>2. ASSUME NEW s \in DOMAIN sessions, NEW r \in Reviewers,
                 NEW d \in Decisions, Decide(s, r, d)
          PROVE  Done' \subseteq Done
      <3>1. /\ DOMAIN sessions' = DOMAIN sessions
            /\ \A q \in DOMAIN sessions : q # s => sessions'[q] = sessions[q]
            /\ sessions'[s].claims = sessions[s].claims
            /\ sessions'[s].state # "issued"
        BY <2>2 DEF Decide, Reviewable, TypeOK, IsMap, SessionRecord
      <3> QED  BY <3>1
    <2>3. Done' \subseteq Done
      BY <1>6, <1>7, <2>1, <2>2 DEF SessionNext, ReviewIssuance
    <2> QED  BY <1>1, <1>2, <1>3, <2>3
  <1>8. CASE OfferNext
    <2>1. UNCHANGED sessions \/ Done' \subseteq Done
      BY <1>6, <1>8 DEF OfferNext, CreateOffer, OfferKeyActive, OfferTrusted,
                        OfferRefused
    <2> QED  BY <1>1, <1>2, <1>3, <1>5, <2>1
  <1>9. CASE IssueNext
    <2>1. \/ UNCHANGED sessions \/ Done' \subseteq Done
          \/ \E k \in DOMAIN issueCalls : IssueCompleted(k)
      BY <1>6, <1>9 DEF IssueNext, IssueCredential, IssueCredentialAccepted,
         IssueCredentialRefused, IssueCheckPassed, IssueProofValid,
         IssueFailed, IssueAmbiguous, IssueSigned, IssuePublished,
         IssuePublishFailed
    <2> QED  BY <1>1, <1>2, <1>3, <1>4, <1>5, <2>1
  <1>10. CASE Tick \/ ConfigNext \/ GrantNext \/ StatusNext \/ UNCHANGED vars
    <2>1. UNCHANGED sessions
      BY <1>10 DEF Tick, ConfigNext, RegisterTemplate, RegisterIssuer,
         RegisterReviewerPolicy, GrantNext, Authorize, ExchangeToken,
         StatusNext, ChangeStatus, StatusPublished, StatusPublishFailed,
         StatusChanged
    <2> QED  BY <1>5, <2>1
  <1> QED  BY <1>2, <1>7, <1>8, <1>9, <1>10 DEF Next
-----------------------------------------------------------------------------
(* Expiry.                                                                 *)

\* Every step keeps roots stored and every descendant within its offer.
LEMMA ExpiryStep ==
    ASSUME TypeOK, RootsStored, DescendantsExpireWithOffer, [Next]_vars
    PROVE  RootsStored' /\ DescendantsExpireWithOffer'
  <1> DEFINE Goal == RootsStored' /\ DescendantsExpireWithOffer'
  <1>0. /\ grants = [h \in DOMAIN grants |-> grants[h]]
        /\ \A h \in DOMAIN grants : grants[h] \in GrantRecord
        /\ \A t \in DOMAIN accessTokens : accessTokens[t] \in TokenRecord
    BY DEF TypeOK, IsMap
  <1>1. CASE UNCHANGED <<grants, accessTokens>>
    BY <1>1 DEF RootsStored, DescendantsExpireWithOffer
  <1>2. ASSUME NEW k \in DOMAIN offerCalls, NEW secret \in FreshSecrets,
               OfferTrusted(k, secret)
        PROVE  Goal
    <2>1. /\ secret \notin DOMAIN grants
          /\ DOMAIN grants' = DOMAIN grants \cup {secret}
          /\ grants'[secret].root = secret
          /\ grants'[secret].expiresAt = now + offerCalls[k].ttl
          /\ \A g \in DOMAIN grants : grants'[g] = grants[g]
          /\ accessTokens' = accessTokens
      BY <1>2 DEF OfferTrusted, Put, FreshSecrets
    <2>2. now + offerCalls[k].ttl \in Nat
      BY DEF TypeOK, IsMap, OfferCall
    <2> QED  BY <2>1, <2>2 DEF RootsStored, DescendantsExpireWithOffer
  <1>3. ASSUME NEW g \in DOMAIN grants
        PROVE  /\ DOMAIN Consume(g) = DOMAIN grants
               /\ \A h \in DOMAIN grants :
                     /\ Consume(g)[h].root = grants[h].root
                     /\ Consume(g)[h].expiresAt = grants[h].expiresAt
    BY <1>0 DEF Consume, GrantRecord
  <1>4. ASSUME NEW g \in DOMAIN grants
        PROVE  /\ Bounded(g) \in Nat
               /\ Bounded(g) <= grants[grants[g].root].expiresAt
    <2>1. /\ grants[g].expiresAt <= grants[grants[g].root].expiresAt
          /\ grants[grants[g].root].expiresAt \in Nat
          /\ grants[g].expiresAt \in Nat /\ now \in Nat
      BY <1>0 DEF DescendantsExpireWithOffer, RootsStored, GrantRecord, TypeOK
    <2> QED  BY <2>1 DEF Bounded, MinOf
  <1>5. ASSUME NEW g \in Secrets, NEW client \in Clients,
               NEW code \in FreshSecrets, Authorize(g, client, code)
        PROVE  Goal
    <2>0. g \in DOMAIN grants /\ code \notin DOMAIN grants
      BY <1>5 DEF Authorize, ConsumableGrant, FreshSecrets
    <2>1. CASE grants' = Consume(g)
      <3>1. /\ DOMAIN grants' = DOMAIN grants
            /\ \A h \in DOMAIN grants :
                  /\ grants'[h].root = grants[h].root
                  /\ grants'[h].expiresAt = grants[h].expiresAt
            /\ accessTokens' = accessTokens
        BY <1>3, <1>5, <2>0, <2>1 DEF Authorize
      <3> QED  BY <3>1 DEF RootsStored, DescendantsExpireWithOffer
    <2>2. CASE grants' = Put(Consume(g), code,
                [session |-> grants[g].session,
                 kind |-> "authorization_code",
                 expiresAt |-> Bounded(g), client |-> client,
                 consumed |-> FALSE, root |-> grants[g].root])
      <3>1. /\ DOMAIN grants' = DOMAIN grants \cup {code}
            /\ grants'[code].root = grants[g].root
            /\ grants'[code].expiresAt = Bounded(g)
            /\ \A h \in DOMAIN grants :
                  /\ grants'[h].root = grants[h].root
                  /\ grants'[h].expiresAt = grants[h].expiresAt
            /\ accessTokens' = accessTokens
        BY <1>3, <1>5, <2>0, <2>2 DEF Put, Authorize
      <3> QED  BY <1>4, <2>0, <3>1 DEF RootsStored, DescendantsExpireWithOffer
    <2> QED  BY <1>5, <2>1, <2>2 DEF Authorize
  <1>6. ASSUME NEW g \in Secrets, NEW client \in Clients \cup {None},
               NEW token \in FreshSecrets, ExchangeToken(g, client, token)
        PROVE  Goal
    <2>0. g \in DOMAIN grants /\ grants' = Consume(g)
      BY <1>6 DEF ExchangeToken, ConsumableGrant
    <2>1. \A t \in DOMAIN accessTokens' :
             \/ /\ t \in DOMAIN accessTokens
                /\ accessTokens'[t] = accessTokens[t]
             \/ /\ accessTokens'[t].root = grants[g].root
                /\ accessTokens'[t].expiresAt = Bounded(g)
      BY <1>6 DEF ExchangeToken, Put
    <2>2. /\ DOMAIN grants' = DOMAIN grants
          /\ \A h \in DOMAIN grants :
                /\ grants'[h].root = grants[h].root
                /\ grants'[h].expiresAt = grants[h].expiresAt
      BY <1>3, <2>0
    <2>3. RootsStored'
      BY <2>0, <2>1, <2>2 DEF RootsStored
    <2>4. ASSUME NEW t \in DOMAIN accessTokens'
          PROVE  accessTokens'[t].expiresAt
                     <= grants'[accessTokens'[t].root].expiresAt
      <3>1. CASE t \in DOMAIN accessTokens /\ accessTokens'[t] = accessTokens[t]
        BY <2>2, <3>1 DEF RootsStored, DescendantsExpireWithOffer
      <3>2. CASE /\ accessTokens'[t].root = grants[g].root
                 /\ accessTokens'[t].expiresAt = Bounded(g)
        BY <1>4, <2>0, <2>2, <3>2 DEF RootsStored
      <3> QED  BY <2>1, <3>1, <3>2
    <2>5. ASSUME NEW h \in DOMAIN grants'
          PROVE  grants'[h].expiresAt <= grants'[grants'[h].root].expiresAt
      BY <2>2 DEF RootsStored, DescendantsExpireWithOffer
    <2> QED  BY <2>3, <2>4, <2>5 DEF DescendantsExpireWithOffer
  <1>7. ASSUME NEW k \in IssueSlots, NEW t \in Secrets, IssueCredential(k, t)
        PROVE  Goal
    <2>1. /\ DOMAIN accessTokens' = DOMAIN accessTokens
          /\ \A u \in DOMAIN accessTokens :
                /\ accessTokens'[u].root = accessTokens[u].root
                /\ accessTokens'[u].expiresAt = accessTokens[u].expiresAt
          /\ grants' = grants
      BY <1>7 DEF IssueCredential, TypeOK, IsMap, TokenRecord
    <2> QED  BY <2>1 DEF RootsStored, DescendantsExpireWithOffer
  <1>8. CASE OfferNext
    BY <1>1, <1>2, <1>8 DEF OfferNext, CreateOffer, OfferKeyActive,
                            OfferRefused
  <1>9. CASE GrantNext
    BY <1>5, <1>6, <1>9 DEF GrantNext
  <1>10. CASE IssueNext
    BY <1>1, <1>7, <1>10 DEF IssueNext, IssueCheckPassed, IssueProofValid,
         IssueFailed, IssueAmbiguous, IssueSigned, IssuePublished,
         IssuePublishFailed, IssueCompleted
  <1>11. CASE StatusNext
    BY <1>1, <1>11 DEF StatusNext, ChangeStatus, StatusPublished,
         StatusPublishFailed, StatusChanged
  <1> QED  BY <1>1, <1>8, <1>9, <1>10, <1>11, QuietSteps DEF Next
-----------------------------------------------------------------------------
(* The theorems.                                                           *)

\* Types, single use and reviews hold together: the type of a parked call's
\* writes rests on its session being stored and on its credential id.
IInv == /\ TypeOK
        /\ SingleBearer
        /\ ReviewsSettled
        /\ PublicationsExclusive
        /\ RestrictionsArePublished
        /\ ErasedOnlyAfterDelivery
        /\ RootsStored
        /\ DescendantsExpireWithOffer

\* An empty service satisfies the inductive invariant.
LEMMA InitInv ==
    ASSUME Init
    PROVE  IInv
  <1>1. TypeOK
    BY EmptyMapType DEF Init, TypeOK
  <1>2. /\ DOMAIN sessions = {} /\ DOMAIN grants = {}
        /\ DOMAIN accessTokens = {} /\ DOMAIN credentials = {}
        /\ DOMAIN offerCalls = {} /\ DOMAIN issueCalls = {}
        /\ DOMAIN statusCalls = {} /\ returned = {}
    BY DEF Init, EmptyMap
  <1>3. Bearers = {} /\ InUse = {}
    BY <1>2 DEF Bearers, Signing, InUse
  <1> QED  BY <1>1, <1>2, <1>3 DEF IInv, SingleBearer, ReviewsSettled,
       StatesAgree, PublicationsExclusive, RestrictionsArePublished,
       ErasedOnlyAfterDelivery, RootsStored, DescendantsExpireWithOffer

\* Every step of the service preserves the inductive invariant.
LEMMA StepInv ==
    ASSUME IInv, [Next]_vars
    PROVE  IInv'
  <1>1. TypeOK'
    <2>1. CASE Tick
      BY <2>1 DEF Tick, IInv, TypeOK
    <2>2. CASE UNCHANGED vars
      BY <2>2 DEF IInv, TypeOK
    <2> QED  BY <2>1, <2>2, ConfigTyped, SessionTyped, OfferTyped, GrantTyped,
                IssueTyped, StatusTyped DEF Next, IInv
  <1>2. SingleBearer'
    <2>1. CASE Tick \/ ConfigNext \/ SessionNext \/ UNCHANGED vars
      <3>1. Bearers' \subseteq Bearers /\ UNCHANGED grants
        BY <2>1, QuietSteps DEF Bearers, Signing
      <3> QED  BY <3>1, BearersShrink DEF IInv
    <2> QED  BY <2>1, OfferSingle, GrantSingle, IssueSingle, StatusSingle
             DEF Next, IInv
  <1>3. ReviewsSettled'
    BY ReviewsStep DEF IInv
  <1>4. PublicationsExclusive' /\ RestrictionsArePublished'
    BY ExclusiveStep, RestrictionsStep DEF IInv
  <1>5. ErasedOnlyAfterDelivery'
    BY ErasedStep DEF IInv
  <1>6. RootsStored' /\ DescendantsExpireWithOffer'
    BY ExpiryStep DEF IInv
  <1> QED  BY <1>1, <1>2, <1>3, <1>4, <1>5, <1>6 DEF IInv

\* The inductive invariant holds in every reachable state.
THEOREM InductiveInvariant == Spec => []IInv
  <1>1. Init => IInv
    BY InitInv
  <1>2. IInv /\ [Next]_vars => IInv'
    BY StepInv
  <1> QED  BY <1>1, <1>2, PTL DEF Spec

\* Every variable of the service keeps its type.
THEOREM TypeCorrect == Spec => []TypeOK
  <1>1. IInv => TypeOK
    BY DEF IInv
  <1> QED  BY <1>1, InductiveInvariant, PTL

\* createOffer, authorize, exchangeToken and issueCredential: however many
\* requests run at once, an offer leads to at most one credential.
THEOREM SingleUse == Spec => []OneCredentialPerOffer
  <1>1. IInv => OneCredentialPerOffer
    <2> SUFFICES ASSUME IInv, NEW c \in DOMAIN credentials,
                        NEW d \in DOMAIN credentials,
                        credentials[c].root = credentials[d].root
                 PROVE  c = d
      BY DEF OneCredentialPerOffer
    <2> DEFINE x == <<"credential", c, credentials[c].root>>
               y == <<"credential", d, credentials[d].root>>
    <2>1. x \in Bearers /\ y \in Bearers /\ x[3] = y[3]
      BY DEF Bearers
    <2>2. x = y
      BY <2>1 DEF IInv, SingleBearer
    <2> QED  BY <2>2
  <1> QED  BY <1>1, InductiveInvariant, PTL

\* reviewIssuance against the rest: nothing is ever offered, exchanged, signed
\* or recorded for a session that was rejected or that nobody approved.
THEOREM FourEyes == Spec => []OnlyReviewedSessionsIssue
  <1>1. IInv => OnlyReviewedSessionsIssue
    BY DEF IInv, ReviewsSettled, OnlyReviewedSessionsIssue, Settled
  <1> QED  BY <1>1, InductiveInvariant, PTL

\* changeStatus and issueCredential: a restriction in a record is on the
\* public list, whatever publications fail or cross.
THEOREM Published == Spec => []RestrictionsArePublished
  <1>1. IInv => RestrictionsArePublished
    BY DEF IInv
  <1> QED  BY <1>1, InductiveInvariant, PTL

\* issueCredential erases claims only after delivering a credential.
THEOREM ErasedLate == Spec => []ErasedOnlyAfterDelivery
  <1>1. IInv => ErasedOnlyAfterDelivery
    BY DEF IInv
  <1> QED  BY <1>1, InductiveInvariant, PTL

\* authorize and exchangeToken never extend the life of an offer.
THEOREM WithinOffer == Spec => []DescendantsExpireWithOffer
  <1>1. IInv => DescendantsExpireWithOffer
    BY DEF IInv
  <1> QED  BY <1>1, InductiveInvariant, PTL

\* authorize, exchangeToken and issueCredential: both at once.
THEOREM OfferTerms == Spec => []OfferTermsHold
  BY ErasedLate, WithinOffer, PTL DEF OfferTermsHold

\* reviewIssuance, createOffer and issueCredential: decisions are never undone.
THEOREM DecisionsAreFinal == Spec => DecisionsStick
  <1>1. IInv /\ [Next]_vars =>
          [\A s \in DOMAIN sessions :
              sessions[s].state # "pending_review" =>
                /\ sessions'[s].reviews = sessions[s].reviews
                /\ sessions'[s].state \in {"pending_review", "approved"} =>
                      sessions'[s].state = sessions[s].state]_vars
    BY SessionsKept DEF IInv, SessionsKeep
  <1> QED  BY <1>1, InductiveInvariant, PTL DEF Spec, DecisionsStick
-----------------------------------------------------------------------------
(* How far ClaimsPresentWhileIssuing holds.                                *)

\* The sessions whose holder was given a credential made from their claims.
FullyDelivered ==
    {credentials[d].session : d \in
        {c \in returned \cap DOMAIN credentials :
            credentials[c].claims = "submitted"}}

\* Nobody is left with an empty credential alone: one that was made after the
\* claims were erased exists only where the holder was given, under another
\* offer of the session, one that was made from them.
EmptyOnlyBesideFull ==
    \A c \in DOMAIN credentials :
        credentials[c].claims = "erased" =>
            credentials[c].session \in FullyDelivered

\* The same of the calls that sign and publish, and of the sessions.
ClaimsInv ==
    /\ \A s \in DOMAIN sessions :
          sessions[s].claims = "erased" => s \in FullyDelivered
    /\ \A k \in DOMAIN issueCalls :
          /\ issueCalls[k].claims = "erased" =>
                issueCalls[k].session \in FullyDelivered
          /\ issueCalls[k].pc \in {"publish", "published"} =>
                credentials[issueCalls[k].credential].claims
                    = issueCalls[k].claims
    /\ EmptyOnlyBesideFull

\* What a step that signs nothing and completes nothing must leave alone.
LEMMA ClaimsKept ==
    ASSUME IInv, ClaimsInv, returned \subseteq returned',
           DOMAIN credentials' = DOMAIN credentials,
           \A c \in DOMAIN credentials :
              /\ credentials'[c].session = credentials[c].session
              /\ credentials'[c].claims = credentials[c].claims,
           \A s \in DOMAIN sessions' : sessions'[s].claims = "erased" =>
              s \in DOMAIN sessions /\ sessions[s].claims = "erased",
           \A k \in DOMAIN issueCalls' :
              \/ /\ k \in DOMAIN issueCalls
                 /\ issueCalls'[k].session = issueCalls[k].session
                 /\ issueCalls'[k].claims = issueCalls[k].claims
                 /\ issueCalls'[k].pc \in {"publish", "published"} =>
                       /\ issueCalls[k].pc \in {"publish", "published"}
                       /\ issueCalls'[k].credential = issueCalls[k].credential
              \/ /\ issueCalls'[k].pc \notin {"publish", "published"}
                 /\ issueCalls'[k].claims = "erased" =>
                       issueCalls'[k].session \in FullyDelivered
    PROVE  ClaimsInv'
  <1>1. FullyDelivered \subseteq FullyDelivered'
    BY DEF FullyDelivered
  <1>2. \A k \in DOMAIN issueCalls :
           issueCalls[k].pc \in {"publish", "published"} =>
              issueCalls[k].credential \in DOMAIN credentials
    BY DEF IInv, PublicationsExclusive, Signing
  <1>3. \A s \in DOMAIN sessions' :
           sessions'[s].claims = "erased" => s \in FullyDelivered'
    BY <1>1 DEF ClaimsInv
  <1>4. EmptyOnlyBesideFull'
    BY <1>1 DEF ClaimsInv, EmptyOnlyBesideFull
  <1>5. ASSUME NEW k \in DOMAIN issueCalls'
        PROVE  /\ issueCalls'[k].claims = "erased" =>
                     issueCalls'[k].session \in FullyDelivered'
               /\ issueCalls'[k].pc \in {"publish", "published"} =>
                     credentials'[issueCalls'[k].credential].claims
                        = issueCalls'[k].claims
    BY <1>1, <1>2 DEF ClaimsInv
  <1>6. \A k \in DOMAIN issueCalls' :
           issueCalls'[k].claims = "erased" =>
              issueCalls'[k].session \in FullyDelivered'
    BY <1>5
  <1> QED  BY <1>3, <1>4, <1>5, <1>6 DEF ClaimsInv

\* A write to a session's state leaves every session's claims.
LEMMA SetStateClaims ==
    ASSUME IInv, NEW s, NEW state, SetState(s, state)
    PROVE  /\ DOMAIN sessions' = DOMAIN sessions
           /\ \A q \in DOMAIN sessions : sessions'[q].claims = sessions[q].claims
  BY DEF SetState, IInv, TypeOK, IsMap, SessionRecord

\* The steps of a request or a review erase nothing.
LEMMA SessionClaims ==
    ASSUME IInv, SessionNext
    PROVE  \A s \in DOMAIN sessions' : sessions'[s].claims = "erased" =>
              s \in DOMAIN sessions /\ sessions[s].claims = "erased"
  <1>1. ASSUME NEW s, NEW i, NEW t, NEW p, NEW e, NEW c,
               CreateIssuanceRequest(s, i, t, p, e, c)
        PROVE  \A q \in DOMAIN sessions' : sessions'[q].claims = "erased" =>
                  q \in DOMAIN sessions /\ sessions[q].claims = "erased"
    BY <1>1 DEF CreateIssuanceRequest, Put
  <1>2. ASSUME NEW s \in DOMAIN sessions, NEW r, NEW d, Decide(s, r, d)
        PROVE  \A q \in DOMAIN sessions' : sessions'[q].claims = "erased" =>
                  q \in DOMAIN sessions /\ sessions[q].claims = "erased"
    <2>1. /\ DOMAIN sessions' = DOMAIN sessions
          /\ \A q \in DOMAIN sessions : q # s => sessions'[q] = sessions[q]
          /\ sessions'[s].claims = sessions[s].claims
      BY <1>2 DEF Decide, IInv, TypeOK, IsMap, SessionRecord
    <2> QED  BY <2>1
  <1> QED  BY <1>1, <1>2, SetStateClaims DEF SessionNext, ReviewIssuance

\* The steps of an issuance keep the claims' invariant.
LEMMA IssueClaims ==
    ASSUME IInv, ClaimsInv, IssueNext
    PROVE  ClaimsInv'
  <1>0. /\ DOMAIN issueCalls \subseteq IssueSlots
        /\ \A k \in DOMAIN issueCalls : issueCalls[k] \in IssueCall
    BY DEF IInv, TypeOK, IsMap
  <1> DEFINE SameClaims ==
                \A s \in DOMAIN sessions' : sessions'[s].claims = "erased" =>
                   s \in DOMAIN sessions /\ sessions[s].claims = "erased"
             Stays(k) ==
                /\ k \in DOMAIN issueCalls
                /\ issueCalls'[k].session = issueCalls[k].session
                /\ issueCalls'[k].claims = issueCalls[k].claims
                /\ issueCalls'[k].pc \in {"publish", "published"} =>
                      /\ issueCalls[k].pc \in {"publish", "published"}
                      /\ issueCalls'[k].credential = issueCalls[k].credential
             Begins(k) ==
                /\ issueCalls'[k].pc \notin {"publish", "published"}
                /\ issueCalls'[k].claims = "erased" =>
                      issueCalls'[k].session \in FullyDelivered
  <1>1. ASSUME SameClaims, \A k \in DOMAIN issueCalls' : Stays(k) \/ Begins(k),
               UNCHANGED <<credentials, returned>>
        PROVE  ClaimsInv'
    BY <1>1, ClaimsKept
  <1>2. ASSUME NEW k \in IssueSlots, NEW t \in Secrets, IssueCredential(k, t)
        PROVE  ClaimsInv'
    <2>1. SameClaims
      BY <1>2, SetStateClaims
         DEF IssueCredential, IssueCredentialRefused, IssueCredentialAccepted
    <2>2. \A j \in DOMAIN issueCalls' : Stays(j) \/ Begins(j)
      <3>1. CASE UNCHANGED issueCalls
        BY <3>1
      <3>2. CASE \E s, r : issueCalls' = Put(issueCalls, k,
                     [pc |-> "describeKey", session |-> s, root |-> r,
                      claims |-> "submitted", credential |-> None])
        BY <3>2 DEF Put
      <3> QED  BY <1>2, <3>1, <3>2 DEF IssueCredential, IssueCredentialAccepted
    <2>3. UNCHANGED <<credentials, returned>>
      BY <1>2 DEF IssueCredential
    <2> HIDE DEF SameClaims, Stays, Begins
    <2> QED  BY <1>1, <2>1, <2>2, <2>3
  <1>3. ASSUME NEW k \in DOMAIN issueCalls, IssueCheckPassed(k) \/ IssuePublished(k)
        PROVE  ClaimsInv'
    <2>1. \A j \in DOMAIN issueCalls' : Stays(j)
      BY <1>0, <1>3 DEF IssueCheckPassed, IssuePublished, IssueCall
    <2>2. UNCHANGED <<sessions, credentials, returned>>
      BY <1>3 DEF IssueCheckPassed, IssuePublished
    <2>3. SameClaims
      BY <2>2
    <2> HIDE DEF SameClaims, Stays, Begins
    <2> QED  BY <1>1, <2>1, <2>2, <2>3
  <1>4. ASSUME NEW k \in DOMAIN issueCalls, IssueProofValid(k)
        PROVE  ClaimsInv'
    <2> DEFINE s == issueCalls[k].session
    <2>1. s \in DOMAIN sessions
      BY DEF IInv, ReviewsSettled, InUse, Settled
    <2>2. sessions[s].claims = "erased" => s \in FullyDelivered
      BY <2>1 DEF ClaimsInv
    <2>3. /\ DOMAIN issueCalls' = DOMAIN issueCalls
          /\ issueCalls'[k].session = s /\ issueCalls'[k].pc = "sign"
          /\ issueCalls'[k].claims = sessions[s].claims
          /\ \A j \in DOMAIN issueCalls : j # k => issueCalls'[j] = issueCalls[j]
      BY <1>0, <1>4 DEF IssueProofValid, IssueCall
    <2>4. \A j \in DOMAIN issueCalls' : Stays(j) \/ Begins(j)
      BY <2>2, <2>3
    <2>5. UNCHANGED <<sessions, credentials, returned>>
      BY <1>4 DEF IssueProofValid
    <2>6. SameClaims
      BY <2>5
    <2> HIDE DEF SameClaims, Stays, Begins
    <2> QED  BY <1>1, <2>4, <2>5, <2>6
  <1>5. ASSUME NEW k \in DOMAIN issueCalls,
               IssueFailed(k) \/ IssueAmbiguous(k) \/ IssuePublishFailed(k)
        PROVE  ClaimsInv'
    <2>1. \A j \in DOMAIN issueCalls' : Stays(j)
      BY <1>5 DEF IssueFailed, IssueAmbiguous, IssuePublishFailed, Drop
    <2>2. UNCHANGED <<credentials, returned>>
      BY <1>5 DEF IssueFailed, IssueAmbiguous, IssuePublishFailed
    <2>3. SameClaims
      BY <1>5, SetStateClaims DEF IssueFailed, IssueAmbiguous, IssuePublishFailed
    <2> HIDE DEF SameClaims, Stays, Begins
    <2> QED  BY <1>1, <2>1, <2>2, <2>3
  <1>6. ASSUME NEW k \in DOMAIN issueCalls,
               NEW id \in Credentials \ DOMAIN credentials, IssueSigned(k, id)
        PROVE  ClaimsInv'
    <2>1. /\ DOMAIN issueCalls' = DOMAIN issueCalls
          /\ issueCalls'[k].credential = id
          /\ issueCalls'[k].session = issueCalls[k].session
          /\ issueCalls'[k].claims = issueCalls[k].claims
          /\ \A j \in DOMAIN issueCalls : j # k => issueCalls'[j] = issueCalls[j]
      BY <1>0, <1>6 DEF IssueSigned, IssueCall
    <2>2. /\ DOMAIN credentials' = DOMAIN credentials \cup {id}
          /\ credentials'[id].session = issueCalls[k].session
          /\ credentials'[id].claims = issueCalls[k].claims
          /\ \A c \in DOMAIN credentials : credentials'[c] = credentials[c]
          /\ UNCHANGED <<sessions, returned>>
      BY <1>6 DEF IssueSigned, Put
    <2>3. FullyDelivered \subseteq FullyDelivered'
      BY <2>2 DEF FullyDelivered
    <2>4. issueCalls[k].claims = "erased" =>
             issueCalls[k].session \in FullyDelivered'
      BY <2>3 DEF ClaimsInv
    <2>5. EmptyOnlyBesideFull'
      BY <2>2, <2>3, <2>4 DEF ClaimsInv, EmptyOnlyBesideFull
    <2>6. \A s \in DOMAIN sessions' :
             sessions'[s].claims = "erased" => s \in FullyDelivered'
      BY <2>2, <2>3 DEF ClaimsInv
    <2>7. \A j \in DOMAIN issueCalls :
             issueCalls[j].pc \in {"publish", "published"} =>
                issueCalls[j].credential \in DOMAIN credentials
      BY DEF IInv, PublicationsExclusive, Signing
    <2>8. \A j \in DOMAIN issueCalls' :
             issueCalls'[j].claims = "erased" =>
                issueCalls'[j].session \in FullyDelivered'
      BY <2>1, <2>3 DEF ClaimsInv
    <2>9. \A j \in DOMAIN issueCalls' :
             issueCalls'[j].pc \in {"publish", "published"} =>
                credentials'[issueCalls'[j].credential].claims
                   = issueCalls'[j].claims
      BY <2>1, <2>2, <2>7 DEF ClaimsInv
    <2> QED  BY <2>5, <2>6, <2>8, <2>9 DEF ClaimsInv
  <1>7. ASSUME NEW k \in DOMAIN issueCalls, IssueCompleted(k)
        PROVE  ClaimsInv'
    <2> DEFINE s == issueCalls[k].session
               id == issueCalls[k].credential
    <2>1. /\ id \in DOMAIN credentials /\ credentials[id].session = s
          /\ credentials[id].claims = issueCalls[k].claims
      BY <1>7 DEF IssueCompleted, IInv, PublicationsExclusive, Signing, ClaimsInv
    <2>2. /\ returned' = returned \cup {id} /\ credentials' = credentials
          /\ \A j \in DOMAIN issueCalls' :
                j \in DOMAIN issueCalls /\ issueCalls'[j] = issueCalls[j]
      BY <1>7 DEF IssueCompleted, Drop
    <2>3. FullyDelivered \subseteq FullyDelivered'
      BY <2>2 DEF FullyDelivered
    <2>4. s \in FullyDelivered'
      <3>1. CASE issueCalls[k].claims = "erased"
        BY <2>3, <3>1 DEF ClaimsInv
      <3>2. CASE issueCalls[k].claims = "submitted"
        BY <2>1, <2>2, <3>2 DEF FullyDelivered
      <3> QED  BY <1>0, <3>1, <3>2 DEF IssueCall
    <2>5. /\ DOMAIN sessions' = DOMAIN sessions
          /\ \A q \in DOMAIN sessions : q # s => sessions'[q] = sessions[q]
      BY <1>7 DEF IssueCompleted
    <2>6. \A q \in DOMAIN sessions' :
             sessions'[q].claims = "erased" => q \in FullyDelivered'
      BY <2>3, <2>4, <2>5 DEF ClaimsInv
    <2>7. EmptyOnlyBesideFull'
      BY <2>2, <2>3 DEF ClaimsInv, EmptyOnlyBesideFull
    <2>8. \A j \in DOMAIN issueCalls' :
             issueCalls'[j].claims = "erased" =>
                issueCalls'[j].session \in FullyDelivered'
      BY <2>2, <2>3 DEF ClaimsInv
    <2>9. \A j \in DOMAIN issueCalls' :
             issueCalls'[j].pc \in {"publish", "published"} =>
                credentials'[issueCalls'[j].credential].claims
                   = issueCalls'[j].claims
      BY <2>2 DEF ClaimsInv
    <2> QED  BY <2>6, <2>7, <2>8, <2>9 DEF ClaimsInv
  <1> QED  BY <1>2, <1>3, <1>4, <1>5, <1>6, <1>7 DEF IssueNext

\* No other step adds a credential, erases claims or moves an issuance.
LEMMA OtherClaims ==
    ASSUME IInv, ClaimsInv,
           \/ Tick \/ ConfigNext \/ SessionNext \/ OfferNext \/ GrantNext
           \/ StatusNext \/ UNCHANGED vars
    PROVE  ClaimsInv'
  <1>1. issueCalls' = issueCalls /\ returned' = returned
    <2>1. StatusNext => UNCHANGED <<issueCalls, returned>>
      BY DEF StatusNext, ChangeStatus, StatusPublished, StatusPublishFailed,
             StatusChanged
    <2> QED  BY <2>1, QuietSteps, UnpublishedSteps
  <1>2. /\ DOMAIN credentials' = DOMAIN credentials
        /\ \A c \in DOMAIN credentials :
              /\ credentials'[c].session = credentials[c].session
              /\ credentials'[c].claims = credentials[c].claims
    <2>1. CASE UNCHANGED credentials
      BY <2>1
    <2>2. ASSUME NEW k \in DOMAIN statusCalls, StatusChanged(k)
          PROVE  /\ DOMAIN credentials' = DOMAIN credentials
                 /\ \A c \in DOMAIN credentials :
                       /\ credentials'[c].session = credentials[c].session
                       /\ credentials'[c].claims = credentials[c].claims
      BY <2>2 DEF StatusChanged, IInv, TypeOK, IsMap, CredentialRecord
    <2>3. StatusNext => \/ UNCHANGED credentials
                        \/ \E k \in DOMAIN statusCalls : StatusChanged(k)
      BY DEF StatusNext, ChangeStatus, StatusPublished, StatusPublishFailed
    <2> QED  BY <2>1, <2>2, <2>3, QuietSteps, UnpublishedSteps
  <1>3. \A s \in DOMAIN sessions' : sessions'[s].claims = "erased" =>
           s \in DOMAIN sessions /\ sessions[s].claims = "erased"
    <2>1. CASE UNCHANGED sessions
      BY <2>1
    <2>2. CASE OfferNext
      BY <2>1, <2>2, SetStateClaims DEF OfferNext, CreateOffer, OfferKeyActive,
         OfferTrusted, OfferRefused
    <2>3. Tick \/ ConfigNext \/ GrantNext \/ StatusNext \/ UNCHANGED vars
             => UNCHANGED sessions
      BY DEF Tick, ConfigNext, RegisterTemplate, RegisterIssuer,
         RegisterReviewerPolicy, GrantNext, Authorize, ExchangeToken,
         StatusNext, ChangeStatus, StatusPublished, StatusPublishFailed,
         StatusChanged
    <2> QED  BY <2>1, <2>2, <2>3, SessionClaims
  <1> QED  BY <1>1, <1>2, <1>3, ClaimsKept DEF ClaimsInv

\* issueCredential: two offers of a session may lead to a credential without
\* claims, but never to that alone.
THEOREM NeverOnlyEmpty == Spec => []EmptyOnlyBesideFull
  <1>1. Init => ClaimsInv
    BY DEF Init, EmptyMap, ClaimsInv, EmptyOnlyBesideFull
  <1>2. IInv /\ ClaimsInv /\ [Next]_vars => ClaimsInv'
    BY IssueClaims, OtherClaims, Zenon DEF Next
  <1>3. ClaimsInv => EmptyOnlyBesideFull
    BY DEF ClaimsInv
  <1> QED  BY <1>1, <1>2, <1>3, InductiveInvariant, PTL DEF Spec
-----------------------------------------------------------------------------
(* How far RevokedIsTerminal holds.                                        *)

\* A suspension of c is parked at the status list.
Suspending(c) ==
    \E k \in DOMAIN statusCalls :
        statusCalls[k].credential = c /\ statusCalls[k].status = "suspended"

\* The record of c says revoked, and no suspension that was asked for before
\* is still on its way.
RevokedForGood(c) ==
    c \in DOMAIN credentials /\ credentials[c].status = "revoked" /\ ~Suspending(c)

\* A step of a credential that is revoked for good: it stays so, and what the
\* public list says of it changes to "revoked" if at all.
StaysRevoked ==
    \A c \in DOMAIN credentials : RevokedForGood(c) =>
        RevokedForGood(c)' /\ registry'[c] \in {registry[c], "revoked"}

\* A suspension parked while the revocation completed is the only way out of
\* it: once none is, no call, answer or failure undoes the revocation.
RevocationSettles == [][StaysRevoked]_vars

\* Every step leaves what is revoked for good as it is.
LEMMA RevokedStep ==
    ASSUME IInv, [Next]_vars
    PROVE  StaysRevoked
  <1> SUFFICES ASSUME NEW c \in DOMAIN credentials, RevokedForGood(c)
               PROVE  /\ c \in DOMAIN credentials'
                      /\ credentials'[c].status = "revoked" /\ ~Suspending(c)'
                      /\ registry'[c] \in {registry[c], "revoked"}
    BY DEF StaysRevoked, RevokedForGood
  <1> DEFINE Listed == registry'[c] \in {registry[c], "revoked"}
             Recorded == c \in DOMAIN credentials'
                            /\ credentials'[c].status = "revoked"
             Quiet == ~Suspending(c)'
  <1>1. /\ credentials[c].status = "revoked" /\ ~Suspending(c)
        /\ c \in returned
    BY DEF RevokedForGood, IInv, PublicationsExclusive
  <1>2. \A k \in DOMAIN statusCalls : statusCalls[k] \in StatusCall
    BY DEF IInv, TypeOK, IsMap
  <1>3. UNCHANGED credentials => Recorded
    BY <1>1
  <1>4. UNCHANGED statusCalls => Quiet
    BY <1>1 DEF Suspending
  <1>5. UNCHANGED registry => Listed
    OBVIOUS
  <1>6. CASE UNCHANGED <<credentials, statusCalls, registry>>
    BY <1>3, <1>4, <1>5, <1>6
  <1>7. ASSUME NEW k \in DOMAIN issueCalls,
               NEW id \in Credentials \ DOMAIN credentials, IssueSigned(k, id)
        PROVE  Recorded /\ Quiet /\ Listed
    <2>1. PICK x : credentials' = Put(credentials, id, x)
      BY <1>7 DEF IssueSigned
    <2>2. c \in DOMAIN credentials' /\ credentials'[c] = credentials[c]
      BY <2>1 DEF Put
    <2>3. UNCHANGED <<statusCalls, registry>>
      BY <1>7 DEF IssueSigned
    <2> QED  BY <1>1, <1>4, <1>5, <2>2, <2>3
  <1>8. ASSUME NEW k \in DOMAIN issueCalls, IssuePublished(k)
        PROVE  Recorded /\ Quiet /\ Listed
    <2>1. issueCalls[k].credential # c
      BY <1>1, <1>8 DEF IssuePublished, IInv, PublicationsExclusive, Signing
    <2>2. c \in DOMAIN registry
      BY <1>1 DEF IInv, PublicationsExclusive
    <2>3. registry'[c] = registry[c]
      BY <1>8, <2>1, <2>2 DEF IssuePublished, Put
    <2>4. UNCHANGED <<credentials, statusCalls>>
      BY <1>8 DEF IssuePublished
    <2> QED  BY <1>3, <1>4, <2>3, <2>4
  <1>9. CASE IssueNext
    <2>1. \/ UNCHANGED <<credentials, statusCalls, registry>>
          \/ \E k \in DOMAIN issueCalls, id \in Credentials \ DOMAIN credentials :
                IssueSigned(k, id)
          \/ \E k \in DOMAIN issueCalls : IssuePublished(k)
      BY <1>9 DEF IssueNext, IssueCredential, IssueCheckPassed,
         IssueProofValid, IssueFailed, IssueAmbiguous, IssuePublishFailed,
         IssueCompleted
    <2> QED  BY <1>6, <1>7, <1>8, <2>1
  <1>10. ASSUME NEW k \in StatusSlots, NEW id, NEW status,
                ChangeStatus(k, id, status)
         PROVE  Recorded /\ Quiet /\ Listed
    <2>1. id # c
      BY <1>1, <1>10 DEF ChangeStatus
    <2>2. \A j \in DOMAIN statusCalls' :
             \/ j \in DOMAIN statusCalls /\ statusCalls'[j] = statusCalls[j]
             \/ statusCalls'[j].credential = id
      BY <1>10 DEF ChangeStatus, Put
    <2>3. Quiet
      BY <1>1, <2>1, <2>2 DEF Suspending
    <2>4. UNCHANGED <<credentials, registry>>
      BY <1>10 DEF ChangeStatus
    <2> QED  BY <1>3, <1>5, <2>3, <2>4
  <1>11. ASSUME NEW k \in DOMAIN statusCalls, StatusPublished(k)
         PROVE  Recorded /\ Quiet /\ Listed
    <2>1. /\ DOMAIN statusCalls' = DOMAIN statusCalls
          /\ \A j \in DOMAIN statusCalls :
                /\ statusCalls'[j].credential = statusCalls[j].credential
                /\ statusCalls'[j].status = statusCalls[j].status
      BY <1>2, <1>11 DEF StatusPublished, StatusCall
    <2>2. Quiet
      BY <1>1, <2>1 DEF Suspending
    <2>3. registry' = Put(registry, statusCalls[k].credential, statusCalls[k].status)
          /\ UNCHANGED credentials
      BY <1>11 DEF StatusPublished
    <2>4. statusCalls[k].credential = c => statusCalls[k].status = "revoked"
      BY <1>1, <1>2 DEF Suspending, StatusCall
    <2>5. c \in DOMAIN registry
      BY <1>1 DEF IInv, PublicationsExclusive
    <2>6. Listed
      BY <2>3, <2>4, <2>5 DEF Put
    <2> QED  BY <1>3, <2>2, <2>3, <2>6
  <1>12. ASSUME NEW k \in DOMAIN statusCalls,
                StatusPublishFailed(k) \/ StatusChanged(k)
         PROVE  Recorded /\ Quiet /\ Listed
    <2>1. \A j \in DOMAIN statusCalls' :
             j \in DOMAIN statusCalls /\ statusCalls'[j] = statusCalls[j]
      BY <1>12 DEF StatusPublishFailed, StatusChanged, Drop
    <2>2. Quiet
      BY <1>1, <2>1 DEF Suspending
    <2>3. UNCHANGED registry
      BY <1>12 DEF StatusPublishFailed, StatusChanged
    <2>4. CASE UNCHANGED credentials
      BY <1>3, <1>5, <2>2, <2>3, <2>4
    <2>5. CASE StatusChanged(k)
      <3>1. statusCalls[k].credential = c => statusCalls[k].status = "revoked"
        BY <1>1, <1>2 DEF Suspending, StatusCall
      <3>2. credentials[c] \in CredentialRecord
        BY DEF IInv, TypeOK, IsMap
      <3>3. credentials' = [credentials EXCEPT
                ![statusCalls[k].credential].status = statusCalls[k].status]
        BY <2>5 DEF StatusChanged
      <3>4. Recorded
        BY <1>1, <3>1, <3>2, <3>3 DEF CredentialRecord
      <3> QED  BY <1>5, <2>2, <2>3, <3>4
    <2> QED  BY <1>12, <2>4, <2>5 DEF StatusPublishFailed
  <1>13. CASE StatusNext
    <2> QED  BY <1>10, <1>11, <1>12, <1>13 DEF StatusNext
  <1>14. Tick \/ ConfigNext \/ SessionNext \/ UNCHANGED vars \/ OfferNext \/ GrantNext
            => UNCHANGED <<credentials, statusCalls, registry>>
    BY QuietSteps, UnpublishedSteps
  <1> QED  BY <1>6, <1>9, <1>13, <1>14 DEF Next

\* changeStatus: after a revocation is recorded, only a suspension that was
\* parked meanwhile can change the record or the public list.
THEOREM RevocationIsFinal == Spec => RevocationSettles
  <1>1. IInv /\ [Next]_vars => [StaysRevoked]_vars
    BY RevokedStep
  <1> QED  BY <1>1, InductiveInvariant, PTL DEF Spec, RevocationSettles
=============================================================================
