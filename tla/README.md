# TLA+ verification of the identity platform

This directory holds TLA+ models of the identity and wallet platform, the TLC
configurations that check them on small instances, and TLAPS proofs of their
main properties for every value of the constants. `PROJECT.json` links every
definition to the source lines it translates, every property to a mutation of
the code it rules out, and every known hazard to the properties that cover it.

## 1. The system

The platform is a set of TypeScript packages, each an in-process service with
its state in `Map`s and its environment behind ports (promises), one Solidity
contract, and applications over them. Within one service no two pieces of code run
at the same time, but every `await` is a point where other calls run. Nearly all
the difficulty of the code is there: what is read before an `await` and used after
it, what is spent before it, and what a port did when its promise rejects.

| Component | State | Operations | What is hard | What makes it correct |
|---|---|---|---|---|
| issuer-service | templates, issuers, reviewer policies, sessions, grants, access tokens, credential records | register*, createIssuanceRequest, reviewIssuance, createOffer, authorize, exchangeToken, issueCredential, suspend/revokeCredential | checks before port calls, policies replaced under open sessions, a signature or publication with unknown outcome, expiry | one offer, one credential; nothing without review; decisions final; restrictions public first; claims kept until delivery |
| issuer-signer | operation store, block on unresolved fingerprints, key states | sign, rotate, disable | KMS, audit and store fail after taking effect; same request twice | at most one provider call per request; no blind retry; keys never revive |
| trust-registry | one cached signed snapshot per tenant and jurisdiction | prime, refresh, evaluate*, invalidate | slow loads finish out of order; stale and rolled-back snapshots | verdicts only from fresh signed snapshots, never older than what was held |
| verifier-service | sessions, receipts | createSession, verifyResponse | concurrent and duplicate responses, expiry between checks | one evaluation per session; a verified receipt is justified; receipts final |
| openid4vc, wallet-web, issuer-demo, verifier-demo | the wallet's stage, factor, review and stored credentials; the issuer's code; the verifier's states | issuePreAuthorizedCredential, parse*, acceptOffer, reviewPresentation, submitPresentation, lock, direct_post | a timer that gives up on a request still being served; locking, cancelling and reviewing while calls wait; responses repeated | codes, tokens and presentations go where they belong, and to what was approved |
| auth-email | identities, index by address, codes, sessions, rates | registerIdentity, requestOtp, verifyOtp, request/confirmEmailChange, revoke* | guesses racing at the hash; codes outliving a change of address | one session per code; bounded guesses; codes follow the address |
| auth-passkey, auth-oidc | challenges, credentials; login states, linked identities | register, authenticate, rotate, remove, revoke; startLogin, callback, unlink | revocation while the authenticator is asked; find-then-attach | challenges and states are spent once; a revocation no ceremony overlaps stays |
| platform-store | tenant records, idempotency records, audit | put, runIdempotent, appendAudit | failure of the operation or of the transaction around it, calls that share that transaction, crashes | one outcome per key |
| signer-policy, wallet-actions, wallet-service app | policies, sessions, usage windows, intents | authorize, createWallet, createTransaction | revocation during step-up, windows out of order, retries | what is stored was allowed; limits hold; revocation stops later requests |
| account-adapter, safe-service-adapter | recovery proposals, modules, simulations, submissions | propose, approve, execute, install, simulate, sponsor, submit | proposals overtaking each other, lost bundler answers, receipts that never come | rotation only by approvals; no form is sent that was not simulated; submissions end |
| credential-vault, wallet-portability | encrypted entries, backups with sequence numbers; bundles, import target, control of the account | put, delete, migrate, backup, restore; export, import, rotate | migrate writes back what it read; port calls that fail after their effect | metadata and credential belong together; no rollback; imports all or nothing; never without control |
| self-issued-credentials | keys, credentials | create, verify | keys revoked while a verification waits | what verifies was created |
| credential-domain, credential-scanner, on-chain consumer | challenges, status cache; one-time tokens, gate, offline snapshots; nonces and access | issue, consume, lookup, scan, prime, verify, attest | slower answers stored last, tokens issued again, attestations sent again | one use; withdrawn stays withdrawn; lookups end |
| admin-console | templates, signer configurations, rotations, trust records, lifecycle sessions | draft, review, publish; rotate; review, issue, bulk issue | long ways through drafts and rejections, late results, lost answers | separation of duties; no rotation forgotten; a session is reported to one row |

Credential formats, shared types, SDK wrappers, sector configurations, user
interfaces and test harnesses are listed in `PROJECT.json` with the reason why
they are not modelled; see also section 6.

Interactions: the issuer service asks the signer (through its format port), a
trust decision and the status publisher; the verifier asks a presentation
resolver, the format verifier and the trust registry; the wallet service combines
store, signer policy and wallet actions; the web wallet talks to an issuer and a
verifier over the network and keeps what it gets in a vault; the console asks the
issuer service. Email and passkey sessions are what wallet operations are
authorised with.

## 2. How code becomes TLA+

* A `Map` is a function whose domain is the set of keys present (`JsMap.tla`:
  `EmptyMap`, `Put`, `Drop`, `IsMap`; `JsMapTheorems.tla` has the lemmas).
* A synchronous stretch of code is one action. A call that awaits is a record in
  a map of parked calls, with the place where it waits and the local variables it
  will use; what it resumes with is an action of its own. The number of slots
  (`CallSlots.tla`) bounds the calls in flight, and nothing else.
* A port that rejects may have taken effect or not: both are disjuncts.
* Requests refused before anything is changed are left out, except where the
  refusal itself writes (expiry, spent codes, receipts, audit).
* Random identifiers are picked from a finite set and never reused. When a set is
  exhausted no more are created; this and the clock bounds (`MaxTime` and its
  like) are why instances stop, hence `CHECK_DEADLOCK FALSE`: a service with no
  request in flight really is at rest.
* Signatures, digests, claims and key material are represented by the outcome
  of the check made on them; cryptography is ideal.

### Modules

| Module | Models | Notes |
|---|---|---|
| `IssuerService` | `packages/issuer-service` | one tenant; `offerCalls`, `issueCalls`, `statusCalls` are the parked calls; `registry` is the public status list and `returned` the credentials a holder has received (history) |
| `IssuerSigner` | `packages/issuer-signer` | operation store and the key states of the local KMS adapter; `invoked` counts provider calls (history) |
| `TrustRegistry` | `packages/trust-registry` | the cache for one tenant and jurisdiction; `published` are the snapshots the operator signed (external) |
| `VerifierService` | `packages/verifier-service` | EXTENDS `TrustRegistry`: its calls are the registry's callers |
| `AuthEmail` | `packages/auth-email` | recovery codes are login codes; callers' own `now` and `rateLimitKey` are not used |
| `AuthPasskey`, `AuthOidc` | `packages/auth-passkey`, `packages/auth-oidc` | authenticator, provider and identity store are external |
| `PlatformStore` | `packages/platform-store` | in memory and over PostgreSQL: the one `SqlTransaction` on which all calls of a store run, several stores over one database, statements that fail, answers and COMMITs that are lost, crashes; implements `IdempotentStore` for calls that share no transaction |
| `IdempotentStore` | | abstract specification: a key gets one outcome, for one request, and every answer is that outcome |
| `SignerPolicy` | `packages/signer-policy` | every await of the evaluator; policies and sessions put and revoked meanwhile |
| `WalletService` | `apps/wallet-service`, `packages/wallet-actions` | EXTENDS `SignerPolicy` and `PlatformStore`: a request is parked in one, then in the other |
| `RecoveryController`, `SafeService` | `packages/account-adapter`, `packages/safe-service-adapter` | recovery and modules; simulation, sponsoring and submission with an unreliable bundler |
| `CredentialVault`, `WalletPortability`, `SelfIssuedCredentials` | the packages of these names | both vault backends, aborts and reloads; import and rotation ports that fail before or after their effect |
| `CredentialDomain`, `CredentialScanner`, `OfflineEnvelope` | `packages/credential-domain`, `packages/credential-scanner`, the scanners of SDK and console | challenges, status cache; one-time codes and gate; offline verification with its snapshot cache |
| `OnChainAttestation` | `contracts/src/OnChainAttestationConsumer.sol`, attestations of credential-domain, `apps/access-demo` | several deployments and chains |
| `InstitutionalAdmin`, `SignerOperations`, `IssuerLifecycle` | `apps/admin-console` | templates; rotations, health and trust records; reviews, offers and bulk calls over an issuer service that may lose its answer |
| `OpenId4Vci`, `OpenId4Vp` | `packages/openid4vc`, `apps/issuer-demo`, `apps/verifier-demo` | issuance with its timer; requests and direct_post |
| `WebWallet` | `apps/wallet-web`, selection of `packages/presentation-policy` | EXTENDS both: the whole path from an offer to a verifier's verdict |
| `Access` | | EXTENDS the modules of logins, console, web wallet and holder, which share no state: the properties about several of them |
| `MC*` | | model values, symmetry, bounds, and for some an initial state a few legal steps in |
| `*Proofs`, `JsMapTheorems` | | TLAPS proofs |

Details worth knowing when reading them next to the code:

* `VerifierService.Clock` is the time in seconds that `evaluate` passes to the
  registry; sessions count milliseconds. `Second` is the ratio. The registry must
  be built with a clock in seconds, which its default `Date.now()` is not.
* `evaluate` reads the time before it awaits the registry. A verified receipt can
  therefore be written after its snapshot or credential expired; what
  `VerifiedIsJustified` states is validity at the time that was read.
* `invalidate` forgets the sequence number too. `NoRollback` exempts lookups an
  invalidate overtook: older snapshots are then accepted again.
* `ensureSessionLive` writes `expired` over every state, `signing_ambiguous`
  included, and a suspended credential has no way back to valid.
* `rotate` reads the states of both keys in what is one step here.
* The signer's store may record how an operation ended and throw after it (any
  implementation behind the port may). The block on the operation is lifted by then;
  the call reports ambiguity, and `markAmbiguous` stores `ambiguous` without a block,
  so that a retry under another request id is reserved and reaches the provider. This
  is in the model. It is not what the comments of the code say (index.ts:154,
  "`unresolved-operation` blocks a new ID after ambiguity", and 673), and no property
  promises it: `NoBlindRetry` is about operations whose end the store never recorded
  (`resolved` is the history of those it did), and `AmbiguityIsSticky` about the
  outcome `ambiguous` and about the blocks that there are.
* A PostgreSQL store has one `SqlTransaction`, on which all its concurrent calls
  begin, insert, commit and roll back. `shared` marks the calls that ran while another
  was in progress on theirs. `StoreKeepsItsPromise` is about the answers of the others;
  for those that share, `wallet_transaction` shows the promise broken.
* `confirmEmailChange` checks the session before the code is hashed, so a session
  revoked meanwhile still completes the change; and the code of an
  email change may be spent through `verifyOtp`.
* A ceremony of `auth-passkey` writes the credential it read before the verifier
  was asked: a passkey revoked meanwhile comes back. `QuietRevocationIsFinal`
  speaks of the others.
* The usage of a frequency window is discarded when another window is used, so
  requests reserved out of order start again at zero; `WindowsHold` exempts them.
  A request whose policy is revoked during its step-up is still allowed;
  `RevocationStopsRequests` speaks of requests made later.
* `operationKey` holds sender, nonce, calldata, sponsor data and signature, and neither
  gas limits nor fees. Operations in `SafeService` have them (`gas`), and one that was
  simulated may be submitted with others. `SendsAreSimulated` promises that call,
  sponsor and signature were simulated together, and no more;
  `AnsweredIsNotResent`, that an answered operation is not sent again with any gas.
* The bundler may take an operation and lose the answer: the adapter will then
  send it again. `AnsweredIsNotResent` speaks of answered ones. A lost answer of
  `removeOldControl` makes `WalletPortability` roll back the only control left;
  `ControlSurvivesRotation` names that exception.
* The issuer service takes the session id of its caller, reads no idempotency key and
  refuses a session it has. A bulk row whose answer was lost is therefore reported
  `rejected` when it is repeated, though its session exists; `BulkRowsAreSessions`
  says that no session is reported to two rows, or to one whose request it does not
  hold.
* A rotation that succeeded can be overwritten by a late result as `ambiguous` only, but
  an ambiguous one takes whatever is recorded next: in two steps a success may be
  shown as failed. `RotationsAreNotForgotten` is about each step, and says that what
  is shown is the last result recorded.
* `createOffer` sets `offered` over whatever became of the session during its two
  awaits, `signing_ambiguous`, `expired` and `issued` included. No property forbids
  that; what is issued under the new offer was reviewed, is issued once and within
  its terms.
* `importBundle` rolls back only when `prepare` returned a handle
  (wallet-portability index.ts:583). The model assumes that it does, and that a
  `prepare` that throws has changed nothing in the target.
* `updateDraft` spreads every key of its patch over the template. Patches here are
  those of the type `TemplatePatch`: its typed content and nothing else.
* The replay boundary of offline verification is optional in the code;
  `OfflineEnvelope` models callers that pass one, and without it an envelope
  verifies as often as it is shown.
* `WebWallet` has one value for the nonce and the state of a request. They are made
  and checked together.
* `migrate` brings back an entry that was deleted during its two awaits; what is
  brought back is still authentic (`EntriesAreAuthentic`).
* In the web wallet, `lock` overwrites the bytes of the factor in place. An
  `acceptOffer` under way then stores the credential under zeros, and its `finally`
  shows the credentials page of a locked wallet (index.ts:207, 271 and 283).
  `cancelPresentation` says that nothing was disclosed, while a submission under
  way still sends (index.ts:370). `NothingGoesAstray` holds of both: what is sent
  was approved and goes where it was approved to go, and the verifier gives access
  only for what was approved for it (`AccessWasApproved`).

## 3. Model checking

All runs are exhaustive on their instance. Two slots per kind of call suffice for
the races of interest: each hazard is between a call that waits and one
that overtakes it.

Several runs explore more than one question. Where components share no state
(`holder`, `access`), the variable `part` of the MC module picks
the component a behaviour is about and the others stay where they start: the run
is the sum of the components' state spaces and not their product. Where
one component is asked several questions (`issuer`, `verifier`), `part` picks the
question and `Within` bounds the instance to what the question needs many of.

| Run | Instance | Shows |
|---|---|---|
| `issuer` | *issue*: one session, two offers and two issuances at a time, both OpenID4VCI flows, time to 3 with offers of 3 and codes of 2; *review*: two reviewers, policies of one or two replaced at any time, expiries 1 and 2; *status*: two credentials (a reissue), two status changes at a time, lost answers | `OneCredentialPerOffer`, `OfferTermsHold`, `OnlyReviewedSessionsIssue`, `RestrictionsArePublished`, `DecisionsStick` |
| `signer` | two keys, two request ids, two calls at a time, every port failing anywhere | `OneProviderCallPerRequest`, `NoBlindRetry`, `NothingReverts` |
| `verifier` | *race*: two sessions, three responses, two at a time, sessions expiring; *verdict*: one response (sound, misbound, faulty or inexact), two snapshots of three contents, refresh, prime and invalidate at any time | `OneEvaluationPerSession`, `VerifiedIsJustified`, `NoRollback`, `ReceiptsStand` |
| `auth_email` | one principal with two codes, a second identity, two addresses, another code, two calls at a time, two attempts per code | `CodesAreBounded`, `AddressChangesHold` |
| `wallet` | two requests at a time after one or none, two request ids, two keys, two windows; in memory, and over PostgreSQL on one connection or two; failures, lost answers, crashes | `RevocationStopsRequests`, `WindowsHold`, `IntentsAreAuthorised`, `IntentsAreFinal`, `StoreKeepsItsPromise` |
| `holder` | three guardians of whom two are needed, three proposals; modules pinned and not; one operation in all its forms, with two gas values, two sends, two polls; two challenges and audiences; one status list, with a cache age of 1 and time to 2; two deployments on two chains, two nonces; two tokens issued up to twice, a gate of two; two snapshots and two envelopes | `RotationIsEarned`, `SendsAreSimulated`, `AnsweredIsNotResent`, `SubmissionEnds`, `ChallengesHaveOneFate`, `RevocationTakesHold`, `LookupsEnd`, `AttestationsGrantOnce`, `ScansAreOneTime`, `OfflineVerdictsHold` |
| `access` | two ceremonies on two passkeys; two logins, two accounts; one template through every state; two rotations; two sessions that take two approvals, a bulk call of two rows; a wallet with two issuers and two verifiers, locked and unlocked twice; two vault ids, two puts and a backup; three vendors, three rotations; two self-issuing keys | `LoginsAreOneTime`, `QuietRevocationIsFinal`, `DutiesAreSeparated`, `BulkRowsAreSessions`, `RotationsAreNotForgotten`, `NothingGoesAstray`, `EntriesAreAuthentic`, `RestoresAreFresh`, `ImportIsAllOrNothing`, `ControlSurvivesRotation`, `VerifiedWasCreated` |

The *status* part of `issuer` needs no time to pass: no status change depends on
the clock. In `auth_email` the two codes have been mistyped once already; the third
is guessed from the beginning, so retrying after a wrong guess and the last attempt
both occur. `wallet` starts before and after a first transaction, so that retries
and a full window are reached with two requests. `access` starts with none, one or
two passkeys and with credentials in the wallet or none.

### Refinement

`StoreKeepsItsPromise` is the specification of `IdempotentStore`, instantiated in
`PlatformStore` (`Promise == INSTANCE IdempotentStore`) with the records as
they are settled and the answers callers have received. It covers both backends:
the in-memory one, where callers join an operation in progress and a failed one is
forgotten, and PostgreSQL, where the record of the operation is written outside the
transaction that holds the lock, and a rollback, a crash or a lost COMMIT leaves it
written and unanswered. The commit of a shared transaction may record the outcomes of
several calls at once (`Record`). A call that shared its transaction is mapped to one
that is refused: what it is told is not part of the promise.

### Disagreements between code and documentation

Each is a run that TLC ends with a counterexample:

* `issuer_revoked`: a suspend request waiting for `publish` while a revocation
  completes writes `suspended` over `revoked`, which the SDK reference calls
  terminal. The record and the public list may also cross: the list says
  `suspended` and the record `revoked` after both calls have returned.
* `issuer_claims`: two offers created concurrently for one session lead to two
  issuances; the second signs the claims the first erased.
* `verifier_replay`: the receipt of a duplicate response takes the place on the
  session of the one still being verified; a client told to query the session
  reads a rejection.
* `auth_email_address`: an address found free when a change was requested is taken
  by somebody else before the confirmation; two identities then hold it.

* `wallet_transaction`: the decision record of the wallet platform calls atomic
  idempotency mandatory. Two calls run on one `SqlTransaction`: one inserts its row,
  the other fails and rolls back. The first one's COMMIT ends no transaction and throws
  nothing, and its caller is answered an outcome that is recorded nowhere: a retry
  runs the operation again.

Section 4 proves, under *How far the refuted claims hold*, that nothing worse
happens.

### Fairness and liveness

Liveness is claimed where the code has a timer. `StatusFairness` is weak fairness
of the timer that races a status lookup (`LookupTimesOut`) and of nothing else:
the transport may never answer, and `LookupsEnd` holds all the same.
`SafeFairness` is weak fairness of the steps of `submitUserOperation`, whose
receipt is polled until a deadline: `SubmissionEnds` then says that every
submission ends in a receipt or an error, a bundler that never shows one included.
It assumes that a request to a provider comes back, with an answer or an error of
the HTTP client; the code has no timer of its own for it. The ports of the other services have no timeouts either,
so nothing in the code makes a parked call return, and fairness of their
resumptions would be an assumption about environments and not about this code.

## 4. Proofs

Every theorem has the form `Spec => []P` or `Spec => [][A]_vars`, for all
values of the constants that satisfy the module's `ASSUME`: any number of
sessions, slots, secrets, keys, snapshots, any time bound. The assumptions say
that times, limits and bounds are natural numbers, that `None` is not one of the
values it stands beside, that the reviewers are finitely many, that the gate of the
console holds at least one input (it is made for 256), and that the records given as
constants (policies, manifests, contents of snapshots) have the fields their parsers
ask for.

* **`IssuerServiceProofs`** — `TypeCorrect`, `SingleUse`, `FourEyes`, `Published`,
  `OfferTerms` (from `ErasedLate` and `WithinOffer`), `DecisionsAreFinal`.
  `OneCredentialPerOffer` is not inductive: it says nothing of grants and tokens
  that may still become credentials. `SingleBearer` does: of all unspent grants and
  tokens, issuances before their record exists and credentials, at most one
  descends from an offer; each step passes the capability on and never copies it.
  `ReviewsSettled` says that nothing is in use for a session that is still under
  review, so that no later decision can contradict it. `PublicationsExclusive` says
  that a record being published for the first time is known to one call only, so
  that its late "valid" cannot land on a restriction. `RootsStored` makes the
  expiries comparable.
* **`IssuerSignerProofs`** — `TypeCorrect`, `AtMostOnce`, `NeverBlind`, `Audited`,
  and `NoWayBack` (from `AmbiguityStays` and `RetiredKeysStayRetired`), from
  `HoldersExclusive`: a reservation belongs to one running call, the store shows it
  pending, and the call's place tells whether the provider was asked and the
  audit written. `NeverBlind` is about operations whose end was never recorded.
* **`VerifierServiceProofs`** — `TypeCorrect`, `OneEvaluation`, `Justified`,
  `NeverRolledBack`, `ReceiptsAreFinal`, from `CacheInv` (what the cache holds and
  brings was published, and is at least as new as when each parked call was made),
  `ResponseInv` (what a response has passed by the await it is at), `ReceiptInv`
  and `ConsumedOnce` (the response or receipt that looked at a session's
  presentation is the only one).

* **`AuthEmailProofs`** — `TypeCorrect`, `BoundedCodes`, `AddressesHold`.
  `CodesAreBounded` alone does not survive the step that resumes a call after the
  hash. `GuessInv` says that a guess being hashed holds its code: nobody else
  guesses at it and it is not spent. `AttemptInv` says that a code which may be
  guessed at has a guess left, `SessionInv` that the code of a session is spent.
  `AddressChangesHold` is an invariant (the index points home) and two action
  properties; they follow from what parked requests and confirmations carry
  (`RequestInv`, `TargetInv`).
* **`WalletServiceProofs`** — `TypeCorrect`, `RevocationHolds`, `LimitsHold`,
  `AuthorisedIntents`, `FinalIntents` and the refinement `StoreImplementsPromise`,
  of the composed module: store, evaluator and service together. `GrantInv` says
  that what a request may still write was authorised, that no other request may
  write under that id and that nothing is stored under it; `LinkInv`, that a
  request, its authorisation and its operation in the store are about the same
  thing. `UsageInv` says that the usage of a key counts the reservations of its
  last window, as long as none was late; `RevokedInv`, that a revocation is
  found at the await that looks for it. `StoreInv` says that in memory the key of an
  operation in progress has one leader, that those who join it wait for the outcome
  of their own request, and that an operation that succeeded, alone on its
  connection, has settled its key.
  Under the refinement mapping an initial state of the store is an initial state of
  `IdempotentStore`, and every step of the service is a step of it: a caller
  *asks*, outcomes are *recorded*, a caller is *answered* with what is recorded or
  *refused*, a caller *leaves*, or nothing changes. `StoreInv` follows the rows of
  the open transactions too: a key has at most one of them, the call that inserted it
  has still to end the transaction, and a call that has shared its connection with
  no other finds at its COMMIT what it selected or inserted.
* **`HolderProofs`** — the components that share no state, each with an invariant
  of its own:
  * `RotationEarned` from `RecoveryInv`: a proposal waiting for its digest has a
    number nobody has approved, so the approvals of the pending one are its own.
  * `SimulatedSends` and `NoBlindResend` from `SafeInv`: what is being submitted
    was found valid in that form, gas and fees apart (`KeysHoldForms`: a key holds the
    form of an operation and nothing else), and an answered one is in no submission.
  * `OneGrant` from `GrantInv`: an attestation that opened access has its nonce
    used up at its own deployment, the only one where it recovers the attestor.
  * `OneTimeScans` from `TokenInv` and `GateInv`: an input still held by the gate
    was followed by exactly the inputs behind it, so the one that is pushed out
    was followed by as many different ones as the gate holds.
  * `OfflineVerdicts` from `OfflineInv`: a verification past its signature is of a
    signed, live envelope, and the primed snapshot has not gone back since the
    verification began; `CallStays` carries that over every step of other calls.
  * `OneFate` from `ChallengeInv`: only an unconsumed challenge has no verdict.
  * `RevocationIsBelieved` from `StatusInv`: whatever says *valid*, cached or on
    its way, expires within `MaxAge` of the moment the list stopped saying so, and
    a lookup that found the list not valid still finds the same moment in it.

* **`AccessProofs`** — the components of the `access` run, each again with an
  invariant of its own, and the properties of `Access` from them:
  * `OneTimeLogins` from `PasskeyInv`, `OidcInv` and `VpInv`: a challenge or state
    in its store is unused, one taken out is held by one call, and a call that
    has not finished has counted nothing. `QuietRevocations`: a ceremony can only
    write back what it read, and nobody had read that passkey.
  * `NothingAstray` from `VciInv` (a call that waits for its token will send it to
    the issuer of its offer) and `WebInv` (a submission carries the review it was
    approved in, whatever the screen shows by then), of the web wallet
    composed with both protocols. `TokensInv` carries the approval over to the
    verifier: a token it is validating, like one it has accepted, is one the wallet
    disclosed, with the state of the request the user saw.
  * `SeparateDuties` from `AdminInv` and `LifecycleInv`: a session that has its
    approvals takes no further review (`SessionsMoveOn`), so what `issueApproved`
    checked before its await still holds when the offer arrives. `BulkRowsKept`: the
    service makes a session only under an id it does not have, and no step changes
    the request of one it has.
  * `RotationsRemembered` from `RotationInv`: the request `rotateWithProvider` read
    before its await has the plan of the rotation it is written over, and every
    result that is shown is the last recorded.
  * `AuthenticEntries` and `FreshRestores` from `VaultInv`: not only the entries
    but whatever a call is about to write, and every backup, is authentic.
  * `AllOrNothing`, `ControlSurvives` and `OldControlUnlessLost` from `PortInv`: at
    each await an import knows what the target was, and a rotation that may remove
    the old control has the next one in place.
  * `SelfIssuedVerdicts` from `SelfInv`: the payload of a verification past the
    description of its key names that key's controller, and the key was not revoked
    when it began.

### How far the refuted claims hold

For each of the claims that a run refutes, a theorem says how far the code does
keep it, from the same inductive invariants:

* `RevocationIsFinal` (`IssuerServiceProofs`): once a credential is revoked and no
  suspension of it is parked, no call, answer or failure makes it anything else, and
  the public list can change to `revoked` only. A suspension that overtakes is the
  only way out.
* `NeverOnlyEmpty` (`IssuerServiceProofs`): a credential signed after the claims
  were erased exists only where the holder was given one made from them, under
  another offer of the session. `ClaimsInv` follows the claims through the calls that
  sign and publish: claims are erased only by an issuance that is returned.
* `VerdictOrRefusalShown` (`VerifierServiceProofs`): a session shows the verdict on
  its presentation or the rejection of a response that was not evaluated. A client
  that queries it may miss the verdict but is never shown a different one.
* `StoreImplementsPromise` (`WalletServiceProofs`): a call that shared its transaction
  with no other is answered what is recorded, whatever the others do; and a key that has
  an outcome keeps it.
* `SharingIsNarrow` (`AuthEmailProofs`): from a state in which the index points at
  every identity, a step leads to such a state or is a confirmation, with the code
  delivered to the new address, of a change to an address another identity has.
  No registration and no other race makes identities share one.

Type correctness, `Audited` (no resolved outcome without its audit event),
`ErasedLate` and `WithinOffer` are proved and not listed among the properties of
a run. `OldControlUnlessLost` says when the error message
"vendor rotation failed; old control remains authoritative" is true: when no answer
of `removeOldControl` was lost.

The proof of `AddressesHold` corrected the model's property. It used to ask that
the code of a change belong to the principal whose address changes. That is not
so: `requestEmailChange` names the principal of a code only after it was
sent, and the confirmation of another principal who got hold of the code may have
begun by then. What holds, and is now stated, is that the confirmation is a call
of the identity's own principal, with a code delivered to the new address
that the step itself spends.

Model-checked only: liveness (`SubmissionEnds`, `LookupsEnd`), which TLAPS 1.4.5
does not prove. Every other property of a passing run is stated by a theorem.

## 5. Plan

1. The composed type invariants of the components in `HolderProofs` and
   `AccessProofs` are part of their inductive invariants; theorems of their own
   would make them citable.
2. `AccessWasApproved` leads from the access a verifier gives back to the user's
   approval. The other half, from the credential shown back to the offer it was
   taken under, needs the provenance of what the web wallet stores.

## 6. Not modelled

* Credential formats, canonical serialisation, JWT, SD-JWT and mdoc encoding, HTTP
  routing and payload validation, configuration parsing: functions of their input,
  represented by the outcome of the check they make.
* Presentation policies and templates beyond what the web wallet selects with:
  pure checks of values.
* Mobile and wallet SDKs, the identity SDK's HTTP clients, applications'
  user interfaces, camera and WebAuthn adapters: no state between calls.
* Sector configurations (institutional use cases): the issuer and the verifier
  with other constants.
* Contract harnesses, test doubles and fixtures.
* Several tenants, except in the console's modules (the store's has them as a
  constant, with one in its instance): the maps of the services are keyed by tenant
  throughout.
