---------------------------- MODULE WalletService ----------------------------
(***************************************************************************)
(* The wallet service (apps/wallet-service/src/index.ts) over the platform *)
(* store and the signer policy, and the wallet actions                     *)
(* (packages/wallet-actions/src/index.ts), which ask the same policy.      *)
(*                                                                         *)
(* A request is parked in `requests` at its awaits; while it is authorised *)
(* or runs an idempotent operation, its slot has an entry in `auths` or in *)
(* `ops` as well.  GET requests change nothing and are left out.           *)
(***************************************************************************)
EXTENDS PlatformStore, SignerPolicy

CONSTANTS
    Callers,        \* authenticated contexts: [tenant, scopes, session, signer, policy]
    Bodies,         \* request bodies: [hash, entity, req]
    Actions         \* prepared actions with their requests, step-up included

\* The intent of a transaction has the id and the content of its request.
ASSUME WalletAssumption ==
    /\ \A c \in Callers : c.tenant \in Tenants
    /\ \A b \in Bodies :
          /\ b.hash \in Hashes /\ b.entity \in StoreValues
          /\ b.entity.kind = "intent" =>
                b.entity.id = b.req.id /\ b.entity.content = b.req.content
    /\ \A v \in StoreValues, t \in 0 .. MaxTime : <<v.kind, v.id, t>> \in AuditEvents

VARIABLES requests

walletVars == <<requests, storeVars, signerVars>>

WalletInit ==
    /\ StoreInit /\ SignerInit
    /\ requests = EmptyMap

RequestAt(k, pc) == k \in DOMAIN requests /\ requests[k].pc = pc

MoveRequest(k, pc) == requests' = [requests EXCEPT ![k].pc = pc]

\* The response, an error or not, is sent; the slot is not used again.
Respond(k) == MoveRequest(k, "done")

Accept(k, c, key, b, pc) ==
    /\ k \notin DOMAIN requests
    /\ requests' = Put(requests, k, [caller |-> c, key |-> key, body |-> b, pc |-> pc])
    /\ UNCHANGED <<storeVars, signerVars>>

\* authenticate gave the caller the scopes of its key or token.
HasScope(c, scope) == scope \in c.scopes

CreateWallet(k, c, key, b) ==
    /\ HasScope(c, "wallets:write")
    /\ b.entity.kind = "wallet"
    /\ Accept(k, c, key, b, "run")

CreateTransaction(k, c, key, b) ==
    /\ HasScope(c, "transactions:write")
    /\ b.entity.kind = "intent"
    /\ Accept(k, c, key, b, "wallet")

\* The request the policy is asked about: the body's, with the session, signer
\* and policy of the caller.  No evidence of step-up and no asset can be given.
PolicyRequest(c, b) ==
    [session |-> c.session, signer |-> c.signer, policy |-> c.policy,
     id |-> b.req.id, content |-> b.req.content, stepUp |-> None,
     chainId |-> b.req.chainId, target |-> b.req.target, selector |-> b.req.selector,
     asset |-> "native", operation |-> b.req.operation, amount |-> b.req.amount]

\* The wallet is read; a transaction of an unknown one is answered 404.
WalletFound(k) ==
    LET q == requests[k]
    IN  /\ RequestAt(k, "wallet")
        /\ IF GetRecord(q.caller.tenant, "wallet", q.body.req.wallet) = None
           THEN Respond(k) /\ UNCHANGED signerVars
           ELSE /\ MoveRequest(k, "authorize")
                /\ Authorize(k, PolicyRequest(q.caller, q.body), now)
        /\ UNCHANGED storeVars

\* Mutant of Decided: the decision is not looked at.
DecidedAnyway(k) ==
    /\ RequestAt(k, "authorize")
    /\ MoveRequest(k, "run")
    /\ EndAuthorization(k)
    /\ UNCHANGED <<storeVars, now, policyVars, usageVars>>

Decided(k) ==
    /\ RequestAt(k, "authorize")
    /\ IF AuthAt(k, "allowed") THEN MoveRequest(k, "run") ELSE Respond(k)
    /\ EndAuthorization(k)
    /\ UNCHANGED <<storeVars, now, policyVars, usageVars>>

Run(k) ==
    LET q == requests[k]
    IN  /\ RequestAt(k, "run")
        /\ RunIdempotent(k, q.caller.tenant, q.key, q.body.hash, q.body.entity)
        /\ MoveRequest(k, "running")
        /\ UNCHANGED signerVars

\* The operation is answered, and an audit event follows; or it threw.
Ran(k) ==
    /\ RequestAt(k, "running")
    /\ IF At(k, "answered") THEN MoveRequest(k, "audit") ELSE Respond(k)
    /\ EndOperation(k)
    /\ UNCHANGED <<backend, records, idempotency, sqlVars, audits, signerVars>>

\* audit: the id of an event is made of its type, resource and second; a
\* second one of that id is refused and every error swallowed.
Audited(k) ==
    LET q == requests[k]
    IN  /\ RequestAt(k, "audit")
        /\ \E accepted \in RedactionAccepts :
              AppendAudit(q.caller.tenant, <<q.body.entity.kind, q.body.entity.id, now>>,
                          accepted)
        /\ Respond(k)
        /\ UNCHANGED <<backend, records, idempotency, sqlVars, ops, signerVars>>
-----------------------------------------------------------------------------
(* wallet-actions: simulateAndAuthorize.                                   *)

ProposeAction(k, r) ==
    /\ k \notin DOMAIN requests
    /\ requests' = Put(requests, k, [action |-> r, pc |-> "simulate"])
    /\ UNCHANGED <<storeVars, signerVars>>

\* The simulation failed, or the policy is asked; at is the caller's clock.
Simulated(k) ==
    /\ RequestAt(k, "simulate")
    /\ \/ Respond(k) /\ UNCHANGED signerVars
       \/ MoveRequest(k, "authorizeAction") /\ Authorize(k, requests[k].action, now)
    /\ UNCHANGED storeVars

ActionDecided(k) ==
    /\ RequestAt(k, "authorizeAction")
    /\ Respond(k)
    /\ EndAuthorization(k)
    /\ UNCHANGED <<storeVars, now, policyVars, usageVars>>
-----------------------------------------------------------------------------
Requests(k) ==
    \/ \E c \in Callers, key \in IdempotencyKeys, b \in Bodies :
           CreateWallet(k, c, key, b) \/ CreateTransaction(k, c, key, b)
    \/ \E r \in Actions : ProposeAction(k, r)

ServiceStep(k) ==
    \/ WalletFound(k) \/ Decided(k) \/ Run(k) \/ Ran(k) \/ Audited(k)
    \/ Simulated(k) \/ ActionDecided(k)

WalletNext ==
    \/ \E k \in Slots : Requests(k) \/ ServiceStep(k)
    \/ \E k \in Slots : StoreStep(k) /\ UNCHANGED <<requests, signerVars>>
    \/ \E k \in Slots : AuthorizeStep(k) /\ UNCHANGED <<requests, storeVars>>
    \/ (Administer \/ Tick) /\ UNCHANGED <<requests, storeVars>>

WalletSpec == WalletInit /\ [][WalletNext]_walletVars

WalletTypeOK ==
    /\ StoreTypeOK
    /\ now \in 0 .. MaxTime
    /\ IsMap(policies, Policies, PolicyValues) /\ IsMap(sessions, Sessions, SessionValues)
    /\ revokedPolicies \subseteq Policies /\ revokedSessions \subseteq Sessions
    /\ DOMAIN ops \cup DOMAIN auths \subseteq DOMAIN requests
    /\ DOMAIN requests \subseteq Slots
    /\ \A k \in DOMAIN requests :
           /\ (k \in DOMAIN ops) = RequestAt(k, "running")
           /\ (k \in DOMAIN auths) =
                 (requests[k].pc \in {"authorize", "authorizeAction"})
-----------------------------------------------------------------------------
\* What the store holds as the intent of a request is what the policy allowed
\* under that request's id: no other body, caller or retry gets in between the
\* decision and the write, and nothing is written over it later.
IntentsAreAuthorised ==
    \A x \in DOMAIN records :
        x[2] = "intent" =>
            \E r \in reservations :
                /\ r.req.id = x[3] /\ r.req.content = records[x].content
                /\ \E c \in Callers : c.tenant = x[1] /\ c.session = r.req.session

\* An intent once stored is never changed: request ids are granted once, and an
\* idempotency key runs its operation once.
IntentsAreFinal ==
    [][\A x \in DOMAIN records :
          x[2] = "intent" => x \in DOMAIN records' /\ records'[x] = records[x]]_walletVars

\* The store implements IdempotentStore: whatever its callers, failures, lost
\* answers and rollbacks do, a key gets one outcome, that of a call in progress,
\* and every answer is that outcome, given for the request it was recorded for
\* (runIdempotent, in memory and over PostgreSQL).  Answers of calls that ran on
\* one SqlTransaction at the same time are not promised anything.
StoreKeepsItsPromise == Promise!Spec

\* Idempotency is atomic: what a call is answered is recorded under its key, for
\* its request.  Two calls on the SqlTransaction of one store break it: one rolls
\* back the row that the other has inserted, and the COMMIT of the other succeeds.
AnswersAreRecorded ==
    \A k \in DOMAIN ops :
        ops[k].pc = "answered" =>
            /\ KeyOf(ops[k]) \in DOMAIN idempotency
            /\ idempotency[KeyOf(ops[k])].settled
            /\ idempotency[KeyOf(ops[k])].hash = ops[k].hash
=============================================================================
