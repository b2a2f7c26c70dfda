--------------------------- MODULE MCWalletService ---------------------------
(* A small instance of WalletService for TLC.                                *)
EXTENDS WalletService, TLC

CONSTANTS k1, k2, t1, key1, key2, s1, p1, g, contract, m, w, r1, r2, x1, x2, d1, d2

MCCallers ==
    {[tenant |-> t1, scopes |-> {"wallets:write", "transactions:write"},
      session |-> s1, signer |-> g, policy |-> p1]}

Req(id, content, op, stepUp) ==
    [session |-> s1, signer |-> g, policy |-> p1, id |-> id, content |-> content,
     stepUp |-> stepUp, wallet |-> w, chainId |-> 1, target |-> contract, selector |-> m,
     asset |-> "native", operation |-> op, amount |-> 1]

Intent(id, content, valid) ==
    [hash |-> <<id, content>>,
     entity |-> [id |-> id, content |-> content, valid |-> valid, kind |-> "intent"],
     req |-> Req(id, content, "transaction", None)]

\* Two bodies under one request id, one that does not parse as an intent, and a
\* new wallet.
MCBodies ==
    {Intent(r1, x1, TRUE), Intent(r1, x2, TRUE), Intent(r2, x2, FALSE),
     [hash |-> <<w, x1>>,
      entity |-> [id |-> w, content |-> x1, valid |-> TRUE, kind |-> "wallet"],
      req |-> Req(r1, x1, "transaction", None)]}

MCHashes == {b.hash : b \in MCBodies}
MCStoreValues == {b.entity : b \in MCBodies}
MCAuditEvents == {<<v.kind, v.id, t>> : v \in MCStoreValues, t \in 0 .. MaxTime}

\* A sensitive action with its own evidence, and one with another's.
MCActions ==
    {Req(r2, x1, "export", [requestId |-> r2, verifiedAt |-> 0, expiresAt |-> 2]),
     Req(r2, x1, "export", [requestId |-> r1, verifiedAt |-> 0, expiresAt |-> 2])}

MCSession == [signer |-> g, policy |-> p1, expiresAt |-> MaxTime + 1, issuedAt |-> 0]
MCSessionValues == {MCSession}

MCPolicy ==
    [chainId |-> 1, expiresAt |-> MaxTime + 1, validFrom |-> 0, operations |-> {},
     rules |-> [t \in {contract} |-> [operations |-> {}, selectors |-> {m},
                               assets |-> EmptyMap, maxAmount |-> 1]],
     windowSeconds |-> 1, maxOperations |-> 1, maxTotalAmount |-> 2]
MCPolicyValues == {MCPolicy}

WalletRecord == <<t1, "wallet", w>> :>
                [id |-> w, content |-> x1, valid |-> TRUE, kind |-> "wallet"]

First == Intent(r1, x1, TRUE)

\* A transaction that has been handled before: stored, reserved and recorded.
Earlier ==
    /\ records = WalletRecord @@ (<<t1, "intent", First.entity.id>> :> First.entity)
    /\ idempotency = <<t1, key1>> :> [hash |-> First.hash, value |-> First.entity, settled |-> TRUE]
    /\ usage = FrequencyKey(First.req) :> [windowStart |-> 0, count |-> 1, amount |-> 1]
    /\ consumedRequestIds = {First.entity.id}
    /\ reservations = {[req |-> First.req, key |-> FrequencyKey(First.req), start |-> 0,
                        late |-> FALSE, revoked |-> FALSE]}

Nothing ==
    /\ records = WalletRecord /\ idempotency = EmptyMap
    /\ usage = EmptyMap /\ consumedRequestIds = {} /\ reservations = {}

\* Policy, session and wallet are in place, and one transaction or none before.
MCInit ==
    /\ backend \in {"memory", "postgres"}
    /\ Nothing \/ Earlier
    /\ transactions = EmptyMap /\ locks = EmptyMap /\ ops = EmptyMap
    /\ audits = [t \in Tenants |-> {}]
    /\ now = 0
    /\ policies = [i \in Policies |-> MCPolicy]
    /\ sessions = [i \in Sessions |-> MCSession]
    /\ revokedPolicies = {} /\ revokedSessions = {}
    /\ auths = EmptyMap
    /\ requests = EmptyMap

MCSymmetry ==
    Permutations(Slots) \cup Permutations(IdempotencyKeys) \cup Permutations(Connections)
=============================================================================
