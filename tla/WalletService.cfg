\* Two requests after one or none, two request ids, two
\* idempotency keys, two frequency windows, both stores.
INIT MCInit
NEXT WalletNext
CONSTANTS
    None = None
    k1 = k1  k2 = k2  t1 = t1  key1 = key1  key2 = key2  s1 = s1
    p1 = p1  g = g  contract = contract  m = m  w = w  r1 = r1  r2 = r2  x1 = x1  x2 = x2
    d1 = d1  d2 = d2
    Connections = {d1, d2}
    Slots = {k1, k2}
    Tenants = {t1}
    IdempotencyKeys = {key1, key2}
    Sessions = {s1}
    Policies = {p1}
    MaxTime = 1
    Hashes <- MCHashes
    StoreValues <- MCStoreValues
    AuditEvents <- MCAuditEvents
    SessionValues <- MCSessionValues
    PolicyValues <- MCPolicyValues
    Callers <- MCCallers
    Bodies <- MCBodies
    Actions <- MCActions
SYMMETRY MCSymmetry
CHECK_DEADLOCK FALSE
INVARIANTS
    RevocationStopsRequests
    WindowsHold
    IntentsAreAuthorised
PROPERTIES
    IntentsAreFinal
    StoreKeepsItsPromise
