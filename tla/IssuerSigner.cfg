\* Two calls at a time under two request ids: signing, rotating to a standby
\* key and disabling race with each other.
INIT MCInit
NEXT Next
CONSTANTS
    None = None
    k1 = k1  k2 = k2  m1 = m1  q1 = q1  q2 = q2  c1 = c1  c2 = c2
    Keys = {k1, k2}
    Payloads = {m1}
    Requests = {q1, q2}
    Slots = {c1, c2}
SYMMETRY MCSymmetry
CHECK_DEADLOCK FALSE
INVARIANTS
    OneProviderCallPerRequest
    NoBlindRetry
PROPERTIES
    NothingReverts
