\* One principal sent two codes, a second identity to come, a free address, one
\* more code and two sessions; two calls at a time.
INIT MCInit
NEXT Next
CONSTANTS
    None = None
    a1 = a1  a2 = a2  i1 = i1  i2 = i2  p1 = p1  p2 = p2
    h1 = h1  h2 = h2  h3 = h3  s1 = s1  s2 = s2  k1 = k1  k2 = k2
    Addresses = {a1, a2}
    Identities = {i1, i2}
    Principals = {p1, p2}
    Challenges = {h1, h2, h3}
    Sessions = {s1, s2}
    Slots = {k1, k2}
    OtpTtl = 1
    SessionTtl = 1
    MaxAttempts = 2
    MaxRequests = 2
    RateWindow = 1
    MaxTime = 1
SYMMETRY MCSymmetry
CHECK_DEADLOCK FALSE
INVARIANTS
    OneIdentityPerAddress
