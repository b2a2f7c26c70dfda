\* Two offers and two issuances of one session.
SPECIFICATION MCSpec
CONSTANTS
    None = None
    t1 = t1  i1 = i1  p1 = p1  r1 = r1  r2 = r2  s1 = s1  s2 = s2  c1 = c1  c2 = c2
    k1 = k1  k2 = k2  x1 = x1  x2 = x2  x3 = x3  x4 = x4
    id1 = id1  id2 = id2
    Parts = {"issue"}
    Templates = {t1}
    Issuers = {i1}
    Policies = {p1}
    Reviewers = {r1, r2}
    Sessions = {s1, s2}
    Clients = {c1, c2}
    Secrets = {x1, x2, x3, x4}
    Credentials = {id1, id2}
    OfferSlots = {k1, k2}
    IssueSlots = {k1, k2}
    StatusSlots = {k1, k2}
    MaxRequired = 2
    CodeTTL = 2
    OfferTTLs = {1, 3}
    Expiries = {1, 2, 3}
    MaxTime = 3
SYMMETRY MCSymmetry
CHECK_DEADLOCK FALSE
INVARIANTS
    ClaimsPresentWhileIssuing
