\* Each question within the bounds it needs.
SPECIFICATION MCSpec
CONSTANTS
    None = None
    s1 = s1  s2 = s2  r1 = r1  r2 = r2  r3 = r3  c1 = c1  c2 = c2  m1 = m1
    Parts = {"race", "verdict"}
    Sessions = {s1, s2}
    Receipts = {r1, r2, r3}
    Callers = {c1, c2}
    Maintainers = {m1}
    Contents <- MCContents
    Presentations <- MCPresentations
    Lifetimes = {1, 2}
    Second = 1
    SessionTtl = 2
    MaxTime = 2
    MaxSequence = 2
    MaxPublished = 2
SYMMETRY MCSymmetry
CHECK_DEADLOCK FALSE
INVARIANTS
    OneEvaluationPerSession
    VerifiedIsJustified
    NoRollback
PROPERTIES
    ReceiptsStand
