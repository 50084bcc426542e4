SPECIFICATION Spec
CONSTANTS
    s1 = s1
    s2 = s2
    d1 = d1
    d2 = d2
    c1 = c1
    p1 = p1
    p2 = p2
    f1 = f1
    NoRef = NoRef
    Sessions = {s1, s2}
    Decisions = {d1, d2}
    Problems = {p1, p2}
    Framed = {p1}
    Decided = {d1}
    DecidedFor <- MCDecidedFor
    Claims = {c1}
    VerifyAfter <- MCVerifyAfter
    Files = {f1}
    SharedFiles = {}
    Refreshed = {d1, d2}
    MaxClock = 2
    MaxOps = 3
    MaxAborts = 1
    MaxEdits = 1
SYMMETRY Interchangeable
CHECK_DEADLOCK FALSE
INVARIANT NewestMeasurementWins
INVARIANT ClaimsFollowMeasurements
INVARIANT OneLiveDecision
INVARIANT ArchivedStaysQuiet
PROPERTY DebtStays
PROPERTY EvidenceIsKept
