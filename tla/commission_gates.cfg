SPECIFICATION Spec
CONSTANTS
    c1 = c1
    c2 = c2
    c3 = c3
    r1 = r1
    r2 = r2
    dec = dec
    prob = prob
    pathA = pathA
    pathB = pathB
    pathC = pathC
    NoRunner = NoRunner
    Commission = {c1, c2}
    Runner = {r1}
    Creator = {k1}
    Artifact = {dec, prob}
    LockPath = {pathA, pathB, pathC}
    PathsOverlap <- DirectoryOverlap
    Payload <- GatesPayload
    CreateStates = {"queued"}
    SliceChoices = {FALSE}
    LeaseAgeCap = 1
    MaxTime = 2
    MaxRevision = 2
    MaxClosedRuns = 2
INVARIANTS
    TypeOK
    DeliveryOnlyAfterCompletion
PROPERTIES
    StaleNeverRuns
    LeaseHandover
    TerminalIsAbsorbing
CHECK_DEADLOCK FALSE
