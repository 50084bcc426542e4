SPECIFICATION Spec
CONSTANTS
    c1 = c1
    c2 = c2
    c3 = c3
    r1 = r1
    r2 = r2
    dec = dec
    prob = prob
    pathA = pathA
    pathB = pathB
    pathC = pathC
    NoRunner = NoRunner
    Commission = {c1, c2, c3}
    Runner = {r1, r2}
    Creator = {k1, k2}
    Artifact = {dec, prob}
    LockPath = {pathA, pathB, pathC}
    PathsOverlap <- DirectoryOverlap
    Payload <- LocksPayload
    CreateStates = {"draft", "queued"}
    SliceChoices = {FALSE}
    LeaseAgeCap = 1
    MaxTime = 0
    MaxRevision = 0
    MaxClosedRuns = 1
INVARIANTS
    LocksetExclusion
    DependencyOrder
PROPERTIES
    ImplementsLocks
SYMMETRY RunnerSymmetry
CHECK_DEADLOCK FALSE
