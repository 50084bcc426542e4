SPECIFICATION Spec
CONSTANTS
    Sessions = {s1, s2}
    Docs = {a1, a2}
    MaxEdits = 2
    MaxFaults = 1
INVARIANT NoLostInvalidation
INVARIANT VectorsMatchText
PROPERTY IndexNeverGoesBack
PROPERTY InvalidatedGetsIndexed
