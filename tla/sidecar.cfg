SPECIFICATION Spec
CONSTANTS
    Clients = {c1, c2}
    MaxDaemons = 3
    NoClient = NoClient
    MaxEmbeds = 3
    MaxFaults = 2
CHECK_DEADLOCK FALSE
INVARIANT OneReachableDaemon
INVARIANT AcceptedIsServed
PROPERTY CallsEnd
