SPECIFICATION Spec
CONSTANTS
    Commission = {c1}
    HumanGated = {"execute"}
    HookPaths = {"other"}
    MaxClaims = 1
    MaxTurns = 2
    MaxFaults = 3
    MaxActs = 2
PROPERTY CompletedInScope
PROPERTY WorkIsOfThisAttempt
PROPERTY SessionsEnd
CHECK_DEADLOCK FALSE
