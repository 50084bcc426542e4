SPECIFICATION Spec
CONSTANTS
    Ticket = {t1}
    Slot = {1, 2}
    Token = {1, 2}
    Phase = {"frame", "execute", "measure"}
    EntryPhase = "frame"
    AdvanceMap <- Mvp1
    HumanGated = {}
    MaxConcurrency = 1
    MaxAttempt = 1
INVARIANT
    OutcomeAlwaysApplies
