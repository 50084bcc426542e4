SPECIFICATION FairSpec
CONSTANTS
    Ticket = {t1}
    Slot = {1, 2, 3}
    Token = {1, 2}
    Phase = {"frame", "execute", "measure"}
    EntryPhase = "frame"
    AdvanceMap <- Mvp1
    HumanGated = {"execute"}
    MaxConcurrency = 1
    MaxAttempt = 1
INVARIANTS
    TypeOK
    OneSessionPerTicket
    WorkersTracked
    ClaimsAreOwned
PROPERTIES
    SessionEnds
    RetryEnds
