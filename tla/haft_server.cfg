SPECIFICATION FairSpec
CONSTANTS
    t1 = t1
    t2 = t2
    a1 = a1
    a2 = a2
    b1 = b1
    call = call
    NoTicket = NoTicket
    Ticket = {t1, t2}
    Write = {a1, a2, b1}
    TicketOf <- MCTicketOf
    Threshold = 2
    MaxPipe = 2
INVARIANT StoredNotLost
INVARIANT OkMeansApplied
INVARIANT ReplayInOrder
PROPERTY ServerReturns
