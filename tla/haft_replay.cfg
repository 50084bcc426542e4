SPECIFICATION RecoverySpec
CONSTANTS
    t1 = t1
    t2 = t2
    a1 = a1
    a2 = a2
    b1 = b1
    call = call
    NoTicket = NoTicket
    Ticket = {t1}
    Write = {a1}
    TicketOf <- MCTicketOf
    Threshold = 3
    MaxPipe = 3
PROPERTY StoredIsReplayed
