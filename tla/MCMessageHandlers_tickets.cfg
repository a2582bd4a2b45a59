\* The tickets of one sender in the group, by two handlers.
SPECIFICATION TicketSpec
CONSTANTS
    h1 = h1
    h2 = h2
    t1 = t1
    alice = alice
    Senders <- OneSender
    Words <- OneWord
    Names <- OneName
    Password <- NamePassword
    Handlers <- TwoHandlers
    Chats = {"group"}
    Kinds = {"text", "done", "ticket_type", "ticket_done"}
    Joiners <- Nobody
    AuthTTL = 1
    MaxClock = 0
    MaxTickets = 2
INVARIANTS
    TicketsOfOneDialog
    ButtonsShowTheirTicket
    ClosedOnce
SYMMETRY HandlerSymmetry
