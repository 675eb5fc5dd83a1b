SPECIFICATION OutsideSpec
CONSTANTS
    w1 = w1  w2 = w2  b1 = b1  k1 = k1  k2 = k2
    Outsiders = {"reads", "audit", "agent", "triage"}
    Readers = {w1, w2}
    Sources <- MCSources
    Threshold = 2
    Limit = 2
    RetryLimit = 1
    PageSize = 1
    MaxPages = 2
    LastInvoice = 2
    Subscribers = {k1, k2}
    Books <- MCBooks
    MaxReads = 2
    MaxAgain = 1
    None = None
    LastContract = 3
    Customers = {k1}
    CustomerOf <- MCCustomerOf
    Nobody = Nobody
    Registrations <- MCRegistrations
    Missing = Missing
    Passes = {w1, w2}
    Buttons = {b1}
    PerPass = 2
    MaxAsides = 1
    Null = Null
    Messages <- MCMessages
    Reading <- MCReading
    Guesses <- MCGuesses
    Profiles <- MCProfiles
    Callers = {"training", "homologation", "whatsapp"}
    MaxHistory = 3
    MaxRows = 5
    Turns = {w1, w2}
    MaxTurns = 2
    MaxTickets = 1
    Understandings <- MCUnderstandings
    Numbers = {0, 3}
    Situations <- MCSituations
    OutageLists <- MCOutageLists
SYMMETRY Alike
INVARIANTS
    OutsideTypeOK
    ExactlyOneOrNobody
    RepliesHaveReceipts
PROPERTIES
    NothingIsSkipped
    TicketsAreReliable
CHECK_DEADLOCK FALSE
