SPECIFICATION FairSpec
CONSTANTS
    d1 = d1  d2 = d2  d3 = d3  m1 = m1
    NoAttempt = NoAttempt
    Attempts = {d1, d2}
    Keys = {m1}
    KeyOf <- Redelivered
    FailureKinds = {"rejected"}
    Kinds = {"text", "long", "media"}
    MaxFaults = 1
    MaxEvents = 1
INVARIANTS
    HistoryIsReal
PROPERTIES
    FollowsReservation
    EveryMessageIsKept
    NothingIsLost
CHECK_DEADLOCK FALSE
