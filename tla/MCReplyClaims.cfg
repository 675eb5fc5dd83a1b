SPECIFICATION FairClaimSpec
CONSTANTS
    a1 = a1  a2 = a2  a3 = a3  k1 = k1
    NoAttempt = NoAttempt
    Attempts <- MCAttempts
    Keys <- MCKeys
    KeyOf <- ThreeOfOneKey
    FailureKinds = {"refused", "timeout", "unreachable", "rejected"}
INVARIANTS
    AtMostOnce
    AnswersAreSound
PROPERTIES
    ReservationHolds
    RefinesOutboundText
    AttemptsEnd
CHECK_DEADLOCK FALSE
