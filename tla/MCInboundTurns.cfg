SPECIFICATION Spec
CONSTANTS
    d1 = d1  d2 = d2  d3 = d3  m1 = m1
    NoAttempt = NoAttempt
    Attempts = {d1, d2}
    Keys = {d1, d2}
    KeyOf <- OwnMessage
    FailureKinds = {"rejected"}
    Kinds = {"text"}
    MaxFaults = 1
    MaxEvents = 2
SYMMETRY Deliveries
INVARIANTS
    OneAnswerPerGate
    
CHECK_DEADLOCK FALSE
