SPECIFICATION ScreenSpec
CONSTANTS
    a = a  b = b
    Conversations = {a, b}
    Matching = {a}
    None = None
    MaxEvents = 4
    MaxFailures = 0
    MaxCalls = 2
INVARIANTS
    DraftStaysAtHome
CHECK_DEADLOCK FALSE
