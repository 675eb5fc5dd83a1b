SPECIFICATION ScreenSpec
CONSTANTS
    a = a  b = b
    Conversations = {a, b}
    Matching = {a}
    None = None
    MaxEvents = 2
    MaxFailures = 1
    MaxCalls = 2
PROPERTIES
    CatchesUp
CHECK_DEADLOCK FALSE
