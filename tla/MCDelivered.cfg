SPECIFICATION FairDelivery
CONSTANTS
    None = None
    p1 = p1
    p2 = p2
    h1 = h1
    h2 = h2
    Messages = {1, 2}
    Contents = {c1}
    AttemptLimit = 4
    ClaimLimit = 2
    Publishers = {p1}
    Handlers = {h1, h2}
    MaxFaults = 1
CHECK_DEADLOCK FALSE
PROPERTIES
    CursorMovesForward
    AppendedIsHandled
