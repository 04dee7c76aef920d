SPECIFICATION DeliverySpec
CONSTANTS
    None = None
    p1 = p1
    p2 = p2
    h1 = h1
    h2 = h2
    Messages = {1}
    Contents = {c1, c2}
    AttemptLimit = 4
    ClaimLimit = 2
    Publishers = {p1, p2}
    Handlers = {h1, h2}
    MaxFaults = 3
SYMMETRY MCDeliverySymmetry
CHECK_DEADLOCK FALSE
INVARIANTS
    DeliveryTypeOK
    SingleActiveHandler
    SingleActivePublisher
    CompletedWasHandled
PROPERTIES
    NotInvokedAfterCompletion
