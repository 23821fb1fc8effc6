SPECIFICATION MCSpec
CONSTANTS
    Responses <- MCResponses
    Leftovers <- MCLeftovers
    Clients = {c1, c2}
    LONG_MAX = 9
    MaxStops = 2
    MaxLost = 1
CHECK_DEADLOCK FALSE
PROPERTY PiecesReturn
