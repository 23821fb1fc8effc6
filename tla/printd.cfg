SPECIFICATION MCSpec
CONSTANTS
    Responses <- MCResponses
    Leftovers <- MCLeftovers
    Clients = {c1, c2}
    LONG_MAX = 9
    MaxStops = 2
    MaxLost = 1
INVARIANT Spooled PrintedOnce KeptWhileUp NoFalseSuccess
PROPERTY SpoolDrains StatusReturns
CHECK_DEADLOCK FALSE
