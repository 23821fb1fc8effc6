SPECIFICATION Spec
CONSTANTS
    Clients = {c1, c2}
    LONG_MAX = 9
    MaxStops = 1
    MaxLost = 0
INVARIANT AckedKept
