SPECIFICATION Spec
CONSTANTS
    Procs = {p1, p2}
    BIGCOUNT = 4
    Calls = {"create", "open"}
    MaxSets = 2
    MaxExits = 0
INVARIANT OpenIsLive
CHECK_DEADLOCK FALSE
