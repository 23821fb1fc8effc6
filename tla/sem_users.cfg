SPECIFICATION FairSpec
CONSTANTS
    Procs = {p1, p2, p3}
    BIGCOUNT = 4
    Calls = {"create", "open", "rm"}
    MaxSets = 2
    MaxExits = 1
INVARIANT CounterExact
INVARIANT MutualExclusion
PROPERTY CreatorsKept
PROPERTY CreateEnds
CHECK_DEADLOCK FALSE
