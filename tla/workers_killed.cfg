SPECIFICATION Spec
CONSTANTS
    Threads = {t1, t2, t3}
    Nodes = {n1, n2}
    MaxOpen = 2
INVARIANT KillsAll
CHECK_DEADLOCK FALSE
