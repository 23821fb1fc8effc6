SPECIFICATION Spec
CONSTANTS
    Names = {"x", "y"}
    MaxDir = 3
    Setups <- FollowsSetups
    Mutators = {m1}
    MaxQueue = 3
    ReadMax = 2
INVARIANT Follows
CHECK_DEADLOCK FALSE
