SPECIFICATION FairSpec
CONSTANTS
    Names = {"x", "y"}
    MaxDir = 3
    Setups <- MCSetups
    Mutators = {m1}
    MaxQueue = 3
    ReadMax = 2
INVARIANT Consistent Tracked
PROPERTY Returns
CHECK_DEADLOCK FALSE
