CONSTANTS
    Writer = {w1}
    Database = {0, 1}
    Strategy = {"always"}
    MaxWrites = 2
    MaxRewrites = 0
    MaxFaults = 0
SPECIFICATION LogSpec
INVARIANT RestoreShowsMemory
CHECK_DEADLOCK FALSE
