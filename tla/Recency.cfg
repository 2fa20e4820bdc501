SPECIFICATION EvictionSpec
CONSTANTS
    k1 = k1
    k2 = k2
    Key <- mcKey
    KeysOf <- mcKeysOf
    DB = {0}
    Configs <- lruConfigs
    MaxMemory = 2
    Absent = Absent
    Nil = Nil
    Blank = Blank
    MaxOps = 4
    MaxTime = 2
CHECK_DEADLOCK FALSE
PROPERTIES
    LeastRecentlyUsedEvicted
