SPECIFICATION mcSpec
CONSTANTS
    Conn = {c1, c2}
    news = news
    glob = glob
    Name <- mcName
    Matches <- mcMatches
    None = None
    QueueSize = 1
    MaxMessages = 2
    MaxCalls = 2
    Unreliable = {c2}
    Targets = {news}
    Requests <- mcRequests
    Dropped = {glob}
    k1 = k1
    k2 = k2
    Key <- mcKey
    KeysOf <- mcKeysOf
    DB = {0, 1}
    Configs <- mcConfigs
    MaxMemory = 3
    Absent = Absent
    Nil = Nil
    Blank = Blank
    MaxOps = 4
    MaxTime = 2
CHECK_DEADLOCK FALSE
INVARIANTS
    ChannelsConsistent
    RightMessages
    NotTwice
    CachesConsistent
PROPERTIES
    CallsEnd
    SubscribersReceive
    LeastUsedEvicted
    
    LimitRestored
    UpdatesEnd
