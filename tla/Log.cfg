SPECIFICATION mcSpec
CONSTANTS
    Client = {c1, c2}
    Copier = {p1, p2}
    Kind = {"read", "write"}
    Outcome = {"ok", "error"}
    MaxOps = 2
    MaxCopies = 2
    Writer = {w1, w2}
    Database = {0, 10}
    Strategy = {"always", "everysec"}
    MaxWrites = 2
    MaxRewrites = 2
    MaxFaults = 2
CHECK_DEADLOCK FALSE
INVARIANTS
    FlagHasOwner
    LogTypeOK
    AckedSurvive
    NoneTwice
    AnswersInOrder
PROPERTIES
    GateOpens
    EventuallyDurable
