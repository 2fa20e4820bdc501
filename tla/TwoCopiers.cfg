CONSTANTS
    Client = {c1}
    Copier = {p1, p2}
    Kind = {"write"}
    Outcome = {"ok"}
    MaxOps = 1
    MaxCopies = 1
SPECIFICATION GateSpec
PROPERTY WritesWaitForCopy
CHECK_DEADLOCK FALSE
