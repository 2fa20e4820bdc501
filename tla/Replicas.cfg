SPECIFICATION Spec
CONSTANTS
    n1 = n1  n2 = n2  n3 = n3
    Node = {n1, n2}
    First = n1
    Members = {n1, n2}
    Commands = {"SETEX"}
    Forwarding = {n2}
    Database = {0}
    TTL = 0
    MaxTime = 2
    None = None
    Absent = Absent
    Serving = {n1, n2}
    MaxOps = 1
    MaxFaults = 0
CHECK_DEADLOCK FALSE
INVARIANT ReadsAgree
