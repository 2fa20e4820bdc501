SPECIFICATION Spec
CONSTANTS
    n1 = n1  n2 = n2  n3 = n3
    Node = {n1, n2, n3}
    First = n1
    Members = {n1}
    Commands = {"SETEX", "INCR"}
    Forwarding = {n1, n2}
    Database = {0}
    TTL = 0
    MaxTime = 2
    None = None
    Absent = Absent
    Serving = {n1, n2}
    MaxOps = 2
    MaxFaults = 1
CHECK_DEADLOCK FALSE
INVARIANTS
    ReplicasConsistent
    ForwardedOnce
PROPERTIES
    EntriesApplied
    GossipSettles
    JoinersBecomeVoters
