CONSTANTS
    c1 = c1  c2 = c2  d0 = d0  d1 = d1  k1 = k1  k2 = k2  v1 = v1
    Nil = Nil  Absent = Absent  Blank = Blank  None = None
    Client = {c1}
    Database = {d0}
    Key = {k1, k2}
    Value <- MCValue
    Command <- GetdelOnly
    Restored <- Volatile
    KeyMem = 1
    ValueMem <- MCValueMem
    MaxMemory = 9
    Word = 64
    MaxInt = 1
    MaxOps = 1
    MaxClock = 2
    MaxChanges = 10
    MaxDebt = 10
SPECIFICATION CommandsSpec
INVARIANT RejectedOnlyWhenFull
CHECK_DEADLOCK FALSE
