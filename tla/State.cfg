SPECIFICATION mcSpec
CONSTANTS
    c1 = c1  c2 = c2  d0 = d0  d1 = d1  k1 = k1  k2 = k2  v1 = v1
    Nil = Nil  Absent = Absent  Blank = Blank  None = None
    Client = {c1, c2}
    Database = {d0, d1}
    Key = {k1, k2}
    Value <- MCValue
    Command <- AllCommands
    Restored <- Entries4
    KeyMem = 1
    ValueMem <- MCValueMem
    MaxMemory = 5
    Word = 64
    MaxInt = 1
    MaxOps = 1
    MaxClock = 2
    MaxChanges = 10
    MaxDebt = 10
    k3 = k3
    NoCall = NoCall
    Member = {1, 2}
    Inf = 99
    Weight = {1, 2}
    MaxCount = 2
    Element = {e1, e2}
    Field = {f1, f2}
    ListItem = {a, b}
    MaxLength = 3
    Digit = {"1"}
    MaxString = 3
    Conn = {u1, u2}
    default = default
    alice = alice
    key = key
    pw = pw
    Username = {default, alice}
    Secret = {pw}
    Item = {key}
    RequirePass = TRUE
    Password = pw
    Rules <- mcRules
    Files <- mcFiles
    NoUser = NoUser
    MaxObjects = 4
    MaxAclOps = 4
    Name = {n1}
    Str = {s1}
    Elem = {e1}
    Snapper = {ticker, save}
    Ticker = ticker
    Threshold = 1
    NoEntry = NoEntry
    Missing = Missing
    Broken = Broken
    MaxTime = 3
    MaxWrites = 2
    MaxFaults = 2
CONSTRAINT mcGuaranteed
CHECK_DEADLOCK FALSE
INVARIANTS
    TypeOK
    VolatileKeysTracked
    TrackedKeysPresent
    NoDataOutsideDatabases
    ValuesConsistent
    AggregatesMatchReference
    UsersConsistent
    SnapshotsConsistent
PROPERTIES
    LiveKeysLeaveByCommand
    LiveKeyLeavesOnlyByDeletion
    EffectsDeclared
    ErrorsChangeNothing
    ElementsKept
    SavedIsCurrent
    RestartRestoresUsers
    RestoreGivesLastSnapshot
