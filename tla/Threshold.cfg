SPECIFICATION SnapshotSpec
CONSTANTS
    Name = {n1}
    Str = {s1}
    Elem = {e1}
    Snapper = {ticker}
    Ticker = ticker
    Threshold = 1
    NoEntry = NoEntry
    Missing = Missing
    Broken = Broken
    MaxTime = 2
    MaxWrites = 2
    MaxFaults = 0
CHECK_DEADLOCK FALSE
PROPERTY ThresholdIsServed
