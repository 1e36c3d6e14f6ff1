\* The daemon's process from its arguments to its exit.
CONSTANTS
    None = None  Empty = Empty  Yes = Yes  No = No  Junk = Junk
    IntMax = 7
    LongMax = 31
    TlsPort = 3
    PlainPort = 2
    DefaultKeepalive = 5
    InfoLevel = 2
    Options <- MCOptions
    PortMax = 5
    MinKeepalive = 2
    MaxSignals = 2
SPECIFICATION ProcessFairSpec
INVARIANTS
    ConnectsAsAsked
    ErrorsHeard
    ZeroMeansStopped
    FirstSignalSafe
PROPERTIES
    StopHonoured
\* The process ends.
CHECK_DEADLOCK FALSE
