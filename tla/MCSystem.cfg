\* Commands on their way out and device lists on their way back.
CONSTANTS
    m1 = m1  x = x
    Macs = {m1}
    NoMac = NoMac
    Fields = {x}
    None = None
    MaxDevices = 1
    Tables <- MCTables
    MaxRounds = 0
    MaxStatus = 0
    MaxSessions = 2
    MaxHandlers = 2
    SubFaults = FALSE
    Target = m1
    MaxCommands = 2
    MaxUpsets = 1
SPECIFICATION SystemFairSpec
INVARIANTS
    LastWordHolds
    PageTruthful
PROPERTIES
    PageShowsKernel
\* The bounds on commands, sessions and outages let it stop.
CHECK_DEADLOCK FALSE
