\* The web application with up to two handlers at a time.
CONSTANTS
    m1 = m1  m2 = m2  x = x  y = y
    Macs = {m1, m2}
    NoMac = NoMac
    Fields = {x, y}
    None = None
    MaxDevices = 2
    Tables <- MCTables
    MaxRounds = 2
    MaxStatus = 1
    MaxSessions = 2
    MaxHandlers = 2
    SubFaults = TRUE
SPECIFICATION MirrorFairSpec
INVARIANTS
    MirrorAccurate
PROPERTIES
    MirrorCatchesUp
\* The bounds on rounds and sessions let it stop.
CHECK_DEADLOCK FALSE
