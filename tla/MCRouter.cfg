\* The daemon when nft works and every device has room, with reboots, under
\* the fairness of its own loop.
CONSTANTS
    m1 = m1  m2 = m2  x = x  y = y
    Macs = {m1, m2}
    NoMac = NoMac
    Fields = {x, y}
    None = None
    MaxDevices = 2
    ListRoom = 2
    NftFaults = FALSE
    LeaseFiles <- MCFewFiles
    MaxMtime = 2
    SameSecond = FALSE
    Reboots = TRUE
SPECIFICATION RouterFairSpec
INVARIANTS
    StaysEnforced
    AckedUnblock
    SnapshotAccurate
    FeedMatches
    SnapshotCurrent
PROPERTIES
    ShowsBlockList
    SnapshotCatchesUp
