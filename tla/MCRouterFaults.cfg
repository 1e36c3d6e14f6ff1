\* The daemon when nft may fail and both buffers are too small.
CONSTANTS
    m1 = m1  m2 = m2  x = x  y = y
    Macs = {m1, m2}
    NoMac = NoMac
    Fields = {x, y}
    None = None
    MaxDevices = 1
    ListRoom = 1
    NftFaults = TRUE
    LeaseFiles <- MCLeaseFiles
    MaxMtime = 1
    SameSecond = FALSE
    Reboots = FALSE
SPECIFICATION RouterSpec
INVARIANTS
    RouterTypeOK
    ServingEnforced
    AckedBlock
    SnapshotNeverOverstates
