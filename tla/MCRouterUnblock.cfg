\* A failing nft against the answer to unblock.
CONSTANTS
    m1 = m1  m2 = m2  x = x  y = y
    Macs = {m1, m2}
    NoMac = NoMac
    Fields = {x, y}
    None = None
    MaxDevices = 2
    ListRoom = 2
    NftFaults = TRUE
    LeaseFiles <- MCLeaseFiles
    MaxMtime = 2
    SameSecond = FALSE
    Reboots = FALSE
SPECIFICATION RouterSpec
INVARIANTS
    AckedUnblock
