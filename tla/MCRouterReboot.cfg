\* A reboot against the promise that the block list survives it.
CONSTANTS
    m1 = m1  m2 = m2  x = x  y = y
    Macs = {m1, m2}
    NoMac = NoMac
    Fields = {x, y}
    None = None
    MaxDevices = 2
    ListRoom = 2
    NftFaults = FALSE
    LeaseFiles <- MCLeaseFiles
    MaxMtime = 2
    SameSecond = FALSE
    Reboots = TRUE
SPECIFICATION RouterSpec
INVARIANTS
    AckedBlock
