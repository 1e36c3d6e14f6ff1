\* The rounds of np_leases_republish over small lease files, listings and
\* answers of nft.
CONSTANTS
    x = x  y = y
    Macs = {1, 2, 3}
    NoMac = 0
    Fields = {x, y}
    None = None
    MaxDevices = 2
    LeaseFiles <- MCLeaseFiles
    Listings <- MCListings
    MarkSets <- MCMarkSets
SPECIFICATION RoundSpec
INVARIANTS
    ListFits
    ScanExact
    DiffExact
    AnnouncedOnce
    RoundExact
