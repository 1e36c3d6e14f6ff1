\* Three prefixes in a race for the rate limit.
CONSTANTS
    Ouis = {o1, o2, o3}
    Spacing = 3
    MaxErrors = 3
SPECIFICATION OuiFairSpec
INVARIANTS
    OneCallPerVendor
PROPERTIES
    PermitsSpaced
    VendorsAppear
\* Every prefix is answered in the end.
CHECK_DEADLOCK FALSE
