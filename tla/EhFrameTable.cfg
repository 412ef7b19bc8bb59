SPECIFICATION TableFairSpec
CONSTANTS
    Headers <- AllHeaders
    Ips = {0, 5, 6, 7, 8, 9, 10}
    SegBase = 8
    MaxU = 127
    MaxEntries = 6
    None = None
INVARIANTS AcceptedTableInBounds TableTypeOK SearchInBounds LookupExact
PROPERTY LookupEnds
CHECK_DEADLOCK FALSE
