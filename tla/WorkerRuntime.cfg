CONSTANTS
    Keys = {k1, k2}
    MaxRequests = 3
    None = None
SPECIFICATION FairSpec
INVARIANTS
    TypeOK
    NoLostWakeup
    ClientWaitsForWork
    RequestsKeepTheirOrder
PROPERTIES
    StartsWithNewestRegistry
    CallsComeToAnEnd
