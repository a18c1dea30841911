\* A tenant of up to four entries, two writes, a read TTL of one tick and a
\* sync TTL of two, and a client that syncs.
CONSTANTS
    r = r
    a = a
    b = b
    c = c
    Uids <- MCUids
    RootUid = r
    NoParent = NoParent
    NoHash = NoHash
    MaxWrites = 2
    ReadTTL = 1
    SyncTTL = 2
SPECIFICATION Spec
PROPERTY DiffIsExactChange
PROPERTY ConvergesToRecord
