SPECIFICATION Spec
CONSTANTS
    Key = {k1, k2, k3}
    Inode = {v1, v2}
    Client = {c1, c2, c3}
    NoKey = NoKey
    NMINODES = 2
    MaxLost = 1
INVARIANTS
    TypeOK
    UniqueCopy
    RefCountAccounted
    CleanAgreesWithDisk
PROPERTY
    ImplementsStore
