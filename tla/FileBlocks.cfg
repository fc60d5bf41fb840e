SPECIFICATION Spec
CONSTANTS
    File = {"p", "q"}
    Blk = {1, 2, 3, 4, 5, 6, 7, 8, 9, 10, 11, 12, 13, 14}
    NDIRECT = 1
    NWORDS = 2
    Plain = 101
    Mark = 102
    Junk = 103
    Request = {1, 3}
    MaxSize <- Sizes
    MaxTorn = 0
INVARIANTS
    TypeOK
    BlocksNotShared
    BlocksAccounted
PROPERTY
    ImplementsFlatFile
