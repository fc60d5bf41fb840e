SPECIFICATION Spec
CONSTANTS
    File = {"p", "q"}
    Blk = {1, 2, 3, 4, 5, 6, 7}
    NDIRECT = 1
    NWORDS = 2
    Plain = 101
    Mark = 102
    Junk = 103
    Request = {2}
    MaxSize <- ShortSizes
    MaxTorn = 1
CHECK_DEADLOCK FALSE
INVARIANT
    BlocksNotShared
