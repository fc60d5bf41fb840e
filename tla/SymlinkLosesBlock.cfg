SPECIFICATION Spec
CONSTANTS
    Proc = {0, 1}
    Name = {"a", "b"}
    Path <- Paths
    Ino = {2, 3, 4, 5}
    Blk = {1, 2, 3, 4}
    PathBlock <- OneBlock
    MayFill = FALSE
    MayFree = FALSE
    MaxLinks = 3
INVARIANT
    NothingLost
