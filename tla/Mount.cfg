SPECIFICATION Spec
CONSTANTS
    Proc = {0, 1}
    Image = {r, a, b, c}
    RootImage = r
    Dev = {3, 4, 5, 6}
    r = r
    a = a
    b = b
    c = c
    InoOf <- Inodes
    Name = {"m", "n"}
    Path <- Paths
    NMOUNT = 3
    MaxFrames = 2
    MayStrand = FALSE
SYMMETRY Others
INVARIANTS
    TypeOK
    MountsAgree
    RefCountIsHolders
    OneTree
PROPERTIES
    WayUpKept
    PwdNamesCwd
