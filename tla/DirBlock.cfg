SPECIFICATION Spec
CONSTANTS
    NWORDS = 18
    HDR = 8
    Name <- Names_
    Dot <- Dot_
    DotDot <- DotDot_
    Ino = {2, 3}
    Self = 2
    Up = 3
    MayOverrun = FALSE
    MayOverlap = FALSE
INVARIANTS
    TypeOK
    BlocksTiled
PROPERTY
    ImplementsDirectory
