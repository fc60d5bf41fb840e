SPECIFICATION Spec
CONSTANTS
    NWORDS = 16
    HDR = 8
    Name <- Names_
    Dot <- Dot_
    DotDot <- DotDot_
    Ino = {2, 3}
    Self = 2
    Up = 3
    MayOverrun = TRUE
    MayOverlap = FALSE
PROPERTY
    NewBlockWhenFull
