SPECIFICATION Spec
CONSTANTS
    Proc = {0, 1}
    Dev = {3}
    Ino = {1, 2}
    Path = {p, q}
    DevOf <- OneDevice
    Data = {1}
    NFD = 2
    NOFT = 2
    MaxLen = 1
    MaxPins = 2
SYMMETRY PathSymmetry
INVARIANTS
    TypeOK
    EntriesCounted
    OneEntryPerInode
    PinnedWhileOpen
    OffsetInFile
PROPERTY
    CommandsCloseTheirs
