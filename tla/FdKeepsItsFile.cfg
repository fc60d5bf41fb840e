SPECIFICATION GrantSpec
CONSTANTS
    Proc = {0}
    Dev = {3, 4}
    Ino = {1}
    Path = {"p", "q"}
    DevOf <- TwoDevices
    Data = {1}
    NFD = 2
    NOFT = 2
    MaxLen = 1
    MaxPins = 2
INVARIANT
    FdKeepsItsFile
