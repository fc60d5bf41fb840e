SPECIFICATION GrantSpec
CONSTANTS
    Proc = {0}
    Dev = {3}
    Ino = {1}
    Path = {"p"}
    DevOf <- OneDevice
    Data = {1}
    NFD = 3
    NOFT = 2
    MaxLen = 1
    MaxPins = 3
INVARIANT
    SingleWriter
