SPECIFICATION ASpec
CONSTANTS
    a = a
    b = b
    Names <- MCNames
    Order <- MCOrder
    MaxInode = 3
    MaxFd = 1
INVARIANTS
    ActsWhereAsked
    ReaddirMissesOnlyShifted
