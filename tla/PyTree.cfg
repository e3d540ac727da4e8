SPECIFICATION MCSpec
CONSTANTS
    Names = {a, b}
    MaxInode = 5
    MaxFd = 1
SYMMETRY NameSymmetry
INVARIANT TypeOK
PROPERTIES
    CountsLostByCascade
    OpenFilesSurvive
    CyclesByExchange
    StaleByOverwrite
