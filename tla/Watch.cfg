SPECIFICATION WSpec
CONSTANTS
    Names = {a, b}
    MaxInode = 3
    MaxFd = 1
    Watchers = {w1}
    MaxQueue = 2
SYMMETRY NameSymmetry
INVARIANTS
    WatchTypeOK
    MirrorsDirectory
    WritesHeard
PROPERTY
    EventsTruthful
