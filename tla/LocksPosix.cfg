SPECIFICATION Spec
CONSTANTS
    Inodes = {1}
    Pids = {p1, p2}
    Namespaces = {"Posix"}
    MaxFd = 1
    MaxStart = 1
    MaxLength = 2
    MaxRecords = 3
SYMMETRY PidSymmetry
CHECK_DEADLOCK FALSE
INVARIANTS
    TypeOK
    MutualExclusion
    GetlkSeesHolders
PROPERTY ImplementsByteLocks
