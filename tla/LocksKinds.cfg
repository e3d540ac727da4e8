SPECIFICATION Spec
CONSTANTS
    Inodes = {1}
    Pids = {p1}
    Namespaces = {"Posix", "Ofd", "Flock"}
    MaxFd = 2
    MaxStart = 0
    MaxLength = 1
    MaxRecords = 3
CHECK_DEADLOCK FALSE
INVARIANT FdLocksDieWithFd
PROPERTY ImplementsByteLocks
