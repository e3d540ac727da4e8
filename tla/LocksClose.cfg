SPECIFICATION Spec
CONSTANTS
    Inodes = {1}
    Pids = {p1, p2}
    Namespaces = {"Posix"}
    MaxFd = 2
    MaxStart = 2
    MaxLength = 2
    MaxRecords = 2
SYMMETRY PidSymmetry
CHECK_DEADLOCK FALSE
INVARIANT PosixLocksReleasedOnClose
