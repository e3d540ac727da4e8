SPECIFICATION Spec
CONSTANTS
    Modes = {"normal"}
    MaxTx = 3
CHECK_DEADLOCK FALSE
INVARIANT FsyncDurable
