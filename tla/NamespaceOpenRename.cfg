SPECIFICATION Spec
CONSTANTS
    Names = {a, b}
    MaxInode = 4
    MaxFd = 2
    MaxDepth = 4
SYMMETRY NameSymmetry
PROPERTY GcOnlyWhenClosed
