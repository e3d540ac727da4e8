SPECIFICATION Spec
CONSTANTS
    ChunkSize = 3
    Values = {0, 1}
    MaxSize = 7
    MaxWrite = 5
INVARIANTS
    TypeOK
    ReadsContent
PROPERTY ImplementsFlatFile
