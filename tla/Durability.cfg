SPECIFICATION FairSpec
CONSTANTS
    Modes = {"full", "normal", "off", "readonly"}
    MaxTx = 3
INVARIANTS
    TypeOK
    FsyncDurableAlone
    ClosedDurable
PROPERTIES
    ImplementsDurableLog
    CloseReturns
    DurableSoon
