SPECIFICATION Spec
CONSTANTS
    Users <- MCUsers
    Sessions <- MCSessions
    Owners <- MCOwners
    Modes <- MCModes
    Times <- MCTimes
    Now = 5
    XNames = {"user", "trusted"}
    Trusted = {"trusted"}
    Values = {1}
PROPERTIES
    AppliedInOrder
    RefusedMidwayByOwnMode
    OnlyOwnerChanges
    CtimeKeepsUp
