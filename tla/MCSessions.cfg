SPECIFICATION SessionSpec
CONSTANTS
    Users = {u1}
    Clients = {1, 2}
    Items = {1, 2, 3}
    ItemType <- TypeOf
    Capacity = 2
    None = None
    Fds = {f1, f2}
    SendSlots = 3
    Positions = {2}
    Events <- SomeEvents
    InitialPos = 1
    InitialItems <- SomeItems
    MaxOps = 2
    MaxLost = 1
INVARIANTS
    SessionTypeOK
    DownOnlyByStaleId
    NoWrongPasswordLeft
    
    LoadsAddUpSaves
    LoneLoginUpToDate
    PasswordBeforePlayer
    OnlyKnownItemsUnsaved
SYMMETRY FdSymmetry
CHECK_DEADLOCK FALSE
