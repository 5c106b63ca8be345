\* A client opens a file while its objects change, with one fault of any service.
SPECIFICATION FairSpec
CONSTANTS
    x = x
    y = y
    Obj = {x, y}
    Kind = {"Add", "Modify", "Delete"}
    None = None
    MaxLog = 3
    Explored <- ExploredLogs
    MaxFaults = 1
    Faults = {"crash", "connect", "handler", "redis_restart", "call"}
INVARIANTS
    TypeOK
    ViewInv
    ShowsLatest
    CacheSettles
PROPERTIES
    OpenSettles
CHECK_DEADLOCK FALSE
