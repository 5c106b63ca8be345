\* The consumer and a reader, up to three messages of two objects, one fault of any kind, fair.
SPECIFICATION FairSpec
CONSTANTS
    Kind = {"Add", "Modify", "Delete", "Invalid"}
    f1 = f1
    x = x
    y = y
    r1 = r1
    File = {f1}
    Obj = {x, y}
    Reader = {r1}
    MaxLog = 3
    Explored <- ExploredLogs
    MaxFaults = 1
    Faults = {"crash", "connect", "handler", "redis_restart"}
INVARIANTS
    IInv
    ReadsBelowPosition
    OffsetAfterEntry
    FileStateSettled
    RacingReadNeverWrong
PROPERTIES
    EveryChangeStored
    ImplementsStore
CHECK_DEADLOCK FALSE
