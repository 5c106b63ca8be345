\* A single change pushed under a scan, no fault.
SPECIFICATION Spec
CONSTANTS
    Kind = {"Add"}
    f1 = f1
    x = x
    y = y
    r1 = r1
    File = {f1}
    Obj = {x}
    Reader = {r1}
    MaxLog = 2
    Explored <- ExploredLogs
    MaxFaults = 0
    Faults = {}
INVARIANTS
    ReadFindsExisting
CHECK_DEADLOCK FALSE
