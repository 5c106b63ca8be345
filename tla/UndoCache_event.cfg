\* One user, one object: everything undone is undone to the start.
SPECIFICATION Spec
CONSTANTS
    u1 = u1
    x = x
    y = y
    User = {u1}
    Obj = {x}
    Kind = {"Add", "Modify"}
    MaxLog = 4
    MaxEvents = 3
    MaxFaults = 0
    Faults = {}
INVARIANTS
    UndoneAllTheWay
CHECK_DEADLOCK FALSE
