\* One user, two objects: own changes, undos and redos racing the consumer.
SPECIFICATION Spec
CONSTANTS
    u1 = u1
    x = x
    y = y
    User = {u1}
    Obj = {x, y}
    Kind = {"Add", "Modify"}
    MaxLog = 4
    MaxEvents = 3
    MaxFaults = 0
    Faults = {}
INVARIANTS
    UndoConserved
    UndoRestores
CHECK_DEADLOCK FALSE
SYMMETRY ObjSymmetry
