\* One user, one object, one fault of any kind.
SPECIFICATION Spec
CONSTANTS
    u1 = u1
    x = x
    y = y
    User = {u1}
    Obj = {x}
    Kind = {"Add", "Modify", "Delete"}
    MaxLog = 3
    MaxEvents = 3
    MaxFaults = 1
    Faults = {"crash", "call", "redis_restart", "handler", "connect"}
INVARIANTS
    TypeOK
    EventsSound
CHECK_DEADLOCK FALSE
