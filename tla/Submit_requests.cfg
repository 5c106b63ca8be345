\* Two clients create, move, join, delete and take back walls and a sheet.
SPECIFICATION Spec
CONSTANTS
    a = a
    b = b
    c = c
    s = s
    v = v
    c1 = c1
    c2 = c2
    None = None
    NaN = NaN
    Client = {c1, c2}
    Walls = {a, b, c}
    Existing <- Opened
    Sheets = {s}
    Viewports = {v}
    Segment <- Corner
    Delta = {1}
    Selections <- Selected
    Guesses = {4}
    Faults = {"behind", "undelivered", "retried"}
    MaxRequests = 3
    MaxFaults = 1
INVARIANTS
    TypeOK
    JoinedEndsAgree
    DeletedStaysDeleted
CHECK_DEADLOCK FALSE
SYMMETRY Swap
