\* Two walls, a door and a group through every sequence of library calls.
SPECIFICATION Spec
CONSTANTS
    a = a
    b = b
    d = d
    g = g
    None = None
    NaN = NaN
    Walls = {a, b}
    Doors = {d}
    Groups = {g}
    Segment <- Place
    Coord <- EvenCoord
    Guesses = {0, 2}
    Delta = {2}
    Selections <- Selected
    SnapKinds <- Kinds
    JoinTypes <- Pairs
    MaxSlots = 2
    MaxCalls = 4
INVARIANTS
    TypeOK
    UpdateSettles
    SnapNamesResult
    DoorOnLine
    JoinIsMutual
PROPERTIES
    SlotsNeverRepointed
CHECK_DEADLOCK FALSE
