\* One search while the consumer pushes, replays and Redis restarts.
SPECIFICATION FairSpec
CONSTANTS
    x = x
    y = y
    s1 = s1
    Obj = {x, y}
    Piece <- Pieces
    NoRef = NoRef
    RefLists <- WallRefs
    Searched <- OneEnd
    Searcher = {s1}
    MaxLog = 2
    MaxFaults = 1
    Faults = {"crash", "redis_restart"}
INVARIANTS
    TypeOK
    SearchInv
    SearchComplete
PROPERTIES
    SearchEnds
CHECK_DEADLOCK FALSE
