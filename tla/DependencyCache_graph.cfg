\* The subscriber sets at every offset, whatever is submitted and whichever fault happens.
SPECIFICATION Spec
CONSTANTS
    x = x
    y = y
    s1 = s1
    Obj = {x, y}
    Piece <- Pieces
    NoRef = NoRef
    RefLists <- EndRefs
    Searched = {}
    Searcher = {}
    MaxLog = 3
    MaxFaults = 1
    Faults = {"crash", "connect", "handler", "redis_restart"}
INVARIANTS
    GraphInv
    NoSubscriberMissing
    StaleInv
    StaleOnlyIfRepointed
CHECK_DEADLOCK FALSE
SYMMETRY Swap
