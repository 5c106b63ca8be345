\* Two connections of one user, a channel of one message, fair, no fault.
SPECIFICATION FairSpec
CONSTANTS
    f1 = f1
    f2 = f2
    c1 = c1
    c2 = c2
    u1 = u1
    File = {f1}
    NoKey = NoKey
    Conn = {c1, c2}
    UserOf <- SameUser
    ShardOf <- OneShard
    Capacity = 1
    MaxCommands = 3
    MaxLog = 2
    MaxFaults = 0
    Faults = {}
PROPERTIES
    EveryMessagePushed
CHECK_DEADLOCK FALSE
