\* Two connections of one user, a channel of one message, one stop of the service, fair.
SPECIFICATION FairSpec
CONSTANTS
    f1 = f1
    f2 = f2
    c1 = c1
    c2 = c2
    u1 = u1
    File = {f1}
    NoKey = NoKey
    Conn = {c1, c2}
    UserOf <- SameUser
    ShardOf <- OneShard
    Capacity = 1
    MaxCommands = 3
    MaxLog = 2
    MaxFaults = 1
    Faults = {"crash"}
INVARIANTS
    TypeOK
    HubInv
    SentAsAsked
    SendersServed
    SubscribersKept
PROPERTIES
    PushedUnlessStuck
CHECK_DEADLOCK FALSE
