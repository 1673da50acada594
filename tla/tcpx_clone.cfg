\* A name is attached, a client finds it; nobody leaves, the network is well.
CONSTANTS
    Limit = 1
    MaxAsks = 1
    Exitable = {}
    Killable = {}
    MayCut = FALSE
    Hows = {"attach"}
SPECIFICATION Spec
PROPERTY CloneKeepsConduit
CHECK_DEADLOCK FALSE
