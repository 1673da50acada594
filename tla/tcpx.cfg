\* A conduit of either kind: a client sends or triggers twice, client and
\* receiver may leave, client and back may be killed, the network may fail.
CONSTANTS
    Limit = 1
    MaxAsks = 2
    Exitable = {"client", "receiver"}
    Killable = {"client", "front", "back"}
    MayCut = TRUE
    Hows = {"locate", "attach"}
SPECIFICATION FairSpec
INVARIANTS TypeOK EndToEnd ToggleIsRight StrayHoldsNobody
PROPERTIES SendReturns BothEnd
CHECK_DEADLOCK FALSE
