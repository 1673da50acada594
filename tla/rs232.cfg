\* A line that holds two frames.  With keep-alives one client asks once: it is killed,
\* the receiver leaves and a frame is lost, or it leaves.  Without, one client asks
\* twice and everything may happen, or two clients ask once and one leaves.
CONSTANTS
    c1 = c1
    c2 = c2
    Client = {c1, c2}
    Limit = 1
    LineRoom = 2
    MaxAsks = 2
    MaxLost = 1
    Setups <- Every
SPECIFICATION FairSpec
INVARIANTS TypeOK EndToEnd HeldIsInTransit
PROPERTIES SendReturns BothEnd
CHECK_DEADLOCK FALSE
