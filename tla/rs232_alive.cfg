\* One client, one request, keep-alives, nobody leaves and nothing is lost.
CONSTANTS
    c1 = c1
    c2 = c2
    Client = {c1}
    Limit = 1
    LineRoom = 2
    MaxAsks = 1
    MaxLost = 0
    Setups <- Quiet
SPECIFICATION Spec
INVARIANTS RightReply
CHECK_DEADLOCK FALSE
