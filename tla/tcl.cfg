\* Two senders for one slot; the applet asks twice after its name and may leave
\* or hang, the program it sends to may leave, and somebody may trigger the child.
CONSTANTS
    Sender = {s1, s2}
    NoOne = NoOne
    Slots = 1
    MaxSends = 2
    MaxAsks = 2
    MayTrigger = TRUE
    Faults = {"leave", "hang", "target"}
SPECIFICATION FairSpec
INVARIANTS TypeOK EndToEnd HeldIsOut
PROPERTIES SenderReturns
CHECK_DEADLOCK FALSE
