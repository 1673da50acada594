\* Two protocols; a parent leaves, the other one and a child are killed.
CONSTANTS
    tcp = tcp  rs232 = rs232  pTcp = pTcp  pSer = pSer  c1 = c1  c2 = c2
    Parent = {pTcp, pSer}
    Client = {c1, c2}
    Child = {1, 2, 3}
    Protocol = {tcp, rs232}
    Default = default
    Speaks <- Protocols
    Asks <- Requests
    Slots = 2
    MaxAsks <- Once
    Killable = {pTcp, 1}
    Exitable = {pSer}
SPECIFICATION FairSpec
INVARIANTS TypeOK OneClientPerSurrogate ParentIsTracked
PROPERTIES RequestAnswered KeepsOffering
CHECK_DEADLOCK FALSE
