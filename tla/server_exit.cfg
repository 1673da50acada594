\* Servers leave at any moment between two of their calls, clients stay.
CONSTANTS
    c1 = c1  c2 = c2  front = front  back = back  proxy1 = proxy1
    Proc = {c1, c2, front, back}
    Proxy = {proxy1}
    ProxyOne = proxy1
    Peers <- ClientServer
    MaxBlocked = 2
    MaxSends <- ClientsTwice
    MaxTriggers <- Never
    FifoCap = 2
    Killable = {}
    Exitable = {front, back}
    AsyncExit = FALSE
    RelayAny = FALSE
SPECIFICATION FairSpec
INVARIANTS NoFault HeldIsTracked
PROPERTIES HeldIsReleased
CHECK_DEADLOCK FALSE
