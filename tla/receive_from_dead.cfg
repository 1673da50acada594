\* A client leaves between its Send and the Receive of its message.
CONSTANTS
    c1 = c1  c2 = c2  front = front  back = back  proxy1 = proxy1
    Proc = {c1, front}
    Proxy = {proxy1}
    ProxyOne = proxy1
    Peers <- ClientServer
    MaxBlocked = 4
    MaxSends <- ClientsOnce
    MaxTriggers <- Never
    FifoCap = 2
    Killable = {}
    Exitable = {c1}
    AsyncExit = FALSE
    RelayAny = FALSE
SPECIFICATION Spec
INVARIANT NoFault
CHECK_DEADLOCK FALSE
