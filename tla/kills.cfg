\* Two clients and one server, any of which may be killed or leave.
CONSTANTS
    c1 = c1  c2 = c2  front = front  back = back  proxy1 = proxy1
    Proc = {c1, c2, front}
    Proxy = {proxy1}
    ProxyOne = proxy1
    Peers <- ClientServer
    MaxBlocked = 4
    MaxSends <- ClientsTwice
    MaxTriggers <- Never
    FifoCap = 2
    Killable = {c1, c2, front}
    Exitable = {c1, c2, front}
    AsyncExit = FALSE
    RelayAny = FALSE
SYMMETRY Clients
SPECIFICATION Spec
INVARIANTS OneReply EndToEnd IInv
CHECK_DEADLOCK FALSE
