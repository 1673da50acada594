\* Nobody leaves: two clients, a front server that relays to a back server.
CONSTANTS
    c1 = c1  c2 = c2  front = front  back = back  proxy1 = proxy1
    Proc = {c1, c2, front, back}
    Proxy = {proxy1}
    ProxyOne = proxy1
    Peers <- ClientServer
    MaxBlocked = 1
    MaxSends <- FrontToo
    MaxTriggers <- OneClient
    FifoCap = 2
    Killable = {}
    Exitable = {}
    AsyncExit = FALSE
    RelayAny = FALSE
SPECIFICATION FairSpec
INVARIANTS TypeOK Accounted
PROPERTIES KeepsPromise SendReturns
CHECK_DEADLOCK FALSE
