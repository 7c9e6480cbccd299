\* Proxy loop with the forwarder: close-once, socket leaks, rate limit, buffer pool, wind-down of closed sessions.
CONSTANTS
    c1 = c1
    c2 = c2
    x1 = x1
    x2 = x2
    b1 = b1
    None = None
    NoSCID = NoSCID
    Clients <- MCClients
    CIDs <- MCCIDs
    ServerCIDs <- MCServerCIDs
    Backends <- MCBackends
    MaxSessions = 2
    MaxParallel = 1
    Width = 1
    Signals = {}
    Terminating = FALSE
    DisconnectOnDrop = FALSE
    n1 = n1
    SNIs <- MCSNIs
SPECIFICATION FairSpec
INVARIANT TypeOK
INVARIANT CloseOnce
INVARIANT NoLeakedSocket
INVARIANT SessionLimit
INVARIANT BufferBalance
PROPERTY ClosedSessionWindsDown
PROPERTY LifecycleRefined
