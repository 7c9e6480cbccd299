\* Spec 4.4: on_disconnect for every session end, a Drop in OnConnect included.  The forwarder closed the socket on its write error without setting the closed flag.
CONSTANTS
    c1 = c1
    c2 = c2
    x1 = x1
    x2 = x2
    b1 = b1
    None = None
    NoSCID = NoSCID
    Clients <- MCOneClient
    CIDs <- MCCIDs
    ServerCIDs <- MCServerCIDs
    Backends <- MCBackends
    MaxSessions = 2
    MaxParallel = 1
    Width = 1
    Signals = {}
    Terminating = TRUE
    DisconnectOnDrop = TRUE
    n1 = n1
    SNIs <- MCSNIs
SPECIFICATION SpecDropCleanup
INVARIANT CloseOnce
