\* Spec 4.3: no CID entry survives the removal of its session.  backendToClient learns a SCID after its closed check.
CONSTANTS
    c1 = c1
    c2 = c2
    x1 = x1
    x2 = x2
    b1 = b1
    None = None
    NoSCID = NoSCID
    Clients <- MCClients
    CIDs <- MCCIDs
    ServerCIDs <- MCServerCIDs
    Backends <- MCBackends
    MaxSessions = 2
    MaxParallel = 1
    Width = 1
    Signals = {}
    Terminating = FALSE
    DisconnectOnDrop = FALSE
    n1 = n1
    SNIs <- MCSNIs
SPECIFICATION Spec
INVARIANT NoStaleCID
