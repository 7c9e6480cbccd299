\* backendToClient passes its second closed check (forwarder.go:150), the sweeper closes the session and a new connection takes its client address; the write at :166 goes to the new client.
CONSTANTS
    c1 = c1
    c2 = c2
    x1 = x1
    x2 = x2
    b1 = b1
    None = None
    NoSCID = NoSCID
    Clients <- MCClients
    CIDs <- MCCIDs
    ServerCIDs <- MCServerCIDs
    Backends <- MCBackends
    MaxSessions = 2
    MaxParallel = 1
    Width = 1
    Signals = {}
    Terminating = FALSE
    DisconnectOnDrop = FALSE
    n1 = n1
    SNIs <- MCSNIs
SPECIFICATION Spec
INVARIANT ReplyNeverMisrouted
