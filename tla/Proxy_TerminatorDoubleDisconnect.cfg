\* Spec 4.4: on_disconnect runs once per session.  A Drop of OnPacket on a session already closed by the sweeper (reached through a stale CID, or a failed write) calls it again, and the terminator counts it again.
CONSTANTS
    c1 = c1
    c2 = c2
    x1 = x1
    x2 = x2
    b1 = b1
    None = None
    NoSCID = NoSCID
    Clients <- MCClients
    CIDs <- MCCIDs
    ServerCIDs <- MCServerCIDs
    Backends <- MCBackends
    MaxSessions = 2
    MaxParallel = 1
    Width = 1
    Signals = {}
    Terminating = TRUE
    DisconnectOnDrop = TRUE
    n1 = n1
    SNIs <- MCSNIs
SPECIFICATION SpecDropCleanup
INVARIANT TerminatorTracksSessions
