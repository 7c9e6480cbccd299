----------------------------- MODULE Forwarder ------------------------------
(***************************************************************************)
(* The forwarder handler (internal/handler/forwarder.go): the session it   *)
(* creates in OnConnect, the client->backend write of OnPacket, the close  *)
(* of OnDisconnect, and the backend->client goroutine backendToClient.     *)
(*                                                                         *)
(* A session is named by its ID.  Its backend socket is "none" before      *)
(* DialUDP, then "open", then "closed".  The goroutine's position in its   *)
(* loop is pump[s]; the positions that hold a pooled buffer are Holding.   *)
(*                                                                         *)
(* Time is abstracted to what the sweeper compares: idle[s] says that      *)
(* now - LastActivity >= session_timeout.  The backend and the network are *)
(* the environment: a backend may have a datagram queued at any time, and  *)
(* a Read or Write on an open connected socket may fail at any time (read  *)
(* deadline reached, or ECONNREFUSED after an ICMP port-unreachable).      *)
(***************************************************************************)
EXTENDS SessionTable

CONSTANTS
    ServerCIDs,  \* ServerCIDs[s]: connection IDs the backend of session s chooses
    NoSCID       \* a backend datagram with a short header carries no SCID

ASSUME ServerCIDs \in [Ids -> SUBSET CIDs]
ASSUME \A s, t \in Ids : s # t => ServerCIDs[s] \cap ServerCIDs[t] = {}

VARIABLES
    sessionCounter, \* ForwarderHandler.sessionCounter
    closed,         \* Session.closed (atomic flag)
    sock,           \* state of Session.BackendConn
    closes,         \* how many times BackendConn.Close() was called
    clientAddr,     \* Session.ClientAddr()
    idle,           \* now - Session.LastActivity >= session_timeout
    pump,           \* position of the backendToClient goroutine
    buffers,        \* buffers taken from the pool and not yet returned
    lateWrites      \* sessions whose backend got a Write after closed was set

fwdVars == <<sessionCounter, closed, sock, closes, clientAddr, idle, pump,
             buffers, lateWrites>>

SockStates == {"none", "open", "closed"}
PumpStates == {"none", "loop", "read", "check", "notify", "write", "done"}
Holding == {"read", "check", "notify", "write"}

FwdInit ==
    /\ sessionCounter = 0
    /\ closed = [s \in Ids |-> FALSE]
    /\ sock = [s \in Ids |-> "none"]
    /\ closes = [s \in Ids |-> 0]
    /\ clientAddr = [s \in Ids |-> None]
    /\ idle = [s \in Ids |-> FALSE]
    /\ pump = [s \in Ids |-> "none"]
    /\ buffers = 0
    /\ lateWrites = {}

-----------------------------------------------------------------------------
(* Session helpers                                                         *)

\* Session.Touch(): LastActivity := now.
Touch(s) == idle' = [idle EXCEPT ![s] = FALSE]

\* Session.Close(): CompareAndSwap(false, true) of the closed flag ...
SessionClose(s) == closed' = [closed EXCEPT ![s] = TRUE]
\* A mutant of CloseWon: the caller ignores the CAS result.
CloseWonIgnored(s) == TRUE
\* ... and its result: whether this caller flipped the flag.
CloseWon(s) == ~closed[s]

\* The pump moves from one position of its loop to another.
Goto(s, from, to) ==
    /\ pump[s] = from
    /\ pump' = [pump EXCEPT ![s] = to]

-----------------------------------------------------------------------------
(* OnConnect                                                               *)

\* No backend in ctx, or ResolveUDPAddr or DialUDP fails: Drop, nothing
\* was created.
OnConnectDialFails == UNCHANGED fwdVars

\* A session numbered sessionCounter.Add(1) with a freshly dialed socket.
NewSession(c) ==
    LET id == sessionCounter + 1
    IN  /\ sessionCounter < MaxSessions
        /\ sessionCounter' = id
        /\ clientAddr' = [clientAddr EXCEPT ![id] = c]
        /\ idle' = [idle EXCEPT ![id] = FALSE]

\* The initial packet reaches the backend; the goroutine starts: Handled.
OnConnectHandled(c) ==
    LET id == sessionCounter + 1
    IN  /\ NewSession(c)
        /\ sock' = [sock EXCEPT ![id] = "open"]
        /\ pump' = [pump EXCEPT ![id] = "loop"]
        /\ UNCHANGED <<closed, closes, buffers, lateWrites>>

\* A mutant of OnConnectWriteFails: the socket is not closed on the error.
OnConnectWriteFailsNoClose(c) ==
    LET id == sessionCounter + 1
    IN  /\ NewSession(c)
        /\ sock' = [sock EXCEPT ![id] = "open"]
        /\ UNCHANGED <<closed, closes, pump, buffers, lateWrites>>

\* Writing the initial packet fails: close the socket and Drop.  The
\* session was already attached to ctx but is never started.
OnConnectWriteFails(c) ==
    LET id == sessionCounter + 1
    IN  /\ NewSession(c)
        /\ sock' = [sock EXCEPT ![id] = "closed"]
        /\ closes' = [closes EXCEPT ![id] = @ + 1]
        /\ UNCHANGED <<closed, pump, buffers, lateWrites>>

-----------------------------------------------------------------------------
(* OnPacket, Inbound                                                       *)

\* The session is being closed: Drop without touching it.
OnPacketClosed(s) ==
    /\ closed[s]
    /\ UNCHANGED fwdVars

\* Not closed: touch it; the Write follows as a separate step.  The caller
\* says what becomes of clientAddr.
OnPacketAccept(s) ==
    /\ ~closed[s]
    /\ Touch(s)
    /\ UNCHANGED <<sessionCounter, closed, sock, closes, pump, buffers,
                   lateWrites>>

\* BackendConn.Write succeeds on an open socket, whether or not the closed
\* flag was set since the check.
OnPacketWriteOk(s) ==
    /\ sock[s] = "open"
    /\ lateWrites' = IF closed[s] THEN lateWrites \cup {s} ELSE lateWrites
    /\ UNCHANGED <<sessionCounter, closed, sock, closes, clientAddr, idle,
                   pump, buffers>>

\* BackendConn.Write fails (a closed socket, or ECONNREFUSED on an open
\* one): Drop with the error; the caller closes the session.
OnPacketWriteFails(s) ==
    /\ sock[s] \in {"open", "closed"}
    /\ UNCHANGED <<sessionCounter, sock, closes, clientAddr, idle, pump,
                   buffers, lateWrites>>

-----------------------------------------------------------------------------
(* OnDisconnect: Session.Close() and, for the winner, BackendConn.Close(). *)

\* A mutant of OnDisconnectClose: the winner returns without closing.
OnDisconnectNoClose(s) == UNCHANGED fwdVars

OnDisconnectClose(s) ==
    /\ sock' = [sock EXCEPT ![s] = "closed"]
    /\ closes' = [closes EXCEPT ![s] = @ + 1]
    /\ UNCHANGED <<sessionCounter, closed, clientAddr, idle, pump, buffers,
                   lateWrites>>

-----------------------------------------------------------------------------
(* backendToClient: one action per step of the goroutine's loop.          *)

PumpUnchanged == UNCHANGED <<sessionCounter, closed, sock, closes,
                             clientAddr, lateWrites>>

\* Top of the loop: exit if closed, else GetBuffer and SetReadDeadline.
PumpLoop(s) ==
    /\ \/ /\ closed[s]
          /\ Goto(s, "loop", "done")
          /\ UNCHANGED buffers
       \/ /\ ~closed[s]
          /\ Goto(s, "loop", "read")
          /\ buffers' = buffers + 1
    /\ UNCHANGED <<idle, tableVars>>
    /\ PumpUnchanged

\* BackendConn.Read returns a datagram.
PumpReadData(s) ==
    /\ sock[s] = "open"
    /\ Goto(s, "read", "check")
    /\ UNCHANGED <<buffers, idle, tableVars>>
    /\ PumpUnchanged

\* A mutant of PumpReadError: the buffer is not returned on the error path.
PumpReadErrorNoPut(s) ==
    /\ sock[s] \in {"open", "closed"}
    /\ Goto(s, "read", "done")
    /\ UNCHANGED <<buffers, idle, tableVars>>
    /\ PumpUnchanged

\* A mutant of PumpReadError: the goroutine closes the socket itself on the
\* error, without going through the closed flag's CAS.
PumpReadErrorCloses(s) ==
    /\ sock[s] \in {"open", "closed"}
    /\ Goto(s, "read", "done")
    /\ buffers' = buffers - 1
    /\ sock' = [sock EXCEPT ![s] = "closed"]
    /\ closes' = [closes EXCEPT ![s] = @ + 1]
    /\ UNCHANGED <<idle, tableVars, sessionCounter, closed, clientAddr,
                   lateWrites>>

\* BackendConn.Read fails: the socket was closed, the deadline passed, or
\* ECONNREFUSED.  The goroutine returns the buffer and exits; nothing else
\* is done about the session.
PumpReadError(s) ==
    /\ sock[s] \in {"open", "closed"}
    /\ Goto(s, "read", "done")
    /\ buffers' = buffers - 1
    /\ UNCHANGED <<idle, tableVars>>
    /\ PumpUnchanged

\* Second closed check, after the blocking read.
PumpCheck(s) ==
    /\ \/ /\ closed[s]
          /\ Goto(s, "check", "done")
          /\ buffers' = buffers - 1
       \/ /\ ~closed[s]
          /\ Goto(s, "check", "notify")
          /\ UNCHANGED buffers
    /\ UNCHANGED <<idle, tableVars>>
    /\ PumpUnchanged

\* session.Touch() and ctx.NotifyServerPacket: a long-header datagram
\* teaches the proxy the backend's SCID (spec 4.7, CID learning).
PumpNotify(s) ==
    /\ Goto(s, "notify", "write")
    /\ Touch(s)
    /\ \E x \in ServerCIDs[s] \cup {NoSCID} :
          IF x = NoSCID THEN UNCHANGED tableVars ELSE IndexCID(x, s)
    /\ UNCHANGED buffers
    /\ PumpUnchanged

\* A mutant of PumpWrite: the write error path lacks its return, so the
\* buffer is put back twice and the loop goes on.
PumpWriteNoReturn(s) ==
    /\ Goto(s, "write", "loop")
    /\ \/ buffers' = buffers - 1
       \/ buffers' = buffers - 2
    /\ UNCHANGED <<idle, tableVars>>
    /\ PumpUnchanged

\* ProxyConn.WriteToUDP to the session's client address, then the buffer
\* goes back to the pool; on a write error the goroutine exits.
PumpWrite(s) ==
    /\ \/ Goto(s, "write", "loop")
       \/ Goto(s, "write", "done")
    /\ buffers' = buffers - 1
    /\ UNCHANGED <<idle, tableVars>>
    /\ PumpUnchanged

Pump(s) ==
    \/ PumpLoop(s)
    \/ PumpReadData(s)
    \/ PumpReadError(s)
    \/ PumpCheck(s)
    \/ PumpNotify(s)
    \/ PumpWrite(s)
=============================================================================
