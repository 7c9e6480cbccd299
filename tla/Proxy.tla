------------------------------- MODULE Proxy --------------------------------
(***************************************************************************)
(* The proxy loop (spec 4.7) composed with the forwarder and the session   *)
(* table.  Two proxy tasks run beside the per-session backendToClient      *)
(* goroutines: the listen task, which reads every client datagram and runs *)
(* the handler chain ratelimit-global -> simple-router -> forwarder on it, *)
(* and the idle sweeper.  Either may close a session: it removes it from   *)
(* the table and calls OnDisconnect, whose BackendConn.Close() is a step   *)
(* of its own.  With Terminating, the terminator handler sits between the  *)
(* router and the forwarder and counts the connections of each SNI.        *)
(*                                                                         *)
(* The proxy loop and the sweeper are not part of the repository's         *)
(* sources; their actions follow the spec, and the handler operations     *)
(* they call are translated from the handlers' code.                       *)
(***************************************************************************)
EXTENDS Forwarder, TerminatorHandler

CONSTANTS
    MaxParallel,    \* ratelimit-global max_parallel_connections
    Backends,       \* simple-router backends
    Width,          \* bit width of the simple-router counter
    Signals,        \* signals the process may receive: {} or {"interrupt"}
    Terminating,    \* the chain has a terminator before the forwarder
    DisconnectOnDrop \* a Drop in OnConnect ends with the chain's on_disconnect

ASSUME MaxParallel \in Nat \ {0}

VARIABLES
    pc,         \* pc[t]: where proxy task t is
    target,     \* target[t]: the session task t is working on
    rrCounter,  \* StaticHandler.counter
    rrTally,    \* selections per backend, relative to the least selected
    shutdown,   \* the graceful-shutdown signal has been received
    drain,      \* sessions the shutdown task has still to close
    sessionSni  \* sessionSni[s]: ctx.Hello.SNI the terminator counted s under

RR == INSTANCE RoundRobin WITH counter <- rrCounter, tally <- rrTally

Tasks == {"listen", "sweeper", "shutdown"}

taskVars == <<pc, target>>
rrVars == <<rrCounter, rrTally>>
stopVars == <<shutdown, drain>>
chainVars == <<termVars, sessionSni>>
vars == <<fwdVars, tableVars, taskVars, rrVars, stopVars, chainVars>>

Init ==
    /\ FwdInit
    /\ TableInit
    /\ pc = [t \in Tasks |-> "idle"]
    /\ target = [t \in Tasks |-> None]
    /\ RR!Init
    /\ shutdown = FALSE
    /\ drain = {}
    /\ TermInit
    /\ sessionSni = [s \in Ids |-> None]

-----------------------------------------------------------------------------
(* Handlers of the chain other than the forwarder                          *)

\* A mutant of Allow: the limit compared with > instead of >=.
AllowAtLimit(n) == ~(n > MaxParallel)

\* RateLimitGlobalHandler.OnConnect: Continue unless
\* _session_count >= max_parallel_connections.
Allow(n) == ~(n >= MaxParallel)

\* TerminatorHandler.OnConnect for the connection that becomes session s,
\* when the chain has a terminator.
Terminate(s, sni) ==
    IF Terminating
    THEN /\ TermOnConnect(sni)
         /\ sessionSni' = [sessionSni EXCEPT ![s] = sni]
    ELSE UNCHANGED chainVars

-----------------------------------------------------------------------------
(* Closing a session                                                       *)

\* Where task t goes on after closing a session: the shutdown task goes on
\* draining, the others wait for their next event.
Resume(t) == IF t = "shutdown" THEN "drain" ELSE "idle"

\* remove(session) and the chain's on_disconnect: the terminator's count of
\* the session's SNI, and the forwarder's Session.Close(); a task that wins
\* the CAS goes on to close the backend socket.
Disconnect(t, s) ==
    /\ Remove(s)
    /\ TermOnDisconnect(sessionSni[s])
    /\ UNCHANGED sessionSni
    /\ SessionClose(s)
    /\ pc' = [pc EXCEPT ![t] = IF CloseWon(s) THEN "close" ELSE Resume(t)]
    /\ target' = [target EXCEPT ![t] = s]

\* The winner of the CAS calls BackendConn.Close().
CloseBackend(t) ==
    /\ pc[t] = "close"
    /\ OnDisconnectClose(target[t])
    /\ pc' = [pc EXCEPT ![t] = Resume(t)]
    /\ UNCHANGED <<target, tableVars, rrVars, stopVars, chainVars>>

-----------------------------------------------------------------------------
(* The listen task                                                         *)

\* The listen task waits in ReadFromUDP, until shutdown closes its socket.
Listening == pc["listen"] = "idle" /\ pc["shutdown"] # "done"

\* OnPacket on a session found for the datagram: Drop if it is closing
\* (and schedule its close), otherwise touch it and go on to the Write.
\* newAddr is the address the session's ClientAddr() is left at.
Dispatch(s, newAddr, table) ==
    \/ /\ OnPacketClosed(s)
       /\ Disconnect("listen", s)
       /\ UNCHANGED <<rrVars, stopVars>>
    \/ /\ OnPacketAccept(s)
       /\ clientAddr' = [clientAddr EXCEPT ![s] = newAddr]
       /\ table
       /\ pc' = [pc EXCEPT !["listen"] = "write"]
       /\ target' = [target EXCEPT !["listen"] = s]
       /\ UNCHANGED <<rrVars, stopVars, chainVars>>

\* A datagram from a client address the table knows.
RecvKnown(c) ==
    /\ Listening
    /\ byClient[c] # None
    /\ Dispatch(byClient[c], clientAddr[byClient[c]], UNCHANGED tableVars)

\* A short-header datagram from an unknown address whose DCID the table
\* learned: the address becomes a second key of the session.
RecvByCID(c) ==
    /\ Listening
    /\ byClient[c] = None
    /\ \E x \in CIDs :
          /\ byCID[x] # None
          /\ Dispatch(byCID[x], c, AddClientKey(c, byCID[x]))

\* A datagram that matches no session and is not a parsable Initial
\* (or an Initial for which every handler dropped early): dropped.
RecvUnroutable(c) ==
    /\ Listening
    /\ byClient[c] = None
    /\ UNCHANGED vars

\* An Initial from an unknown address whose count check fails.
RecvInitialLimited(c) ==
    /\ Listening
    /\ byClient[c] = None
    /\ ~shutdown
    /\ ~Allow(count)
    /\ UNCHANGED vars

\* An Initial from an unknown address, once shutdown has begun: no new
\* connection is accepted.
RecvInitialShutdown(c) ==
    /\ Listening
    /\ byClient[c] = None
    /\ shutdown
    /\ UNCHANGED vars

\* An Initial from an unknown address passes the limiter; simple-router
\* picks a backend; the terminator, if any, counts the SNI; the forwarder
\* dials.  On Handled the session's backendToClient goroutine already runs
\* (forwarder.go:81); the proxy inserts the session in its next step.  A
\* Drop after the terminator's Continue is followed by the chain's
\* on_disconnect only under DisconnectOnDrop; the ctx then holds no
\* session if the dial failed, and the aborted one if the write failed.
RecvInitial(c) ==
    LET id == sessionCounter + 1
    IN  /\ Listening
        /\ byClient[c] = None
        /\ ~shutdown
        /\ Allow(count)
        /\ RR!OnConnect
        /\ \E sni \in SNIs :
              \/ /\ OnConnectDialFails
                 /\ IF Terminating /\ ~DisconnectOnDrop
                    THEN TermOnConnect(sni) /\ UNCHANGED sessionSni
                    ELSE UNCHANGED chainVars
                 /\ UNCHANGED taskVars
              \/ /\ OnConnectWriteFails(c)
                 /\ Terminate(id, sni)
                 /\ IF DisconnectOnDrop
                    THEN /\ pc' = [pc EXCEPT !["listen"] = "cleanup"]
                         /\ target' = [target EXCEPT !["listen"] = id]
                    ELSE UNCHANGED taskVars
              \/ /\ OnConnectHandled(c)
                 /\ Terminate(id, sni)
                 /\ pc' = [pc EXCEPT !["listen"] = "insert"]
                 /\ target' = [target EXCEPT !["listen"] = id]
        /\ UNCHANGED <<tableVars, stopVars>>

\* The on_disconnect that follows a Drop of the write-failure exit.
DropCleanup ==
    /\ pc["listen"] = "cleanup"
    /\ Disconnect("listen", target["listen"])
    /\ UNCHANGED <<sessionCounter, sock, closes, clientAddr, idle, pump,
                   buffers, lateWrites, rrVars, stopVars>>

\* The chain returned Handled: the new session is now in the table.
InsertSession ==
    LET s == target["listen"]
    IN  /\ pc["listen"] = "insert"
        /\ Insert(clientAddr[s], s)
        /\ pc' = [pc EXCEPT !["listen"] = "idle"]
        /\ UNCHANGED <<fwdVars, target, rrVars, stopVars, chainVars>>

\* The Write of OnPacket; on a write error the session is closed.
ListenWrite ==
    LET s == target["listen"]
    IN  /\ pc["listen"] = "write"
        /\ \/ /\ OnPacketWriteOk(s)
              /\ pc' = [pc EXCEPT !["listen"] = "idle"]
              /\ UNCHANGED <<target, tableVars, chainVars>>
           \/ /\ OnPacketWriteFails(s)
              /\ Disconnect("listen", s)
        /\ UNCHANGED <<rrVars, stopVars>>

-----------------------------------------------------------------------------
(* The idle sweeper and the clock                                          *)

\* A session idle for session_timeout is closed.
Sweep(s) ==
    /\ pc["sweeper"] = "idle"
    /\ InTable(s)
    /\ idle[s]
    /\ Disconnect("sweeper", s)
    /\ UNCHANGED <<sessionCounter, sock, closes, clientAddr, idle, pump,
                   buffers, lateWrites, rrVars, stopVars>>

\* session_timeout passes: every session not touched since is idle.
Tick ==
    /\ idle' = [s \in Ids |-> TRUE]
    /\ UNCHANGED <<sessionCounter, closed, sock, closes, clientAddr, pump,
                   buffers, lateWrites, tableVars, taskVars, rrVars,
                   stopVars, chainVars>>

-----------------------------------------------------------------------------
(* Graceful shutdown (spec 4.7)                                            *)

\* The interrupt signal: stop accepting new connections and take the
\* sessions of the table as the ones to close.
ShutdownSignal ==
    /\ "interrupt" \in Signals
    /\ pc["shutdown"] = "idle"
    /\ shutdown' = TRUE
    /\ drain' = {s \in Ids : InTable(s)}
    /\ pc' = [pc EXCEPT !["shutdown"] = "drain"]
    /\ UNCHANGED <<fwdVars, tableVars, target, rrVars, chainVars>>

\* Transition one of them to Closing, as any other closer does.
ShutdownClose(s) ==
    /\ pc["shutdown"] = "drain"
    /\ s \in drain
    /\ drain' = drain \ {s}
    /\ Disconnect("shutdown", s)
    /\ UNCHANGED <<sessionCounter, sock, closes, clientAddr, idle, pump,
                   buffers, lateWrites, rrVars, shutdown>>

\* Every session is closing: wait on a deadline for the pumps to exit,
\* then close the listen socket.  The deadline may pass at any time.
ShutdownFinish ==
    /\ pc["shutdown"] = "drain"
    /\ drain = {}
    /\ pc' = [pc EXCEPT !["shutdown"] = "done"]
    /\ UNCHANGED <<fwdVars, tableVars, target, rrVars, stopVars, chainVars>>

-----------------------------------------------------------------------------

Next ==
    \/ \E c \in Clients :
          RecvKnown(c) \/ RecvByCID(c) \/ RecvUnroutable(c)
          \/ RecvInitialLimited(c) \/ RecvInitialShutdown(c)
          \/ RecvInitial(c)
    \/ InsertSession
    \/ ListenWrite
    \/ \E t \in Tasks : CloseBackend(t)
    \/ \E s \in Ids : Sweep(s)
    \/ \E s \in Ids : Pump(s) /\ UNCHANGED <<taskVars, rrVars, stopVars, chainVars>>
    \/ Tick
    \/ ShutdownSignal
    \/ \E s \in Ids : ShutdownClose(s)
    \/ ShutdownFinish

\* Go schedules every runnable goroutine: each pump step, each socket
\* close of a task that has won the CAS, the insert that follows Handled
\* and each step of a shutdown under way eventually happens if it stays
\* enabled.  Clients, backends, the clock, the sweeper's timer and the
\* signal are not assumed to do anything.
Fairness ==
    /\ \A s \in Ids : WF_vars(Pump(s) /\ UNCHANGED <<taskVars, rrVars, stopVars, chainVars>>)
    /\ \A t \in Tasks : WF_vars(CloseBackend(t))
    /\ WF_vars(InsertSession)
    /\ WF_vars(\E s \in Ids : ShutdownClose(s))
    /\ WF_vars(ShutdownFinish)

Spec == Init /\ [][Next]_vars
FairSpec == Spec /\ Fairness

\* The proxy that also ends a connection dropped in OnConnect with the
\* chain's on_disconnect (DisconnectOnDrop): the listen task's extra step.
NextDropCleanup == Next \/ DropCleanup
SpecDropCleanup == Init /\ [][NextDropCleanup]_vars

-----------------------------------------------------------------------------
(* Properties                                                              *)

TypeOK ==
    /\ sessionCounter \in 0..MaxSessions
    /\ closed \in [Ids -> BOOLEAN]
    /\ sock \in [Ids -> SockStates]
    /\ closes \in [Ids -> Nat]
    /\ clientAddr \in [Ids -> Clients \cup {None}]
    /\ idle \in [Ids -> BOOLEAN]
    /\ pump \in [Ids -> PumpStates]
    /\ buffers \in Nat
    /\ lateWrites \subseteq Ids
    /\ byClient \in [Clients -> Ids \cup {None}]
    /\ byCID \in [CIDs -> Ids \cup {None}]
    /\ count \in Nat
    /\ pc \in [Tasks -> {"idle", "write", "insert", "cleanup", "close",
                           "drain", "done"}]
    /\ target \in [Tasks -> Ids \cup {None}]
    /\ shutdown \in BOOLEAN
    /\ drain \subseteq Ids
    /\ refs \in [SNIs -> Nat]
    /\ entries \subseteq SNIs
    /\ sessionSni \in [Ids -> SNIs \cup {None}]

(* P1, close-once: whichever of the listen task (on a Drop) and the idle   *)
(* sweeper close a session, and in whatever order, BackendConn.Close() is  *)
(* called at most once per session.  This is the job of the CAS in         *)
(* Session.Close() checked by ForwarderHandler.OnDisconnect.               *)
CloseOnce == \A s \in Ids : closes[s] <= 1

(* No backend socket outlives its session: an open socket belongs to a     *)
(* session the table holds, to the one the listen task is about to insert *)
(* after Handled, or to one whose close has begun.  This covers the error  *)
(* path of OnConnect after DialUDP, which attaches a session to ctx that   *)
(* the proxy never indexes.                                                *)
NoLeakedSocket ==
    \A s \in Ids :
        sock[s] = "open" =>
            \/ InTable(s)
            \/ closed[s]
            \/ pc["listen"] = "insert" /\ target["listen"] = s

(* The rate limiter bounds the sessions in the table by                   *)
(* max_parallel_connections, however connections, Drops, sweeps and CID   *)
(* migrations interleave; it reads the table's count before the forwarder *)
(* creates the session.                                                    *)
SessionLimit ==
    Cardinality({s \in Ids : InTable(s)}) <= MaxParallel

(* P2, buffer balance: every buffer backendToClient takes from the pool    *)
(* is returned on each of its exits; the buffers out of the pool are       *)
(* exactly one per goroutine between GetBuffer and PutBuffer.              *)
BufferBalance ==
    buffers = Cardinality({s \in Ids : pump[s] \in Holding})

(* Once a session is marked closed, its backend socket is eventually       *)
(* closed and its backendToClient goroutine eventually exits, even when    *)
(* it is blocked in Read with no deadline reached.                        *)
ClosedSessionWindsDown ==
    \A s \in Ids :
        closed[s] ~> (sock[s] = "closed" /\ pump[s] \in {"none", "done"})

(* The lifecycle of each session as spec 4.4 states it: the phase the      *)
(* forwarder's socket and closed flag show.                                *)
Phase ==
    [s \in Ids |->
        CASE sock[s] = "none"   -> "none"
          [] sock[s] = "closed" -> "closed"
          [] closed[s]          -> "closing"
          [] OTHER              -> "active"]

Lifecycle == INSTANCE SessionLifecycle WITH Sessions <- Ids, phase <- Phase

(* The proxy implements the session state machine: a session is opened by *)
(* OnConnect or aborted there, only a CAS winner's Close() ends a closing  *)
(* session, no socket is closed without the closed flag outside OnConnect, *)
(* and every closing session is eventually closed, whichever of the listen *)
(* task, the sweeper and shutdown began it.                                *)
LifecycleRefined == Lifecycle!Spec

(* Spec 4.7, graceful shutdown: once the signal is received every session  *)
(* is transitioned to Closing; eventually the table is empty and every     *)
(* backend socket is closed.  The shutdown task closes the sessions in the *)
(* table, while a session whose OnConnect returned Handled is inserted by  *)
(* the listen task only afterwards.                                        *)
ShutdownClosesAll ==
    shutdown ~> \A s \in Ids : ~InTable(s) /\ sock[s] # "open"

(* Spec 3: after closed = true no further writes to the backend socket     *)
(* occur from any task.  OnPacket checks IsClosed() and then writes.       *)
NoWriteAfterClose == lateWrites = {}

(* Spec 4.3: index_cid may race with remove, but no entry survives the     *)
(* removing task's return.  backendToClient learns a SCID after its closed *)
(* check, with no lock held across the two.                                *)
NoStaleCID ==
    \A x \in CIDs : byCID[x] # None => InTable(byCID[x])

(* Spec 4.4/4.7: a backend read error ends the session (Active -> Closing). *)
(* A session still served by the table always has its backend->client     *)
(* goroutine.                                                              *)
LiveSessionHasPump ==
    \A s \in Ids : InTable(s) /\ ~closed[s] => pump[s] # "done"
\* The sessions of an SNI whose on_disconnect has not run yet.
LiveSessions(sni) == {s \in Ids : sessionSni[s] = sni /\ ~closed[s]}

(* Spec 4.4: on_disconnect is called exactly once per session, and the     *)
(* terminator's counts rest on it: each SNI's count is the number of its   *)
(* live sessions, so the SNI keeps its entry while one of them is live.    *)
(* Both the sweeper and the listen task (on a Drop of OnPacket) call       *)
(* on_disconnect, and only the forwarder guards against a second call.     *)
TerminatorTracksSessions ==
    \A sni \in SNIs : refs[sni] = Cardinality(LiveSessions(sni))
(* The second closed check of backendToClient ("session may have closed   *)
(* during blocking read", forwarder.go:149-150) is meant to stop a closed *)
(* session's traffic.  Its write reads session.ClientAddr() only at line   *)
(* 166, later; a session's backend datagrams must never reach the client   *)
(* of another session, which may by then use the same address.            *)
ReplyNeverMisrouted ==
    \A s \in Ids :
        pump[s] = "write" => byClient[clientAddr[s]] \in {s, None}
=============================================================================
