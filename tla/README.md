# TLA+ models of quic-relay

quic-relay is a QUIC reverse proxy. It reads every client datagram on one UDP
socket, finds the session the datagram belongs to, and forwards it over a
per-session UDP socket to a backend. A new connection's Initial packet runs a
chain of handlers. Here the chain is `ratelimit-global` → `simple-router` (or
`sni-router`) → `forwarder`, and the forwarder dials the backend. These
modules model how the proxy's concurrent tasks share sessions:

- the listen task;
- the idle sweeper;
- one `backendToClient` goroutine per session.

They also model the round-robin selection of the two routers.

## The parts of the system

| Part | Code | Model |
|---|---|---|
| forwarder handler: OnConnect, OnPacket, OnDisconnect, backendToClient | `internal/handler/forwarder.go` 14-178 | `Forwarder` |
| simple-router (StaticHandler) | `docs/.vitepress/config.ts` 65-123 | `RoundRobin` |
| sni-router (DynamicHandler, route.next) | `docs/.vitepress/config.ts` 133-227 | `SniRouter` (uses `RoundRobin`) |
| ratelimit-global | `unnamed/part_001` 268-317 | `Proxy` (`Allow`, `RecvInitialLimited`) |
| session table: by client address, by learned CID, count | spec only | `SessionTable` |
| proxy loop: dispatch, Initial path and insert, Drop handling, idle sweeper, graceful shutdown | spec only | `Proxy` |
| buffer pool | spec only, used by forwarder.go | `Forwarder` (`buffers`) |
| terminator: per-SNI backend entries and their reference counts | spec and tests only (`config.ts` 381-524) | `TerminatorHandler`, composed in `Proxy` |
| ClientHello parser, terminator's QUIC server, config, hot reload, installer, docs | spec, tests, I/O | not modelled |

How the parts interact:

- **Listen task.** It looks a datagram up first by client address, then by
  a destination CID that the table learned.
  - A known session gets `OnPacket`. This checks `IsClosed()`, calls
    `Touch()` and writes to the backend. A Drop makes the proxy remove the
    session and call `OnDisconnect`.
  - An unknown address with a parsable Initial runs the chain `OnConnect`.
    The rate limiter reads `_session_count`. The router sets `backend`.
    The forwarder dials, writes the Initial and starts `backendToClient`.
    On `Handled`, the proxy inserts the session.
- **`backendToClient`.** It loops: closed check, `GetBuffer`, `Read`,
  closed check, `Touch`, `NotifyServerPacket`, `WriteToUDP`, `PutBuffer`.
  `NotifyServerPacket` teaches the table the backend's connection IDs, so a
  client that migrates to a new address stays routed.
- **Idle sweeper.** It removes sessions idle for `session_timeout` and
  calls `OnDisconnect`.
- **`OnDisconnect`.** It flips the session's closed flag with a CAS. Only
  the winner closes the backend socket.

## Modules

- **`RoundRobin`**: `StaticHandler.OnConnect`.
  - `counter` is the atomic counter, reduced modulo `2^Width`, so the model
    goes through the counter's wrap-around.
  - `tally` is a history variable: each backend's selections minus the least
    selected backend's. It stays finite without a bound on connections.
- **`SniRouter`**: `DynamicHandler.OnConnect`.
  - It has three Drop paths: no ClientHello, an empty SNI, an unknown SNI.
  - Each route is an instance of `RoundRobin`:
    `R(r) == INSTANCE RoundRobin WITH Backends <- Routes[r], ...`.
- **`SessionTable`**: the table the proxy keeps.
  - Its operations: `Insert`, `AddClientKey` (a migrated address as a second
    key), `IndexCID` and `Remove`.
  - `count` is the value the rate limiter reads.
  - This module is written from the spec; the code is not in the repository.
- **`Forwarder`** (extends `SessionTable`): one action per branch of the
  handler code.
  - `OnConnectDialFails`, `OnConnectWriteFails` and `OnConnectHandled` are
    the exits of `OnConnect`.
  - `OnPacketClosed`, `OnPacketAccept` and then `OnPacketWriteOk` or
    `OnPacketWriteFails` are the steps of `OnPacket`.
  - `CloseWon` and `OnDisconnectClose` model `OnDisconnect`.
  - `PumpLoop`, `PumpReadData`, `PumpReadError`, `PumpCheck`, `PumpNotify`
    and `PumpWrite` are the steps of `backendToClient`. `pump[s]` is the
    goroutine's place in its loop.
  - `buffers` counts pooled buffers in use.
  - `sock[s]` is none, open or closed. `closes[s]` counts
    `BackendConn.Close()` calls.
- **`Proxy`** (extends `Forwarder`): three proxy tasks, each with a
  program counter `pc[t]`.
  - The listen task receives (`RecvKnown`, `RecvByCID`, `RecvUnroutable`,
    `RecvInitialLimited`, `RecvInitialShutdown`, `RecvInitial`), then does
    the Write as its own step, `ListenWrite`.
  - `RecvInitial` ends when OnConnect returns `Handled`. By then the
    session's goroutine already runs (forwarder.go:81). The proxy's insert
    is the listen task's next step, `InsertSession` (spec 4.7 step 4).
  - The sweeper does `Sweep`.
  - The shutdown task (spec 4.7) runs only when `Signals` contains the
    interrupt.
    - `ShutdownSignal` stops new connections and takes the sessions in the
      table.
    - `ShutdownClose` transitions each of them to Closing.
    - `ShutdownFinish` is the deadline, after which the listen socket is
      closed.
  - Any task closes a session with `Disconnect` (remove + CAS). The CAS
    winner then closes the socket in a later step, `CloseBackend`.
  - `Tick` stands for `session_timeout` passing.
  - The router of the chain is `RR == INSTANCE RoundRobin`.
  - The refinement mapping `Phase` reads each session's phase from its
    socket and closed flag.
- **`TerminatorHandler`**: the terminator's `backends` map, as its tests
  describe it.
  - `refs[sni]` is the entry's `refCount`; `entries` is the set of SNIs
    with an entry.
  - `TermOnConnect` stores or loads the entry and counts one more
    connection. `TermOnDisconnect` decrements and deletes the entry at 0,
    and does nothing for an SNI without an entry.
  - The code is not in the sources. Backend addresses and the internal
    QUIC server are left out.
- **Terminator in `Proxy`.** With the constant `Terminating`, the chain is
  ratelimit → router → terminator → forwarder.
  - `Terminate` is the terminator's OnConnect in `RecvInitial`, and
    `sessionSni[s]` the SNI it counted the session under.
  - `Disconnect`, the chain's on_disconnect, also calls `TermOnDisconnect`.
  - The constant `DisconnectOnDrop` says whether a Drop in OnConnect (by the
    forwarder, after the terminator counted the connection) is followed by
    the chain's on_disconnect. The spec says on_disconnect runs "when the
    session ends (for any reason)" but not whether that includes an aborted
    connect. If it does, a failed dial releases the count at once, and a
    failed initial write leads to `DropCleanup`: the listen task runs
    `Disconnect` on the aborted session. `DropCleanup` is the extra
    disjunct of `NextDropCleanup`, and `SpecDropCleanup` is the proxy with
    it. The two runs that ask about this choice use that specification.
- **`SessionLifecycle`**: the abstract state machine of spec 4.4.
  - Its phases are none → active → closing → closed, with none → closed
    for an aborted connect.
  - `FinishClose` is weakly fair.
  - `Proxy` must implement it: `LifecycleRefined == Lifecycle!Spec`, with
    `Lifecycle == INSTANCE SessionLifecycle WITH phase <- Phase`.

The abstractions:

- **Time.** Time is the flag `idle[s]`: `Tick` sets every flag and `Touch`
  clears one. This is all the sweeper's comparison
  `now - LastActivity >= session_timeout` distinguishes.
- **Backend and network.** A backend may always have a datagram queued.
  `Read` or `Write` on an open socket may fail at any step. This covers the
  5-minute read deadline and ECONNREFUSED.
- **DNS and dialing.** Failures are a nondeterministic exit of `OnConnect`.
- **Data.** Addresses, CIDs and backends are model values. Datagram contents
  are abstracted to whether they carry a server CID.
- **Remove and CAS.** `Disconnect` does both in one step. The proxy's order
  between them is not in the sources, and the atomic step is the most
  favourable choice for the properties.

## Runs

| Run | Checks | Result |
|---|---|---|
| `rr_pow2` (`RoundRobinPow2.cfg`) | `TypeOK`, `Balanced` with 4 backends and a 7-bit counter (two full wraps) | pass |
| `rr_wrap` (`RoundRobinWrap.cfg`) | `Balanced` with 3 backends and a 2-bit counter | violated: at the wrap, backend 1 is chosen twice in a row |
| `sni_routes` (`SniRouter.cfg`) | `TypeOK`, `RoutesBalanced` with routes of 2 and 4 backends, an unknown SNI, an empty SNI and no hello | pass |
| `proxy` (`Proxy.cfg`) | `TypeOK`, `CloseOnce`, `NoLeakedSocket`, `SessionLimit`, `BufferBalance`, `ClosedSessionWindsDown`, `LifecycleRefined`; no shutdown signal | pass, about 123k states |
| `shutdown` (`Proxy_Shutdown.cfg`) | `CloseOnce`, `LifecycleRefined` with the interrupt signal and one client address | pass |
| `shutdown_misses_inflight` (`Proxy_ShutdownClosesAll.cfg`) | `ShutdownClosesAll` (spec 4.7) | violated: the shutdown task takes the table between `Handled` and the insert, and the new session is never closed |
| `write_after_close` | `NoWriteAfterClose` (spec 3) | violated: the sweeper closes between `IsClosed()` (forwarder.go:93) and `Write` (:103) |
| `stale_cid` | `NoStaleCID` (spec 4.3) | violated: `NotifyServerPacket` (:160) indexes a CID after the session's removal |
| `terminator_double_disconnect` | `TerminatorTracksSessions` (spec 4.4) | violated: a stale CID routes a packet to a session the sweeper closed; the Drop runs on_disconnect a second time and deletes the entry of an SNI with a live session |
| `drop_double_close` | `CloseOnce` with `DisconnectOnDrop` | violated: on_disconnect after a failed initial write closes the backend socket a second time |
| `reply_misrouted` (`Proxy_ReplyMisrouted.cfg`) | `ReplyNeverMisrouted` | violated: the sweeper closes a session after its goroutine's second closed check (:150); a new connection from the same address becomes a new session, and the old goroutine's write at :166 goes to the new client |
| `orphaned_session` | `LiveSessionHasPump` (spec 4.4) | violated: the goroutine returns on a read error (:143-146) and leaves the session open and routed |

The `proxy` bounds:

- **Clients.** Two, so that one can migrate to the other's address.
- **CIDs.** Two server CIDs, one per session.
- **Sessions.** At most 2 (`MaxSessions`), so a new session can follow a
  closed one.
- **Rate limit.** `MaxParallel = 1`, so the limit is reached and a Drop by
  the limiter happens.
- **Backends.** One, because the router's balance is checked separately.

The signal is a constant. With shutdown enabled and two client addresses, the
state space grows about fivefold. So the `shutdown` run uses one client
address: it keeps the three-way race between closers and drops only
migration, which `proxy` covers.

Every action, and every branch of `Dispatch`, fires in these bounds.
`OnPacketClosed` is taken in `proxy` too: Remove and CAS are one step, but
a CID learnt after the closed check outlives the removal, so a packet
carrying it reaches a closed session. `proxy` keeps `MaxParallel = 1` with
`MaxSessions = 2`: only then does a limiter off-by-one admit a session it
should not. Each
property of a passing run has a mutant in `PROJECT.json`: a plausible bug in a
mapped definition that makes TLC report that property violated.

Only the `Proxy` runs with a temporal property assume fairness, as `FairSpec`. `WF` holds for these
steps, because the Go scheduler runs every runnable goroutine and none of them
waits for input:

- each step of a backendToClient goroutine (`Pump`);
- the CAS winner's socket close (`CloseBackend`);
- the insert after `Handled` (`InsertSession`);
- the steps of a shutdown under way (`ShutdownClose`, `ShutdownFinish`).

Nothing else is fair. Clients, backends, the clock, the sweeper's timer and
the signal have no fairness: nothing in the code makes them act. The listen
task's pending write to a backend (`ListenWrite`) is not assumed fair
either; no liveness property waits on it.

## Findings

- **Round-robin wrap.** The round-robin is uneven at the counter's wrap when
  the backend count does not divide 2^64. This needs 2^64 connections, so it
  is real and not urgent.
- **Write after close.** The spec's rule "no write after close" does not
  hold, because `OnPacket` checks and writes without holding anything.
- **Stale CID.** CID learning after the closed check can leave a CID entry
  for a removed session, unless `index_cid` refuses closed sessions.
- **Read error.** A backend read error does not close the session, though
  spec 4.4 says it should. Until the sweeper acts, a client's packets reach a
  backend whose replies nobody forwards.
- **Shutdown misses an in-flight connect.** A connection whose OnConnect
  returned `Handled` just before the interrupt is inserted after the shutdown
  task has taken the table. It outlives the shutdown. The spec does not say
  whether the insert checks the signal.

- **on_disconnect twice.** In the proxy as modelled from the spec (its code
  is not in the sources), the closers each run the chain's on_disconnect. The forwarder ignores a second call thanks to its CAS
  (forwarder.go:118), but the terminator's count does not. After a sweep,
  a packet reaching the closed session through a stale CID (or a failed
  write) makes the listen task's Drop decrement the count again. The
  terminator then forgets the backend of an SNI that still has a live
  session. Spec 4.4's "exactly once" needs a guard in the proxy, not in
  each handler.
- **Reply to a reused address** (`reply_misrouted`). The sweeper can close
  a session after its goroutine's second closed check (forwarder.go:150),
  and a new connection from the same address becomes a new session. The
  old goroutine then writes its backend's datagram, with the address it
  reads at :166, to the new session's client. TLC reaches this in 11
  states. The client's QUIC stack drops the datagram, because it carries a
  connection ID the client does not know, so the harm is a wasted write and
  a leak of one backend's traffic to another client.
- **Drop after the terminator.** When the forwarder drops a connection
  the terminator has counted, there are two outcomes, and each is wrong:
  - without an on_disconnect, the count leaks;
  - with one, the forwarder closes the socket it closed at forwarder.go:72
    a second time, because that path never sets the closed flag.

## Not modelled

- **ClientHello / Initial parser.** A pure decoder, not in the sources. It
  appears only as "parsable Initial or not" and as the SNI offered.
- **Terminator's QUIC server.** The TLS termination, the re-bridge to the
  backend address stored in the entry, and `Shutdown` are I/O behind the
  contract "the internal address replaces `backend`". The leak with
  `DisconnectOnDrop = FALSE` has no run: the count then grows without
  bound.
- **Hot reload.** Spec only. It swaps the handler chain and
  `session_timeout` for new connections, and never touches a live session's
  state. A model would only restate that no session variable changes.
- **sni-router inside Proxy.** The router's only effect on sessions is the
  value of `backend`, which the forwarder dials whatever it is. Its Drop
  paths are the same early Drops as `RecvUnroutable`. `SniRouter` checks the
  router alone, and putting it in the chain would grow the state space
  without a new interleaving.
- **The order of remove and CAS.** The proxy code is not in the sources,
  and the spec does not fix the order. `Disconnect` does both in one step.
  A closed session is still found in the table through a stale CID (the
  `proxy` run takes `OnPacketClosed` this way).
- **Registry, config loading, installer and docs site.** Start-up code, I/O
  and prose.
