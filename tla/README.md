# zuicity: TLA+ models, model checking and proofs

zuicity is a QUIC proxy in Rust (tokio and quinn) that speaks the Juicity and
TUIC protocols: a server that authenticates QUIC connections and relays their
streams and datagrams, and a client that offers a mixed SOCKS5/HTTP listener and
port forwarders. This directory models the concurrent parts of it in TLA+,
checks them with TLC on small instances, and proves the central safety
properties of the server loop with TLAPS for every instance.

Paths are relative to `crates/`; `server`, `client`, `transport` and `dae` stand
for `zuicity-<name>/src/lib.rs`.

## Inventory

| Part | State | Operations | Module |
|---|---|---|---|
| Pre-authentication admission (server 866–930) | global and per-address counts | admit, refuse, drop a permit | `PreAuthAdmission` |
| Server proxy loop (server 653–762) | JoinSets, `accepting`, watch channel, report, metrics | one per `select!` arm, drain, abort | `ProxyServer` |
| Server connection loop (server 1083–1198) | relays, stream being accepted, report | accept, read header, join, drain | `ProxyServer` |
| TCP relay of a stream (transport 6968–7232) | two copy tasks, buffers, chunk batch | read, partial write, stall, abort | `TcpRelay` |
| Client dialer (client 906–987) | cached connection under a FIFO mutex | get, dial, invalidate, abort | `SharedQuicDialer` |
| Client mixed listener (client 305–488, 755–889, 1778–1829) | relays, pending associations, routes, channels, report | handshake, route, join, drain | `MixedListener` |
| dae shutdown signal (dae 760–803) | flag and Notify | request, wait | `DaeShutdownSignal` |
| Forwarders, UDP sessions, TUIC UDP, UDP egress, plain UDP socket | see the plan | | not yet |
| Codecs, configuration, TLS and policies, command line, test kit, vendored quinn | none, or third party | | not modelled |

**How the parts interact.** A local application connects to the client's mixed
listener or to a forwarder. The relay task it gets asks the shared dialer for
the one QUIC connection, opens a stream on it and copies. On the server, the
accept task hands the connection to the proxy loop, which admits it under the
budget and authenticates it in a task of its own. It then becomes a connection
task, which accepts streams and spawns a relay for each. Shutdown goes the same
way down: the loop tells the connection tasks by a watch channel, they drain
their relays under a deadline and abort the rest.

**What is hard.** Every loop is a `select!` over arms that may become ready
together, and what an arm awaits in its body stops all the others. Tasks are
aborted at any await, with whatever they hold (a lock, a permit, a half-read
stream). Counts kept by RAII guards must come right on every path out. Drains
race with tasks that finish. Peers may be silent for ever. `hazards` in
`PROJECT.json` lists these at their lines, with the properties that watch them.

## The models

Each action is one uninterrupted step of one task: what the code does between
two awaits, or one `select!` arm up to its next await. Byte totals, tracing and
message text are left out. Definitions named `X_something` under a comment that
starts with *Slip* are plausible mistakes in `X`. No specification uses them:
they are there to show that the properties notice such a mistake.

**`PreAuthAdmission`** has the two counts and the operations of
`PreAuthAdmission` and `PreAuthPermit`, with the removal of an address whose
count falls to zero and the saturating decrements.

**`ProxyServer`** extends it with `run_proxy_loop_until_with_hooks`. `conn[c]`
is the life of a connection, from `incoming` through the accept task (`handed`),
the authentication task (`authenticating`, `auth_*`) and the connection task
(`serving`, `draining`, `aborting`) to its end; `stream[s]` is that of a proxy
stream. `ShutdownArm`, `JoinAuthTask`, `AcceptArm`, `JoinConnTask` and `ElseArm`
are the loop's arms; `SeeShutdown`, `SeeClosed`, `AcceptBi`, `ReadHeader` and
`JoinRelay` those of a connection's loop. Accepting a stream is two awaits in
one arm, so it is two actions, and `JoinRelay` drops the accept future that is
between them. `biased` is not enforced: an event may come after its arm was
polled and before a later one is, so the order only narrows the choice. Panics
of authentication tasks, relays and connection tasks are environment steps.

**`TcpRelay`** numbers the bytes of each side in the order they are sent, so
that loss, repetition and reordering are visible. `read_chunks`,
`write_vectored` and `advance` are the upward copy with partial vectored writes;
`ReadAhead`, `WriteSome` and `WriteDone` the double-buffered downward copy;
`boxed` selects the plain copy used behind a dialer. The initial payload is left
out: both readers of proxy headers return an empty one (transport 6866, 6925).

**`SharedQuicDialer`** has the mutex as the sequence of its holder and waiters
(tokio's is FIFO) and the dial as a state in which the lock is held. `given_up`
is a history variable.

**`MixedListener`** has the loop with the two bodies in which it waits
(`handshake`, `send`), the associations with their bounded channels, and the two
halves of the drain. The walk over the pending queue is one step: an
association that closes during it behaves as if it had closed just before or
just after. The shutdown arm is first and `biased`, so the other arms need
`~shutdown`. A TCP relay is one task that ends in some way: its inside is
`SharedQuicDialer` and the copy.

**`DaeShutdownSignal`** separates the store from the notification, and the
check of the flag from the creation of the `Notified` future: the future is
woken by every `notify_waiters` after its creation and by none before.

## The runs

| Run | Shows |
|---|---|
| `server_admission` | counts exact on all paths, refusals only at an address's own limit, silent peers cannot stop the accept path |
| `server_relays` | relay outcomes counted once, relays owned by their connection's task, nothing left at return |
| `server_shutdown` | shutdown returns, the task of a closed connection ends |
| `tcp_relay` | both sides receive prefixes, success is complete, a read error loses nothing already read, no task and no write outlasts the relay |
| `dialer` | no dead or discarded connection is served, handshakes are shared, every request is answered |
| `mixed` | sources stay apart, sending to a pending association cannot block, every result counted once, the drain returns |
| `server_streams` (violation) | a stream whose header is being read is dropped when another relay of its connection ends |
| `dialer_discards` (violation) | an open error discards a connection that works |
| `mixed_shutdown` (violation) | a silent local client keeps the loop from seeing the shutdown |
| `mixed_routes` (violation) | joining an ended association removes the route of the live one that took over its peer |
| `dae_shutdown` (violation) | a shutdown request between check and wait is lost |

The five violations are disagreements between the code and its own comments or
tests; `findings` quotes both sides. None of them touches what the passing runs
state.

**Bounds.** Two authentications in the budget, one per address, with three
connections from two addresses is the least instance that meets both limits,
and refuses a connection while another address has room. Two connections with
two streams give every order of finishing, failing and draining between
siblings and between connections. The shutdown run has one connection with two
streams, because its liveness properties speak of one connection at a time.
Four bytes each way, with buffers and batches of two, has batches of unequal
chunks, writes that end inside, at and beyond a chunk, and both buffers in both
roles. Three users and two dials of the shared connection let one task
invalidate while another dials and a third waits; `MaxDials` only bounds
success, dials may always fail. Two local connections and two peers with a
channel of two let associations compete for a peer, fill a channel and end in
every order; three of them would only lengthen the queue. Deadlock is checked
everywhere except in `DaeShutdownSignal`, whose calls all return.

**Fairness.** Weak fairness of what the tokio runtime does by itself: it polls
ready arms, joins ended tasks, cancels aborted ones and fires timers (the
authentication timeout, drain deadlines, grace periods, the stall timeout).
Nothing is assumed of peers, local clients, targets or relays: they may stop for
ever. The dialer also assumes that a dial ends, which QUIC's handshake timeout
gives.

## The proofs

`ProxyServerProofs` proves, for any finite set of connections, any streams, any
addresses and any budget (`AdmissionAssumption`, `ServerAssumption`):

- `TypeCorrect`: `TypeOK`, which bounds both admission counts;
- `AdmissionIsExact`: the counts are the numbers of live permits;
- `ConnectionMetricsAreExact`: the gauge counts the running connection tasks,
  metrics and report agree;
- `RelaysAreOwned`: no relay outlives the task of its connection;
- `ReturnIsClean`: nothing is left when the loop returns;
- `RefusalIsFair`: the action property that a refusal is due to the refused
  connection's own address.

The inductive invariant `IInv` is `TypeOK`, `AdmissionExact`,
`ConnectionMetricsExact`, `RelaysEndWithTask` and `PhaseInv`. The last relates
the loop's phase to its JoinSets: draining and returning come after accepting,
no authentication task is left once accepting has ended and the drain is over,
and no connection task once the loop has returned. `NothingLeftAtReturn` is not
inductive without it, since an authentication task that ended late would bring a
permit, or a new connection task, to a loop that has returned. There is one
lemma per conjunct (`StateTypeStep`, `AdmissionStep`, `MetricsStep`,
`RelayStep`, `PhaseStep`) with one step per action. They rest on three
facts: an action moves one connection at a time (`Moves`), so a cardinality
changes by one (`AdmitExact`, `DropExact`, `ActiveDrops`), and `Move` changes
only streams of one owner (`MoveEffect`).

Only model-checked: all liveness (it needs fairness, out of the prover's
reach), `RelayCountsAgree` (a sum over a set), and the properties of `TcpRelay`,
`SharedQuicDialer` and `MixedListener`, whose proofs are planned below.

## Not modelled, and why

Wire codecs, configuration and the command line have no state that changes
concurrently. TLS and QUIC are third-party. The dialers of the TCP egress are
handshakes of formatted bytes and cryptography. The test kit and the benchmarks
are not part of the program. `components` in `PROJECT.json` lists each part.

## Plan

1. `TuicUdp`: fragmentation and reassembly with loss and reordering, packet ids
   that wrap, garbage collection, and the associations of
   `run_tuic_udp_datagram_relay` (transport 5300–5935).
2. `UdpSession`: both forms of the UDP-over-stream session (transport
   6607–6800), and an abstract request/reply specification that they and the
   client's associations implement.
3. `UdpForwarder` and `TcpForwarder` over `SharedQuicDialer` (client 989–1110,
   1560–1754), with the single redial.
4. `UdpEgress`: the lazily connected association of `UdpEgressRelayState`
   (transport 4188–6600), one model for all dialers.
5. `PlainUdpSocket`: the per-destination GSO state and partial sends (transport
   446–760 and the `udp_*` files).
6. The dae connector with its close-once hooks and metrics.
7. An abstract specification of admission (a set of permits) that `ProxyServer`
   refines, and of a byte pipe that `TcpRelay` refines, with proofs.
8. Proofs of `GivenUpNotReused`, `WorkingStaysCached` and the lock invariant of
   the dialer, of `PendingIsFresh`, `OnePeerPerAssociation` and
   `NothingLeftAtReturn` of the listener, and of `PrefixDelivered` for the
   downward copy.
