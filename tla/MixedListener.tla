--------------------------- MODULE MixedListener ---------------------------
(***************************************************************************)
(* The client's mixed SOCKS5/HTTP listener, MixedTcpListener::             *)
(* run_loop_until: one loop that reads the first request of every local    *)
(* connection, spawns its TCP relay or its SOCKS5 UDP association, routes  *)
(* the datagrams of the shared UDP socket to the associations, joins what  *)
(* ends, and drains and aborts the rest on shutdown.  An association reads *)
(* its bounded channel and relays one datagram at a time, waiting for the  *)
(* answer to each, until its control connection closes.                    *)
(***************************************************************************)
EXTENDS Naturals, FiniteSets, Sequences, SequencesExt, Functions

CONSTANTS
  Clients,    \* local TCP connections, each accepted at most once
  Peers,      \* UDP source addresses on the host of the clients
  NONE,       \* no client, no peer
  CHANNEL     \* capacity of an association's channel (32 in the code)

ASSUME ListenerAssumption == /\ CHANNEL \in Nat \ {0}
                             /\ IsFiniteSet(Clients)
                             /\ NONE \notin Clients \cup Peers

VARIABLES
  at,          \* where the loop is
  hand,        \* the client, or the peer's datagram, that the loop deals with
  shutdown,    \* the shutdown future has resolved
  task,        \* what has become of each local connection
  kind,        \* which JoinSet the client's task is in
  joined,      \* tasks taken out of their JoinSet
  report,      \* MixedTcpLoopReport
  requested,   \* PendingSocks5UdpRelay: the peers its endpoint matches
  pending,     \* pending_udp_relays
  udp_routes,  \* peer -> association
  channel,     \* the datagrams (their peers) waiting for each association
  first,       \* first_udp_peer of each association
  answered     \* associations whose first_remote_target is set

loopVars == <<at, hand, joined, report>>
taskVars == <<task, first, answered>>
routeVars == <<pending, udp_routes>>
vars == <<at, hand, shutdown, task, kind, joined, report, requested, pending,
          udp_routes, channel, first, answered>>

Counters == {"accepted", "completed_tcp", "failed_tcp", "completed_udp", "failed_udp"}

(* The control IP is that of every peer; port 0 matches them all.          *)
Endpoints == {{p} : p \in Peers} \cup {Peers}

Running == {"tcp", "dial", "idle", "sending", "waiting"}
Results == {"completed", "failed", "panicked", "cancelled"}

Init ==
  /\ at = "select"
  /\ hand = NONE
  /\ shutdown = FALSE
  /\ task = [k \in Clients |-> "new"]
  /\ kind = [k \in Clients |-> "none"]
  /\ joined = {}
  /\ report = [c \in Counters |-> 0]
  /\ requested = [k \in Clients |-> {}]
  /\ pending = <<>>
  /\ udp_routes = <<>>
  /\ channel = [k \in Clients |-> <<>>]
  /\ first = [k \in Clients |-> NONE]
  /\ answered = {}

Count(c) == report' = [report EXCEPT ![c] = @ + 1]
Becomes(k, state) == task' = [task EXCEPT ![k] = state]
Ends(k, result) == Becomes(k, result) /\ channel' = [channel EXCEPT ![k] = <<>>]
Live(kd) == {k \in Clients \ joined : kind[k] = kd}

(* The receiver was dropped, with what it held, when its task ended.       *)
is_closed(k) == task[k] \notin Running

-----------------------------------------------------------------------------
(* The select! loop.  Its shutdown arm comes first, so no other arm is     *)
(* taken once the shutdown future has resolved.                            *)
Selecting == at = "select" /\ ~shutdown

RequestShutdown ==
  /\ ~shutdown
  /\ shutdown' = TRUE
  /\ UNCHANGED <<loopVars, taskVars, routeVars, kind, requested, channel>>

ShutdownArm ==
  /\ at = "select"
  /\ shutdown
  /\ at' = "drain_tcp"
  /\ UNCHANGED <<hand, joined, report, shutdown, taskVars, routeVars, kind, requested, channel>>

(* record_mixed_tcp_relay, record_mixed_udp_relay and their _error forms.  *)
record_mixed_relay(k) ==
  CASE task[k] = "completed" -> Count(IF kind[k] = "tcp" THEN "completed_tcp" ELSE "completed_udp")
    [] task[k] = "failed"    -> Count(IF kind[k] = "tcp" THEN "failed_tcp" ELSE "failed_udp")
    [] OTHER                 -> report' = report

JoinTcp(k) ==
  /\ Selecting
  /\ k \in Live("tcp")
  /\ task[k] \in {"completed", "failed"}
  /\ joined' = joined \cup {k}
  /\ record_mixed_relay(k)
  /\ UNCHANGED <<at, hand, shutdown, taskVars, routeVars, kind, requested, channel>>

JoinUdp(k) ==
  /\ Selecting
  /\ k \in Live("udp")
  /\ task[k] \in {"completed", "failed"}
  /\ joined' = joined \cup {k}
  /\ record_mixed_relay(k)
  /\ udp_routes' = IF task[k] = "completed"
                   THEN Restrict(udp_routes, DOMAIN udp_routes \ {first[k]})
                   ELSE udp_routes
  /\ UNCHANGED <<at, hand, shutdown, taskVars, pending, kind, requested, channel>>

(* `?` on an error returns from the loop and drops both JoinSets.          *)
Fail ==
  /\ at' = "failed"
  /\ pending' = <<>>
  /\ udp_routes' = <<>>
  /\ UNCHANGED <<hand, joined, report, shutdown, taskVars, kind, requested, channel>>

JoinPanicked(k) ==
  /\ Selecting
  /\ k \in Live("tcp") \cup Live("udp")
  /\ task[k] = "panicked"
  /\ Fail

SocketFails == Selecting /\ Fail

-----------------------------------------------------------------------------
(* route_mixed_socks5_udp_datagram                                         *)

\* Slip: the requested endpoint is not compared with the peer.
matches_any(k, p) == TRUE

matches(k, p) == p \in requested[k]

\* Slip: the association stays in the queue after it got its peer.
offer_keeps_pending(p) ==
  LET i == SelectInSeq(pending, LAMBDA k : ~is_closed(k) /\ matches(k, p))
      Open(s) == SelectSeq(s, LAMBDA k : ~is_closed(k))
  IN  /\ pending' = Open(pending)
      /\ IF i = 0
         THEN udp_routes' = Restrict(udp_routes, DOMAIN udp_routes \ {p}) /\ channel' = channel
         ELSE /\ udp_routes' = [q \in DOMAIN udp_routes \cup {p} |->
                                  IF q = p THEN pending[i] ELSE udp_routes[q]]
              /\ channel' = [channel EXCEPT ![pending[i]] = Append(@, p)]

(* The datagram goes to the first open pending association that asked for  *)
(* its peer; closed ones met on the way are dropped, unmatched ones move   *)
(* to the back.  A pending channel is empty, so the send never waits.      *)
offer(p) ==
  LET i == SelectInSeq(pending, LAMBDA k : ~is_closed(k) /\ matches(k, p))
      Open(s) == SelectSeq(s, LAMBDA k : ~is_closed(k))
  IN  IF i = 0
      THEN /\ pending' = Open(pending)
           /\ udp_routes' = Restrict(udp_routes, DOMAIN udp_routes \ {p})
           /\ channel' = channel
      ELSE /\ pending' = SubSeq(pending, i + 1, Len(pending)) \o Open(SubSeq(pending, 1, i - 1))
           /\ udp_routes' = [q \in DOMAIN udp_routes \cup {p} |->
                               IF q = p THEN pending[i] ELSE udp_routes[q]]
           /\ channel' = [channel EXCEPT ![pending[i]] = Append(@, p)]

RecvUnrouted(p) ==
  /\ Selecting
  /\ p \notin DOMAIN udp_routes
  /\ offer(p)
  /\ UNCHANGED <<loopVars, shutdown, taskVars, kind, requested>>

RecvRouted(p) ==
  /\ Selecting
  /\ p \in DOMAIN udp_routes
  /\ at' = "send"
  /\ hand' = p
  /\ UNCHANGED <<joined, report, shutdown, taskVars, routeVars, kind, requested, channel>>

(* The send waits on the loop's own task while the channel is full.        *)
SendOk ==
  /\ at = "send"
  /\ LET k == udp_routes[hand] IN
       /\ ~is_closed(k)
       /\ Len(channel[k]) < CHANNEL
       /\ channel' = [channel EXCEPT ![k] = Append(@, hand)]
  /\ at' = "select"
  /\ hand' = NONE
  /\ UNCHANGED <<joined, report, shutdown, taskVars, routeVars, kind, requested>>

SendErr ==
  /\ at = "send"
  /\ is_closed(udp_routes[hand])
  /\ offer(hand)
  /\ at' = "select"
  /\ hand' = NONE
  /\ UNCHANGED <<joined, report, shutdown, taskVars, kind, requested>>

-----------------------------------------------------------------------------
(* spawn_or_handle_mixed_stream, awaited by the loop itself                *)
AcceptArm(k) ==
  /\ Selecting
  /\ task[k] = "new"
  /\ at' = "handshake"
  /\ hand' = k
  /\ Becomes(k, "handshake")
  /\ Count("accepted")
  /\ UNCHANGED <<joined, shutdown, first, answered, routeVars, kind, requested, channel>>

HandshakeOver ==
  /\ at' = "select"
  /\ hand' = NONE
  /\ UNCHANGED <<joined, shutdown, first, answered, udp_routes, channel>>

(* HTTP (every first byte but 5) or SOCKS5 CONNECT.                        *)
SpawnTcp(k) ==
  /\ at = "handshake"
  /\ hand = k
  /\ Becomes(k, "tcp")
  /\ kind' = [kind EXCEPT ![k] = "tcp"]
  /\ HandshakeOver
  /\ UNCHANGED <<report, requested, pending>>

SpawnUdp(k) ==
  /\ at = "handshake"
  /\ hand = k
  /\ Becomes(k, "dial")
  /\ kind' = [kind EXCEPT ![k] = "udp"]
  /\ \E e \in Endpoints : requested' = [requested EXCEPT ![k] = e]
  /\ pending' = Append(pending, k)
  /\ HandshakeOver
  /\ UNCHANGED report

HandshakeFails(k) ==
  /\ at = "handshake"
  /\ hand = k
  /\ Becomes(k, "rejected")
  /\ Count("failed_tcp")
  /\ HandshakeOver
  /\ UNCHANGED <<kind, requested, pending>>

-----------------------------------------------------------------------------
(* The tasks                                                               *)
taskRest == <<loopVars, shutdown, routeVars, kind, requested>>

TcpRelayEnds(k) ==
  /\ task[k] = "tcp"
  /\ \E r \in {"completed", "failed", "panicked"} : Becomes(k, r)
  /\ UNCHANGED <<taskRest, first, answered, channel>>

(* An error at any of the association's awaits, or a panic in it.          *)
AssociationFails(k) ==
  /\ task[k] \in {"dial", "idle", "sending", "waiting"}
  /\ \E r \in {"failed", "panicked"} : Ends(k, r)
  /\ UNCHANGED <<taskRest, first, answered>>

GetConnection(k) ==
  /\ task[k] = "dial"
  /\ Becomes(k, "idle")
  /\ UNCHANGED <<taskRest, first, answered, channel>>

IncomingRecv(k) ==
  /\ task[k] = "idle"
  /\ channel[k] # <<>>
  /\ channel' = [channel EXCEPT ![k] = Tail(@)]
  /\ LET p == Head(channel[k]) IN
       IF first[k] \in {NONE, p}
       THEN first' = [first EXCEPT ![k] = p] /\ Becomes(k, "sending")
       ELSE UNCHANGED <<first, task>>
  /\ UNCHANGED <<taskRest, answered>>

SendDatagram(k) ==
  /\ task[k] = "sending"
  /\ Becomes(k, "waiting")
  /\ UNCHANGED <<taskRest, first, answered, channel>>

Response(k) ==
  /\ task[k] = "waiting"
  /\ Becomes(k, "idle")
  /\ answered' = answered \cup {k}
  /\ UNCHANGED <<taskRest, first, channel>>

(* Out of the association's loop: without an answer there is no report.    *)
Break(k) ==
  /\ Ends(k, IF k \in answered THEN "completed" ELSE "failed")
  /\ UNCHANGED <<taskRest, first, answered>>

ControlCloses(k) == task[k] \in {"idle", "waiting"} /\ Break(k)

(* incoming.recv() returns None: every sender is gone, nothing is queued.  *)
SendersGone(k) ==
  /\ task[k] = "idle"
  /\ channel[k] = <<>>
  /\ k \notin ToSet(pending) \cup Range(udp_routes)
  /\ Break(k)

Cancelled(k) ==
  /\ at \in {"abort", "failed"}
  /\ task[k] \in Running
  /\ Ends(k, "cancelled")
  /\ UNCHANGED <<taskRest, first, answered>>

-----------------------------------------------------------------------------
(* drain_completed_mixed_relays_after_shutdown                             *)
Draining == [drain_tcp |-> "tcp", drain_udp |-> "udp"]
AfterDrain == [drain_tcp |-> "drain_udp", drain_udp |-> "abort"]

\* Slip: a join in the drain forgets the result.
DrainJoin_unrecorded(k) ==
  /\ \/ at \in DOMAIN Draining /\ k \in Live(Draining[at])
     \/ at = "abort" /\ k \in Live("tcp") \cup Live("udp")
  /\ task[k] \in Results
  /\ joined' = joined \cup {k}
  /\ UNCHANGED <<at, hand, report, shutdown, taskVars, routeVars, kind, requested, channel>>

DrainJoin(k) ==
  /\ \/ at \in DOMAIN Draining /\ k \in Live(Draining[at])
     \/ at = "abort" /\ k \in Live("tcp") \cup Live("udp")
  /\ task[k] \in Results
  /\ joined' = joined \cup {k}
  /\ record_mixed_relay(k)
  /\ UNCHANGED <<at, hand, shutdown, taskVars, routeVars, kind, requested, channel>>

\* Slip: the drain waits for the last relay, without its grace timeout.
DrainEnds_without_grace ==
  /\ at \in DOMAIN Draining
  /\ Live(Draining[at]) = {}
  /\ at' = AfterDrain[at]
  /\ UNCHANGED <<hand, joined, report, shutdown, taskVars, routeVars, kind, requested, channel>>

(* The JoinSet is empty, or MIXED_SHUTDOWN_RELAY_DRAIN_GRACE passed        *)
(* without a relay that ends.                                              *)
DrainEnds ==
  /\ at \in DOMAIN Draining
  /\ at' = AfterDrain[at]
  /\ UNCHANGED <<hand, joined, report, shutdown, taskVars, routeVars, kind, requested, channel>>

\* Slip: the aborted tasks are not joined.
Return_unjoined ==
  /\ at = "abort"
  /\ at' = "returned"
  /\ pending' = <<>>
  /\ udp_routes' = <<>>
  /\ UNCHANGED <<hand, joined, report, shutdown, taskVars, kind, requested, channel>>

Return ==
  /\ at = "abort"
  /\ Live("tcp") \cup Live("udp") = {}
  /\ at' = "returned"
  /\ pending' = <<>>
  /\ udp_routes' = <<>>
  /\ UNCHANGED <<hand, joined, report, shutdown, taskVars, kind, requested, channel>>

Terminated ==
  /\ at \in {"returned", "failed"}
  /\ \A k \in Clients : task[k] \notin Running
  /\ UNCHANGED vars

-----------------------------------------------------------------------------
Handshake(k) == SpawnTcp(k) \/ SpawnUdp(k) \/ HandshakeFails(k)

Loop ==
  \/ ShutdownArm \/ SendOk \/ SendErr \/ DrainEnds \/ Return
  \/ \E k \in Clients : JoinTcp(k) \/ JoinUdp(k) \/ JoinPanicked(k) \/ DrainJoin(k)

Task(k) == GetConnection(k) \/ IncomingRecv(k) \/ SendersGone(k) \/ Cancelled(k)

Environment ==
  \/ RequestShutdown \/ SocketFails
  \/ \E p \in Peers : RecvUnrouted(p) \/ RecvRouted(p)
  \/ \E k \in Clients :
       \/ AcceptArm(k) \/ Handshake(k)
       \/ TcpRelayEnds(k) \/ AssociationFails(k) \/ SendDatagram(k)
       \/ Response(k) \/ ControlCloses(k)

Next ==
  \/ Loop
  \/ Environment
  \/ \E k \in Clients : Task(k)
  \/ Terminated

(* The runtime polls the loop and the tasks; nothing is assumed of the     *)
(* local clients, of the server or of the targets.                         *)
Fairness == WF_vars(Loop) /\ \A k \in Clients : WF_vars(Task(k))

Spec == Init /\ [][Next]_vars /\ Fairness

-----------------------------------------------------------------------------
(* route_mixed_socks5_udp_datagram isolates the sources: everything an     *)
(* association was ever sent, and the route to it, is of one peer, one     *)
(* that its ASSOCIATE request named.  An association waiting for its first *)
(* datagram has been sent none and is queued once, so sending to it can    *)
(* never block the loop.                                                   *)
OnePeerPerAssociation ==
  /\ \A k \in Clients :
       LET sources == ToSet(channel[k]) \cup ({first[k]} \ {NONE})
                        \cup {p \in DOMAIN udp_routes : udp_routes[p] = k}
       IN  sources \subseteq requested[k] /\ Cardinality(sources) <= 1
  /\ IsInjective(pending)
  /\ \A k \in ToSet(pending) :
       channel[k] = <<>> /\ first[k] = NONE /\ k \notin Range(udp_routes)

(* The report of run_loop_until accounts for every connection: each result *)
(* that was joined is counted once, under its kind, in the loop and in     *)
(* both halves of the drain, and rejected handshakes as failed TCP relays. *)
(* When it is returned, every relay and association that was spawned has   *)
(* ended and was joined: none goes on without the listener.                *)
ReportAccounts ==
  LET Ended(kd, r) == Cardinality({k \in joined : kind[k] = kd /\ task[k] = r})
  IN  /\ report["accepted"] = Cardinality({k \in Clients : task[k] # "new"})
      /\ report["completed_tcp"] = Ended("tcp", "completed")
      /\ report["failed_tcp"] = Ended("tcp", "failed")
                                  + Cardinality({k \in Clients : task[k] = "rejected"})
      /\ report["completed_udp"] = Ended("udp", "completed")
      /\ report["failed_udp"] = Ended("udp", "failed")
      /\ at = "returned" =>
           \A k \in Clients : task[k] \notin Running /\ (kind[k] # "none" => k \in joined)

(* Once the shutdown arm runs, the loop returns, whatever the relays, the  *)
(* server and the local clients do: the grace timeouts and the aborts see  *)
(* to it.                                                                  *)
DrainReturns == at = "drain_tcp" ~> at = "returned"

(* "Runs a mixed SOCKS5/HTTP accept loop until the shutdown future         *)
(* resolves.": when it has resolved, the loop returns.                     *)
ShutdownReturns == shutdown ~> at \in {"returned", "failed"}

(* "socks5_udp_routes_are_sticky_and_isolated_by_source_peer": while the   *)
(* loop runs, a live association that was given a peer keeps its route.    *)
RoutesAreSticky ==
  at \in {"select", "handshake", "send"} =>
    \A k \in Clients :
      task[k] \in Running /\ (first[k] # NONE \/ channel[k] # <<>>)
        => k \in Range(udp_routes)

=============================================================================
