---------------------------- MODULE ProxyServer ----------------------------
(***************************************************************************)
(* The production server loop, run_proxy_loop_until_with_hooks, with the   *)
(* tasks it owns: the task that accepts from the QUIC endpoint, one        *)
(* authentication task per admitted handshake, one connection task         *)
(* (run_authenticated_proxy_connection_until) per authenticated            *)
(* connection, and the relay tasks of each connection.  Everything runs    *)
(* concurrently; the loop and each connection task take one select! arm    *)
(* per step.                                                               *)
(***************************************************************************)
EXTENDS PreAuthAdmission, FiniteSetsExt

CONSTANTS
  Conns,     \* QUIC connections that may arrive
  Streams,   \* proxy streams that clients may open
  ip_of,     \* the address each connection comes from
  NONE       \* no connection

ASSUME ServerAssumption ==
  /\ IsFiniteSet(Conns)
  /\ ip_of \in [Conns -> Ips]
  /\ NONE \notin Conns

VARIABLES
  loop,               \* where the server loop is
  accepting,          \* the loop's flag of that name
  shutdown,           \* the shutdown future has resolved
  shutdown_sent,      \* shutdown_tx has sent true
  endpoint_open,      \* the QUIC endpoint still accepts
  accept_task,        \* state of the accept task's JoinHandle
  conn,               \* life of each connection
  closed,             \* connections the peer or the network has closed
  stream,             \* life of each proxy stream: owner and state
  report,             \* ServerProxyLoopReport of the loop
  connection_report,  \* ServerProxyLoopReport of each connection task
  metrics             \* ServerMetrics

loopVars == <<loop, accepting, shutdown_sent, accept_task>>
envVars  == <<shutdown, endpoint_open, closed>>
tallies  == <<report, connection_report, metrics>>
vars     == <<total, per_ip, loopVars, envVars, tallies, conn, stream>>

(***************************************************************************)
(* A connection's life.  An authentication task owns it, and its permit,   *)
(* while it is authenticating and while the finished task waits to be      *)
(* joined; a connection task owns it, and its metrics guard, from serving  *)
(* to the end of its drain.                                                *)
(***************************************************************************)
AuthDone   == {"auth_ok", "auth_rejected", "auth_closed"}
PermitHeld == {"authenticating"} \cup AuthDone
InAuthTask == PermitHeld \cup {"auth_panicked"}
TaskLive   == {"serving", "draining", "aborting"}
TaskDone   == {"finished", "panicked"}
Over       == {"refused", "rejected", "ignored", "dropped", "joined"}
ConnStates == {"idle", "incoming", "handed"} \cup InAuthTask \cup TaskLive
              \cup TaskDone \cup Over

RelayResults == {"tcp", "udp", "failed", "closed", "panicked"}
NoRelay      == {"unused", "header", "lost", "over"}
StreamStates == NoRelay \cup {"relaying", "cancelled"} \cup RelayResults

Counters == [tcp : Nat, udp : Nat, failed : Nat]
NoCounts == [tcp |-> 0, udp |-> 0, failed |-> 0]

(* The connections whose permit, or whose metrics guard, is still alive.   *)
Permits == {c \in Conns : conn[c] \in PermitHeld}
Guarded == {c \in Conns : conn[c] \in TaskLive}

AuthTasks  == {c \in Conns : conn[c] \in InAuthTask}
ConnTasks  == {c \in Conns : conn[c] \in TaskLive \cup TaskDone}
Headers(c) == {s \in Streams : stream[s].owner = c /\ stream[s].state = "header"}
Relays(c)  == {s \in Streams : stream[s].owner = c /\
                               stream[s].state \notin NoRelay}

(* The streams after those in S moved to a state.                          *)
Move(S, state) == [s \in Streams |-> IF s \in S
                                     THEN [stream[s] EXCEPT !.state = state]
                                     ELSE stream[s]]

Init ==
  /\ admission_init
  /\ loop = "select"
  /\ accepting = TRUE
  /\ shutdown = FALSE
  /\ shutdown_sent = FALSE
  /\ endpoint_open = TRUE
  /\ accept_task = "waiting"
  /\ conn = [c \in Conns |-> "idle"]
  /\ closed = {}
  /\ stream = [s \in Streams |-> [owner |-> NONE, state |-> "unused"]]
  /\ report = [accepted |-> 0, rejected |-> 0, counts |-> NoCounts]
  /\ connection_report = [c \in Conns |-> NoCounts]
  /\ metrics = [accepted |-> 0, rejected |-> 0, active |-> 0, counts |-> NoCounts]

-----------------------------------------------------------------------------
(* ServerMetrics and the two reports.                                      *)

Inc(counts, result) == [counts EXCEPT ![result] = @ + 1]

\* Slip: the failed relays of a finished connection are not added.
merge_without_failed(a, b) ==
  [k \in DOMAIN a |-> IF k = "failed" THEN a[k] ELSE a[k] + b[k]]

merge(a, b) == [k \in DOMAIN a |-> a[k] + b[k]]

connection_rejected ==
  /\ metrics' = [metrics EXCEPT !.rejected = @ + 1]
  /\ report' = [report EXCEPT !.rejected = @ + 1]

connection_accepted ==
  /\ metrics' = [metrics EXCEPT !.accepted = @ + 1, !.active = @ + 1]
  /\ report' = [report EXCEPT !.accepted = @ + 1]

\* Slip: the guard's drop does nothing.
connection_closed_ignored == metrics' = metrics

(* ServerConnectionGuard::drop: checked_sub leaves 0 at 0.                 *)
connection_closed ==
  metrics' = [metrics EXCEPT !.active = saturating_dec(@)]

(* tcp_relay_completed, udp_relay_completed, proxy_stream_failed.          *)
relay_completed(result) == metrics' = [metrics EXCEPT !.counts = Inc(@, result)]

(* record_proxy_connection_result: what a joined relay adds to both        *)
(* counters; a relay lost with its connection adds nothing.                *)
record_proxy_connection_result(c, result) ==
  IF result \in {"tcp", "udp", "failed"}
  THEN /\ connection_report' = [connection_report EXCEPT ![c] = Inc(@, result)]
       /\ relay_completed(result)
  ELSE UNCHANGED <<connection_report, metrics>>

-----------------------------------------------------------------------------
(* The environment: clients, the endpoint and the operator.                *)

Arrive(c) ==
  /\ endpoint_open
  /\ conn[c] = "idle"
  /\ conn' = [conn EXCEPT ![c] = "incoming"]
  /\ UNCHANGED <<admissionVars, loopVars, envVars, tallies, stream>>

EndpointCloses ==
  /\ endpoint_open
  /\ endpoint_open' = FALSE
  /\ UNCHANGED <<admissionVars, loopVars, tallies, shutdown, conn, closed,
                 stream>>

ShutdownRequested ==
  /\ ~shutdown
  /\ shutdown' = TRUE
  /\ UNCHANGED <<admissionVars, loopVars, tallies, endpoint_open, conn,
                 closed, stream>>

PeerCloses(c) ==
  /\ conn[c] \in TaskLive
  /\ c \notin closed
  /\ closed' = closed \cup {c}
  /\ UNCHANGED <<admissionVars, loopVars, tallies, shutdown, endpoint_open,
                 conn, stream>>

-----------------------------------------------------------------------------
(* The accept task and the authentication tasks.                           *)

accept_incoming(c) ==
  /\ accept_task = "waiting"
  /\ endpoint_open
  /\ conn[c] = "incoming"
  /\ accept_task' = "incoming"
  /\ conn' = [conn EXCEPT ![c] = "handed"]
  /\ UNCHANGED <<admissionVars, envVars, tallies, loop, accepting,
                 shutdown_sent, stream>>

accept_incoming_fails ==
  /\ accept_task = "waiting"
  /\ ~endpoint_open
  /\ accept_task' = "endpoint_closed"
  /\ UNCHANGED <<admissionVars, envVars, tallies, loop, accepting,
                 shutdown_sent, conn, stream>>

(* The result, permit included, waits in the JoinSet; a panic drops the    *)
(* permit while it unwinds.                                                *)
authenticate_incoming_connection(c, result) ==
  /\ conn[c] = "authenticating"
  /\ conn' = [conn EXCEPT ![c] = result]
  /\ IF result = "auth_panicked" THEN permit_drop(ip_of[c])
                                 ELSE UNCHANGED admissionVars
  /\ UNCHANGED <<loopVars, envVars, tallies, stream>>

\* Slip: no deadline on a silent peer's handshake.
authentication_without_timeout(c) == FALSE /\ UNCHANGED vars

authentication_timeout(c) == authenticate_incoming_connection(c, "auth_rejected")

-----------------------------------------------------------------------------
(* The server loop's select! arms.                                         *)

ShutdownArm ==
  /\ loop = "select"
  /\ accepting
  /\ shutdown
  /\ accepting' = FALSE
  /\ accept_task' = "aborted"
  /\ conn' = [c \in Conns |-> IF conn[c] = "handed" THEN "dropped" ELSE conn[c]]
  /\ loop' = "drain_auth"
  /\ UNCHANGED <<admissionVars, envVars, tallies, shutdown_sent, stream>>

(* abort_and_drain_authentication_tasks joins every aborted task; the      *)
(* result of one that finished first is dropped, its permit with it.       *)
DrainAuthTask(c) ==
  /\ loop = "drain_auth"
  /\ conn[c] \in InAuthTask
  /\ conn' = [conn EXCEPT ![c] = "dropped"]
  /\ IF conn[c] \in PermitHeld THEN permit_drop(ip_of[c])
                               ELSE UNCHANGED admissionVars
  /\ UNCHANGED <<loopVars, envVars, tallies, stream>>

DrainAuthEnd ==
  /\ loop = "drain_auth"
  /\ AuthTasks = {}
  /\ shutdown_sent' = TRUE
  /\ loop' = "select"
  /\ UNCHANGED <<admissionVars, envVars, tallies, accepting, accept_task,
                 conn, stream>>

JoinAuthOk(c) ==
  /\ conn[c] = "auth_ok"
  /\ conn' = [conn EXCEPT ![c] = "serving"]
  /\ connection_accepted
  /\ permit_drop(ip_of[c])
  /\ UNCHANGED loop

JoinAuthRejected(c) ==
  /\ conn[c] = "auth_rejected"
  /\ conn' = [conn EXCEPT ![c] = "rejected"]
  /\ connection_rejected
  /\ permit_drop(ip_of[c])
  /\ UNCHANGED loop

JoinAuthClosed(c) ==
  /\ conn[c] = "auth_closed"
  /\ conn' = [conn EXCEPT ![c] = "ignored"]
  /\ permit_drop(ip_of[c])
  /\ UNCHANGED <<loop, report, metrics>>

JoinAuthPanicked(c) ==
  /\ conn[c] = "auth_panicked"
  /\ conn' = [conn EXCEPT ![c] = "dropped"]
  /\ loop' = "returned_err"
  /\ UNCHANGED <<admissionVars, report, metrics>>

JoinAuthTask(c) ==
  /\ loop = "select"
  /\ accepting
  /\ \/ JoinAuthOk(c)
     \/ JoinAuthRejected(c)
     \/ JoinAuthClosed(c)
     \/ JoinAuthPanicked(c)
  /\ UNCHANGED <<envVars, accepting, shutdown_sent, accept_task, stream,
                 connection_report>>

\* Slip: the permit is not moved into the authentication task.
AcceptArmAdmits_drops_permit(c) ==
  /\ conn[c] = "handed"
  /\ ~saturated(ip_of[c])
  /\ conn' = [conn EXCEPT ![c] = "authenticating"]
  /\ UNCHANGED <<admissionVars, report, metrics>>

AcceptArmAdmits(c) ==
  /\ conn[c] = "handed"
  /\ try_admit_ok(ip_of[c])
  /\ conn' = [conn EXCEPT ![c] = "authenticating"]
  /\ UNCHANGED <<report, metrics>>

AcceptArmRefuses(c) ==
  /\ conn[c] = "handed"
  /\ try_admit_err(ip_of[c])
  /\ conn' = [conn EXCEPT ![c] = "refused"]
  /\ connection_rejected

AcceptArm(c) ==
  /\ loop = "select"
  /\ accepting
  /\ has_global_capacity
  /\ accept_task = "incoming"
  /\ AcceptArmAdmits(c) \/ AcceptArmRefuses(c)
  /\ accept_task' = "waiting"
  /\ UNCHANGED <<envVars, loop, accepting, shutdown_sent, stream,
                 connection_report>>

AcceptArmFatal ==
  /\ loop = "select"
  /\ accepting
  /\ has_global_capacity
  /\ accept_task = "endpoint_closed"
  /\ loop' = "returned_err"
  /\ UNCHANGED <<admissionVars, envVars, tallies, accepting, shutdown_sent,
                 accept_task, conn, stream>>

JoinConnTask(c) ==
  /\ loop = "select"
  /\ \/ /\ conn[c] = "finished"
        /\ conn' = [conn EXCEPT ![c] = "joined"]
        /\ report' = [report EXCEPT !.counts = merge(@, connection_report[c])]
        /\ UNCHANGED loop
     \/ /\ conn[c] = "panicked"
        /\ conn' = [conn EXCEPT ![c] = "dropped"]
        /\ loop' = "returned_err"
        /\ UNCHANGED report
  /\ UNCHANGED <<admissionVars, envVars, accepting, shutdown_sent,
                 accept_task, stream, connection_report, metrics>>

\* Slip: return as soon as accepting has stopped.
ElseArm_without_join ==
  /\ loop = "select"
  /\ ~accepting
  /\ loop' = "returned_ok"
  /\ UNCHANGED <<admissionVars, envVars, tallies, accepting, shutdown_sent,
                 accept_task, conn, stream>>

ElseArm ==
  /\ loop = "select"
  /\ ~accepting
  /\ ConnTasks = {}
  /\ loop' = "returned_ok"
  /\ UNCHANGED <<admissionVars, envVars, tallies, accepting, shutdown_sent,
                 accept_task, conn, stream>>

(* A loop that returned an error has dropped its JoinSets: each task is    *)
(* cancelled, dropping its permit or its metrics guard.                    *)
TaskDropped(c) ==
  /\ loop = "returned_err"
  /\ c \in AuthTasks \cup ConnTasks
  /\ conn' = [conn EXCEPT ![c] = "dropped"]
  /\ IF c \in Permits THEN permit_drop(ip_of[c]) ELSE UNCHANGED admissionVars
  /\ IF c \in Guarded THEN connection_closed ELSE UNCHANGED metrics
  /\ stream' = Move(Relays(c) \cup Headers(c), "over")
  /\ UNCHANGED <<loopVars, envVars, report, connection_report>>

-----------------------------------------------------------------------------
(* A connection task's select! arms, then its drain of the relays.  An arm *)
(* that completes drops the other arms' futures; accept_proxy_stream's     *)
(* future holds the stream it has accepted while it reads its header.      *)

SeeShutdown(c) ==
  /\ conn[c] = "serving"
  /\ shutdown_sent
  /\ conn' = [conn EXCEPT ![c] = "draining"]
  /\ stream' = Move(Headers(c), "over")
  /\ UNCHANGED <<admissionVars, loopVars, envVars, tallies>>

SeeClosed(c) ==
  /\ conn[c] = "serving"
  /\ c \in closed
  /\ conn' = [conn EXCEPT ![c] = "draining"]
  /\ stream' = Move(Headers(c), "over")
  /\ UNCHANGED <<admissionVars, loopVars, envVars, tallies>>

AcceptBi(c, s) ==
  /\ conn[c] = "serving"
  /\ c \notin closed
  /\ Headers(c) = {}
  /\ stream[s].state = "unused"
  /\ stream' = [stream EXCEPT ![s] = [owner |-> c, state |-> "header"]]
  /\ UNCHANGED <<admissionVars, loopVars, envVars, tallies, conn>>

(* A relay is spawned, the stream closed before its header, or its header  *)
(* was bad.                                                                *)
ReadHeader(c, s, outcome) ==
  /\ conn[c] = "serving"
  /\ c \notin closed
  /\ s \in Headers(c)
  /\ stream' = Move({s}, IF outcome = "relay" THEN "relaying" ELSE "over")
  /\ record_proxy_connection_result(c, outcome)
  /\ UNCHANGED <<admissionVars, loopVars, envVars, report, conn>>

(* join_next of a relay.  While serving or draining, a panicked relay ends *)
(* the connection task with an error, which drops the other relays; once   *)
(* aborting, join errors are skipped.                                      *)
JoinRelay(c, s) ==
  LET result == stream[s].state
      fatal  == result = "panicked" /\ conn[c] # "aborting"
  IN  /\ conn[c] \in TaskLive
      /\ s \in Relays(c)
      /\ result # "relaying"
      /\ IF fatal
         THEN /\ conn' = [conn EXCEPT ![c] = "panicked"]
              /\ stream' = Move(Relays(c) \cup Headers(c), "over")
              /\ connection_closed
              /\ UNCHANGED connection_report
         ELSE /\ stream' = [Move(Headers(c), "lost") EXCEPT ![s].state = "over"]
              /\ record_proxy_connection_result(c, result)
              /\ UNCHANGED conn
      /\ UNCHANGED <<admissionVars, loopVars, envVars, report>>

\* Slip: the drain waits for the relays without a deadline.
DrainWithoutTimeout(c) == FALSE /\ UNCHANGED vars

DrainTimeout(c) ==
  /\ conn[c] = "draining"
  /\ Relays(c) # {}
  /\ conn' = [conn EXCEPT ![c] = "aborting"]
  /\ UNCHANGED <<admissionVars, loopVars, envVars, tallies, stream>>

\* Slip: abort the relays but do not join them.
ConnTaskEnds_without_join(c) ==
  /\ conn[c] \in {"draining", "aborting"}
  /\ Relays(c) = {} \/ conn[c] = "aborting"
  /\ conn' = [conn EXCEPT ![c] = "finished"]
  /\ connection_closed
  /\ UNCHANGED <<admissionVars, loopVars, envVars, report, connection_report,
                 stream>>

ConnTaskEnds(c) ==
  /\ conn[c] \in {"draining", "aborting"}
  /\ Relays(c) = {}
  /\ conn' = [conn EXCEPT ![c] = "finished"]
  /\ connection_closed
  /\ UNCHANGED <<admissionVars, loopVars, envVars, report, connection_report,
                 stream>>

-----------------------------------------------------------------------------
(* The relay tasks.                                                        *)

RelayFinishes(s, result) ==
  /\ stream[s].state = "relaying"
  /\ stream' = [stream EXCEPT ![s].state = result]
  /\ UNCHANGED <<admissionVars, loopVars, envVars, tallies, conn>>

RelayCancelled(s) ==
  /\ stream[s].state = "relaying"
  /\ conn[stream[s].owner] = "aborting"
  /\ stream' = [stream EXCEPT ![s].state = "cancelled"]
  /\ UNCHANGED <<admissionVars, loopVars, envVars, tallies, conn>>

-----------------------------------------------------------------------------
Returned == loop \in {"returned_ok", "returned_err"}

(* The program has ended: the only state in which nothing more need happen. *)
Terminated ==
  /\ Returned
  /\ shutdown
  /\ AuthTasks \cup ConnTasks = {}
  /\ UNCHANGED vars

Environment ==
  \/ \E c \in Conns : Arrive(c) \/ PeerCloses(c)
  \/ EndpointCloses
  \/ ShutdownRequested
  \/ \E s \in Streams, r \in RelayResults : RelayFinishes(s, r)
  \/ \E c \in Conns, r \in AuthDone \cup {"auth_panicked"} :
       authenticate_incoming_connection(c, r)
  \/ \E c \in Conns, s \in Streams : AcceptBi(c, s)
  \/ \E c \in Conns, s \in Streams, o \in {"relay", "before_header", "failed"} :
       ReadHeader(c, s, o)

Loop ==
  \/ ShutdownArm \/ DrainAuthEnd \/ AcceptArmFatal \/ ElseArm
  \/ accept_incoming_fails
  \/ \E c \in Conns : \/ accept_incoming(c) \/ DrainAuthTask(c)
                      \/ JoinAuthTask(c) \/ AcceptArm(c) \/ JoinConnTask(c)
                      \/ TaskDropped(c)

ConnTask(c) ==
  \/ SeeShutdown(c) \/ SeeClosed(c) \/ DrainTimeout(c) \/ ConnTaskEnds(c)
  \/ \E s \in Streams : JoinRelay(c, s)

Next ==
  \/ Environment
  \/ Loop
  \/ \E c \in Conns : ConnTask(c) \/ authentication_timeout(c)
  \/ \E s \in Streams : RelayCancelled(s)
  \/ Terminated

(* The runtime polls every ready task and fires every timer; clients,      *)
(* targets and the operator owe nothing.  Every step below is taken at     *)
(* most once for a connection or a stream, so that fairness of a group of  *)
(* them is fairness of each.                                               *)
Fairness ==
  /\ WF_vars(ShutdownArm \/ DrainAuthEnd \/ AcceptArmFatal \/ ElseArm)
  /\ \A c \in Conns :
       WF_vars(\/ DrainAuthTask(c) \/ JoinAuthTask(c) \/ AcceptArm(c) \/ JoinConnTask(c)
               \/ TaskDropped(c) \/ ConnTask(c) \/ authentication_timeout(c))
  /\ WF_vars(\E s \in Streams : RelayCancelled(s))

Spec == Init /\ [][Next]_vars /\ Fairness

-----------------------------------------------------------------------------
StateType ==
  /\ loop \in {"select", "drain_auth", "returned_ok", "returned_err"}
  /\ accept_task \in {"waiting", "incoming", "endpoint_closed", "aborted"}
  /\ accepting \in BOOLEAN /\ shutdown \in BOOLEAN
  /\ shutdown_sent \in BOOLEAN /\ endpoint_open \in BOOLEAN
  /\ conn \in [Conns -> ConnStates]
  /\ closed \subseteq Conns
  /\ stream \in [Streams -> [owner : Conns \cup {NONE}, state : StreamStates]]
  /\ report \in [accepted : Nat, rejected : Nat, counts : Counters]
  /\ connection_report \in [Conns -> Counters]
  /\ metrics \in [accepted : Nat, rejected : Nat, active : Nat, counts : Counters]

(* Every variable has its type; the admission counts stay within their     *)
(* limits, and no address is kept in the map with a count of zero.         *)
TypeOK == AdmissionType /\ StateType

(* The admission state counts exactly the permits that are alive: in all,  *)
(* and per address, whichever way each handshake ended (joined, timed out, *)
(* panicked, aborted by shutdown, or dropped with a failed loop).          *)
AdmissionExact ==
  /\ total = Cardinality(Permits)
  /\ \A ip \in Ips : count(ip) = Cardinality({c \in Permits : ip_of[c] = ip})

(* "Half of the global budget remains available to other addresses": the   *)
(* loop refuses a connection only when its own address has half of the     *)
(* budget in use, never because other addresses have used it up.           *)
RefusedOnlyAtOwnLimit ==
  [][\A c \in Conns :
       conn'[c] = "refused" /\ conn[c] # "refused" =>
         Cardinality({d \in Permits : ip_of[d] = ip_of[c]}) >=
           MAX_PENDING_AUTHENTICATIONS_PER_IP]_vars

(* active_connections is the number of connections owned by a running      *)
(* connection task, and the loop's report and the metrics agree on how     *)
(* many connections were accepted and rejected.                            *)
ConnectionMetricsExact ==
  /\ metrics.active = Cardinality(Guarded)
  /\ metrics.accepted = report.accepted
  /\ metrics.rejected = report.rejected

(* What the server counts of connections is exact at every moment: its     *)
(* permits against the budget, and its connections against the metrics.    *)
CountsExact == AdmissionExact /\ ConnectionMetricsExact

(* No relay outcome is counted twice or lost between the shared metrics,   *)
(* the per-connection reports and the loop's report they are merged into.  *)
RelayCountsAgree ==
  loop # "returned_err" =>
    \A k \in DOMAIN NoCounts :
      metrics.counts[k] = report.counts[k]
        + MapThenSumSet(LAMBDA c : connection_report[c][k], ConnTasks)

(* Relays are owned: while a relay runs or waits to be joined, the task of *)
(* its connection is alive.  However that task ends (shutdown, close or a  *)
(* panic), its relays have been joined, or cancelled with its JoinSet.     *)
RelaysEndWithTask ==
  \A c \in Conns : conn[c] \notin TaskLive => Relays(c) = {}

(* When the loop returns its report nothing is left behind it: no task, no *)
(* permit, no active connection, and no relay.                             *)
NothingLeftAtReturn ==
  loop = "returned_ok" =>
    /\ AuthTasks \cup ConnTasks = {}
    /\ total = 0
    /\ metrics.active = 0
    /\ \A c \in Conns : Relays(c) = {}

(* No relay outlives the task of its connection, and nothing outlives the  *)
(* loop, whichever way each of them ends.                                  *)
NoRelayOutlives == RelaysEndWithTask /\ NothingLeftAtReturn

(* "Accepts and relays every proxy stream a single authenticated           *)
(* connection opens until it closes" (written at the UDP-only loop, which  *)
(* has the same two arms): the completion of one relay never drops another *)
(* stream, accepted and waiting for its header, unserved and uncounted.    *)
EveryStreamServed == \A s \in Streams : stream[s].state # "lost"

(* A requested shutdown makes the loop return, however its peers, their    *)
(* handshakes and their relays behave.                                     *)
ShutdownCompletes == shutdown ~> Returned

(* "the connection task can never hang on a stuck relay": the task of a    *)
(* closed connection ends, so that again and again there is none left.     *)
ClosedConnectionEnds ==
  []<>(\A c \in Conns : c \in closed => conn[c] \notin TaskLive)

(* What winds down does so in the end: the loop that was told to stop, and *)
(* the task of every connection that has closed.                           *)
ConnectionsWindDown == ShutdownCompletes /\ ClosedConnectionEnds

(* Silent peers cannot hold up the accept path: a connection taken from    *)
(* the endpoint is admitted, refused or dropped, unless the loop returned. *)
IncomingDecided ==
  \A c \in Conns : conn[c] = "handed" ~> (conn[c] # "handed" \/ Returned)

=============================================================================
