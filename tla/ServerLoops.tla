----------------------------- MODULE ServerLoops -----------------------------
(***************************************************************************)
(* The server's single-purpose accept loops, kept for hosts that embed     *)
(* only one kind of relay: the TCP loop relays one stream of each          *)
(* connection, the UDP loop every stream of it.  Both share the admission  *)
(* control of the main loop.  Unlike it they give their relays no shutdown *)
(* signal, and the error of one connection ends the whole loop.  A host    *)
(* may also serve one stream of one connection, with no admission control. *)
(***************************************************************************)
EXTENDS PreAuthAdmission

CONSTANTS
  Conns,     \* client connections, all from one address
  MaxOpened  \* bound: proxy streams a connection opens in the UDP loop

Streams == 1..MaxOpened   \* opened, and accepted, in this order

VARIABLES
  serve,     \* kind of the loop, where it is, and its report
  stopped,   \* the shutdown future has resolved
  conn,      \* each connection and the task that has it
  proxy,    \* each proxy stream of each connection
  gauge      \* ServerMetrics

loops_vars == <<serve, stopped, conn, proxy, gauge, total, per_ip>>

LoopsInit(kinds) ==
  /\ serve \in [kind : kinds, at : {"running"}, accepted : {0}, completed : {0}]
  /\ stopped = FALSE
  /\ conn = [c \in Conns |-> [at |-> "new", gone |-> FALSE, relays |-> 0]]
  /\ proxy = [c \in Conns |-> [s \in Streams |-> "new"]]
  /\ gauge = [accepted |-> 0, active |-> 0, rejected |-> 0, completed |-> 0]
  /\ admission_init

Address == CHOOSE ip \in Ips : TRUE
Is(c, states) == conn[c].at \in states
Moves(c, state) == conn' = [conn EXCEPT ![c].at = state]

(* What happens outside the loop.                                          *)
outside ==
  /\ \/ /\ ~stopped /\ stopped' = TRUE /\ UNCHANGED <<conn, proxy>>
     \/ \E c \in Conns :
          /\ \/ Is(c, {"new"}) /\ Moves(c, "incoming")
             \/ /\ ~conn[c].gone /\ Is(c, {"authenticating", "open"})
                /\ conn' = [conn EXCEPT ![c].gone = TRUE]
          /\ UNCHANGED <<stopped, proxy>>
     \/ \E c \in Conns, s \in Streams :
          /\ serve.kind = "udp" /\ ~conn[c].gone /\ Is(c, {"open"}) /\ proxy[c][s] = "new"
          /\ \A r \in 1..(s - 1) : proxy[c][r] # "new"
          /\ proxy' = [proxy EXCEPT ![c][s] = "opened"]
          /\ UNCHANGED <<stopped, conn>>
  /\ UNCHANGED <<serve, gauge, total, per_ip>>

(* The select is biased: once shutdown has resolved no arm comes before it. *)
Accepting == serve.kind # "one" /\ serve.at = "running" /\ ~stopped
Fails == serve' = [serve EXCEPT !.at = "failed"]

accept_incoming(c) ==
  /\ Accepting /\ has_global_capacity /\ Is(c, {"incoming"})
  /\ \/ try_admit_ok(Address) /\ Moves(c, "authenticating") /\ UNCHANGED gauge
     \/ /\ try_admit_err(Address) /\ Moves(c, "over")
        /\ gauge' = [gauge EXCEPT !.rejected = @ + 1]
  /\ UNCHANGED <<serve, stopped, proxy>>

(* The endpoint is closed by its host.                                     *)
accept_fails ==
  /\ Accepting /\ has_global_capacity /\ Fails
  /\ UNCHANGED <<stopped, conn, proxy, gauge, total, per_ip>>

(* The task keeps its permit in its result.                                *)
authenticate_incoming_connection(c) ==
  /\ Is(c, {"authenticating"})
  /\ \/ ~conn[c].gone /\ \E result \in {"proven", "denied"} : Moves(c, result)
     \/ conn[c].gone /\ Moves(c, "vanished")
  /\ UNCHANGED <<serve, stopped, proxy, gauge, total, per_ip>>

connection_accepted == gauge' = [gauge EXCEPT !.accepted = @ + 1, !.active = @ + 1]
connection_rejected == gauge' = [gauge EXCEPT !.rejected = @ + 1]

join_authentication(c) ==
  /\ Accepting /\ Is(c, {"proven", "denied", "vanished"})
  /\ \/ /\ Is(c, {"proven"}) /\ Moves(c, "open") /\ connection_accepted
        /\ serve' = [serve EXCEPT !.accepted = @ + 1]
     \/ Is(c, {"denied"}) /\ Moves(c, "over") /\ connection_rejected /\ UNCHANGED serve
     \/ Is(c, {"vanished"}) /\ Moves(c, "over") /\ UNCHANGED <<gauge, serve>>
  /\ permit_drop(Address)
  /\ UNCHANGED <<stopped, proxy>>

(* The shutdown arm aborts the accept task and drains the authentications. *)
shutdown_arm ==
  /\ serve.kind # "one" /\ serve.at = "running" /\ stopped
  /\ serve' = [serve EXCEPT !.at = "stopping"]
  /\ UNCHANGED <<stopped, conn, proxy, gauge, total, per_ip>>

Authentications == {c \in Conns : Is(c, {"authenticating", "proven", "denied", "vanished"})}

abort_and_drain_authentication_tasks ==
  /\ serve.at = "stopping"
  /\ \/ \E c \in Authentications : permit_drop(Address) /\ Moves(c, "over") /\ UNCHANGED serve
     \/ /\ Authentications = {}
        /\ serve' = [serve EXCEPT !.at = "draining"] /\ UNCHANGED <<conn, total, per_ip>>
  /\ UNCHANGED <<stopped, proxy, gauge>>

-----------------------------------------------------------------------------
\* Slip: the guard is forgotten when the task ends.
guard_leaked(g) == g

(* ServerConnectionGuard is dropped with the task that holds it.           *)
guard_dropped(g) == [g EXCEPT !.active = IF @ = 0 THEN 0 ELSE @ - 1]

(* The task of the TCP loop: one stream, then the connection is dropped.   *)
accept_tcp_proxy_once_with_egress(c) ==
  /\ serve.kind = "tcp" /\ Is(c, {"open"})
  /\ \/ /\ conn' = [conn EXCEPT ![c].at = "done", ![c].relays = 1]
        /\ gauge' = guard_dropped([gauge EXCEPT !.completed = @ + 1])
     \/ /\ Moves(c, IF conn[c].gone THEN "closed" ELSE "failed")
        /\ gauge' = guard_dropped(gauge)
  /\ UNCHANGED <<serve, stopped, proxy, total, per_ip>>

(* The task of the UDP loop takes a stream, then reads its header; a bad   *)
(* header is an error of the connection and drops its relays.              *)
accept_proxy_stream(c) ==
  /\ serve.kind = "udp" /\ Is(c, {"open"})
  /\ \E s \in Streams :
       \/ /\ proxy[c][s] = "opened"
          /\ \A r \in Streams : proxy[c][r] # "reading" /\ (r < s => proxy[c][r] # "opened")
          /\ proxy' = [proxy EXCEPT ![c][s] = "reading"] /\ UNCHANGED <<conn, gauge>>
       \/ /\ proxy[c][s] = "reading"
          /\ proxy' = [proxy EXCEPT ![c][s] = "relaying"] /\ UNCHANGED <<conn, gauge>>
       \/ /\ proxy[c][s] = "reading" /\ ~conn[c].gone
          /\ Moves(c, "failed") /\ gauge' = guard_dropped(gauge)
          /\ proxy' = [proxy EXCEPT ![c] = [r \in Streams |-> "over"]]
  /\ UNCHANGED <<serve, stopped, total, per_ip>>

relay_with_idle_timeout_and_egress(c, s) ==
  /\ proxy[c][s] = "relaying"
  /\ \E result \in {"udp", "other"} : proxy' = [proxy EXCEPT ![c][s] = result]
  /\ UNCHANGED <<serve, stopped, conn, gauge, total, per_ip>>

(* The arm of join_next drops a header that is being read.                 *)
accumulate_udp_relay(c, s) ==
  /\ Is(c, {"open", "leaving"}) /\ proxy[c][s] \in {"udp", "other"}
  /\ proxy' = [proxy EXCEPT ![c] = [r \in Streams |->
                  IF r = s \/ proxy[c][r] = "reading" THEN "over" ELSE proxy[c][r]]]
  /\ \/ /\ proxy[c][s] = "udp"
        /\ gauge' = [gauge EXCEPT !.completed = @ + 1]
        /\ conn' = [conn EXCEPT ![c].relays = @ + 1]
     \/ proxy[c][s] = "other" /\ UNCHANGED <<gauge, conn>>
  /\ UNCHANGED <<serve, stopped, total, per_ip>>

\* Slip: the connection that closes is an error, and its report is lost.
run_udp_over_stream_connection_err(c) ==
  /\ serve.kind = "udp" /\ Is(c, {"open"}) /\ conn[c].gone
  /\ Moves(c, "closed") /\ gauge' = guard_dropped(gauge)
  /\ proxy' = [proxy EXCEPT ![c] = [r \in Streams |-> "over"]]
  /\ UNCHANGED <<serve, stopped, total, per_ip>>

(* A closed connection leaves the loop; its relays are then waited for.    *)
run_udp_over_stream_connection(c) ==
  /\ serve.kind = "udp"
  /\ \/ /\ Is(c, {"open"}) /\ conn[c].gone /\ Moves(c, "leaving") /\ UNCHANGED gauge
        /\ proxy' = [proxy EXCEPT ![c] = [r \in Streams |->
                        IF proxy[c][r] \in {"new", "opened", "reading"} THEN "over" ELSE proxy[c][r]]]
     \/ /\ Is(c, {"leaving"}) /\ \A s \in Streams : proxy[c][s] = "over"
        /\ Moves(c, "done") /\ gauge' = guard_dropped(gauge) /\ UNCHANGED proxy
  /\ UNCHANGED <<serve, stopped, total, per_ip>>

-----------------------------------------------------------------------------
(* The first connection that comes is authenticated, and nothing else is   *)
(* accepted meanwhile; its failure is the failure of the call.             *)
accept_authenticated_connection(c) ==
  /\ serve.kind = "one"
  /\ \/ /\ serve.at = "running" /\ Is(c, {"incoming"}) /\ Moves(c, "authenticating")
        /\ serve' = [serve EXCEPT !.at = "authenticating"]
     \/ /\ Is(c, {"proven"}) /\ Moves(c, "serving")
        /\ serve' = [serve EXCEPT !.accepted = 1]
     \/ Is(c, {"denied", "vanished"}) /\ Moves(c, "over") /\ Fails
  /\ UNCHANGED <<stopped, proxy, gauge, total, per_ip>>

(* The report of the one stream, or its error.                             *)
accept_one_ref(c) ==
  /\ Is(c, {"serving"}) /\ Moves(c, "over")
  /\ serve' \in {[serve EXCEPT !.at = "returned", !.completed = 1], [serve EXCEPT !.at = "failed"]}
  /\ UNCHANGED <<stopped, proxy, gauge, total, per_ip>>

-----------------------------------------------------------------------------
RelayTasks == {c \in Conns : Is(c, {"open", "leaving", "done", "closed", "failed"})}

\* Slip: relays are joined only while the loop accepts.
Joining_accepting == Accepting

Joining == Accepting \/ serve.at = "draining"

join_relay(c) ==
  /\ Joining
  /\ \/ /\ Is(c, {"done"}) /\ Moves(c, "over")
        /\ serve' = [serve EXCEPT !.completed = @ + conn[c].relays]
     \/ Is(c, {"closed"}) /\ Moves(c, "over") /\ UNCHANGED serve
     \/ Is(c, {"failed"}) /\ Moves(c, "over") /\ Fails
  /\ UNCHANGED <<stopped, proxy, gauge, total, per_ip>>

loop_returns ==
  /\ serve.at = "draining" /\ RelayTasks = {}
  /\ serve' = [serve EXCEPT !.at = "returned"]
  /\ UNCHANGED <<stopped, conn, proxy, gauge, total, per_ip>>

(* The error drops both JoinSets, which abort their tasks one by one.      *)
task_aborted(c) ==
  /\ serve.at = "failed"
  /\ \/ c \in Authentications /\ permit_drop(Address) /\ UNCHANGED gauge
     \/ /\ c \in RelayTasks /\ UNCHANGED <<total, per_ip>>
        /\ gauge' = IF Is(c, {"open", "leaving"}) THEN guard_dropped(gauge) ELSE gauge
  /\ Moves(c, "over")
  /\ proxy' = [proxy EXCEPT ![c] = [s \in Streams |-> "over"]]
  /\ UNCHANGED <<serve, stopped>>

connection_task(c) ==
  \/ authenticate_incoming_connection(c)
  \/ accept_tcp_proxy_once_with_egress(c)
  \/ accept_proxy_stream(c)
  \/ \E s \in Streams : relay_with_idle_timeout_and_egress(c, s) \/ accumulate_udp_relay(c, s)
  \/ run_udp_over_stream_connection(c)

loop_step ==
  \/ shutdown_arm \/ abort_and_drain_authentication_tasks \/ loop_returns
  \/ \E c \in Conns : accept_incoming(c) \/ join_authentication(c) \/ join_relay(c)

LoopsNext ==
  \/ outside \/ accept_fails \/ loop_step
  \/ \E c \in Conns :
       \/ connection_task(c) \/ task_aborted(c)
       \/ accept_authenticated_connection(c) \/ accept_one_ref(c)

(* The loop and the tasks of connections that have closed keep running; a  *)
(* relay on an open connection may go on for ever.                         *)
LoopsFairness ==
  /\ WF_loops_vars(loop_step)
  /\ \A c \in Conns : WF_loops_vars(conn[c].gone /\ connection_task(c))

-----------------------------------------------------------------------------
(* The host's metrics and the loop's report agree with the tasks: a guard  *)
(* for each running relay task, a permit for each authentication, and when *)
(* the loop returns nothing is left and both have counted the same.  A     *)
(* call that serves one connection returns with that one served.           *)
LoopsAccount ==
  /\ gauge.active = Cardinality({c \in Conns : Is(c, {"open", "leaving"})})
  /\ total = IF serve.kind = "one" THEN 0 ELSE Cardinality(Authentications)
  /\ serve.at = "returned" =>
       /\ gauge.active + total = 0
       /\ serve.kind # "one" => gauge.accepted = serve.accepted /\ gauge.completed = serve.completed
       /\ serve.kind = "one" => serve.accepted = 1 /\ serve.completed = 1 /\ Authentications = {}

(* After shutdown the loop returns once the clients it serves have gone.   *)
LoopReturns ==
  serve.kind # "one" /\ stopped /\ (\A c \in RelayTasks : conn[c].gone) ~> serve.at \in {"returned", "failed"}

=============================================================================
