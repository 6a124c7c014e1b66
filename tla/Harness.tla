------------------------------ MODULE Harness ------------------------------
(***************************************************************************)
(* The benchmark helpers: hosts that start an echo target, a server and a  *)
(* client side in one process (or the upstream programs as processes of    *)
(* their own), drive echoes through them, stop everything and report.  A   *)
(* helper is a script of steps; the parts it starts end, or fail, by       *)
(* themselves.  Payloads are equal or not; times are left out, and with    *)
(* them the pauses of 50 ms, which only make the checks likely to succeed. *)
(***************************************************************************)
EXTENDS Naturals, Sequences, FiniteSets

CONSTANTS
  BClients,       \* the concurrent clients of a helper
  BRequests,      \* the echoes each makes, one after the other
  READY_ATTEMPTS, \* COMPARATIVE_READY_ATTEMPTS
  WARMUP_WAVES,   \* SOAK_WARMUP_WAVES
  MaxWaves        \* bound: waves of a soak

VARIABLES
  helper,     \* the helper that runs; "none" when another host does
  pc,         \* its place in the script
  part,       \* the parts: absent, running, relayed, told, ok, err, killed
  client,     \* echoes each client has made, and the clients that failed
  relays,     \* relays each part has completed, for its report
  kept,       \* first_error, or a result kept until the parts are stopped
  attempt,    \* attempts at reaching a process
  soak,       \* waves completed, the wave of the baseline, time is up
  outcome     \* what the helper returned

harness_vars == <<helper, pc, part, client, relays, kept, attempt, soak, outcome>>

\* A loop runs until a oneshot resolves; a once serves one relay and ends.
Loops == {"server_loop", "listener_loop"}
Onces == {"server_once", "listener_once", "forwarder_once", "proxy_once"}
Echoes == {"tcp_echo", "udp_echo"}
Processes == {"server_process", "client_process"}
Parts == Loops \cup Onces \cup Echoes \cup Processes

Step(op, p) == [op |-> op, part |-> p]
Start(p) == Step("start", p)
Ready(how, p) == Step(how, p)
Signal(p) == Step("signal", p)
Join(p) == Step("join", p)
Shutdown(p) == Step("shutdown", p)
KeepShutdown(p) == Step("keep_shutdown", p)
Terminate(p) == Step("terminate", p)
Check(p) == Step("check", p)
FirstError == Step("first_error", "")
(* n clients; their time is limited or not; an error is kept or returned.  *)
Exchange(clients, requests, timed, keeps) ==
  [op |-> "exchange", clients |-> clients, requests |-> requests, timed |-> timed, keeps |-> keeps]
OneEach == Exchange(BClients, 1, TRUE, TRUE)
Many == Exchange(BClients, BRequests, TRUE, TRUE)
Once(timed) == Exchange({1}, 1, timed, FALSE)

-----------------------------------------------------------------------------
(* The helpers.                                                            *)

run_concurrent_tcp_clients ==
  <<Start("tcp_echo"), Start("server_loop"), Many, Signal("server_loop"), Shutdown("tcp_echo"), FirstError>>

\* Slip: the first error of the clients is forgotten.
churn_without_first_error ==
  <<Start("tcp_echo"), Start("udp_echo"), Start("server_loop"), OneEach, Signal("server_loop"),
    Shutdown("tcp_echo"), Shutdown("udp_echo"), Check("server_loop")>>

run_server_lifecycle_churn ==
  <<Start("tcp_echo"), Start("udp_echo"), Start("server_loop"), OneEach, Signal("server_loop"),
    Shutdown("tcp_echo"), Shutdown("udp_echo"), FirstError, Check("server_loop")>>

run_concurrent_socks5_udp_associations ==
  <<Start("udp_echo"), Start("server_loop"), Start("listener_loop"), Many,
    Signal("listener_loop"), Signal("server_loop"), Shutdown("udp_echo"), FirstError>>

run_mixed_tcp_echo ==
  <<Start("tcp_echo"), Start("server_once"), Start("listener_once"), Once(TRUE),
    Join("listener_once"), Join("server_once"), Shutdown("tcp_echo")>>

(* The upstream programs: all is stopped before any error is looked at.    *)
run_upstream_tcp_latency ==
  <<Start("server_process"), Ready("ready_server", "server_process"), Start("tcp_echo"),
    Start("client_process"), Ready("ready_tcp", "client_process"), Exchange({1}, BRequests, TRUE, TRUE),
    KeepShutdown("tcp_echo"), Terminate("client_process"), Terminate("server_process"), FirstError>>

run_upstream_udp_latency ==
  <<Start("server_process"), Ready("ready_server", "server_process"), Start("udp_echo"),
    Start("client_process"), Ready("ready_udp", "client_process"), Exchange({1}, BRequests, TRUE, TRUE),
    KeepShutdown("udp_echo"), Terminate("client_process"), Terminate("server_process"), FirstError>>

run_rust_udp_latency_iteration ==
  <<Start("udp_echo"), Start("server_once"), Start("forwarder_once"), Once(TRUE), Join("forwarder_once"),
    Join("server_once"), Shutdown("udp_echo"), Check("forwarder_once"), Check("server_once")>>

run_rust_tcp_latency_iteration ==
  <<Start("tcp_echo"), Start("server_once"), Start("forwarder_once"), Once(TRUE), Join("forwarder_once"),
    Join("server_once"), Shutdown("tcp_echo"), Check("forwarder_once"), Check("server_once")>>

run_client_forward_tcp_echo ==
  <<Start("tcp_echo"), Start("server_once"), Start("forwarder_once"), Once(TRUE),
    Join("forwarder_once"), Join("server_once"), Shutdown("tcp_echo")>>

run_client_forward_udp_echo ==
  <<Start("udp_echo"), Start("server_once"), Start("forwarder_once"), Once(TRUE),
    Join("forwarder_once"), Join("server_once"), Shutdown("udp_echo")>>

(* Only the connect has a time limit.                                      *)
run_dae_connector_tcp_echo ==
  <<Start("tcp_echo"), Start("server_loop"), Once(FALSE), Signal("server_loop"), Shutdown("tcp_echo")>>

run_dae_connector_udp_echo ==
  <<Start("udp_echo"), Start("server_loop"), Once(TRUE), Signal("server_loop"), Shutdown("udp_echo")>>

(* Directly, or through a proxy, which has then seen one request.          *)
run_server_egress_tcp_echo(proxied) ==
  <<Start("tcp_echo")>> \o (IF proxied THEN <<Start("proxy_once")>> ELSE <<>>)
    \o <<Start("server_once"), Once(FALSE), Join("server_once")>>
    \o (IF proxied THEN <<Join("proxy_once")>> ELSE <<>>) \o <<Shutdown("tcp_echo")>>

run_server_egress_udp_echo(proxied) ==
  <<Start("udp_echo")>> \o (IF proxied THEN <<Start("proxy_once")>> ELSE <<>>)
    \o <<Start("server_loop"), Once(FALSE), Signal("server_loop")>>
    \o (IF proxied THEN <<Join("proxy_once")>> ELSE <<>>) \o <<Shutdown("udp_echo")>>

run_tcp_throughput_cell ==
  <<Start("tcp_echo"), Start("server_loop"), OneEach, Signal("server_loop"), Shutdown("tcp_echo"), FirstError>>

Script ==
  [concurrent_tcp |-> run_concurrent_tcp_clients, churn |-> run_server_lifecycle_churn,
   soak |-> run_server_lifecycle_churn, socks5_udp |-> run_concurrent_socks5_udp_associations,
   mixed_tcp |-> run_mixed_tcp_echo,
   upstream_tcp |-> run_upstream_tcp_latency, upstream_udp |-> run_upstream_udp_latency,
   rust_udp |-> run_rust_udp_latency_iteration, rust_tcp |-> run_rust_tcp_latency_iteration,
   forward_tcp |-> run_client_forward_tcp_echo, forward_udp |-> run_client_forward_udp_echo,
   dae_tcp |-> run_dae_connector_tcp_echo, dae_udp |-> run_dae_connector_udp_echo,
   direct_tcp |-> run_server_egress_tcp_echo(FALSE), direct_udp |-> run_server_egress_udp_echo(FALSE),
   proxied_tcp |-> run_server_egress_tcp_echo(TRUE), proxied_udp |-> run_server_egress_udp_echo(TRUE),
   cell |-> run_tcp_throughput_cell]

Helpers == DOMAIN Script
NoClients == [done |-> <<>>, failed |-> {}]

HInit(helpers) ==
  /\ helper \in helpers
  /\ pc = 1 /\ part = [p \in Parts |-> "absent"]
  /\ client = NoClients /\ relays = [p \in Parts |-> 0]
  /\ kept = FALSE /\ attempt = 0
  /\ soak = [wave |-> 0, baseline |-> 0, elapsed |-> FALSE]
  /\ outcome = "none"

-----------------------------------------------------------------------------
(* Steps of the helper.                                                    *)

Running == helper # "none" /\ outcome = "none"
At(op) == Running /\ pc <= Len(Script[helper]) /\ Script[helper][pc].op = op
ThePart == Script[helper][pc].part

\* Slip: only a message on the oneshot stops a loop, not its sender's drop.
Dropped_silently(q) ==
  [p \in Parts |-> IF q[p] = "running" /\ p \in Processes THEN "killed" ELSE q[p]]

(* What a return leaves: the senders of the oneshots are dropped, which    *)
(* resolves them, the tasks go on without their handles, and a process is  *)
(* terminated by its Drop.                                                 *)
Dropped(q) ==
  [p \in Parts |-> CASE q[p] = "running" /\ p \in Loops \cup Echoes -> "told"
                     [] q[p] = "running" /\ p \in Processes -> "killed"
                     [] OTHER -> q[p]]

Continue == pc' = pc + 1 /\ UNCHANGED outcome
Bail == outcome' = "err" /\ part' = Dropped(part) /\ UNCHANGED pc

StartPart ==
  /\ At("start")
  /\ \/ Bail
     \/ part' = [part EXCEPT ![ThePart] = "running"] /\ Continue
  /\ UNCHANGED <<helper, client, relays, kept, attempt, soak>>

(* One attempt at reaching a process, which must be running; the last one  *)
(* is final.                                                               *)
Attempt(reachable) ==
  /\ \/ /\ part[ThePart] = "running" /\ reachable
        /\ Continue /\ attempt' = 0 /\ UNCHANGED part
     \/ /\ part[ThePart] = "running" /\ attempt + 1 < READY_ATTEMPTS
        /\ attempt' = attempt + 1 /\ UNCHANGED <<pc, part, outcome>>
     \/ /\ part[ThePart] # "running" \/ attempt + 1 = READY_ATTEMPTS
        /\ Bail /\ UNCHANGED attempt
  /\ UNCHANGED <<helper, client, relays, kept, soak>>

Up == \A p \in Parts : part[p] \in {"absent", "running", "relayed"}

connect_managed_with_retry == At("ready_server") /\ Attempt(TRUE)
connect_tcp_forward_with_retry == At("ready_tcp") /\ Attempt(TRUE)
(* A whole round trip, through the server to the echo target and back.     *)
wait_for_udp_forward_ready == At("ready_udp") /\ Attempt(Up)

(* Clients come and go while every part they need is up.                   *)
TheExchange == Script[helper][pc]
Pending(c) == client.done[c] < TheExchange.requests /\ c \notin client.failed

BeginExchange ==
  /\ At("exchange") /\ client = NoClients
  /\ client' = [done |-> [c \in TheExchange.clients |-> 0], failed |-> {}]
  /\ UNCHANGED <<helper, pc, part, relays, kept, attempt, soak, outcome>>

EchoOk(c) ==
  /\ Pending(c) /\ Up
  /\ client' = [client EXCEPT !.done[c] = @ + 1]
  /\ part' = [p \in Parts |-> IF p \in Onces /\ part[p] = "running" THEN "relayed" ELSE part[p]]
  /\ UNCHANGED <<helper, pc, relays, kept, attempt, soak, outcome>>

(* An error on the way, another payload than was sent, or time is up.      *)
EchoFails(c) ==
  /\ Pending(c)
  /\ client' = [client EXCEPT !.failed = @ \cup {c}]
  /\ UNCHANGED <<helper, pc, part, relays, kept, attempt, soak, outcome>>

Exchanging == At("exchange") /\ client # NoClients
ClientSteps == Exchanging /\ \E c \in DOMAIN client.done : EchoOk(c) \/ EchoFails(c)

(* join_next until the set is empty.                                       *)
EndExchange ==
  /\ Exchanging /\ \A c \in DOMAIN client.done : ~Pending(c)
  /\ \/ client.failed = {} /\ Continue /\ UNCHANGED <<part, kept>>
     \/ client.failed # {} /\ TheExchange.keeps /\ Continue /\ kept' = TRUE /\ UNCHANGED part
     \/ client.failed # {} /\ ~TheExchange.keeps /\ Bail /\ UNCHANGED kept
  /\ UNCHANGED <<helper, client, relays, attempt, soak>>

(* The oneshot is sent; a part that has already ended does not mind.       *)
SendShutdown ==
  /\ \E op \in {"signal", "shutdown", "keep_shutdown"} : At(op)
  /\ part[ThePart] = "running"
  /\ part' = [part EXCEPT ![ThePart] = "told"]
  /\ UNCHANGED <<helper, pc, client, relays, kept, attempt, soak, outcome>>

(* The task is joined; the servers and the clients within a time limit,    *)
(* the echo targets without.                                               *)
JoinPart ==
  /\ \E op \in {"signal", "join", "shutdown", "keep_shutdown"} : At(op) /\ (op # "join" => part[ThePart] # "running")
  /\ \/ part[ThePart] = "ok" /\ Continue /\ UNCHANGED <<part, kept>>
     \/ part[ThePart] = "err" /\ ~At("keep_shutdown") /\ Bail /\ UNCHANGED kept
     \/ part[ThePart] = "err" /\ At("keep_shutdown") /\ Continue /\ kept' = TRUE /\ UNCHANGED part
     \/ part[ThePart] \notin {"ok", "err"} /\ (At("signal") \/ At("join")) /\ Bail /\ UNCHANGED kept
  /\ UNCHANGED <<helper, client, relays, attempt, soak>>

\* Slip: it does not matter that the process had to be killed.
TerminateProcess_forced_ok ==
  /\ At("terminate")
  /\ \/ /\ part[ThePart] = "running"
        /\ \E how \in {"ok", "killed"} : part' = [part EXCEPT ![ThePart] = how]
     \/ part[ThePart] = "err" /\ UNCHANGED part
  /\ Continue
  /\ UNCHANGED <<helper, client, relays, kept, attempt, soak>>

(* SIGTERM, and SIGKILL when the process has not gone in time, which is an *)
(* error; one that has gone by itself is only reaped.                      *)
TerminateProcess ==
  /\ At("terminate")
  /\ \/ /\ part[ThePart] = "running"
        /\ \E how \in {"ok", "killed"} : /\ part' = [part EXCEPT ![ThePart] = how]
                                        /\ kept' = (kept \/ how = "killed")
     \/ part[ThePart] = "err" /\ UNCHANGED <<part, kept>>
  /\ Continue
  /\ UNCHANGED <<helper, client, relays, attempt, soak>>

RaiseFirstError ==
  /\ At("first_error")
  /\ \/ kept /\ Bail
     \/ ~kept /\ Continue /\ UNCHANGED part
  /\ UNCHANGED <<helper, client, relays, kept, attempt, soak>>

Completed == Cardinality({<<c, n>> \in (DOMAIN client.done) \X (1..BRequests) : n <= client.done[c]})

(* The report of the part agrees with what the clients saw.                *)
CheckReport ==
  /\ At("check")
  /\ \/ relays[ThePart] = Completed /\ Continue /\ UNCHANGED part
     \/ relays[ThePart] # Completed /\ Bail
  /\ UNCHANGED <<helper, client, relays, kept, attempt, soak>>

AtEnd == Running /\ pc > Len(Script[helper])

ReturnOk ==
  /\ AtEnd /\ helper \notin {"soak", "rust_tcp", "rust_udp"}
  /\ outcome' = "ok"
  /\ UNCHANGED <<helper, pc, part, client, relays, kept, attempt, soak>>

(* The script is over: it is the last time, or all starts anew.            *)
Repeat(last) ==
  /\ \/ last /\ outcome' = "ok" /\ UNCHANGED <<pc, part, client, relays>>
     \/ /\ ~last /\ UNCHANGED outcome
        /\ pc' = 1 /\ part' = [p \in Parts |-> "absent"]
        /\ client' = NoClients /\ relays' = [p \in Parts |-> 0]
  /\ UNCHANGED <<helper, kept, attempt>>

(* run_rust_udp_latency and run_rust_tcp_latency.                          *)
run_rust_latency ==
  /\ AtEnd /\ helper \in {"rust_tcp", "rust_udp"}
  /\ soak' = [soak EXCEPT !.wave = @ + 1]
  /\ Repeat(soak'.wave = BRequests)

\* Slip: the soak is over when its time is, whatever it has measured.
run_relay_soak_timed ==
  /\ AtEnd /\ helper = "soak"
  /\ soak.wave + 1 < MaxWaves \/ soak.elapsed
  /\ soak' = [soak EXCEPT !.wave = @ + 1,
                          !.baseline = IF soak.wave + 1 = WARMUP_WAVES THEN soak.wave + 1 ELSE @]
  /\ Repeat(soak.elapsed)

(* A wave of the soak is over: the baseline is taken after the last wave   *)
(* of the warm-up, and at least one wave is measured.                      *)
run_relay_soak ==
  /\ AtEnd /\ helper = "soak"
  /\ soak.wave + 1 < MaxWaves \/ soak.elapsed
  /\ soak' = [soak EXCEPT !.wave = @ + 1,
                          !.baseline = IF soak.wave + 1 = WARMUP_WAVES THEN soak.wave + 1 ELSE @]
  /\ Repeat(soak.elapsed /\ soak'.wave > WARMUP_WAVES)

HelperSteps ==
  \/ StartPart \/ connect_managed_with_retry \/ connect_tcp_forward_with_retry
  \/ wait_for_udp_forward_ready \/ BeginExchange \/ EndExchange \/ SendShutdown \/ JoinPart
  \/ TerminateProcess \/ RaiseFirstError \/ CheckReport \/ ReturnOk \/ run_rust_latency \/ run_relay_soak

-----------------------------------------------------------------------------
(* The parts by themselves.                                                *)

PartEnds(p) ==
  /\ \/ /\ part[p] = "running" \/ (part[p] \in {"told", "relayed"})
        /\ part' = [part EXCEPT ![p] = "err"] /\ UNCHANGED relays
     \/ /\ part[p] \in {"told", "relayed"}
        /\ part' = [part EXCEPT ![p] = "ok"]
        /\ relays' = IF p \in Onces THEN [relays EXCEPT ![p] = 1] ELSE relays
  /\ UNCHANGED <<helper, pc, client, kept, attempt, soak, outcome>>

(* The server has seen the end of a relay, before its client or after.     *)
ServerCounts ==
  /\ part["server_loop"] \in {"running", "told"} /\ client # NoClients
  /\ relays["server_loop"] < Cardinality(DOMAIN client.done) /\ helper \in {"churn", "soak"}
  /\ relays' = [relays EXCEPT !["server_loop"] = @ + 1]
  /\ UNCHANGED <<helper, pc, part, client, kept, attempt, soak, outcome>>

TimeIsUp ==
  /\ helper = "soak" /\ ~soak.elapsed
  /\ soak' = [soak EXCEPT !.elapsed = TRUE]
  /\ UNCHANGED <<helper, pc, part, client, relays, kept, attempt, outcome>>

HNext ==
  \/ HelperSteps \/ ClientSteps \/ ServerCounts \/ TimeIsUp
  \/ \E p \in Parts : PartEnds(p)

(* Timers fire, the clock runs, and a part that is told to stop does.      *)
HFairness ==
  /\ WF_harness_vars(HelperSteps)
  /\ WF_harness_vars(ClientSteps /\ TheExchange.timed)
  /\ WF_harness_vars(\E p \in Parts : part[p] = "told" /\ PartEnds(p))
  /\ WF_harness_vars(TimeIsUp)

-----------------------------------------------------------------------------
(* A helper that returns a summary measured what it says: every client had *)
(* each of its echoes, also when an error was kept until the parts were    *)
(* stopped; every part was waited for and ended well, no process had to be *)
(* killed; and a soak measured at least one wave after its baseline.  And  *)
(* no part is told to stop while a client still uses it.                   *)
BenchmarkTruthful ==
  /\ outcome = "ok" =>
       /\ client.failed = {}
       /\ \A c \in DOMAIN client.done : \A i \in 1..Len(Script[helper]) :
            Script[helper][i].op = "exchange" => client.done[c] = Script[helper][i].requests
       /\ \A p \in Parts : part[p] \in {"absent", "ok"} \/ (p \in Processes /\ part[p] = "err")
       /\ helper = "soak" => soak.baseline = WARMUP_WAVES /\ soak.wave > soak.baseline
  /\ Exchanging => \A p \in Parts : part[p] # "told"

Bounded ==
  /\ helper # "none"
  /\ \A i \in 1..Len(Script[helper]) : Script[helper][i].op = "exchange" => Script[helper][i].timed

(* A helper whose clients have a time limit returns, and after any return, *)
(* also an early one, everything it started stops, but for a task that     *)
(* still waits for the one relay it is to serve.                           *)
BenchmarkEnds ==
  []<>(IF outcome = "none" THEN ~Bounded
       ELSE \A p \in Parts \ Onces : part[p] \notin {"running", "told"})

=============================================================================
