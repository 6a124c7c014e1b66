----------------------------- MODULE Embedding -----------------------------
(***************************************************************************)
(* What a host that embeds the crates may run: dae's adapter, a            *)
(* single-purpose server loop, or the client's shared dialer with the      *)
(* forwarder or the listener that owns it.  They share no state; a         *)
(* behaviour is of one of them.                                            *)
(***************************************************************************)
EXTENDS DaeAdapter, ServerLoops, Forwarders, Harness

\* Addresses, names, and each way a target or a server may be wrong.
AllTargets ==
  [socket_addr : {TRUE}, host : {"name"}, port : {"number"}]
  \cup [socket_addr : {FALSE}, host : {"no_colon", "empty", "bracketed", "name"},
        port : {"empty", "number", "other"}]
AllServers == {<<>>, <<"v4">>, <<"v6", "v4">>}

VARIABLE host   \* what is embedded: "dae", "server", "client" or "benchmark"

EInit ==
  /\ host \in {"dae", "server", "client", "benchmark"}
  /\ DaeInit
  /\ LoopsInit(IF host = "server" THEN {"tcp", "udp", "one"} ELSE {"none"})
  /\ FInit(IF host = "client" THEN {"mixed", "tcp", "udp"} ELSE {"none"})
  /\ HInit(IF host = "benchmark" THEN Helpers ELSE {"none"})

ENext ==
  /\ UNCHANGED host
  /\ \/ host = "dae" /\ DaeNext /\ UNCHANGED <<loops_vars, allVars, harness_vars>>
     \/ host = "server" /\ LoopsNext /\ UNCHANGED <<dae_vars, allVars, harness_vars>>
     \/ host = "client" /\ FNext /\ UNCHANGED <<dae_vars, loops_vars, harness_vars>>
     \/ host = "benchmark" /\ HNext /\ UNCHANGED <<dae_vars, loops_vars, allVars>>

ESpec ==
  /\ EInit /\ [][ENext]_<<host, dae_vars, loops_vars, allVars, harness_vars>>
  /\ LoopsFairness /\ FFairness /\ HFairness

(* A loop the host asks to stop returns: a server loop once the clients it *)
(* serves have gone (run_tcp_proxy_loop_until drains its relays), and a    *)
(* forwarder wherever it is, but for a UDP loop that waits for an answer.  *)
(* A benchmark returns, and what it started stops with it.                 *)
StoppedLoopsReturn == LoopReturns /\ ShutdownReturns /\ BenchmarkEnds

=============================================================================
