------------------------------ MODULE Program ------------------------------
(***************************************************************************)
(* The server program and the client program.  A program reads its         *)
(* configuration, checks it step by step, binds its sockets, runs its      *)
(* tasks and ends on a signal or on the failure of a task.  What a task    *)
(* does is in the other modules; here it runs, logs and ends.              *)
(***************************************************************************)
EXTENDS ShareLink, RuntimeLog

CONSTANT Cases   \* what may be run: program, configuration, environment, log

ASSUME ExitAssumption == NONE \notin {0, 1, 128}

VARIABLES
  case,       \* the command line, its files and its environment
  phase,      \* the step the program is at
  conf,       \* the settings it has made of them
  bound,      \* its sockets
  task,       \* the tasks of its JoinSet: running, ended (ok, err) or joined
  failed,     \* history: some task ended with an error
  signal,     \* a signal has arrived
  shutdown,   \* the watch channel (for the server: the signal's future)
  exit        \* its exit status; 128 when a signal kills it

program_vars == <<case, phase, conf, bound, task, failed, signal, shutdown, exit>>
all_vars == <<program_vars, log_vars>>

NoLog == [outputs |-> <<>>, level |-> 1, path |-> FALSE, max_size |-> 0, max_backups |-> 0]

PInit ==
  /\ case \in Cases
  /\ phase = "load"
  /\ conf = NONE /\ bound = {} /\ task = <<>> /\ failed = FALSE
  /\ signal = FALSE /\ shutdown = FALSE /\ exit = NONE
  /\ LogInit(NoLog)

Server == case.role = "server"

(* A step of the start-up, which leaves the tasks alone.                   *)
At(p) == phase = p /\ exit = NONE /\ UNCHANGED <<case, task, failed, signal, shutdown>>

Goto(p) == phase' = p /\ UNCHANGED exit

(* fatal_*: an event through the default logger, or through the configured *)
(* one, and exit(1).                                                       *)
fatal_with_default_logger ==
  phase' = "end" /\ exit' = 1 /\ UNCHANGED <<conf, bound, log_vars>>

(* An event of the program itself; an error of the logger is ignored.      *)
log_event(level) ==
  LET event == [id |-> seen.offered + 1, len |-> 1, level |-> level]
  IN IF allows(event) THEN \E fault \in FaultsOf(event) : write_event(event, MaxClock, fault)
     ELSE UNCHANGED log_vars

fatal_with_logger ==
  phase' = "end" /\ exit' = 1 /\ log_event(3) /\ UNCHANGED <<conf, bound>>

(* load_json_str: an object, or null for all defaults; anything else, or a *)
(* file that is not there, is refused.                                     *)
load_raw_config ==
  /\ At("load") /\ case.role # "sharelink"
  /\ \/ case.json = "object" /\ Goto("logger") /\ UNCHANGED <<conf, bound, log_vars>>
     \/ case.json # "object" /\ fatal_with_default_logger

(* generate-sharelink prints the link or the error, and logs nothing.      *)
run_generate_sharelink ==
  /\ At("load") /\ case.role = "sharelink"
  /\ conf' = IF case.json = "object" THEN generate_sharelink(case.raw, case.env) ELSE ERR
  /\ phase' = "end" /\ exit' = IF conf' = ERR THEN 1 ELSE 0
  /\ UNCHANGED <<bound, log_vars>>

(* Levels by priority; with no level every event is below.                 *)
LevelOf == "info" :> 1 @@ "warn" :> 2 @@ "fatal" :> 3 @@ "" :> 4

parse_log_level(text) == IF text \in DOMAIN LevelOf THEN LevelOf[text] ELSE ERR

(* The outputs of the command line, each once, in their order.             *)
log_settings(args) ==
  LET Add(done, o) == IF o = "" \/ Contains(done, o) THEN done ELSE Append(done, o)
      outputs == FoldLeft(Add, <<>>, IF args.outputs = <<>> THEN <<"console">> ELSE args.outputs)
      level == parse_log_level(args.level)
  IN IF ToSet(outputs) \subseteq {"console", "file"} /\ level # ERR /\ args.format # "bad"
     THEN [outputs |-> outputs, level |-> level, path |-> args.path,
           max_size |-> args.max_size, max_backups |-> args.max_backups]
     ELSE ERR

(* The settings are refused, or the file cannot be opened, or all is well. *)
runtime_logger ==
  /\ At("logger")
  /\ \E made \in {log_settings(case.log)} :
        \/ /\ made # ERR /\ log_open(made)
           /\ Goto(IF Server THEN "env" ELSE "validate") /\ UNCHANGED <<conf, bound>>
        \/ made = ERR /\ fatal_with_default_logger
        \/ made # ERR /\ HasFile(made) /\ fatal_with_default_logger

apply_server_outbound_env_overrides ==
  /\ At("env")
  /\ \E outbound \in {apply_server_outbound_env_values(case.raw.outbound, case.env)} :
        \/ outbound = ERR /\ fatal_with_logger
        \/ /\ outbound # ERR
           /\ conf' = [case.raw EXCEPT !.outbound = outbound]
           /\ Goto("validate") /\ UNCHANGED <<bound, log_vars>>

validate ==
  /\ At("validate")
  /\ \E config \in {IF Server THEN validate_server(conf) ELSE validate_client(case.raw)} :
        \/ config = ERR /\ fatal_with_logger
        \/ config # ERR /\ conf' = config /\ Goto("entry") /\ UNCHANGED <<bound, log_vars>>

\* Slip: the server starts although its key cannot be read.
EntryOk_cert_only ==
  IF Server THEN case.raw.certificate # "absent" /\ case.raw.listen # ""
  ELSE case.raw.listen # "" \/ case.raw.forward # <<>>

(* The server needs certificate, key and address, the client something to  *)
(* listen on.                                                              *)
EntryOk ==
  IF Server THEN "absent" \notin {case.raw.certificate, case.raw.private_key} /\ case.raw.listen # ""
  ELSE case.raw.listen # "" \/ case.raw.forward # <<>>

check_entrypoint ==
  /\ At("entry")
  /\ \/ ~EntryOk /\ fatal_with_logger
     \/ EntryOk /\ Goto(IF Server THEN "endpoint" ELSE "handlers") /\ UNCHANGED <<conf, bound, log_vars>>

-----------------------------------------------------------------------------
(* Sockets and tasks.  A socket is a protocol and an address.              *)

(* bind_with_pem: the endpoint is bound, then the egress policy is made.   *)
bind_with_pem ==
  /\ At("endpoint")
  /\ \/ fatal_with_logger
     \/ /\ case.raw.listen # "bad" /\ "bad" \notin {case.raw.certificate, case.raw.private_key}
        /\ \E egress \in {transport_policy(conf)} :
              \/ egress = ERR /\ fatal_with_logger
              \/ /\ egress # ERR
                 /\ conf' = egress /\ bound' = {<<"udp", case.raw.listen>>}
                 /\ Goto("handlers") /\ UNCHANGED log_vars

(* The signal handlers: the server installs them last, the client first.   *)
shutdown_signal ==
  /\ At("handlers")
  /\ \/ fatal_with_logger
     \/ Goto(IF Server THEN "spawn" ELSE "mixed") /\ UNCHANGED <<conf, bound, log_vars>>

(* One address for TCP and UDP: with port 0, ports are tried until the UDP *)
(* side is free as well.                                                   *)
bind_mixed_tcp_udp_pair(addr) == IF addr = "any" THEN {"p1", "p2"} ELSE {addr}

bind_configured_mixed_listener ==
  /\ At("mixed")
  /\ \/ case.raw.listen = "" /\ Goto("tcp") /\ UNCHANGED <<conf, bound, log_vars>>
     \/ /\ case.raw.listen \notin {"", "bad"}
        /\ \E addr \in bind_mixed_tcp_udp_pair(case.raw.listen) :
             bound' = {<<"tcp", addr>>, <<"udp", addr>>}
        /\ Goto("tcp") /\ UNCHANGED <<conf, log_vars>>
     \/ case.raw.listen # "" /\ fatal_with_logger

Wants(rule, proto) == IF proto = "tcp" THEN rule.tcp ELSE rule.udp

(* The rules in order: the first address, target or socket that is refused *)
(* ends the program; an address that is in use is one.                     *)
bind_configured_forwarders(proto, next) ==
  LET rules == {i \in 1..Len(conf.rules) : Wants(conf.rules[i], proto)}
      Socket(i) == <<proto, conf.rules[i].local>>
      Target(i) == IF proto = "tcp" THEN TcpForwardTarget(conf.targets[i])
                   ELSE UdpForwardTarget(conf.targets[i])
      possible == /\ \A i \in rules : /\ conf.rules[i].local # "bad" /\ Target(i) # ERR
                                      /\ Socket(i) \notin bound
                  /\ \A i, j \in rules : i # j => Socket(i) # Socket(j)
  IN /\ At(proto)
     /\ \/ possible /\ bound' = bound \cup {Socket(i) : i \in rules}
           /\ Goto(next) /\ UNCHANGED <<conf, log_vars>>
        \/ rules # {} /\ fatal_with_logger

(* What is spawned: the server's loop, or one task for the mixed listener  *)
(* and one for every forwarder.                                            *)
Spawned ==
  IF Server THEN {<<0, "proxy">>}
  ELSE (IF case.raw.listen # "" THEN {<<0, "mixed">>} ELSE {})
         \cup {r \in (1..Len(conf.rules)) \X {"tcp", "udp"} : Wants(conf.rules[r[1]], r[2])}

spawn ==
  /\ phase = "spawn" /\ exit = NONE
  /\ task' = [t \in Spawned |-> "running"]
  /\ phase' = "serve"
  /\ UNCHANGED <<case, conf, bound, failed, signal, shutdown, exit, log_vars>>

(* A task ends: asked to, or on an error, or (the client's) unasked.       *)
task_ends(t, how) ==
  /\ exit = NONE
  /\ task[t] = "running"
  /\ how = "ok" => shutdown \/ ~Server
  /\ task' = [task EXCEPT ![t] = how]
  /\ failed' = (failed \/ how = "err")
  /\ UNCHANGED <<case, phase, conf, bound, signal, shutdown, exit, log_vars>>

(* A signal: without a handler it ends the process.                        *)
signal_arrives ==
  /\ ~signal /\ exit = NONE
  /\ signal' = TRUE
  /\ exit' = IF phase \in {"mixed", "tcp", "udp", "spawn", "serve", "drain"} THEN exit ELSE 128
  /\ UNCHANGED <<case, phase, conf, bound, task, failed, shutdown, log_vars>>

\* Slip: the tasks are not told, only waited for.
on_signal_silent ==
  /\ phase = "serve" /\ signal /\ exit = NONE
  /\ phase' = "drain"
  /\ IF Server THEN UNCHANGED log_vars ELSE log_event(2)
  /\ UNCHANGED <<case, conf, bound, task, failed, signal, shutdown, exit>>

(* The signal's future is ready: the client logs, then tells its tasks.    *)
on_signal ==
  /\ phase = "serve" /\ signal /\ exit = NONE
  /\ phase' = "drain"
  /\ shutdown' = TRUE
  /\ IF Server THEN UNCHANGED log_vars ELSE log_event(2)
  /\ UNCHANGED <<case, conf, bound, task, failed, signal, exit>>

Ended(t) == task[t] \in {"ok", "err"}

(* The other arm of the client's select, and the server's loop: a task     *)
(* that ends before any signal is taken ends the program with status 1;    *)
(* the others are aborted with the JoinSet.                                *)
on_task_end ==
  /\ phase = "serve" /\ exit = NONE
  /\ \E t \in DOMAIN task : Ended(t)
  /\ phase' = "end" /\ exit' = 1 /\ log_event(3)
  /\ UNCHANGED <<case, conf, bound, task, failed, signal, shutdown>>

\* Slip: the results of the tasks are dropped.
join_next_ignored(t) ==
  /\ phase = "drain" /\ exit = NONE /\ Ended(t)
  /\ task' = [task EXCEPT ![t] = "joined"]
  /\ UNCHANGED <<phase, exit, log_vars>>
  /\ UNCHANGED <<case, conf, bound, failed, signal, shutdown>>

(* After the signal tasks are joined as they end; the first error returns. *)
join_next(t) ==
  /\ phase = "drain" /\ exit = NONE /\ Ended(t)
  /\ \/ /\ task[t] = "err" /\ phase' = "end" /\ exit' = 1 /\ log_event(3)
        /\ UNCHANGED task
     \/ /\ task[t] = "ok" /\ task' = [task EXCEPT ![t] = "joined"]
        /\ UNCHANGED <<phase, exit, log_vars>>
  /\ UNCHANGED <<case, conf, bound, failed, signal, shutdown>>

(* Every task is joined: the server logs now, the client has.              *)
all_joined ==
  /\ phase = "drain" /\ exit = NONE
  /\ \A t \in DOMAIN task : task[t] = "joined"
  /\ phase' = "end" /\ exit' = 0
  /\ IF Server THEN log_event(2) ELSE UNCHANGED log_vars
  /\ UNCHANGED <<case, conf, bound, task, failed, signal, shutdown>>

(* A task logs while the program serves.                                   *)
task_logs ==
  /\ case.logs /\ phase \in {"serve", "drain"} /\ exit = NONE
  /\ on_event
  /\ UNCHANGED <<program_vars>>

start ==
  \/ load_raw_config \/ run_generate_sharelink \/ runtime_logger \/ apply_server_outbound_env_overrides \/ validate
  \/ check_entrypoint \/ bind_with_pem \/ shutdown_signal \/ bind_configured_mixed_listener
  \/ bind_configured_forwarders("tcp", "udp") \/ bind_configured_forwarders("udp", "spawn")
  \/ spawn

run == on_signal \/ on_task_end \/ all_joined \/ \E t \in DOMAIN task : join_next(t)

PNext ==
  \/ start \/ run \/ signal_arrives \/ task_logs
  \/ \E t \in DOMAIN task, how \in {"ok", "err"} : task_ends(t, how)

(* The program runs, and a task that has been asked to end does: that is   *)
(* what the drains of the other modules end with.                          *)
PFairness ==
  /\ WF_all_vars(start) /\ WF_all_vars(run)
  /\ WF_all_vars(shutdown /\ \E t \in DOMAIN task, how \in {"ok", "err"} : task_ends(t, how))

PSpec == PInit /\ [][PNext]_all_vars /\ PFairness

-----------------------------------------------------------------------------
Serving == phase \in {"serve", "drain"} \/ (exit = 0 /\ case.role # "sharelink")

(* Go's syntax for a mark, written as a grammar: an optional prefix, then  *)
(* digits of its radix, each underscore between two digits.                *)
Mark(text) ==
  LET Radix(n) == CASE n = 0 -> 10 [] n = 1 -> 8 [] OTHER -> ("x" :> 16 @@ "b" :> 2 @@ "o" :> 8)[text[2]]
      prefix == IF Len(text) > 1 /\ text[1] = "0"
                THEN IF text[2] \in {"x", "b", "o"} THEN 2 ELSE 1
                ELSE 0
      body == SubSeq(text, prefix + 1, Len(text))
      digits == SelectSeq(body, LAMBDA c : c # "_")
      Digit(i) == body[i] \in DOMAIN DigitValue /\ DigitValue[body[i]] < Radix(prefix)
      value[i \in 0..Len(digits)] ==
        IF i = 0 THEN 0 ELSE value[i - 1] * Radix(prefix) + DigitValue[digits[i]]
  IN IF /\ body # <<>> /\ Digit(1) /\ Digit(Len(body))
        /\ \A i \in 1..Len(body) : Digit(i) \/ (body[i] = "_" /\ Digit(i - 1) /\ Digit(i + 1))
     THEN value[Len(digits)] ELSE MarkMax + 1

(* A program serves only with settings that are all valid, none dropped:   *)
(* the mark is the number written in Go's syntax, and the client holds a   *)
(* socket and a task for its listener and for every protocol a forwarding  *)
(* rule names, and no other, with a target that is an address or a name    *)
(* and a port.                                                             *)
RunsAsConfigured ==
  Serving =>
    IF Server
    THEN /\ case.json = "object" /\ "bad" \notin case.raw.users
         /\ {"absent", "bad"} \cap {case.raw.certificate, case.raw.private_key} = {}
         /\ conf.fwmark = IF case.raw.fwmark = <<>> THEN NONE ELSE Mark(case.raw.fwmark)
         /\ conf.fwmark # NONE => conf.fwmark <= MarkMax
         /\ conf.send_through = NonEmpty(case.raw.send_through)
         /\ bound = {<<"udp", case.raw.listen>>}
    ELSE LET Names(i, proto) == LET s == Tail(case.raw.forward[i])
                                IN s = <<>> \/ Contains(s, proto)
             named == {r \in (1..Len(case.raw.forward)) \X {"tcp", "udp"} : Names(r[1], r[2])}
             mixed == case.raw.listen # ""
         IN /\ DOMAIN task = named \cup (IF mixed THEN {<<0, "mixed">>} ELSE {})
            /\ Cardinality(bound) = Cardinality(named) + (IF mixed THEN 2 ELSE 0)
            /\ \A n \in named : <<n[2], Head(case.raw.forward[n[1]])>> \in bound
            /\ \A n \in named :
                 case.raw.targets[n[1]] \in {<<"h", ":", "p">>, <<"1", ":", "p">>, <<"[", "h", ":", "]", ":", "p">>}
            /\ conf.verifier = "none" <=> case.raw.allow_insecure

(* The egress of a running server is the one configured: each field of the *)
(* outbound from the file, or from the environment where the file has      *)
(* none; user name and password as they were written, through the link     *)
(* made of them and its parser; the hops of a dialer link in order, each   *)
(* where it points, and none unverified that did not ask to be.  With both *)
(* an outbound and a link, they say the same.                              *)
EgressAsConfigured ==
  Server /\ Serving =>
    LET raw == case.raw
        file == IF raw.outbound = NONE THEN EmptyOutbound ELSE raw.outbound
        structured == \/ raw.outbound # NONE
                      \/ \E f \in DOMAIN case.env : case.env[f] \notin {NONE, EMPTY}
        Effective(f) == IF file[f] # EmptyOutbound[f] \/ case.env[f] \in {NONE, EMPTY}
                        THEN file[f] ELSE case.env[f]
        Given(text) == IF text = <<>> THEN NONE ELSE text
        link == conf.dialer_link
        Asks(url) == /\ url.scheme \notin {"socks", "socks5", "ss", "ssr", "vless", "vmess"}
                     /\ \E k \in DOMAIN url.query : /\ k \in InsecureKeys \cup {"insecure", "disable_sni"}
                                                   /\ url.query[k] \in {"1", "true"}
    IN /\ ~structured => (link = NONE <=> raw.dialer_link = <<>>)
       /\ structured =>
            /\ Len(link) = 1
            /\ link[1] = Hop("socks5", Effective("server"), Effective("port"),
                             Given(Effective("username")), Given(Effective("password")), NONE, FALSE)
       /\ raw.dialer_link # <<>> =>
            /\ Len(link) = Len(raw.dialer_link)
            /\ \A i \in 1..Len(link) :
                 LET url == raw.dialer_link[i]
                 IN /\ link[i].host \in {url.host, Unbracketed(url.host)}
                    /\ url.port # NONE => link[i].port = url.port
                    /\ link[i].insecure <=> Asks(url)

(* Encodings of the resolver's answer, and where the records end in it.    *)
NameOf(n) == FlattenSeq([i \in 1..n.labels |-> <<1, 0>>]) \o IF n.pointer THEN <<Pointer, 1>> ELSE <<0>>
RecordOf(r) == NameOf(r.name) \o <<r.type, 1, Len(r.data)>> \o r.data
Packet(m) ==
  <<m.id, Len(m.names), Len(m.records)>>
    \o FlattenSeq([i \in 1..Len(m.names) |-> NameOf(m.names[i]) \o <<1>>])
    \o FlattenSeq([i \in 1..Len(m.records) |-> RecordOf(m.records[i])])

(* A share link says what the server is: a client that parses it dials the *)
(* address in the first address record of the answer, whatever names and   *)
(* records come before it, at the listening port, as the first user with   *)
(* the user's password, and checks the name and the pin of the             *)
(* certificate.  A truncated answer makes no link.  Passwords with a       *)
(* percent sign are left out: url does not escape it.                      *)
ShareLinkTrue ==
  case.role = "sharelink" /\ exit \in {0, 1} =>
    LET m == case.env.message
        good == {i \in 1..Len(m.records) :
                   m.records[i].type = 1 /\ Len(m.records[i].data) = 4}
        upto == [m EXCEPT !.records = SubSeq(@, 1, Min(good))]
        parsed == parse_single(conf)
    IN /\ exit = 0 <=> /\ "bad" \notin case.raw.users /\ case.raw.users # {}
                      /\ case.json = "object" /\ case.raw.certificate = "cert"
                      /\ case.env.listen \in {<<":", "p">>, <<"h", ":", "p">>, <<"[", "h", ":", "]", ":", "p">>}
                      /\ case.env.answer # NONE /\ m.id = QueryId /\ good # {}
                      /\ Len(case.env.answer) >= Len(Packet(upto))
       /\ exit = 0 /\ ~Contains(case.env.password, "%") =>
            /\ parsed = Hop("juicity", m.records[Min(good)].data, 443, <<"u">>, case.env.password,
                            IF case.env.common_name = "" THEN m.records[Min(good)].data
                            ELSE case.env.common_name, TRUE)
            /\ dialer_link_query_value(conf, "pinned_certchain_sha256") = "hash"

(* The exit status tells the supervisor the truth: 0 only after a signal,  *)
(* with every task ended well; 1 from a running program only when a task   *)
(* failed, or ended before it was asked to.                                *)
ExitStatusTruthful ==
  /\ exit = 0 /\ case.role # "sharelink" =>
       signal /\ ~failed /\ \A t \in DOMAIN task : task[t] = "joined"
  /\ exit = 1 /\ task # <<>> =>
       failed \/ (~shutdown /\ \E t \in DOMAIN task : task[t] = "ok")

(* The program ends after a signal, also one that arrives while it still   *)
(* starts, and after the end of any of its tasks.                          *)
ProgramEnds == (signal \/ \E t \in DOMAIN task : Ended(t)) ~> exit # NONE

=============================================================================
