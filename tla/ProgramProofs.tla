---------------------------- MODULE ProgramProofs ----------------------------
(***************************************************************************)
(* Proofs about the two programs, for any set of configurations, rules,    *)
(* environments and log settings.                                          *)
(***************************************************************************)
EXTENDS Program, TLAPS

Starting ==
  {"load", "logger", "env", "validate", "entry", "endpoint", "handlers",
   "mixed", "tcp", "udp", "spawn"}

(* How far the program is tells what its tasks and its channel can be; an  *)
(* error of a task is never joined away.                                   *)
PhaseInv ==
  /\ phase \in Starting \cup {"serve", "drain", "end"}
  /\ phase \in Starting => task = <<>> /\ ~shutdown
  /\ phase = "serve" => ~shutdown
  /\ phase = "drain" => signal
  /\ phase = "end" => exit # NONE
  /\ failed = (\E t \in DOMAIN task : task[t] = "err")

ExitInv == PhaseInv /\ ExitStatusTruthful

LEMMA InitExitInv ==
  ASSUME PInit
  PROVE  ExitInv
<1>1. phase = "load" /\ task = <<>> /\ ~failed /\ ~shutdown /\ exit = NONE /\ failed \in BOOLEAN
  BY DEF PInit
<1>2. DOMAIN task = {}
  BY <1>1
<1>3. failed = (\E t \in DOMAIN task : task[t] = "err")
  BY <1>1, <1>2
<1> QED
  BY <1>1, <1>3, ExitAssumption DEF ExitInv, PhaseInv, ExitStatusTruthful, Starting

(* A step of the start-up goes to a later one, or ends with status 1, or,  *)
(* for generate-sharelink, with the status of the command.                 *)
LEMMA StartKeepsExit ==
  ASSUME ExitInv, start
  PROVE  ExitInv'
<1>1. CASE spawn
  <2>1. DOMAIN task' = Spawned /\ \A t \in Spawned : task'[t] = "running"
    BY <1>1 DEF spawn
  <2>2. ~failed
    BY <1>1 DEF spawn, ExitInv, PhaseInv, Starting
  <2>3. PhaseInv'
    BY <1>1, <2>1, <2>2 DEF spawn, ExitInv, PhaseInv, Starting
  <2> QED
    BY <1>1, <2>3, ExitAssumption DEF spawn, ExitInv, ExitStatusTruthful
<1>2. CASE \/ load_raw_config \/ run_generate_sharelink \/ runtime_logger
           \/ apply_server_outbound_env_overrides \/ validate \/ check_entrypoint
           \/ bind_with_pem \/ shutdown_signal \/ bind_configured_mixed_listener
           \/ bind_configured_forwarders("tcp", "udp")
           \/ bind_configured_forwarders("udp", "spawn")
  <2>1. /\ phase \in Starting /\ exit = NONE
        /\ UNCHANGED <<case, task, failed, signal, shutdown>>
        /\ \/ phase' \in Starting /\ UNCHANGED exit
           \/ phase' = "end" /\ exit' = 1
           \/ phase' = "end" /\ exit' \in {0, 1} /\ case.role = "sharelink"
    <3> USE DEF At, Goto, Starting, fatal_with_logger, fatal_with_default_logger
    <3>1. CASE load_raw_config
      BY <3>1 DEF load_raw_config
    <3>2. CASE run_generate_sharelink
      BY <3>2 DEF run_generate_sharelink
    <3>3. CASE runtime_logger
      BY <3>3 DEF runtime_logger
    <3>4. CASE apply_server_outbound_env_overrides
      BY <3>4 DEF apply_server_outbound_env_overrides
    <3>5. CASE validate
      BY <3>5 DEF validate
    <3>6. CASE check_entrypoint
      BY <3>6 DEF check_entrypoint
    <3>7. CASE bind_with_pem
      BY <3>7 DEF bind_with_pem
    <3>8. CASE shutdown_signal
      BY <3>8 DEF shutdown_signal
    <3>9. CASE bind_configured_mixed_listener
      BY <3>9 DEF bind_configured_mixed_listener
    <3>10. CASE bind_configured_forwarders("tcp", "udp")
      BY <3>10 DEF bind_configured_forwarders
    <3>11. CASE bind_configured_forwarders("udp", "spawn")
      BY <3>11 DEF bind_configured_forwarders
    <3> QED
      BY <1>2, <3>1, <3>2, <3>3, <3>4, <3>5, <3>6, <3>7, <3>8, <3>9, <3>10, <3>11
  <2>2. PhaseInv'
    BY <2>1, ExitAssumption DEF ExitInv, PhaseInv, Starting
  <2> QED
    BY <2>1, <2>2, ExitAssumption DEF ExitInv, PhaseInv, ExitStatusTruthful
<1> QED
  BY <1>1, <1>2 DEF start

LEMMA RunKeepsExit ==
  ASSUME ExitInv, run
  PROVE  ExitInv'
<1> USE ExitAssumption DEF ExitInv
<1>1. CASE on_signal
  <2>1. /\ phase = "serve" /\ phase' = "drain" /\ signal /\ exit = NONE
        /\ UNCHANGED <<case, task, failed, signal, exit>>
    BY <1>1 DEF on_signal
  <2> QED
    BY <2>1 DEF PhaseInv, Starting, ExitStatusTruthful
<1>2. CASE on_task_end
  <2>1. /\ phase = "serve" /\ phase' = "end" /\ exit' = 1
        /\ \E t \in DOMAIN task : task[t] \in {"ok", "err"}
        /\ UNCHANGED <<case, task, failed, signal, shutdown>>
    BY <1>2 DEF on_task_end, Ended
  <2> QED
    BY <2>1 DEF PhaseInv, Starting, ExitStatusTruthful
<1>3. CASE all_joined
  <2>1. /\ phase = "drain" /\ phase' = "end" /\ exit' = 0
        /\ \A t \in DOMAIN task : task[t] = "joined"
        /\ UNCHANGED <<case, task, failed, signal, shutdown>>
    BY <1>3 DEF all_joined
  <2> QED
    BY <2>1 DEF PhaseInv, Starting, ExitStatusTruthful
<1>4. ASSUME NEW t \in DOMAIN task, join_next(t)
      PROVE  ExitInv'
  <2>1. /\ phase = "drain" /\ exit = NONE
        /\ UNCHANGED <<case, failed, signal, shutdown>>
        /\ \/ task[t] = "err" /\ phase' = "end" /\ exit' = 1 /\ UNCHANGED task
           \/ /\ task[t] = "ok" /\ task' = [task EXCEPT ![t] = "joined"]
              /\ UNCHANGED <<phase, exit>>
    BY <1>4 DEF join_next
  <2>2. PhaseInv'
    BY <2>1 DEF PhaseInv, Starting
  <2> QED
    BY <2>1, <2>2 DEF PhaseInv, ExitStatusTruthful
<1> QED
  BY <1>1, <1>2, <1>3, <1>4 DEF run

LEMMA StepExitInv ==
  ASSUME ExitInv, [PNext]_all_vars
  PROVE  ExitInv'
<1> USE ExitAssumption DEF ExitInv
<1>1. CASE signal_arrives
  <2>1. /\ exit = NONE /\ exit' \in {NONE, 128} /\ signal'
        /\ UNCHANGED <<case, phase, task, failed, shutdown>>
    BY <1>1 DEF signal_arrives
  <2> QED
    BY <2>1 DEF PhaseInv, Starting, ExitStatusTruthful
<1>2. CASE task_logs \/ UNCHANGED all_vars
  <2>1. UNCHANGED program_vars
    BY <1>2 DEF task_logs, all_vars
  <2> QED
    BY <2>1 DEF program_vars, PhaseInv, Starting, ExitStatusTruthful
<1>3. ASSUME NEW t \in DOMAIN task, NEW how \in {"ok", "err"}, task_ends(t, how)
      PROVE  ExitInv'
  <2>1. /\ exit = NONE /\ task[t] = "running"
        /\ task' = [task EXCEPT ![t] = how] /\ failed' = (failed \/ how = "err")
        /\ UNCHANGED <<case, phase, signal, shutdown, exit>>
    BY <1>3 DEF task_ends
  <2>2. phase \notin Starting
    BY DEF PhaseInv
  <2>3. failed' = (\E s \in DOMAIN task' : task'[s] = "err")
    BY <2>1 DEF PhaseInv
  <2> QED
    BY <2>1, <2>2, <2>3 DEF PhaseInv, ExitStatusTruthful
<1> QED
  BY <1>1, <1>2, <1>3, StartKeepsExit, RunKeepsExit DEF PNext

(* The exit status is true for every configuration and any number of       *)
(* tasks: 0 only after a signal with every task ended well, 1 from a       *)
(* running program only when a task failed or ended unasked.               *)
THEOREM ExitIsTruthful == PSpec => []ExitStatusTruthful
<1>1. ExitInv => ExitStatusTruthful
  BY DEF ExitInv
<1> QED
  BY <1>1, InitExitInv, StepExitInv, PTL DEF PSpec

=============================================================================
