---------------------------- MODULE ProxyStream ----------------------------
(***************************************************************************)
(* One proxy stream from its header on, where DialerEgress, TcpRelay and   *)
(* UdpSession meet.  For TCP the server dials the target and relays over   *)
(* the stream it got.  For UDP the session runs at once and dials from     *)
(* within; the dial of an association is then a behaviour of its own, and  *)
(* in the session a step.  The client's relay has no dial: its connection  *)
(* is the shared one.                                                      *)
(***************************************************************************)
EXTENDS TcpRelay, DialerEgress, UdpSession

stream_vars == <<relay_vars, dial_vars, session_vars>>

(* The dial's own state is gone with its future.                           *)
NoDial ==
  /\ job = [links |-> <<>>, purpose |-> "tcp", source |-> "any"]
  /\ addrs = <<>> /\ tried = <<>> /\ heard = {} /\ result = "none"
  /\ at = [hop |-> 0, pos |-> 0]
  /\ far = -1 /\ out = <<>> /\ inbound = <<>> /\ closed = FALSE

DialForgotten ==
  /\ job' = [links |-> <<>>, purpose |-> "tcp", source |-> "any"]
  /\ addrs' = <<>> /\ tried' = <<>> /\ heard' = {} /\ result' = "none"
  /\ at' = [hop |-> 0, pos |-> 0]
  /\ NoStream

NoSession == SessionInit({"none"})

StreamInit ==
  \/ RelayInit("dialing") /\ side = "server" /\ inner = "plain" /\ DialInit /\ NoSession
  \/ RelayInit("running") /\ side = "client" /\ NoDial /\ NoSession
  \/ RelayInit("udp") /\ side = "server" /\ inner = "plain" /\ NoDial /\ SessionInit(Kinds)

(* HTTP CONNECT and SOCKS5 hand on the stream they were given; TLS and the  *)
(* pipe of VMess take several slices, every other wrapper one.             *)
TcpProxyTargetStream ==
  LET wraps == {i \in DOMAIN Links : Links[i] \notin {"http", "socks5", "socks5_login"}}
      last == CHOOSE i \in wraps : \A j \in wraps : j <= i
  IN  IF wraps = {} THEN "plain"
      ELSE IF Links[last] \in {"https", "trojan", "vmess"} THEN "vectored" ELSE "single"

(* The target's stream, or the UDP association, or the error.              *)
relay_with_idle_timeout_and_egress ==
  /\ relay = "dialing" /\ result # "dialing"
  /\ relay' = IF result # "connected" THEN "failed"
              ELSE IF job.purpose = "tcp" THEN "running" ELSE "associated"
  /\ inner' = TcpProxyTargetStream
  /\ DialForgotten
  /\ UNCHANGED <<side, upVars, down, buffers, current, written, ahead, read, received, session_vars>>

Over ==
  /\ relay \notin {"dialing", "running"} /\ (relay = "udp" => ~Running)
  /\ UNCHANGED stream_vars

StreamNext ==
  \/ relay = "dialing" /\ DialNext /\ UNCHANGED <<relay_vars, session_vars>>
  \/ relay_with_idle_timeout_and_egress
  \/ RelayNext /\ UNCHANGED <<dial_vars, session_vars>>
  \/ relay = "udp" /\ SessionNext /\ UNCHANGED <<relay_vars, dial_vars>>
  \/ Over

StreamSpec ==
  /\ StreamInit /\ [][StreamNext]_stream_vars
  /\ DialFairness /\ RelayFairness /\ WF_stream_vars(relay_with_idle_timeout_and_egress)
  /\ SessionFairness

(* No stage of a proxy stream goes on for ever on its own: a dial ends     *)
(* (but for a silent proxy without a timer), a write to a side that takes  *)
(* nothing more ends by the stall timeout, and a UDP session ends (but for *)
(* the waits without a timeout).                                           *)
StreamEnds == DialEnds /\ StalledWriteEnds /\ SessionEnds

=============================================================================
