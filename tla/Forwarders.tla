----------------------------- MODULE Forwarders -----------------------------
(***************************************************************************)
(* The users of a SharedQuicDialer.  A dialer belongs either to the mixed  *)
(* listener, whose relay tasks share it, or to one TcpForwarder or one     *)
(* UdpForwarder, whose single loop is its only user.  A forwarder's loop   *)
(* serves one local connection, or one local datagram, at a time, redials  *)
(* once when a stream cannot be opened, and ends at the first error that   *)
(* is left.  The UDP loop keeps one stream per local peer until it is idle.*)
(***************************************************************************)
EXTENDS SharedQuicDialer, FiniteSets

CONSTANTS
  Loop,        \* the forwarder's loop, as a user of its dialer
  Peers,       \* local UDP sources
  MaxStreams   \* bound: streams a forwarder ever opens

ASSUME ForwarderAssumption == Loop \in Users /\ MaxStreams \in Nat

VARIABLES
  kind,          \* who owns the dialer
  loop,          \* where the forwarder's loop is
  peer,          \* local source of the connection or datagram being served
  errors,        \* stream-open errors met for it
  dial_failed,   \* a dial for it failed
  shutdown,      \* the shutdown future has resolved
  stream,        \* each stream opened so far: its connection and state
  associations,  \* UDP: local peer -> stream
  idle           \* peers whose last_used is a timeout or more ago

fwdVars == <<kind, loop, peer, errors, dial_failed, shutdown, stream,
             associations, idle>>
allVars == <<vars, fwdVars>>
reqVars == <<kind, peer, shutdown>>
udpVars == <<associations, idle>>

FInit(kinds) ==
  /\ Init
  /\ kind \in kinds
  /\ loop = "select"
  /\ peer = NONE
  /\ errors = 0
  /\ dial_failed = FALSE
  /\ shutdown = FALSE
  /\ stream = <<>>
  /\ associations = [p \in {} |-> 0]
  /\ idle = {}

Returned == loop \in {"returned_ok", "returned_err"}

(* The streams after those in S were finished, or dropped, which finishes. *)
Finish(S) == [s \in DOMAIN stream |->
                IF s \in S THEN [stream[s] EXCEPT !.state = "finished"]
                           ELSE stream[s]]

Without(f, S) == [p \in DOMAIN f \ S |-> f[p]]

-----------------------------------------------------------------------------
(* open_tcp_stream_with_reconnect and open_udp_stream_with_reconnect.      *)

(* The first get_connection of a request.                                  *)
StartOpen ==
  /\ user[Loop] \in {"idle", "over"}
  /\ user' = [user EXCEPT ![Loop] = "get"]
  /\ queue' = Append(queue, Loop)
  /\ held' = [held EXCEPT ![Loop] = NONE]
  /\ UNCHANGED <<cache, dialed, dead, given_up>>
  /\ loop' = "opening"
  /\ errors' = 0
  /\ dial_failed' = FALSE

(* An error that is left ends the loop: the map, and its streams, are      *)
(* dropped with it.                                                        *)
ReturnErr ==
  /\ loop' = "returned_err"
  /\ stream' = Finish(DOMAIN stream)
  /\ associations' = [p \in {} |-> 0]
  /\ idle' = {}

GetConnection ==
  /\ loop = "opening"
  /\ \/ get_connection_cached(Loop) \/ get_connection_dials(Loop)
     \/ dial_ok(Loop)
  /\ UNCHANGED fwdVars

GetConnectionFails ==
  /\ loop = "opening"
  /\ dial_err(Loop)
  /\ dial_failed' = TRUE
  /\ ReturnErr
  /\ UNCHANGED <<reqVars, errors>>

\* Slip: the second attempt is not made.
OpenFailsFirst_gives_up ==
  /\ loop = "opening"
  /\ errors = 0
  /\ open_err(Loop)
  /\ errors' = 1
  /\ ReturnErr
  /\ UNCHANGED <<reqVars, dial_failed>>

OpenFailsFirst ==
  /\ loop = "opening"
  /\ errors = 0
  /\ open_err(Loop)
  /\ errors' = 1
  /\ UNCHANGED <<reqVars, dial_failed, loop, stream, udpVars>>

Invalidate ==
  /\ loop = "opening"
  /\ invalidate(Loop)
  /\ UNCHANGED fwdVars

(* The second get_connection follows in the same task.                     *)
Reconnect ==
  /\ loop = "opening"
  /\ errors = 1
  /\ user[Loop] = "over"
  /\ user' = [user EXCEPT ![Loop] = "get"]
  /\ queue' = Append(queue, Loop)
  /\ UNCHANGED <<cache, dialed, dead, held, given_up, fwdVars>>

(* The first error is returned; the cache keeps the second connection.     *)
OpenFailsSecond ==
  /\ loop = "opening"
  /\ errors = 1
  /\ user[Loop] = "open"
  /\ user' = [user EXCEPT ![Loop] = "over"]
  /\ errors' = 2
  /\ ReturnErr
  /\ UNCHANGED <<reqVars, dial_failed, cache, queue, dialed, dead, held, given_up>>

(* TCP: the relay starts.  UDP: the association is inserted.               *)
OpenOk ==
  /\ loop = "opening"
  /\ Len(stream) < MaxStreams
  /\ open_ok(Loop)
  /\ stream' = Append(stream, [conn |-> held[Loop], state |-> "open"])
  /\ IF kind = "tcp"
     THEN loop' = "relaying" /\ UNCHANGED udpVars
     ELSE /\ loop' = "sending"
          /\ associations' = [p \in DOMAIN associations \cup {peer} |->
                                IF p = peer THEN Len(stream) + 1
                                            ELSE associations[p]]
          /\ UNCHANGED idle
  /\ UNCHANGED <<reqVars, errors, dial_failed>>

open_with_reconnect ==
  \/ GetConnection \/ GetConnectionFails \/ OpenFailsFirst \/ Invalidate
  \/ Reconnect \/ OpenFailsSecond \/ OpenOk

-----------------------------------------------------------------------------
(* TcpForwarder::run_tcp_forward_loop_until.                               *)

TcpAccept ==
  /\ kind = "tcp"
  /\ loop = "select"
  /\ Len(stream) < MaxStreams
  /\ StartOpen
  /\ UNCHANGED <<reqVars, stream, udpVars>>

(* relay_local_tcp_stream ends: both directions finished, or one failed,   *)
(* which drops the other and ends the loop.                                *)
TcpRelayEnds ==
  /\ loop = "relaying"
  /\ stream' = Finish(DOMAIN stream)
  /\ loop' \in {"select", "returned_err"}
  /\ UNCHANGED <<vars, reqVars, errors, dial_failed, udpVars>>

\* Slip: shutdown is looked at between two relays only.
TcpShutdown_between_relays ==
  /\ kind = "tcp"
  /\ shutdown
  /\ loop = "select"
  /\ loop' = "returned_ok"
  /\ UNCHANGED <<vars, reqVars, errors, dial_failed, stream, udpVars>>

(* The shutdown arm drops the other arm wherever it waits.                 *)
TcpShutdown ==
  /\ kind = "tcp"
  /\ shutdown
  /\ ~Returned
  /\ loop' = "returned_ok"
  /\ stream' = Finish(DOMAIN stream)
  /\ Leave(Loop, "over")
  /\ UNCHANGED <<cache, dialed, dead, held, given_up, reqVars, errors,
                 dial_failed, udpVars>>

-----------------------------------------------------------------------------
(* UdpForwarder::run_udp_forward_loop_until.                               *)

(* finish_idle_udp_associations, up to what happens to the map afterwards. *)
finish_idle_udp_associations ==
  /\ stream' = Finish({associations[p] : p \in idle})
  /\ associations' = Without(associations, idle)
  /\ idle' = {}

CleanupTick ==
  /\ kind = "udp"
  /\ loop = "select"
  /\ idle # {}
  /\ finish_idle_udp_associations
  /\ UNCHANGED <<vars, reqVars, loop, errors, dial_failed>>

RecvFrom(p) ==
  /\ kind = "udp"
  /\ loop = "select"
  /\ peer' = p
  /\ finish_idle_udp_associations
  /\ IF p \in DOMAIN associations \ idle
     THEN loop' = "sending" /\ UNCHANGED <<vars, errors, dial_failed>>
     ELSE Len(stream) < MaxStreams /\ StartOpen
  /\ UNCHANGED <<kind, shutdown>>

(* forward_payload_on_association: the send, which fails when the stream's *)
(* connection has died, then the answer, which may never come.             *)
SendDatagram ==
  /\ loop = "sending"
  /\ stream[associations[peer]].conn \notin dead
  /\ idle' = idle \ {peer}
  /\ loop' = "answer"
  /\ UNCHANGED <<vars, reqVars, errors, dial_failed, stream, associations>>

RecvDatagram ==
  /\ loop = "answer"
  /\ idle' = idle \ {peer}
  /\ loop' = "select"
  /\ UNCHANGED <<vars, reqVars, errors, dial_failed, stream, associations>>

StreamFails ==
  /\ loop \in {"sending", "answer"}
  /\ ReturnErr
  /\ UNCHANGED <<vars, reqVars, errors, dial_failed>>

\* Slip: the associations that are not idle yet are left to the peer.
finish_all_but_fresh ==
  /\ stream' = Finish({associations[p] : p \in idle})
  /\ associations' = [p \in {} |-> 0]

finish_all_udp_associations ==
  /\ stream' = Finish({associations[p] : p \in DOMAIN associations})
  /\ associations' = [p \in {} |-> 0]

(* Shutdown is only seen in the select!, never inside the receive arm.     *)
UdpShutdown ==
  /\ kind = "udp"
  /\ loop = "select"
  /\ shutdown
  /\ finish_all_udp_associations
  /\ idle' = {}
  /\ loop' = "returned_ok"
  /\ UNCHANGED <<vars, reqVars, errors, dial_failed>>

-----------------------------------------------------------------------------
ShutdownRequested ==
  /\ kind # "mixed"
  /\ ~shutdown
  /\ shutdown' = TRUE
  /\ UNCHANGED <<vars, kind, loop, peer, errors, dial_failed, stream, udpVars>>

(* A timeout passes since the last_used of an association.                 *)
TimePasses(p) ==
  /\ p \in DOMAIN associations \ idle
  /\ idle' = idle \cup {p}
  /\ UNCHANGED <<vars, reqVars, loop, errors, dial_failed, stream, associations>>

Tcp == TcpAccept \/ TcpRelayEnds \/ TcpShutdown

Udp ==
  \/ CleanupTick \/ SendDatagram \/ RecvDatagram \/ StreamFails \/ UdpShutdown
  \/ \E p \in Peers : RecvFrom(p) \/ TimePasses(p)

FNext ==
  \/ kind = "mixed" /\ Next /\ UNCHANGED fwdVars
  \/ kind # "mixed" /\ ~Returned /\ ConnectionDies /\ UNCHANGED fwdVars
  \/ open_with_reconnect
  \/ Tcp
  \/ Udp
  \/ ShutdownRequested
  \/ Returned /\ UNCHANGED allVars

(* Tasks keep running and a dial ends.  select! polls its arms in random   *)
(* order, so an arm that is ready again and again is taken: a busy socket  *)
(* cannot keep the loop from its other arms.  No answer, and no end of a   *)
(* relay, is owed by anyone.                                               *)
FFairness ==
  /\ WF_allVars(open_with_reconnect)
  /\ WF_allVars(SendDatagram \/ (loop = "sending" /\ StreamFails))
  /\ SF_allVars(TcpShutdown) /\ SF_allVars(UdpShutdown)

FSpec == FInit({"mixed", "tcp", "udp"}) /\ [][FNext]_allVars

-----------------------------------------------------------------------------
(* "redialing once if the cached connection has died": a request fails     *)
(* only when a dial failed, or when two stream opens did, the second on a  *)
(* connection other than the one that was given up.                        *)
FailsOnlyAfterRedial ==
  [][loop = "opening" /\ loop' = "returned_err" =>
       dial_failed' \/ (errors' = 2 /\ held[Loop] \notin given_up)]_allVars

(* No stream is leaked: the streams that are not finished are the one of   *)
(* each association and the one of the TCP relay in progress.  So when the *)
(* loop returns, all of them are finished.                                 *)
StreamsAccounted ==
  /\ \A p, q \in DOMAIN associations :
       associations[p] = associations[q] => p = q
  /\ {s \in DOMAIN stream : stream[s].state = "open"} =
       IF loop = "relaying" THEN {Len(stream)}
       ELSE {associations[p] : p \in DOMAIN associations}

(* A forwarder asked to shut down returns, whether it is dialing, relaying *)
(* or flooded; only a UDP loop that waits for an answer may stay there.    *)
ShutdownReturns ==
  (shutdown /\ kind # "mixed") ~> (Returned \/ loop = "answer")

=============================================================================
