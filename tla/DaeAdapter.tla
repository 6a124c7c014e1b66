----------------------------- MODULE DaeAdapter -----------------------------
(***************************************************************************)
(* The dae adapter: a connector that dials one QUIC connection for every   *)
(* TCP stream or UDP association it opens, the hooks it calls, and the     *)
(* counters they keep.  A hook adds to separate atomics and then calls the *)
(* host back, so the hooks of calls on different threads interleave.       *)
(***************************************************************************)
EXTENDS Naturals, FiniteSets, Sequences, FiniteSetsExt

CONSTANTS
  Calls,      \* calls of connect_tcp and connect_udp, each made once
  Targets,    \* the target strings they are given
  Servers,    \* the configured server: an address, or what its name resolves to
  MaxBytes    \* bound: bytes a stream or an association moves each way

VARIABLES
  call,       \* where each call, and the stream it returns, is
  half,       \* the sending half of each stream
  counters,   \* DaeMetricsInner
  moved,      \* history: bytes each stream sent and received
  told        \* history: states reported to on_connection_event, by call

dae_vars == <<call, half, counters, moved, told>>

DaeInit ==
  /\ call = [c \in Calls |-> "idle"]
  /\ half = [c \in Calls |-> "none"]
  /\ counters = [opened |-> 0, closed |-> 0, failed |-> 0, open |-> 0, sent |-> 0, received |-> 0]
  /\ moved = [c \in Calls |-> [sent |-> 0, received |-> 0]]
  /\ told = [c \in Calls |-> <<>>]

Goes(c, from, to) == call[c] = from /\ call' = [call EXCEPT ![c] = to]

(* An address, or a host and a port after the last colon.                  *)
DaeProxyTarget_parse(t) ==
  IF t.socket_addr THEN "ip"
  ELSE IF t.host \in {"no_colon", "empty", "bracketed"} \/ t.port # "number" THEN "invalid"
  ELSE "domain"

(* The target is parsed first; a bad one fails at once.                    *)
connect(c) ==
  /\ \E t \in Targets :
       Goes(c, "idle", IF DaeProxyTarget_parse(t) = "invalid" THEN "failing" ELSE "dialing")
  /\ UNCHANGED <<half, counters, moved, told>>

(* The first address of a name, whatever its family.                       *)
resolve_server_addr(s) == IF s = <<>> THEN "none" ELSE Head(s)
local_client_bind_addr(addr) == IF addr = "v4" THEN "v4" ELSE "v6"

(* Server address, endpoint of its family, handshake and authentication.   *)
connect_authenticated(c) ==
  /\ \E s \in Servers, next \in {"opening", "failing"} :
       /\ next = "opening" => local_client_bind_addr(resolve_server_addr(s)) = resolve_server_addr(s)
       /\ Goes(c, "dialing", next)
  /\ UNCHANGED <<half, counters, moved, told>>

(* The proxy stream, to an address or a name.                              *)
open_proxy_stream(c) ==
  /\ \/ Goes(c, "opening", "failing") /\ UNCHANGED half
     \/ /\ Goes(c, "opening", "hooked")
        /\ \E net \in {"tcp", "udp"} : half' = [half EXCEPT ![c] = net]
  /\ UNCHANGED <<counters, moved, told>>

(* The host drops the future while it waits: no hook is called.            *)
connect_dropped(c) ==
  /\ \E from \in {"dialing", "opening"} : Goes(c, from, "dropped")
  /\ UNCHANGED <<half, counters, moved, told>>

on_connection_event(c, state) == told' = [told EXCEPT ![c] = Append(@, state)]

connection_failed(c) ==
  /\ \/ /\ Goes(c, "failing", "failed")
        /\ counters' = [counters EXCEPT !.failed = @ + 1] /\ UNCHANGED told
     \/ Goes(c, "failed", "told") /\ on_connection_event(c, "Failed") /\ UNCHANGED counters
  /\ UNCHANGED <<half, moved>>

(* Two counters in turn, then the host; the stream is returned after.      *)
connection_opened(c) ==
  /\ \/ /\ Goes(c, "hooked", "counted")
        /\ counters' = [counters EXCEPT !.opened = @ + 1] /\ UNCHANGED told
     \/ /\ Goes(c, "counted", "gauged")
        /\ counters' = [counters EXCEPT !.open = @ + 1] /\ UNCHANGED told
     \/ Goes(c, "gauged", "open") /\ on_connection_event(c, "Open") /\ UNCHANGED counters
  /\ UNCHANGED <<half, moved>>

(* The count follows the transfer, in the same poll.                       *)
count_bytes(c, way, n) ==
  /\ moved[c][way] + n <= MaxBytes
  /\ moved' = [moved EXCEPT ![c][way] = @ + n]
  /\ counters' = [counters EXCEPT ![way] = @ + n]

(* A stream moves any number of bytes; its sending half may be shut down.  *)
tcp_poll(c) ==
  /\ call[c] = "open" /\ half[c] \in {"tcp", "tcp_finished"}
  /\ \/ half[c] = "tcp" /\ (\E n \in 1..MaxBytes : count_bytes(c, "sent", n)) /\ UNCHANGED half
     \/ (\E n \in 1..MaxBytes : count_bytes(c, "received", n)) /\ UNCHANGED half
     \/ half[c] = "tcp" /\ half' = [half EXCEPT ![c] = "tcp_finished"] /\ UNCHANGED <<moved, counters>>
  /\ UNCHANGED <<call, told>>

\* Slip: a datagram is counted before its size is held against the buffer.
udp_recv_counts_first(c, len, room) ==
  /\ counters' = [counters EXCEPT !.received = @ + len]
  /\ moved' = IF len <= room THEN [moved EXCEPT ![c].received = @ + len] ELSE moved

(* A datagram larger than the host's buffer is read off the stream and is  *)
(* an error: it is gone, and not counted.                                  *)
udp_recv(c, len, room) ==
  IF len <= room THEN count_bytes(c, "received", len) ELSE UNCHANGED <<moved, counters>>

udp_association(c) ==
  /\ call[c] = "open" /\ half[c] \in {"udp", "udp_finished"}
  /\ \/ /\ half[c] = "udp" /\ (\E n \in 0..MaxBytes : count_bytes(c, "sent", n))
        /\ UNCHANGED half
     \/ (\E len, room \in 0..MaxBytes : udp_recv(c, len, room)) /\ UNCHANGED half
     \/ /\ half[c] = "udp" /\ half' = [half EXCEPT ![c] = "udp_finished"]
        /\ UNCHANGED <<moved, counters>>
  /\ UNCHANGED <<call, told>>

\* Slip: a stream that was finished is counted again when it is dropped.
metrics_closed_twice == [counters EXCEPT !.open = IF @ < 2 THEN 0 ELSE @ - 2]

(* The gauge saturates at zero.                                            *)
metrics_closed == [counters EXCEPT !.open = IF @ = 0 THEN 0 ELSE @ - 1]

(* Drop calls close_once, the only place a stream is closed at.            *)
connection_closed(c) ==
  /\ \/ /\ Goes(c, "open", "closing")
        /\ counters' = [counters EXCEPT !.closed = @ + 1] /\ UNCHANGED told
     \/ Goes(c, "closing", "closed") /\ counters' = metrics_closed /\ UNCHANGED told
     \/ Goes(c, "closed", "told") /\ on_connection_event(c, "Closed") /\ UNCHANGED counters
  /\ UNCHANGED <<half, moved>>

DaeNext ==
  \E c \in Calls :
    \/ connect(c) \/ connect_authenticated(c) \/ open_proxy_stream(c) \/ connect_dropped(c)
    \/ connection_failed(c) \/ connection_opened(c) \/ connection_closed(c)
    \/ tcp_poll(c) \/ udp_association(c)

-----------------------------------------------------------------------------
(* The adapter's counters agree with what the host was told, however the   *)
(* hooks of different threads interleave: an event is never ahead of its   *)
(* counter, each stream is opened and closed once, the gauge never         *)
(* saturates, when no hook is running all of them are equal, and the bytes *)
(* counted are those the host gave and got, a lost datagram not among them. *)
DaeCounts ==
  LET Told(state) == Cardinality({c \in Calls : \E i \in 1..Len(told[c]) : told[c][i] = state})
      running == {c \in Calls : call[c] \in {"counted", "gauged", "closing", "closed", "failed"}}
  IN /\ \A c \in Calls : told[c] \in {<<>>, <<"Failed">>, <<"Open">>, <<"Open", "Closed">>}
     /\ counters.opened >= Told("Open") /\ counters.closed >= Told("Closed")
     /\ counters.failed >= Told("Failed") /\ counters.closed <= counters.opened
     /\ counters.sent = MapThenSumSet(LAMBDA c : moved[c].sent, Calls)
     /\ counters.received = MapThenSumSet(LAMBDA c : moved[c].received, Calls)
     /\ running = {} =>
          /\ counters.opened = Told("Open") /\ counters.closed = Told("Closed")
          /\ counters.failed = Told("Failed") /\ counters.open = Told("Open") - Told("Closed")

=============================================================================
