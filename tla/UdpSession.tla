------------------------------ MODULE UdpSession ------------------------------
(***************************************************************************)
(* One UDP-over-stream session of the server: datagram frames from a QUIC  *)
(* stream of the client are sent to their targets and the replies are      *)
(* written back, each under the address of its sender.                     *)
(* relay_direct_udp_over_stream_session does it with a socket of its own;  *)
(* relay_udp_over_stream_session goes through an upstream proxy, one       *)
(* request and one reply at a time, over an association that is kept for   *)
(* the session or made anew for each target, as the kind of proxy demands. *)
(* Targets, proxies and the client are external.  How an association is    *)
(* set up is DialerEgress's subject: here it succeeds or fails.            *)
(***************************************************************************)
EXTENDS Integers, Sequences

CONSTANTS Targets,     \* addresses that datagrams can be sent to
          Kinds,       \* "direct" and the kinds of upstream proxy
          Addresses,   \* what a target can resolve to: families, in order
          Sources,     \* the family of send_through, or "any"
          MaxFrames,   \* bound on the client's datagrams
          MaxReplies   \* bound on the replies of the targets

ASSUME SessionAssumption ==
    /\ Kinds \subseteq {"direct", "socks5", "socks5_shadowsocks", "shadowsocks_socks5", "shadowsocks",
                        "trojan", "vless", "vmess", "tuic", "hysteria2", "juicity", "http"}
    /\ Addresses \subseteq Seq({"v4", "v6"}) /\ Sources \subseteq {"any", "v4", "v6"}
    /\ MaxFrames \in Nat /\ MaxReplies \in Nat

VARIABLES kind,
          pc,         \* where the session's task stands
          cin, cend,  \* frames under way from the client, and how its stream ends
          stopped,    \* the client no longer reads the responses
          req,        \* the frame being handled
          assoc,      \* the association, or the socket of a direct session
          arrived,    \* datagrams that arrived at it, see Arrival
          reply,      \* the reply being written
          first,      \* the session's first target
          report,     \* bytes_from_client and bytes_from_target, in datagrams
          client_bytes, \* what client_to_target has counted and not yet handed over
          forwarded,  \* history: header and destination of every datagram sent
          responses,  \* history: sender and label of every response written
          frames, replies, \* how many frames and replies there were
          outcome      \* "running", "finished", "closed" or "error"

client == <<cin, cend, stopped, frames>>
counts == <<report, client_bytes, forwarded, responses>>
session_vars == <<kind, pc, client, req, assoc, arrived, reply, first, counts, replies, outcome>>

None == "none"

-----------------------------------------------------------------------------
(* What a request through each kind of proxy does: rebinds, if a new       *)
(* association is made for another header; framed, if replies are frames   *)
(* of a stream, so that a read given up half way leaves it out of step;    *)
(* named, whether each packet names its target or the association did;     *)
(* label, where the address of a response comes from.                      *)

relay_udp_payload_to_target_via_socks5 ==
    [rebinds |-> FALSE, framed |-> FALSE, named |-> "packet", label |-> "sender"]

relay_udp_payload_to_target_via_socks5_shadowsocks_chain ==
    [rebinds |-> FALSE, framed |-> FALSE, named |-> "packet", label |-> "sender"]

relay_udp_payload_to_target_via_shadowsocks_socks5_chain ==
    [rebinds |-> FALSE, framed |-> FALSE, named |-> "packet", label |-> "sender"]

relay_udp_payload_to_target_via_shadowsocks ==
    [rebinds |-> FALSE, framed |-> FALSE, named |-> "packet", label |-> "sender"]

relay_udp_payload_to_target_via_trojan ==
    [rebinds |-> FALSE, framed |-> TRUE, named |-> "packet", label |-> "sender"]

\* Slip: a VLESS association is kept when the target changes.
VlessKept == [rebinds |-> FALSE, framed |-> TRUE, named |-> "association", label |-> "header"]

relay_udp_payload_to_target_via_vless ==
    [rebinds |-> TRUE, framed |-> TRUE, named |-> "association", label |-> "header"]

relay_udp_payload_to_target_via_vmess ==
    [rebinds |-> TRUE, framed |-> TRUE, named |-> "association", label |-> "header"]

relay_udp_payload_to_target_via_tuic ==
    [rebinds |-> TRUE, framed |-> FALSE, named |-> "packet", label |-> "sender"]

relay_udp_payload_to_target_via_hysteria2 ==
    [rebinds |-> TRUE, framed |-> FALSE, named |-> "packet", label |-> "sender"]

relay_udp_payload_to_target_via_juicity ==
    [rebinds |-> TRUE, framed |-> TRUE, named |-> "association", label |-> "sender"]

\* The dispatch of relay_udp_payload_to_target_with_egress and, for chains, of
\* relay_udp_payload_to_target_via_dialer_chain.
Via(k) ==
    CASE k = "socks5" -> relay_udp_payload_to_target_via_socks5
      [] k = "socks5_shadowsocks" -> relay_udp_payload_to_target_via_socks5_shadowsocks_chain
      [] k = "shadowsocks_socks5" -> relay_udp_payload_to_target_via_shadowsocks_socks5_chain
      [] k = "shadowsocks" -> relay_udp_payload_to_target_via_shadowsocks
      [] k = "trojan" -> relay_udp_payload_to_target_via_trojan
      [] k = "vless" -> relay_udp_payload_to_target_via_vless
      [] k = "vmess" -> relay_udp_payload_to_target_via_vmess
      [] k = "tuic" -> relay_udp_payload_to_target_via_tuic
      [] k = "hysteria2" -> relay_udp_payload_to_target_via_hysteria2
      [] k = "juicity" -> relay_udp_payload_to_target_via_juicity

\* HTTP CONNECT and every other chain carry no UDP.
Unsupported == kind = "http"

\* A datagram at the association's socket: the host that sent it, whether it
\* came from the proxy's relay or from elsewhere, and whether it names that host
\* by an address, by a name that can be resolved or by one that cannot.
Arrival(t) == [from : {t}, via : {"relay"}, name : {"address", "known", "unknown"}]
Stray == [from |-> None, via |-> "elsewhere", name |-> "address"]

\* Slip: a datagram is taken whoever sent it.
AnySender(d) == "ok"

\* The relay of a SOCKS5 proxy: other senders are passed over until the second
\* is over, and a name in a reply is resolved.
Socks5UdpRelaySocket_recv_from(d) ==
    IF d.via # "relay" THEN "skip" ELSE IF d.name = "unknown" THEN "error" ELSE "ok"

\* Names in the replies of other proxies are resolved too, or refused where the
\* answer has to be an address.
shadowsocks_address_to_socket_addr(d) == IF d.name = "unknown" THEN "error" ELSE "ok"
read_trojan_udp_metadata(d) == IF d.name = "unknown" THEN "error" ELSE "ok"
decode_tuic_udp_target(d) == IF d.name = "unknown" THEN "error" ELSE "ok"
decode_hysteria2_udp_packet(d) == IF d.name # "address" THEN "error" ELSE "ok"

udp_ip_header_target(d) == IF d.name # "address" THEN "error" ELSE "ok"
recv_datagram(d) == udp_ip_header_target(d)

\* SOCKS5 under Shadowsocks: the name has to be that of the Shadowsocks proxy,
\* resolved when the association was made.
poll_recv_socks5_datagram(d) ==
    IF d.via # "relay" THEN "skip" ELSE IF d.name = "unknown" THEN "error" ELSE "ok"

Socks5Kinds == {"socks5", "socks5_shadowsocks", "shadowsocks_socks5"}
Nameless == {"direct", "vless", "vmess"}

Taken(d) ==
    CASE kind \in {"socks5", "socks5_shadowsocks"} -> Socks5UdpRelaySocket_recv_from(d)
      [] kind = "shadowsocks_socks5" -> poll_recv_socks5_datagram(d)
      [] kind = "shadowsocks" -> shadowsocks_address_to_socket_addr(d)
      [] kind = "trojan" -> read_trojan_udp_metadata(d)
      [] kind = "tuic" -> decode_tuic_udp_target(d)
      [] kind = "hysteria2" -> decode_hysteria2_udp_packet(d)
      [] kind = "juicity" -> recv_datagram(d)
      [] OTHER -> "ok"

NoAssoc == [header |-> None, bound |-> {}, answered |-> FALSE, cut |-> FALSE,
            untried |-> <<>>, source |-> "any", family |-> None, socket |-> None]

NeedsNewAssociation ==
    \/ assoc = NoAssoc
    \/ Via(kind).rebinds /\ assoc.header # req

-----------------------------------------------------------------------------
SessionInit(kinds) ==
    /\ kind \in kinds
    /\ pc = IF kind = "direct" THEN "first" ELSE "read"
    /\ cin = <<>> /\ cend = "open" /\ stopped = FALSE /\ frames = 0 /\ replies = 0
    /\ req = None /\ assoc = NoAssoc /\ arrived = <<>> /\ reply = None /\ first = None
    /\ report = [from_client |-> 0, from_target |-> 0] /\ client_bytes = 0
    /\ forwarded = <<>> /\ responses = <<>> /\ outcome = IF kind \in Kinds THEN "running" ELSE "none"

Goto(label) == pc' = label /\ UNCHANGED outcome
EndsWith(r) == outcome' = r /\ UNCHANGED pc
Running == outcome = "running"

\* A stream that ends inside a frame ends like one that ends after it when it
\* stops between two fields: read_exact reports FinishedEarly(0) there too.
FinishedEarly0 == cin = <<>> /\ cend \in {"finished", "cut_at_field"}

\* The loop's end: without a datagram there is nothing to report.
SessionReturns(r) == EndsWith(IF first = None THEN "error" ELSE r)

ReadFrame ==
    /\ Running /\ pc = "read" /\ cin # <<>>
    /\ req' = Head(cin) /\ cin' = Tail(cin)
    /\ IF Unsupported THEN EndsWith("error") ELSE Goto("associate")
    /\ UNCHANGED <<kind, cend, stopped, frames, assoc, arrived, reply, first, counts, replies>>

\* Slip: the wait for a frame has no timeout.
NoIdleTimeout ==
    /\ Running /\ pc = "read" /\ cin = <<>> /\ FinishedEarly0
    /\ SessionReturns("finished")
    /\ UNCHANGED <<kind, client, req, assoc, arrived, reply, first, counts, replies>>

\* The client's stream finishes, or nothing comes for the idle timeout.
ReadEnds ==
    /\ Running /\ pc = "read" /\ cin = <<>>
    /\ FinishedEarly0 \/ cend = "open"
    /\ SessionReturns("finished")
    /\ UNCHANGED <<kind, client, req, assoc, arrived, reply, first, counts, replies>>

ReadFails ==
    /\ Running /\ pc = "read"
    /\ \/ cend = "lost" /\ SessionReturns("closed")
       \/ cend = "cut" /\ cin = <<>> /\ EndsWith("error")
    /\ UNCHANGED <<kind, client, req, assoc, arrived, reply, first, counts, replies>>

\* A new association drops the old one, with what had arrived for it.
Associate ==
    /\ Running /\ pc = "associate"
    /\ IF NeedsNewAssociation
       THEN assoc' = [NoAssoc EXCEPT !.header = req] /\ arrived' = <<>>
       ELSE UNCHANGED <<assoc, arrived>>
    /\ Goto("send")
    /\ UNCHANGED <<kind, client, req, reply, first, counts, replies>>

AssociateFails ==
    /\ Running /\ pc = "associate" /\ NeedsNewAssociation
    /\ EndsWith("error")
    /\ UNCHANGED <<kind, client, req, assoc, arrived, reply, first, counts, replies>>

Destination == IF Via(kind).named = "association" THEN assoc.header ELSE req

SendRequest ==
    /\ Running /\ pc = "send"
    /\ \/ /\ assoc' = [assoc EXCEPT !.bound = @ \cup {Destination}]
          /\ forwarded' = Append(forwarded, [header |-> req, to |-> Destination])
          /\ Goto(IF kind = "vmess" /\ ~assoc.answered THEN "response_header" ELSE "await")
       \/ EndsWith("error") /\ UNCHANGED <<assoc, forwarded>>
    /\ UNCHANGED <<kind, client, req, arrived, reply, first, report, client_bytes, responses,
                   replies>>

\* The VMess response header precedes the first reply; no timeout is around it.
read_vmess_response_header ==
    /\ Running /\ pc = "response_header"
    /\ \/ assoc' = [assoc EXCEPT !.answered = TRUE] /\ Goto("await")
       \/ EndsWith("error") /\ UNCHANGED assoc
    /\ UNCHANGED <<kind, client, req, arrived, reply, first, counts, replies>>

ReplyRead ==
    /\ Running /\ pc = "await" /\ arrived # <<>> /\ Taken(Head(arrived)) = "ok"
    /\ arrived' = Tail(arrived)
    /\ reply' = [from |-> Head(arrived).from,
                 label |-> IF Via(kind).label = "header" THEN req ELSE Head(arrived).from]
    /\ first' = IF first = None THEN req ELSE first
    /\ report' = [from_client |-> report.from_client + 1, from_target |-> report.from_target + 1]
    /\ Goto("write")
    /\ UNCHANGED <<kind, client, req, assoc, client_bytes, forwarded, responses, replies>>

ReplySkipped ==
    /\ Running /\ pc = "await" /\ arrived # <<>> /\ Taken(Head(arrived)) = "skip"
    /\ arrived' = Tail(arrived)
    /\ UNCHANGED <<kind, pc, client, req, assoc, reply, first, counts, replies, outcome>>

\* Slip: after the reply's second the session goes on with the next request.
TimeoutSkips ==
    /\ Running /\ pc = "await"
    /\ assoc' = [assoc EXCEPT !.cut = Via(kind).framed /\ arrived # <<>>]
    /\ Goto("read")
    /\ UNCHANGED <<kind, client, req, arrived, reply, first, counts, replies>>

\* The reply's second passes, perhaps in the middle of a frame; or the reply
\* cannot be decoded.  Either ends the session.
ReplyFails ==
    /\ Running /\ pc = "await"
    /\ assoc' = [assoc EXCEPT !.cut = Via(kind).framed /\ arrived # <<>>]
    /\ EndsWith("error")
    /\ UNCHANGED <<kind, client, req, arrived, reply, first, counts, replies>>

Deliver == responses' = Append(responses, reply)

WriteResponse ==
    /\ Running /\ pc = "write" /\ cend # "lost" /\ ~stopped
    /\ Deliver /\ Goto("read")
    /\ UNCHANGED <<kind, client, req, assoc, arrived, reply, first, report, client_bytes, forwarded,
                   replies>>

WriteFails ==
    /\ Running /\ pc \in {"write", "direct_write"} /\ (cend = "lost" \/ stopped)
    /\ EndsWith("error")
    /\ UNCHANGED <<kind, client, req, assoc, arrived, reply, first, counts, replies>>

-----------------------------------------------------------------------------
(* The direct session: one socket, one target, two directions at once.     *)

udp_relay_bind_addr(family) == IF assoc.source = "any" THEN family ELSE assoc.source

\* Slip: the socket bound for the first address is kept for the others.
FirstSocket(family) == IF assoc.socket = None THEN udp_relay_bind_addr(family) ELSE assoc.socket

\* The socket for an address: one for another family is made anew.
RelaySocket(family) == IF assoc.family # family THEN udp_relay_bind_addr(family) ELSE assoc.socket

\* The first frame is read and its target resolved, in the order of the lookup.
udp_header_targets ==
    /\ Running /\ pc = "first" /\ cin # <<>> /\ cin' = Tail(cin)
    /\ \/ /\ \E addresses \in Addresses, source \in Sources :
               assoc' = [NoAssoc EXCEPT !.header = Head(cin), !.untried = addresses, !.source = source]
          /\ Goto("addresses")
       \/ EndsWith("error") /\ UNCHANGED assoc
    /\ UNCHANGED <<kind, cend, stopped, frames, req, arrived, reply, first, counts, replies>>

\* An address that the source configured for the server does not allow is passed
\* over; one that cannot be sent to is followed by the next; no socket is an error.
send_udp_payload_to_target_with_socket ==
    /\ Running /\ pc = "addresses" /\ assoc.untried # <<>>
    /\ LET family == Head(assoc.untried)
           attempt == [assoc EXCEPT !.untried = Tail(@), !.family = family, !.socket = RelaySocket(family)]
       IN  \/ /\ assoc.source \notin {"any", family}
              /\ assoc' = [assoc EXCEPT !.untried = Tail(@)]
              /\ UNCHANGED <<pc, outcome, first, forwarded, report>>
           \/ /\ assoc.source \in {"any", family}
              /\ \/ /\ assoc' = [attempt EXCEPT !.bound = {assoc.header}, !.untried = <<>>, !.source = "any"]
                    /\ first' = assoc.header
                    /\ forwarded' = Append(forwarded, [header |-> assoc.header, to |-> assoc.header])
                    /\ report' = [report EXCEPT !.from_client = 1]
                    /\ Goto("relay")
                 \/ assoc' = attempt /\ UNCHANGED <<pc, outcome, first, forwarded, report>>
                 \/ EndsWith("error") /\ UNCHANGED <<assoc, first, forwarded, report>>
    /\ UNCHANGED <<kind, client, req, arrived, reply, client_bytes, responses, replies>>

NoUsableUdpTarget ==
    /\ Running /\ pc = "addresses" /\ assoc.untried = <<>>
    /\ EndsWith("error")
    /\ UNCHANGED <<kind, client, req, assoc, arrived, reply, first, counts, replies>>

NoFirstFrame ==
    /\ Running /\ pc = "first" /\ (cin = <<>> \/ cend = "lost")
    /\ EndsWith("error")
    /\ UNCHANGED <<kind, client, req, assoc, arrived, reply, first, counts, replies>>

\* Slip: a later frame's header chooses the target again.
Retarget ==
    /\ Running /\ pc = "relay" /\ cin # <<>> /\ cin' = Tail(cin)
    /\ forwarded' = Append(forwarded, [header |-> Head(cin), to |-> Head(cin)])
    /\ client_bytes' = client_bytes + 1
    /\ UNCHANGED <<kind, pc, cend, stopped, frames, req, assoc, arrived, reply, first, report,
                   responses, replies, outcome>>

\* client_to_target sends every later frame to the first one's target.
ClientToTarget ==
    /\ Running /\ pc = "relay" /\ cin # <<>> /\ cin' = Tail(cin)
    /\ forwarded' = Append(forwarded, [header |-> Head(cin), to |-> first])
    /\ client_bytes' = client_bytes + 1
    /\ UNCHANGED <<kind, pc, cend, stopped, frames, req, assoc, arrived, reply, first, report,
                   responses, replies, outcome>>

\* client_to_target ends: Finished drains the target's replies, Idle and
\* ConnectionLost do not; a frame that is cut short, or a send that fails, is an
\* error.
ClientToTargetExit ==
    /\ Running /\ pc = "relay"
    /\ \/ FinishedEarly0 /\ Goto("drain")
       \/ cin = <<>> /\ cend = "open" /\ EndsWith("finished")
       \/ cend = "lost" /\ EndsWith("closed")
       \/ cin = <<>> /\ cend = "cut" /\ EndsWith("error")
    /\ report' = [report EXCEPT !.from_client = @ + client_bytes] /\ client_bytes' = 0
    /\ UNCHANGED <<kind, client, req, assoc, arrived, reply, first, forwarded, responses, replies>>

\* While a response is being written the client's half is not polled.
TargetToClient ==
    /\ Running /\ pc = "relay" /\ arrived # <<>>
    /\ arrived' = Tail(arrived) /\ reply' = [from |-> Head(arrived).from, label |-> Head(arrived).from]
    /\ report' = [report EXCEPT !.from_target = @ + 1]
    /\ Goto("direct_write")
    /\ UNCHANGED <<kind, client, req, assoc, first, client_bytes, forwarded, responses, replies>>

DirectWrite ==
    /\ Running /\ pc = "direct_write" /\ cend # "lost" /\ ~stopped
    /\ Deliver /\ Goto("relay")
    /\ UNCHANGED <<kind, client, req, assoc, arrived, reply, first, report, client_bytes, forwarded,
                   replies>>

SocketFails ==
    /\ Running /\ pc \in {"relay", "drain"}
    /\ EndsWith("error")
    /\ UNCHANGED <<kind, client, req, assoc, arrived, reply, first, counts, replies>>

DrainReply ==
    /\ Running /\ pc = "drain" /\ arrived # <<>>
    /\ arrived' = Tail(arrived) /\ reply' = [from |-> Head(arrived).from, label |-> Head(arrived).from]
    /\ Goto("drain_write")
    /\ UNCHANGED <<kind, client, req, assoc, first, counts, replies>>

\* Slip: a reply is counted before it is written.
CountFirst ==
    /\ Running /\ pc = "drain_write"
    /\ report' = [report EXCEPT !.from_target = @ + 1]
    /\ IF cend = "lost" \/ stopped THEN EndsWith("closed") /\ UNCHANGED responses
                                   ELSE Goto("drain") /\ Deliver
    /\ UNCHANGED <<kind, client, req, assoc, arrived, reply, first, client_bytes, forwarded, replies>>

DrainWrite ==
    /\ Running /\ pc = "drain_write"
    /\ IF cend = "lost" \/ stopped
       THEN EndsWith("closed") /\ UNCHANGED <<report, responses>>
       ELSE Goto("drain") /\ Deliver /\ report' = [report EXCEPT !.from_target = @ + 1]
    /\ UNCHANGED <<kind, client, req, assoc, arrived, reply, first, client_bytes, forwarded, replies>>

\* The client stopped reading or is gone, or no reply came for the idle timeout.
DrainEnds ==
    /\ Running /\ pc = "drain"
    /\ \/ (stopped \/ cend = "lost") /\ EndsWith("closed")
       \/ arrived = <<>> /\ EndsWith("finished")
    /\ UNCHANGED <<kind, client, req, assoc, arrived, reply, first, counts, replies>>

-----------------------------------------------------------------------------
(* The client and the targets.                                             *)

ClientSends ==
    /\ Running /\ cend = "open" /\ frames < MaxFrames
    /\ \E t \in Targets : cin' = Append(cin, t)
    /\ frames' = frames + 1
    /\ UNCHANGED <<kind, pc, cend, stopped, req, assoc, arrived, reply, first, counts, replies, outcome>>

ClientEnds ==
    /\ Running /\ cend # "lost"
    /\ \/ cend = "open" /\ cend' \in {"finished", "cut", "cut_at_field", "lost"} /\ UNCHANGED stopped
       \/ cend # "open" /\ cend' = "lost" /\ UNCHANGED stopped
       \/ ~stopped /\ stopped' = TRUE /\ UNCHANGED cend
    /\ UNCHANGED <<kind, pc, cin, frames, req, assoc, arrived, reply, first, counts, replies, outcome>>

\* A target that was written to through this association answers, now or late;
\* an unconnected socket is reached by others too.
TargetReplies ==
    /\ Running /\ replies < MaxReplies
    /\ \/ \E t \in assoc.bound : \E d \in Arrival(t) :
            /\ kind \in Nameless => d.name = "address"
            /\ arrived' = Append(arrived, d)
       \/ kind \in Socks5Kinds /\ assoc # NoAssoc /\ arrived' = Append(arrived, Stray)
    /\ replies' = replies + 1
    /\ UNCHANGED <<kind, pc, client, req, assoc, reply, first, counts, outcome>>

Session ==
    \/ ReadFrame \/ ReadEnds \/ ReadFails \/ AssociateFails \/ SendRequest \/ ReplyRead \/ ReplySkipped
    \/ ReplyFails
    \/ udp_header_targets \/ send_udp_payload_to_target_with_socket \/ NoUsableUdpTarget \/ NoFirstFrame \/ ClientToTarget \/ ClientToTargetExit \/ TargetToClient
    \/ SocketFails \/ DrainReply \/ DrainEnds \/ WriteFails

\* What waits for somebody else without a timeout.
Waits == Associate \/ read_vmess_response_header \/ WriteResponse \/ DirectWrite \/ DrainWrite

SessionNext == Session \/ Waits \/ ClientSends \/ ClientEnds \/ TargetReplies

\* Timers fire and the task runs; nobody makes a proxy answer or a client read.
SessionFairness == WF_session_vars(Session)

-----------------------------------------------------------------------------
\* Every response carries the address of the host that sent it, whatever kind of
\* proxy the session runs through, after the client has changed its target and
\* when a reply comes late; and that host is one the session has written to:
\* what others send to the socket of an association is not passed on.  A frame
\* is never read from an association whose last read was given up in the middle:
\* the reply's timeout ends the session and the association with it.
LabelledBySender ==
    /\ \A i \in DOMAIN responses :
        /\ responses[i].label = responses[i].from
        /\ \E j \in DOMAIN forwarded : forwarded[j].to = responses[i].from
    /\ Running => ~assoc.cut

\* A direct session sends to the target of its first frame alone, from a socket
\* of the family of the address that it could be sent to, and a session through
\* a proxy sends every datagram where its own header says.  A session that ends
\* well reports what it forwarded and what the client got, also when the client
\* goes while replies are being drained.
DatagramsGoWhereTheyShould ==
    /\ assoc.socket = assoc.family
    /\ \A i \in DOMAIN forwarded :
        forwarded[i].to = IF kind = "direct" THEN forwarded[1].header ELSE forwarded[i].header
    /\ outcome \in {"finished", "closed"} =>
        /\ report.from_client = Len(forwarded)
        /\ report.from_target = Len(responses)

\* A session ends, with an idle client, a client that goes away or silent
\* targets, unless it waits for ever where the code has no timeout: for the
\* association, for the VMess response header or for the client to read.
SessionEnds ==
    []<>~(pc \in {"associate", "response_header", "write", "direct_write", "drain_write"})
        => <>~Running
=============================================================================
