-------------------------- MODULE ProxyStreamProofs --------------------------
(***************************************************************************)
(* Proofs about a proxy stream from its header on: the two directions of   *)
(* its TCP relay are pipes, a UDP session sends its datagrams where they   *)
(* should go and labels every response with its sender, for any number of  *)
(* targets, frames and replies, and the dial before either reaches the     *)
(* target through proxies that each read only what is meant for them.      *)
(***************************************************************************)
EXTENDS ProxyStream, TcpRelayProofs, DialerEgressProofs

-----------------------------------------------------------------------------
(* The relay: what is proved of it alone holds whatever the dial and the   *)
(* UDP session do.                                                         *)
LEMMA StreamInitRelay ==
  ASSUME StreamInit
  PROVE  DownInv /\ Down!PipeInit /\ UpInv /\ Up!PipeInit
BY RelayInitDownInv, RelayInitUpInv DEF StreamInit

(* The dial hands its stream to a relay that has not read yet.             *)
LEMMA StreamStepIsPipeStep ==
  ASSUME DownInv, UpInv, [StreamNext]_stream_vars
  PROVE  /\ DownInv' /\ [Down!PipeNext]_(Down!pipe)
         /\ UpInv' /\ [Up!PipeNext]_(Up!pipe)
<1>1. CASE RelayNext \/ UNCHANGED relay_vars
  BY <1>1, RelayStepIsPipeStep, RelayStepIsUpStep
<1>2. CASE relay_with_idle_timeout_and_egress
  <2>1. /\ relay = "dialing" /\ relay' \in {"failed", "running", "associated"}
        /\ UNCHANGED <<down, buffers, current, written, ahead, read, received>>
        /\ UNCHANGED upVars
    BY <1>2 DEF relay_with_idle_timeout_and_egress
  <2>2. down = "read" /\ up = "read"
    BY <2>1 DEF DownInv, Contiguous, UpInv
  <2>3. Got' = Got
    BY <2>1 DEF Got
  <2>4. DownType'
    BY <2>1, <2>3 DEF DownInv, DownType
  <2>5. Contiguous'
    BY <2>1, <2>2, <2>3 DEF DownInv, Contiguous
  <2>6. UNCHANGED Down!pipe /\ UNCHANGED Up!pipe
    BY <2>1, <2>2 DEF Down!pipe, Up!pipe, EndOf, Ended, upVars
  <2>7. UpInv'
    BY <2>1, SameUp
  <2> QED
    BY <2>4, <2>5, <2>6, <2>7 DEF DownInv
<1>3. \/ RelayNext \/ UNCHANGED relay_vars
      \/ relay_with_idle_timeout_and_egress
  BY DEF StreamNext, Over, stream_vars
<1> QED
  BY <1>1, <1>2, <1>3

LEMMA StreamInvariant == StreamSpec => [](DownInv /\ UpInv)
BY StreamInitRelay, StreamStepIsPipeStep, PTL DEF StreamSpec

(* Each direction of a proxy stream's relay implements a pipe, for every   *)
(* length of the streams, the buffers and the batches: with the dial       *)
(* before it, partial vectored writes, the second buffer that is read      *)
(* ahead, and every failure.                                               *)
THEOREM StreamIsTwoPipes == StreamSpec => ImplementsPipes
BY StreamInitRelay, StreamStepIsPipeStep, PTL
DEF StreamSpec, ImplementsPipes, Down!PipeSpec, Up!PipeSpec

(* When the socket's side breaks, all that was read from it before has     *)
(* been written to QUIC: the error of a speculative read is kept until the *)
(* buffer in hand is committed.                                            *)
THEOREM ReadErrorsKeepData == StreamSpec => []ReadErrorKeepsData
<1>1. DownInv => ReadErrorKeepsData
  BY DEF DownInv, Contiguous, ReadErrorKeepsData, Got
<1> QED
  BY <1>1, StreamInvariant, PTL

-----------------------------------------------------------------------------
(* The UDP session.                                                        *)

Hosts == Targets \cup {None}
Upstream == {"socks5", "socks5_shadowsocks", "shadowsocks_socks5", "shadowsocks", "trojan", "vless",
             "vmess", "tuic", "hysteria2", "juicity"}
ByHeader == {"vless", "vmess"}
Fixed == {"vless", "vmess", "juicity"}
Requesting == {"read", "associate", "send", "response_header", "await", "write"}
Direct == {"first", "addresses", "relay", "direct_write", "drain", "drain_write"}

Packet == [header : Hosts, to : Hosts]
Answer == [from : Hosts, label : Hosts]
Datagram == [from : Hosts, via : {"relay", "elsewhere"}, name : {"address", "known", "unknown"}]

SessionType ==
  /\ cin \in Seq(Targets)
  /\ req \in Hosts /\ first \in Hosts
  /\ assoc \in [header : Hosts, bound : SUBSET Hosts, answered : BOOLEAN, cut : BOOLEAN,
                untried : Seq({"v4", "v6"}), source : {"any", "v4", "v6"},
                family : {None, "v4", "v6"}, socket : {None, "any", "v4", "v6"}]
  /\ arrived \in Seq(Datagram)
  /\ report \in [from_client : Nat, from_target : Nat] /\ client_bytes \in Nat
  /\ forwarded \in Seq(Packet)
  /\ responses \in Seq(Answer)
  /\ Running => IF kind = "direct" THEN pc \in Direct
                ELSE pc \in Requesting /\ (pc # "read" => kind \in Upstream)
  /\ Running => kind \in Kinds

(* What the dispatch says of each kind of proxy.                            *)
LEMMA ViaFacts ==
  ASSUME NEW k \in Upstream
  PROVE  /\ (Via(k).label = "header") <=> (k \in ByHeader)
         /\ (Via(k).named = "association") <=> (k \in Fixed)
         /\ k \in Fixed => Via(k).rebinds
BY DEF Upstream, ByHeader, Fixed, Via, relay_udp_payload_to_target_via_socks5,
       relay_udp_payload_to_target_via_socks5_shadowsocks_chain,
       relay_udp_payload_to_target_via_shadowsocks_socks5_chain,
       relay_udp_payload_to_target_via_shadowsocks, relay_udp_payload_to_target_via_trojan,
       relay_udp_payload_to_target_via_vless, relay_udp_payload_to_target_via_vmess,
       relay_udp_payload_to_target_via_tuic, relay_udp_payload_to_target_via_hysteria2,
       relay_udp_payload_to_target_via_juicity

LEMMA TakenFromRelay ==
  ASSUME NEW d, kind \in Socks5Kinds, Taken(d) = "ok"
  PROVE  d.via = "relay"
BY DEF Socks5Kinds, Taken, Socks5UdpRelaySocket_recv_from, poll_recv_socks5_datagram
-----------------------------------------------------------------------------
LEMMA Appended ==
  ASSUME NEW R, NEW s \in Seq(R), NEW x \in R
  PROVE  /\ Append(s, x) \in Seq(R) /\ Len(s) \in Nat /\ Len(Append(s, x)) = Len(s) + 1
         /\ DOMAIN s = 1..Len(s) /\ DOMAIN Append(s, x) = 1..(Len(s) + 1)
         /\ \A i \in 1..Len(s) : Append(s, x)[i] = s[i]
         /\ Append(s, x)[Len(s) + 1] = x
BY AppendProperties, LenProperties

LEMMA Tailed ==
  ASSUME NEW R, NEW s \in Seq(R), s # <<>>
  PROVE  /\ Head(s) \in R /\ Tail(s) \in Seq(R)
         /\ 1 \in DOMAIN s /\ Head(s) = s[1]
         /\ \A i \in DOMAIN Tail(s) : i + 1 \in DOMAIN s /\ Tail(s)[i] = s[i + 1]
BY HeadTailProperties, LenProperties

(* Some datagram of a sequence went to a host; the hosts that sent a       *)
(* sequence of responses are named in them, and were sent to; what is at   *)
(* the socket came from hosts that were written to, or past the relay.     *)
SentIn(s, t) == \E j \in DOMAIN s : s[j].to = t
Named(rs, s) == \A i \in DOMAIN rs : rs[i].label = rs[i].from /\ SentIn(s, rs[i].from)
Expected(d, bound, k) == IF d.via = "relay" THEN d.from \in bound ELSE k \in Socks5Kinds
Solicited(ds, bound, k) == \A i \in DOMAIN ds : Expected(ds[i], bound, k)

LEMMA SentStays ==
  ASSUME NEW s \in Seq(Packet), NEW x \in Packet
  PROVE  /\ SentIn(Append(s, x), x.to)
         /\ \A t : SentIn(s, t) => SentIn(Append(s, x), t)
         /\ \A rs : Named(rs, s) => Named(rs, Append(s, x))
<1> DEFINE a == Append(s, x)
<1>1. /\ DOMAIN s = 1..Len(s) /\ DOMAIN a = 1..(Len(s) + 1) /\ Len(s) \in Nat
      /\ \A i \in 1..Len(s) : a[i] = s[i]
      /\ a[Len(s) + 1] = x
  BY Appended
<1> HIDE DEF a
<1>2. SentIn(a, x.to)
  BY <1>1 DEF SentIn
<1>3. \A t : SentIn(s, t) => SentIn(a, t)
  BY <1>1 DEF SentIn
<1>4. \A rs : Named(rs, s) => Named(rs, a)
  BY <1>3 DEF Named
<1> QED
  BY <1>2, <1>3, <1>4 DEF a

LEMMA NamedGrows ==
  ASSUME NEW s, NEW rs \in Seq(Answer), NEW r \in Answer,
         Named(rs, s), r.label = r.from, SentIn(s, r.from)
  PROVE  Named(Append(rs, r), s)
BY Appended DEF Named

LEMMA SolicitedTail ==
  ASSUME NEW ds \in Seq(Datagram), ds # <<>>, NEW bound, NEW k, Solicited(ds, bound, k)
  PROVE  /\ Solicited(Tail(ds), bound, k) /\ Head(ds) \in Datagram /\ Tail(ds) \in Seq(Datagram)
         /\ Expected(Head(ds), bound, k)
<1>1. /\ Head(ds) \in Datagram /\ Tail(ds) \in Seq(Datagram)
      /\ 1 \in DOMAIN ds /\ Head(ds) = ds[1]
      /\ \A i \in DOMAIN Tail(ds) : i + 1 \in DOMAIN ds /\ Tail(ds)[i] = ds[i + 1]
  BY Tailed
<1> QED
  BY <1>1 DEF Solicited

LEMMA SolicitedGrows ==
  ASSUME NEW ds \in Seq(Datagram), NEW d \in Datagram, NEW bound, NEW k, Solicited(ds, bound, k),
         Expected(d, bound, k)
  PROVE  Append(ds, d) \in Seq(Datagram) /\ Solicited(Append(ds, d), bound, k)
<1> DEFINE a == Append(ds, d)
<1>1. /\ a \in Seq(Datagram) /\ Len(ds) \in Nat
      /\ DOMAIN ds = 1..Len(ds) /\ DOMAIN a = 1..(Len(ds) + 1)
      /\ \A i \in 1..Len(ds) : a[i] = ds[i]
      /\ a[Len(ds) + 1] = d
  <2>1. ds \in Seq(Datagram) /\ d \in Datagram
    OBVIOUS
  <2> QED
    BY ONLY <2>1, Appended
<1> HIDE DEF a
<1>2. ASSUME NEW i \in DOMAIN a
      PROVE  Expected(a[i], bound, k)
  <2>1. i \in 1..Len(ds) \/ i = Len(ds) + 1
    BY <1>1
  <2> QED
    BY <1>1, <2>1 DEF Solicited
<1> QED
  BY <1>1, <1>2 DEF a, Solicited

-----------------------------------------------------------------------------
Asked == {"send", "response_header", "await"}
Writing == {"write", "direct_write", "drain_write"}

SenderInv ==
  /\ \A t \in assoc.bound : SentIn(forwarded, t)
  /\ Solicited(arrived, assoc.bound, kind)
  /\ kind \in Fixed => assoc.bound \subseteq {assoc.header}
  /\ Running /\ kind \in Fixed /\ pc \in Asked => assoc.header = req
  /\ Running /\ pc \in Writing =>
       reply \in Answer /\ reply.label = reply.from /\ SentIn(forwarded, reply.from)
  /\ Named(responses, forwarded)
  /\ Running => ~assoc.cut

RouteInv ==
  /\ assoc.socket = assoc.family
  /\ \A i \in DOMAIN forwarded :
       forwarded[i].to = IF kind = "direct" THEN forwarded[1].header ELSE forwarded[i].header
  /\ Running /\ kind = "direct" =>
       IF pc \in {"first", "addresses"} THEN forwarded = <<>>
       ELSE forwarded # <<>> /\ first = forwarded[1].header

Counted ==
  /\ Len(forwarded) = report.from_client + client_bytes + IF pc \in {"response_header", "await"} THEN 1 ELSE 0
  /\ report.from_target = Len(responses) + IF pc \in {"write", "direct_write"} THEN 1 ELSE 0
  /\ pc \notin {"relay", "direct_write"} => client_bytes = 0

CountInv ==
  /\ Running => Counted
  /\ outcome \in {"finished", "closed"} =>
       report.from_client = Len(forwarded) /\ report.from_target = Len(responses)

SessionInv == SessionType /\ SenderInv /\ RouteInv /\ CountInv

(* Steps that move the task on, or end the session, and touch no datagram. *)
Moves ==
  \/ ReadFrame \/ ReadEnds \/ ReadFails \/ AssociateFails \/ WriteFails \/ NoUsableUdpTarget
  \/ NoFirstFrame \/ SocketFails \/ DrainEnds \/ ClientSends \/ ClientEnds

LEMMA MovesStep ==
  ASSUME SessionInv, Moves
  PROVE  SessionInv'
<1> USE SessionAssumption DEF SessionInv, Moves
<1>1. UNCHANGED <<kind, assoc, arrived, reply, first, report, client_bytes, forwarded, responses>>
  BY DEF ReadFrame, ReadEnds, ReadFails, AssociateFails, WriteFails, NoUsableUdpTarget, NoFirstFrame,
         SocketFails, DrainEnds, ClientSends, ClientEnds, counts
<1>2. /\ Running
      /\ \/ UNCHANGED <<pc, outcome, req>>
         \/ pc = "read" /\ pc' = "associate" /\ kind # "http" /\ UNCHANGED outcome
         \/ UNCHANGED pc /\ outcome' = "error"
         \/ UNCHANGED pc /\ outcome' \in {"finished", "closed"} /\ pc \in {"read", "drain"}
  BY DEF ReadFrame, ReadEnds, ReadFails, AssociateFails, WriteFails, NoUsableUdpTarget, NoFirstFrame,
         SocketFails, DrainEnds, ClientSends, ClientEnds, Goto, EndsWith, SessionReturns, Unsupported
<1>3. cin' \in Seq(Targets) /\ req' \in Hosts
  <2> USE DEF SessionType, Hosts
  <2>1. CASE ReadFrame
    BY <2>1, Tailed DEF ReadFrame
  <2>2. CASE ClientSends
    <3>1. PICK t \in Targets : cin' = Append(cin, t)
      BY <2>2 DEF ClientSends
    <3> QED
      BY <2>2, <3>1, Appended DEF ClientSends
  <2>3. CASE ~ReadFrame /\ ~ClientSends
    BY <2>3 DEF ReadEnds, ReadFails, AssociateFails, WriteFails, NoUsableUdpTarget, NoFirstFrame,
                SocketFails, DrainEnds, ClientEnds, client
  <2> QED
    BY <2>1, <2>2, <2>3
<1>4. SessionType'
  BY <1>1, <1>2, <1>3 DEF SessionType, Running, Requesting, Direct, Upstream
<1>5. SenderInv'
  BY <1>1, <1>2 DEF SenderInv, Running, Asked, Writing
<1>6. RouteInv'
  BY <1>1, <1>2 DEF RouteInv, Running, SessionType, Requesting, Direct
<1>7. CountInv'
  BY <1>1, <1>2 DEF CountInv, Counted, Running, SessionType
<1> QED
  BY <1>4, <1>5, <1>6, <1>7

(* A new association is one for the header in hand; one that is kept was   *)
(* made for it, when it has to be.                                         *)
LEMMA AssociateStep ==
  ASSUME SessionInv, Associate
  PROVE  SessionInv'
<1> USE DEF SessionInv
<1>1. /\ Running /\ pc = "associate" /\ pc' = "send"
      /\ UNCHANGED <<kind, outcome, cin, req, reply, first, report, client_bytes, forwarded, responses>>
  BY DEF Associate, Goto, client, counts
<1>2. kind \in Upstream /\ kind \in Kinds /\ kind # "direct" /\ req \in Hosts
  BY <1>1 DEF SessionType, Direct, Upstream
<1>3. kind \in Fixed => Via(kind).rebinds
  BY <1>2, ViaFacts
<1>4. CASE NeedsNewAssociation
  <2>1. assoc' = [NoAssoc EXCEPT !.header = req] /\ arrived' = <<>>
    BY <1>4 DEF Associate
  <2>2. assoc' = [header |-> req, bound |-> {}, answered |-> FALSE, cut |-> FALSE,
                  untried |-> <<>>, source |-> "any", family |-> None, socket |-> None]
    BY <2>1 DEF NoAssoc
  <2>3. SessionType'
    <3>1. assoc' \in [header : Hosts, bound : SUBSET Hosts, answered : BOOLEAN, cut : BOOLEAN,
                      untried : Seq({"v4", "v6"}), source : {"any", "v4", "v6"},
                      family : {None, "v4", "v6"}, socket : {None, "any", "v4", "v6"}]
      BY <1>2, <2>2 DEF None
    <3>2. arrived' \in Seq(Datagram)
      BY <2>1
    <3> QED
      BY <1>1, <1>2, <3>1, <3>2 DEF SessionType, Running, Requesting
  <2>4. SenderInv'
    BY <1>1, <2>1, <2>2 DEF SenderInv, Running, Asked, Writing, Solicited
  <2>5. RouteInv'
    BY <1>1, <1>2, <2>2 DEF RouteInv, Running
  <2>6. CountInv'
    BY <1>1 DEF CountInv, Counted, Running
  <2> QED
    BY <2>3, <2>4, <2>5, <2>6
<1>5. CASE ~NeedsNewAssociation
  <2>1. UNCHANGED <<assoc, arrived>>
    BY <1>5 DEF Associate
  <2>2. kind \in Fixed => assoc.header = req
    BY <1>3, <1>5 DEF NeedsNewAssociation
  <2>3. SessionType'
    BY <1>1, <1>2, <2>1 DEF SessionType, Running, Requesting
  <2>4. SenderInv'
    BY <1>1, <2>1, <2>2 DEF SenderInv, Running, Asked, Writing
  <2>5. RouteInv'
    BY <1>1, <1>2, <2>1 DEF RouteInv, Running
  <2>6. CountInv'
    BY <1>1 DEF CountInv, Counted, Running
  <2> QED
    BY <2>3, <2>4, <2>5, <2>6
<1> QED
  BY <1>4, <1>5

(* A datagram is sent to the association's header, where that is the place *)
(* that names the target, and the header is its own.                       *)
LEMMA SendRequestStep ==
  ASSUME SessionInv, SendRequest
  PROVE  SessionInv'
<1> USE DEF SessionInv
<1>1. /\ Running /\ pc = "send"
      /\ UNCHANGED <<kind, cin, req, arrived, reply, first, report, client_bytes, responses>>
  BY DEF SendRequest, client
<1>2. kind \in Upstream /\ kind \in Kinds /\ kind # "direct" /\ req \in Hosts
  BY <1>1 DEF SessionType, Direct, Upstream
<1>3. CASE outcome' = "error" /\ UNCHANGED <<assoc, forwarded, pc>>
  <2>1. SessionType'
    BY <1>1, <1>3 DEF SessionType, Running
  <2>2. SenderInv'
    BY <1>1, <1>3 DEF SenderInv, Running
  <2>3. RouteInv' /\ CountInv'
    BY <1>1, <1>3 DEF RouteInv, CountInv, Running
  <2> QED
    BY <2>1, <2>2, <2>3
<1>4. CASE /\ assoc' = [assoc EXCEPT !.bound = @ \cup {Destination}]
           /\ forwarded' = Append(forwarded, [header |-> req, to |-> Destination])
           /\ pc' \in {"response_header", "await"} /\ UNCHANGED outcome
  <2>1. Destination = req
    BY <1>1, <1>2, ViaFacts DEF Destination, SenderInv, Asked
  <2> DEFINE x == [header |-> req, to |-> req]
  <2>2. x \in Packet /\ forwarded' = Append(forwarded, x) /\ x.to = req
    BY <1>2, <1>4, <2>1 DEF Packet
  <2>3. /\ forwarded \in Seq(Packet) /\ forwarded' \in Seq(Packet)
        /\ Len(forwarded) \in Nat /\ Len(forwarded') = Len(forwarded) + 1
        /\ DOMAIN forwarded = 1..Len(forwarded) /\ DOMAIN forwarded' = 1..(Len(forwarded) + 1)
        /\ \A i \in 1..Len(forwarded) : forwarded'[i] = forwarded[i]
        /\ forwarded'[Len(forwarded) + 1] = x
    <3>1. forwarded \in Seq(Packet)
      BY DEF SessionType
    <3> QED
      BY ONLY <2>2, <3>1, Appended
  <2>4. /\ SentIn(forwarded', req)
        /\ \A t : SentIn(forwarded, t) => SentIn(forwarded', t)
        /\ \A rs : Named(rs, forwarded) => Named(rs, forwarded')
    BY <2>2, <2>3, SentStays
  <2> HIDE DEF x
  <2>5. /\ assoc' \in [header : Hosts, bound : SUBSET Hosts, answered : BOOLEAN, cut : BOOLEAN,
                        untried : Seq({"v4", "v6"}), source : {"any", "v4", "v6"},
                        family : {None, "v4", "v6"}, socket : {None, "any", "v4", "v6"}]
        /\ assoc'.bound = assoc.bound \cup {req} /\ assoc'.header = assoc.header
        /\ assoc'.cut = assoc.cut /\ assoc'.socket = assoc.socket /\ assoc'.family = assoc.family
    BY <1>2, <1>4, <2>1 DEF SessionType
  <2>6. SessionType'
    BY <1>1, <1>2, <1>4, <2>3, <2>5 DEF SessionType, Running, Requesting
  <2>7. Solicited(arrived', assoc'.bound, kind')
    BY <1>1, <2>5 DEF SenderInv, Solicited, Expected
  <2>8. kind \in Fixed => assoc'.bound \subseteq {assoc'.header}
    BY <1>1, <2>5 DEF SenderInv, Asked
  <2>9. SenderInv'
    BY <1>1, <1>4, <2>4, <2>5, <2>7, <2>8 DEF SenderInv, Running, Asked, Writing
  <2>10. x.to = x.header
    BY DEF x
  <2>11. RouteInv'
    BY <1>1, <1>2, <1>4, <2>3, <2>5, <2>10 DEF RouteInv, Running
  <2>12. CountInv'
    BY <1>1, <1>4, <2>3 DEF CountInv, Counted, Running, SessionType
  <2> QED
    BY <2>6, <2>9, <2>11, <2>12
<1> QED
  BY <1>3, <1>4 DEF SendRequest, Goto, EndsWith

(* The response header, and a reply that fails, change the association's   *)
(* marks alone.                                                            *)
LEMMA AnswerStep ==
  ASSUME SessionInv, read_vmess_response_header \/ ReplyFails
  PROVE  SessionInv'
<1> USE DEF SessionInv
<1>1. /\ Running /\ pc \in {"response_header", "await"}
      /\ UNCHANGED <<kind, cin, req, arrived, reply, first, report, client_bytes, forwarded, responses>>
  BY DEF read_vmess_response_header, ReplyFails, client, counts
<1>2. /\ UNCHANGED <<assoc.header, assoc.bound, assoc.family, assoc.socket>>
      /\ assoc' \in [header : Hosts, bound : SUBSET Hosts, answered : BOOLEAN, cut : BOOLEAN,
                      untried : Seq({"v4", "v6"}), source : {"any", "v4", "v6"},
                      family : {None, "v4", "v6"}, socket : {None, "any", "v4", "v6"}]
  <2>1. CASE read_vmess_response_header
    BY <2>1 DEF read_vmess_response_header, SessionType
  <2>2. CASE ReplyFails
    <3>1. (Via(kind).framed /\ arrived # <<>>) \in BOOLEAN
      OBVIOUS
    <3> QED
      BY <2>2, <3>1 DEF ReplyFails, SessionType
  <2> QED
    BY <2>1, <2>2
<1>3. \/ outcome' = "error" /\ UNCHANGED pc
      \/ pc' = "await" /\ UNCHANGED outcome /\ assoc'.cut = assoc.cut
  BY DEF read_vmess_response_header, ReplyFails, Goto, EndsWith, SessionType
<1>4. SessionType'
  BY <1>1, <1>2, <1>3 DEF SessionType, Running, Direct, Requesting
<1>5. SenderInv'
  BY <1>1, <1>2, <1>3 DEF SenderInv, Running, Asked, Writing
<1>6. RouteInv'
  BY <1>1, <1>2, <1>3 DEF RouteInv, Running, SessionType, Direct
<1>7. CountInv'
  BY <1>1, <1>3 DEF CountInv, Counted, Running
<1> QED
  BY <1>4, <1>5, <1>6, <1>7

(* A reply that is taken came from a host that was written to, and is      *)
(* labelled with it: the header's label is that of the only host bound.    *)
LEMMA ReplyReadStep ==
  ASSUME SessionInv, ReplyRead
  PROVE  SessionInv'
<1> USE DEF SessionInv
<1> DEFINE d == Head(arrived)
<1>1. /\ Running /\ pc = "await" /\ pc' = "write" /\ arrived # <<>> /\ Taken(d) = "ok"
      /\ arrived' = Tail(arrived)
      /\ reply' = [from |-> d.from, label |-> IF Via(kind).label = "header" THEN req ELSE d.from]
      /\ first' = IF first = None THEN req ELSE first
      /\ report' = [from_client |-> report.from_client + 1, from_target |-> report.from_target + 1]
      /\ UNCHANGED <<kind, cin, req, assoc, client_bytes, forwarded, responses, outcome>>
  BY DEF ReplyRead, Goto, client
<1>2. kind \in Upstream /\ kind \in Kinds /\ kind # "direct" /\ req \in Hosts
  BY <1>1 DEF SessionType, Direct, Upstream
<1>3. /\ Solicited(Tail(arrived), assoc.bound, kind) /\ d \in Datagram /\ Tail(arrived) \in Seq(Datagram)
      /\ Expected(d, assoc.bound, kind)
  BY <1>1, SolicitedTail DEF SessionType, SenderInv
<1>4. d.from \in assoc.bound
  BY <1>1, <1>3, TakenFromRelay DEF Expected
<1> HIDE DEF d
<1>5. SentIn(forwarded, d.from)
  BY <1>4 DEF SenderInv
<1>6. (Via(kind).label = "header") => d.from = req
  BY <1>1, <1>2, <1>4, ViaFacts DEF SenderInv, Asked, Fixed, ByHeader
<1>7. reply' \in Answer /\ reply'.from = d.from /\ reply'.label = d.from
  BY <1>1, <1>2, <1>3, <1>6 DEF Answer, Datagram
<1>8. SessionType'
  BY <1>1, <1>2, <1>3 DEF SessionType, Running, Requesting
<1>9. SenderInv'
  BY <1>1, <1>3, <1>5, <1>7 DEF SenderInv, Running, Asked, Writing
<1>10. RouteInv'
  BY <1>1, <1>2 DEF RouteInv, Running
<1>11. CountInv'
  BY <1>1 DEF CountInv, Counted, Running, SessionType
<1> QED
  BY <1>8, <1>9, <1>10, <1>11

LEMMA ReplySkippedStep ==
  ASSUME SessionInv, ReplySkipped
  PROVE  SessionInv'
<1> USE DEF SessionInv
<1>1. /\ Running /\ pc = "await" /\ arrived # <<>> /\ arrived' = Tail(arrived)
      /\ UNCHANGED <<kind, pc, cin, req, assoc, reply, first, report, client_bytes, forwarded, responses, outcome>>
  BY DEF ReplySkipped, client, counts
<1>2. Solicited(Tail(arrived), assoc.bound, kind) /\ Tail(arrived) \in Seq(Datagram)
  BY <1>1, SolicitedTail DEF SessionType, SenderInv
<1>3. SessionType'
  BY <1>1, <1>2 DEF SessionType, Running
<1>4. SenderInv'
  BY <1>1, <1>2 DEF SenderInv, Running
<1>5. RouteInv' /\ CountInv'
  BY <1>1 DEF RouteInv, CountInv, Counted, Running
<1> QED
  BY <1>3, <1>4, <1>5

(* A response that is written is the reply that was read, label and all.   *)
LEMMA DeliverFacts ==
  ASSUME SessionInv, Running, pc \in Writing, Deliver
  PROVE  /\ responses' \in Seq(Answer) /\ Named(responses', forwarded)
         /\ Len(responses) \in Nat /\ Len(responses') = Len(responses) + 1
<1>1. /\ responses \in Seq(Answer) /\ reply \in Answer /\ reply.label = reply.from
      /\ SentIn(forwarded, reply.from) /\ Named(responses, forwarded)
      /\ responses' = Append(responses, reply)
  BY DEF SessionInv, SessionType, SenderInv, Deliver
<1> QED
  BY ONLY <1>1, NamedGrows, Appended

LEMMA WrittenStep ==
  ASSUME SessionInv, WriteResponse \/ DirectWrite \/ DrainWrite
  PROVE  SessionInv'
<1> USE DEF SessionInv
<1>1. /\ Running /\ pc \in Writing
      /\ UNCHANGED <<kind, cin, req, assoc, arrived, reply, first, client_bytes, forwarded>>
  BY DEF WriteResponse, DirectWrite, DrainWrite, client, Writing
<1>2. CASE /\ pc = "drain_write" /\ outcome' = "closed" /\ UNCHANGED <<pc, report, responses>>
  <2>1. SessionType'
    BY <1>1, <1>2 DEF SessionType, Running
  <2>2. SenderInv'
    BY <1>1, <1>2 DEF SenderInv, Running
  <2>3. RouteInv'
    BY <1>1, <1>2 DEF RouteInv, Running
  <2>4. CountInv'
    BY <1>1, <1>2 DEF CountInv, Counted, Running, SessionType
  <2> QED
    BY <2>1, <2>2, <2>3, <2>4
<1>3. CASE /\ Deliver /\ UNCHANGED outcome
           /\ \/ pc = "write" /\ pc' = "read" /\ UNCHANGED report
              \/ pc = "direct_write" /\ pc' = "relay" /\ UNCHANGED report
              \/ pc = "drain_write" /\ pc' = "drain" /\ report' = [report EXCEPT !.from_target = @ + 1]
  <2>1. /\ responses' \in Seq(Answer) /\ Named(responses', forwarded)
        /\ Len(responses) \in Nat /\ Len(responses') = Len(responses) + 1
    BY <1>1, <1>3, DeliverFacts
  <2>6. /\ report' \in [from_client : Nat, from_target : Nat] /\ report'.from_client = report.from_client
        /\ report'.from_target = report.from_target + IF pc = "drain_write" THEN 1 ELSE 0
    BY <1>3 DEF SessionType
  <2>7. /\ Running /\ Running' /\ UNCHANGED outcome
        /\ \/ pc = "write" /\ pc' = "read"
           \/ pc = "direct_write" /\ pc' = "relay"
           \/ pc = "drain_write" /\ pc' = "drain"
    BY <1>1, <1>3 DEF Running
  <2>2. SessionType'
    BY <1>1, <2>7, <2>6, <2>1 DEF SessionType, Requesting, Direct
  <2>3. SenderInv'
    BY <1>1, <1>3, <2>1 DEF SenderInv, Running, Asked, Writing
  <2>4. RouteInv'
    BY <1>1, <1>3 DEF RouteInv, Running
  <2>5. CountInv'
    BY <1>1, <2>7, <2>6, <2>1 DEF CountInv, Counted, Running, SessionType
  <2> QED
    BY <2>2, <2>3, <2>4, <2>5
<1> QED
  BY <1>2, <1>3 DEF WriteResponse, DirectWrite, DrainWrite, Goto, EndsWith

LEMMA udp_header_targetsStep ==
  ASSUME SessionInv, udp_header_targets
  PROVE  SessionInv'
<1> USE SessionAssumption DEF SessionInv
<1>1. /\ Running /\ pc = "first" /\ cin # <<>> /\ cin' = Tail(cin)
      /\ UNCHANGED <<kind, req, arrived, reply, first, report, client_bytes, forwarded, responses>>
  BY DEF udp_header_targets, counts
<1>2. kind = "direct" /\ cin' \in Seq(Targets) /\ Head(cin) \in Hosts
  BY <1>1, Tailed DEF SessionType, Requesting, Hosts
<1>3. CASE outcome' = "error" /\ UNCHANGED <<pc, assoc>>
  <2>1. SessionType' /\ SenderInv'
    BY <1>1, <1>2, <1>3 DEF SessionType, SenderInv, Running
  <2>2. RouteInv' /\ CountInv'
    BY <1>1, <1>3 DEF RouteInv, CountInv, Running
  <2> QED
    BY <2>1, <2>2
<1>4. ASSUME NEW addresses \in Addresses, NEW source \in Sources,
             assoc' = [NoAssoc EXCEPT !.header = Head(cin), !.untried = addresses, !.source = source],
             pc' = "addresses", UNCHANGED outcome
      PROVE  SessionInv'
  <2>1. assoc' = [header |-> Head(cin), bound |-> {}, answered |-> FALSE, cut |-> FALSE,
                  untried |-> addresses, source |-> source, family |-> None, socket |-> None]
    BY <1>4 DEF NoAssoc
  <2>2. assoc' \in [header : Hosts, bound : SUBSET Hosts, answered : BOOLEAN, cut : BOOLEAN,
                    untried : Seq({"v4", "v6"}), source : {"any", "v4", "v6"},
                    family : {None, "v4", "v6"}, socket : {None, "any", "v4", "v6"}]
    BY <1>2, <2>1 DEF None
  <2>3. SessionType'
    BY <1>1, <1>2, <1>4, <2>2 DEF SessionType, Running, Direct
  <2>8. forwarded = <<>> /\ \A t : ~SentIn(forwarded, t)
    BY <1>1, <1>2 DEF RouteInv, SentIn
  <2>9. assoc.bound = {} /\ assoc'.bound = {} /\ assoc'.cut = FALSE /\ assoc'.socket = assoc'.family
    <3>1. assoc.bound = {}
      BY <2>8 DEF SenderInv
    <3> QED
      BY <2>1, <3>1
  <2>4. Solicited(arrived, {}, kind)
    BY <2>9 DEF SenderInv
  <2>5. SenderInv'
    BY <1>1, <1>2, <1>4, <2>4, <2>9 DEF SenderInv, Running, Asked, Writing, Fixed
  <2>6. RouteInv'
    BY <1>1, <1>2, <1>4, <2>8, <2>9 DEF RouteInv, Running
  <2>7. CountInv'
    BY <1>1, <1>4 DEF CountInv, Counted, Running
  <2> QED
    BY <2>3, <2>5, <2>6, <2>7
<1> QED
  BY <1>3, <1>4 DEF udp_header_targets, Goto, EndsWith

(* The socket has the family of the address it was made for.               *)
LEMMA SocketFamily ==
  ASSUME NEW family, assoc.source \in {"any", family}, assoc.socket = assoc.family
  PROVE  RelaySocket(family) = family
BY DEF RelaySocket, udp_relay_bind_addr

LEMMA send_udp_payload_to_target_with_socketStep ==
  ASSUME SessionInv, send_udp_payload_to_target_with_socket
  PROVE  SessionInv'
<1> USE DEF SessionInv
<1> DEFINE family == Head(assoc.untried)
           Shape(a) == a \in [header : Hosts, bound : SUBSET Hosts, answered : BOOLEAN, cut : BOOLEAN,
                              untried : Seq({"v4", "v6"}), source : {"any", "v4", "v6"},
                              family : {None, "v4", "v6"}, socket : {None, "any", "v4", "v6"}]
           attempt == [assoc EXCEPT !.untried = Tail(@), !.family = family, !.socket = RelaySocket(family)]
<1>1. /\ Running /\ pc = "addresses" /\ assoc.untried # <<>>
      /\ UNCHANGED <<kind, cin, req, arrived, reply, client_bytes, responses>>
  BY DEF send_udp_payload_to_target_with_socket, client
<1>2. /\ kind = "direct" /\ kind \in Kinds /\ Shape(assoc) /\ ~assoc.cut /\ forwarded = <<>>
      /\ assoc.socket = assoc.family
  BY <1>1 DEF SessionType, Requesting, SenderInv, RouteInv
<1>3. family \in {"v4", "v6"} /\ Tail(assoc.untried) \in Seq({"v4", "v6"})
  <2>1. assoc.untried \in Seq({"v4", "v6"}) /\ assoc.untried # <<>>
    BY <1>1, <1>2
  <2> QED
    BY ONLY <2>1, Tailed
<1>4. SentIn(forwarded, None) = FALSE /\ \A t : ~SentIn(forwarded, t)
  BY <1>2 DEF SentIn
<1>5. assoc.bound = {}
  BY <1>2, <1>4 DEF SenderInv
<1> HIDE DEF family
<1>6. CASE /\ Shape(assoc') /\ UNCHANGED <<pc, first, forwarded, report>> /\ ~assoc'.cut
           /\ outcome' \in {"error", outcome} /\ assoc'.bound = {} /\ assoc'.socket = assoc'.family
  <2>1. SessionType'
    BY <1>1, <1>6 DEF SessionType, Running
  <2>2. Solicited(arrived, {}, kind)
    BY <1>5 DEF SenderInv
  <2>3. SenderInv'
    BY <1>1, <1>2, <1>6, <2>2 DEF SenderInv, Running, Asked, Writing
  <2>4. RouteInv'
    BY <1>1, <1>2, <1>6 DEF RouteInv, Running
  <2>5. CountInv'
    BY <1>1, <1>6 DEF CountInv, Counted, Running
  <2> QED
    BY <2>1, <2>3, <2>4, <2>5
<1>7. assoc.source \in {"any", family} => Shape(attempt) /\ attempt.socket = attempt.family /\ attempt.bound = {}
                                           /\ attempt.header = assoc.header /\ ~attempt.cut
  <2>1. assoc.source \in {"any", family} => RelaySocket(family) = family
    BY <1>2, SocketFamily
  <2> QED
    BY <1>2, <1>3, <1>5, <2>1
<1>8. CASE /\ assoc.source \in {"any", family}
           /\ assoc' = [attempt EXCEPT !.bound = {assoc.header}, !.untried = <<>>, !.source = "any"]
           /\ first' = assoc.header
           /\ forwarded' = Append(forwarded, [header |-> assoc.header, to |-> assoc.header])
           /\ report' = [report EXCEPT !.from_client = 1]
           /\ pc' = "relay" /\ UNCHANGED outcome
  <2> DEFINE x == [header |-> assoc.header, to |-> assoc.header]
  <2>1. x \in Packet /\ forwarded' = Append(forwarded, x) /\ x.to = assoc.header /\ x.header = assoc.header
    BY <1>2, <1>8 DEF Packet
  <2>2. /\ forwarded' \in Seq(Packet) /\ Len(forwarded') = 1 /\ DOMAIN forwarded' = {1}
        /\ forwarded'[1] = x /\ forwarded' # <<>>
    <3> HIDE DEF x
    <3>1. forwarded' = <<x>>
      BY <1>2, <2>1
    <3> QED
      BY <2>1, <3>1
  <2> HIDE DEF x, attempt
  <2>3. /\ Shape(assoc') /\ assoc'.bound = {assoc.header} /\ ~assoc'.cut
        /\ assoc'.socket = assoc'.family
    <3>1. Shape(attempt) /\ attempt.socket = attempt.family /\ ~attempt.cut /\ assoc.header \in Hosts
      BY <1>2, <1>7, <1>8
    <3>2. PICK a, h : a = attempt /\ h = assoc.header
      OBVIOUS
    <3>3. Shape(a) /\ a.socket = a.family /\ ~a.cut /\ h \in Hosts
      BY <3>1, <3>2
    <3>4. PICK b : b = [a EXCEPT !.bound = {h}, !.untried = <<>>, !.source = "any"]
      OBVIOUS
    <3>5. Shape(b) /\ b.bound = {h} /\ ~b.cut /\ b.socket = b.family
      <4>h. h \in Hosts
        BY <3>3
      <4>b. {h} \in SUBSET Hosts
        BY ONLY <4>h
      <4>n. <<>> \in Seq({"v4", "v6"})
        BY ONLY TRUE
      <4>1. PICK bound, none : bound = {h} /\ none = <<>> /\ bound \in SUBSET Hosts /\ none \in Seq({"v4", "v6"})
        BY ONLY <4>b, <4>n, Zenon
      <4>2. b = [a EXCEPT !.bound = bound, !.untried = none, !.source = "any"]
        BY <3>4, <4>1
      <4>3. Shape(b) /\ b.bound = bound /\ b.cut = a.cut /\ b.socket = a.socket /\ b.family = a.family
        BY ONLY <3>3, <4>1, <4>2
      <4> QED
        BY <3>3, <4>1, <4>3
    <3>6. b = assoc'
      BY <1>8, <3>2, <3>4
    <3> QED
      BY ONLY <3>2, <3>5, <3>6
  <2>4. /\ report' \in [from_client : Nat, from_target : Nat] /\ report'.from_client = 1
        /\ report'.from_target = report.from_target
    BY <1>8 DEF SessionType
  <2>5. Running' /\ Running /\ pc' = "relay" /\ UNCHANGED outcome /\ first' = assoc.header
        /\ assoc.header \in Hosts
    BY <1>1, <1>2, <1>8 DEF Running
  <2>6. SessionType'
    BY <1>1, <1>2, <2>2, <2>3, <2>4, <2>5 DEF SessionType, Direct
  <2>7. Solicited(arrived', assoc'.bound, kind')
    BY <1>1, <1>5, <2>3 DEF SenderInv, Solicited, Expected
  <2>8. SentIn(forwarded', assoc.header)
    BY <2>1, <2>2 DEF SentIn
  <2>9. Named(responses', forwarded')
    BY <1>1, <1>4 DEF SenderInv, Named
  <2>10. SenderInv'
    BY <1>1, <1>2, <2>3, <2>5, <2>7, <2>8, <2>9 DEF SenderInv, Asked, Writing, Fixed
  <2>11. RouteInv'
    BY <1>1, <1>2, <2>1, <2>2, <2>3, <2>5 DEF RouteInv
  <2>12. CountInv'
    <3>1. report.from_target = Len(responses) /\ client_bytes = 0
      <4>1. Counted
        BY <1>1 DEF CountInv
      <4>2. report.from_target \in Nat /\ Len(responses) \in Nat
        BY DEF SessionType
      <4> QED
        BY <1>1, <4>1, <4>2 DEF Counted
    <3>2. Len(responses) \in Nat /\ outcome' = "running"
      BY <2>5 DEF SessionType, Running
    <3> QED
      BY <1>1, <2>2, <2>4, <2>5, <3>1, <3>2 DEF CountInv, Counted
  <2> QED
    BY <2>6, <2>10, <2>11, <2>12
<1>9. Shape([assoc EXCEPT !.untried = Tail(@)])
  BY <1>2, <1>3
<1>10. \/ /\ assoc' = [assoc EXCEPT !.untried = Tail(@)]
          /\ UNCHANGED <<pc, outcome, first, forwarded, report>>
       \/ /\ assoc.source \in {"any", family}
          /\ assoc' = [attempt EXCEPT !.bound = {assoc.header}, !.untried = <<>>, !.source = "any"]
          /\ first' = assoc.header
          /\ forwarded' = Append(forwarded, [header |-> assoc.header, to |-> assoc.header])
          /\ report' = [report EXCEPT !.from_client = 1]
          /\ pc' = "relay" /\ UNCHANGED outcome
       \/ assoc.source \in {"any", family} /\ assoc' = attempt
          /\ UNCHANGED <<pc, outcome, first, forwarded, report>>
       \/ outcome' = "error" /\ UNCHANGED <<pc, assoc, first, forwarded, report>>
  BY DEF send_udp_payload_to_target_with_socket, Goto, EndsWith, family
<1> HIDE DEF attempt
<1>11. CASE /\ assoc' = [assoc EXCEPT !.untried = Tail(@)]
            /\ UNCHANGED <<pc, outcome, first, forwarded, report>>
  BY <1>2, <1>5, <1>6, <1>9, <1>11
<1>12. CASE /\ assoc.source \in {"any", family} /\ assoc' = attempt
            /\ UNCHANGED <<pc, outcome, first, forwarded, report>>
  BY <1>6, <1>7, <1>12
<1>13. CASE outcome' = "error" /\ UNCHANGED <<pc, assoc, first, forwarded, report>>
  BY <1>2, <1>5, <1>6, <1>13
<1> QED
  BY <1>8, <1>10, <1>11, <1>12, <1>13

LEMMA ReportGrows ==
  ASSUME NEW r \in [from_client : Nat, from_target : Nat], NEW n \in Nat
  PROVE  LET c == [r EXCEPT !.from_client = @ + n]
             t == [r EXCEPT !.from_target = @ + n]
         IN  /\ c \in [from_client : Nat, from_target : Nat]
             /\ c.from_client = r.from_client + n /\ c.from_target = r.from_target
             /\ t \in [from_client : Nat, from_target : Nat]
             /\ t.from_client = r.from_client /\ t.from_target = r.from_target + n
             /\ r.from_client \in Nat /\ r.from_target \in Nat
OBVIOUS

(* Every later frame goes to the first one's target, whatever its header.  *)
LEMMA ClientToTargetStep ==
  ASSUME SessionInv, ClientToTarget
  PROVE  SessionInv'
<1> USE DEF SessionInv
<1> DEFINE x == [header |-> Head(cin), to |-> first]
<1>1. /\ Running /\ pc = "relay" /\ cin # <<>> /\ cin' = Tail(cin)
      /\ forwarded' = Append(forwarded, x) /\ client_bytes' = client_bytes + 1
      /\ UNCHANGED <<kind, pc, req, assoc, arrived, reply, first, report, responses, outcome>>
  BY DEF ClientToTarget
<1>2. /\ kind = "direct" /\ cin' \in Seq(Targets) /\ Head(cin) \in Hosts /\ first \in Hosts
      /\ forwarded \in Seq(Packet) /\ forwarded # <<>> /\ first = forwarded[1].header
  BY <1>1, Tailed DEF SessionType, Requesting, Hosts, RouteInv
<1>3. x \in Packet /\ x.to = first
  BY <1>2 DEF Packet
<1> HIDE DEF x
<1>4. /\ forwarded' \in Seq(Packet) /\ Len(forwarded) \in Nat /\ Len(forwarded') = Len(forwarded) + 1
      /\ DOMAIN forwarded = 1..Len(forwarded) /\ DOMAIN forwarded' = 1..(Len(forwarded) + 1)
      /\ \A i \in 1..Len(forwarded) : forwarded'[i] = forwarded[i]
      /\ forwarded'[Len(forwarded) + 1] = x
  <2>1. forwarded \in Seq(Packet) /\ x \in Packet /\ forwarded' = Append(forwarded, x)
    BY <1>1, <1>2, <1>3
  <2> QED
    BY ONLY <2>1, Appended
<1>5. /\ \A t : SentIn(forwarded, t) => SentIn(forwarded', t)
      /\ \A rs : Named(rs, forwarded) => Named(rs, forwarded')
  BY <1>1, <1>2, <1>3, SentStays
<1>6. Len(forwarded) >= 1 /\ forwarded'[1] = forwarded[1] /\ forwarded' # <<>>
  <2>1. Len(forwarded) >= 1
    BY <1>2
  <2>2. DOMAIN forwarded' # {}
    BY <1>4
  <2> QED
    BY <1>4, <2>1, <2>2
<1>7. SessionType'
  BY <1>1, <1>2, <1>4 DEF SessionType, Running
<1>8. SenderInv'
  BY <1>1, <1>5 DEF SenderInv, Running
<1>9. RouteInv'
  <2>1. ASSUME NEW i \in DOMAIN forwarded'
        PROVE  forwarded'[i].to = forwarded'[1].header
    <3>1. i \in 1..Len(forwarded) \/ i = Len(forwarded) + 1
      BY <1>4
    <3> QED
      BY <1>2, <1>3, <1>4, <1>6, <3>1 DEF RouteInv
  <2> QED
    BY <1>1, <1>2, <1>6, <2>1 DEF RouteInv, Running
<1>10. CountInv'
  <2>1. Counted
    BY <1>1 DEF CountInv
  <2>2. report.from_client \in Nat /\ client_bytes \in Nat
    BY DEF SessionType
  <2> QED
    BY <1>1, <1>4, <2>1, <2>2 DEF CountInv, Counted, Running
<1> QED
  BY <1>7, <1>8, <1>9, <1>10

LEMMA ClientToTargetExitStep ==
  ASSUME SessionInv, ClientToTargetExit
  PROVE  SessionInv'
<1> USE DEF SessionInv
<1>1. /\ Running /\ pc = "relay" /\ client_bytes' = 0
      /\ report' = [report EXCEPT !.from_client = @ + client_bytes]
      /\ UNCHANGED <<kind, cin, req, assoc, arrived, reply, first, forwarded, responses>>
      /\ \/ pc' = "drain" /\ UNCHANGED outcome
         \/ outcome' \in {"finished", "closed", "error"} /\ UNCHANGED pc
  BY DEF ClientToTargetExit, client, Goto, EndsWith
<1>2. /\ report' \in [from_client : Nat, from_target : Nat]
      /\ report'.from_client = report.from_client + client_bytes
      /\ report'.from_target = report.from_target /\ client_bytes \in Nat
      /\ report.from_client \in Nat /\ report.from_target \in Nat
  <2>1. report \in [from_client : Nat, from_target : Nat] /\ client_bytes \in Nat
    BY DEF SessionType
  <2> QED
    BY <1>1, <2>1, ReportGrows
<1>3. kind = "direct"
  BY <1>1 DEF SessionType, Requesting
<1>4. SessionType'
  BY <1>1, <1>2, <1>3 DEF SessionType, Running, Direct
<1>5. SenderInv'
  BY <1>1 DEF SenderInv, Running, Asked, Writing
<1>6. RouteInv'
  BY <1>1, <1>3 DEF RouteInv, Running
<1>7. CountInv'
  <2>1. Counted
    BY <1>1 DEF CountInv
  <2> QED
    BY <1>1, <1>2, <2>1 DEF CountInv, Counted, Running
<1> QED
  BY <1>4, <1>5, <1>6, <1>7

LEMMA DirectReplyStep ==
  ASSUME SessionInv, TargetToClient \/ DrainReply
  PROVE  SessionInv'
<1> USE DEF SessionInv
<1> DEFINE d == Head(arrived)
<1>1. /\ Running /\ arrived # <<>> /\ arrived' = Tail(arrived)
      /\ reply' = [from |-> d.from, label |-> d.from]
      /\ UNCHANGED <<kind, cin, req, assoc, first, client_bytes, forwarded, responses, outcome>>
      /\ \/ pc = "relay" /\ pc' = "direct_write" /\ report' = [report EXCEPT !.from_target = @ + 1]
         \/ pc = "drain" /\ pc' = "drain_write" /\ UNCHANGED report
  BY DEF TargetToClient, DrainReply, Goto, client, counts
<1>2. kind = "direct"
  BY <1>1 DEF SessionType, Requesting
<1>3. /\ Solicited(Tail(arrived), assoc.bound, kind) /\ d \in Datagram /\ Tail(arrived) \in Seq(Datagram)
      /\ Expected(d, assoc.bound, kind)
  BY <1>1, SolicitedTail DEF SessionType, SenderInv
<1>4. d.from \in assoc.bound
  BY <1>2, <1>3 DEF Expected, Socks5Kinds
<1> HIDE DEF d
<1>5. SentIn(forwarded, d.from)
  BY <1>4 DEF SenderInv
<1>6. reply' \in Answer /\ reply'.from = d.from /\ reply'.label = d.from
  BY <1>1, <1>3 DEF Answer, Datagram
<1>7. /\ report' \in [from_client : Nat, from_target : Nat] /\ report'.from_client = report.from_client
      /\ report'.from_target = report.from_target + IF pc = "relay" THEN 1 ELSE 0
  <2>1. report \in [from_client : Nat, from_target : Nat]
    BY DEF SessionType
  <2>2. pc = "relay" => report' = [report EXCEPT !.from_target = @ + 1]
    BY <1>1
  <2>3. pc # "relay" => report' = report
    BY <1>1
  <2> QED
    BY ONLY <2>1, <2>2, <2>3, ReportGrows
<1>8. SessionType'
  BY <1>1, <1>2, <1>3, <1>7 DEF SessionType, Running, Direct
<1>9. SenderInv'
  BY <1>1, <1>2, <1>3, <1>5, <1>6 DEF SenderInv, Running, Asked, Writing, Fixed
<1>10. RouteInv'
  BY <1>1, <1>2 DEF RouteInv, Running
<1>11. CountInv'
  BY <1>1, <1>7 DEF CountInv, Counted, Running, SessionType
<1> QED
  BY <1>8, <1>9, <1>10, <1>11

(* What arrives comes from a host the association was bound to, or, at the *)
(* unconnected socket of a SOCKS5 proxy, from elsewhere.                   *)
LEMMA TargetRepliesStep ==
  ASSUME SessionInv, TargetReplies
  PROVE  SessionInv'
<1> USE DEF SessionInv
<1>1. UNCHANGED <<kind, pc, cin, req, assoc, reply, first, report, client_bytes, forwarded, responses, outcome>>
  BY DEF TargetReplies, client, counts
<1>2. arrived \in Seq(Datagram) /\ Solicited(arrived, assoc.bound, kind) /\ assoc.bound \subseteq Hosts
  BY DEF SessionType, SenderInv
<1>3. \E d \in Datagram : arrived' = Append(arrived, d) /\ Expected(d, assoc.bound, kind)
  <2>1. CASE \E t \in assoc.bound : \E d \in Arrival(t) : arrived' = Append(arrived, d)
    <3>0. PICK t \in assoc.bound : \E d \in Arrival(t) : arrived' = Append(arrived, d)
      BY <2>1
    <3>1. PICK d \in Arrival(t) : arrived' = Append(arrived, d)
      BY <3>0
    <3>2. d \in Datagram /\ d.via = "relay" /\ d.from = t
      BY <1>2 DEF Arrival, Datagram
    <3> QED
      BY <3>1, <3>2 DEF Expected
  <2>2. CASE kind \in Socks5Kinds /\ arrived' = Append(arrived, Stray)
    <3>1. Stray \in Datagram /\ Stray.via = "elsewhere"
      BY DEF Stray, Datagram, Hosts, None
    <3> QED
      BY <2>2, <3>1 DEF Expected
  <2> QED
    BY <2>1, <2>2 DEF TargetReplies
<1>4. PICK d \in Datagram : arrived' = Append(arrived, d) /\ Expected(d, assoc.bound, kind)
  BY <1>3
<1>5. arrived' \in Seq(Datagram) /\ Solicited(arrived', assoc.bound, kind)
  BY <1>2, <1>4, SolicitedGrows
<1>6. SessionType'
  BY <1>1, <1>5 DEF SessionType, Running
<1>7. SenderInv'
  BY <1>1, <1>5 DEF SenderInv, Running
<1>8. RouteInv' /\ CountInv'
  BY <1>1 DEF RouteInv, CountInv, Counted, Running
<1> QED
  BY <1>6, <1>7, <1>8

LEMMA SessionStep ==
  ASSUME SessionInv, SessionNext
  PROVE  SessionInv'
BY MovesStep, AssociateStep, SendRequestStep, AnswerStep, ReplyReadStep, ReplySkippedStep, WrittenStep,
   udp_header_targetsStep, send_udp_payload_to_target_with_socketStep, ClientToTargetStep,
   ClientToTargetExitStep, DirectReplyStep, TargetRepliesStep
   DEF SessionNext, Session, Waits, Moves

LEMMA SessionStutter ==
  ASSUME SessionInv, UNCHANGED session_vars
  PROVE  SessionInv'
<1>1. UNCHANGED <<kind, pc, cin, req, assoc, arrived, reply, first, report, client_bytes, forwarded,
                  responses, outcome>>
  BY DEF session_vars, client, counts
<1>2. SessionType'
  BY <1>1 DEF SessionInv, SessionType, Running
<1>3. SenderInv'
  BY <1>1 DEF SessionInv, SenderInv, Running
<1>4. RouteInv'
  BY <1>1 DEF SessionInv, RouteInv, Running
<1>5. CountInv'
  BY <1>1 DEF SessionInv, CountInv, Counted, Running
<1> QED
  BY <1>2, <1>3, <1>4, <1>5 DEF SessionInv

LEMMA SessionStart ==
  ASSUME NEW kinds, SessionInit(kinds)
  PROVE  SessionInv
<1>1. assoc = [header |-> None, bound |-> {}, answered |-> FALSE, cut |-> FALSE,
               untried |-> <<>>, source |-> "any", family |-> None, socket |-> None]
  BY DEF SessionInit, NoAssoc
<1>2. /\ assoc \in [header : Hosts, bound : SUBSET Hosts, answered : BOOLEAN, cut : BOOLEAN,
                    untried : Seq({"v4", "v6"}), source : {"any", "v4", "v6"},
                    family : {None, "v4", "v6"}, socket : {None, "any", "v4", "v6"}]
      /\ assoc.bound = {} /\ assoc.socket = assoc.family /\ ~assoc.cut
  BY <1>1 DEF None, Hosts
<1>3. SessionType
  BY <1>2 DEF SessionInit, SessionType, Running, Requesting, Direct, Hosts
<1>4. SenderInv
  BY <1>2 DEF SessionInit, SenderInv, Solicited, Named, Asked, Writing
<1>5. RouteInv
  BY <1>2 DEF SessionInit, RouteInv, Running
<1>6. CountInv
  BY DEF SessionInit, CountInv, Counted, Running
<1> QED
  BY <1>3, <1>4, <1>5, <1>6 DEF SessionInv

LEMMA SessionSound ==
  ASSUME SessionInv
  PROVE  LabelledBySender /\ DatagramsGoWhereTheyShould
<1>1. LabelledBySender
  BY DEF SessionInv, SenderInv, LabelledBySender, Named, SentIn
<1>2. DatagramsGoWhereTheyShould
  BY DEF SessionInv, RouteInv, CountInv, DatagramsGoWhereTheyShould
<1> QED
  BY <1>1, <1>2

-----------------------------------------------------------------------------
LEMMA StreamSessionStart ==
  ASSUME StreamInit
  PROVE  SessionInv
BY SessionStart DEF StreamInit, NoSession

LEMMA StreamSessionStep ==
  ASSUME SessionInv, [StreamNext]_stream_vars
  PROVE  SessionInv'
<1>1. SessionNext \/ UNCHANGED session_vars
  BY DEF StreamNext, relay_with_idle_timeout_and_egress, Over, stream_vars
<1> QED
  BY <1>1, SessionStep, SessionStutter

LEMMA StreamSessionInvariant == StreamSpec => []SessionInv
BY StreamSessionStart, StreamSessionStep, PTL DEF StreamSpec

(* Every response of a UDP session carries the address of the host that    *)
(* sent it, a host that the session has written to, for every kind of      *)
(* upstream proxy, any number of targets, frames and late replies; and an  *)
(* association whose read was given up in the middle is never read again.  *)
THEOREM ResponsesAreLabelled == StreamSpec => []LabelledBySender
BY StreamSessionInvariant, SessionSound, PTL

(* A direct session sends to the target of its first frame alone, from a   *)
(* socket of that address's family; a session through a proxy sends each   *)
(* datagram where its own header says; and one that ends well reports what *)
(* it forwarded and what the client got.                                   *)
THEOREM DatagramsAreRouted == StreamSpec => []DatagramsGoWhereTheyShould
BY StreamSessionInvariant, SessionSound, PTL

-----------------------------------------------------------------------------
(* The dial: its invariant holds from the header to the end of the stream, *)
(* also where there is no dial, and where its state goes with its future.  *)
LEMMA NoDialInv == NoDial => DialInv
<1> SUFFICES ASSUME NoDial PROVE DialInv
  OBVIOUS
<1>1. /\ Links = <<>> /\ job.purpose = "tcp" /\ at = [hop |-> 0, pos |-> 0] /\ result = "none"
      /\ far = -1 /\ out = <<>> /\ inbound = <<>> /\ closed = FALSE
      /\ addrs = <<>> /\ tried = <<>> /\ heard = {}
  BY DEF NoDial, Links
<1>2. /\ <<>> \in Seq(Written) /\ <<>> \in Seq(Answers \cup {"bad", "data"})
      /\ <<>> \in Seq(Families) /\ <<>> \in Seq(LinkKinds)
  BY EmptySeq
<1>3. DialType
  <2>1. Len(Links) = 0 BY <1>1
  <2>2. LinkType BY <1>1, <1>2 DEF LinkType
  <2>3. closed \in BOOLEAN BY <1>1
  <2>4. at \in [hop : 0..Len(Links), pos : Nat] BY <1>1, <2>1
  <2>5. out \in Seq(Written) /\ inbound \in Seq(Answers \cup {"bad", "data"}) BY <1>1, <1>2
  <2>6. far \in Int BY <1>1
  <2>7. result \notin {"dialing", "connected"} /\ (at.pos = 0 => at.hop = Len(Links))
    BY <1>1, <2>1
  <2> QED BY <1>1, <2>2, <2>3, <2>4, <2>5, <2>6, <2>7 DEF DialType
<1>4. AddrInv BY <1>1, <1>2 DEF AddrInv
<1>5. NoStreamInv /\ StreamInv /\ HeardInv /\ SecretsToTheirOwner /\ WaitInv
  BY <1>1 DEF NoStreamInv, StreamInv, HeardInv, SecretsToTheirOwner, WaitInv, Dialed
<1> QED BY <1>3, <1>4, <1>5 DEF DialInv

LEMMA DialForgottenInv == DialForgotten => DialInv'
<1> SUFFICES ASSUME DialForgotten PROVE DialInv'
  OBVIOUS
<1>1. /\ Links' = <<>> /\ job'.purpose = "tcp" /\ at' = [hop |-> 0, pos |-> 0] /\ result' = "none"
      /\ far' = -1 /\ out' = <<>> /\ inbound' = <<>> /\ closed' = FALSE
      /\ addrs' = <<>> /\ tried' = <<>> /\ heard' = {}
  BY DEF DialForgotten, NoStream, Links
<1>2. /\ <<>> \in Seq(Written') /\ <<>> \in Seq(Answers \cup {"bad", "data"})
      /\ <<>> \in Seq(Families) /\ <<>> \in Seq(LinkKinds)
  BY EmptySeq
<1>3. DialType'
  <2>1. Len(Links') = 0 BY <1>1
  <2>2. LinkType' BY <1>1, <1>2 DEF LinkType
  <2>3. closed' \in BOOLEAN BY <1>1
  <2>4. at' \in [hop : 0..Len(Links'), pos : Nat] BY <1>1, <2>1
  <2>5. out' \in Seq(Written') /\ inbound' \in Seq(Answers \cup {"bad", "data"}) BY <1>1, <1>2
  <2>6. far' \in Int BY <1>1
  <2>7. result' \notin {"dialing", "connected"} /\ (at'.pos = 0 => at'.hop = Len(Links'))
    BY <1>1, <2>1
  <2> QED BY <1>1, <2>2, <2>3, <2>4, <2>5, <2>6, <2>7 DEF DialType
<1>4. AddrInv' BY <1>1, <1>2 DEF AddrInv
<1>5. NoStreamInv' /\ StreamInv' /\ HeardInv' /\ SecretsToTheirOwner' /\ WaitInv'
  BY <1>1 DEF NoStreamInv, StreamInv, HeardInv, SecretsToTheirOwner, WaitInv, Dialed
<1> QED BY <1>3, <1>4, <1>5 DEF DialInv

LEMMA StreamDialStart == StreamInit => DialInv
BY DialStarts, NoDialInv DEF StreamInit

LEMMA StreamDialStep == DialInv /\ [StreamNext]_stream_vars => DialInv'
<1> SUFFICES ASSUME DialInv, [StreamNext]_stream_vars PROVE DialInv'
  OBVIOUS
<1>1. DialNext \/ DialForgotten \/ UNCHANGED dial_vars
  BY DEF StreamNext, relay_with_idle_timeout_and_egress, Over, stream_vars
<1> QED BY <1>1, DialStep, DialForgottenInv, DialStutter

LEMMA StreamDialInvariant == StreamSpec => []DialInv
BY StreamDialStart, StreamDialStep, PTL DEF StreamSpec

(* Every word of a chain of dialers, and with it every credential and every *)
(* name of a further place, is read by the link it was written for: for     *)
(* chains of any length of the twelve kinds and proxies that accept, refuse *)
(* or close at any point.                                                   *)
THEOREM SecretsAreKept == StreamSpec => []SecretsToTheirOwner
<1>1. DialInv => SecretsToTheirOwner BY DEF DialInv
<1> QED BY <1>1, StreamDialInvariant, PTL

(* A dial that reports success has a stream that leads to the target (or to *)
(* the proxy of an association): no answer of the setup is still unread, so *)
(* none is relayed to the client as data.                                   *)
THEOREM ConnectedIsThere == StreamSpec => []ConnectedMeansThere
BY DialConnects, StreamDialInvariant, PTL

(* A dial tries only addresses of the family its source address allows, and *)
(* goes on to the next address only when the last one could not be          *)
(* connected or belongs to a QUIC proxy: for any list of addresses.         *)
THEOREM AddressesAreOrdered == StreamSpec => []AddressesInOrder
BY DialInOrder, StreamDialInvariant, PTL

=============================================================================
