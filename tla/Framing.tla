------------------------------ MODULE Framing ------------------------------
(***************************************************************************)
(* The formats the program speaks, each over a link of its own: a writer   *)
(* encodes messages, the bytes arrive in pieces of any size or stop in the *)
(* middle, a reader decodes them.  A byte takes Byte values (256 in the    *)
(* code), an address Ip4 or Ip6 octets (4 and 16), so that lengths meet    *)
(* the edges of their fields.                                              *)
(***************************************************************************)
EXTENDS Integers, Sequences, SequencesExt, FiniteSets

CONSTANTS Links, Byte, Ip4, Ip6, Tag, MaxPacket, MaxAddress, Messages, MaxSent

ASSUME FramingAssumption ==
    /\ Byte \in Nat /\ Byte >= 8 /\ Byte % 4 = 0
    /\ {Ip4, Ip6, Tag, MaxPacket, MaxAddress, MaxSent} \subseteq Nat \ {0}
    /\ Links \subseteq {"juicity", "tuic_connect", "trojan", "socks5", "socks5_app", "tuic",
                        "hysteria2", "vless", "vless_request", "vmess", "vmess_request"}

VARIABLES link,      \* the format of this link
          sent,      \* the messages written
          wire, buf, \* bytes under way, and bytes that have arrived unread
          got,       \* what the reader handed up
          writer, reader,
          tx, rx,    \* the cipher contexts of the two ends
          hdr        \* how far the reader is into the proxy's response header

vars == <<link, sent, wire, buf, got, writer, reader, tx, rx, hdr>>

Datagram == {"socks5", "socks5_app", "tuic", "hysteria2"}
Requests == {"tuic_connect", "vless_request", "vmess_request"}

-----------------------------------------------------------------------------
(* Writing: nothing is put on the wire for a message that does not fit.    *)

Refused == <<>>
put_u16(n) == <<n \div Byte, n % Byte>>
U8Max == Byte - 1
U16Max == Byte * Byte - 1
Cr == <<5, 2>>

\* The type of an address: Trojan's numbering, TUIC's.
Runtime == [v4 |-> 1, domain |-> 3, v6 |-> 4]
Tuic == [domain |-> 0, v4 |-> 1, v6 |-> 2]

Metadata(types, m) ==
    <<types[m.addr.kind]>> \o (IF m.addr.kind = "domain" THEN <<Len(m.addr.octets)>> ELSE <<>>)
    \o m.addr.octets \o put_u16(m.port)

DomainFits(m) == m.addr.kind = "domain" => Len(m.addr.octets) <= U8Max

\* Slip: the length of a name is cut to a byte instead of refused.
CutDomain(m) ==
    IF DomainFits(m) THEN Metadata(Runtime, m)
    ELSE <<Runtime.domain, Len(m.addr.octets) % Byte>> \o m.addr.octets \o put_u16(m.port)

encode_runtime_metadata(m) == IF DomainFits(m) THEN Metadata(Runtime, m) ELSE Refused

encode_trojan_metadata(m) == IF DomainFits(m) THEN Metadata(Runtime, m) ELSE Refused
encode_tuic_target(m) == IF DomainFits(m) THEN Metadata(Tuic, m) ELSE Refused
encode_socks5_target(m) == IF DomainFits(m) THEN Metadata(Runtime, m) ELSE Refused

\* A refused part refuses the whole.
Framed(head, part, tail) == IF part = Refused THEN Refused ELSE head \o part \o tail

\* The request names the network and the first target.
Network == [tcp |-> 1, udp |-> 3]
ProxyHeader_encode_to(m) == Framed(<<Network[m.network]>>, encode_runtime_metadata(m), <<>>)

encode_udp_datagram(m) ==
    IF Len(m.payload) > U16Max THEN Refused
    ELSE Framed(<<>>, encode_runtime_metadata(m), put_u16(Len(m.payload)) \o m.payload)

write_trojan_udp_packet_frame(m) ==
    IF Len(m.payload) > U16Max THEN Refused
    ELSE Framed(<<>>, encode_trojan_metadata(m), put_u16(Len(m.payload)) \o Cr \o m.payload)

write_tuic_connect(m) == Framed(<<5, 1>>, encode_tuic_target(m), <<>>)

\* Version, command, association, packet and fragment numbers, length.
encode_tuic_udp_packet(m) ==
    IF Len(m.payload) > U16Max THEN Refused
    ELSE Framed(<<5, 2, 0, 1, 0, 0, 1, 0>> \o put_u16(Len(m.payload)), encode_tuic_target(m), m.payload)

encode_socks5_udp_datagram(m) == Framed(<<0, 0, 0>>, encode_socks5_target(m), m.payload)

\* What a local application writes, and the client answers it with.
client_encode_socks5_udp_datagram(m) ==
    IF DomainFits(m) THEN <<0, 0, 0>> \o Metadata(Runtime, m) \o m.payload ELSE Refused

\* VLESS and VMess put the port before the address and number both anew.
PortFirst == [v4 |-> 1, domain |-> 2, v6 |-> 3]
vless_network_byte == [tcp |-> 1, udp |-> 2]
vmess_network_byte == [tcp |-> 1, udp |-> 2]

PortFirstMetadata(m) ==
    IF ~DomainFits(m) THEN Refused
    ELSE put_u16(m.port) \o <<PortFirst[m.addr.kind]>>
         \o (IF m.addr.kind = "domain" THEN <<Len(m.addr.octets)>> ELSE <<>>) \o m.addr.octets

encode_vless_target_metadata(m) == PortFirstMetadata(m)
encode_vmess_target_metadata(m) == PortFirstMetadata(m)

\* Version, the user's key (one octet of it), no addons, network, target.
Key == 6
write_vless_request_header(m) ==
    Framed(<<0, Key, 0, vless_network_byte[m.network]>>, encode_vless_target_metadata(m), <<>>)

\* A QUIC varint: two bits of the first byte say how many bytes there are.
Quarter == Byte \div 4
VarintMax(n) == Quarter * Byte ^ (n - 1) - 1

\* Slip: a length of two bytes keeps the mark of one.
VarintUnmarked(v) == IF v < Byte THEN <<v>> ELSE put_u16(v)

write_hysteria2_varint(v) ==
    LET n == CHOOSE k \in {1, 2, 4, 8} :
                 v <= VarintMax(k) /\ \A j \in {1, 2, 4, 8} : v <= VarintMax(j) => k <= j
        tag == CASE n = 1 -> 0 [] n = 2 -> 1 [] n = 4 -> 2 [] n = 8 -> 3
        digit(i) == (v \div Byte ^ (n - i)) % Byte
    IN  [i \in 1 .. n |-> digit(i) + (IF i = 1 THEN tag * Quarter ELSE 0)]

\* The target as the text "address:port", any one-to-one writing of the two.
hysteria2_udp_target_string(m) == m.addr.octets \o put_u16(m.port)

encode_hysteria2_udp_packet(m) ==
    LET addr == hysteria2_udp_target_string(m)
        packet == <<0, 0, 0, 1, 0, 0, 0, 1>> \o write_hysteria2_varint(Len(addr)) \o addr \o m.payload
    IN  IF addr = <<>> \/ Len(addr) > MaxAddress \/ Len(packet) > MaxPacket THEN Refused ELSE packet

write_vless_udp_packet_frame(m) ==
    IF Len(m.payload) > U16Max THEN Refused ELSE put_u16(Len(m.payload)) \o m.payload

-----------------------------------------------------------------------------
(* VMess: both ends draw from the same mask sequence, twice for a chunk,   *)
(* and count nonces.  XOR with a mask is any one-to-one change of a u16.   *)

Mask(i) == (7 * i + 3) % (U16Max + 1)
padding_len(c) == Mask(c.mask) % 3
encode_size(c, n) == put_u16((n + Mask(c.mask)) % (U16Max + 1))
decode_size(c, n) == (n - Mask(c.mask)) % (U16Max + 1)
Seal(nonce, payload) == payload \o [i \in 1 .. Tag |-> nonce % Byte]
NewContext == [mask |-> 0, nonce |-> 0]
Masked(c) == [c EXCEPT !.mask = @ + 1]
Counted(c) == [c EXCEPT !.nonce = (@ + 1) % (U16Max + 1)]

encode_chunk(c, payload) ==
    LET pad == padding_len(c)
        total == Len(payload) + Tag + pad
    IN  IF total > U16Max THEN [bytes |-> Refused, c |-> Masked(c)]
        ELSE [bytes |-> encode_size(Masked(c), total) \o Seal(c.nonce, payload) \o [i \in 1 .. pad |-> 0],
              c |-> Counted(Masked(Masked(c)))]

\* One octet stands for each of what the writer draws at random: the IV and
\* key of the body, the answer it expects, its stamp and its nonce.
VmessStreamContext == [iv |-> 4, key |-> 5, response_auth |-> 3, options |-> 5]
vmess_eauth_id == 7
ConnectionNonce == 2
Checksum(s) == FoldLeft(LAMBDA a, b : (a + b) % Byte, 0, s)
vmess_header_aead_seal(what, message) == Seal(vmess_eauth_id + ConnectionNonce + what, message)

request_instruction(m) ==
    LET c == VmessStreamContext
        said == Framed(<<1, c.iv, c.key, c.response_auth, c.options, 3, 0, vmess_network_byte[m.network]>>,
                       encode_vmess_target_metadata(m), <<>>)
    IN  IF said = Refused THEN Refused ELSE Append(said, Checksum(said))

encrypt_request_header(m) ==
    LET said == request_instruction(m) IN
    IF said = Refused THEN Refused
    ELSE <<vmess_eauth_id>> \o vmess_header_aead_seal(0, put_u16(Len(said)))
         \o <<ConnectionNonce>> \o vmess_header_aead_seal(1, said)

\* Slip: the size is taken out of the mask before the padding is.
SizeFirst(c, s) ==
    LET size == decode_size(c, s[1] * Byte + s[2])
        pad == padding_len(Masked(c))
    IN  [size |-> size, pad |-> pad, c |-> Masked(Masked(c))]

\* What the two bytes of a chunk's size say.
ChunkSize(c, s) ==
    [size |-> decode_size(Masked(c), s[1] * Byte + s[2]), pad |-> padding_len(c), c |-> Masked(Masked(c))]

-----------------------------------------------------------------------------
(* Reading: "short" waits for more bytes, "bad" is an error.               *)

Short == [res |-> "short"]
Bad == [res |-> "bad"]
Ok(value, used) == [res |-> "ok", value |-> value, used |-> used]
u16At(s, i) == s[i] * Byte + s[i + 1]
From(s, i) == SubSeq(s, i, Len(s))

Target(kind, s, from, n) ==
    IF Len(s) < from + n + 1 THEN Short
    ELSE Ok([addr |-> [kind |-> kind, octets |-> SubSeq(s, from, from + n - 1)],
             port |-> u16At(s, from + n)], from + n + 1)

ReadTarget(types, s) ==
    CASE s = <<>> -> Short
      [] s # <<>> /\ s[1] = types.v4 -> Target("v4", s, 2, Ip4)
      [] s # <<>> /\ s[1] = types.v6 -> Target("v6", s, 2, Ip6)
      [] s # <<>> /\ s[1] = types.domain -> IF Len(s) < 2 THEN Short ELSE Target("domain", s, 3, s[2])
      [] OTHER -> Bad

read_runtime_target_metadata(s) == ReadTarget(Runtime, s)
read_trojan_udp_metadata(s) == ReadTarget(Runtime, s)
decode_tuic_udp_target(s) == ReadTarget(Tuic, s)

\* A target that starts after `head` bytes.
After(head, t) == IF t.res = "ok" THEN [t EXCEPT !.used = @ + head] ELSE t

\* The payload after a target, a u16 length and `gap` further bytes.
WithPayload(t, s, gap) ==
    IF t.res # "ok" THEN t
    ELSE LET at == t.used + 3 + gap IN
         IF Len(s) < at - 1 THEN Short
         ELSE IF Len(s) < at - 1 + u16At(s, t.used + 1) THEN Short
         ELSE Ok(t.value @@ [payload |-> SubSeq(s, at, at - 1 + u16At(s, t.used + 1))],
                 at - 1 + u16At(s, t.used + 1))

\* The target of a request, with the network its code stands for.
OfNetwork(codes, code, t) ==
    IF t.res # "ok" THEN t
    ELSE IF \A n \in DOMAIN codes : codes[n] # code THEN Bad
    ELSE [t EXCEPT !.value = @ @@ [network |-> CHOOSE n \in DOMAIN codes : codes[n] = code]]

read_proxy_header_prefix(s) ==
    IF s = <<>> THEN Short
    ELSE OfNetwork(Network, s[1], After(1, read_runtime_target_metadata(Tail(s))))

\* Slip: the frame is taken to end where its fixed part does.
FrameByTarget(s) ==
    LET t == WithPayload(read_runtime_target_metadata(s), s, 0) IN
    IF t.res = "ok" THEN [t EXCEPT !.used = @ - Len(t.value.payload)] ELSE t

read_udp_datagram_frame(s) == WithPayload(read_runtime_target_metadata(s), s, 0)

read_trojan_udp_packet_frame(s) ==
    LET t == read_trojan_udp_metadata(s) IN
    IF t.res = "ok" /\ Len(s) >= t.used + 4 /\ SubSeq(s, t.used + 3, t.used + 4) # Cr
    THEN Bad ELSE WithPayload(t, s, 2)

read_tuic_connect_header_prefix(s) ==
    CASE Len(s) < 2 -> Short
      [] Len(s) >= 2 /\ SubSeq(s, 1, 2) # <<5, 1>> -> Bad
      [] OTHER -> After(2, ReadTarget(Tuic, From(s, 3)))

decode_tuic_udp_packet(s) ==
    IF Len(s) < 10 \/ SubSeq(s, 1, 2) # <<5, 2>> \/ SubSeq(s, 3, 4) # <<0, 1>>
       \/ SubSeq(s, 7, 8) # <<1, 0>> THEN Bad
    ELSE LET t == After(10, decode_tuic_udp_target(From(s, 11))) IN
         IF t.res # "ok" \/ Len(s) # t.used + u16At(s, 9) THEN Bad
         ELSE Ok(t.value @@ [payload |-> From(s, t.used + 1)], Len(s))

decode_socks5_udp_response_header(s) ==
    IF Len(s) < 4 \/ SubSeq(s, 1, 3) # <<0, 0, 0>> THEN Bad
    ELSE LET t == After(3, ReadTarget(Runtime, From(s, 4))) IN
         IF t.res # "ok" \/ t.value.addr.octets = <<>> THEN Bad
         ELSE Ok(t.value @@ [payload |-> From(s, t.used + 1)], Len(s))

\* A name of one-byte characters, or not text at all.
Text(octets) == \A i \in DOMAIN octets : octets[i] < Byte \div 2

client_decode_socks5_udp_datagram(s) ==
    IF Len(s) < 4 \/ SubSeq(s, 1, 3) # <<0, 0, 0>> THEN Bad
    ELSE LET t == After(3, ReadTarget(Runtime, From(s, 4))) IN
         IF t.res # "ok" THEN Bad
         ELSE IF t.value.addr.kind = "domain" /\ (t.value.addr.octets = <<>> \/ ~Text(t.value.addr.octets)) THEN Bad
         ELSE Ok(t.value @@ [payload |-> From(s, t.used + 1)], Len(s))

\* How a VLESS or VMess proxy finds the target: the port is before its type.
ProxyReadsTarget(s) ==
    IF Len(s) < 3 THEN Short
    ELSE LET swapped == ReadTarget(PortFirst, From(s, 3) \o SubSeq(s, 1, 2)) IN
         IF swapped.res # "ok" THEN swapped
         ELSE IF swapped.used > Len(s) THEN Short
         ELSE [swapped EXCEPT !.value.port = u16At(s, 1)]

ProxyReadsVless(s) ==
    CASE Len(s) < 4 -> Short
      [] Len(s) >= 4 /\ SubSeq(s, 1, 3) # <<0, Key, 0>> -> Bad
      [] OTHER -> OfNetwork(vless_network_byte, s[4], After(4, ProxyReadsTarget(From(s, 5))))

\* The message sealed at the start of s, of n octets.
Opened(nonce, n, s) ==
    IF Len(s) < n + Tag THEN Short
    ELSE IF SubSeq(s, 1, n + Tag) # Seal(nonce, SubSeq(s, 1, n)) THEN Bad
    ELSE Ok(SubSeq(s, 1, n), n + Tag)

ProxyReadsInstruction(said) ==
    LET body == SubSeq(said, 1, Len(said) - 1) IN
    IF Len(said) < 9 \/ said[1] # 1 \/ said[Len(said)] # Checksum(body) THEN Bad
    ELSE OfNetwork(vmess_network_byte, said[8], ProxyReadsTarget(From(body, 9)))

ProxyReadsVmess(s) ==
    LET len == Opened(s[1] + ConnectionNonce, 2, From(s, 2)) IN
    IF s = <<>> THEN Short
    ELSE IF len.res # "ok" THEN len
    ELSE LET at == len.used + 3
             said == Opened(s[1] + s[at - 1] + 1, u16At(len.value, 1), From(s, at))
         IN  IF Len(s) < at THEN Short
             ELSE IF said.res # "ok" THEN said
             ELSE LET t == ProxyReadsInstruction(said.value) IN
                  IF t.res = "ok" THEN [t EXCEPT !.used = at - 1 + said.used] ELSE Bad

\* The answer of a VMess proxy: its length, sealed, and itself, sealed.
read_vmess_response_header(s) ==
    LET len == Opened(0, 2, s) IN
    IF len.res # "ok" THEN len
    ELSE LET n == u16At(len.value, 1)
             header == Opened(1, n, From(s, len.used + 1))
         IN  IF header.res # "ok" THEN header
             ELSE IF n < 4 \/ header.value[1] # VmessStreamContext.response_auth \/ header.value[3] # 0 THEN Bad
             ELSE Ok(header.value, len.used + header.used)

read_hysteria2_datagram_varint(s) ==
    LET n == CASE s[1] \div Quarter = 0 -> 1 [] s[1] \div Quarter = 1 -> 2
               [] s[1] \div Quarter = 2 -> 4 [] OTHER -> 8
    IN  IF Len(s) < n THEN Bad
        ELSE Ok(FoldLeft(LAMBDA v, b : v * Byte + b, s[1] % Quarter, SubSeq(s, 2, n)), n)

decode_hysteria2_udp_packet(s) ==
    IF Len(s) < 9 \/ SubSeq(s, 1, 4) # <<0, 0, 0, 1>> \/ SubSeq(s, 7, 8) # <<0, 1>> THEN Bad
    ELSE LET v == read_hysteria2_datagram_varint(From(s, 9))
             start == 9 + v.used IN
         IF v.res # "ok" THEN Bad
         ELSE IF v.value = 0 \/ v.value > MaxAddress \/ Len(s) <= start - 1 + v.value THEN Bad
         ELSE Ok([name |-> SubSeq(s, start, start - 1 + v.value),
                  payload |-> From(s, start + v.value)], Len(s))

read_vless_udp_packet_frame(s) ==
    CASE Len(s) < 2 -> Short
      [] Len(s) >= 2 /\ Len(s) < 2 + u16At(s, 1) -> Short
      [] OTHER -> Ok([payload |-> SubSeq(s, 3, 2 + u16At(s, 1))], 2 + u16At(s, 1))

\* The end is a chunk with nothing but its tag: it takes no nonce.
decode_chunk(c, s) ==
    IF Len(s) < 2 THEN Short
    ELSE LET h == ChunkSize(c, s)
             body == SubSeq(s, 3, 2 + h.size - h.pad)
             payload == SubSeq(body, 1, Len(body) - Tag)
         IN  CASE Len(s) < 2 + h.size -> Short
               [] Len(s) >= 2 + h.size /\ h.size < Tag + h.pad -> Bad
               [] Len(s) >= 2 + h.size /\ h.size = Tag + h.pad -> [res |-> "end"]
               [] Len(s) >= 2 + h.size /\ h.size > Tag + h.pad /\ body # Seal(c.nonce, payload) -> Bad
               [] OTHER -> Ok([payload |-> payload], 2 + h.size) @@ [c |-> Counted(h.c)]

-----------------------------------------------------------------------------
(* The two ends of a link.                                                 *)

Encode(m) ==
    CASE link = "juicity" -> IF sent = <<>> THEN ProxyHeader_encode_to(m) ELSE encode_udp_datagram(m)
      [] link = "tuic_connect" -> write_tuic_connect(m)
      [] link = "trojan" -> write_trojan_udp_packet_frame(m)
      [] link = "socks5" -> encode_socks5_udp_datagram(m)
      [] link = "socks5_app" -> client_encode_socks5_udp_datagram(m)
      [] link = "vless_request" -> write_vless_request_header(m)
      [] link = "vmess_request" -> encrypt_request_header(m)
      [] link = "tuic" -> encode_tuic_udp_packet(m)
      [] link = "hysteria2" -> encode_hysteria2_udp_packet(m)
      [] link = "vless" -> write_vless_udp_packet_frame(m)
      [] link = "vmess" -> encode_chunk(tx, m.payload).bytes

Decode ==
    CASE link = "juicity" -> IF got = <<>> THEN read_proxy_header_prefix(buf) ELSE read_udp_datagram_frame(buf)
      [] link = "tuic_connect" -> read_tuic_connect_header_prefix(buf)
      [] link = "trojan" -> read_trojan_udp_packet_frame(buf)
      [] link = "socks5" -> decode_socks5_udp_response_header(buf)
      [] link = "socks5_app" -> client_decode_socks5_udp_datagram(buf)
      [] link = "vless_request" -> ProxyReadsVless(buf)
      [] link = "vmess_request" -> ProxyReadsVmess(buf)
      [] link = "tuic" -> decode_tuic_udp_packet(buf)
      [] link = "hysteria2" -> decode_hysteria2_udp_packet(buf)
      [] link = "vless" -> read_vless_udp_packet_frame(buf)
      [] link = "vmess" -> decode_chunk(rx, buf)

\* A VLESS proxy answers first: its version, the length of its addons, addons.
\* So does a VMess proxy: what it was told to answer, options, no command.
VmessAnswer(header) == Seal(0, put_u16(Len(header))) \o Seal(1, header)

Greetings ==
    CASE link = "vless" -> [good : {TRUE}, bytes : {<<0, 0>>, <<0, 2, 6, 6>>}] \cup [good : {FALSE}, bytes : {<<1, 0>>}]
      [] link = "vmess" -> [good : {TRUE}, bytes : {<<>>, VmessAnswer(<<3, 1, 0, 0>>), VmessAnswer(<<3, 0, 0, 2, 6, 6>>)}]
                           \cup [good : {FALSE}, bytes : {VmessAnswer(<<4, 0, 0, 0>>), VmessAnswer(<<3, 0, 0>>)}]
      [] OTHER -> [good : {TRUE}, bytes : {<<>>}]

\* Nothing is answered to the writer of a VMess body that goes up.
FirstPhase(greeting) ==
    CASE greeting.bytes = <<>> -> "ready" [] link = "vless" -> "prefix" [] OTHER -> "sealed"

Init ==
    /\ link \in Links
    /\ \E greeting \in Greetings :
        /\ wire = greeting.bytes
        /\ hdr = [phase |-> FirstPhase(greeting), bytes |-> <<>>, remaining |-> 0, good |-> greeting.good]
    /\ tx = NewContext /\ rx = NewContext
    /\ sent = <<>> /\ buf = <<>> /\ got = <<>>
    /\ writer = "open" /\ reader = "reading"

\* Datagrams follow a request that asked for them.
Asks == link \in Requests \/ (link = "juicity" /\ sent = <<>>)
MaxOf(l) ==
    CASE l = "juicity" -> IF sent # <<>> /\ sent[1].network = "tcp" THEN 1 ELSE MaxSent + 1
      [] l \in Requests -> 1
      [] OTHER -> MaxSent

\* Only an application may name what is not text.
Writes(m) ==
    /\ m.addr.kind = "domain" /\ ~Text(m.addr.octets) => link = "socks5_app"
    /\ ~Asks => m.network = "udp"

Send(m) ==
    /\ writer = "open" /\ Len(sent) < MaxOf(link) /\ Writes(m)
    /\ link \in Datagram => wire = <<>> /\ buf = <<>>
    /\ writer' = IF Encode(m) = Refused THEN "refused" ELSE "open"
    /\ wire' = wire \o Encode(m)
    /\ sent' = IF Encode(m) = Refused THEN sent ELSE Append(sent, m)
    /\ tx' = IF link = "vmess" THEN encode_chunk(tx, m.payload).c ELSE tx
    /\ UNCHANGED <<link, buf, got, reader, rx, hdr>>

\* The end of what there is to send: VMess says it with an empty chunk.
copy_plain_to_vmess_end ==
    /\ writer = "open"
    /\ writer' = "finished"
    /\ wire' = IF link = "vmess" THEN wire \o encode_chunk(tx, <<>>).bytes ELSE wire
    /\ UNCHANGED <<link, sent, buf, got, reader, tx, rx, hdr>>

\* The connection breaks: what has not arrived never does.
Cut(n) ==
    /\ link \notin Datagram /\ writer = "open" /\ n < Len(wire)
    /\ wire' = SubSeq(wire, 1, n) /\ writer' = "cut"
    /\ UNCHANGED <<link, sent, buf, got, reader, tx, rx, hdr>>

Arrive(n) ==
    /\ reader = "reading" /\ n \in 1 .. Len(wire)
    /\ link \in Datagram => n = Len(wire)
    /\ buf' = buf \o SubSeq(wire, 1, n)
    /\ wire' = From(wire, n + 1)
    /\ UNCHANGED <<link, sent, got, writer, reader, tx, rx, hdr>>

\* Slip: the addons are taken to have come with their length.
HeaderAtOnce(n) ==
    LET bytes == hdr.bytes \o SubSeq(buf, 1, n) IN
    [hdr EXCEPT !.phase = IF Len(bytes) < 2 THEN "prefix" ELSE "ready", !.bytes = bytes]

\* How the header stands after n more of its bytes.
HeaderAfter(n) ==
    IF hdr.phase = "prefix"
    THEN LET bytes == hdr.bytes \o SubSeq(buf, 1, n) IN
         [hdr EXCEPT !.phase = IF Len(bytes) < 2 THEN "prefix" ELSE IF bytes[2] = 0 THEN "ready" ELSE "addons",
                     !.bytes = bytes,
                     !.remaining = IF Len(bytes) < 2 THEN 0 ELSE bytes[2]]
    ELSE [hdr EXCEPT !.remaining = @ - n, !.phase = IF hdr.remaining = n THEN "ready" ELSE "addons"]

\* One poll of the VLESS stream takes some of the response header that has
\* arrived, and no byte after it.
poll_read(n) ==
    /\ reader = "reading" /\ hdr.phase \in {"prefix", "addons"}
    /\ n \in 1 .. Len(buf)
    /\ n <= IF hdr.phase = "prefix" THEN 2 - Len(hdr.bytes) ELSE hdr.remaining
    /\ hdr' = HeaderAfter(n)
    /\ buf' = From(buf, n + 1)
    /\ reader' = IF Len(hdr'.bytes) = 2 /\ hdr'.bytes[1] # 0 THEN "failed" ELSE "reading"
    /\ UNCHANGED <<link, sent, wire, got, writer, tx, rx>>

\* The download of a VMess body starts after the proxy's answer.
bridge_vmess_stream ==
    LET d == read_vmess_response_header(buf) IN
    /\ reader = "reading" /\ hdr.phase = "sealed" /\ d.res # "short"
    /\ IF d.res = "ok" THEN reader' = "reading" /\ hdr' = [hdr EXCEPT !.phase = "ready"] /\ buf' = From(buf, d.used + 1)
       ELSE reader' = "failed" /\ UNCHANGED <<hdr, buf>>
    /\ UNCHANGED <<link, sent, wire, got, writer, tx, rx>>

Read ==
    /\ reader = "reading" /\ hdr.phase = "ready" /\ buf # <<>> /\ Decode.res # "short"
    /\ LET d == Decode IN
       /\ reader' = CASE d.res = "ok" -> "reading" [] d.res = "end" -> "ended" [] d.res = "bad" -> "failed"
       /\ got' = IF d.res = "ok" THEN Append(got, d.value) ELSE got
       /\ buf' = IF d.res = "ok" THEN From(buf, d.used + 1) ELSE buf
       /\ rx' = IF d.res = "ok" /\ link = "vmess" THEN d.c ELSE rx
    /\ UNCHANGED <<link, sent, wire, writer, tx, hdr>>

\* No more bytes: an error everywhere but where a VMess chunk would start.
ReadEof ==
    /\ reader = "reading" /\ writer # "open" /\ wire = <<>>
    /\ hdr.phase = "ready" => buf = <<>> \/ Decode.res = "short"
    /\ hdr.phase \in {"prefix", "addons"} => buf = <<>>
    /\ hdr.phase = "sealed" => read_vmess_response_header(buf).res = "short"
    /\ reader' = IF link = "vmess" /\ hdr.phase = "ready" /\ Len(buf) < 2 THEN "ended" ELSE "failed"
    /\ UNCHANGED <<link, sent, wire, buf, got, writer, tx, rx, hdr>>

Next ==
    \/ \E m \in Messages : Send(m)
    \/ copy_plain_to_vmess_end
    \/ \E n \in 0 .. Len(wire) : Cut(n)
    \/ \E n \in 1 .. Len(wire) : Arrive(n)
    \/ \E n \in 1 .. 2 : poll_read(n)
    \/ bridge_vmess_stream
    \/ Read
    \/ ReadEof

Spec == Init /\ [][Next]_vars

-----------------------------------------------------------------------------
\* What the reader of message i is to hand up.
Carried(i) ==
    LET m == sent[i] IN
    CASE link = "tuic_connect" -> [addr |-> m.addr, port |-> m.port]
      [] link \in {"vless_request", "vmess_request"} \/ (link = "juicity" /\ i = 1) ->
            [addr |-> m.addr, port |-> m.port, network |-> m.network]
      [] link = "hysteria2" -> [name |-> hysteria2_udp_target_string(m), payload |-> m.payload]
      [] link \in {"vless", "vmess"} -> [payload |-> m.payload]
      [] OTHER -> [addr |-> m.addr, port |-> m.port, payload |-> m.payload]

\* A message its own format has no way to say: an empty datagram over
\* Hysteria2 is refused as too short and over VMess is the end of the body, and
\* a SOCKS5 header with an empty name, or with one that is no text, is refused.
Unsayable(m) ==
    \/ link \in {"hysteria2", "vmess"} /\ m.payload = <<>>
    \/ link \in {"socks5", "socks5_app"} /\ m.addr.octets = <<>>
    \/ m.addr.kind = "domain" /\ ~Text(m.addr.octets)

\* Whatever the pieces the bytes come in and wherever they stop, a reader of
\* any of the formats hands up the messages that were written, in their order,
\* with nothing altered, run together or cut short: lengths, address types,
\* masks and nonces of the two ends agree.  Nothing is handed up of a proxy that
\* answered a VLESS or VMess request with what it was not to answer.  And once
\* all that was written has arrived, the reader stops only when it has handed up
\* every message, up to the first one its format has no way to say: none is
\* taken for an error or for the end of the stream.
ReadAsWritten ==
    /\ Len(got) <= Len(sent)
    /\ ~hdr.good => got = <<>>
    /\ \A i \in 1 .. Len(got) : got[i] = Carried(i)
    /\ writer = "finished" /\ wire = <<>> /\ reader # "reading" /\ hdr.good =>
           LET said == {i \in 1 .. Len(sent) : \A j \in 1 .. i : ~Unsayable(sent[j])} IN
           Len(got) = Cardinality(said)
=============================================================================
