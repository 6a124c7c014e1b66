----------------------------- MODULE DialerEgress -----------------------------
(***************************************************************************)
(* How the server reaches a target: directly, through one upstream proxy,  *)
(* or through a chain of them (connect_tcp_proxy_target_with_egress and    *)
(* the connect_*_udp_association functions of zuicity-transport).  A dial  *)
(* resolves a name, tries the addresses in order, and runs on the first    *)
(* that connects a handshake that differs from proxy to proxy: some wait   *)
(* for an answer, others write their request and go on, so that the words  *)
(* of several hops may be under way in one stream.  The proxies and the    *)
(* network are external: a proxy may refuse, hang up or stay silent.       *)
(*                                                                         *)
(* Hops are numbered as the links of the chain are; the dial starts at the *)
(* last.  Place i is the endpoint of link i, place 0 the target of the     *)
(* header, place -1 nowhere.                                               *)
(***************************************************************************)
EXTENDS Integers, Sequences, Functions

CONSTANTS Chains,      \* the dialer links to try: sequences of kinds of proxy
          Families,    \* the address families name resolution can return
          MaxAddresses \* bound on the addresses a name resolves to

\* ProxyDialerLink; HTTP CONNECT with and without TLS, SOCKS5 with and without
\* credentials.
LinkKinds == {"http", "https", "socks5", "socks5_login", "shadowsocks", "shadowsocksr", "trojan",
              "vmess", "vless", "juicity", "tuic", "hysteria2"}

ASSUME DialAssumption == Chains \subseteq Seq(LinkKinds) /\ MaxAddresses \in Nat

VARIABLES job,      \* links, purpose ("tcp" or "udp") and source family
          addrs,    \* addresses still to be tried, as families
          tried,    \* history: families of the addresses that were tried
          at,       \* hop and position in its script; position 0: choose an address
          far,      \* where the stream really ends
          out,      \* words written and not yet read at the far end
          inbound,  \* words on their way back, in order
          closed,   \* the far end hung up
          heard,    \* history: which place read the words of which hop
          result    \* "dialing", "connected", "failed", "no_usable" or "timed_out"

dial_vars == <<job, addrs, tried, at, far, out, inbound, closed, heard, result>>
stream == <<far, out, inbound, closed>>

-----------------------------------------------------------------------------
(* The scripts.  "connect", "bind", "quic" and "open" set up a connection, *)
(* a socket or a stream; the words of Words are written; those of Answers  *)
(* are read and checked; "refuse" is an error the code returns itself.     *)

Words == {"tls_hello", "hello", "login", "ask"}
Answers == {"tls", "hello_ok", "login_ok", "answer", "bound"}

\* Credentials are offered when the link has a user name or a password.
socks5_negotiate_auth(kind) ==
    IF kind = "socks5_login" THEN <<"hello", "hello_ok", "login", "login_ok">>
                             ELSE <<"hello", "hello_ok">>

\* Slip: the bound address of the reply is left in the stream.
Socks5WithoutBound(kind) == socks5_negotiate_auth(kind) \o <<"ask", "answer">>

socks5_connect(kind) == socks5_negotiate_auth(kind) \o <<"ask", "answer", "bound">>

socks5_udp_associate(kind) == socks5_negotiate_auth(kind) \o <<"ask", "answer", "bound">>

connect_http_connect_tls_if_needed(kind) ==
    IF kind = "https" THEN <<"tls_hello", "tls">> ELSE <<>>

\* The response header is read byte by byte up to its empty line.
http_connect(kind) == connect_http_connect_tls_if_needed(kind) \o <<"ask", "answer">>

connect_trojan_stream == <<"tls_hello", "tls", "ask">>

connect_vmess_stream == <<"ask">>

connect_vless_stream == <<"ask">>

\* The library's stream sends the target with the first bytes of payload.
connect_shadowsocks_stream == <<"ask">>

connect_tuic_dialer_link == <<"quic", "login">>

connect_juicity_dialer_link == <<"quic", "login">>

connect_hysteria2_dialer_link == <<"quic">>

authenticate_hysteria2_dialer_link == <<"login", "login_ok">>

write_tuic_tcp_connect == <<"open", "ask">>

open_juicity_tcp_proxy_stream == <<"open", "ask">>

open_juicity_udp_proxy_stream == <<"open", "ask">>

write_hysteria2_tcp_request == <<"open", "ask">>

read_hysteria2_tcp_response == <<"answer">>

\* What one link runs over a stream that is there already.
connect_tcp_dialer_link(kind) ==
    CASE kind \in {"http", "https"} -> http_connect(kind)
      [] kind \in {"socks5", "socks5_login"} -> socks5_connect(kind)
      [] kind \in {"shadowsocks", "shadowsocksr"} -> connect_shadowsocks_stream
      [] kind = "trojan" -> connect_trojan_stream
      [] kind = "vmess" -> connect_vmess_stream
      [] kind = "vless" -> connect_vless_stream
      [] kind \in {"juicity", "tuic", "hysteria2"} -> <<"refuse">>

connect_tcp_proxy_target_via_http_connect(kind) == <<"connect">> \o http_connect(kind)

connect_tcp_proxy_target_via_socks5_inner(kind) == <<"connect">> \o socks5_connect(kind)

connect_tcp_proxy_target_via_shadowsocks == <<"connect">> \o connect_shadowsocks_stream

connect_tcp_proxy_target_via_trojan == <<"connect">> \o connect_trojan_stream

connect_tcp_proxy_target_via_vmess == <<"connect">> \o connect_vmess_stream

connect_tcp_proxy_target_via_vless == <<"connect">> \o connect_vless_stream

connect_tcp_proxy_target_via_tuic ==
    <<"bind">> \o connect_tuic_dialer_link \o write_tuic_tcp_connect

connect_tcp_proxy_target_via_hysteria2 ==
    <<"bind">> \o connect_hysteria2_dialer_link \o authenticate_hysteria2_dialer_link
        \o write_hysteria2_tcp_request \o read_hysteria2_tcp_response

connect_tcp_proxy_target_via_juicity ==
    <<"bind">> \o connect_juicity_dialer_link \o open_juicity_tcp_proxy_stream

connect_tuic_udp_association == <<"bind">> \o connect_tuic_dialer_link

connect_hysteria2_udp_association ==
    <<"bind">> \o connect_hysteria2_dialer_link \o authenticate_hysteria2_dialer_link

connect_juicity_udp_association ==
    <<"bind">> \o connect_juicity_dialer_link \o open_juicity_udp_proxy_stream

connect_socks5_udp_association_inner(kind) ==
    <<"connect", "bind">> \o socks5_udp_associate(kind)

connect_trojan_udp_association == connect_tcp_proxy_target_via_trojan

connect_vless_udp_association == connect_tcp_proxy_target_via_vless

connect_vmess_udp_association == <<"connect", "ask">>

\* The script of a dial through one link.
connect_tcp_proxy_target_with_dialer_link(kind) ==
    CASE kind \in {"http", "https"} -> connect_tcp_proxy_target_via_http_connect(kind)
      [] kind \in {"socks5", "socks5_login"} -> connect_tcp_proxy_target_via_socks5_inner(kind)
      [] kind \in {"shadowsocks", "shadowsocksr"} -> connect_tcp_proxy_target_via_shadowsocks
      [] kind = "trojan" -> connect_tcp_proxy_target_via_trojan
      [] kind = "juicity" -> connect_tcp_proxy_target_via_juicity
      [] kind = "tuic" -> connect_tcp_proxy_target_via_tuic
      [] kind = "hysteria2" -> connect_tcp_proxy_target_via_hysteria2
      [] kind = "vmess" -> connect_tcp_proxy_target_via_vmess
      [] kind = "vless" -> connect_tcp_proxy_target_via_vless

\* The script of a UDP association through one link.
UdpAssociationScript(kind) ==
    CASE kind \in {"socks5", "socks5_login"} -> connect_socks5_udp_association_inner(kind)
      [] kind = "trojan" -> connect_trojan_udp_association
      [] kind = "vless" -> connect_vless_udp_association
      [] kind = "vmess" -> connect_vmess_udp_association
      [] kind = "tuic" -> connect_tuic_udp_association
      [] kind = "hysteria2" -> connect_hysteria2_udp_association
      [] kind = "juicity" -> connect_juicity_udp_association

Links == job.links
Single == Len(Links) = 1
OverQuic == Single /\ Links[1] \in {"juicity", "tuic", "hysteria2"}

\* A chain connects to its last link and runs every hop over the stream so far.
connect_tcp_proxy_target_via_dialer_chain_inner(hop) ==
    (IF hop = Len(Links) THEN <<"connect">> ELSE <<>>) \o connect_tcp_dialer_link(Links[hop])

Script(hop) ==
    CASE Links = <<>> -> <<"connect">>
      [] Single /\ job.purpose = "udp" -> UdpAssociationScript(Links[1])
      [] Single /\ job.purpose = "tcp" -> connect_tcp_proxy_target_with_dialer_link(Links[1])
      [] OTHER -> connect_tcp_proxy_target_via_dialer_chain_inner(hop)

Step == Script(at.hop)[at.pos]

\* Slip: a hop of a chain is asked for the endpoint of the link after it.
NextEndpoint(hop) == IF hop = 1 THEN 0 ELSE IF hop < Len(Links) THEN hop + 1 ELSE hop - 1

\* The place a hop is asked for: the endpoint of the link before it, and for
\* the first link the header's target.
dialer_link_endpoint_header(hop) == hop - 1

\* Slip: only a single SOCKS5 link has the timer.
TimerOnSingleOnly == Single /\ Links[1] \in {"socks5", "socks5_login"}

\* The timer is around a dial that has a SOCKS5 hop, whatever else is in it.
socks5_setup_with_timeout == \E i \in DOMAIN Links : Links[i] \in {"socks5", "socks5_login"}

\* Slip: an address is used whatever the source address is.
NoSourceCheck(family) == FALSE

egress_source_mismatches_target(family) == job.source # "any" /\ job.source # family

-----------------------------------------------------------------------------
NoStream == far' = -1 /\ out' = <<>> /\ inbound' = <<>> /\ closed' = FALSE

DialInit ==
    /\ job \in [links : Chains, purpose : {"tcp", "udp"}, source : Families \cup {"any"}]
    /\ job.purpose = "udp" => /\ Single
                              /\ Links[1] \in {"trojan", "vless", "vmess", "socks5", "socks5_login",
                                               "juicity", "tuic", "hysteria2"}
    /\ addrs \in UNION {[1..n -> Families] : n \in 0..MaxAddresses}
    /\ tried = <<>> /\ heard = {} /\ result = "dialing"
    /\ at = [hop |-> Len(Links), pos |-> 0]
    /\ far = -1 /\ out = <<>> /\ inbound = <<>> /\ closed = FALSE

Choosing == result = "dialing" /\ at.pos = 0
Working == result = "dialing" /\ at.pos > 0

\* The lookup fails, or the link's own settings are refused, before any address.
ResolutionFails ==
    /\ Choosing /\ tried = <<>> /\ result' = "failed"
    /\ UNCHANGED <<job, addrs, tried, at, stream, heard>>

SkipAddress ==
    /\ Choosing /\ addrs # <<>> /\ egress_source_mismatches_target(Head(addrs))
    /\ addrs' = Tail(addrs)
    /\ UNCHANGED <<job, tried, at, stream, heard, result>>

TryAddress ==
    /\ Choosing /\ addrs # <<>> /\ ~egress_source_mismatches_target(Head(addrs))
    /\ addrs' = Tail(addrs) /\ tried' = Append(tried, Head(addrs))
    /\ at' = [at EXCEPT !.pos = 1]
    /\ UNCHANGED <<job, stream, heard, result>>

AddressesExhausted ==
    /\ Choosing /\ addrs = <<>>
    /\ result' = IF tried = <<>> THEN "no_usable" ELSE "failed"
    /\ UNCHANGED <<job, addrs, tried, at, stream, heard>>

\* Slip: the chain stops before its first link.
AdvanceEarly ==
    IF at.pos < Len(Script(at.hop)) THEN at' = [at EXCEPT !.pos = @ + 1] /\ UNCHANGED result
    ELSE IF at.hop > 2 THEN at' = [hop |-> at.hop - 1, pos |-> 1] /\ UNCHANGED result
    ELSE result' = "connected" /\ UNCHANGED at

\* After the last step of a hop comes the link before it, after link 1 success.
Advance ==
    IF at.pos < Len(Script(at.hop)) THEN at' = [at EXCEPT !.pos = @ + 1] /\ UNCHANGED result
    ELSE IF at.hop > 1 THEN at' = [hop |-> at.hop - 1, pos |-> 1] /\ UNCHANGED result
    ELSE result' = "connected" /\ UNCHANGED at

SetUpStep ==
    /\ Working /\ Step \in {"connect", "bind", "quic", "open"}
    /\ far' = IF Step \in {"connect", "quic"} THEN at.hop ELSE far
    /\ Advance
    /\ UNCHANGED <<job, addrs, tried, out, inbound, closed, heard>>

WriteStep ==
    /\ Working /\ Step \in Words
    /\ out' = IF closed THEN out
              ELSE Append(out, [hop |-> at.hop, word |-> Step,
                                target |-> dialer_link_endpoint_header(at.hop)])
    /\ Advance
    /\ UNCHANGED <<job, addrs, tried, far, inbound, closed, heard>>

\* Slip: an answer is taken for granted.
ReadAnything ==
    /\ Working /\ Step \in Answers /\ inbound # <<>>
    /\ inbound' = Tail(inbound) /\ Advance
    /\ UNCHANGED <<job, addrs, tried, far, out, closed, heard>>

ReadStep ==
    /\ Working /\ Step \in Answers /\ inbound # <<>> /\ Head(inbound) = Step
    /\ inbound' = Tail(inbound) /\ Advance
    /\ UNCHANGED <<job, addrs, tried, far, out, closed, heard>>

\* The steps that can fail on their own, and the reads that find a wrong word or
\* the end of the stream.
CanFail == Step \in Answers => IF inbound # <<>> THEN Head(inbound) # Step ELSE closed

\* Slip: a failed handshake goes on to the next address of a stream proxy too.
AnyFallsThrough == TRUE

\* A failure moves to the next address when the connection itself failed and,
\* with a QUIC proxy, at any step; the handshake of a stream proxy is final.
FallsThrough == Step = "connect" \/ OverQuic

StepFails ==
    /\ Working /\ CanFail /\ NoStream
    /\ IF FallsThrough THEN at' = [hop |-> Len(Links), pos |-> 0] /\ UNCHANGED result
                       ELSE result' = "failed" /\ UNCHANGED at
    /\ UNCHANGED <<job, addrs, tried, heard>>

\* The dial's future is dropped where it stands.
SetupTimesOut ==
    /\ result = "dialing" /\ socks5_setup_with_timeout
    /\ result' = "timed_out" /\ NoStream
    /\ UNCHANGED <<job, addrs, tried, at, heard>>

-----------------------------------------------------------------------------
(* The far end.                                                            *)

AnswersOf(kind, word) ==
    CASE word = "tls_hello" -> <<"tls">>
      [] word = "hello" -> <<"hello_ok">>
      [] word = "login" /\ kind \in {"socks5_login", "hysteria2"} -> <<"login_ok">>
      [] word = "ask" /\ kind \in {"http", "https", "hysteria2"} -> <<"answer">>
      [] word = "ask" /\ kind \in {"socks5", "socks5_login"} -> <<"answer", "bound">>
      [] OTHER -> <<>>

AnswersTo(w) == AnswersOf(Links[w.hop], w.word)

Hears == heard' = heard \cup {[place |-> far, hop |-> Head(out).hop]}

\* The proxy at the far end does as it is told; after "ask" the stream ends at
\* the place it was asked for.
ProxyObeys ==
    /\ out # <<>> /\ ~closed /\ Hears
    /\ out' = Tail(out)
    /\ far' = IF Head(out).word = "ask" THEN Head(out).target ELSE far
    /\ inbound' = inbound \o AnswersTo(Head(out))
    /\ UNCHANGED <<job, addrs, tried, at, closed, result>>

\* It refuses, with a word that says so or without one.
ProxyRefuses ==
    /\ out # <<>> /\ ~closed /\ Hears
    /\ out' = <<>> /\ closed' = TRUE
    /\ inbound' \in {inbound, Append(inbound, "bad")}
    /\ UNCHANGED <<job, addrs, tried, at, far, result>>

\* A target that speaks first.
TargetSpeaks ==
    /\ far = 0 /\ Links # <<>> /\ ~closed /\ \A i \in DOMAIN inbound : inbound[i] # "data"
    /\ inbound' = Append(inbound, "data")
    /\ UNCHANGED <<job, addrs, tried, at, far, out, closed, heard, result>>

DialNext ==
    \/ ResolutionFails \/ SkipAddress \/ TryAddress \/ AddressesExhausted
    \/ SetUpStep \/ WriteStep \/ ReadStep \/ StepFails \/ SetupTimesOut
    \/ ProxyObeys \/ ProxyRefuses \/ TargetSpeaks

\* The dial takes its own steps and tokio fires the timer.  Nothing makes a
\* proxy answer, but quinn's timeouts end any wait on a QUIC connection.
DialFairness ==
    /\ WF_dial_vars(SkipAddress \/ TryAddress \/ AddressesExhausted)
    /\ WF_dial_vars(SetUpStep \/ WriteStep \/ ReadStep \/ StepFails)
    /\ WF_dial_vars(SetupTimesOut)
    /\ WF_dial_vars(OverQuic /\ (ProxyObeys \/ ProxyRefuses))

-----------------------------------------------------------------------------
\* What a link says is read by that link's proxy alone: credentials and
\* requests that are written ahead, behind hops that have not answered yet,
\* still reach the endpoint they are meant for (connect_tcp_dialer_link runs
\* its hops over one stream without waiting for the optimistic ones).
SecretsToTheirOwner == \A h \in heard : h.place = h.hop

\* Where the stream ends once a word is read and obeyed, and that the words
\* under way, each read where it is meant for, lead to a place.
After(w) == IF w.word = "ask" THEN w.target ELSE w.hop

LeadsTo(end) ==
    /\ out = <<>> => far = end
    /\ out # <<>> => out[1].hop = far /\ After(out[Len(out)]) = end
    /\ \A i \in 2..Len(out) : out[i].hop = After(out[i - 1])

\* A dial that reports success has a stream that ends at the header's target,
\* or the requests still under way lead there hop by hop; a TUIC or Hysteria2
\* UDP association, which names the target in each packet, ends at the proxy.
\* The handshakes take from the stream exactly the proxies' own words: what is
\* left to read is what the target said, and where the last proxy's answer is
\* waited for, that proxy has reached the target.
ConnectedMeansThere ==
    result = "connected" =>
        /\ ~closed => LeadsTo(IF job.purpose = "udp" /\ Links[1] \in {"tuic", "hysteria2"}
                              THEN 1 ELSE 0)
        /\ Range(inbound) \cap Answers = {}
        /\ job.purpose = "tcp" /\ Links # <<>>
              /\ Links[1] \in {"http", "https", "socks5", "socks5_login", "hysteria2"} => far = 0

\* A socket is never pointed at an address of another family than the source
\* address that the egress policy demands, and a stream proxy that has been
\* spoken to is the last one: only an address that could not be connected, or
\* one of a QUIC proxy, is followed by another.
AddressesInOrder ==
    /\ \A i \in DOMAIN tried : job.source \in {"any", tried[i]}
    /\ at.pos = 0 /\ heard # {} => OverQuic
    /\ result = "no_usable" => tried = <<>>

\* Every dial ends, except one that waits for a silent proxy over a stream with
\* no SOCKS5 timer around it (an HTTP proxy's answer, a TLS handshake): the
\* code sets no timeout there.
DialEnds ==
    <>(result # "dialing" \/ (/\ Working /\ Step \in Answers /\ ~OverQuic
                              /\ \A i \in DOMAIN Links : Links[i] \notin {"socks5", "socks5_login"}))
=============================================================================
