------------------------------ MODULE Settings ------------------------------
(***************************************************************************)
(* How a configuration becomes the settings a program runs with: the JSON  *)
(* file, the environment's outbound values, the validation of each field,  *)
(* the dialer link made from a structured outbound, and the parsers of the *)
(* dialer links.  Text that is decoded or split is a sequence of           *)
(* characters; a URL is what the url crate makes of it.  An option that is *)
(* absent is NONE, a call that returns an error is ERR.                    *)
(***************************************************************************)
EXTENDS Naturals, Sequences, SequencesExt, TLC

CONSTANTS
  NONE, ERR,
  EMPTY,     \* an environment variable that is set, to nothing
  MarkMax,   \* u32::MAX, scaled down
  NameMax    \* u8::MAX, the longest user name or password, scaled down

ASSUME SettingsAssumption == {MarkMax, NameMax} \subseteq Nat /\ NONE # ERR /\ EMPTY \notin {NONE, ERR}

-----------------------------------------------------------------------------
(* Percent-encoding of user information.                                   *)

(* The reserved characters and the two hexadecimal digits of their bytes.  *)
Escape == ":" :> <<"3", "A">> @@ ">" :> <<"3", "E">> @@ "%" :> <<"2", "5">>
HexDigit == {"0", "2", "3", "4", "5", "A", "E"}

\* Slip: the percent sign itself is not escaped.
percent_encode_userinfo_raw(text) ==
  FlattenSeq([i \in 1..Len(text) |->
    IF text[i] \in DOMAIN Escape \ {"%"} THEN <<"%">> \o Escape[text[i]] ELSE <<text[i]>>])

percent_encode_userinfo(text) ==
  FlattenSeq([i \in 1..Len(text) |->
    IF text[i] \in DOMAIN Escape THEN <<"%">> \o Escape[text[i]] ELSE <<text[i]>>])

percent_decode_utf8(text) ==
  LET Byte(i) == LET c == {x \in DOMAIN Escape : Escape[x] = SubSeq(text, i + 1, i + 2)}
                 IN IF c = {} THEN "?" ELSE CHOOSE x \in c : TRUE
      Then(first, rest) == IF rest = ERR THEN ERR ELSE <<first>> \o rest
      from[i \in 1..(Len(text) + 3)] ==
        IF i > Len(text) THEN <<>>
        ELSE IF text[i] # "%" THEN Then(text[i], from[i + 1])
        ELSE IF i + 2 > Len(text) \/ {text[i + 1], text[i + 2]} \ HexDigit # {} THEN ERR
        ELSE Then(Byte(i), from[i + 3])
  IN from[1]

(* url: the user name ends at the first colon, an empty password is none.  *)
SplitUserinfo(text) ==
  LET at == SelectInSeq(text, LAMBDA c : c = ":")
  IN IF at = 0 THEN [user |-> text, password |-> NONE]
     ELSE [user |-> SubSeq(text, 1, at - 1),
           password |-> IF at = Len(text) THEN NONE ELSE SubSeq(text, at + 1, Len(text))]

-----------------------------------------------------------------------------
(* Parsers of dialer links.  A link is a sequence of hops; a hop is a URL: *)
(* scheme, user information, host, port and the query as a function.       *)

dialer_link_query_value(url, key) == IF key \in DOMAIN url.query THEN url.query[key] ELSE NONE

NonEmpty(value) == IF value = "" THEN NONE ELSE value
OrElse(value, default) == IF value = NONE THEN default ELSE value

dialer_link_query_bool(value) == value \in {"true", "1"}

dialer_link_query_bool_strict(url, key) ==
  LET value == dialer_link_query_value(url, key)
  IN CASE value = NONE -> NONE [] value \in {"true", "1"} -> TRUE [] value \in {"false", "0"} -> FALSE
       [] OTHER -> ERR

dialer_link_query_u64(url, key) ==
  LET value == dialer_link_query_value(url, key)
  IN CASE value \in {NONE, ""} -> NONE [] value = "bad" -> ERR [] OTHER -> value

InsecureKeys == {"allowInsecure", "allow_insecure", "allowinsecure", "skipVerify"}

http_connect_allow_insecure(url) ==
  \E key \in InsecureKeys \cap DOMAIN url.query : dialer_link_query_bool(url.query[key])

(* A parsed hop: where it goes, its credentials, and its TLS verification. *)
Hop(kind, host, port, user, password, sni, insecure) ==
  [kind |-> kind, host |-> host, port |-> port, user |-> user, password |-> password,
   sni |-> sni, insecure |-> insecure]

(* parsed.host() of an IPv6 address has no brackets, host_str() has them.  *)
Unbracketed(host) == IF host = "[v6]" THEN "v6" ELSE host

Socks5DialerLink(url) ==
  LET info == SplitUserinfo(url.userinfo)
      user == IF info.user = <<>> THEN NONE ELSE percent_decode_utf8(info.user)
      password == IF info.password = NONE THEN NONE ELSE percent_decode_utf8(info.password)
  IN IF \/ url.host = "" \/ url.port = NONE \/ ERR \in {user, password}
        \/ (user = NONE) # (password = NONE)
     THEN ERR
     ELSE Hop("socks5", Unbracketed(url.host), url.port, user, password, NONE, FALSE)

HttpConnectDialerLink(url) ==
  LET info == SplitUserinfo(url.userinfo)
      tls == url.scheme = "https"
  IN IF url.host = "" THEN ERR
     ELSE Hop("http", url.host, OrElse(url.port, IF tls THEN 443 ELSE 80),
              IF info.user = <<>> THEN NONE ELSE info.user, info.password,
              NonEmpty(dialer_link_query_value(url, "sni")),
              http_connect_allow_insecure(url))

(* Host, port and decoded credentials of the links that need them all.     *)
Decoded(url, kind, sni, insecure) ==
  LET info == SplitUserinfo(url.userinfo)
      user == percent_decode_utf8(info.user)
      password == IF info.password = NONE THEN <<>> ELSE percent_decode_utf8(info.password)
  IN IF url.host = "" \/ url.port = NONE \/ ERR \in {user, password} THEN ERR
     ELSE Hop(kind, url.host, url.port, user, password, sni, insecure)

(* The server name: of the two keys the one written first; here, peer.     *)
PeerOrSni(url) ==
  OrElse(NonEmpty(OrElse(dialer_link_query_value(url, "peer"),
                         dialer_link_query_value(url, "sni"))), url.host)

(* The UUID and the pin of a Juicity link decode, or the link is refused.  *)
JuicityDialerLink(url) ==
  IF dialer_link_query_value(url, "pinned_certchain_sha256") = "bad" \/ url.id # "uuid" THEN ERR
  ELSE Decoded(url, "juicity", PeerOrSni(url), http_connect_allow_insecure(url))

TuicDialerLink(url) ==
  LET disable_sni == dialer_link_query_bool(dialer_link_query_value(url, "disable_sni"))
  IN Decoded(url, "tuic", IF disable_sni THEN NONE ELSE PeerOrSni(url),
             http_connect_allow_insecure(url) \/ disable_sni)

Absent(url, key) == dialer_link_query_value(url, key) \in {NONE, ""}
AbsentOr(url, key, value) == dialer_link_query_value(url, key) \in {NONE, "", value}

(* A Trojan or VLESS link has its secret in the place of the user name.    *)
NameOnly(url) == [url EXCEPT !.userinfo = SplitUserinfo(@).user]

TrojanDialerLink(url) ==
  IF Absent(url, "type") /\ Absent(url, "encryption")
  THEN Decoded(NameOnly(url), "trojan", PeerOrSni(url), http_connect_allow_insecure(url))
  ELSE ERR

(* A VLESS or VMess user: 32 to 36 characters are a UUID, others a name.   *)
vless_user_to_key(url) == url.id \in {"uuid", "name"}

VlessDialerLink(url) ==
  IF /\ AbsentOr(url, "type", "tcp") /\ AbsentOr(url, "headerType", "none")
     /\ AbsentOr(url, "security", "none") /\ Absent(url, "flow") /\ vless_user_to_key(url)
  THEN Decoded(NameOnly(url), "vless", NONE, FALSE)
  ELSE ERR

Hysteria2DialerLink(url) ==
  LET insecure == dialer_link_query_bool_strict(url, "insecure")
  IN IF ERR \in {insecure, dialer_link_query_u64(url, "maxTx"), dialer_link_query_u64(url, "maxRx")}
     THEN ERR
     ELSE Decoded(url, "hysteria2", NonEmpty(dialer_link_query_value(url, "sni")), insecure = TRUE)

(* The base64 payload of a VMess link is JSON, or the older raw form with  *)
(* its options in the query; the url here carries the fields of either.    *)
parsed_vmess_json(url) ==
  /\ AbsentOr(url, "aid", "0") /\ AbsentOr(url, "net", "tcp")
  /\ AbsentOr(url, "type", "none") /\ AbsentOr(url, "tls", "none")
  /\ url.port # NONE /\ url.host # ""

parse_vmess_raw_link(url) ==
  /\ url.port # NONE
  /\ AbsentOr(url, "obfs", "tcp")
  /\ dialer_link_query_value(url, "tls") \notin {"1", "tls"}
  /\ AbsentOr(url, "alterId", "0") /\ AbsentOr(url, "aid", "0")

VmessDialerLink(url) ==
  IF /\ \/ url.payload = "json" /\ parsed_vmess_json(url)
        \/ url.payload = "raw" /\ parse_vmess_raw_link(url)
     /\ vless_user_to_key(url)
  THEN Hop("vmess", url.host, url.port, url.id, NONE, NONE, FALSE)
  ELSE ERR

ShadowsocksDialerLink(url) ==
  IF url.port = NONE \/ url.host = "" \/ dialer_link_query_value(url, "plugin") # NONE THEN ERR
  ELSE Hop("ss", Unbracketed(url.host), url.port, url.userinfo, NONE, NONE, FALSE)

(* host:port:protocol:cipher:obfuscation:password, counted from the right  *)
(* because an IPv6 host has colons of its own.                             *)
parse_shadowsocksr_fields(fields) ==
  LET end == Len(fields) - 5
  IN IF end < 1 THEN ERR
     ELSE [host |-> SubSeq(fields, 1, end), port |-> fields[end + 1],
           proto |-> fields[end + 2], cipher |-> fields[end + 3],
           obfs |-> fields[end + 4], password |-> fields[end + 5]]

PortText == "443" :> 443

HostOf(pieces) == IF Len(pieces) = 1 THEN pieces[1] ELSE "v6"

ShadowsocksRDialerLink(url) ==
  LET parsed == parse_shadowsocksr_fields(url.fields)
  IN IF parsed = ERR THEN ERR
     ELSE IF parsed.port \notin DOMAIN PortText \/ parsed.proto # "origin" \/ parsed.obfs # "plain"
             \/ HostOf(parsed.host) = "" THEN ERR
     ELSE Hop("ssr", HostOf(parsed.host), PortText[parsed.port], parsed.cipher, parsed.password, NONE, FALSE)

(* The text of a hop is cut by an arrow in its user information: what is   *)
(* left of it has no port, or no scheme.                                   *)
Arrow(text) == \E i \in 1..(Len(text) - 1) : text[i] = "-" /\ text[i + 1] = ">"

parse_single(url) ==
  CASE Arrow(url.userinfo) -> ERR
    [] url.scheme \in {"http", "https"} -> HttpConnectDialerLink(url)
    [] url.scheme \in {"socks", "socks5"} -> Socks5DialerLink(url)
    [] url.scheme \in {"ss", "shadowsocks"} -> ShadowsocksDialerLink(url)
    [] url.scheme = "ssr" -> ShadowsocksRDialerLink(url)
    [] url.scheme \in {"trojan", "trojan-go"} -> TrojanDialerLink(url)
    [] url.scheme = "juicity" -> JuicityDialerLink(url)
    [] url.scheme = "tuic" -> TuicDialerLink(url)
    [] url.scheme \in {"hysteria2", "hy2"} -> Hysteria2DialerLink(url)
    [] url.scheme = "vmess" -> VmessDialerLink(url)
    [] url.scheme = "vless" -> VlessDialerLink(url)
    [] OTHER -> ERR

(* ProxyDialerLink::parse: one hop that is refused refuses the chain.      *)
parse_proxy_dialer_link(hops) ==
  LET parsed == [i \in 1..Len(hops) |-> parse_single(hops[i])]
  IN IF ERR \in ToSet(parsed) THEN ERR ELSE parsed

-----------------------------------------------------------------------------
(* The configuration.                                                      *)

EmptyOutbound ==
  [type |-> "", version |-> "", server |-> "", port |-> NONE, username |-> <<>>, password |-> <<>>]

non_empty_env_value(value) == value \notin {NONE, EMPTY}

\* Slip: the environment's value replaces that of the file.
Fill_overrides(json, env, empty) == IF non_empty_env_value(env) THEN env ELSE json

(* A field of the file wins over the environment's.                        *)
Fill(json, env, empty) == IF json = empty /\ non_empty_env_value(env) THEN env ELSE json

apply_server_outbound_env_values(outbound, env) ==
  LET json == IF outbound = NONE THEN EmptyOutbound ELSE outbound
  IN IF ~\E f \in DOMAIN env : non_empty_env_value(env[f]) THEN outbound
     ELSE IF json.port = NONE /\ non_empty_env_value(env.port) /\ env.port \notin 1..65535
     THEN ERR
     ELSE [json EXCEPT !.type = Fill(@, env.type, ""), !.server = Fill(@, env.server, ""),
                       !.port = Fill(@, env.port, NONE),
                       !.username = Fill(@, env.username, <<>>),
                       !.password = Fill(@, env.password, <<>>)]

(* An IPv6 host is bracketed; a host the url crate refuses is an error.    *)
Authority(host) == IF host = "v6" THEN "[v6]" ELSE host

socks5_dialer_link_from_outbound(o) ==
  IF \/ o.type \notin {"", "socks5", "5"} \/ o.version \notin {"", "5"}
     \/ o.server \in {"", "bad"} \/ o.port \in {NONE, 0}
     \/ Len(o.username) > NameMax \/ Len(o.password) > NameMax
     \/ (o.username = <<>>) # (o.password = <<>>)
  THEN ERR
  ELSE <<[scheme |-> "socks5", host |-> Authority(o.server), port |-> o.port, query |-> <<>>,
          userinfo |-> IF o.username = <<>> THEN <<>>
                       ELSE percent_encode_userinfo(o.username) \o <<":">>
                              \o percent_encode_userinfo(o.password)]>>

\* Slip: the structured outbound silently wins over the dialer link.
resolve_server_dialer_link_outbound(raw) ==
  LET from_outbound == IF raw.outbound = NONE THEN NONE
                       ELSE socks5_dialer_link_from_outbound(raw.outbound)
  IN IF from_outbound # NONE THEN from_outbound
     ELSE IF raw.dialer_link = <<>> THEN NONE ELSE raw.dialer_link

resolve_server_dialer_link(raw) ==
  LET from_outbound == IF raw.outbound = NONE THEN NONE
                       ELSE socks5_dialer_link_from_outbound(raw.outbound)
  IN IF from_outbound = ERR THEN ERR
     ELSE IF raw.dialer_link = <<>> THEN from_outbound
     ELSE IF from_outbound \in {NONE, raw.dialer_link} THEN raw.dialer_link
     ELSE ERR

(* parse_u32_base0: the radix comes from the prefix.                       *)
go_parse_uint_base0_digits(text) ==
  LET radix == IF Len(text) < 2 \/ text[1] # "0" THEN 10
               ELSE CASE text[2] = "x" -> 16 [] text[2] = "b" -> 2 [] text[2] = "o" -> 8
                      [] OTHER -> 8
      skip == IF radix = 10 THEN 0 ELSE IF text[2] \in {"x", "b", "o"} THEN 2 ELSE 1
  IN [radix |-> radix, digits |-> SubSeq(text, skip + 1, Len(text))]

DigitValue == "0" :> 0 @@ "1" :> 1 @@ "7" :> 7 @@ "9" :> 9 @@ "b" :> 11 @@ "f" :> 15
                @@ "o" :> 24 @@ "x" :> 33

\* Slip: an underscore may end the number.
UnderscoresOk_trailing(scan) == scan.seen

UnderscoresOk(scan) == scan.seen /\ scan.after_digit

(* The digits are scanned to the end even when the value is out of range.  *)
parse_u32_base0(text) ==
  LET parts == go_parse_uint_base0_digits(text)
      Step(scan, c) ==
        IF c = "_" THEN [scan EXCEPT !.ok = @ /\ scan.after_digit, !.after_digit = FALSE]
        ELSE IF c \notin DOMAIN DigitValue THEN [scan EXCEPT !.ok = FALSE]
        ELSE LET next == scan.value * parts.radix + DigitValue[c]
             IN [ok |-> scan.ok /\ DigitValue[c] < parts.radix,
                 value |-> IF next > MarkMax THEN scan.value ELSE next,
                 over |-> scan.over \/ next > MarkMax, seen |-> TRUE, after_digit |-> TRUE]
      scan == FoldLeft(Step, [ok |-> TRUE, value |-> 0, over |-> FALSE, seen |-> FALSE,
                              after_digit |-> FALSE], parts.digits)
  IN IF ~scan.ok \/ ~UnderscoresOk(scan) \/ scan.over THEN ERR ELSE scan.value

optional_known_congestion_control(name) == IF name \in {"bbr", "cubic", "new_reno"} THEN name ELSE NONE

(* The decoders are tried in turn: base64 in four forms, then hexadecimal. *)
optional_pin_hash(text) == CASE text = "" -> NONE [] text = "bad" -> ERR [] OTHER -> text

validate_server(raw) ==
  LET fwmark == IF raw.fwmark = <<>> THEN NONE ELSE parse_u32_base0(raw.fwmark)
      send_through == IF raw.send_through = "" THEN NONE
                      ELSE IF raw.send_through = "bad" THEN ERR ELSE raw.send_through
      dialer_link == resolve_server_dialer_link(raw)
  IN IF "bad" \in raw.users \/ ERR \in {fwmark, send_through, dialer_link} THEN ERR
     ELSE [users |-> raw.users, fwmark |-> fwmark, send_through |-> send_through,
           dialer_link |-> dialer_link,
           congestion_control |-> optional_known_congestion_control(raw.congestion_control)]

(* ServerEgressPolicy::transport_policy: the dialer link is parsed.        *)
transport_policy(config) ==
  LET link == IF config.dialer_link = NONE THEN NONE
              ELSE parse_proxy_dialer_link(config.dialer_link)
  IN IF link = ERR THEN ERR
     ELSE [send_through |-> config.send_through, fwmark |-> config.fwmark, dialer_link |-> link]

\* Slip: a suffix that is not known stands for both protocols.
parse_forward_rule_any(parts) ==
  LET suffixes == ToSet(Tail(parts))
  IN [local |-> Head(parts), tcp |-> suffixes # {"udp"}, udp |-> suffixes # {"tcp"}]

(* address, or address/tcp, address/udp; other suffixes are ignored.       *)
parse_forward_rule(parts) ==
  LET suffixes == ToSet(Tail(parts))
  IN [local |-> Head(parts), tcp |-> suffixes = {} \/ "tcp" \in suffixes,
      udp |-> suffixes = {} \/ "udp" \in suffixes]

(* The texts that are a socket address, and those that are a port.         *)
SocketAddrs == {<<"1", ":", "p">>, <<"[", "h", ":", "]", ":", "p">>}
Ports == {<<"p">>}

\* Slip: a host may have colons of its own.
split_domain_port_any(text) ==
  LET at == SelectLastInSeq(text, LAMBDA c : c = ":")
  IN IF at <= 1 \/ SubSeq(text, at + 1, Len(text)) \notin Ports THEN ERR
     ELSE <<SubSeq(text, 1, at - 1), SubSeq(text, at + 1, Len(text))>>

split_domain_port(text) ==
  LET at == SelectLastInSeq(text, LAMBDA c : c = ":")
      domain == SubSeq(text, 1, at - 1)
      port == SubSeq(text, at + 1, Len(text))
  IN IF at <= 1 \/ port \notin Ports \/ Contains(domain, ":") THEN ERR
     ELSE IF domain[1] = "[" THEN ERR ELSE <<domain, port>>

(* The target of a forwarding rule: an address, or a name and a port.      *)
TcpForwardTarget(text) == IF text \in SocketAddrs THEN text ELSE split_domain_port(text)
UdpForwardTarget(text) == IF text \in SocketAddrs THEN text ELSE split_domain_port(text)

(* The configured server name, or the host of the server's address.        *)
tls_server_name(raw) == IF raw.sni # "" THEN raw.sni ELSE raw.server_host

CongestionController(name) == IF name \in {"cubic", "new_reno"} THEN name ELSE "bbr"

\* Slip: certificates are verified only when roots are configured.
client_verifier_roots(insecure, roots) == IF roots = {} THEN "none" ELSE "roots"

(* What a client checks the certificate against: the web's roots unless    *)
(* others are given.                                                       *)
client_verifier(insecure, roots) ==
  IF insecure THEN "none" ELSE IF roots = {} THEN "webpki" ELSE "roots"

validate_client(raw) ==
  LET pin == optional_pin_hash(raw.pin)
  IN IF raw.uuid = "bad" \/ pin = ERR THEN ERR
     ELSE [rules |-> [i \in 1..Len(raw.forward) |-> parse_forward_rule(raw.forward[i])],
           targets |-> raw.targets, server_name |-> tls_server_name(raw), pin |-> pin,
           verifier |-> client_verifier(raw.allow_insecure, {}),
           congestion |-> CongestionController(optional_known_congestion_control(raw.congestion_control))]

=============================================================================
