------------------------- MODULE DialerEgressProofs -------------------------
(***************************************************************************)
(* Proofs about the dial of a stream or an association, for chains of any  *)
(* length of the twelve kinds of link, any number of addresses and any     *)
(* behaviour of the proxies: the dial keeps an invariant that says who     *)
(* reads a word, whose answer is on the way, and how far the stream has    *)
(* got.  ProxyStreamProofs takes from it that every word is read by the    *)
(* proxy it is meant for, that success means a stream to the target, and   *)
(* that addresses are tried in order.                                      *)
(***************************************************************************)
EXTENDS DialerEgress, SequenceTheorems, TLAPS

-----------------------------------------------------------------------------
(* The steps of the scripts, and what a well-made script is: it says its    *)
(* words once there is a stream and before it has asked for the next place, *)
(* asks at most once, connects at most once, and reads after a word just    *)
(* the answers that its proxy gives to that word.                           *)
SetUps == {"connect", "bind", "quic", "open"}
Steps == SetUps \cup {"refuse"} \cup Words \cup Answers

Met(s, p) == \E i \in 1..(p - 1) : s[i] \in {"connect", "quic"}
HasAsked(s, p) == \E i \in 1..(p - 1) : s[i] = "ask"

(* From position p on, n answers are to be read before anything else; and a *)
(* sequence begins with these.                                              *)
Due(s, p, n) ==
  /\ p + n <= Len(s) + 1
  /\ \A i \in p..(p + n - 1) : s[i] \in Answers
  /\ p + n <= Len(s) => s[p + n] \notin Answers

Holds(q, s, p, n) == \A i \in 1..n : q[i] = s[p + i - 1]

(* dials: the hop makes the connection; asks: it asks for the next place;   *)
(* waits: it reads an answer last.                                          *)
WellMade(s, link, dials, asks, waits) ==
  /\ s \in Seq(Steps) /\ Len(s) >= 1 /\ s[1] \notin Answers
  /\ \A p \in 1..Len(s) :
       /\ s[p] \in Words =>
            /\ (dials => Met(s, p)) /\ ~HasAsked(s, p)
            /\ \E n \in 0..2 : /\ Len(AnswersOf(link, s[p])) = n
                               /\ Due(s, p + 1, n) /\ Holds(AnswersOf(link, s[p]), s, p + 1, n)
       /\ s[p] \in {"connect", "quic"} => dials /\ ~Met(s, p) /\ ~HasAsked(s, p)
       /\ s[p] \in SetUps => Due(s, p + 1, 0)
  /\ s[Len(s)] # "refuse" =>
       /\ dials => Met(s, Len(s) + 1)
       /\ asks <=> HasAsked(s, Len(s) + 1)
       /\ waits => s[Len(s)] \in Answers

Waiters == {"http", "https", "socks5", "socks5_login", "hysteria2"}
Asks == Links # <<>> /\ ~(job.purpose = "udp" /\ Links[1] \in {"tuic", "hysteria2"})
HopWaits(hop) == job.purpose = "tcp" /\ Links # <<>> /\ Links[hop] \in Waiters

(* The position a dial has reached in its script, past the end when it has  *)
(* succeeded, and where the stream must end by then.                        *)
Dialed == result \in {"dialing", "connected"}
Reached == IF result = "connected" THEN at.pos + 1 ELSE at.pos
EndAt(s, p, hop) == IF HasAsked(s, p) THEN hop - 1 ELSE hop

(* The stream of a dial that has reached position p of the script s.        *)
StreamAt(s, p, hop, dials) ==
  /\ ~closed =>
       /\ dials /\ ~Met(s, p) => out = <<>> /\ far = -1
       /\ ~dials \/ Met(s, p) => LeadsTo(EndAt(s, p, hop))
       /\ out = <<>> => \E n \in 0..Len(inbound) :
            /\ Due(s, p, n) /\ Holds(inbound, s, p, n)
            /\ \/ Len(inbound) = n
               \/ Len(inbound) = n + 1 /\ inbound[n + 1] = "data" /\ far = 0
       /\ out # <<>> =>
            /\ inbound = <<>>
            /\ \E n \in 0..2 : /\ Len(AnswersTo(out[Len(out)])) = n
                               /\ Due(s, p, n) /\ Holds(AnswersTo(out[Len(out)]), s, p, n)
            /\ \A i \in 1..(Len(out) - 1) : AnswersTo(out[i]) = <<>>
  /\ closed => out = <<>> /\ inbound \in {<<>>, <<"bad">>}

LinkType ==
  /\ Links \in Seq(LinkKinds)
  /\ job.purpose \in {"tcp", "udp"}
  /\ job.purpose = "udp" => Single /\ Links[1] \in {"trojan", "vless", "vmess", "socks5",
                                          "socks5_login", "juicity", "tuic", "hysteria2"}
Written == [hop : 1..Len(Links), word : Words, target : Int]
DialType ==
  /\ LinkType
  /\ at \in [hop : 0..Len(Links), pos : Nat]
  /\ at.hop = 0 => Links = <<>>
  /\ at.pos = 0 => at.hop = Len(Links) /\ result # "connected"
  /\ result = "dialing" => at.pos <= Len(Script(at.hop))
  /\ result = "connected" =>
       at.pos = Len(Script(at.hop)) /\ at.hop <= 1 /\ Script(at.hop)[at.pos] # "refuse"
  /\ out \in Seq(Written)
  /\ far \in Int /\ closed \in BOOLEAN
  /\ inbound \in Seq(Answers \cup {"bad", "data"})
NoStreamInv ==
  at.pos = 0 \/ ~Dialed => far = -1 /\ out = <<>> /\ inbound = <<>> /\ closed = FALSE
StreamInv ==
  at.pos > 0 /\ Dialed => StreamAt(Script(at.hop), Reached, at.hop, at.hop = Len(Links))
HeardInv ==
  heard # {} /\ ~OverQuic =>
     /\ at.pos > 0
     /\ result = "dialing" => at.hop < Len(Links) \/ Met(Script(at.hop), at.pos)
WaitInv == result = "connected" /\ HopWaits(1) => out = <<>> /\ far = 0
AddrInv ==
  /\ addrs \in Seq(Families) /\ tried \in Seq(Families)
  /\ \A i \in DOMAIN tried : job.source \in {"any", tried[i]}
  /\ result = "no_usable" => tried = <<>>
DialInv ==
  /\ DialType /\ NoStreamInv /\ StreamInv /\ SecretsToTheirOwner
  /\ HeardInv /\ WaitInv /\ AddrInv

(* What the proxies answer, word by word.                                   *)
LEMMA AnswerTable ==
  /\ \A k : AnswersOf(k, "tls_hello") = <<"tls">>
  /\ \A k : AnswersOf(k, "hello") = <<"hello_ok">>
  /\ \A k : AnswersOf(k, "login")
        = IF k \in {"socks5_login", "hysteria2"} THEN <<"login_ok">> ELSE <<>>
  /\ \A k : AnswersOf(k, "ask")
        = IF k \in {"http", "https", "hysteria2"} THEN <<"answer">>
          ELSE IF k \in {"socks5", "socks5_login"} THEN <<"answer", "bound">> ELSE <<>>
BY DEF AnswersOf

(* Two pieces of a script, end to end.                                      *)
Glued(s, t, u) ==
  /\ s \in Seq(Steps) /\ t \in Seq(Steps) /\ u \in Seq(Steps)
  /\ Len(u) = Len(s) + Len(t)
  /\ \A i \in 1..Len(s) : u[i] = s[i]
  /\ \A i \in 1..Len(t) : u[Len(s) + i] = t[i]

LEMMA GluedIs == \A s, t, u : Glued(s, t, u) => s \o t = u
<1> TAKE s, t, u
<1> HAVE Glued(s, t, u)
<1>1. /\ s \in Seq(Steps) /\ t \in Seq(Steps) /\ u \in Seq(Steps)
      /\ Len(u) = Len(s) + Len(t)
      /\ \A i \in 1..Len(s) : u[i] = s[i]
      /\ \A i \in 1..Len(t) : u[Len(s) + i] = t[i]
  BY DEF Glued
<1>2. s \o t \in Seq(Steps) /\ Len(s \o t) = Len(u) BY <1>1, ConcatProperties
<1>3. \A i \in 1..Len(u) : (s \o t)[i] = u[i]
  <2> TAKE i \in 1..Len(u)
  <2>0. Len(s) \in Nat /\ Len(t) \in Nat BY <1>1, LenProperties
  <2>1. CASE i <= Len(s) BY <1>1, <2>0, <2>1, ConcatProperties
  <2>2. CASE i > Len(s)
    <3>1. i - Len(s) \in 1..Len(t) /\ i = Len(s) + (i - Len(s)) BY <1>1, <2>0, <2>2
    <3>2. u[i] = t[i - Len(s)] BY <1>1, <3>1
    <3> QED BY <1>1, <2>0, <2>2, <3>2, ConcatProperties
  <2> QED BY <1>1, <2>0, <2>1, <2>2
<1> QED BY <1>1, <1>2, <1>3, SeqEqual

(* The script of each kind of link, over a stream that is there and over    *)
(* one that it connects itself.                                             *)
LEMMA HopIsWellMade ==
  ASSUME NEW k \in LinkKinds
  PROVE  /\ WellMade(connect_tcp_dialer_link(k), k, FALSE, TRUE, k \in Waiters)
         /\ WellMade(<<"connect">> \o connect_tcp_dialer_link(k), k, TRUE, TRUE, k \in Waiters)
<1>1. CASE k = "http"
  <2>1. PICK s, u : s = <<"ask", "answer">> /\ u = <<"connect", "ask", "answer">> OBVIOUS
  <2>2. Glued(<<"connect">>, s, u) BY <2>1 DEF Glued, Steps, SetUps, Words, Answers
  <2>3. Glued(<<>>, <<"ask", "answer">>, s)
    BY <2>1 DEF Glued, Steps, SetUps, Words, Answers
  <2>4. connect_tcp_dialer_link(k) = s
    BY ONLY <1>1, <2>1, <2>3, GluedIs
    DEF connect_tcp_dialer_link, http_connect, connect_http_connect_tls_if_needed
  <2>5. WellMade(s, k, FALSE, TRUE, TRUE)
    BY <1>1, <2>1, AnswerTable DEF WellMade, Met, HasAsked, Due, Holds, Steps, SetUps, Words, Answers
  <2>6. WellMade(u, k, TRUE, TRUE, TRUE)
    BY <1>1, <2>1, AnswerTable DEF WellMade, Met, HasAsked, Due, Holds, Steps, SetUps, Words, Answers
  <2>7. (k \in Waiters) = TRUE BY <1>1 DEF Waiters
  <2> QED BY <2>7, <2>2, <2>4, <2>5, <2>6, GluedIs
<1>2. CASE k = "https"
  <2>1. PICK s, u : /\ s = <<"tls_hello", "tls", "ask", "answer">>
                    /\ u = <<"connect", "tls_hello", "tls", "ask", "answer">> OBVIOUS
  <2>2. Glued(<<"connect">>, s, u) BY <2>1 DEF Glued, Steps, SetUps, Words, Answers
  <2>3. Glued(<<"tls_hello", "tls">>, <<"ask", "answer">>, s)
    BY <2>1 DEF Glued, Steps, SetUps, Words, Answers
  <2>4. connect_tcp_dialer_link(k) = s
    BY ONLY <1>2, <2>1, <2>3, GluedIs
    DEF connect_tcp_dialer_link, http_connect, connect_http_connect_tls_if_needed
  <2>5. WellMade(s, k, FALSE, TRUE, TRUE)
    BY <1>2, <2>1, AnswerTable DEF WellMade, Met, HasAsked, Due, Holds, Steps, SetUps, Words, Answers
  <2>6. WellMade(u, k, TRUE, TRUE, TRUE)
    BY <1>2, <2>1, AnswerTable DEF WellMade, Met, HasAsked, Due, Holds, Steps, SetUps, Words, Answers
  <2>7. (k \in Waiters) = TRUE BY <1>2 DEF Waiters
  <2> QED BY <2>7, <2>2, <2>4, <2>5, <2>6, GluedIs
<1>3. CASE k = "socks5"
  <2>1. PICK s, u : /\ s = <<"hello", "hello_ok", "ask", "answer", "bound">>
                    /\ u = <<"connect", "hello", "hello_ok", "ask", "answer", "bound">> OBVIOUS
  <2>2. Glued(<<"connect">>, s, u) BY <2>1 DEF Glued, Steps, SetUps, Words, Answers
  <2>3. Glued(<<"hello", "hello_ok">>, <<"ask", "answer", "bound">>, s)
    BY <2>1 DEF Glued, Steps, SetUps, Words, Answers
  <2>4. connect_tcp_dialer_link(k) = s
    BY ONLY <1>3, <2>1, <2>3, GluedIs
    DEF connect_tcp_dialer_link, socks5_connect, socks5_negotiate_auth
  <2>5. WellMade(s, k, FALSE, TRUE, TRUE)
    BY <1>3, <2>1, AnswerTable DEF WellMade, Met, HasAsked, Due, Holds, Steps, SetUps, Words, Answers
  <2>6. WellMade(u, k, TRUE, TRUE, TRUE)
    BY <1>3, <2>1, AnswerTable DEF WellMade, Met, HasAsked, Due, Holds, Steps, SetUps, Words, Answers
  <2>7. (k \in Waiters) = TRUE BY <1>3 DEF Waiters
  <2> QED BY <2>7, <2>2, <2>4, <2>5, <2>6, GluedIs
<1>4. CASE k = "socks5_login"
  <2>1. PICK s, u : /\ s = <<"hello", "hello_ok", "login", "login_ok", "ask", "answer", "bound">>
                    /\ u = <<"connect", "hello", "hello_ok", "login", "login_ok", "ask", "answer", "bound">>
    OBVIOUS
  <2>2. Glued(<<"connect">>, s, u) BY <2>1 DEF Glued, Steps, SetUps, Words, Answers
  <2>3. Glued(<<"hello", "hello_ok", "login", "login_ok">>, <<"ask", "answer", "bound">>, s)
    BY <2>1 DEF Glued, Steps, SetUps, Words, Answers
  <2>4. connect_tcp_dialer_link(k) = s
    BY ONLY <1>4, <2>1, <2>3, GluedIs
    DEF connect_tcp_dialer_link, socks5_connect, socks5_negotiate_auth
  <2>5. WellMade(s, k, FALSE, TRUE, TRUE)
    BY <1>4, <2>1, AnswerTable DEF WellMade, Met, HasAsked, Due, Holds, Steps, SetUps, Words, Answers
  <2>6. WellMade(u, k, TRUE, TRUE, TRUE)
    BY <1>4, <2>1, AnswerTable DEF WellMade, Met, HasAsked, Due, Holds, Steps, SetUps, Words, Answers
  <2>7. (k \in Waiters) = TRUE BY <1>4 DEF Waiters
  <2> QED BY <2>7, <2>2, <2>4, <2>5, <2>6, GluedIs
<1>5. CASE k \in {"shadowsocks", "shadowsocksr", "vmess", "vless"}
  <2>1. PICK s, u : s = <<"ask">> /\ u = <<"connect", "ask">> OBVIOUS
  <2>2. Glued(<<"connect">>, s, u) BY <2>1 DEF Glued, Steps, SetUps, Words, Answers
  <2>4. connect_tcp_dialer_link(k) = s
    BY ONLY <1>5, <2>1
    DEF connect_tcp_dialer_link, connect_shadowsocks_stream,
       connect_vmess_stream, connect_vless_stream
  <2>5. WellMade(s, k, FALSE, TRUE, FALSE)
    BY <1>5, <2>1, AnswerTable DEF WellMade, Met, HasAsked, Due, Holds, Steps, SetUps, Words, Answers
  <2>6. WellMade(u, k, TRUE, TRUE, FALSE)
    BY <1>5, <2>1, AnswerTable DEF WellMade, Met, HasAsked, Due, Holds, Steps, SetUps, Words, Answers
  <2>7. (k \in Waiters) = FALSE BY <1>5 DEF Waiters
  <2> QED BY <2>7, <2>2, <2>4, <2>5, <2>6, GluedIs
<1>6. CASE k = "trojan"
  <2>1. PICK s, u : s = <<"tls_hello", "tls", "ask">> /\ u = <<"connect", "tls_hello", "tls", "ask">>
    OBVIOUS
  <2>2. Glued(<<"connect">>, s, u) BY <2>1 DEF Glued, Steps, SetUps, Words, Answers
  <2>4. connect_tcp_dialer_link(k) = s
    BY ONLY <1>6, <2>1
    DEF connect_tcp_dialer_link, connect_trojan_stream
  <2>5. WellMade(s, k, FALSE, TRUE, FALSE)
    BY <1>6, <2>1, AnswerTable DEF WellMade, Met, HasAsked, Due, Holds, Steps, SetUps, Words, Answers
  <2>6. WellMade(u, k, TRUE, TRUE, FALSE)
    BY <1>6, <2>1, AnswerTable DEF WellMade, Met, HasAsked, Due, Holds, Steps, SetUps, Words, Answers
  <2>7. (k \in Waiters) = FALSE BY <1>6 DEF Waiters
  <2> QED BY <2>7, <2>2, <2>4, <2>5, <2>6, GluedIs
<1>7. CASE k \in {"juicity", "tuic", "hysteria2"}
  <2>1. PICK s, u : s = <<"refuse">> /\ u = <<"connect", "refuse">> OBVIOUS
  <2>2. Glued(<<"connect">>, s, u) BY <2>1 DEF Glued, Steps, SetUps, Words, Answers
  <2>4. connect_tcp_dialer_link(k) = s
    BY ONLY <1>7, <2>1
    DEF connect_tcp_dialer_link
  <2>5. WellMade(s, k, FALSE, TRUE, k \in Waiters)
    BY <1>7, <2>1, AnswerTable DEF WellMade, Met, HasAsked, Due, Holds, Steps, SetUps, Words, Answers
  <2>6. WellMade(u, k, TRUE, TRUE, k \in Waiters)
    BY <1>7, <2>1, AnswerTable DEF WellMade, Met, HasAsked, Due, Holds, Steps, SetUps, Words, Answers
  <2> QED BY <2>2, <2>4, <2>5, <2>6, GluedIs
<1> QED BY <1>1, <1>2, <1>3, <1>4, <1>5, <1>6, <1>7 DEF LinkKinds

(* The scripts of the QUIC proxies, and of the associations that carry UDP. *)
LEMMA QuicIsWellMade ==
  /\ WellMade(connect_tcp_proxy_target_via_juicity, "juicity", TRUE, TRUE, FALSE)
  /\ WellMade(connect_tcp_proxy_target_via_tuic, "tuic", TRUE, TRUE, FALSE)
  /\ WellMade(connect_tcp_proxy_target_via_hysteria2, "hysteria2", TRUE, TRUE, TRUE)
  /\ WellMade(connect_juicity_udp_association, "juicity", TRUE, TRUE, FALSE)
  /\ WellMade(connect_tuic_udp_association, "tuic", TRUE, FALSE, FALSE)
  /\ WellMade(connect_hysteria2_udp_association, "hysteria2", TRUE, FALSE, FALSE)
<1>1. PICK a, b, c, d, e :
        /\ a = <<"bind", "quic", "login">> /\ b = <<"bind", "quic", "login", "open", "ask">>
        /\ c = <<"bind", "quic", "login", "login_ok">> /\ d = <<"bind", "quic", "login", "login_ok", "open", "ask">>
        /\ e = <<"bind", "quic", "login", "login_ok", "open", "ask", "answer">>
  OBVIOUS
<1>2. Glued(<<"bind">>, <<"quic", "login">>, a) /\ Glued(a, <<"open", "ask">>, b)
  BY <1>1 DEF Glued, Steps, SetUps, Words, Answers
<1>3. Glued(<<"bind">>, <<"quic">>, <<"bind", "quic">>)
  BY DEF Glued, Steps, SetUps, Words, Answers
<1>4. Glued(<<"bind", "quic">>, <<"login", "login_ok">>, c)
  BY <1>1 DEF Glued, Steps, SetUps, Words, Answers
<1>5. Glued(c, <<"open", "ask">>, d)
  BY <1>1 DEF Glued, Steps, SetUps, Words, Answers
<1>6. Glued(d, <<"answer">>, e)
  BY <1>1 DEF Glued, Steps, SetUps, Words, Answers
<1>7. connect_tcp_proxy_target_via_juicity = b /\ connect_juicity_udp_association = b
  BY ONLY <1>2, GluedIs DEF connect_tcp_proxy_target_via_juicity, connect_juicity_udp_association,
     connect_juicity_dialer_link, open_juicity_tcp_proxy_stream, open_juicity_udp_proxy_stream
<1>8. connect_tcp_proxy_target_via_tuic = b /\ connect_tuic_udp_association = a
  BY ONLY <1>2, GluedIs DEF connect_tcp_proxy_target_via_tuic, connect_tuic_udp_association,
     connect_tuic_dialer_link, write_tuic_tcp_connect
<1>9. connect_tcp_proxy_target_via_hysteria2 = e /\ connect_hysteria2_udp_association = c
  BY ONLY <1>3, <1>4, <1>5, <1>6, GluedIs DEF connect_tcp_proxy_target_via_hysteria2,
     connect_hysteria2_udp_association, connect_hysteria2_dialer_link,
     authenticate_hysteria2_dialer_link, write_hysteria2_tcp_request, read_hysteria2_tcp_response
<1>10. WellMade(b, "juicity", TRUE, TRUE, FALSE)
  BY <1>1, AnswerTable DEF WellMade, Met, HasAsked, Due, Holds, Steps, SetUps, Words, Answers
<1>11. WellMade(b, "tuic", TRUE, TRUE, FALSE)
  BY <1>1, AnswerTable DEF WellMade, Met, HasAsked, Due, Holds, Steps, SetUps, Words, Answers
<1>12. WellMade(e, "hysteria2", TRUE, TRUE, TRUE)
  BY <1>1, AnswerTable DEF WellMade, Met, HasAsked, Due, Holds, Steps, SetUps, Words, Answers
<1>13. WellMade(a, "tuic", TRUE, FALSE, FALSE)
  BY <1>1, AnswerTable DEF WellMade, Met, HasAsked, Due, Holds, Steps, SetUps, Words, Answers
<1>14. WellMade(c, "hysteria2", TRUE, FALSE, FALSE)
  BY <1>1, AnswerTable DEF WellMade, Met, HasAsked, Due, Holds, Steps, SetUps, Words, Answers
<1> QED BY <1>7, <1>8, <1>9, <1>10, <1>11, <1>12, <1>13, <1>14

LEMMA AssociationIsWellMade ==
  ASSUME NEW k \in {"trojan", "vless", "vmess", "socks5", "socks5_login", "juicity", "tuic",
                    "hysteria2"}
  PROVE  WellMade(UdpAssociationScript(k), k, TRUE, k \notin {"tuic", "hysteria2"}, FALSE)
<1>1. CASE k = "socks5"
  <2>1. PICK s, u : /\ s = <<"hello", "hello_ok", "ask", "answer", "bound">>
                    /\ u = <<"connect", "bind", "hello", "hello_ok", "ask", "answer", "bound">>
    OBVIOUS
  <2>2. Glued(<<"hello", "hello_ok">>, <<"ask", "answer", "bound">>, s)
    BY <2>1 DEF Glued, Steps, SetUps, Words, Answers
  <2>3. Glued(<<"connect", "bind">>, s, u) BY <2>1 DEF Glued, Steps, SetUps, Words, Answers
  <2>4. UdpAssociationScript(k) = u
    BY ONLY <1>1, <2>2, <2>3, GluedIs DEF UdpAssociationScript, connect_socks5_udp_association_inner,
       socks5_udp_associate, socks5_negotiate_auth
  <2>5. WellMade(u, k, TRUE, TRUE, FALSE)
    BY <1>1, <2>1, AnswerTable DEF WellMade, Met, HasAsked, Due, Holds, Steps, SetUps, Words, Answers
  <2> QED BY <1>1, <2>4, <2>5
<1>2. CASE k = "socks5_login"
  <2>1. PICK s, u : /\ s = <<"hello", "hello_ok", "login", "login_ok", "ask", "answer", "bound">>
                    /\ u = <<"connect", "bind", "hello", "hello_ok", "login", "login_ok", "ask", "answer", "bound">>
    OBVIOUS
  <2>2. Glued(<<"hello", "hello_ok", "login", "login_ok">>, <<"ask", "answer", "bound">>, s)
    BY <2>1 DEF Glued, Steps, SetUps, Words, Answers
  <2>3. Glued(<<"connect", "bind">>, s, u) BY <2>1 DEF Glued, Steps, SetUps, Words, Answers
  <2>4. UdpAssociationScript(k) = u
    BY ONLY <1>2, <2>2, <2>3, GluedIs DEF UdpAssociationScript, connect_socks5_udp_association_inner,
       socks5_udp_associate, socks5_negotiate_auth
  <2>5. WellMade(u, k, TRUE, TRUE, FALSE)
    BY <1>2, <2>1, AnswerTable DEF WellMade, Met, HasAsked, Due, Holds, Steps, SetUps, Words, Answers
  <2> QED BY <1>2, <2>4, <2>5
<1>3. CASE k \in {"trojan", "vless", "vmess"}
  <2>1. Glued(<<"connect">>, <<"ask">>, <<"connect", "ask">>)
    BY DEF Glued, Steps, SetUps, Words, Answers
  <2>2. UdpAssociationScript(k) = <<"connect">> \o connect_tcp_dialer_link(k)
    BY ONLY <1>3, <2>1, GluedIs DEF UdpAssociationScript, connect_trojan_udp_association,
       connect_vless_udp_association, connect_vmess_udp_association,
       connect_tcp_proxy_target_via_trojan, connect_tcp_proxy_target_via_vless,
       connect_vmess_stream, connect_tcp_dialer_link
  <2>3. k \in LinkKinds /\ (k \in Waiters) = FALSE BY <1>3 DEF LinkKinds, Waiters
  <2> QED BY <1>3, <2>2, <2>3, HopIsWellMade
<1>4. CASE k \in {"juicity", "tuic", "hysteria2"}
  BY <1>4, QuicIsWellMade DEF UdpAssociationScript
<1> QED BY <1>1, <1>2, <1>3, <1>4

(* Every script a dial can run is well made.                                *)
LEMMA ScriptIsWellMade ==
  ASSUME LinkType, NEW hop \in 0..Len(Links), hop = 0 => Links = <<>>
  PROVE  WellMade(Script(hop), Links[hop], hop = Len(Links), Asks, HopWaits(hop))
<1>1. CASE Links = <<>>
  <2>1. Script(hop) = <<"connect">> BY <1>1 DEF Script, Single
  <2>4. Asks = FALSE /\ HopWaits(hop) = FALSE BY <1>1 DEF Asks, HopWaits
  <2>5. hop = Len(Links) BY <1>1
  <2>6. (hop = Len(Links)) = TRUE BY <2>5
  <2>2. PICK s : s = <<"connect">> OBVIOUS
  <2>3. WellMade(s, Links[hop], TRUE, FALSE, FALSE)
    BY <2>2 DEF WellMade, Met, HasAsked, Due, Holds, Steps, SetUps, Words, Answers
  <2> QED BY <2>1, <2>2, <2>3, <2>4, <2>6
<1>2. CASE Single
  <2>a. Links \in Seq(LinkKinds) /\ Len(Links) = 1 BY <1>2 DEF Single, LinkType
  <2>b. Links # <<>> BY <2>a
  <2>c. hop = 1 BY <2>a, <2>b
  <2>0. hop = 1 /\ Links # <<>> /\ hop = Len(Links) /\ Links[1] \in LinkKinds
    BY <2>a, <2>b, <2>c
  <2>1. hop = 1 /\ Links # <<>> /\ (hop = Len(Links)) = TRUE /\ Links[1] \in LinkKinds
    BY <2>0
  <2>2. CASE job.purpose = "udp"
    <3>1. Script(hop) = UdpAssociationScript(Links[1])
      BY <1>2, <2>1, <2>2 DEF Script
    <3>2. Asks = (Links[1] \notin {"tuic", "hysteria2"}) /\ HopWaits(hop) = FALSE
      BY <2>1, <2>2 DEF Asks, HopWaits
    <3> QED BY <2>1, <2>2, <3>1, <3>2, AssociationIsWellMade DEF LinkType
  <2>3. CASE job.purpose = "tcp"
    <3>1. Script(hop) = connect_tcp_proxy_target_with_dialer_link(Links[1])
      BY <1>2, <2>1, <2>3 DEF Script
    <3>2. Asks = TRUE /\ HopWaits(hop) = (Links[1] \in Waiters)
      BY <2>1, <2>3 DEF Asks, HopWaits
    <3>3. CASE Links[1] \in {"juicity", "tuic", "hysteria2"}
      <4>1. CASE Links[1] \in {"juicity", "tuic"}
        <5>0. Links[1] \notin Waiters BY <4>1 DEF Waiters
        <5>1. HopWaits(hop) = FALSE BY <2>1, <5>0 DEF HopWaits
        <5> QED BY <2>1, <3>1, <3>2, <4>1, <5>1, QuicIsWellMade
                DEF connect_tcp_proxy_target_with_dialer_link
      <4>2. CASE Links[1] = "hysteria2"
        <5>1. HopWaits(hop) = TRUE BY <3>2, <4>2 DEF Waiters
        <5> QED BY <2>1, <3>1, <3>2, <4>2, <5>1, QuicIsWellMade
                DEF connect_tcp_proxy_target_with_dialer_link
      <4> QED BY <3>3, <4>1, <4>2
    <3>4. CASE Links[1] \notin {"juicity", "tuic", "hysteria2"}
      <4>1. connect_tcp_proxy_target_with_dialer_link(Links[1])
              = <<"connect">> \o connect_tcp_dialer_link(Links[1])
        BY <2>1, <3>4 DEF LinkKinds, connect_tcp_proxy_target_with_dialer_link, connect_tcp_dialer_link,
           connect_tcp_proxy_target_via_http_connect, connect_tcp_proxy_target_via_socks5_inner,
           connect_tcp_proxy_target_via_shadowsocks, connect_tcp_proxy_target_via_trojan,
           connect_tcp_proxy_target_via_vmess, connect_tcp_proxy_target_via_vless
      <4> QED BY <2>1, <3>1, <3>2, <4>1, HopIsWellMade
    <3> QED BY <3>3, <3>4
  <2> QED BY <2>2, <2>3 DEF LinkType
<1>3. CASE Links # <<>> /\ ~Single
  <2>1. hop \in 1..Len(Links) /\ Links[hop] \in LinkKinds /\ job.purpose = "tcp"
    BY <1>3 DEF LinkType
  <2>2. Script(hop) = connect_tcp_proxy_target_via_dialer_chain_inner(hop)
    BY <1>3 DEF Script
  <2>3. Asks = TRUE /\ HopWaits(hop) = (Links[hop] \in Waiters)
    BY <1>3, <2>1 DEF Asks, HopWaits
  <2>4. CASE hop = Len(Links)
    <3>1. Script(hop) = <<"connect">> \o connect_tcp_dialer_link(Links[hop])
      BY <2>2, <2>4 DEF connect_tcp_proxy_target_via_dialer_chain_inner
    <3> QED BY <2>1, <2>3, <2>4, <3>1, HopIsWellMade
  <2>5. CASE hop # Len(Links)
    <3>1. connect_tcp_dialer_link(Links[hop]) \in Seq(Steps)
      BY <2>1, HopIsWellMade DEF WellMade
    <3>2. Script(hop) = connect_tcp_dialer_link(Links[hop])
      BY <2>2, <2>5, <3>1, ConcatEmptySeq DEF connect_tcp_proxy_target_via_dialer_chain_inner
    <3> QED BY <2>1, <2>3, <2>5, <3>2, HopIsWellMade
  <2> QED BY <2>4, <2>5
<1> QED BY <1>1, <1>2, <1>3

(* One position further.                                                    *)
LEMMA OneFurther ==
  ASSUME NEW s, NEW p \in Nat \ {0}
  PROVE  /\ Met(s, p + 1) <=> Met(s, p) \/ s[p] \in {"connect", "quic"}
         /\ HasAsked(s, p + 1) <=> HasAsked(s, p) \/ s[p] = "ask"
<1>1. \A i : i \in 1..(p + 1 - 1) <=> i \in 1..(p - 1) \/ i = p OBVIOUS
<1> QED BY <1>1 DEF Met, HasAsked

LEMMA DueNow ==
  ASSUME NEW s \in Seq(Steps), NEW p \in 1..Len(s), NEW n \in Nat, Due(s, p, n)
  PROVE  /\ s[p] \notin Answers => n = 0
         /\ s[p] \in Answers => n > 0 /\ Due(s, p + 1, n - 1)
<1>1. Len(s) \in Nat OBVIOUS
<1>2. n > 0 => s[p] \in Answers BY <1>1 DEF Due
<1>3. n = 0 => s[p] \notin Answers BY <1>1 DEF Due
<1>4. n > 0 => Due(s, p + 1, n - 1) BY <1>1 DEF Due
<1> QED BY <1>2, <1>3, <1>4

(* What is known of a dial at work.                                         *)
LEMMA AtWork ==
  ASSUME DialType, Working
  PROVE  /\ at.pos \in 1..Len(Script(at.hop)) /\ at.hop \in 0..Len(Links)
         /\ Script(at.hop) \in Seq(Steps)
         /\ WellMade(Script(at.hop), Links[at.hop], at.hop = Len(Links), Asks, HopWaits(at.hop))
<1>1. at.hop \in 0..Len(Links) /\ (at.hop = 0 => Links = <<>>) /\ at.pos \in Nat BY DEF DialType
<1>2. WellMade(Script(at.hop), Links[at.hop], at.hop = Len(Links), Asks, HopWaits(at.hop))
  BY <1>1, ScriptIsWellMade DEF DialType
<1>3. Script(at.hop) \in Seq(Steps) BY <1>2 DEF WellMade
<1>4. at.pos \in 1..Len(Script(at.hop)) BY <1>1, <1>3 DEF DialType, Working
<1> QED BY <1>1, <1>2, <1>3, <1>4

(* A dial that goes on with the same job has the same scripts.              *)
LEMMA SameScripts ==
  ASSUME UNCHANGED job
  PROVE  /\ Links' = Links /\ Asks' = Asks /\ (LinkType => LinkType') /\ OverQuic' = OverQuic
         /\ \A hop : Script(hop)' = Script(hop) /\ HopWaits(hop)' = HopWaits(hop)
         /\ \A w : AnswersTo(w)' = AnswersTo(w)
<1>1. Links' = Links /\ Single' = Single BY DEF Links, Single
<1>2. Asks' = Asks /\ (LinkType => LinkType') /\ OverQuic' = OverQuic
  BY <1>1 DEF Asks, LinkType, OverQuic
<1>3. \A hop : Script(hop)' = Script(hop)
  BY <1>1 DEF Script, connect_tcp_proxy_target_via_dialer_chain_inner
<1>4. \A hop : HopWaits(hop)' = HopWaits(hop) BY <1>1 DEF HopWaits
<1>5. \A w : AnswersTo(w)' = AnswersTo(w) BY <1>1 DEF AnswersTo
<1> QED BY <1>1, <1>2, <1>3, <1>4, <1>5

(* The step after the last of a hop is the first of the hop before it.      *)
LEMMA Crossing ==
  ASSUME NEW s \in Seq(Steps), NEW u \in Seq(Steps), NEW hop \in Int, NEW d \in BOOLEAN,
         Len(u) >= 1, u[1] \notin Answers, HasAsked(s, Len(s) + 1), d => Met(s, Len(s) + 1),
         inbound' \in Seq(Answers \cup {"bad", "data"}),
         StreamAt(s, Len(s) + 1, hop, d)'
  PROVE  StreamAt(u, 1, hop - 1, FALSE)'
<1>0. Len(s) \in Nat /\ Len(inbound') \in Nat /\ Len(u) \in Nat OBVIOUS
<1>1. ~HasAsked(u, 1) /\ ~Met(u, 1) BY DEF HasAsked, Met
<1>2. \A n \in Nat : Due(s, Len(s) + 1, n) => n = 0 BY <1>0 DEF Due
<1>3. Due(u, 1, 0) BY <1>0 DEF Due
<1>4. \A q : Holds(q, u, 1, 0) BY DEF Holds
<1>5. EndAt(s, Len(s) + 1, hop) = hop - 1 /\ EndAt(u, 1, hop - 1) = hop - 1
  BY <1>1 DEF EndAt
<1>6. CASE closed' BY <1>6 DEF StreamAt
<1>7. CASE ~closed'
  <2>1. LeadsTo(EndAt(u, 1, hop - 1))' BY <1>5, <1>7 DEF StreamAt
  <2>2. ASSUME out' = <<>>
        PROVE  \E n \in 0..Len(inbound') :
                 /\ Due(u, 1, n) /\ Holds(inbound', u, 1, n)
                 /\ \/ Len(inbound') = n
                    \/ Len(inbound') = n + 1 /\ inbound'[n + 1] = "data" /\ far' = 0
    <3>1. PICK n \in 0..Len(inbound') :
                 /\ Due(s, Len(s) + 1, n)
                 /\ \/ Len(inbound') = n
                    \/ Len(inbound') = n + 1 /\ inbound'[n + 1] = "data" /\ far' = 0
      BY <1>7, <2>2 DEF StreamAt
    <3>2. n = 0 BY <1>0, <1>2, <3>1
    <3> QED BY <1>0, <1>3, <1>4, <3>1, <3>2
  <2>3. ASSUME out' # <<>>
        PROVE  /\ inbound' = <<>>
               /\ \E n \in 0..2 : /\ Len(AnswersTo(out[Len(out)])') = n
                                  /\ Due(u, 1, n) /\ Holds(AnswersTo(out[Len(out)])', u, 1, n)
               /\ \A i \in 1..(Len(out') - 1) : AnswersTo(out[i])' = <<>>
    <3>1. PICK n \in 0..2 : Len(AnswersTo(out[Len(out)])') = n /\ Due(s, Len(s) + 1, n)
      BY <1>7, <2>3 DEF StreamAt
    <3>2. n = 0 BY <1>2, <3>1
    <3> QED BY <1>3, <1>4, <1>7, <2>3, <3>1, <3>2 DEF StreamAt
  <2> QED BY <1>7, <2>1, <2>2, <2>3 DEF StreamAt
<1> QED BY <1>6, <1>7

(* Where a step of a script leaves the stream.                              *)
LEMMA SetUpStream ==
  ASSUME NEW s, NEW p, NEW hop, NEW d,
         s = Script(at.hop), p = at.pos, hop = at.hop, d = (at.hop = Len(Links)),
         DialType, StreamInv, SetUpStep
  PROVE  StreamAt(s, p + 1, hop, d)'
<1>1. /\ p \in 1..Len(s) /\ s \in Seq(Steps) /\ WellMade(s, Links[hop], d, Asks, HopWaits(hop))
      /\ hop \in Int /\ d \in BOOLEAN
  BY AtWork DEF SetUpStep, DialType
<1>p. /\ Met(s, p + 1) <=> Met(s, p) \/ s[p] \in {"connect", "quic"}
      /\ HasAsked(s, p + 1) <=> HasAsked(s, p) \/ s[p] = "ask"
  <2>1. p \in Nat \ {0} BY <1>1
  <2> QED BY <2>1, OneFurther
<1>2. StreamAt(s, p, hop, d) BY <1>1 DEF StreamInv, SetUpStep, Working, Dialed, Reached
<1>3. s[p] \in SetUps /\ s[p] \notin Answers BY DEF SetUpStep, Step, SetUps, Answers
<1>4. /\ UNCHANGED <<job, out, inbound, closed>>
      /\ far' = IF s[p] \in {"connect", "quic"} THEN hop ELSE far
  BY DEF SetUpStep, Step
<1>5. Due(s, p + 1, 0) BY <1>1, <1>3 DEF WellMade
<1>6. \A n \in Nat : Due(s, p, n) => n = 0 BY <1>1, <1>3, DueNow
<1>7. \A q : Holds(q, s, p + 1, 0) BY DEF Holds
<1>8. inbound \in Seq(Answers \cup {"bad", "data"}) /\ Len(inbound) \in Nat BY DEF DialType
<1>9. HasAsked(s, p + 1) <=> HasAsked(s, p) BY <1>3, <1>p DEF SetUps
<1>10. CASE closed BY <1>2, <1>4, <1>10 DEF StreamAt
<1>11. CASE ~closed /\ s[p] \in {"connect", "quic"}
  <2>1. d /\ ~Met(s, p) /\ ~HasAsked(s, p) BY <1>1, <1>11 DEF WellMade
  <2>2. out = <<>> /\ far = -1 BY <1>2, <1>11, <2>1 DEF StreamAt
  <2>3. PICK n \in 0..Len(inbound) :
          Due(s, p, n) /\ (Len(inbound) = n \/ (Len(inbound) = n + 1 /\ far = 0))
    BY <1>2, <1>11, <2>2 DEF StreamAt
  <2>4. Len(inbound) = 0 BY <1>6, <1>8, <2>2, <2>3
  <2>5. Met(s, p + 1) /\ EndAt(s, p + 1, hop) = hop
    BY <1>9, <1>11, <1>p, <2>1 DEF EndAt
  <2>6. LeadsTo(hop)' BY <1>1, <1>4, <1>11, <2>2 DEF LeadsTo
  <2>7. out' = <<>> /\ Len(inbound') = 0 /\ ~closed' BY <1>4, <1>11, <2>2, <2>4
  <2> QED BY <1>5, <1>7, <2>5, <2>6, <2>7 DEF StreamAt
<1>12. CASE ~closed /\ s[p] \notin {"connect", "quic"}
  <2>1. Met(s, p + 1) <=> Met(s, p) BY <1>12, <1>p
  <2>2. EndAt(s, p + 1, hop) = EndAt(s, p, hop) BY <1>9 DEF EndAt
  <2>3. far' = far BY <1>4, <1>12
  <2>4. ASSUME d, ~Met(s, p + 1) PROVE out' = <<>> /\ far' = -1
    BY <1>2, <1>4, <1>12, <2>1, <2>3, <2>4 DEF StreamAt
  <2>5. ASSUME ~d \/ Met(s, p + 1) PROVE LeadsTo(EndAt(s, p + 1, hop))'
    <3>1. LeadsTo(EndAt(s, p, hop)) BY <1>2, <1>12, <2>1, <2>5 DEF StreamAt
    <3> QED BY <1>4, <2>2, <2>3, <3>1 DEF LeadsTo
  <2>6. ASSUME out' = <<>>
        PROVE  \E n \in 0..Len(inbound') :
            /\ Due(s, p + 1, n) /\ Holds(inbound', s, p + 1, n)
            /\ \/ Len(inbound') = n
               \/ Len(inbound') = n + 1 /\ inbound'[n + 1] = "data" /\ far' = 0
    <3>1. PICK n \in 0..Len(inbound) :
            /\ Due(s, p, n)
            /\ \/ Len(inbound) = n
               \/ Len(inbound) = n + 1 /\ inbound[n + 1] = "data" /\ far = 0
      BY <1>2, <1>4, <1>12, <2>6 DEF StreamAt
    <3>2. n = 0 BY <1>6, <1>8, <3>1
    <3> QED BY <1>4, <1>5, <1>7, <1>8, <2>3, <3>1, <3>2
  <2>7. ASSUME out' # <<>>
        PROVE  /\ inbound' = <<>>
               /\ \E n \in 0..2 :
                    /\ Len(AnswersTo(out[Len(out)])') = n
                    /\ Due(s, p + 1, n) /\ Holds(AnswersTo(out[Len(out)])', s, p + 1, n)
               /\ \A i \in 1..(Len(out') - 1) : AnswersTo(out[i])' = <<>>
    <3>1. PICK n \in 0..2 : Due(s, p, n) /\ Len(AnswersTo(out[Len(out)])) = n
      BY <1>2, <1>4, <1>12, <2>7 DEF StreamAt
    <3>2. n = 0 BY <1>6, <3>1
    <3>3. /\ inbound = <<>>
          /\ \A i \in 1..(Len(out) - 1) : AnswersTo(out[i]) = <<>>
      BY <1>2, <1>4, <1>12, <2>7 DEF StreamAt
    <3>4. \A i : AnswersTo(out[i])' = AnswersTo(out[i]) BY <1>4 DEF AnswersTo, Links
    <3> QED BY <1>4, <1>5, <1>7, <3>1, <3>2, <3>3, <3>4
  <2>8. ~closed' BY <1>4, <1>12
  <2> QED BY <2>4, <2>5, <2>6, <2>7, <2>8 DEF StreamAt
<1> QED BY <1>10, <1>11, <1>12

LEMMA WriteStream ==
  ASSUME NEW s, NEW p, NEW hop, NEW d,
         s = Script(at.hop), p = at.pos, hop = at.hop, d = (at.hop = Len(Links)),
         DialType, StreamInv, WriteStep
  PROVE  StreamAt(s, p + 1, hop, d)' /\ out' \in Seq(Written)
<1>1. /\ p \in 1..Len(s) /\ s \in Seq(Steps) /\ WellMade(s, Links[hop], d, Asks, HopWaits(hop))
      /\ hop \in 0..Len(Links) /\ hop \in Int /\ d \in BOOLEAN
  BY AtWork DEF WriteStep, DialType
<1>p. /\ Met(s, p + 1) <=> Met(s, p) \/ s[p] \in {"connect", "quic"}
      /\ HasAsked(s, p + 1) <=> HasAsked(s, p) \/ s[p] = "ask"
  <2>1. p \in Nat \ {0} BY <1>1
  <2> QED BY <2>1, OneFurther
<1>2. StreamAt(s, p, hop, d) BY <1>1 DEF StreamInv, WriteStep, Working, Dialed, Reached
<1>3. s[p] \in Words /\ s[p] \notin Answers BY DEF WriteStep, Step, Words, Answers
<1>a. PICK w : w = [hop |-> hop, word |-> s[p], target |-> hop - 1] OBVIOUS
<1>4. /\ UNCHANGED <<job, far, inbound, closed>>
      /\ out' = IF closed THEN out ELSE Append(out, w)
  BY <1>a DEF WriteStep, Step, dialer_link_endpoint_header
<1>5. PICK m \in 0..2 : /\ Len(AnswersOf(Links[hop], s[p])) = m
                        /\ Due(s, p + 1, m) /\ Holds(AnswersOf(Links[hop], s[p]), s, p + 1, m)
  BY <1>1, <1>3 DEF WellMade
<1>6. \A n \in Nat : Due(s, p, n) => n = 0 BY <1>1, <1>3, DueNow
<1>7. (d => Met(s, p)) /\ ~HasAsked(s, p) BY <1>1, <1>3 DEF WellMade
<1>8. /\ inbound \in Seq(Answers \cup {"bad", "data"}) /\ Len(inbound) \in Nat
      /\ out \in Seq(Written) /\ Len(out) \in Nat
  BY DEF DialType
<1>9. hop # 0
  <2>1. hop = 0 => Links = <<>> BY DEF DialType
  <2>2. Links = <<>> => Script(at.hop) = <<"connect">> BY DEF Script, Single
  <2>3. Links = <<>> => s[p] = "connect" BY <1>1, <2>2
  <2> QED BY <1>3, <2>1, <2>3 DEF Words
<1>b. w \in Written BY <1>1, <1>3, <1>9, <1>a DEF Written
<1>c. out' \in Seq(Written) BY <1>4, <1>8, <1>b
<1>10. CASE closed BY <1>2, <1>4, <1>10, <1>c DEF StreamAt
<1>11. CASE ~closed
  <2>1. ~closed' /\ out' = Append(out, w) BY <1>4, <1>11
  <2>2. /\ Len(out') = Len(out) + 1 /\ out' # <<>> /\ out'[Len(out')] = w
        /\ \A i \in 1..Len(out) : out'[i] = out[i]
    BY <1>8, <1>b, <2>1, AppendProperties
  <2>3. LeadsTo(hop) BY <1>2, <1>7, <1>11 DEF StreamAt, EndAt
  <2>a. Met(s, p + 1) \/ ~d BY <1>7, <1>p
  <2>b. HasAsked(s, p + 1) <=> s[p] = "ask" BY <1>7, <1>p
  <2>c. EndAt(s, p + 1, hop) = After(w) BY <1>a, <2>b DEF EndAt, After
  <2>4. (Met(s, p + 1) \/ ~d) /\ EndAt(s, p + 1, hop) = After(w) BY <2>a, <2>c
  <2>5. LeadsTo(After(w))'
    <3>1. out'[1].hop = far'
      <4>1. CASE out = <<>> BY <1>4, <1>a, <2>2, <2>3, <4>1 DEF LeadsTo
      <4>2. CASE out # <<>>
        <5>1. Len(out) >= 1 BY <1>8, <4>2
        <5> QED BY <1>4, <1>8, <2>2, <2>3, <4>2, <5>1 DEF LeadsTo
      <4> QED BY <4>1, <4>2
    <3>2. ASSUME NEW i \in 2..Len(out') PROVE out'[i].hop = After(out'[i - 1])
      <4>1. CASE i = Len(out')
        <5>1. out # <<>> /\ i - 1 = Len(out) /\ Len(out) >= 1 BY <1>8, <2>2, <4>1, <3>2
        <5>2. After(out[Len(out)]) = hop BY <2>3, <5>1 DEF LeadsTo
        <5> QED BY <1>8, <1>a, <2>2, <4>1, <5>1, <5>2 
      <4>2. CASE i # Len(out')
        <5>1. i \in 2..Len(out) /\ i - 1 \in 1..Len(out) /\ i \in 1..Len(out) BY <1>8, <2>2, <4>2
        <5> QED BY <2>2, <2>3, <5>1 DEF LeadsTo
      <4> QED BY <4>1, <4>2
    <3>3. \A v : After(v)' = After(v) BY DEF After
    <3> QED BY <2>2, <3>1, <3>2, <3>3 DEF LeadsTo
  <2>6. inbound = <<>> /\ \A i \in 1..Len(out) : AnswersTo(out[i]) = <<>>
    <3>1. CASE out = <<>>
      <4>1. PICK n \in 0..Len(inbound) :
            /\ Due(s, p, n)
            /\ \/ Len(inbound) = n
               \/ Len(inbound) = n + 1 /\ inbound[n + 1] = "data" /\ far = 0
        BY <1>2, <1>11, <3>1 DEF StreamAt
      <4>2. n = 0 /\ far # 0 BY <1>1, <1>6, <1>8, <1>9, <2>3, <3>1, <4>1 DEF LeadsTo
      <4> QED BY <1>8, <3>1, <4>1, <4>2
    <3>2. CASE out # <<>>
      <4>1. PICK n \in 0..2 : Due(s, p, n) /\ Len(AnswersTo(out[Len(out)])) = n
        BY <1>2, <1>11, <3>2 DEF StreamAt
      <4>2. n = 0 BY <1>6, <4>1
      <4>3. AnswersTo(out[Len(out)]) = <<>>
        BY <4>1, <4>2 DEF AnswersTo, AnswersOf
      <4>4. /\ inbound = <<>>
            /\ \A i \in 1..(Len(out) - 1) : AnswersTo(out[i]) = <<>>
        BY <1>2, <1>11, <3>2 DEF StreamAt
      <4> QED BY <1>8, <4>3, <4>4
    <3> QED BY <3>1, <3>2
  <2>7. AnswersTo(w)' = AnswersOf(Links[hop], s[p])
    BY <1>4, <1>a DEF AnswersTo, Links
  <2>8. \A v : AnswersTo(v)' = AnswersTo(v) BY <1>4 DEF AnswersTo, Links
  <2>9. \A i \in 1..(Len(out') - 1) : AnswersTo(out[i])' = <<>>
    BY <1>8, <2>2, <2>6, <2>8
  <2>10. AnswersTo(out[Len(out)])' = AnswersOf(Links[hop], s[p]) BY <2>2, <2>7
  <2>11. inbound' = <<>> BY <1>4, <2>6
  <2>12. LeadsTo(EndAt(s, p + 1, hop))' BY <2>4, <2>5
  <2>13. ~(d /\ ~Met(s, p + 1)) BY <2>4
  <2>14. StreamAt(s, p + 1, hop, d)'
    BY <1>5, <2>1, <2>2, <2>9, <2>10, <2>11, <2>12, <2>13 DEF StreamAt
  <2> QED BY <1>c, <2>14
<1> QED BY <1>10, <1>11

LEMMA ReadStream ==
  ASSUME NEW s, NEW p, NEW hop, NEW d,
         s = Script(at.hop), p = at.pos, hop = at.hop, d = (at.hop = Len(Links)),
         DialType, StreamInv, ReadStep
  PROVE  StreamAt(s, p + 1, hop, d)' /\ ~closed /\ out = <<>>
<1>1. /\ p \in 1..Len(s) /\ s \in Seq(Steps) /\ hop \in Int /\ d \in BOOLEAN
  BY AtWork DEF ReadStep, DialType
<1>p. /\ Met(s, p + 1) <=> Met(s, p) \/ s[p] \in {"connect", "quic"}
      /\ HasAsked(s, p + 1) <=> HasAsked(s, p) \/ s[p] = "ask"
  <2>1. p \in Nat \ {0} BY <1>1
  <2> QED BY <2>1, OneFurther
<1>2. StreamAt(s, p, hop, d) BY <1>1 DEF StreamInv, ReadStep, Working, Dialed, Reached
<1>3. s[p] \in Answers /\ inbound # <<>> /\ Head(inbound) = s[p] BY DEF ReadStep, Step
<1>4. UNCHANGED <<job, far, out, closed>> /\ inbound' = Tail(inbound) BY DEF ReadStep
<1>5. inbound \in Seq(Answers \cup {"bad", "data"}) /\ Len(inbound) \in Nat BY DEF DialType
<1>6. ~closed BY <1>2, <1>3 DEF StreamAt, Answers
<1>7. out = <<>> BY <1>2, <1>3, <1>6 DEF StreamAt
<1>8. (Met(s, p + 1) <=> Met(s, p)) /\ (HasAsked(s, p + 1) <=> HasAsked(s, p))
  BY <1>3, <1>p DEF Answers
<1>9. PICK n \in 0..Len(inbound) :
        /\ Due(s, p, n) /\ Holds(inbound, s, p, n)
        /\ \/ Len(inbound) = n
           \/ Len(inbound) = n + 1 /\ inbound[n + 1] = "data" /\ far = 0
  BY <1>2, <1>6, <1>7 DEF StreamAt
<1>10. n > 0 /\ Due(s, p + 1, n - 1)
  <2>1. n \in Nat BY <1>5
  <2> QED BY <1>1, <1>3, <1>9, <2>1, DueNow
<1>11. /\ Len(inbound') = Len(inbound) - 1
       /\ \A i \in 1..(Len(inbound) - 1) : inbound'[i] = inbound[i + 1]
  BY <1>3, <1>4, <1>5, HeadTailProperties
<1>12. Holds(inbound', s, p + 1, n - 1)
  <2>1. ASSUME NEW i \in 1..(n - 1) PROVE inbound'[i] = s[p + 1 + i - 1]
    <3>1. i + 1 \in 1..n /\ i \in 1..(Len(inbound) - 1) BY <1>5, <1>9, <1>10
    <3>2. inbound[i + 1] = s[p + (i + 1) - 1] BY <1>9, <3>1 DEF Holds
    <3>3. p + (i + 1) - 1 = p + 1 + i - 1 BY <1>1
    <3> QED BY <1>11, <3>1, <3>2, <3>3
  <2> QED BY <2>1 DEF Holds
<1>13. /\ n - 1 \in 0..Len(inbound')
       /\ \/ Len(inbound') = n - 1
          \/ Len(inbound') = (n - 1) + 1 /\ inbound'[(n - 1) + 1] = "data" /\ far' = 0
  <2>1. CASE Len(inbound) = n BY <1>5, <1>10, <1>11, <2>1
  <2>2. CASE Len(inbound) = n + 1 /\ inbound[n + 1] = "data" /\ far = 0
    <3>1. inbound'[n] = inbound[n + 1] BY <1>5, <1>10, <1>11, <2>2
    <3> QED BY <1>4, <1>5, <1>10, <1>11, <2>2, <3>1
  <2> QED BY <1>9, <2>1, <2>2
<1>14. EndAt(s, p + 1, hop) = EndAt(s, p, hop) BY <1>8 DEF EndAt
<1>15. ASSUME ~d \/ Met(s, p + 1) PROVE LeadsTo(EndAt(s, p + 1, hop))'
  <2>1. LeadsTo(EndAt(s, p, hop)) BY <1>2, <1>6, <1>8, <1>15 DEF StreamAt
  <2> QED BY <1>4, <1>14, <2>1 DEF LeadsTo
<1>16. ASSUME d, ~Met(s, p + 1) PROVE out' = <<>> /\ far' = -1
  BY <1>2, <1>4, <1>6, <1>8, <1>16 DEF StreamAt
<1>17. ~closed' /\ out' = <<>> BY <1>4, <1>6, <1>7
<1>18. \E m \in 0..Len(inbound') :
         /\ Due(s, p + 1, m) /\ Holds(inbound', s, p + 1, m)
         /\ \/ Len(inbound') = m
            \/ Len(inbound') = m + 1 /\ inbound'[m + 1] = "data" /\ far' = 0
  BY <1>10, <1>12, <1>13
<1>19. StreamAt(s, p + 1, hop, d)' BY <1>15, <1>16, <1>17, <1>18 DEF StreamAt
<1> QED BY <1>6, <1>7, <1>19

LEMMA AnswersType == ASSUME NEW w PROVE AnswersTo(w) \in Seq(Answers \cup {"bad", "data"})
<1>1. AnswersTo(w) \in {<<>>, <<"tls">>, <<"hello_ok">>, <<"login_ok">>, <<"answer">>,
                       <<"answer", "bound">>}
  BY DEF AnswersTo, AnswersOf
<1>2. /\ <<>> \in Seq(Answers \cup {"bad", "data"})
      /\ <<"tls">> \in Seq(Answers \cup {"bad", "data"})
      /\ <<"hello_ok">> \in Seq(Answers \cup {"bad", "data"})
      /\ <<"login_ok">> \in Seq(Answers \cup {"bad", "data"})
      /\ <<"answer">> \in Seq(Answers \cup {"bad", "data"})
      /\ <<"answer", "bound">> \in Seq(Answers \cup {"bad", "data"})
  BY DEF Answers
<1> QED BY <1>1, <1>2, Zenon

(* The proxy that reads a word is the one it is meant for, and leaves the    *)
(* stream where the words behind it expect it.                               *)
LEMMA ObeyStream ==
  ASSUME NEW s, NEW p, NEW hop, NEW d, DialType, StreamAt(s, p, hop, d), ProxyObeys,
         d \in BOOLEAN, hop \in Int
  PROVE  /\ StreamAt(s, p, hop, d)' /\ far = Head(out).hop /\ (d => Met(s, p))
         /\ out' \in Seq(Written) /\ far' \in Int
         /\ inbound' \in Seq(Answers \cup {"bad", "data"})
<1>1. /\ out \in Seq(Written) /\ Len(out) \in Nat /\ Len(out) >= 1 /\ ~closed /\ out # <<>>
      /\ Head(out) = out[1] /\ out[1] \in Written
  BY DEF ProxyObeys, DialType
<1>2. d => Met(s, p) BY <1>1 DEF StreamAt
<1>3. LeadsTo(EndAt(s, p, hop)) BY <1>1, <1>2 DEF StreamAt
<1>4. out[1].hop = far BY <1>1, <1>3 DEF LeadsTo
<1>5. /\ out' = Tail(out) /\ far' = After(out[1]) /\ UNCHANGED <<job, closed>>
      /\ inbound' = inbound \o AnswersTo(out[1])
  BY <1>1, <1>4 DEF ProxyObeys, After
<1>6. inbound = <<>> /\ \A i \in 1..(Len(out) - 1) : AnswersTo(out[i]) = <<>>
  BY <1>1 DEF StreamAt
<1>7. inbound' = AnswersTo(out[1])
  BY <1>5, <1>6, AnswersType, ConcatEmptySeq
<1>8. /\ Len(out') = Len(out) - 1 /\ out' \in Seq(Written)
      /\ \A i \in 1..(Len(out) - 1) : out'[i] = out[i + 1]
  BY <1>1, <1>5, HeadTailProperties
<1>9. far' \in Int BY <1>1, <1>5 DEF After, Written
<1>10. \A v : AnswersTo(v)' = AnswersTo(v) BY <1>5 DEF AnswersTo, Links
<1>11. CASE Len(out) = 1
  <2>1. out' = <<>> BY <1>8, <1>11
  <2>2. LeadsTo(EndAt(s, p, hop))'
    <3>1. After(out[1]) = EndAt(s, p, hop) BY <1>1, <1>3, <1>11 DEF LeadsTo
    <3> QED BY <1>5, <2>1, <3>1 DEF LeadsTo
  <2>3. PICK n \in 0..2 : /\ Len(AnswersTo(out[1])) = n
                          /\ Due(s, p, n) /\ Holds(AnswersTo(out[1]), s, p, n)
    BY <1>1, <1>11 DEF StreamAt
  <2>4. n \in 0..Len(inbound') /\ Len(inbound') = n /\ Holds(inbound', s, p, n) BY <1>7, <2>3
  <2>5. ~closed' BY <1>1, <1>5
  <2>6. StreamAt(s, p, hop, d)' BY <1>2, <2>1, <2>2, <2>3, <2>4, <2>5 DEF StreamAt
  <2> QED BY <1>2, <1>1, <1>4, <1>7, <1>8, <1>9, <2>6, AnswersType
<1>12. CASE Len(out) # 1
  <2>1. out' # <<>> /\ Len(out') >= 1 BY <1>1, <1>8, <1>12
  <2>2. out'[Len(out')] = out[Len(out)] BY <1>1, <1>8, <1>12
  <2>3. inbound' = <<>>
    <3>1. 1 \in 1..(Len(out) - 1) BY <1>1, <1>12
    <3> QED BY <1>6, <1>7, <3>1
  <2>4. LeadsTo(EndAt(s, p, hop))'
    <3>1. out'[1].hop = far'
      <4>1. out'[1] = out[2] /\ out[2].hop = After(out[1])
        BY <1>1, <1>3, <1>8, <1>12 DEF LeadsTo
      <4> QED BY <1>5, <4>1
    <3>2. \A v : After(v)' = After(v) BY DEF After
    <3>3. After(out'[Len(out')]) = EndAt(s, p, hop) BY <1>1, <1>3, <2>2 DEF LeadsTo
    <3>4. ASSUME NEW i \in 2..Len(out') PROVE out'[i].hop = After(out'[i - 1])
      <4>1. i + 1 \in 2..Len(out) /\ i \in 1..(Len(out) - 1) /\ i - 1 \in 1..(Len(out) - 1)
            /\ (i + 1) - 1 = i /\ (i - 1) + 1 = i
        BY <1>1, <1>8
      <4>2. out[i + 1].hop = After(out[i]) BY <1>3, <4>1 DEF LeadsTo
      <4> QED BY <1>8, <4>1, <4>2
    <3> QED BY <2>1, <3>1, <3>2, <3>3, <3>4 DEF LeadsTo
  <2>5. \A i \in 1..(Len(out') - 1) : AnswersTo(out[i])' = <<>>
    <3> TAKE i \in 1..(Len(out') - 1)
    <3>1. i + 1 \in 1..(Len(out) - 1) /\ i \in 1..(Len(out) - 1) BY <1>1, <1>8
    <3> QED BY <1>6, <1>8, <1>10, <3>1
  <2>6. PICK n \in 0..2 : /\ Len(AnswersTo(out[Len(out)])) = n
                          /\ Due(s, p, n) /\ Holds(AnswersTo(out[Len(out)]), s, p, n)
    BY <1>1 DEF StreamAt
  <2>7. AnswersTo(out[Len(out)])' = AnswersTo(out[Len(out)]) BY <1>10, <2>2
  <2>8. ~closed' BY <1>1, <1>5
  <2>9. StreamAt(s, p, hop, d)'
    BY <1>2, <2>1, <2>3, <2>4, <2>5, <2>6, <2>7, <2>8 DEF StreamAt
  <2> QED BY <1>2, <1>1, <1>4, <1>7, <1>8, <1>9, <2>9, AnswersType
<1> QED BY <1>11, <1>12

LEMMA RefuseStream ==
  ASSUME NEW s, NEW p, NEW hop, NEW d, DialType, StreamAt(s, p, hop, d), ProxyRefuses
  PROVE  /\ StreamAt(s, p, hop, d)' /\ (d => Met(s, p))
         /\ ~closed => far = Head(out).hop
         /\ inbound' \in Seq(Answers \cup {"bad", "data"})
<1>1. /\ out \in Seq(Written) /\ Len(out) >= 1 /\ ~closed /\ out # <<>> /\ Head(out) = out[1]
  BY DEF ProxyRefuses, DialType
<1>2. d => Met(s, p) BY <1>1 DEF StreamAt
<1>3. LeadsTo(EndAt(s, p, hop)) BY <1>1, <1>2 DEF StreamAt
<1>4. out[1].hop = far BY <1>1, <1>3 DEF LeadsTo
<1>5. inbound = <<>> BY <1>1 DEF StreamAt
<1>6. inbound' \in {<<>>, <<"bad">>} BY <1>5 DEF ProxyRefuses
<1>7. out' = <<>> /\ closed' BY DEF ProxyRefuses
<1>8. StreamAt(s, p, hop, d)' BY <1>6, <1>7 DEF StreamAt
<1>9. inbound' \in Seq(Answers \cup {"bad", "data"})
  <2>1. /\ <<>> \in Seq(Answers \cup {"bad", "data"})
        /\ <<"bad">> \in Seq(Answers \cup {"bad", "data"})
    OBVIOUS
  <2> QED BY <1>6, <2>1, Zenon
<1> QED BY <1>1, <1>2, <1>4, <1>8, <1>9

LEMMA SpeakStream ==
  ASSUME NEW s \in Seq(Steps), NEW p \in Nat, NEW hop, NEW d, DialType, StreamAt(s, p, hop, d),
         TargetSpeaks, d \in BOOLEAN
  PROVE  StreamAt(s, p, hop, d)' /\ inbound' \in Seq(Answers \cup {"bad", "data"}) /\ out = <<>>
<1>1. /\ far = 0 /\ ~closed /\ inbound' = Append(inbound, "data")
      /\ UNCHANGED <<job, far, out, closed>> /\ \A i \in DOMAIN inbound : inbound[i] # "data"
  BY DEF TargetSpeaks
<1>2. /\ inbound \in Seq(Answers \cup {"bad", "data"}) /\ Len(inbound) \in Nat
      /\ out \in Seq(Written)
  BY DEF DialType
<1>3. d => Met(s, p) BY <1>1 DEF StreamAt
<1>4. LeadsTo(EndAt(s, p, hop)) BY <1>1, <1>3 DEF StreamAt
<1>5. out = <<>>
  <2>1. ASSUME out # <<>> PROVE FALSE
    <3>1. out[1] \in Written BY <1>2, <2>1
    <3>2. out[1].hop >= 1 BY <3>1 DEF Written
    <3>3. out[1].hop = 0 BY <1>1, <1>4, <2>1 DEF LeadsTo
    <3> QED BY <3>2, <3>3
  <2> QED BY <2>1
<1>6. PICK n \in 0..Len(inbound) :
        /\ Due(s, p, n) /\ Holds(inbound, s, p, n)
        /\ \/ Len(inbound) = n
           \/ Len(inbound) = n + 1 /\ inbound[n + 1] = "data" /\ far = 0
  BY <1>1, <1>5 DEF StreamAt
<1>7. Len(inbound) = n BY <1>1, <1>2, <1>6
<1>8. /\ inbound' \in Seq(Answers \cup {"bad", "data"})
      /\ Len(inbound') = Len(inbound) + 1 /\ inbound'[Len(inbound) + 1] = "data"
      /\ \A i \in 1..Len(inbound) : inbound'[i] = inbound[i]
  BY <1>1, <1>2, AppendProperties
<1>9. Holds(inbound', s, p, n) BY <1>6, <1>7, <1>8 DEF Holds
<1>10. n \in 0..Len(inbound') BY <1>2, <1>7, <1>8
<1>11. LeadsTo(EndAt(s, p, hop))' BY <1>1, <1>4 DEF LeadsTo
<1>12. \E m \in 0..Len(inbound') :
         /\ Due(s, p, m) /\ Holds(inbound', s, p, m)
         /\ \/ Len(inbound') = m
            \/ Len(inbound') = m + 1 /\ inbound'[m + 1] = "data" /\ far' = 0
  BY <1>1, <1>6, <1>7, <1>8, <1>9, <1>10
<1>13. ~closed' /\ out' = <<>> BY <1>1, <1>5
<1>14. StreamAt(s, p, hop, d)' BY <1>3, <1>11, <1>12, <1>13 DEF StreamAt
<1> QED BY <1>5, <1>8, <1>14

(* A step of a script, its effect on the stream given, keeps the invariant.  *)
LEMMA AdvanceInv ==
  ASSUME NEW s, NEW p, NEW hop, NEW d,
         s = Script(at.hop), p = at.pos, hop = at.hop, d = (at.hop = Len(Links)),
         DialType, HeardInv, Working, Advance, UNCHANGED <<job, heard>>,
         s[p] # "refuse", s[p] \in Answers => ~closed' /\ out' = <<>>,
         StreamAt(s, p + 1, hop, d)', out' \in Seq(Written), far' \in Int, closed' \in BOOLEAN,
         inbound' \in Seq(Answers \cup {"bad", "data"})
  PROVE  DialType' /\ NoStreamInv' /\ StreamInv' /\ HeardInv' /\ WaitInv'
<1>1. /\ p \in 1..Len(s) /\ s \in Seq(Steps) /\ WellMade(s, Links[hop], d, Asks, HopWaits(hop))
      /\ hop \in 0..Len(Links) /\ d \in BOOLEAN
  BY AtWork
<1>2. /\ Links' = Links /\ Asks' = Asks /\ LinkType' /\ OverQuic' = OverQuic
      /\ \A h : Script(h)' = Script(h) /\ HopWaits(h)' = HopWaits(h)
      /\ Written' = Written
  BY SameScripts DEF DialType, Written
<1>3. /\ at \in [hop : 0..Len(Links), pos : Nat] /\ (hop = 0 => Links = <<>>)
      /\ Links \in Seq(LinkKinds) /\ Len(Links) \in Nat /\ Len(s) \in Nat
  BY <1>1 DEF DialType, LinkType
<1>4. result = "dialing" BY DEF Working
<1>5. Met(s, p + 1) <=> Met(s, p) \/ s[p] \in {"connect", "quic"}
  <2>1. p \in Nat \ {0} BY <1>1
  <2> QED BY <2>1, OneFurther
<1>6. CASE p < Len(s)
  <2>1. at' = [hop |-> hop, pos |-> p + 1] /\ result' = "dialing"
    BY <1>3, <1>4, <1>6 DEF Advance
  <2>2. Script(at.hop)' = s BY <1>2, <2>1
  <2>3. DialType'
    <3>1. at' \in [hop : 0..Len(Links'), pos : Nat] /\ (at'.hop = 0 => Links' = <<>>) /\ at'.pos # 0
      BY <1>1, <1>2, <1>3, <2>1
    <3>2. at'.pos <= Len(Script(at.hop)') BY <1>1, <1>6, <2>1, <2>2
    <3> QED BY <1>2, <2>1, <3>1, <3>2 DEF DialType
  <2>4. StreamInv'
    <3>1. Reached' = p + 1 /\ at'.hop = hop /\ (at.hop = Len(Links))' = d
      BY <1>2, <2>1 DEF Reached
    <3> QED BY <2>2, <3>1 DEF StreamInv, StreamAt
  <2>5. HeardInv'
    <3>1. SUFFICES ASSUME heard # {}, ~OverQuic PROVE hop < Len(Links) \/ Met(s, p + 1)
      <4>1. Met(Script(at.hop), at.pos)' <=> Met(s, p + 1) BY <2>1, <2>2 DEF Met
      <4> QED BY <1>1, <1>2, <2>1, <4>1 DEF HeardInv
    <3> QED BY <1>4, <1>5, <3>1 DEF HeardInv
  <2> QED BY <1>1, <2>1, <2>3, <2>4, <2>5 DEF NoStreamInv, WaitInv, Dialed
<1>7. CASE p = Len(s) /\ hop > 1
  <2>1. at' = [hop |-> hop - 1, pos |-> 1] /\ result' = "dialing"
    BY <1>1, <1>3, <1>4, <1>7 DEF Advance
  <2>2. hop - 1 \in 1..Len(Links) /\ hop - 1 < Len(Links) BY <1>1, <1>3, <1>7
  <2>3. Links # <<>> BY <1>1, <1>3, <1>7
  <2>4. PICK u : u = Script(hop - 1) OBVIOUS
  <2>5. Script(at.hop)' = u BY <1>2, <2>1, <2>4
  <2>6. WellMade(u, Links[hop - 1], hop - 1 = Len(Links), Asks, HopWaits(hop - 1))
    <3>1. hop - 1 \in 0..Len(Links) /\ hop - 1 # 0 BY <2>2
    <3> QED BY <2>4, <3>1, ScriptIsWellMade DEF DialType
  <2>7. u \in Seq(Steps) /\ Len(u) >= 1 /\ u[1] \notin Answers BY <2>6 DEF WellMade
  <2>8. DialType'
    <3>1. at' \in [hop : 0..Len(Links'), pos : Nat] /\ at'.hop # 0 /\ at'.pos # 0
      BY <1>2, <1>3, <2>1, <2>2
    <3>2. at'.pos <= Len(Script(at.hop)') BY <2>1, <2>5, <2>7
    <3> QED BY <1>2, <2>1, <3>1, <3>2 DEF DialType
  <2>9. Asks
    <3>1. Len(Links) # 1 BY <1>1, <1>3, <1>7
    <3> QED BY <2>3, <3>1 DEF Asks, DialType, LinkType, Single
  <2>10. HasAsked(s, Len(s) + 1) /\ (d => Met(s, Len(s) + 1))
    BY <1>1, <1>7, <2>9 DEF WellMade
  <2>11. StreamAt(u, 1, hop - 1, FALSE)'
    <3>1. StreamAt(s, Len(s) + 1, hop, d)' BY <1>7
    <3>2. hop \in Int BY <1>1
    <3> QED BY <1>1, <2>7, <2>10, <3>1, <3>2, Crossing
  <2>12. StreamInv'
    <3>1. Reached' = 1 /\ at'.hop = hop - 1 BY <2>1 DEF Reached
    <3>2. (at.hop = Len(Links))' = FALSE BY <1>2, <2>1, <2>2
    <3> QED BY <2>5, <2>11, <3>1, <3>2 DEF StreamInv, StreamAt
  <2>13. HeardInv' BY <1>2, <2>1, <2>2 DEF HeardInv
  <2> QED BY <2>1, <2>8, <2>12, <2>13 DEF NoStreamInv, WaitInv, Dialed
<1>8. CASE p = Len(s) /\ ~(hop > 1)
  <2>1. at' = at /\ result' = "connected" BY <1>1, <1>3, <1>8 DEF Advance
  <2>2. Script(at.hop)' = s BY <1>2, <2>1
  <2>3. DialType'
    <3>1. at' \in [hop : 0..Len(Links'), pos : Nat] /\ (at'.hop = 0 => Links' = <<>>) /\ at'.pos # 0
      BY <1>1, <1>2, <1>3, <2>1
    <3>2. at'.pos = Len(Script(at.hop)') /\ Script(at.hop)'[at'.pos] # "refuse"
      BY <1>8, <2>1, <2>2
    <3>3. at'.hop <= 1 BY <1>1, <1>3, <1>8, <2>1
    <3> QED BY <1>2, <2>1, <3>1, <3>2, <3>3 DEF DialType
  <2>4. StreamInv'
    <3>1. Reached' = p + 1 /\ at'.hop = hop /\ (at.hop = Len(Links))' = d
      BY <1>2, <2>1 DEF Reached
    <3> QED BY <2>2, <3>1 DEF StreamInv, StreamAt
  <2>5. HeardInv' BY <1>1, <1>2, <2>1 DEF HeardInv
  <2>6. WaitInv'
    <3>1. SUFFICES ASSUME HopWaits(1) PROVE out' = <<>> /\ far' = 0
      BY <1>2 DEF WaitInv
    <3>2. Links # <<>> /\ hop = 1 /\ Asks BY <1>1, <1>3, <1>8, <3>1 DEF HopWaits, Asks
    <3>3. s[Len(s)] \in Answers /\ HasAsked(s, Len(s) + 1) /\ (d => Met(s, Len(s) + 1))
      BY <1>1, <1>8, <3>1, <3>2 DEF WellMade
    <3>4. ~closed' /\ out' = <<>> BY <1>8, <3>3
    <3>5. LeadsTo(EndAt(s, p + 1, hop))' BY <1>8, <3>3, <3>4 DEF StreamAt
    <3>6. EndAt(s, p + 1, hop) = 0 BY <1>8, <3>2, <3>3 DEF EndAt
    <3> QED BY <3>4, <3>5, <3>6 DEF LeadsTo
  <2> QED BY <1>1, <2>1, <2>3, <2>4, <2>5, <2>6 DEF NoStreamInv, Dialed
<1> QED BY <1>1, <1>6, <1>7, <1>8

(* The steps before an address is connected, and those that give it up.     *)
LEMMA ChoosingSteps ==
  ASSUME DialInv, ResolutionFails \/ SkipAddress \/ AddressesExhausted
  PROVE  DialInv'
<1>1. /\ at.pos = 0 /\ UNCHANGED <<job, at, stream, heard, tried>> /\ result' # "connected"
      /\ addrs' \in Seq(Families) /\ (result' = "no_usable" => tried = <<>>) /\ result = "dialing"
  <2>1. addrs \in Seq(Families) BY DEF DialInv, AddrInv
  <2>2. CASE ResolutionFails BY <2>1, <2>2 DEF ResolutionFails, Choosing
  <2>3. CASE SkipAddress BY <2>1, <2>3 DEF SkipAddress, Choosing
  <2>4. CASE AddressesExhausted BY <2>1, <2>4 DEF AddressesExhausted, Choosing
  <2> QED BY <2>2, <2>3, <2>4
<1>2. /\ Links' = Links /\ LinkType' /\ OverQuic' = OverQuic /\ Written' = Written
      /\ \A h : Script(h)' = Script(h)
  BY <1>1, SameScripts DEF DialInv, DialType, Written
<1>3. at.pos <= Len(Script(at.hop)) BY <1>1 DEF DialInv, DialType
<1>4. DialType' BY <1>1, <1>2, <1>3 DEF DialInv, DialType, stream
<1>5. NoStreamInv' BY <1>1 DEF DialInv, NoStreamInv, stream
<1>6. StreamInv' BY <1>1 DEF StreamInv
<1>7. HeardInv' BY <1>1, <1>2 DEF DialInv, HeardInv
<1>8. SecretsToTheirOwner' BY <1>1 DEF DialInv, SecretsToTheirOwner
<1>9. WaitInv' BY <1>1 DEF WaitInv
<1>10. AddrInv' BY <1>1 DEF DialInv, AddrInv
<1> QED BY <1>4, <1>5, <1>6, <1>7, <1>8, <1>9, <1>10 DEF DialInv

LEMMA TryAddressStep ==
  ASSUME DialInv, TryAddress
  PROVE  DialInv'
<1>1. /\ at.pos = 0 /\ UNCHANGED <<job, stream, heard, result>> /\ result = "dialing"
      /\ at' = [at EXCEPT !.pos = 1] /\ addrs # <<>>
      /\ addrs' = Tail(addrs) /\ tried' = Append(tried, Head(addrs))
      /\ ~egress_source_mismatches_target(Head(addrs))
  BY DEF TryAddress, Choosing
<1>2. /\ Links' = Links /\ LinkType' /\ OverQuic' = OverQuic /\ Written' = Written
      /\ \A h : Script(h)' = Script(h)
  BY <1>1, SameScripts DEF DialInv, DialType, Written
<1>3. /\ at \in [hop : 0..Len(Links), pos : Nat] /\ at.hop = Len(Links)
      /\ (at.hop = 0 => Links = <<>>)
  BY <1>1 DEF DialInv, DialType
<1>4. PICK s, hop : s = Script(at.hop) /\ hop = at.hop OBVIOUS
<1>5. WellMade(s, Links[hop], hop = Len(Links), Asks, HopWaits(hop))
  BY <1>3, <1>4, ScriptIsWellMade DEF DialInv, DialType
<1>6. s \in Seq(Steps) /\ Len(s) >= 1 /\ s[1] \notin Answers BY <1>5 DEF WellMade
<1>7. at' = [hop |-> hop, pos |-> 1] BY <1>1, <1>3, <1>4
<1>8. Script(at.hop)' = s BY <1>2, <1>4, <1>7
<1>9. DialType'
  <2>1. at' \in [hop : 0..Len(Links'), pos : Nat] /\ (at'.hop = 0 => Links' = <<>>) /\ at'.pos # 0
    BY <1>2, <1>3, <1>4, <1>7
  <2>2. at'.pos <= Len(Script(at.hop)') BY <1>6, <1>7, <1>8
  <2> QED BY <1>1, <1>2, <2>1, <2>2 DEF DialInv, DialType, stream
<1>10. NoStreamInv' BY <1>1, <1>7 DEF NoStreamInv, Dialed
<1>11. StreamInv'
  <2>1. ~Met(s, 1) /\ ~HasAsked(s, 1) /\ Due(s, 1, 0) /\ Holds(<<>>, s, 1, 0)
    BY <1>6 DEF Met, HasAsked, Due, Holds
  <2>2. far' = -1 /\ out' = <<>> /\ inbound' = <<>> /\ ~closed'
    BY <1>1 DEF DialInv, NoStreamInv, stream
  <2>3. StreamAt(s, 1, hop, TRUE)' BY <2>1, <2>2 DEF StreamAt
  <2>4. Reached' = 1 /\ at'.hop = hop BY <1>1, <1>7 DEF Reached
  <2>5. (at.hop = Len(Links))' = TRUE BY <1>2, <1>3, <1>4, <1>7
  <2> QED BY <1>8, <2>3, <2>4, <2>5 DEF StreamInv, StreamAt
<1>12. HeardInv' BY <1>1, <1>2 DEF DialInv, HeardInv
<1>13. SecretsToTheirOwner' BY <1>1 DEF DialInv, SecretsToTheirOwner
<1>14. WaitInv' BY <1>1 DEF WaitInv
<1>15. AddrInv'
  <2>1. addrs \in Seq(Families) /\ tried \in Seq(Families) BY DEF DialInv, AddrInv
  <2>2. addrs' \in Seq(Families) /\ Head(addrs) \in Families BY <1>1, <2>1
  <2>3. /\ tried' \in Seq(Families) /\ Len(tried') = Len(tried) + 1
        /\ tried'[Len(tried) + 1] = Head(addrs) /\ \A i \in 1..Len(tried) : tried'[i] = tried[i]
    BY <1>1, <2>1, <2>2, AppendProperties
  <2>4. ASSUME NEW i \in DOMAIN tried' PROVE job'.source \in {"any", tried'[i]}
    <3>1. i \in 1..Len(tried) \/ i = Len(tried) + 1 BY <2>1, <2>3
    <3>2. job.source \in {"any", Head(addrs)} BY <1>1 DEF egress_source_mismatches_target
    <3>3. \A j \in 1..Len(tried) : job.source \in {"any", tried[j]} BY <2>1 DEF DialInv, AddrInv
    <3> QED BY <1>1, <2>3, <3>1, <3>2, <3>3
  <2> QED BY <1>1, <2>2, <2>3, <2>4 DEF AddrInv
<1> QED BY <1>9, <1>10, <1>11, <1>12, <1>13, <1>14, <1>15 DEF DialInv

LEMMA GivingUp ==
  ASSUME DialInv, StepFails \/ SetupTimesOut
  PROVE  DialInv'
<1>1. /\ UNCHANGED <<job, addrs, tried, heard>> /\ result = "dialing"
      /\ far' = -1 /\ out' = <<>> /\ inbound' = <<>> /\ closed' = FALSE
      /\ \/ at' = [hop |-> Len(Links), pos |-> 0] /\ result' = "dialing"
         \/ at' = at /\ result' \in {"failed", "timed_out"}
  BY DEF StepFails, SetupTimesOut, NoStream, Working
<1>2. /\ Links' = Links /\ LinkType' /\ OverQuic' = OverQuic /\ Written' = Written
      /\ \A h : Script(h)' = Script(h)
  BY <1>1, SameScripts DEF DialInv, DialType, Written
<1>3. /\ at \in [hop : 0..Len(Links), pos : Nat] /\ (at.hop = 0 => Links = <<>>)
      /\ Links \in Seq(LinkKinds) /\ Len(Links) \in Nat /\ (at.pos = 0 => at.hop = Len(Links))
  BY DEF DialInv, DialType, LinkType
<1>4. /\ out' \in Seq(Written) /\ far' \in Int /\ closed' \in BOOLEAN
      /\ inbound' \in Seq(Answers \cup {"bad", "data"})
  <2>1. <<>> \in Seq(Written) /\ <<>> \in Seq(Answers \cup {"bad", "data"}) BY EmptySeq
  <2>2. out' \in Seq(Written) /\ inbound' \in Seq(Answers \cup {"bad", "data"}) BY <1>1, <2>1
  <2>3. far' \in Int BY <1>1
  <2>4. closed' \in BOOLEAN BY <1>1
  <2> QED BY <2>2, <2>3, <2>4
<1>5. DialType'
  <2>1. CASE at' = [hop |-> Len(Links), pos |-> 0] /\ result' = "dialing"
    <3>1. at' \in [hop : 0..Len(Links'), pos : Nat] /\ (at'.hop = 0 => Links' = <<>>)
          /\ at'.pos = 0 /\ at'.hop = Len(Links')
      BY <1>2, <1>3, <2>1
    <3>2. LinkType /\ at'.hop = Len(Links) BY <2>1 DEF DialInv, DialType
    <3>3. Script(Len(Links)) \in Seq(Steps) BY <1>3, <3>2, ScriptIsWellMade DEF WellMade
    <3>4. at'.pos <= Len(Script(at.hop)') BY <1>2, <3>1, <3>2, <3>3
    <3> QED BY <1>2, <1>4, <2>1, <3>1, <3>4 DEF DialType
  <2>2. CASE at' = at /\ result' \in {"failed", "timed_out"}
    BY <1>2, <1>3, <1>4, <2>2 DEF DialType
  <2> QED BY <1>1, <2>1, <2>2
<1>6. NoStreamInv' BY <1>1 DEF NoStreamInv
<1>7. StreamInv' BY <1>1 DEF StreamInv, Dialed
<1>8. HeardInv'
  <2>1. CASE at' = at /\ result' \in {"failed", "timed_out"}
    BY <1>1, <1>2, <2>1 DEF DialInv, HeardInv
  <2>2. CASE at' = [hop |-> Len(Links), pos |-> 0] /\ result' = "dialing" /\ StepFails
    <3>1. SUFFICES ASSUME ~OverQuic PROVE heard = {}
      BY <1>1, <1>2 DEF HeardInv
    <3>2. Step = "connect" /\ Working BY <2>2, <3>1 DEF StepFails, FallsThrough, Working
    <3>3. /\ at.pos \in 1..Len(Script(at.hop)) 
          /\ WellMade(Script(at.hop), Links[at.hop], at.hop = Len(Links), Asks, HopWaits(at.hop))
      BY <3>2, AtWork DEF DialInv
    <3>4. at.hop = Len(Links) /\ ~Met(Script(at.hop), at.pos)
      BY <3>2, <3>3 DEF WellMade, Step
    <3> QED BY <1>1, <1>3, <3>1, <3>4 DEF DialInv, HeardInv
  <2>3. CASE SetupTimesOut
    <3>1. at' = at /\ result' = "timed_out" BY <2>3 DEF SetupTimesOut
    <3> QED BY <2>1, <3>1
  <2> QED BY <1>1, <2>1, <2>2, <2>3
<1>9. SecretsToTheirOwner' BY <1>1 DEF DialInv, SecretsToTheirOwner
<1>10. WaitInv' BY <1>1 DEF WaitInv
<1>11. AddrInv' BY <1>1 DEF DialInv, AddrInv
<1> QED BY <1>5, <1>6, <1>7, <1>8, <1>9, <1>10, <1>11 DEF DialInv

(* The steps of the scripts.                                                *)
LEMMA ScriptSteps ==
  ASSUME DialInv, SetUpStep \/ WriteStep \/ ReadStep
  PROVE  DialInv'
<1>1. /\ Working /\ Advance /\ UNCHANGED <<job, addrs, tried, heard, closed>>
      /\ Step \in SetUps \cup Words \cup Answers
  BY DEF SetUpStep, WriteStep, ReadStep, SetUps
<1>2. PICK s, p, hop, d : /\ s = Script(at.hop) /\ p = at.pos /\ hop = at.hop
                          /\ d = (at.hop = Len(Links))
  OBVIOUS
<1>3. /\ out \in Seq(Written) /\ far \in Int /\ closed \in BOOLEAN /\ at.hop \in Int
      /\ inbound \in Seq(Answers \cup {"bad", "data"}) /\ closed' = closed
  BY <1>1 DEF DialInv, DialType
<1>4. s[p] # "refuse" BY <1>1, <1>2 DEF Step, SetUps, Words, Answers
<1>5. /\ StreamAt(s, p + 1, hop, d)' /\ out' \in Seq(Written) /\ far' \in Int
      /\ inbound' \in Seq(Answers \cup {"bad", "data"})
      /\ s[p] \in Answers => ~closed' /\ out' = <<>>
  <2>1. CASE SetUpStep
    <3>1. StreamAt(s, p + 1, hop, d)' BY <1>2, <2>1, SetUpStream DEF DialInv
    <3>2. out' = out /\ inbound' = inbound /\ far' \in Int /\ s[p] \notin Answers
      BY <1>2, <1>3, <2>1 DEF SetUpStep, Step, Answers
    <3> QED BY <1>3, <3>1, <3>2
  <2>2. CASE WriteStep
    <3>1. StreamAt(s, p + 1, hop, d)' /\ out' \in Seq(Written)
      BY <1>2, <2>2, WriteStream DEF DialInv
    <3>2. far' = far /\ inbound' = inbound /\ s[p] \notin Answers
      BY <1>2, <2>2 DEF WriteStep, Step, Words, Answers
    <3> QED BY <1>3, <3>1, <3>2
  <2>3. CASE ReadStep
    <3>1. StreamAt(s, p + 1, hop, d)' /\ ~closed /\ out = <<>>
      BY <1>2, <2>3, ReadStream DEF DialInv
    <3>2. out' = out /\ far' = far /\ inbound # <<>> /\ inbound' = Tail(inbound)
      BY <2>3 DEF ReadStep
    <3>3. inbound' \in Seq(Answers \cup {"bad", "data"}) BY <1>3, <3>2
    <3> QED BY <1>3, <3>1, <3>2, <3>3
  <2> QED BY <2>1, <2>2, <2>3
<1>6. DialType' /\ NoStreamInv' /\ StreamInv' /\ HeardInv' /\ WaitInv'
  BY <1>1, <1>2, <1>3, <1>4, <1>5, AdvanceInv DEF DialInv
<1>7. SecretsToTheirOwner' BY <1>1 DEF DialInv, SecretsToTheirOwner
<1>8. AddrInv'
  <2>1. result' # "no_usable" BY <1>1 DEF Advance, Working
  <2> QED BY <1>1, <2>1 DEF DialInv, AddrInv
<1> QED BY <1>6, <1>7, <1>8 DEF DialInv

(* The steps of the far end.                                                *)
LEMMA FarEndSteps ==
  ASSUME DialInv, ProxyObeys \/ ProxyRefuses \/ TargetSpeaks
  PROVE  DialInv'
<1>1. UNCHANGED <<job, addrs, tried, at, result>> BY DEF ProxyObeys, ProxyRefuses, TargetSpeaks
<1>2. /\ Links' = Links /\ LinkType' /\ OverQuic' = OverQuic /\ Written' = Written
      /\ \A h : Script(h)' = Script(h) /\ HopWaits(h)' = HopWaits(h)
  BY <1>1, SameScripts DEF DialInv, DialType, Written
<1>3. at.pos > 0 /\ Dialed
  <2>1. out # <<>> \/ far = 0 BY DEF ProxyObeys, ProxyRefuses, TargetSpeaks
  <2>2. at.pos \in Nat BY DEF DialInv, DialType
  <2> QED BY <2>1, <2>2 DEF DialInv, NoStreamInv
<1>4. PICK s, p, hop, d : /\ s = Script(at.hop) /\ p = Reached /\ hop = at.hop
                          /\ d = (at.hop = Len(Links))
  OBVIOUS
<1>5. /\ s \in Seq(Steps) /\ p \in Nat /\ hop \in Int /\ d \in BOOLEAN
  <2>1. /\ at \in [hop : 0..Len(Links), pos : Nat] /\ (at.hop = 0 => Links = <<>>) /\ LinkType
    BY DEF DialInv, DialType
  <2>2. s \in Seq(Steps) BY <1>4, <2>1, ScriptIsWellMade DEF WellMade
  <2> QED BY <1>4, <2>1, <2>2 DEF Reached
<1>6. StreamAt(s, p, hop, d) BY <1>3, <1>4 DEF DialInv, StreamInv
<1>7. /\ StreamAt(s, p, hop, d)' /\ out' \in Seq(Written) /\ far' \in Int
      /\ closed' \in BOOLEAN /\ inbound' \in Seq(Answers \cup {"bad", "data"})
      /\ \/ heard' = heard /\ out' = out /\ far' = far
         \/ /\ heard' = heard \cup {[place |-> far, hop |-> far]}
            /\ d => Met(s, p)
            /\ out # <<>>
  <2>1. /\ out \in Seq(Written) /\ far \in Int /\ closed \in BOOLEAN
        /\ inbound \in Seq(Answers \cup {"bad", "data"}) /\ DialType
    BY DEF DialInv, DialType
  <2>2. CASE ProxyObeys
    <3>1. /\ StreamAt(s, p, hop, d)' /\ far = Head(out).hop /\ (d => Met(s, p))
          /\ out' \in Seq(Written) /\ far' \in Int
          /\ inbound' \in Seq(Answers \cup {"bad", "data"})
      BY <1>5, <1>6, <2>1, <2>2, ObeyStream
    <3>2. heard' = heard \cup {[place |-> far, hop |-> Head(out).hop]} /\ closed' = closed
          /\ out # <<>>
      BY <2>2 DEF ProxyObeys, Hears
    <3> QED BY <2>1, <3>1, <3>2
  <2>3. CASE ProxyRefuses
    <3>1. /\ StreamAt(s, p, hop, d)' /\ (~closed => far = Head(out).hop) /\ (d => Met(s, p))
          /\ inbound' \in Seq(Answers \cup {"bad", "data"})
      BY <1>5, <1>6, <2>1, <2>3, RefuseStream
    <3>2. heard' = heard \cup {[place |-> far, hop |-> Head(out).hop]} /\ closed' = TRUE
          /\ out # <<>> /\ ~closed /\ out' = <<>> /\ far' = far
      BY <2>3 DEF ProxyRefuses, Hears
    <3>3. out' \in Seq(Written) BY <3>2, EmptySeq
    <3> QED BY <2>1, <3>1, <3>2, <3>3
  <2>4. CASE TargetSpeaks
    <3>1. StreamAt(s, p, hop, d)' /\ inbound' \in Seq(Answers \cup {"bad", "data"})
      BY <1>5, <1>6, <2>1, <2>4, SpeakStream
    <3> QED BY <2>1, <2>4, <3>1 DEF TargetSpeaks
  <2> QED BY <2>2, <2>3, <2>4
<1>8. DialType' BY <1>1, <1>2, <1>7 DEF DialInv, DialType
<1>9. NoStreamInv' BY <1>1, <1>3 DEF NoStreamInv, Dialed
<1>10. StreamInv'
  <2>1. Script(at.hop)' = s /\ Reached' = p /\ at'.hop = hop
    BY <1>1, <1>2, <1>4 DEF Reached
  <2>2. (at.hop = Len(Links))' = d BY <1>1, <1>2, <1>4
  <2> QED BY <1>7, <2>1, <2>2 DEF StreamInv, StreamAt
<1>11. HeardInv'
  <2>1. CASE heard' = heard
    <3>1. Met(Script(at.hop), at.pos)' <=> Met(Script(at.hop), at.pos) BY <1>1, <1>2 DEF Met
    <3> QED BY <1>1, <1>2, <2>1, <3>1 DEF DialInv, HeardInv
  <2>2. CASE d => Met(s, p)
    <3>1. result = "dialing" => at.hop < Len(Links) \/ Met(Script(at.hop), at.pos)
      <4>1. result = "dialing" => p = at.pos BY <1>4 DEF Reached
      <4>2. ~d => at.hop < Len(Links)
        <5>1. at \in [hop : 0..Len(Links), pos : Nat] /\ Links \in Seq(LinkKinds)
          BY DEF DialInv, DialType, LinkType
        <5>2. ~d => at.hop # Len(Links) BY <1>4
        <5>3. at.hop # Len(Links) => at.hop < Len(Links) BY <5>1
        <5> QED BY <5>2, <5>3
      <4> QED BY <1>4, <2>2, <4>1, <4>2
    <3>2. Met(Script(at.hop), at.pos)' <=> Met(Script(at.hop), at.pos) BY <1>1, <1>2 DEF Met
    <3> QED BY <1>1, <1>2, <1>3, <3>1, <3>2 DEF HeardInv
  <2> QED BY <1>7, <2>1, <2>2
<1>12. SecretsToTheirOwner'
  <2>1. \A h \in heard : h.place = h.hop BY DEF DialInv, SecretsToTheirOwner
  <2> QED BY <1>7, <2>1 DEF SecretsToTheirOwner
<1>13. WaitInv' BY <1>1, <1>2, <1>7 DEF DialInv, WaitInv
<1>14. AddrInv' BY <1>1 DEF DialInv, AddrInv
<1> QED BY <1>8, <1>9, <1>10, <1>11, <1>12, <1>13, <1>14 DEF DialInv

LEMMA DialStep == DialInv /\ DialNext => DialInv'
BY ChoosingSteps, TryAddressStep, ScriptSteps, GivingUp, FarEndSteps DEF DialNext

LEMMA DialStutter == DialInv /\ UNCHANGED dial_vars => DialInv'
<1> SUFFICES ASSUME DialInv, UNCHANGED dial_vars PROVE DialInv'
  OBVIOUS
<1>1. UNCHANGED <<job, addrs, tried, at, far, out, inbound, closed, heard, result>>
  BY DEF dial_vars
<1>2. /\ Links' = Links /\ LinkType' /\ OverQuic' = OverQuic /\ Written' = Written
      /\ \A h : Script(h)' = Script(h) /\ HopWaits(h)' = HopWaits(h)
      /\ \A w : AnswersTo(w)' = AnswersTo(w)
  BY <1>1, SameScripts DEF DialInv, DialType, Written
<1>3. DialType' BY <1>1, <1>2 DEF DialInv, DialType
<1>4. NoStreamInv' BY <1>1 DEF DialInv, NoStreamInv, Dialed
<1>5. StreamInv'
  <2>1. SUFFICES ASSUME at.pos > 0 /\ Dialed
                 PROVE  StreamAt(Script(at.hop), Reached, at.hop, at.hop = Len(Links))'
    BY <1>1 DEF StreamInv, Dialed
  <2>2. PICK s, p, hop, d : /\ s = Script(at.hop) /\ p = Reached /\ hop = at.hop
                            /\ d = (at.hop = Len(Links))
    OBVIOUS
  <2>3. StreamAt(s, p, hop, d) BY <2>1, <2>2 DEF DialInv, StreamInv
  <2>4. StreamAt(s, p, hop, d)' BY <1>1, <1>2, <2>3 DEF StreamAt, LeadsTo
  <2>5. Script(at.hop)' = s /\ Reached' = p /\ at'.hop = hop BY <1>1, <1>2, <2>2 DEF Reached
  <2>6. (at.hop = Len(Links))' = d BY <1>1, <1>2, <2>2
  <2> QED BY <2>4, <2>5, <2>6 DEF StreamAt
<1>6. HeardInv'
  <2>1. Met(Script(at.hop), at.pos)' <=> Met(Script(at.hop), at.pos) BY <1>1, <1>2 DEF Met
  <2> QED BY <1>1, <1>2, <2>1 DEF DialInv, HeardInv
<1>7. SecretsToTheirOwner' /\ WaitInv' /\ AddrInv'
  BY <1>1, <1>2 DEF DialInv, SecretsToTheirOwner, WaitInv, AddrInv
<1> QED BY <1>3, <1>4, <1>5, <1>6, <1>7 DEF DialInv

LEMMA DialStarts == DialInit => DialInv
<1> SUFFICES ASSUME DialInit PROVE DialInv
  OBVIOUS
<1>1. /\ job \in [links : Chains, purpose : {"tcp", "udp"}, source : Families \cup {"any"}]
      /\ tried = <<>> /\ heard = {} /\ result = "dialing"
      /\ at = [hop |-> Len(Links), pos |-> 0]
      /\ far = -1 /\ out = <<>> /\ inbound = <<>> /\ closed = FALSE
  BY DEF DialInit
<1>2. LinkType /\ Len(Links) \in Nat
  <2>1. Links \in Seq(LinkKinds) BY <1>1, DialAssumption DEF Links
  <2> QED BY <1>1, <2>1 DEF DialInit, LinkType
<1>3. Links \in Seq(LinkKinds) /\ (Len(Links) = 0 => Links = <<>>) BY <1>2 DEF LinkType
<1>4. at.pos <= Len(Script(at.hop))
  <2>1. Len(Links) \in 0..Len(Links) BY <1>2
  <2>2. Script(Len(Links)) \in Seq(Steps)
    BY <1>2, <1>3, <2>1, ScriptIsWellMade DEF WellMade
  <2> QED BY <1>1, <2>2
<1>5. <<>> \in Seq(Written) /\ <<>> \in Seq(Answers \cup {"bad", "data"}) /\ <<>> \in Seq(Families)
  BY EmptySeq
<1>6. at \in [hop : 0..Len(Links), pos : Nat] /\ at.pos = 0 /\ at.hop = Len(Links) BY <1>1, <1>2
<1>7. DialType
  <2>1. far \in Int BY <1>1
  <2>2. closed \in BOOLEAN BY <1>1
  <2>3. out \in Seq(Written) /\ inbound \in Seq(Answers \cup {"bad", "data"}) BY <1>1, <1>5
  <2>4. result # "connected" BY <1>1
  <2> QED BY <1>2, <1>3, <1>4, <1>6, <2>1, <2>2, <2>3, <2>4 DEF DialType
<1>8. NoStreamInv BY <1>1 DEF NoStreamInv
<1>9. StreamInv BY <1>6 DEF StreamInv
<1>10. HeardInv /\ SecretsToTheirOwner /\ WaitInv
  BY <1>1 DEF HeardInv, SecretsToTheirOwner, WaitInv
<1>11. AddrInv
  <2>1. PICK n \in 0..MaxAddresses : addrs \in [1..n -> Families] BY DEF DialInit
  <2>2. n \in Nat BY DialAssumption
  <2>3. addrs \in Seq(Families) BY <2>1, <2>2
  <2> QED BY <1>1, <1>5, <2>3 DEF AddrInv
<1> QED BY <1>7, <1>8, <1>9, <1>10, <1>11 DEF DialInv

(* What the invariant says of a dial that has succeeded, and of the order of *)
(* the addresses.                                                            *)
LEMMA DialConnects == DialInv => ConnectedMeansThere
<1> SUFFICES ASSUME DialInv, result = "connected"
             PROVE  /\ ~closed => LeadsTo(IF job.purpose = "udp" /\ Links[1] \in {"tuic", "hysteria2"}
                                          THEN 1 ELSE 0)
                    /\ Range(inbound) \cap Answers = {}
                    /\ job.purpose = "tcp" /\ Links # <<>>
                         /\ Links[1] \in {"http", "https", "socks5", "socks5_login", "hysteria2"}
                         => far = 0
  BY DEF ConnectedMeansThere
<1>1. /\ at \in [hop : 0..Len(Links), pos : Nat] /\ (at.hop = 0 => Links = <<>>) /\ LinkType
      /\ at.pos = Len(Script(at.hop)) /\ at.hop <= 1 /\ Script(at.hop)[at.pos] # "refuse"
      /\ at.pos # 0 /\ inbound \in Seq(Answers \cup {"bad", "data"}) /\ closed \in BOOLEAN
  BY DEF DialInv, DialType
<1>2. PICK s, p, hop, d : /\ s = Script(at.hop) /\ p = at.pos /\ hop = at.hop
                          /\ d = (at.hop = Len(Links))
  OBVIOUS
<1>3. WellMade(s, Links[hop], d, Asks, HopWaits(hop)) BY <1>1, <1>2, ScriptIsWellMade
<1>4. StreamAt(s, p + 1, hop, d)
  BY <1>1, <1>2 DEF DialInv, StreamInv, Dialed, Reached
<1>5. p = Len(s) /\ s[Len(s)] # "refuse" /\ s \in Seq(Steps) /\ p \in Nat
  BY <1>1, <1>2, <1>3 DEF WellMade
<1>6. (d => Met(s, p + 1)) /\ (Asks <=> HasAsked(s, p + 1)) BY <1>3, <1>5 DEF WellMade
<1>7. hop \in {0, 1} /\ d \in BOOLEAN BY <1>1, <1>2
<1>8. ASSUME ~closed
      PROVE  LeadsTo(IF job.purpose = "udp" /\ Links[1] \in {"tuic", "hysteria2"} THEN 1 ELSE 0)
  <2>1. LeadsTo(EndAt(s, p + 1, hop)) BY <1>4, <1>6, <1>8 DEF StreamAt
  <2>2. EndAt(s, p + 1, hop)
          = IF job.purpose = "udp" /\ Links[1] \in {"tuic", "hysteria2"} THEN 1 ELSE 0
    <3>1. CASE Links = <<>>
      <4>1. hop = 0 BY <1>1, <1>2, <3>1
      <4>2. ~Asks BY <3>1 DEF Asks
      <4>3. job.purpose # "udp" BY <1>1, <3>1 DEF LinkType, Single
      <4> QED BY <1>6, <4>1, <4>2, <4>3 DEF EndAt
    <3>2. CASE Links # <<>>
      <4>1. hop = 1 BY <1>1, <1>2, <1>7, <3>2
      <4>2. Asks <=> ~(job.purpose = "udp" /\ Links[1] \in {"tuic", "hysteria2"})
        BY <3>2 DEF Asks
      <4> QED BY <1>6, <4>1, <4>2 DEF EndAt
    <3> QED BY <3>1, <3>2
  <2> QED BY <2>1, <2>2
<1>9. Range(inbound) \cap Answers = {}
  <2>1. ASSUME NEW i \in 1..Len(inbound) PROVE inbound[i] \notin Answers
    <3>1. CASE closed BY <1>4, <2>1, <3>1 DEF StreamAt, Answers
    <3>2. CASE ~closed
      <4>1. CASE out # <<>> BY <1>4, <2>1, <3>2, <4>1 DEF StreamAt
      <4>2. CASE out = <<>>
        <5>1. PICK n \in 0..Len(inbound) :
                /\ Due(s, p + 1, n)
                /\ \/ Len(inbound) = n
                   \/ Len(inbound) = n + 1 /\ inbound[n + 1] = "data"
          BY <1>4, <3>2, <4>2 DEF StreamAt
        <5>2. n = 0 BY <1>1, <1>5, <5>1 DEF Due
        <5> QED BY <1>1, <2>1, <5>1, <5>2 DEF Answers
      <4> QED BY <4>1, <4>2
    <3> QED BY <3>1, <3>2
  <2>2. DOMAIN inbound = 1..Len(inbound) BY <1>1
  <2> QED BY <2>1, <2>2 DEF Range
<1>10. job.purpose = "tcp" /\ Links # <<>>
         /\ Links[1] \in {"http", "https", "socks5", "socks5_login", "hysteria2"} => far = 0
  BY DEF DialInv, WaitInv, HopWaits, Waiters
<1> QED BY <1>8, <1>9, <1>10

LEMMA DialInOrder == DialInv => AddressesInOrder
BY DEF DialInv, AddressesInOrder, AddrInv, HeardInv

=============================================================================
