----------------------------- MODULE MCProgram -----------------------------
(* Instance of Program: families of cases, each varying one concern.       *)
EXTENDS Program

Texts(chars, n) == UNION {[1..k -> chars] : k \in 0..n}

Args(outputs, level, path, max_size, max_backups) ==
  [outputs |-> outputs, level |-> level, path |-> path, format |-> "raw", max_size |-> max_size,
   max_backups |-> max_backups]
Console == Args(<<>>, "warn", FALSE, 0, 0)
Case(role, raw, env, log) ==
  [role |-> role, json |-> "object", raw |-> raw, env |-> env, log |-> log, logs |-> FALSE]

NoEnv == [type |-> NONE, server |-> NONE, port |-> NONE, username |-> NONE, password |-> NONE]
ServerRaw ==
  [users |-> {"u"}, fwmark |-> <<>>, send_through |-> "", dialer_link |-> <<>>, outbound |-> NONE,
   congestion_control |-> "", certificate |-> "cert", private_key |-> "key", listen |-> "a"]
ClientRaw ==
  [uuid |-> "u", pin |-> "", forward |-> <<>>, targets |-> <<>>, sni |-> "", server_host |-> "s",
   allow_insecure |-> FALSE, congestion_control |-> "cubic", listen |-> ""]

ServerCases(raws) == {Case("server", raw, NoEnv, Console) : raw \in raws}

Marks ==
  ServerCases({[ServerRaw EXCEPT !.fwmark = t] :
                 t \in Texts({"0", "1", "f", "x", "_"}, 4) \cup Texts({"0", "7", "9", "b", "o", "1"}, 3)})

Files ==
  ServerCases([users : {{"u"}, {"u", "bad"}, {}}, fwmark : {<<>>}, send_through : {"", "ip", "bad"},
               dialer_link : {<<>>}, outbound : {NONE}, congestion_control : {"bbr"},
               certificate : {"cert", "bad"}, private_key : {"key", "absent"}, listen : {"a", "", "bad"}])
  \cup {[Case(role, raw, NoEnv, Console) EXCEPT !.json = j] :
          <<role, raw, j>> \in {<<"server", ServerRaw, "array">>, <<"client", ClientRaw, "absent">>}}

Names == {<<>>, <<":">>, <<"%", "3">>, <<"-", ">">>, <<"%", "2", "5">>}
Outbounds ==
  [type : {""}, version : {""}, server : {"", "h1", "v6"}, port : {NONE, 1080},
   username : Names, password : Names]
    \cup [type : {"", "5", "http"}, version : {"", "5", "4"}, server : {"h1", "bad"}, port : {0, 1080},
          username : {<<>>}, password : {<<>>, <<"a", "a", "a", "a">>}]
Envs ==
  {NoEnv, [NoEnv EXCEPT !.server = EMPTY]}
    \cup [type : {NONE, "socks5", "http"}, server : {NONE, "h2"}, port : {NONE, 0, 2080, 70000},
          username : {NONE, <<"e">>}, password : {EMPTY, <<"e">>}]

Egress ==
  {Case("server", [ServerRaw EXCEPT !.outbound = o], NoEnv, Console) : o \in Outbounds \cup {NONE}}
    \cup {Case("server", [ServerRaw EXCEPT !.outbound = o], e, Console) :
            o \in {NONE} \cup [type : {"", "5"}, version : {""}, server : {"", "h1"}, port : {NONE, 1080},
                             username : {<<>>, <<":">>}, password : {<<>>, <<":">>}],
            e \in Envs}

Url(scheme, userinfo, host, port, query) ==
  [scheme |-> scheme, userinfo |-> userinfo, host |-> host, port |-> port, query |-> query,
   id |-> "uuid", payload |-> "json", fields |-> <<>>]
Credentials == <<"u", ":", "p">>
Insecure == {<<>>, "allowInsecure" :> "1", "skipVerify" :> "false", "allow_insecure" :> "true" @@ "sni" :> "n"}
Urls ==
  {Url(s, Credentials, "h", 443, q) : s \in {"https", "juicity", "tuic", "trojan", "socks5", "ss"}, q \in Insecure}
  \cup {Url(s, Credentials, h, p, <<>>) : s \in {"http", "socks5", "hy2", "vless"}, h \in {"", "[v6]"}, p \in {NONE, 1}}
  \cup {Url("hysteria2", Credentials, "h", 1, q) :
          q \in {"insecure" :> "1", "insecure" :> "yes", "maxTx" :> "bad", "sni" :> "n"}}
  \cup {Url("tuic", Credentials, "h", 1, "disable_sni" :> "1"),
        Url("juicity", Credentials, "h", 1, "pinned_certchain_sha256" :> "bad"),
        Url("trojan", Credentials, "h", 1, "type" :> "ws"),
        Url("vless", Credentials, "h", 1, "security" :> "tls"),
        Url("vmess", <<>>, "h", 1, "net" :> "ws"), Url("vmess", <<>>, "h", 1, "net" :> "tcp"),
        Url("ftp", <<>>, "h", 1, <<>>), Url("ss", <<"u">>, "h", 1, "plugin" :> "x"),
        Url("socks5", <<"u">>, "h", 1, <<>>), Url("socks5", <<"%", "u", ":", "p">>, "h", 1, <<>>),
        Url("socks", <<"-", ">", ":", "p">>, "h", 1, <<>>)}
  \cup {[Url("vmess", <<>>, "h", 1, q) EXCEPT !.payload = "raw", !.id = id] :
          q \in {<<>>, "tls" :> "1", "obfs" :> "ws"}, id \in {"uuid", "name", "bad"}}
  \cup {[Url("ssr", <<>>, "h", 443, <<>>) EXCEPT !.fields = f] :
          f \in {<<"h", "443", "origin", "c", "plain", "p">>, <<"h", "443", "auth", "c", "plain", "p">>,
                 <<"h", "x", "origin", "c", "plain", "p">>, <<"h", "443">>}}
  \cup {[Url("ssr", <<>>, "[v6]", 443, <<>>) EXCEPT
           !.fields = <<"2001", "db8", "", "1", "443", "origin", "c", "plain", "p">>]}

GeneratedLink == [scheme |-> "socks5", host |-> "h1", port |-> 1080, query |-> <<>>, userinfo |-> <<>>]
Links ==
  ServerCases({[ServerRaw EXCEPT !.dialer_link = <<u>>] : u \in Urls}
    \cup {[ServerRaw EXCEPT !.dialer_link = <<u, v>>] : u \in Urls, v \in {CHOOSE x \in Urls : x.scheme = "tuic"}}
    \cup {[ServerRaw EXCEPT !.dialer_link = <<GeneratedLink>>,
             !.outbound = [EmptyOutbound EXCEPT !.server = h, !.port = 1080]] : h \in {"h1", "h2"}})

Listens == {<<":", "p">>, <<"h", ":", "p">>, <<"[", "h", ":", "]", ":", "p">>, <<"[", "h", ":", "p">>, <<"h">>, <<"h", ":">>,
            <<"[", "h", "]", "p">>, <<"h", ":", "h">>}

Rules == {<<"a">>, <<"a", "tcp">>, <<"b", "udp">>, <<"b", "x">>, <<"bad", "udp">>}
Client ==
  {Case("client", raw, NoEnv, Console) :
     raw \in {[ClientRaw EXCEPT !.listen = l, !.forward = f, !.targets = [i \in DOMAIN f |-> t]] :
                l \in {"", "a", "any", "bad"}, f \in UNION {[1..n -> Rules] : n \in 0..2}, t \in {<<"h", ":", "p">>, <<"h">>}}
             \cup {[ClientRaw EXCEPT !.forward = <<r>>, !.targets = <<t>>] :
                     r \in {<<"a", "tcp">>, <<"b", "udp">>}, t \in Listens \cup {<<"1", ":", "p">>, <<"h", ":", "h", ":", "p">>}}
             \cup {[ClientRaw EXCEPT !.listen = "a", !.uuid = u, !.pin = p, !.allow_insecure = i] :
                     u \in {"u", "bad"}, p \in {"", "hash", "bad"}, i \in BOOLEAN}}

Logging ==
  {[Case("client", [ClientRaw EXCEPT !.forward = <<<<"b", "udp">>>>, !.targets = <<<<"h", ":", "p">>>>], NoEnv, log)
      EXCEPT !.logs = TRUE] :
     log \in {Args(<<"console", "", "file", "console">>, "info", TRUE, 3, 1),
              Args(<<"file", "console">>, "info", TRUE, 3, 0), Args(<<"file">>, "warn", FALSE, 0, 0),
              Args(<<"console">>, "", FALSE, 0, 0), Args(<<"console">>, "loud", FALSE, 0, 0),
              Args(<<"syslog">>, "warn", FALSE, 0, 0), [Console EXCEPT !.format = "bad"]}}

A1 == [name |-> [labels |-> 0, pointer |-> TRUE], type |-> 1, data |-> <<10, 0, 192, 1>>]
Alias == [name |-> [labels |-> 2, pointer |-> FALSE], type |-> 5, data |-> <<3, 0, 1, 0>>]
Short == [A1 EXCEPT !.name.labels = 1, !.data = <<10, 0>>]
MessageSet ==
  {[id |-> i, names |-> n, records |-> r] :
     <<i, n>> \in {<<7, <<[labels |-> 1, pointer |-> FALSE]>>>>, <<7, <<>>>>, <<8, <<>>>>},
     r \in {<<>>, <<A1>>, <<Alias, A1>>, <<Short, A1, Alias>>, <<Alias>>}}
Share(message, cut, listen, password, common_name) ==
  [message |-> message, answer |-> cut, listen |-> listen, password |-> password, common_name |-> common_name]
OneMessage == [id |-> 7, names |-> <<>>, records |-> <<A1>>]
ShareCase(raw, share) == Case("sharelink", raw, share, Console)
ShareLinks ==
  {ShareCase(ServerRaw, Share(m, SubSeq(Packet(m), 1, n), <<":", "p">>, <<"a">>, "cn")) :
     <<m, n>> \in UNION {{m} \X (0..Len(Packet(m))) : m \in MessageSet}}
  \cup {ShareCase(ServerRaw, Share(OneMessage, a, l, p, cn)) :
          a \in {NONE, Packet(OneMessage)}, l \in Listens, p \in Names, cn \in {"", "cn"}}
  \cup {ShareCase(raw, Share(OneMessage, Packet(OneMessage), <<":", "p">>, <<"a">>, "cn")) :
          raw \in {[ServerRaw EXCEPT !.users = {}], [ServerRaw EXCEPT !.users = {"u", "bad"}],
                   [ServerRaw EXCEPT !.certificate = "absent"]}}

MCCases == Marks \cup Files \cup Egress \cup Links \cup Client \cup Logging \cup ShareLinks
=============================================================================
