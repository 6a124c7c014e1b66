--------------------------- MODULE MCProxyStream ---------------------------
(* Instances of ProxyStream: no proxy, each kind, and chains that           *)
(* put waiting hops before, behind and between optimistic ones.             *)
EXTENDS ProxyStream

MCChains ==
    {<<>>}
    \cup {<<k>> : k \in {"http", "https", "socks5", "socks5_login", "shadowsocks", "shadowsocksr",
                         "trojan", "vmess", "vless", "juicity", "tuic", "hysteria2"}}
    \cup {<<"http", "trojan">>, <<"socks5_login", "vless">>, <<"trojan", "socks5">>,
          <<"https", "http">>, <<"vmess", "shadowsocks">>, <<"vless", "tuic">>,
          <<"http", "vless", "vmess">>, <<"trojan", "https", "shadowsocks">>,
          <<"vless", "vmess", "socks5">>}

AddressLists == {<<"v4">>, <<"v6", "v4">>, <<"v4", "v6">>}
=============================================================================
