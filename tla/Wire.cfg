SPECIFICATION WireSpec
CONSTANTS
    Links = {"juicity", "tuic_connect", "trojan", "socks5", "socks5_app", "tuic", "hysteria2",
             "vless", "vless_request", "vmess", "vmess_request"}
    Byte = 8
    Ip4 = 1
    Ip6 = 2
    Tag = 2
    MaxPacket = 20
    MaxAddress = 9
    Messages <- SmallMessages
    MaxSent = 2
    Apps <- AllApps
    HeadMax = 5
    Datagrams <- SomeDatagrams
    MaxAnswers = 3
    NOBODY = NOBODY
    Peers <- AllPeers
    Window = 2
    FullWindow = 9
    UniMax = 3
    Senders = {c1, c2}
    Dests = {d1}
    Sources = {d1, d2}
    MaxGso = 2
    MaxBatch = 3
    PlainBatch = 3
    MaxInterrupts = 2
    Slots = 2
    Loads <- SendOrReceive
INVARIANTS
    
    TunnelExact
    
    
    SocketExact
PROPERTY RightPeerServed
CHECK_DEADLOCK FALSE
