------------------------------- MODULE MCWire -------------------------------
(***************************************************************************)
(* The ends of the wire in one instance: a link of Framing, a local        *)
(* application at the client's listener, a connection being authenticated, *)
(* or the UDP socket below.  They share no state; a behaviour is of one of *)
(* them.                                                                   *)
(***************************************************************************)
EXTENDS LocalProxy, Handshake, PlainUdp

Ip(kind, octets) == [kind |-> kind, octets |-> octets]
Name(n) == [kind |-> "domain", octets |-> [i \in 1 .. n |-> 3]]
Of(addr, payload) == [addr |-> addr, port |-> 9, payload |-> payload, network |-> "udp"]

\* Each kind of address, names of no byte, of as many as a byte counts and of
\* one more; payloads of none, one, two, and one more than a u16 counts.
SmallMessages ==
    {Of(Ip("v4", <<1>>), p) : p \in {<<>>, <<7, 0>>, [i \in 1 .. Byte * Byte |-> 1]}}
    \cup {Of(a, <<1>>) : a \in {Ip("v6", <<4, 1>>), Name(0), Name(Byte - 1), Name(Byte), Ip("domain", <<3, 6>>)}}
    \cup {[Of(Ip("v4", <<1>>), <<>>) EXCEPT !.network = "tcp"]}

-----------------------------------------------------------------------------
\* Applications: well-formed requests, each way a request may be wrong, heads
\* of one byte, of the longest length and of one more.
Port9(addr) == [addr |-> addr, port |-> 9]
Here == Ip("v4", <<1>>)
NoLine == [text |-> FALSE, words |-> 0, method |-> "none", http |-> FALSE, target |-> NOBODY]
Line(t) == [text |-> TRUE, words |-> 3, method |-> "CONNECT", http |-> TRUE, target |-> t]
App(mode, says, line, asks) ==
    [mode |-> mode, says |-> says, tail |-> <<7, 5, 1>>, line |-> line, asks |-> asks, ip |-> Here]
HeadOf(n) == [i \in 1 .. n |-> IF i = n THEN Blank ELSE 6]

HttpApps ==
    {App(m, HeadOf(n), Line(Port9(a)), Port9(a)) :
        m \in {"loop", "tcp"}, n \in {1, 3, HeadMax}, a \in {Here, Name(2)}}
    \cup {App("loop", HeadOf(HeadMax + 1), Line(Port9(Here)), NOBODY)}
    \cup {App("loop", HeadOf(3), l, NOBODY) :
            l \in {NoLine, [Line(Port9(Here)) EXCEPT !.words = 4], [Line(Port9(Here)) EXCEPT !.method = "GET"],
                   [Line(Port9(Here)) EXCEPT !.text = FALSE], [Line(Port9(Here)) EXCEPT !.http = FALSE]}}

SocksApps ==
    {App(m, h \o <<5, 1, 0>> \o Metadata(Runtime, Port9(a)), NoLine, Port9(a)) :
        m \in {"loop", "tcp"}, h \in {<<5, 1, 0>>, <<5, 2, 2, 0>>}, a \in {Here, Ip("v6", <<4, 1>>), Name(2)}}
    \cup {App(m, h, NoLine, NOBODY) : m \in {"loop", "tcp", "udp"},
        h \in {<<4, 1>>, <<5, 0>>, <<5, 1, 2>>, <<5, 1, 0, 5, 1, 1, 1>>, <<5, 1, 0, 5, 2, 0, 1>>,
               <<5, 1, 0, 5, 3, 0, 5>>, <<5, 1, 0, 5, 1, 0, 0>>, <<5, 1, 0, 5, 1, 0, 3, 0>>,
               <<5, 1, 0, 5, 1, 0, 3, 1, 6>>}}

Endpoints ==
    {[addr |-> Ip("v4", <<0>>), port |-> 0], [addr |-> Here, port |-> 2],
     [addr |-> Name(1), port |-> 0], [addr |-> Ip("v4", <<2>>), port |-> 0]}

UdpApps ==
    {[App(m, <<5, 1, 0, 5, 3, 0>> \o Metadata(Runtime, e), NoLine, NOBODY) EXCEPT !.tail = t] :
        m \in {"udp", "loop", "tcp"}, t \in {<<>>, <<1>>}, e \in Endpoints}

AllApps == HttpApps \cup SocksApps \cup UdpApps

FromHere(port, target, bad) == [from |-> [ip |-> Here, port |-> port], target |-> target, bad |-> bad]
SomeDatagrams ==
    {FromHere(2, "a", FALSE), FromHere(2, "b", FALSE), FromHere(2, "a", TRUE), FromHere(3, "a", FALSE),
     [FromHere(2, "a", FALSE) EXCEPT !.from.ip = Ip("v4", <<2>>)]}

-----------------------------------------------------------------------------
\* Peers: every combination of settings and certificate; every order of the
\* streams a peer may open first, with a proxy stream of up to two windows.
Trusting == [by |-> "client", pin |-> FALSE, insecure |-> TRUE, roots |-> FALSE]
AnyCert == [chain |-> <<"ca">>, issuer |-> "self", named |-> FALSE]
Plain ==
    [settings |-> Trusting, cert |-> AnyCert, proto |-> "juicity", cred |-> "right", streams |-> <<"auth">>,
     blocks |-> 1, early |-> FALSE, keeps |-> FALSE]

Checking ==
    {[Plain EXCEPT !.settings = s, !.cert = c] :
        s \in [by : {"client", "dae", "dialer"}, pin : BOOLEAN, insecure : BOOLEAN, roots : BOOLEAN],
        c \in [chain : {PinnedChain, <<"ca", "leaf">>, <<"leaf">>}, issuer : {"web", "roots", "self"}, named : BOOLEAN]}

Orders ==
    {<<"auth">>, <<"packet", "auth">>, <<"big", "auth">>, <<"auth", "packet">>, <<"packet", "big", "auth">>,
     <<"short", "auth">>, <<"odd">>, <<"cut">>, <<"packet">>}

Talking ==
    {[Plain EXCEPT !.proto = p, !.cred = c, !.streams = o, !.blocks = b, !.early = e, !.keeps = k] :
        p \in {"juicity", "tuic"}, c \in {"right", "token", "uuid"}, o \in Orders, b \in {0, 1, 2, 4},
        e \in BOOLEAN, k \in BOOLEAN}

AllPeers == Checking \cup Talking

-----------------------------------------------------------------------------
NoLink ==
    /\ link = CHOOSE l \in Links : TRUE
    /\ hdr = [phase |-> "ready", bytes |-> <<>>, remaining |-> 0, good |-> TRUE]
    /\ tx = NewContext /\ rx = NewContext
    /\ sent = <<>> /\ wire = <<>> /\ buf = <<>> /\ got = <<>> /\ writer = "refused" /\ reader = "failed"

NoApp ==
    /\ app = CHOOSE a \in Apps : TRUE
    /\ come = 0 /\ used = 0 /\ gone = TRUE /\ step = "failed" /\ said = <<>> /\ dest = NOBODY
    /\ opened = <<>> /\ assoc = NoAssociation

NoPeer ==
    /\ peer = Plain
    /\ client = "closed" /\ server = "timed_out" /\ uni = <<>> /\ at = 0 /\ stopped = {}
    /\ queued = [come |-> 0, read |-> 0] /\ limits = "pre"

\* The two directions of the socket share nothing else.
SendOrReceive ==
    [gso : {"off", "auto"}, gro : {"off"}, transmits : {3}, arrivals : {0}]
    \cup [gso : {"off"}, gro : {"off", "auto"}, transmits : {0}, arrivals : {4}]

NoSocket == SocketInit([gso : {"off"}, gro : {"off"}, transmits : {0}, arrivals : {0}])

WireInit ==
    \/ Init /\ NoApp /\ NoPeer /\ NoSocket
    \/ LocalInit /\ NoLink /\ NoPeer /\ NoSocket
    \/ HandshakeInit /\ NoLink /\ NoApp /\ NoSocket
    \/ SocketInit(Loads) /\ NoLink /\ NoApp /\ NoPeer

WireNext ==
    \/ Next /\ UNCHANGED <<local_vars, handshake_vars, socket_vars>>
    \/ LocalNext /\ UNCHANGED <<vars, handshake_vars, socket_vars>>
    \/ HandshakeNext /\ UNCHANGED <<vars, local_vars, socket_vars>>
    \/ SocketNext /\ UNCHANGED <<vars, local_vars, handshake_vars>>

WireSpec ==
    /\ WireInit /\ [][WireNext]_<<vars, local_vars, handshake_vars, socket_vars>>
    /\ HandshakeFairness
=============================================================================
