----------------------------- MODULE Handshake -----------------------------
(***************************************************************************)
(* How one QUIC connection comes to be: the client checks the server's     *)
(* certificate and sends an authentication frame on a stream of its own;   *)
(* the server, under small limits and a deadline, looks for that frame on  *)
(* the streams the peer opens, in their order, and raises the limits once  *)
(* the frame is right.  Peers are this program's client, the Go client     *)
(* (which starts its first proxy stream at once and keeps the              *)
(* authentication stream open) and TUIC clients.  Data comes in blocks;    *)
(* quinn's streams, stream limits and receive window are modelled from     *)
(* how they are used.                                                      *)
(***************************************************************************)
EXTENDS Naturals, Sequences, SequencesExt, FiniteSets, FiniteSetsExt

CONSTANTS
  Peers,      \* who connects: see Peer
  Window,     \* blocks of PRE_AUTHENTICATION_RECEIVE_WINDOW
  FullWindow, \* blocks of the window of an authenticated connection
  UniMax      \* blocks of TUIC_UNI_STREAM_MAX_LEN

ASSUME HandshakeAssumption == {Window, FullWindow, UniMax} \subseteq Nat \ {0} /\ Window <= FullWindow

VARIABLES
  peer,       \* who connects
  client,     \* its connection: connecting, connected, refused or closed
  server,     \* where authenticate_with is, or what it returned
  uni,        \* the peer's unidirectional streams: blocks come and blocks read
  at,         \* the stream the server is reading
  stopped,    \* streams the server dropped before their end: STOP_SENDING
  queued,     \* the proxy stream opened at once: blocks come and blocks read
  limits      \* the connection's limits: pre, or full once authenticated

handshake_vars == <<peer, client, server, uni, at, stopped, queued, limits>>

(* A peer: the settings it checks the certificate with, the certificate it *)
(* meets, its credentials, the streams it opens, the blocks it writes on   *)
(* its first proxy stream, whether it writes them at once (early), and     *)
(* whether it leaves the authentication stream open.                       *)
Peer == [settings : [by : {"client", "dae", "dialer"}, pin : BOOLEAN, insecure : BOOLEAN, roots : BOOLEAN],
         cert : [chain : Seq({"leaf", "ca"}), issuer : {"web", "roots", "self"}, named : BOOLEAN],
         proto : {"juicity", "tuic"}, cred : {"right", "token", "uuid"},
         streams : Seq({"auth", "packet", "big", "short", "odd", "cut"}),
         blocks : Nat, early : BOOLEAN, keeps : BOOLEAN]

HandshakeInit ==
  /\ peer \in Peers
  /\ client = "connecting" /\ server = "handshake"
  /\ uni = <<>> /\ at = 0 /\ stopped = {}
  /\ queued = [come |-> 0, read |-> 0]
  /\ limits = "pre"

-----------------------------------------------------------------------------
(* TLS: which verifier the caller's settings choose, what it accepts.      *)

\* Slip: the insecure setting wins over the pin.
verifier_of_insecure_first(s) ==
  IF s.insecure THEN "none" ELSE IF s.pin /\ s.by # "client" THEN "pin"
  ELSE IF s.roots /\ s.by # "dialer" THEN "roots" ELSE "webpki"

(* The adapter and the dialer link ask for the pin first; the client       *)
(* program and a dialer link have no roots of their own but the web's.     *)
verifier_of(s) ==
  IF s.pin /\ s.by # "client" THEN "pin"
  ELSE IF s.insecure THEN "none"
  ELSE IF s.roots /\ s.by # "dialer" THEN "roots" ELSE "webpki"

\* Slip: the leaf alone is hashed.
generate_cert_chain_hash_leaf(chain) == SubSeq(chain, 1, 1)

(* A hash of the previous hash and the next certificate's, from the leaf   *)
(* on; <<>> is no hash.                                                    *)
generate_cert_chain_hash(chain) ==
  FoldLeft(LAMBDA previous, cert : IF previous = <<>> THEN <<cert>> ELSE <<previous, <<cert>>>>,
           <<>>, chain)

PinnedChain == <<"leaf", "ca">>

verify_server_cert(verifier, cert) ==
  CASE verifier = "none" -> TRUE
    [] verifier = "pin" -> generate_cert_chain_hash(cert.chain) = generate_cert_chain_hash(PinnedChain)
    [] verifier = "roots" -> cert.issuer = "roots" /\ cert.named
    [] verifier = "webpki" -> cert.issuer = "web" /\ cert.named

connect_with ==
  /\ client = "connecting"
  /\ LET ok == verify_server_cert(verifier_of(peer.settings), peer.cert) IN
     /\ client' = IF ok THEN "connected" ELSE "refused"
     /\ server' = IF ok THEN "accept" ELSE "failed"
  /\ UNCHANGED <<peer, uni, at, stopped, queued, limits>>

-----------------------------------------------------------------------------
(* The peer's streams.                                                     *)

Kind(i) == peer.streams[i]

(* Blocks a stream carries: the first holds the version and the command.   *)
(* An authentication frame has two; a kept stream goes on with another.    *)
Total(i) ==
  CASE Kind(i) = "auth" -> IF peer.keeps THEN 3 ELSE 2
    [] Kind(i) = "packet" -> 2
    [] Kind(i) = "big" -> UniMax + 3
    [] Kind(i) = "odd" -> 2
    [] Kind(i) = "cut" -> 1
    [] Kind(i) = "short" -> 0

Ends(i) == uni[i].come = Total(i) /\ ~(Kind(i) = "auth" /\ peer.keeps)
Closed(i) == i \in stopped \/ (Ends(i) /\ uni[i].read = Total(i))

MaxUni == IF limits = "pre" THEN 1 ELSE Len(peer.streams)
WindowOf == IF limits = "pre" THEN Window ELSE FullWindow

(* What the receive window holds: blocks come and not read or dropped.     *)
Held ==
  queued.come - queued.read
  + MapThenSumSet(LAMBDA i : uni[i].come - uni[i].read, DOMAIN uni \ stopped)

Live == client = "connected"

open_uni ==
  /\ Live /\ Len(uni) < Len(peer.streams)
  /\ Len(uni) < MaxUni + Cardinality({i \in DOMAIN uni : Closed(i)})
  /\ uni' = Append(uni, [come |-> 0, read |-> 0])
  /\ UNCHANGED <<peer, client, server, at, stopped, queued, limits>>

send_block(i) ==
  /\ Live /\ i \in DOMAIN uni \ stopped
  /\ uni[i].come < Total(i) /\ Held < WindowOf
  /\ uni' = [uni EXCEPT ![i].come = @ + 1]
  /\ UNCHANGED <<peer, client, server, at, stopped, queued, limits>>

(* The authentication frame is written: connect_with_roots returns then,   *)
(* and only then does this program's client open a proxy stream.           *)
FrameWritten == \E i \in DOMAIN uni : Kind(i) = "auth" /\ uni[i].come >= 2

send_queued ==
  /\ Live /\ (peer.early \/ FrameWritten)
  /\ queued.come < peer.blocks /\ Held < WindowOf
  /\ queued' = [queued EXCEPT !.come = @ + 1]
  /\ UNCHANGED <<peer, client, server, uni, at, stopped, limits>>

(* The Go client takes the end of its authentication stream for the end of *)
(* the connection.                                                         *)
peer_gives_up ==
  /\ Live /\ peer.keeps /\ peer.proto = "juicity"
  /\ \E i \in stopped : Kind(i) = "auth"
  /\ client' = "closed"
  /\ UNCHANGED <<peer, server, uni, at, stopped, queued, limits>>

-----------------------------------------------------------------------------
(* The server: verify_authentication_stream_with.                          *)

TakeBlock(i) == uni' = [uni EXCEPT ![i].read = @ + 1]
Waiting(i) == uni[i].read < uni[i].come
Fail(outcome) == server' = outcome /\ client' = "closed" /\ UNCHANGED <<uni, at, stopped, limits>>

accept_uni ==
  /\ server = "accept" /\ at < Len(uni)
  /\ at' = at + 1 /\ server' = "head"
  /\ UNCHANGED <<peer, client, uni, stopped, queued, limits>>

\* Slip: the first stream has to hold the frame.
is_auth_frame_first(kind) == TRUE

is_auth_frame(kind) == kind \in {"auth", "odd", "cut"}

read_head ==
  /\ server = "head"
  /\ \/ /\ Waiting(at) /\ TakeBlock(at)
        /\ server' = IF is_auth_frame(Kind(at)) THEN "frame" ELSE "drain"
        /\ UNCHANGED <<client, at, stopped, limits>>
     \/ ~Waiting(at) /\ Ends(at) /\ Fail("failed")
  /\ UNCHANGED <<peer, queued>>

\* Slip: the stream that is too long is left as it is, not dropped.
read_to_end_held ==
  /\ server = "drain"
  /\ \/ /\ Waiting(at) /\ TakeBlock(at)
        /\ server' = IF uni[at].read > UniMax THEN "accept" ELSE server
     \/ /\ ~Waiting(at) /\ Ends(at)
        /\ server' = "accept" /\ UNCHANGED uni
  /\ UNCHANGED <<peer, client, at, stopped, queued, limits>>

(* read_to_end, whose error is ignored: a stream that is too long is       *)
(* dropped and the next one is looked at.                                  *)
read_to_end ==
  /\ server = "drain"
  /\ \/ /\ Waiting(at) /\ TakeBlock(at)
        /\ IF uni[at].read > UniMax
           THEN stopped' = stopped \cup {at} /\ server' = "accept"
           ELSE UNCHANGED <<stopped, server>>
     \/ /\ ~Waiting(at) /\ Ends(at)
        /\ server' = "accept" /\ UNCHANGED <<uni, stopped>>
  /\ UNCHANGED <<peer, client, at, queued, limits>>

(* The credentials of the user with the frame's UUID decide; the token is  *)
(* bound to this connection's TLS session.  A Juicity frame of another     *)
(* command does not decode.                                                *)
TokenOk == peer.cred = "right"

\* Slip: the stream is dropped once its frame is read.
KeepsStream_never == FALSE

(* The rest of a Juicity stream is read by a task of its own.              *)
KeepsStream == peer.proto = "juicity"

read_frame ==
  /\ server = "frame"
  /\ \/ /\ Waiting(at) /\ Kind(at) = "auth" /\ TokenOk
        /\ TakeBlock(at)
        /\ server' = "authenticated" /\ limits' = "full"
        /\ stopped' = IF KeepsStream THEN stopped ELSE stopped \cup {at}
        /\ UNCHANGED <<client, at>>
     \/ /\ Waiting(at) /\ ~(Kind(at) = "auth" /\ TokenOk)
        /\ Fail(IF Kind(at) = "odd" THEN "failed" ELSE "rejected")
     \/ ~Waiting(at) /\ Ends(at) /\ Fail("failed")
  /\ UNCHANGED <<peer, queued>>

drain_task ==
  /\ server = "authenticated" /\ KeepsStream /\ Live
  /\ Waiting(at) /\ TakeBlock(at)
  /\ UNCHANGED <<peer, client, server, at, stopped, queued, limits>>

(* accept_bi and the relay, once the connection is authenticated.          *)
accept_proxy_stream ==
  /\ server = "authenticated" /\ Live /\ queued.read < queued.come
  /\ queued' = [queued EXCEPT !.read = @ + 1]
  /\ UNCHANGED <<peer, client, server, uni, at, stopped, limits>>

Undecided == server \in {"handshake", "accept", "head", "drain", "frame"}

authenticate_with_timeout ==
  /\ Undecided
  /\ server' = "timed_out" /\ client' = "closed"
  /\ UNCHANGED <<peer, uni, at, stopped, queued, limits>>

verify_authentication_stream_with == accept_uni \/ read_head \/ read_to_end \/ read_frame

PeerSteps == open_uni \/ send_queued \/ \E i \in DOMAIN uni : send_block(i)

HandshakeNext ==
  \/ connect_with
  \/ open_uni
  \/ \E i \in DOMAIN uni : send_block(i)
  \/ send_queued
  \/ peer_gives_up
  \/ verify_authentication_stream_with
  \/ drain_task
  \/ accept_proxy_stream
  \/ authenticate_with_timeout

(* Tasks run and the network delivers; the deadline need not come.         *)
HandshakeFairness ==
  /\ WF_handshake_vars(connect_with) /\ WF_handshake_vars(PeerSteps)
  /\ WF_handshake_vars(verify_authentication_stream_with)
  /\ WF_handshake_vars(drain_task) /\ WF_handshake_vars(accept_proxy_stream)

-----------------------------------------------------------------------------
(* What the settings ask of the certificate: a pin is an exact chain,      *)
(* roots vouch for the name, and only an insecure setting with no pin      *)
(* accepts anything.                                                       *)
AsksFor(s, cert) ==
  /\ s.pin /\ s.by # "client" => cert.chain = PinnedChain
  /\ ~s.insecure /\ ~(s.pin /\ s.by # "client") =>
       cert.named /\ cert.issuer = (IF s.roots /\ s.by # "dialer" THEN "roots" ELSE "web")

(* A connection is authenticated only for a peer that has checked the      *)
(* certificate as its settings ask and has shown the token of a configured *)
(* user, and only then are its limits raised; a peer with the right token  *)
(* and whole frames is never turned away, whatever streams come before,    *)
(* nor lost afterwards to its own authentication stream ("Dropping it here *)
(* sends STOP_SENDING; the Go client treats that as fatal").               *)
AdmittedOnMerit ==
  /\ client = "connected" => AsksFor(peer.settings, peer.cert)
  /\ server = "authenticated" => peer.cred = "right" /\ client = "connected"
  /\ limits = "full" <=> server = "authenticated"
  /\ server \in {"rejected", "failed"} /\ client = "closed" =>
       peer.cred # "right" \/ \E i \in DOMAIN uni : Kind(i) \in {"short", "odd", "cut"}

(* The first proxy stream of a peer may be written before the frame        *)
(* without stopping it, as long as it leaves room in the window: a         *)
(* right peer is authenticated and that stream is read to its end, unless  *)
(* the deadline comes first.  The small limits before authentication never *)
(* make the peer and the server wait for each other.                       *)
LeavesRoom == ~peer.early \/ peer.blocks < Window

RightPeerServed ==
  (/\ client = "connected" /\ peer.cred = "right" /\ LeavesRoom
   /\ \E i \in DOMAIN peer.streams : Kind(i) = "auth"
   /\ \A i \in DOMAIN peer.streams : Kind(i) \in {"auth", "packet", "big"})
  ~> (server = "timed_out" \/ (server = "authenticated" /\ queued.read = peer.blocks))
=============================================================================
