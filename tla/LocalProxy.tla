----------------------------- MODULE LocalProxy -----------------------------
(***************************************************************************)
(* One connection of a local application to the client's listener, from    *)
(* its first byte to the end of its tunnel: SOCKS5 or HTTP CONNECT told by *)
(* a peek, the request read without touching what follows it, the stream   *)
(* opened, the reply, the relay; and the association that serves a SOCKS5  *)
(* UDP ASSOCIATE from a control connection of its own.  Bytes are those of *)
(* Framing; the blank line that ends an HTTP head is one byte.             *)
(***************************************************************************)
EXTENDS Framing

CONSTANTS Apps,       \* what an application says and means by it
          HeadMax,    \* the longest HTTP head (8192 in the code)
          Datagrams,  \* what may reach the UDP socket
          MaxAnswers, \* bound: datagrams an association takes up
          NOBODY      \* no address, no target

VARIABLES app, come,  \* the application, and how many of its bytes have come
          used,       \* how many were read
          gone,       \* it has closed its end
          step,       \* where the connection's handler is
          said,       \* the replies written to it
          dest,       \* the target, or the endpoint, of its request
          opened,     \* the streams opened: their target, what was sent on
                      \* them and whether they were finished
          assoc       \* first_udp_peer, current_target, the datagram in hand,
                      \* the answers handed back, first_remote_target

local_vars == <<app, come, used, gone, step, said, dest, opened, assoc>>

Bytes == app.says \o app.tail
Unread == SubSeq(Bytes, used + 1, come)
Blank == 7

NoAssociation == [first |-> NOBODY, current |-> NOBODY, hand |-> NOBODY, backs |-> <<>>, remote |-> NOBODY]

LocalInit ==
    /\ app \in Apps
    /\ step = IF app.mode = "udp" THEN "greeting" ELSE "peek"
    /\ come = 0 /\ used = 0 /\ gone = FALSE
    /\ said = <<>> /\ dest = NOBODY /\ opened = <<>> /\ assoc = NoAssociation

AppWrites ==
    /\ ~gone /\ come < Len(Bytes)
    /\ come' = come + 1
    /\ UNCHANGED <<app, used, gone, step, said, dest, opened, assoc>>

AppCloses ==
    /\ ~gone /\ gone' = TRUE
    /\ UNCHANGED <<app, come, used, step, said, dest, opened, assoc>>

-----------------------------------------------------------------------------
(* Reading the request.                                                    *)

from_peeked_byte(s) == IF s # <<>> /\ s[1] = 5 THEN "greeting" ELSE "head"

peek ==
    /\ step = "peek" /\ (Unread # <<>> \/ gone)
    /\ step' = from_peeked_byte(Unread)
    /\ UNCHANGED <<app, come, used, gone, said, dest, opened, assoc>>

\* A part of the request is read whole, is wrong, or never comes.
Takes(from, d, next, value, reply) ==
    /\ step = from /\ (d.res # "short" \/ gone)
    /\ used' = IF d.res = "ok" THEN used + d.used ELSE used
    /\ step' = IF d.res = "ok" THEN next ELSE "failed"
    /\ dest' = IF d.res = "ok" THEN value ELSE dest
    /\ said' = said \o reply
    /\ UNCHANGED <<app, come, gone, opened, assoc>>

\* Slip: the head is read as it comes, with what follows it.
HeadAtOnce(s) ==
    LET at == SelectInSeq(s, LAMBDA b : b = Blank) IN
    IF at = 0 THEN IF Len(s) >= HeadMax THEN Bad ELSE Short ELSE Ok(app.line, Len(s))

\* One byte at a time up to the blank line.
HttpHead(s) ==
    LET at == SelectInSeq(s, LAMBDA b : b = Blank) IN
    CASE at = 0 -> IF Len(s) >= HeadMax THEN Bad ELSE Short
      [] at > HeadMax -> Bad
      [] OTHER -> Ok(app.line, at)

\* The request line: text, three words, CONNECT and an HTTP version, a target.
ConnectLine(line) ==
    line.text /\ line.words = 3 /\ line.method = "CONNECT" /\ line.http /\ line.target # NOBODY

read_http_connect_target ==
    LET d == HttpHead(Unread)
        ok == d.res = "ok" /\ ConnectLine(app.line)
    IN  Takes("head", IF d.res = "ok" /\ ~ok THEN Bad ELSE d, "open", app.line.target, <<>>)

Greeting(s) ==
    CASE Len(s) < 2 -> Short
      [] Len(s) >= 2 /\ (s[1] # 5 \/ s[2] = 0) -> Bad
      [] Len(s) >= 2 /\ s[2] # 0 /\ Len(s) < 2 + s[2] -> Short
      [] OTHER -> Ok(0 \in ToSet(SubSeq(s, 3, 2 + s[2])), 2 + s[2])

read_socks5_greeting ==
    LET d == Greeting(Unread) IN
    IF d.res = "ok" /\ d.value THEN Takes("greeting", d, "request", dest, <<"05 00">>)
    ELSE Takes("greeting", d, "failed", dest, IF d.res = "ok" THEN <<"05 ff">> ELSE <<>>)

\* Where a well-formed request of this command and address type leads; the
\* listener's loop looks at the type of a CONNECT only when it reads the target.
validate_socks5_command_and_address_type(mode, command, type) ==
    LET expected == [tcp |-> {1}, udp |-> {3}, loop |-> {1, 3}]
        checked == mode # "loop" \/ command = 3
    IN  IF command \notin expected[mode] THEN [next |-> "failed", reply |-> <<"07">>]
        ELSE IF checked /\ type \notin {1, 3, 4} THEN [next |-> "failed", reply |-> <<"08">>]
        ELSE [next |-> IF command = 1 THEN "target" ELSE "endpoint", reply |-> <<>>]

\* The address type, the fourth byte, is left to be read with the address.
read_socks5_request_header ==
    LET s == Unread
        v == validate_socks5_command_and_address_type(app.mode, s[2], s[4])
    IN  CASE Len(s) < 4 -> Takes("request", Short, "failed", dest, <<>>)
          [] Len(s) >= 4 /\ (s[1] # 5 \/ s[3] # 0) -> Takes("request", Bad, "failed", dest, <<"01">>)
          [] OTHER -> Takes("request", Ok(0, 3), v.next, dest, v.reply)

Domain(s) == Len(s) >= 2 /\ s[1] = Runtime.domain
WholeName(s) == Len(s) >= 2 + s[2]

read_socks5_tcp_target ==
    LET s == Unread
        d == IF Domain(s) /\ (s[2] = 0 \/ (WholeName(s) /\ ~Text(SubSeq(s, 3, 2 + s[2]))))
             THEN Bad ELSE ReadTarget(Runtime, s)
    IN  Takes("target", d, "open", d.value, <<>>)

\* A name, or an unspecified address, asks for no address in particular.
Endpoint(t) ==
    [ip |-> IF t.addr.kind = "domain" \/ \A i \in DOMAIN t.addr.octets : t.addr.octets[i] = 0
            THEN NOBODY ELSE t.addr,
     port |-> t.port]

read_socks5_udp_client_endpoint ==
    LET s == Unread
        d == IF Domain(s) /\ s[2] = 0 THEN Bad ELSE ReadTarget(Runtime, s)
    IN  Takes("endpoint", d, "dial", Endpoint(d.value), IF d.res = "ok" THEN <<"bound">> ELSE <<>>)

-----------------------------------------------------------------------------
(* The tunnel of a CONNECT.                                                *)

\* When the stream cannot be opened the connection is dropped without a word.
open_tcp_proxy_stream ==
    /\ step = "open"
    /\ \/ step' = "reply" /\ opened' = <<[to |-> dest, data |-> <<>>, finished |-> FALSE]>>
       \/ step' = "failed" /\ opened' = opened
    /\ UNCHANGED <<app, come, used, gone, said, dest, assoc>>

write_success ==
    /\ step = "reply"
    /\ \/ step' = "relay" /\ said' = Append(said, "ok")
       \/ gone /\ step' = "failed" /\ said' = said
    /\ UNCHANGED <<app, come, used, gone, dest, opened, assoc>>

relay_local_tcp_stream ==
    /\ step = "relay" /\ Unread # <<>>
    /\ used' = come
    /\ opened' = [opened EXCEPT ![1].data = @ \o Unread]
    /\ UNCHANGED <<app, come, gone, step, said, dest, assoc>>

relay_ends ==
    /\ step = "relay" /\ Unread = <<>> /\ gone
    /\ step' = "done"
    /\ opened' = [opened EXCEPT ![1].finished = TRUE]
    /\ UNCHANGED <<app, come, used, gone, said, dest, assoc>>

-----------------------------------------------------------------------------
(* relay_one_socks5_udp_associate_datagram: the listener's own association, *)
(* one datagram and one answer at a time.                                   *)

matches(endpoint, from) ==
    /\ from.ip = app.ip
    /\ endpoint.ip \in {NOBODY, from.ip}
    /\ endpoint.port \in {0, from.port}

\* The connection is asked for after the reply, and may not be had.
get_connection ==
    /\ step = "dial"
    /\ step' \in {"associate", "failed"}
    /\ UNCHANGED <<app, come, used, gone, said, dest, opened, assoc>>

Finish(s) == IF s = <<>> THEN s ELSE [s EXCEPT ![Len(s)].finished = TRUE]

\* Slip: the stream in use is kept for a datagram to another target.
stream_for_kept(d) ==
    IF assoc.current # NOBODY THEN step' = "send" /\ opened' = opened
    ELSE step' = "open_udp" /\ opened' = opened

\* Another target than the last datagram's takes a stream of its own.
stream_for(d) ==
    IF assoc.current = d.target THEN step' = "send" /\ opened' = opened
    ELSE step' = "open_udp" /\ opened' = Finish(opened)

recv_from(d) ==
    /\ step = "associate" /\ app.mode = "udp"
    /\ Len(assoc.backs) < MaxAnswers
    /\ matches(dest, d.from) /\ assoc.first \in {NOBODY, d.from}
    /\ assoc' = [assoc EXCEPT !.first = d.from, !.hand = d]
    /\ IF d.bad THEN step' = "failed" /\ opened' = opened ELSE stream_for(d)
    /\ UNCHANGED <<app, come, used, gone, said, dest>>

open_udp_over_stream ==
    /\ step = "open_udp"
    /\ \/ /\ step' = "send"
          /\ opened' = Append(opened, [to |-> assoc.hand.target, data |-> <<>>, finished |-> FALSE])
          /\ assoc' = [assoc EXCEPT !.current = assoc.hand.target]
       \/ step' = "failed" /\ UNCHANGED <<opened, assoc>>
    /\ UNCHANGED <<app, come, used, gone, said, dest>>

send_datagram ==
    /\ step = "send"
    /\ \/ step' = "wait" /\ opened' = [opened EXCEPT ![Len(opened)].data = Append(@, assoc.hand)]
       \/ step' = "failed" /\ opened' = opened
    /\ UNCHANGED <<app, come, used, gone, said, dest, assoc>>

\* An answer comes from any address, or the stream fails.
recv_datagram ==
    /\ step = "wait"
    /\ \/ /\ step' = "associate"
          /\ \E r \in {d.target : d \in Datagrams} :
               assoc' = [assoc EXCEPT !.backs = Append(@, [to |-> assoc.hand.from, of |-> assoc.hand]),
                                      !.remote = IF @ = NOBODY THEN r ELSE @,
                                      !.hand = NOBODY]
       \/ step' = "failed" /\ assoc' = assoc
    /\ UNCHANGED <<app, come, used, gone, said, dest, opened>>

\* A byte on the control connection is an error, its end is the session's:
\* a success if some datagram was answered.
control_reads ==
    /\ step \in {"associate", "wait"} /\ app.mode = "udp" /\ (Unread # <<>> \/ gone)
    /\ step' = IF Unread = <<>> /\ assoc.first # NOBODY /\ assoc.remote # NOBODY THEN "done" ELSE "failed"
    /\ opened' = IF Unread = <<>> THEN Finish(opened) ELSE opened
    /\ UNCHANGED <<app, come, used, gone, said, dest, assoc>>

LocalNext ==
    \/ AppWrites \/ AppCloses \/ peek
    \/ read_http_connect_target \/ read_socks5_greeting \/ read_socks5_request_header
    \/ read_socks5_tcp_target \/ read_socks5_udp_client_endpoint
    \/ open_tcp_proxy_stream \/ write_success \/ relay_local_tcp_stream \/ relay_ends
    \/ get_connection
    \/ \E d \in Datagrams : recv_from(d)
    \/ open_udp_over_stream \/ send_datagram \/ recv_datagram \/ control_reads

-----------------------------------------------------------------------------
\* A tunnel leads where the application asked, carries exactly what followed
\* its request, in order, and none of the request itself however the bytes
\* were cut; no stream is opened for a request that is not one; and the
\* application is told of success only when its stream is open.
TunnelExact ==
    app.mode # "udp" =>
        /\ Len(opened) <= 1
        /\ opened # <<>> => opened[1].to = app.asks /\ IsPrefix(opened[1].data, app.tail)
        /\ step = "done" => opened[1].data = SubSeq(app.tail, 1, come - Len(app.says))
        /\ "ok" \in ToSet(said) => opened # <<>>

\* A datagram goes to its own target, over the one stream left open; only the
\* peer the association took first is served, it comes from the address of
\* the control connection, and each answer is for the datagram before it.
AssociationExact ==
    app.mode = "udp" =>
        LET all == FoldLeft(LAMBDA s, o : s \o o.data, <<>>, opened) IN
        /\ \A i \in DOMAIN opened :
             /\ i < Len(opened) => opened[i].finished
             /\ \A j \in DOMAIN opened[i].data : opened[i].data[j].target = opened[i].to
        /\ \A i \in DOMAIN assoc.backs :
             assoc.backs[i].of = all[i] /\ assoc.backs[i].to = all[1].from /\ all[i].from.ip = app.ip
=============================================================================
