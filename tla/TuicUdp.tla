------------------------------- MODULE TuicUdp -------------------------------
(***************************************************************************)
(* The TUIC v5 UDP relay of one authenticated connection                   *)
(* (run_tuic_udp_datagram_relay in zuicity-transport): packets split into  *)
(* fragments that fit a QUIC datagram, put together again by a table of    *)
(* partial packets, and handed over a bounded channel to one task per      *)
(* association, which owns the UDP socket.  Datagrams are lost and         *)
(* reordered, packet identifiers wrap around, associations are dissolved   *)
(* and opened again, tasks end on their own when idle.  The relay itself   *)
(* is a task of the connection: it ends by the shutdown, by the end of the *)
(* connection, or when the connection's task aborts it.                    *)
(***************************************************************************)
EXTENDS Integers, Sequences, Functions

CONSTANTS Assocs,        \* association identifiers (u16)
          PacketIds,     \* number of packet identifiers: they wrap (2^16)
          Lengths,       \* payload lengths that are tried
          DatagramSizes, \* values of max_datagram_size()
          FixedLen,      \* TUIC_UDP_PACKET_FIXED_LEN
          AddrLen,       \* tuic_target_encoded_len
          MaxFragments,  \* largest fragment count that fits the byte (255)
          Capacity,      \* capacity of an association's channel (64)
          MaxSends,      \* bound: packets the client sends
          MaxControls,   \* bound: dissociate commands and ended tasks
          MaxTasks       \* bound: association tasks spawned

ASSUME SizesAssumption == /\ {PacketIds, MaxFragments, Capacity, AddrLen} \subseteq Nat \ {0}
                          /\ FixedLen \in Nat
                          /\ DatagramSizes \subseteq Nat /\ Lengths \subseteq Nat

VARIABLES sent,     \* history: the packets the client encoded, in order
          nextId,   \* per association, the client's next_packet_id
          net,      \* fragments and dissociate commands under way
          buffers,  \* the reassembler: partial packets by (association, packet id)
          relay,    \* where the relay's loop stands, and what it holds there
          handle,   \* the associations map: the task that serves each one
          tasks,    \* the association tasks, with their channels
          replies,  \* history: the replies the tasks encoded, in order
          out,      \* history: payloads that left through a socket
          owner,    \* the connection's task: runs, aborted the relay, or failed
          quic,     \* the QUIC connection is open
          shutdown, \* the server's shutdown signal
          controls  \* counts the bounded events

vars == <<sent, nextId, net, buffers, relay, handle, tasks, replies, out, owner, quic, shutdown, controls>>

Monus(a, b) == IF a > b THEN a - b ELSE 0

Smaller(a, b) == IF a < b THEN a ELSE b

first_budget(size) == Monus(size, FixedLen + AddrLen)

other_budget(size) == Monus(size, FixedLen + 1)

\* How many fragments a payload of n bytes takes at a datagram size.
fragment_total(n, size) ==
    IF n <= first_budget(size) THEN 1
    ELSE 1 + (n - first_budget(size) + other_budget(size) - 1) \div other_budget(size)

CannotEncode(n, size) ==
    \/ first_budget(size) = 0
    \/ other_budget(size) = 0
    \/ fragment_total(n, size) > MaxFragments

\* Slip: the last fragment is cut at the budget of a first fragment.
ShortTailSpan(n, size, id) ==
    [lo |-> IF id = 0 THEN 0 ELSE first_budget(size) + (id - 1) * other_budget(size),
     hi |-> Smaller(n, first_budget(size) * (id + 1))]

\* The bytes lo+1..hi of the payload that fragment id carries.
FragmentSpan(n, size, id) ==
    [lo |-> IF id = 0 THEN 0 ELSE first_budget(size) + (id - 1) * other_budget(size),
     hi |-> Smaller(n, first_budget(size) + id * other_budget(size))]

encode_tuic_udp_fragments(src, a, p, n, size, via) ==
    {[kind |-> "packet", src |-> src, assoc |-> a, pid |-> p, via |-> via,
      total |-> fragment_total(n, size), id |-> i, addr |-> i = 0, span |-> FragmentSpan(n, size, i)]
        : i \in 0..(fragment_total(n, size) - 1)}

\* What decode_tuic_udp_fragment lets through: an index below the total, the
\* target's address in the first fragment and in no other.
decode_tuic_udp_fragment(f) == f.id < f.total /\ f.addr = (f.id = 0)

NoBuffer == [total |-> 0]

NoBuffers == [k \in Assocs \X (0..PacketIds - 1) |-> NoBuffer]

Selecting == [pc |-> "select"]

Gone == [pc |-> "gone"]

Running(t) == tasks[t].state \in {"run", "aborted"}

Init ==
    /\ sent = <<>>
    /\ nextId = [a \in Assocs |-> 0]
    /\ net = {}
    /\ buffers = NoBuffers
    /\ relay = Selecting
    /\ handle = [a \in Assocs |-> 0]
    /\ tasks = <<>>
    /\ out = {} /\ replies = <<>>
    /\ owner = "run" /\ quic = TRUE /\ shutdown = FALSE
    /\ controls = 0

-----------------------------------------------------------------------------
(* The client.  What it sent stays under way until the relay takes it, in   *)
(* any order: a datagram that is never taken is a lost one.                *)

ClientSend(a, n, size, via) ==
    /\ quic /\ relay # Gone /\ Len(sent) < MaxSends
    /\ nextId' = [nextId EXCEPT ![a] = (@ + 1) % PacketIds]
    /\ sent' = Append(sent, [assoc |-> a, pid |-> nextId[a], len |-> n, size |-> size])
    /\ net' = IF CannotEncode(n, size) THEN net
              ELSE net \cup encode_tuic_udp_fragments(Len(sent) + 1, a, nextId[a], n, size, via)
    /\ UNCHANGED <<buffers, relay, handle, tasks, out, replies, owner, quic, shutdown, controls>>

\* Dissociate goes on a uni stream; the association's next packet id is drawn anew.
send_tuic_dissociate(a, p) ==
    /\ quic /\ relay # Gone /\ controls < MaxControls
    /\ nextId' = [nextId EXCEPT ![a] = p]
    /\ controls' = controls + 1
    /\ net' = net \cup {[kind |-> "dissociate", assoc |-> a, via |-> "uni", src |-> controls]}
    /\ UNCHANGED <<sent, buffers, relay, handle, tasks, out, replies, owner, quic, shutdown>>

-----------------------------------------------------------------------------
(* The reassembler.                                                        *)

Buffered == {k \in DOMAIN buffers : buffers[k] # NoBuffer}

Filled(b) == {i \in DOMAIN b.slots : b.slots[i].src # 0}

Piece(f) == [src |-> f.src, span |-> f.span]

\* The table's entry after or_insert_with.
Entry(f) ==
    LET k == <<f.assoc, f.pid>> IN
    IF buffers[k] # NoBuffer THEN buffers[k]
    ELSE [total |-> f.total,
          slots |-> [i \in 0..f.total - 1 |-> [src |-> 0]]]

AcceptResult(f, b, payload) == [buffer |-> b, payload |-> payload]

\* Slip: the table is looked up without comparing the fragment totals.
AcceptAnyTotal(f) ==
    LET b == Entry(f)
        filled == [b EXCEPT !.slots[f.id] = Piece(f)] IN
    CASE f.total = 1 -> AcceptResult(f, buffers[<<f.assoc, f.pid>>], <<Piece(f)>>)
      [] f.total # 1 /\ (f.id >= b.total \/ b.slots[f.id].src # 0) -> AcceptResult(f, b, <<>>)
      [] f.total # 1 /\ f.id < b.total /\ b.slots[f.id].src = 0 ->
            IF Filled(filled) = 0..b.total - 1
            THEN AcceptResult(f, NoBuffer, [i \in 1..b.total |-> filled.slots[i - 1]])
            ELSE AcceptResult(f, filled, <<>>)

\* What accept leaves in the table and what it returns (<<>> for None or an error).
accept(f) ==
    LET b == Entry(f)
        filled == [b EXCEPT !.slots[f.id] = Piece(f)] IN
    CASE f.total = 1 -> AcceptResult(f, buffers[<<f.assoc, f.pid>>], <<Piece(f)>>)
      [] f.total # 1 /\ b.total # f.total -> AcceptResult(f, NoBuffer, <<>>)
      [] f.total # 1 /\ b.total = f.total /\ b.slots[f.id].src # 0 -> AcceptResult(f, b, <<>>)
      [] f.total # 1 /\ b.total = f.total /\ b.slots[f.id].src = 0 ->
            IF Filled(filled) = 0..f.total - 1
            THEN AcceptResult(f, NoBuffer, [i \in 1..f.total |-> filled.slots[i - 1]])
            ELSE AcceptResult(f, filled, <<>>)

\* A packet goes through the reassembler; a whole one is to be forwarded.
TakePacket(f) ==
    LET r == IF decode_tuic_udp_fragment(f) THEN accept(f)
             ELSE AcceptResult(f, buffers[<<f.assoc, f.pid>>], <<>>) IN
    /\ buffers' = [buffers EXCEPT ![<<f.assoc, f.pid>>] = r.buffer]
    /\ relay' = IF r.payload = <<>> THEN Selecting
                ELSE [pc |-> "forward", assoc |-> f.assoc, payload |-> r.payload]

-----------------------------------------------------------------------------
(* The relay's loop.  One iteration is one arm of its biased select!: the  *)
(* shutdown, the garbage collection, a uni stream, a datagram.             *)

AbortAll(ts, live) ==
    [t \in DOMAIN ts |-> IF t \in live /\ ts[t].state = "run"
                         THEN [ts[t] EXCEPT !.state = "aborted"] ELSE ts[t]]

Serving == {handle[a] : a \in Assocs} \ {0}

\* The senders go with the map: the receivers see the end of their channel.
CloseChannels(ts) == [t \in DOMAIN ts |-> [ts[t] EXCEPT !.sender = FALSE]]

\* The relay's locals are dropped: the table, the map, what it was reading.
RelayGone ==
    /\ relay' = Gone
    /\ handle' = [a \in Assocs |-> 0]
    /\ buffers' = NoBuffers
    /\ net' = {}

\* Slip: the relay returns without aborting the associations it still serves
\* and leaks their senders.
LeaveTasksRunning ==
    /\ RelayGone
    /\ UNCHANGED tasks

ReturnFromLoop ==
    /\ RelayGone
    /\ tasks' = CloseChannels(AbortAll(tasks, Serving))

RelayStops ==
    /\ relay.pc = "select"
    /\ shutdown \/ ~quic
    /\ ReturnFromLoop
    /\ UNCHANGED <<sent, nextId, replies, out, owner, quic, shutdown, controls>>

\* The tick drops the partial packets K that are older than the NAT timeout.
collect_garbage(K) ==
    /\ relay.pc = "select" /\ ~shutdown
    /\ buffers' = [k \in DOMAIN buffers |-> IF k \in K THEN NoBuffer ELSE buffers[k]]
    /\ UNCHANGED <<sent, nextId, net, relay, handle, tasks, replies, out, owner, quic, shutdown, controls>>

\* accept_uni gives a stream; the arm then waits for the whole of it.
AcceptUni(f) ==
    /\ relay.pc = "select" /\ ~shutdown /\ quic
    /\ f.via = "uni"
    /\ net' = net \ {f}
    /\ relay' = [pc |-> "read_uni", stream |-> f]
    /\ UNCHANGED <<sent, nextId, buffers, handle, tasks, out, replies, owner, quic, shutdown, controls>>

\* Slip: dissociate forgets the association's task instead of aborting it.
ForgetAssociation(a) ==
    /\ handle' = [handle EXCEPT ![a] = 0]
    /\ UNCHANGED tasks

Dissociate(a) ==
    /\ handle' = [handle EXCEPT ![a] = 0]
    /\ tasks' = IF handle[a] = 0 THEN tasks
                ELSE [AbortAll(tasks, {handle[a]}) EXCEPT ![handle[a]].sender = FALSE]

ReadUni ==
    /\ relay.pc = "read_uni" /\ quic
    /\ LET f == relay.stream IN
       \/ /\ f.kind = "packet" /\ TakePacket(f)
          /\ UNCHANGED <<handle, tasks>>
       \/ /\ f.kind = "dissociate" /\ Dissociate(f.assoc)
          /\ relay' = Selecting
          /\ UNCHANGED buffers
    /\ UNCHANGED <<sent, nextId, net, out, replies, owner, quic, shutdown, controls>>

\* The stream is reset, or the connection goes while it is read.
ReadUniFails ==
    /\ relay.pc = "read_uni"
    /\ relay' = Selecting
    /\ UNCHANGED <<sent, nextId, net, buffers, handle, tasks, out, replies, owner, quic, shutdown, controls>>

ReadDatagram(f) ==
    /\ relay.pc = "select" /\ ~shutdown /\ quic
    /\ f.via = "datagram"
    /\ net' = net \ {f}
    /\ TakePacket(f)
    /\ UNCHANGED <<sent, nextId, handle, tasks, out, replies, owner, quic, shutdown, controls>>

HasReceiver(t) == t # 0 /\ Running(t)

Enqueue(t, p) ==
    tasks' = [tasks EXCEPT ![t].queue = Append(@, p)]

\* forward_tuic_udp, first half: sender.send waits while the channel is full.
ForwardToTask ==
    /\ relay.pc = "forward"
    /\ HasReceiver(handle[relay.assoc])
    /\ Len(tasks[handle[relay.assoc]].queue) < Capacity
    /\ Enqueue(handle[relay.assoc], relay.payload)
    /\ relay' = Selecting
    /\ UNCHANGED <<sent, nextId, net, buffers, handle, out, replies, owner, quic, shutdown, controls>>

\* Second half: no task, or one whose receiver is gone and is replaced.
ForwardToNewTask ==
    /\ relay.pc = "forward"
    /\ ~HasReceiver(handle[relay.assoc])
    /\ Len(tasks) < MaxTasks
    /\ tasks' = Append(tasks, [assoc |-> relay.assoc, queue |-> <<relay.payload>>,
                               sender |-> TRUE, state |-> "run", replyId |-> 0])
    /\ handle' = [handle EXCEPT ![relay.assoc] = Len(tasks) + 1]
    /\ relay' = Selecting
    /\ UNCHANGED <<sent, nextId, net, buffers, out, replies, owner, quic, shutdown, controls>>

-----------------------------------------------------------------------------
(* run_tuic_udp_association: one task.                                     *)

\* A packet leaves through the socket, or is dropped: its target does not
\* match the source address, or no socket of its family can be had.
TaskSends(t) ==
    /\ Running(t) /\ tasks[t].queue # <<>>
    /\ out' \in {out, out \cup {[assoc |-> tasks[t].assoc, pieces |-> Head(tasks[t].queue)]}}
    /\ tasks' = [tasks EXCEPT ![t].queue = Tail(@)]
    /\ UNCHANGED <<sent, nextId, net, buffers, relay, handle, replies, owner, quic, shutdown, controls>>

\* A reply from the socket goes back in fragments; one that cannot be encoded
\* is dropped before it takes a packet identifier.
TaskReplies(t, n, size) ==
    /\ Running(t) /\ tasks[t].queue = <<>> /\ quic /\ controls < MaxControls
    /\ ~CannotEncode(n, size)
    /\ controls' = controls + 1
    /\ replies' = Append(replies, [assoc |-> tasks[t].assoc, pid |-> tasks[t].replyId,
                                   len |-> n, size |-> size])
    /\ tasks' = [tasks EXCEPT ![t].replyId = (@ + 1) % PacketIds]
    /\ UNCHANGED <<sent, nextId, net, buffers, relay, handle, out, owner, quic, shutdown>>

\* The channel ended, or the abort arrived at an await.
TaskEnds(t) ==
    /\ Running(t)
    /\ \/ tasks[t].queue = <<>> /\ ~tasks[t].sender
       \/ tasks[t].state = "aborted"
    /\ tasks' = [tasks EXCEPT ![t].state = "ended", ![t].queue = <<>>]
    /\ UNCHANGED <<sent, nextId, net, buffers, relay, handle, out, replies, owner, quic, shutdown, controls>>

\* The idle timeout, a socket error or a reply that cannot be sent: with the
\* channel empty when the arm is taken, though a packet may come after it.
TaskGivesUp(t) ==
    /\ Running(t) /\ tasks[t].queue = <<>> /\ controls < MaxControls
    /\ controls' = controls + 1
    /\ tasks' = [tasks EXCEPT ![t].state = "ended"]
    /\ UNCHANGED <<sent, nextId, net, buffers, relay, handle, out, replies, owner, quic, shutdown>>

-----------------------------------------------------------------------------
(* The connection's task and the connection.                               *)

QuicCloses ==
    /\ quic /\ quic' = FALSE
    /\ net' = {}
    /\ UNCHANGED <<sent, nextId, buffers, relay, handle, tasks, out, replies, owner, shutdown, controls>>

ShutdownSignalled ==
    /\ ~shutdown /\ shutdown' = TRUE
    /\ UNCHANGED <<sent, nextId, net, buffers, relay, handle, tasks, out, replies, owner, quic, controls>>

\* Slip: the loop ends and leaves the relay's task to itself.
LeaveRelay ==
    /\ owner = "run" /\ (shutdown \/ ~quic)
    /\ owner' = "aborted"
    /\ UNCHANGED <<quic, net, buffers, relay, handle, tasks>>

\* The connection's loop ends after its drain: on a shutdown it closes the
\* connection; in both cases it aborts the relay wherever it waits.  The map
\* of the aborted relay is dropped: its tasks are detached, not aborted.
OwnerAborts ==
    /\ owner = "run" /\ (shutdown \/ ~quic)
    /\ owner' = "aborted"
    /\ quic' = FALSE
    /\ RelayGone
    /\ tasks' = CloseChannels(tasks)

\* A stream's task panicked: the loop returns the error without the abort, and
\* the relay goes on, detached, with its own handle of the connection.
OwnerFails ==
    /\ owner = "run" /\ owner' = "failed"
    /\ UNCHANGED <<sent, nextId, net, buffers, relay, handle, tasks, replies, out, quic, shutdown, controls>>

OwnerEnds ==
    /\ OwnerAborts
    /\ UNCHANGED <<sent, nextId, replies, out, shutdown, controls>>

-----------------------------------------------------------------------------
RelayStep ==
    \/ RelayStops
    \/ \E K \in (SUBSET Buffered) \ {{}} : collect_garbage(K)
    \/ \E f \in net : AcceptUni(f) \/ ReadDatagram(f)
    \/ ReadUni
    \/ ReadUniFails
    \/ ForwardToTask
    \/ ForwardToNewTask

TaskStep(t) ==
    \/ TaskSends(t)
    \/ TaskEnds(t)
    \/ TaskGivesUp(t)
    \/ \E n \in Lengths, size \in DatagramSizes : TaskReplies(t, n, size)

Next ==
    \/ RelayStep
    \/ \E t \in DOMAIN tasks : TaskStep(t)
    \/ \E a \in Assocs, n \in Lengths, size \in DatagramSizes, via \in {"datagram", "uni"} :
          ClientSend(a, n, size, via)
    \/ \E a \in Assocs, p \in 0..PacketIds - 1 : send_tuic_dissociate(a, p)
    \/ QuicCloses
    \/ ShutdownSignalled
    \/ OwnerEnds
    \/ OwnerFails

Fairness ==
    /\ WF_vars(RelayStops)
    /\ WF_vars(ForwardToTask)
    /\ WF_vars(ForwardToNewTask)
    /\ WF_vars(OwnerEnds)
    /\ WF_vars(ReadUniFails /\ ~quic)
    /\ \A t \in 1..MaxTasks : WF_vars(t \in DOMAIN tasks /\ (TaskSends(t) \/ TaskEnds(t)))

Spec == Init /\ [][Next]_vars /\ Fairness

-----------------------------------------------------------------------------
Size(span) == span.hi - span.lo

\* What encode_tuic_udp_fragments cuts, on the client's side and in a task's
\* replies: the fragments fit the datagram size with their headers, none but
\* that of an empty payload is empty, their count fits the byte, and end to end
\* they are the payload; the relay's decoder accepts each of them.
FragmentsExact ==
    /\ \A f \in net : f.kind = "packet" => decode_tuic_udp_fragment(f)
    /\ \A p \in Range(sent) \cup Range(replies) :
           CannotEncode(p.len, p.size) \/
           LET n == fragment_total(p.len, p.size)
               span(i) == FragmentSpan(p.len, p.size, i) IN
           /\ n \in 1..MaxFragments
           /\ span(0).lo = 0 /\ span(n - 1).hi = p.len
           /\ \A i \in 0..n - 1 :
                 /\ Size(span(i)) >= 0 /\ (p.len > 0 => Size(span(i)) > 0)
                 /\ i > 0 => span(i).lo = span(i - 1).hi
                 /\ FixedLen + (IF i = 0 THEN AddrLen ELSE 1) + Size(span(i)) <= p.size

\* A payload that leaves through a socket is one the client sent on that
\* association, whole and in order, whatever was lost, reordered, collected,
\* dissolved or cut short before: only fragments of packets that share
\* association, packet id and fragment count (a wrapped packet id, or an
\* association opened again over the partial packets Dissociate leaves) can
\* ever be put together.
OutIsWhole ==
    \A d \in out :
        LET srcs == {d.pieces[i].src : i \in DOMAIN d.pieces}
            n == Len(d.pieces) IN
        /\ \A i \in srcs : /\ sent[i].assoc = d.assoc
                           /\ sent[i].pid = sent[d.pieces[1].src].pid
                           /\ fragment_total(sent[i].len, sent[i].size) = n
        /\ \A i \in 1..n :
              LET p == sent[d.pieces[i].src] IN
              d.pieces[i].span = FragmentSpan(p.len, p.size, i - 1)

\* An association is served by one task: a task that still runs and was not
\* aborted, and whose channel has its sender, is the one the map names, so no
\* second socket sends for the same association and dissociating reaches it.
OneTaskPerAssociation ==
    \A t \in DOMAIN tasks :
        (tasks[t].state = "run" /\ tasks[t].sender) => handle[tasks[t].assoc] = t

AllGone == relay.pc = "gone" /\ \A t \in DOMAIN tasks : ~Running(t)

\* When the connection is gone the relay returns, even from inside the arm
\* that reads a uni stream to its end, and every association task ends, those
\* it aborts and those detached by an abort of the relay itself.
\* So does the shutdown, unless the connection's task failed before it could
\* abort the relay: the relay alone does not look at the signal while it reads
\* a uni stream the client keeps open.
RelayEnds ==
    /\ (~quic) ~> AllGone
    /\ shutdown ~> (AllGone \/ owner = "failed")
=============================================================================
