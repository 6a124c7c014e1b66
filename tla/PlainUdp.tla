------------------------------ MODULE PlainUdp ------------------------------
(***************************************************************************)
(* The UDP socket under a QUIC endpoint.  Connections hand it transmits of *)
(* several datagrams for one destination; a transmit goes out in one GSO   *)
(* message or as a batch of datagrams whose unsent suffix is completed     *)
(* within a millisecond.  A transmit that "would block" is handed over     *)
(* again by its connection.  Arriving datagrams are read one by one or, by *)
(* GRO, in runs the kernel has put together.                               *)
(***************************************************************************)
EXTENDS Integers, Sequences, SequencesExt

CONSTANTS Senders, Dests, Sources,
          MaxGso,        \* segments of a GSO message (44 in the code)
          MaxBatch,      \* datagrams of a batch (128)
          PlainBatch,    \* datagrams the environment or the role sets
          MaxInterrupts, \* interrupted calls in a row before an error (8)
          Slots,         \* receive buffers quinn offers
          Loads          \* the modes of the socket, and how many transmits and arrivals there are

ASSUME PlainUdpAssumption ==
    /\ {MaxGso, MaxBatch, PlainBatch, MaxInterrupts, Slots} \subseteq Nat \ {0}
    /\ PlainBatch <= MaxBatch
    /\ Loads \subseteq [gso : {"off", "auto"}, gro : {"off", "auto"}, transmits : Nat, arrivals : Nat]

VARIABLES gso,           \* what is known of each destination
          transmit,      \* the transmit of each connection
          out,           \* which of its datagrams the kernel has taken, in order
          pc, call,      \* where try_send is, and the system call it is in
          transmits,
          queue, arrived, read, recv,
          load

sending == <<gso, transmit, out, pc, call, transmits>>
receiving == <<queue, arrived, read, recv>>
socket_vars == <<load, sending, receiving>>

NoCall == [interrupted |-> 0, cleared |-> FALSE]

max_transmit_segments(m) == IF m = "auto" /\ PlainBatch > MaxGso THEN MaxGso ELSE PlainBatch

SocketInit(loads) ==
    /\ load \in loads
    /\ gso = [d \in Dests |-> "unknown"]
    /\ transmit = [s \in Senders |-> [dest |-> CHOOSE d \in Dests : TRUE, n |-> 0, long |-> FALSE]]
    /\ out = [s \in Senders |-> <<>>]
    /\ pc = [s \in Senders |-> "idle"]
    /\ call = [s \in Senders |-> NoCall]
    /\ transmits = 0
    /\ queue = <<>> /\ arrived = <<>> /\ read = <<>> /\ recv = "polling"

-----------------------------------------------------------------------------
\* The connection has a new transmit for the socket.
Transmit(s, d, n, long) ==
    /\ pc[s] = "idle" /\ transmits < load.transmits
    /\ transmit' = [transmit EXCEPT ![s] = [dest |-> d, n |-> n, long |-> long]]
    /\ out' = [out EXCEPT ![s] = <<>>]
    /\ pc' = [pc EXCEPT ![s] = "try_send"]
    /\ transmits' = transmits + 1
    /\ UNCHANGED <<load, gso, call, receiving>>

\* A transmit that would block is handed over again when the socket is writable.
Again(s) ==
    /\ pc[s] = "blocked"
    /\ pc' = [pc EXCEPT ![s] = "try_send"]
    /\ UNCHANGED <<load, gso, transmit, out, call, transmits, receiving>>

gso_eligible(s) ==
    /\ load.gso = "auto"
    /\ transmit[s].n >= 2 /\ transmit[s].n <= MaxGso
    /\ gso[transmit[s].dest] # "disabled"
    /\ ~transmit[s].long

try_send(s) ==
    /\ pc[s] = "try_send"
    /\ pc' = [pc EXCEPT ![s] = IF gso_eligible(s) THEN "gso"
                               ELSE IF transmit[s].n = 0 THEN "idle"
                               ELSE IF transmit[s].n = 1 THEN "send_to"
                               ELSE IF transmit[s].n > MaxBatch THEN "idle"
                               ELSE "batch"]
    /\ call' = [call EXCEPT ![s] = NoCall]
    /\ UNCHANGED <<load, gso, transmit, out, transmits, receiving>>

\* The rest of what is to go out, from the first datagram not taken yet.
Rest(s) == transmit[s].n - Len(out[s])
Accept(s, k) == out' = [out EXCEPT ![s] = @ \o [i \in 1 .. k |-> transmit[s].n - Rest(s) + i]]

\* One GSO message: taken whole, or refused by the device, or an error.
try_send_gso(s, result) ==
    /\ pc[s] = "gso"
    /\ \/ /\ result = "ok"
          /\ Accept(s, Rest(s))
          /\ gso' = [gso EXCEPT ![transmit[s].dest] = "working"]
          /\ pc' = [pc EXCEPT ![s] = "idle"]
       \/ /\ result = "would_block"
          /\ pc' = [pc EXCEPT ![s] = "blocked"] /\ UNCHANGED <<gso, out>>
       \/ /\ result = "rejected"
          /\ gso' = [gso EXCEPT ![transmit[s].dest] = "disabled"]
          /\ pc' = [pc EXCEPT ![s] = "batch"] /\ UNCHANGED out
       \/ /\ result = "error"
          /\ pc' = [pc EXCEPT ![s] = "idle"] /\ UNCHANGED <<gso, out>>
    /\ UNCHANGED <<load, transmit, call, transmits, receiving>>

\* A single datagram.
send_to(s, result) ==
    /\ pc[s] = "send_to"
    /\ \/ result = "ok" /\ Accept(s, 1) /\ pc' = [pc EXCEPT ![s] = "idle"]
       \/ result = "would_block" /\ pc' = [pc EXCEPT ![s] = "blocked"] /\ UNCHANGED out
       \/ result = "error" /\ pc' = [pc EXCEPT ![s] = "idle"] /\ UNCHANGED out
    /\ UNCHANGED <<load, gso, transmit, call, transmits, receiving>>

\* What a system call that did not send means: a few interrupted calls are
\* repeated, and the first "would block" too, with the cached readiness cleared.
Retried(s, result) ==
    \/ result = "interrupted" /\ call[s].interrupted + 1 < MaxInterrupts
    \/ result = "would_block" /\ ~call[s].cleared

AfterRetry(s, result) ==
    IF result = "interrupted" THEN [call[s] EXCEPT !.interrupted = @ + 1]
    ELSE [call[s] EXCEPT !.cleared = TRUE]

attempt(s, result) ==
    /\ pc[s] \in {"batch", "suffix"}
    /\ result \in {"interrupted", "would_block"} /\ Retried(s, result)
    /\ call' = [call EXCEPT ![s] = AfterRetry(s, result)]
    /\ UNCHANGED <<load, gso, transmit, out, pc, transmits, receiving>>

\* Slip: what the first call left over is reported as not sent.
BlockedSuffix(s, k, all_full) ==
    [pc EXCEPT ![s] = IF all_full /\ k > 0 /\ k < Rest(s) THEN "blocked" ELSE "idle"]

\* Where try_send is after a call that took k datagrams: a datagram that went
\* out short, or none at all, is an error.
AfterBatch(s, k, all_full) ==
    [pc EXCEPT ![s] = IF all_full /\ k > 0 /\ k < Rest(s) THEN "suffix" ELSE "idle"]

\* The kernel takes the first k datagrams, the last of them perhaps cut short.
sendmmsg_once(s, k, all_full) ==
    /\ pc[s] \in {"batch", "suffix"} /\ k \in 0 .. Rest(s)
    /\ ~all_full => k < Rest(s)
    /\ Accept(s, k)
    /\ pc' = AfterBatch(s, k, all_full)
    /\ call' = [call EXCEPT ![s] = NoCall]
    /\ UNCHANGED <<load, gso, transmit, transmits, receiving>>

\* The first call fails: nothing has gone out.
BatchFails(s, result) ==
    /\ pc[s] = "batch" /\ ~Retried(s, result)
    /\ pc' = [pc EXCEPT ![s] = IF result = "would_block" THEN "blocked" ELSE "idle"]
    /\ UNCHANGED <<load, gso, transmit, out, call, transmits, receiving>>

\* A later call fails: an error is loss and would-block waits for the socket.
SuffixFails(s, result) ==
    /\ pc[s] = "suffix" /\ ~Retried(s, result)
    /\ pc' = [pc EXCEPT ![s] = IF result = "would_block" THEN "wait" ELSE "idle"]
    /\ UNCHANGED <<load, gso, transmit, out, call, transmits, receiving>>

\* Slip: the suffix is sent again from where the transmit starts.
FromTheStart(s) ==
    /\ pc[s] = "wait"
    /\ pc' = [pc EXCEPT ![s] = "batch"]
    /\ call' = [call EXCEPT ![s] = NoCall]
    /\ UNCHANGED <<load, gso, transmit, out, transmits, receiving>>

wait_writable(s) ==
    /\ pc[s] = "wait"
    /\ pc' = [pc EXCEPT ![s] = "suffix"]
    /\ call' = [call EXCEPT ![s] = NoCall]
    /\ UNCHANGED <<load, gso, transmit, out, transmits, receiving>>

\* The millisecond is over, or the socket reports an error: loss as well.
WaitEnds(s) ==
    /\ pc[s] = "wait"
    /\ pc' = [pc EXCEPT ![s] = "idle"]
    /\ UNCHANGED <<load, gso, transmit, out, call, transmits, receiving>>

-----------------------------------------------------------------------------
(* Receiving.  A datagram is its source, its length and a number.          *)

Arrives(src, len) ==
    /\ Len(arrived) < load.arrivals
    /\ LET d == [src |-> src, len |-> len, id |-> Len(arrived) + 1] IN
       /\ arrived' = Append(arrived, d)
       /\ queue' = Append(queue, d)
    /\ UNCHANGED <<load, sending, read, recv>>

\* A run the kernel may hand over as one: one source, equal lengths, but for a
\* last one that may be shorter.
Coalesces(run) ==
    /\ \A i \in 1 .. Len(run) : run[i].src = run[1].src /\ run[i].len <= run[1].len
    /\ \A i \in 1 .. Len(run) - 1 : run[i].len = run[1].len

\* The segment lengths quinn cuts a buffer into.
Segments(total, stride) ==
    [i \in 1 .. (total + stride - 1) \div stride |->
        IF i * stride <= total THEN stride ELSE total - (i - 1) * stride]

SumLen(run) == FoldLeft(LAMBDA n, d : n + d.len, 0, run)

\* Slip: a coalesced buffer is handed over as one datagram.
WholeBuffer(run) == SumLen(run)

\* The stride the kernel reports of a run is the length of its first.
recv_gro_batch(run) == run[1].len

\* One read of up to Slots buffers.
poll_recv_gro(n) ==
    /\ load.gro = "auto" /\ recv = "polling" /\ n \in 1 .. Len(queue)
    /\ LET run == SubSeq(queue, 1, n)
           lens == Segments(SumLen(run), recv_gro_batch(run)) IN
       /\ Coalesces(run)
       /\ read' = read \o [i \in 1 .. Len(lens) |-> [src |-> run[1].src, len |-> lens[i]]]
       /\ queue' = SubSeq(queue, n + 1, Len(queue))
    /\ UNCHANGED <<load, sending, arrived, recv>>

\* Every datagram queued, up to the buffers there are, each with its length.
poll_recv(n) ==
    /\ load.gro = "off" /\ recv = "polling"
    /\ n \in 1 .. Slots /\ n <= Len(queue) /\ (n = Slots \/ n = Len(queue))
    /\ read' = read \o [i \in 1 .. n |-> [src |-> queue[i].src, len |-> queue[i].len]]
    /\ queue' = SubSeq(queue, n + 1, Len(queue))
    /\ UNCHANGED <<load, sending, arrived, recv>>

\* An error of the socket ends the endpoint, with what this poll had read.
RecvFails ==
    /\ recv = "polling" /\ load.arrivals > 0
    /\ recv' = "failed"
    /\ UNCHANGED <<load, sending, queue, arrived, read>>

-----------------------------------------------------------------------------
Results == {"ok", "would_block", "rejected", "interrupted", "error"}
SendStep(s) ==
    \/ try_send(s)
    \/ \E r \in Results : try_send_gso(s, r)
    \/ \E r \in Results : send_to(s, r)
    \/ \E r \in Results : attempt(s, r)
    \/ \E k \in 0 .. MaxBatch, full \in BOOLEAN : sendmmsg_once(s, k, full)
    \/ \E r \in {"would_block", "interrupted", "error"} : BatchFails(s, r)
    \/ \E r \in {"would_block", "interrupted", "error"} : SuffixFails(s, r)

SocketNext ==
    \/ \E s \in Senders, d \in Dests, n \in 0 .. MaxBatch, long \in BOOLEAN :
          n <= max_transmit_segments(load.gso) /\ Transmit(s, d, n, long)
    \/ \E s \in Senders : Again(s)
    \/ \E s \in Senders : SendStep(s)
    \/ \E s \in Senders : wait_writable(s)
    \/ \E s \in Senders : WaitEnds(s)
    \/ \E src \in Sources, len \in 1 .. 2 : Arrives(src, len)
    \/ \E n \in 1 .. Len(queue) : poll_recv_gro(n)
    \/ \E n \in 1 .. Len(queue) : poll_recv(n)
    \/ RecvFails

-----------------------------------------------------------------------------
\* The datagrams of a transmit go out at most once and in their order, however
\* often it is handed over again and wherever its first batch stopped: the
\* kernel has taken a prefix of them, and none while it "would block".  And what
\* quinn is handed is what arrived, in order, every datagram with its own source
\* and length: a buffer the kernel put together is cut where they ended.
SocketExact ==
    /\ \A s \in Senders :
        /\ out[s] = [i \in 1 .. Len(out[s]) |-> i]
        /\ Len(out[s]) <= transmit[s].n
        /\ pc[s] \in {"blocked", "gso"} => out[s] = <<>>
    /\ \A i \in 1 .. Len(read) : read[i] = [src |-> arrived[i].src, len |-> arrived[i].len]
=============================================================================
