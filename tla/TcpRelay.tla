------------------------------ MODULE TcpRelay ------------------------------
(***************************************************************************)
(* The relay of one TCP proxy stream, on either side.  On the server,      *)
(* relay_tcp_proxy_stream runs two tasks between the QUIC stream and the   *)
(* target; on the client, relay_local_tcp_stream joins two futures between *)
(* the QUIC stream and the local socket.  Up, what QUIC delivers is        *)
(* written to the socket: on the server in batches of chunks, with         *)
(* vectored writes that may be partial.  Down, what the socket delivers is *)
(* written to QUIC, and a second buffer is read ahead meanwhile.  Only the *)
(* server bounds its writes by a stall timeout.  Each side's bytes are     *)
(* numbered in the order it sends them.  The initial payload is left out:  *)
(* both header readers return an empty one.                                *)
(***************************************************************************)
EXTENDS Integers, Sequences

CONSTANTS
  QuicBytes,     \* bytes that arrive on the QUIC stream
  SocketBytes,   \* bytes that arrive on the socket
  BUFFER,        \* RELAY_COPY_BUFFER_SIZE, and the size of a QUIC chunk here
  BATCH          \* RELAY_QUIC_CHUNK_BATCH_SIZE

ASSUME RelayAssumption ==
  /\ QuicBytes \in Nat /\ SocketBytes \in Nat
  /\ BUFFER \in Nat \ {0} /\ BATCH \in Nat \ {0}

VARIABLES
  side,       \* "server" or "client"
  relay,      \* the relay: "running" or its result
  up,         \* where the QUIC-to-socket direction is
  chunks,     \* the batch being written; finished chunks are taken off
  taken,      \* bytes read from QUIC
  delivered,  \* bytes the socket has taken, in order
  down,       \* where the socket-to-QUIC direction is
  inner,      \* the server's target: a socket, or a stream of a dialer that
              \* takes several slices at once or only the first
  buffers,    \* the two buffers
  current,    \* index of the buffer being written
  written,    \* bytes of it that are written
  ahead,      \* read_result of the speculative read
  read,       \* bytes read from the socket
  received    \* bytes QUIC has taken, in order

upVars == <<up, chunks, taken, delivered>>
downVars == <<down, inner, buffers, current, written, ahead, read, received>>
relay_vars == <<side, relay, upVars, downVars>>

Bytes(from, n) == [i \in 1..n |-> from + i]
Ended == {"ok", "read_failed", "write_failed", "aborted"}
Failed == {"read_failed", "write_failed"}

RelayInit(first) ==
  /\ side \in {"server", "client"}
  /\ relay = first
  /\ up = "read"
  /\ chunks = <<>>
  /\ taken = 0
  /\ delivered = <<>>
  /\ down = "read"
  /\ inner \in IF side = "server" THEN {"plain", "vectored", "single"} ELSE {"plain"}
  /\ buffers = <<<<>>, <<>>>>
  /\ current = 2
  /\ written = 0
  /\ ahead = "none"
  /\ read = 0
  /\ received = <<>>

-----------------------------------------------------------------------------
(* QUIC to socket                                                          *)

(* relay_copy, on the client, reads into one buffer and writes it.         *)
batch == IF side = "client" THEN 1 ELSE BATCH

(* Batches of at most BATCH chunks of at most BUFFER bytes each.           *)
read_chunks ==
  /\ up = "read"
  /\ \E count \in 1..batch : \E ends \in [0..count -> taken..QuicBytes] :
       /\ ends[0] = taken
       /\ \A i \in 1..count : ends[i] - ends[i - 1] \in 1..BUFFER
       /\ chunks' = [i \in 1..count |-> Bytes(ends[i - 1], ends[i] - ends[i - 1])]
       /\ taken' = ends[count]
  /\ up' = "write"
  /\ UNCHANGED delivered

\* Slip: a chunk that was written in part is written again from its start.
advance_whole_chunks(whole, part) == SubSeq(chunks, whole + 1, Len(chunks))

(* What is left of the batch when so many chunks of it, and a part of the  *)
(* next, are written: these go, and the next is advanced.                  *)
advance(whole, part) ==
  LET rest == SubSeq(chunks, whole + 1, Len(chunks))
  IN  IF part = 0 THEN rest
      ELSE <<SubSeq(Head(rest), part + 1, Len(Head(rest)))>> \o Tail(rest)

(* The first chunks of a batch, end to end.                                *)
Joined(batch_chunks, whole) ==
  LET join[i \in 0..whole] == IF i = 0 THEN <<>> ELSE join[i - 1] \o batch_chunks[i]
  IN  join[whole]

(* A stream without vectored writes takes bytes of the first slice only.   *)
is_write_vectored == inner # "single"

(* A write takes some bytes, which end in a chunk or with one.             *)
poll_write_vectored(whole, part) ==
  /\ whole + part > 0
  /\ IF whole = Len(chunks) THEN part = 0 ELSE part < Len(chunks[whole + 1])
  /\ is_write_vectored \/ whole = 0 \/ (whole = 1 /\ part = 0)

write_vectored ==
  /\ up = "write"
  /\ \E whole \in 0..Len(chunks), part \in 0..BUFFER :
       /\ poll_write_vectored(whole, part)
       /\ delivered' = delivered \o Joined(chunks, whole)
                           \o (IF part = 0 THEN <<>> ELSE SubSeq(chunks[whole + 1], 1, part))
       /\ chunks' = advance(whole, part)
       /\ up' = IF advance(whole, part) = <<>> THEN "read" ELSE "write"
  /\ UNCHANGED taken

(* The QUIC stream has ended.                                              *)
UpEof ==
  /\ up = "read"
  /\ taken = QuicBytes
  /\ up' = "flush"
  /\ UNCHANGED <<chunks, taken, delivered>>

(* The socket is flushed and shut down for writing.                        *)
UpFinishes ==
  /\ up = "flush"
  /\ up' = "ok"
  /\ UNCHANGED <<chunks, taken, delivered>>

UpFails ==
  /\ \/ up = "read" /\ up' = "read_failed"
     \/ up \in {"write", "flush"} /\ up' = "write_failed"
  /\ UNCHANGED <<chunks, taken, delivered>>

\* Slip: the vectored write has no stall timeout.
UpStalls_never == FALSE /\ UNCHANGED upVars

(* write_all_vectored_with_stall_timeout                                   *)
UpStalls ==
  /\ side = "server"
  /\ up = "write"
  /\ up' = "write_failed"
  /\ UNCHANGED <<chunks, taken, delivered>>

-----------------------------------------------------------------------------
(* Socket to QUIC                                                          *)

(* A boxed target is not read ahead of; the client's socket is.            *)
reads_ahead == inner = "plain"

next == IF reads_ahead THEN 3 - current ELSE current

(* A read that nothing is written meanwhile: the first, every one of a     *)
(* boxed target, and the one awaited after its write has ended.            *)
ReadBuf ==
  /\ down = "read"
  /\ \E n \in 1..BUFFER :
       /\ read + n <= SocketBytes
       /\ buffers' = [buffers EXCEPT ![next] = Bytes(read, n)]
       /\ read' = read + n
  /\ current' = next
  /\ written' = 0
  /\ down' = "write"
  /\ UNCHANGED <<inner, ahead, received>>

(* Zero bytes: flush, then finish the QUIC stream.                         *)
ReadEof ==
  /\ down = "read"
  /\ read = SocketBytes
  /\ down' = "finish"
  /\ UNCHANGED <<inner, buffers, current, written, ahead, read, received>>

\* Slip: the speculative read goes into the buffer that is being written.
ReadAhead_into_current ==
  /\ down = "write" /\ reads_ahead /\ ahead = "none"
  /\ \E n \in 0..BUFFER :
       /\ n = 0 <=> read = SocketBytes
       /\ read + n <= SocketBytes
       /\ buffers' = [buffers EXCEPT ![current] = Bytes(read, n)]
       /\ read' = read + n
  /\ ahead' = "done"
  /\ UNCHANGED <<down, inner, current, written, received>>

(* The speculative read of the select! ends before the write; zero bytes   *)
(* at the end of the socket's stream.                                      *)
ReadAhead ==
  /\ down = "write" /\ reads_ahead /\ ahead = "none"
  /\ \E n \in 0..BUFFER :
       /\ n = 0 <=> read = SocketBytes
       /\ read + n <= SocketBytes
       /\ buffers' = [buffers EXCEPT ![next] = Bytes(read, n)]
       /\ read' = read + n
  /\ ahead' = "done"
  /\ UNCHANGED <<down, inner, current, written, received>>

\* Slip: the error of the speculative read ends the task at once.
ReadAheadFails_at_once ==
  /\ down = "write" /\ reads_ahead /\ ahead = "none"
  /\ down' = "read_failed"
  /\ UNCHANGED <<inner, buffers, current, written, ahead, read, received>>

(* "A speculative read error must not cancel a partially completed QUIC    *)
(* write, so retain it until the current buffer is committed."             *)
ReadAheadFails ==
  /\ down = "write" /\ reads_ahead /\ ahead = "none"
  /\ ahead' = "error"
  /\ UNCHANGED <<down, inner, buffers, current, written, read, received>>

(* The QUIC stream takes some bytes of the current buffer.                 *)
WriteSome ==
  /\ down = "write"
  /\ \E n \in 1..(Len(buffers[current]) - written) :
       /\ received' = received \o SubSeq(buffers[current], written + 1, written + n)
       /\ written' = written + n
  /\ UNCHANGED <<down, inner, buffers, current, ahead, read>>

(* The write has ended: the read result, if there is one, is looked at.    *)
WriteDone ==
  /\ down = "write"
  /\ written = Len(buffers[current])
  /\ \/ ahead = "none" /\ down' = "read" /\ UNCHANGED <<current, written>>
     \/ ahead = "error" /\ down' = "read_failed" /\ UNCHANGED <<current, written>>
     \/ /\ ahead = "done"
        /\ current' = next
        /\ written' = 0
        /\ down' = IF buffers[next] = <<>> THEN "finish" ELSE "write"
  /\ ahead' = "none"
  /\ UNCHANGED <<inner, buffers, read, received>>

DownFails ==
  /\ \/ down = "read" /\ down' = "read_failed"
     \/ down \in {"write", "finish"} /\ down' = "write_failed"
  /\ UNCHANGED <<inner, buffers, current, written, ahead, read, received>>

(* write_all_with_stall_timeout                                            *)
DownStalls ==
  /\ side = "server"
  /\ down = "write"
  /\ written < Len(buffers[current])
  /\ down' = "write_failed"
  /\ UNCHANGED <<inner, buffers, current, written, ahead, read, received>>

(* finish(); the server then waits until the client has acknowledged it.   *)
DownFinishes ==
  /\ down = "finish"
  /\ down' = "ok"
  /\ UNCHANGED <<inner, buffers, current, written, ahead, read, received>>

-----------------------------------------------------------------------------
(* The relay owns both directions.                                         *)
AbortBoth ==
  /\ up' = IF up \in Ended THEN up ELSE "aborted"
  /\ down' = IF down \in Ended THEN down ELSE "aborted"
  /\ UNCHANGED <<chunks, taken, delivered, inner, buffers, current,
                 written, ahead, read, received>>

\* Slip: the first task that ends ends the relay.
RelayOk_at_first ==
  /\ relay = "running"
  /\ up = "ok" \/ down = "ok"
  /\ relay' = "ok"
  /\ AbortBoth

RelayOk ==
  /\ relay = "running"
  /\ up = "ok" /\ down = "ok"
  /\ relay' = "ok"
  /\ UNCHANGED <<upVars, downVars>>

(* result?? returns at the first error and drops the JoinSet.              *)
RelayFails ==
  /\ side = "server"
  /\ relay = "running"
  /\ up \in Failed \/ down \in Failed
  /\ relay' = "failed"
  /\ AbortBoth

(* try_join! returns the first error and drops the other future.           *)
LocalRelayFails ==
  /\ side = "client"
  /\ relay = "running"
  /\ up \in Failed \/ down \in Failed
  /\ relay' = "failed"
  /\ AbortBoth

(* The relay itself is aborted, by a drain or by shutdown.                 *)
RelayAborted ==
  /\ relay = "running"
  /\ relay' = "aborted"
  /\ AbortBoth

UpSteps == read_chunks \/ write_vectored \/ UpEof \/ UpFinishes \/ UpFails \/ UpStalls

DownSteps ==
  \/ ReadBuf \/ ReadEof \/ ReadAhead \/ ReadAheadFails
  \/ WriteSome \/ WriteDone \/ DownFails \/ DownStalls \/ DownFinishes

RelayNext ==
  /\ UNCHANGED side
  /\ \/ relay = "running" /\ UpSteps /\ UNCHANGED <<relay, downVars>>
     \/ relay = "running" /\ DownSteps /\ UNCHANGED <<relay, upVars>>
     \/ RelayOk \/ RelayFails \/ LocalRelayFails \/ RelayAborted

(* Timers fire and ended tasks are joined; nothing is assumed of the       *)
(* client, of the target or of the connection.                             *)
RelayFairness ==
  /\ WF_relay_vars(relay = "running" /\ UpStalls /\ UNCHANGED <<side, relay, downVars>>)
  /\ WF_relay_vars(relay = "running" /\ (DownStalls \/ WriteDone) /\ UNCHANGED <<side, relay, upVars>>)
  /\ WF_relay_vars((RelayOk \/ RelayFails \/ LocalRelayFails) /\ UNCHANGED side)

-----------------------------------------------------------------------------
(* The end of a direction as its pipe sees it: success of the relay is     *)
(* success of both.                                                        *)
EndOf(direction) ==
  IF direction = "ok" \/ relay = "ok" THEN "eof"
  ELSE IF direction \in Ended THEN "broken" ELSE "open"

Up == INSTANCE BytePipe
        WITH Source <- QuicBytes, got <- delivered, end <- EndOf(up)
Down == INSTANCE BytePipe
        WITH Source <- SocketBytes, taken <- read, got <- received, end <- EndOf(down)

(* Each direction of the relay implements a pipe: through partial vectored *)
(* writes, batches, the change of buffers and errors on either side no     *)
(* byte is skipped, repeated or reordered, nothing moves after an error,   *)
(* and a relay that reports success has delivered both streams to the end. *)
ImplementsPipes == Up!PipeSpec /\ Down!PipeSpec

(* "A speculative read error must not cancel a partially completed QUIC    *)
(* write": when the socket's side breaks, all that was read from it before *)
(* has been written to QUIC.                                               *)
ReadErrorKeepsData == down = "read_failed" => Len(received) = read

(* "Bounds writes so a relay wedged on a target whose receive window stays *)
(* closed cannot block forever.": a write to a side that takes nothing any *)
(* more ends by the stall timeout.                                         *)
StalledWriteEnds ==
  side = "server" =>
    /\ up = "write" ~> up # "write"
    /\ down = "write" ~> down # "write"

=============================================================================
