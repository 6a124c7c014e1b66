--------------------------- MODULE TcpRelayProofs ---------------------------
(***************************************************************************)
(* Proofs about the relay of a TCP proxy stream, for streams and buffers   *)
(* of any length and any behaviour of the two ends: the direction from the *)
(* socket to QUIC, with the buffer it reads ahead, is a pipe.              *)
(***************************************************************************)
EXTENDS TcpRelay, SequenceTheorems, WellFoundedInduction, TLAPS

LEMMA BytesAre ==
  ASSUME NEW from \in Nat, NEW n \in Nat
  PROVE  /\ Bytes(from, n) \in Seq(Nat) /\ Len(Bytes(from, n)) = n
         /\ \A i \in 1..n : Bytes(from, n)[i] = from + i
<1>1. Bytes(from, n) \in [1..n -> Nat]
  BY DEF Bytes
<1>2. Bytes(from, n) \in Seq(Nat)
  BY <1>1, SeqDef
<1>3. Len(Bytes(from, n)) \in Nat /\ DOMAIN Bytes(from, n) = 1..Len(Bytes(from, n))
  BY <1>2, LenProperties
<1>4. \A m, k \in Nat : 1..m = 1..k => m = k
  OBVIOUS
<1>5. Len(Bytes(from, n)) = n
  BY <1>1, <1>3, <1>4
<1> QED
  BY <1>2, <1>5 DEF Bytes

(* Consecutive bytes, end to end.                                          *)
LEMMA BytesJoin ==
  ASSUME NEW m \in Nat, NEW w \in Nat, NEW n \in Nat, NEW l \in Nat,
         w <= m, w + n <= l
  PROVE  Bytes(0, m) \o SubSeq(Bytes(m - w, l), w + 1, w + n) = Bytes(0, m + n)
<1> DEFINE a == Bytes(0, m)
           b == Bytes(m - w, l)
           c == SubSeq(b, w + 1, w + n)
           d == Bytes(0, m + n)
<1>0. m - w \in Nat /\ m + n \in Nat /\ 0 \in Nat
  OBVIOUS
<1>1. a \in Seq(Nat) /\ Len(a) = m /\ \A i \in 1..m : a[i] = 0 + i
  BY <1>0, BytesAre
<1>2. b \in Seq(Nat) /\ Len(b) = l /\ \A i \in 1..l : b[i] = (m - w) + i
  BY <1>0, BytesAre
<1>3. d \in Seq(Nat) /\ Len(d) = m + n /\ \A i \in 1..(m + n) : d[i] = 0 + i
  BY <1>0, BytesAre
<1> HIDE DEF a, b, d
<1>4. c \in Seq(Nat) /\ Len(c) = n /\ \A i \in 1..n : c[i] = b[w + i]
  BY <1>2, SubSeqProperties
<1> HIDE DEF c
<1>5. \A i \in 1..n : c[i] = m + i
  BY <1>2, <1>4
<1>6. /\ a \o c \in Seq(Nat) /\ Len(a \o c) = m + n
      /\ \A i \in 1..(m + n) : (a \o c)[i] = IF i <= m THEN a[i] ELSE c[i - m]
  BY <1>1, <1>4, ConcatProperties
<1>7. ASSUME NEW i \in 1..(m + n)
      PROVE  (a \o c)[i] = d[i]
  <2>1. CASE i <= m
    BY <1>1, <1>3, <1>6, <2>1
  <2>2. CASE ~(i <= m)
    <3>1. i - m \in 1..n
      BY <2>2
    <3>2. (a \o c)[i] = c[i - m]
      BY <1>6, <2>2
    <3> QED
      BY <1>3, <1>5, <3>1, <3>2
  <2> QED
    BY <2>1, <2>2
<1>8. a \o c = d
  BY <1>3, <1>6, <1>7, SeqEqual
<1> QED
  BY <1>8 DEF a, b, c, d

-----------------------------------------------------------------------------
(* Bytes of the socket that QUIC has taken, and those in the buffer that   *)
(* is being written.                                                       *)
Got == Len(received)
InHand == Len(buffers[current])

DownType ==
  /\ down \in {"read", "write", "finish"} \cup Ended
  /\ current \in {1, 2}
  /\ buffers \in [{1, 2} -> Seq(Nat)]
  /\ written \in Nat /\ read \in Nat /\ read <= SocketBytes
  /\ ahead \in {"none", "done", "error"}
  /\ Got \in Nat

(* What was taken is a prefix of the socket's bytes.  While a buffer is    *)
(* written it holds the bytes from its first one on, and the buffer that   *)
(* was read ahead holds those that follow; at every other time all that    *)
(* was read has been taken.                                                *)
Contiguous ==
  /\ received = Bytes(0, Got)
  /\ down = "write" =>
       /\ written <= InHand /\ written <= Got
       /\ buffers[current] = Bytes(Got - written, InHand)
       /\ ahead # "done" => read = Got - written + InHand
       /\ ahead = "done" =>
            /\ reads_ahead
            /\ buffers[next] = Bytes(Got - written + InHand, Len(buffers[next]))
            /\ read = Got - written + InHand + Len(buffers[next])
            /\ buffers[next] = <<>> => read = SocketBytes
  /\ down = "read" => ahead = "none"
  /\ down \in {"read", "finish", "ok", "read_failed"} => read = Got
  /\ down \in {"finish", "ok"} => Got = SocketBytes
  /\ down \in {"write_failed", "aborted"} => Got <= read
  /\ relay = "ok" => down = "ok"
  /\ relay = "dialing" => down = "read"

DownInv == DownType /\ Contiguous

LEMMA SameDown ==
  ASSUME DownInv, UNCHANGED downVars, relay' = "ok" => down = "ok",
         relay' = "dialing" => down = "read"
  PROVE  DownInv'
BY DEF DownInv, DownType, Contiguous, downVars, Got, InHand, next, reads_ahead, Bytes

(* Reading into an empty hand: the bytes that follow those taken.          *)
LEMMA ReadBufStep ==
  ASSUME DownInv, relay = "running", UNCHANGED relay, ReadBuf
  PROVE  DownInv' /\ Down!Take
<1> USE RelayAssumption DEF DownInv, DownType
<1>1. PICK n \in 1..BUFFER :
        /\ read + n <= SocketBytes
        /\ buffers' = [buffers EXCEPT ![next] = Bytes(read, n)]
        /\ read' = read + n
  BY DEF ReadBuf
<1>2. /\ down = "read" /\ down' = "write" /\ current' = next /\ written' = 0
      /\ UNCHANGED <<inner, ahead, received>>
  BY DEF ReadBuf
<1>3. next \in {1, 2} /\ n \in Nat
  BY DEF next
<1>4. Bytes(read, n) \in Seq(Nat) /\ Len(Bytes(read, n)) = n
  BY <1>3, BytesAre
<1>5. buffers'[current'] = Bytes(read, n)
  BY <1>1, <1>2, <1>3
<1>6. DownType'
  BY <1>1, <1>2, <1>3, <1>4 DEF Got
<1>7. read = Got /\ Got' = Got /\ InHand' = n /\ ahead = "none"
  BY <1>2, <1>4, <1>5 DEF Contiguous, Got, InHand
<1>8. Contiguous'
  BY <1>1, <1>2, <1>3, <1>5, <1>7 DEF Contiguous, Ended
<1>9. Down!Take
  BY <1>1, <1>2, <1>3 DEF Down!Take, EndOf, Ended
<1> QED
  BY <1>6, <1>8, <1>9

(* Reading ahead: the bytes that follow those in hand, into the other      *)
(* buffer.                                                                 *)
LEMMA ReadAheadStep ==
  ASSUME DownInv, relay = "running", UNCHANGED relay, ReadAhead
  PROVE  DownInv' /\ Down!Take
<1> USE RelayAssumption DEF DownInv, DownType
<1>1. PICK n \in 0..BUFFER :
        /\ n = 0 <=> read = SocketBytes
        /\ read + n <= SocketBytes
        /\ buffers' = [buffers EXCEPT ![next] = Bytes(read, n)]
        /\ read' = read + n
  BY DEF ReadAhead
<1>2. /\ down = "write" /\ reads_ahead /\ ahead = "none" /\ ahead' = "done"
      /\ UNCHANGED <<down, inner, current, written, received>>
  BY DEF ReadAhead
<1>3. next \in {1, 2} /\ next # current /\ next' = next /\ reads_ahead' /\ n \in Nat
  BY <1>2 DEF next, reads_ahead
<1>4. Bytes(read, n) \in Seq(Nat) /\ Len(Bytes(read, n)) = n
  BY <1>3, BytesAre
<1>5. buffers'[next'] = Bytes(read, n) /\ buffers'[current'] = buffers[current]
  BY <1>1, <1>2, <1>3
<1>6. DownType'
  BY <1>1, <1>2, <1>3, <1>4 DEF Got
<1>7. Got' = Got /\ InHand' = InHand /\ Len(buffers'[next']) = n
  BY <1>2, <1>4, <1>5 DEF Got, InHand
<1>8. buffers'[next'] = <<>> => n = 0
  BY <1>7
<1>9. Contiguous'
  BY <1>1, <1>2, <1>3, <1>5, <1>7, <1>8 DEF Contiguous, Ended
<1>10. Down!Take
  BY <1>1, <1>2, <1>3 DEF Down!Take, EndOf, Ended
<1> QED
  BY <1>6, <1>9, <1>10

(* QUIC takes bytes of the buffer in hand, from where it had stopped.      *)
LEMMA WriteSomeStep ==
  ASSUME DownInv, relay = "running", UNCHANGED relay, WriteSome
  PROVE  DownInv' /\ Down!Deliver
<1> USE RelayAssumption DEF DownInv, DownType
<1>1. PICK n \in 1..(InHand - written) :
        /\ received' = received \o SubSeq(buffers[current], written + 1, written + n)
        /\ written' = written + n
  BY DEF WriteSome, InHand
<1>2. /\ down = "write" /\ UNCHANGED <<down, inner, buffers, current, ahead, read>>
  BY DEF WriteSome
<1>3. InHand \in Nat /\ Got \in Nat /\ n \in Nat /\ written + n <= InHand
  BY DEF InHand
<1>4. received = Bytes(0, Got) /\ buffers[current] = Bytes(Got - written, InHand)
      /\ written <= Got
  BY <1>2 DEF Contiguous
<1>5. received' = Bytes(0, Got + n)
  <2>1. written \in Nat
    OBVIOUS
  <2>2. Bytes(0, Got) \o SubSeq(Bytes(Got - written, InHand), written + 1, written + n)
          = Bytes(0, Got + n)
    BY ONLY ZenonT(60), <1>3, <1>4, <2>1, BytesJoin
  <2> QED
    BY <1>1, <1>4, <2>2
<1>6. Got' = Got + n
  BY <1>3, <1>5, BytesAre DEF Got
<1>7. DownType'
  BY <1>1, <1>2, <1>3, <1>6
<1>8. InHand' = InHand /\ Got' - written' = Got - written /\ next' = next
      /\ reads_ahead' = reads_ahead
  BY <1>1, <1>2, <1>3, <1>6 DEF InHand, next, reads_ahead
<1>9. Got' <= read
  <2>1. CASE ahead = "done"
    <3>1. next \in {1, 2}
      BY DEF next
    <3>2. PICK k \in Nat : k = Len(buffers[next])
      BY <3>1
    <3>3. read = Got - written + InHand + k
      BY <1>2, <2>1, <3>2 DEF Contiguous
    <3>4. written \in Nat
      OBVIOUS
    <3> QED
      BY ONLY <1>3, <1>6, <3>3, <3>4
  <2>2. CASE ahead # "done"
    BY <1>2, <1>3, <1>6, <2>2 DEF Contiguous
  <2> QED
    BY <2>1, <2>2
<1>10. Contiguous'
  <2>1. received' = Bytes(0, Got')
    BY <1>5, <1>6
  <2>2. written' <= InHand' /\ written' <= Got'
    BY <1>1, <1>3, <1>4, <1>6, <1>8
  <2> QED
    BY <1>2, <1>8, <2>1, <2>2 DEF Contiguous, Ended
<1>11. Down!Deliver
  <2>1. received' = [i \in 1..Got' |-> i]
    BY <1>3, <1>5, <1>6 DEF Bytes
  <2>2. Got' \in Got..read
    BY <1>3, <1>6, <1>9
  <2> QED
    BY <1>2, <2>1, <2>2 DEF Down!Deliver, EndOf, Ended, Got
<1> QED
  BY <1>7, <1>10, <1>11

(* The buffer in hand is written: the one read ahead, if any, is next.     *)
LEMMA WriteDoneStep ==
  ASSUME DownInv, relay = "running", UNCHANGED relay, WriteDone
  PROVE  DownInv' /\ [Down!Break]_(Down!pipe)
<1> USE RelayAssumption DEF DownInv, DownType
<1>1. /\ down = "write" /\ written = InHand /\ ahead' = "none"
      /\ UNCHANGED <<inner, buffers, read, received>>
  BY DEF WriteDone, InHand
<1>2. InHand \in Nat /\ Got \in Nat /\ Got' = Got /\ written <= Got
  BY <1>1 DEF InHand, Got, Contiguous
<1>3. CASE ahead \in {"none", "error"}
  <2>1. /\ down' = IF ahead = "none" THEN "read" ELSE "read_failed"
        /\ UNCHANGED <<current, written>>
    BY <1>3 DEF WriteDone
  <2>2. read = Got
    BY <1>1, <1>2, <1>3 DEF Contiguous
  <2>3. DownType'
    BY <1>1, <1>2, <2>1 DEF Ended
  <2>4. Contiguous'
    BY <1>1, <1>2, <2>1, <2>2 DEF Contiguous
  <2>5. [Down!Break]_(Down!pipe)
    BY <1>1, <2>1 DEF Down!Break, Down!pipe, EndOf, Ended
  <2> QED
    BY <2>3, <2>4, <2>5
<1>4. CASE ahead = "done"
  <2>1. /\ current' = next /\ written' = 0
        /\ down' = IF buffers[next] = <<>> THEN "finish" ELSE "write"
    BY <1>4 DEF WriteDone
  <2>2. next \in {1, 2}
    BY DEF next
  <2>3. PICK k \in Nat : k = Len(buffers[next])
    BY <2>2
  <2>4. /\ buffers[next] = Bytes(Got - written + InHand, k)
        /\ read = Got - written + InHand + k
        /\ buffers[next] = <<>> => read = SocketBytes
    BY <1>1, <1>4, <2>3 DEF Contiguous
  <2>5. Got - written + InHand = Got /\ Got = Got - 0
    BY ONLY <1>1, <1>2
  <2>6. buffers[next] = Bytes(Got, k) /\ read = Got + k
    BY <2>4, <2>5
  <2>7. InHand' = k /\ buffers'[current'] = Bytes(Got' - written', InHand')
    BY <1>1, <1>2, <2>1, <2>3, <2>5, <2>6 DEF InHand
  <2>8. DownType'
    BY <1>1, <1>2, <2>1, <2>2
  <2>9. CASE buffers[next] = <<>>
    <3>1. k = 0
      BY <2>3, <2>9
    <3>2. read = Got /\ read = SocketBytes /\ down' = "finish"
      BY ONLY <1>2, <2>1, <2>4, <2>6, <2>9, <3>1
    <3> QED
      BY <1>1, <1>2, <2>8, <3>2 DEF Contiguous, Down!pipe, EndOf, Ended
  <2>10. CASE buffers[next] # <<>>
    <3>1. down' = "write" /\ written' <= InHand' /\ written' <= Got'
      BY <1>2, <2>1, <2>7, <2>10
    <3>2. read' = Got' - written' + InHand'
      BY ONLY <1>1, <1>2, <2>1, <2>6, <2>7
    <3> QED
      BY <1>1, <1>2, <2>7, <2>8, <3>1, <3>2 DEF Contiguous, Down!pipe, EndOf, Ended
  <2> QED
    BY <2>9, <2>10
<1> QED
  BY <1>3, <1>4

(* Got never exceeds what was read.                                        *)
LEMMA GotIsRead ==
  ASSUME DownInv
  PROVE  Got <= read
<1> USE DEF DownInv, DownType
<1>1. CASE down = "write"
  <2>1. PICK k \in Nat : k = InHand
    BY DEF InHand
  <2>2. next \in {1, 2}
    BY DEF next
  <2>3. PICK j \in Nat : j = Len(buffers[next])
    BY <2>2
  <2>4. written <= k /\ (read = Got - written + k \/ read = Got - written + k + j)
    BY <1>1, <2>1, <2>3 DEF Contiguous
  <2>5. written \in Nat /\ Got \in Nat
    OBVIOUS
  <2> QED
    BY ONLY <2>4, <2>5
<1>2. CASE down # "write"
  BY <1>2 DEF Contiguous, Ended
<1> QED
  BY <1>1, <1>2

(* The other steps of the direction move no byte.                          *)
LEMMA DownOtherStep ==
  ASSUME DownInv, relay = "running", UNCHANGED relay,
         ReadEof \/ ReadAheadFails \/ DownFails \/ DownStalls \/ DownFinishes
  PROVE  DownInv' /\ [Down!Close \/ Down!Break]_(Down!pipe)
<1> USE DEF DownInv
<1>1. /\ UNCHANGED <<inner, buffers, current, written, read, received>>
      /\ \/ down = "read" /\ read = SocketBytes /\ down' = "finish" /\ UNCHANGED ahead
         \/ down = "write" /\ ahead = "none" /\ ahead' = "error" /\ UNCHANGED down
         \/ down = "read" /\ down' = "read_failed" /\ UNCHANGED ahead
         \/ down \in {"write", "finish"} /\ down' = "write_failed" /\ UNCHANGED ahead
         \/ down = "finish" /\ down' = "ok" /\ UNCHANGED ahead
  BY DEF ReadEof, ReadAheadFails, DownFails, DownStalls, DownFinishes
<1>2. Got' = Got /\ InHand' = InHand /\ next' = next /\ reads_ahead' = reads_ahead
  BY <1>1 DEF Got, InHand, next, reads_ahead
<1>3. DownType'
  BY <1>1, <1>2 DEF DownType, Ended
<1>4. Contiguous'
  BY <1>1, <1>2, GotIsRead DEF Contiguous
<1>5. [Down!Close \/ Down!Break]_(Down!pipe)
  BY <1>1 DEF Down!Close, Down!Break, Down!pipe, EndOf, Ended, Contiguous, Got
<1> QED
  BY <1>3, <1>4, <1>5

(* The ends of the relay: both directions are over, or both are dropped.   *)
LEMMA RelayEndStep ==
  ASSUME DownInv, RelayOk \/ RelayFails \/ LocalRelayFails \/ RelayAborted
  PROVE  DownInv' /\ [Down!Break]_(Down!pipe)
<1> USE DEF DownInv
<1>1. CASE RelayOk
  BY <1>1, SameDown DEF RelayOk, downVars, Down!pipe, EndOf
<1>2. CASE RelayFails \/ LocalRelayFails \/ RelayAborted
  <2>1. /\ relay = "running" /\ relay' \in {"failed", "aborted"}
        /\ down' = IF down \in Ended THEN down ELSE "aborted"
        /\ UNCHANGED <<inner, buffers, current, written, ahead, read, received>>
    BY <1>2 DEF RelayFails, LocalRelayFails, RelayAborted, AbortBoth
  <2>2. Got' = Got
    BY <2>1 DEF Got
  <2>3. DownType'
    BY <2>1, <2>2 DEF DownType, Ended
  <2>4. Contiguous'
    BY <2>1, <2>2, GotIsRead DEF Contiguous, Ended
  <2>5. [Down!Break]_(Down!pipe)
    BY <2>1 DEF Down!Break, Down!pipe, EndOf, Ended
  <2> QED
    BY <2>3, <2>4, <2>5
<1> QED
  BY <1>1, <1>2

(* Every step of the relay is a step of the pipe, or none.                 *)
LEMMA RelayStepIsPipeStep ==
  ASSUME DownInv, [RelayNext]_relay_vars
  PROVE  DownInv' /\ [Down!PipeNext]_(Down!pipe)
<1>1. CASE relay = "running" /\ UpSteps /\ UNCHANGED <<relay, downVars>>
  <2>1. DownInv'
    BY <1>1, SameDown DEF DownInv
  <2>2. UNCHANGED Down!pipe
    BY <1>1 DEF downVars, Down!pipe, EndOf
  <2> QED
    BY <2>1, <2>2
<1>2. CASE relay = "running" /\ DownSteps /\ UNCHANGED <<relay, upVars>>
  BY <1>2, ReadBufStep, ReadAheadStep, WriteSomeStep, WriteDoneStep, DownOtherStep
  DEF DownSteps, Down!PipeNext
<1>3. CASE RelayOk \/ RelayFails \/ LocalRelayFails \/ RelayAborted
  BY <1>3, RelayEndStep DEF Down!PipeNext
<1>4. CASE UNCHANGED relay_vars
  <2>1. UNCHANGED relay /\ UNCHANGED downVars
    BY <1>4 DEF relay_vars
  <2>2. relay = "ok" => down = "ok"
    BY DEF DownInv, Contiguous
  <2>3. relay = "dialing" => down = "read"
    BY DEF DownInv, Contiguous
  <2>4. DownInv'
    BY <2>1, <2>2, <2>3, SameDown
  <2>5. UNCHANGED Down!pipe
    BY <2>1 DEF downVars, Down!pipe, EndOf
  <2> QED
    BY <2>4, <2>5
<1> QED
  BY <1>1, <1>2, <1>3, <1>4 DEF RelayNext

LEMMA RelayInitDownInv ==
  ASSUME NEW first \in {"dialing", "running", "udp"}, RelayInit(first)
  PROVE  DownInv /\ Down!PipeInit
<1> USE RelayAssumption DEF RelayInit
<1>1. received = <<>> /\ Got = 0
  BY DEF Got
<1>2. Bytes(0, 0) = <<>>
  <2>1. Bytes(0, 0) \in Seq(Nat) /\ Len(Bytes(0, 0)) = 0
    BY BytesAre
  <2> QED
    BY <2>1
<1>3. DownType
  <2>1. <<>> \in Seq(Nat)
    BY EmptySeq
  <2>2. 1..2 = {1, 2}
    OBVIOUS
  <2>3. \A S, e : e \in S => <<e, e>> \in Seq(S) /\ Len(<<e, e>>) = 2
    OBVIOUS
  <2>4. buffers \in Seq(Seq(Nat)) /\ Len(buffers) = 2
    BY <2>1, <2>3
  <2>5. buffers \in [{1, 2} -> Seq(Nat)]
    BY ONLY <2>2, <2>4, LenProperties
  <2> QED
    BY <1>1, <2>5 DEF DownType
<1>4. Contiguous
  BY <1>1, <1>2 DEF Contiguous
<1>5. Down!PipeInit
  BY <1>1 DEF Down!PipeInit, EndOf, Ended
<1> QED
  BY <1>3, <1>4, <1>5 DEF DownInv

-----------------------------------------------------------------------------
(* The direction from QUIC to the socket.  First, induction on Nat, for    *)
(* sets: what has no least counterexample holds of every number.           *)
LEMMA NatSet ==
  ASSUME NEW S, 0 \in S, \A n \in Nat : n \in S => n + 1 \in S
  PROVE  Nat \subseteq S
<1> DEFINE T == Nat \ S
           R == {ss \in Nat \X Nat : ss[1] < ss[2]}
<1>1. SUFFICES ASSUME T # {} PROVE FALSE
  OBVIOUS
<1>2. IsWellFoundedOn(R, Nat)
  BY ONLY NatLessThanWellFounded DEF OpToRel
<1> HIDE DEF R
<1>3. PICK x \in T : \A y \in T : ~(<<y, x>> \in R)
  BY <1>1, <1>2, WFMin
<1>4. x \in Nat /\ x # 0
  OBVIOUS
<1>5. x - 1 \in Nat /\ x - 1 < x /\ x = (x - 1) + 1
  BY <1>4
<1>6. <<x - 1, x>> \in R
  BY <1>4, <1>5 DEF R
<1> QED
  BY <1>3, <1>4, <1>5, <1>6

LEMMA BytesConcat ==
  ASSUME NEW a \in Nat, NEW m \in Nat, NEW n \in Nat
  PROVE  Bytes(a, m) \o Bytes(a + m, n) = Bytes(a, m + n)
<1> DEFINE x == Bytes(a, m)
           y == Bytes(a + m, n)
           z == Bytes(a, m + n)
<1>0. a + m \in Nat /\ m + n \in Nat
  OBVIOUS
<1>1. x \in Seq(Nat) /\ Len(x) = m /\ \A i \in 1..m : x[i] = a + i
  BY <1>0, BytesAre
<1>2. y \in Seq(Nat) /\ Len(y) = n /\ \A i \in 1..n : y[i] = (a + m) + i
  BY <1>0, BytesAre
<1>3. z \in Seq(Nat) /\ Len(z) = m + n /\ \A i \in 1..(m + n) : z[i] = a + i
  BY <1>0, BytesAre
<1> HIDE DEF x, y, z
<1>4. /\ x \o y \in Seq(Nat) /\ Len(x \o y) = m + n
      /\ \A i \in 1..(m + n) : (x \o y)[i] = IF i <= m THEN x[i] ELSE y[i - m]
  BY <1>1, <1>2, ConcatProperties
<1>5. ASSUME NEW i \in 1..(m + n)
      PROVE  (x \o y)[i] = z[i]
  <2>1. CASE i <= m
    BY <1>1, <1>3, <1>4, <2>1
  <2>2. CASE ~(i <= m)
    <3>1. i - m \in 1..n /\ (a + m) + (i - m) = a + i
      BY <2>2
    <3>2. (x \o y)[i] = y[i - m]
      BY <1>4, <2>2
    <3> QED
      BY <1>2, <1>3, <3>1, <3>2
  <2> QED
    BY <2>1, <2>2
<1>6. x \o y = z
  BY <1>3, <1>4, <1>5, SeqEqual
<1> QED
  BY <1>6 DEF x, y, z

(* A part of consecutive bytes is consecutive.                             *)
LEMMA BytesPart ==
  ASSUME NEW a \in Nat, NEW l \in Nat
  PROVE  \A u, v \in Nat : 1 <= u /\ u <= v + 1 /\ v <= l =>
           SubSeq(Bytes(a, l), u, v) = Bytes(a + (u - 1), v - (u - 1))
<1> SUFFICES ASSUME NEW u \in Nat, NEW v \in Nat, 1 <= u, u <= v + 1, v <= l
             PROVE  SubSeq(Bytes(a, l), u, v) = Bytes(a + (u - 1), v - (u - 1))
  OBVIOUS
<1> DEFINE p == u - 1
           q == v - (u - 1)
           x == Bytes(a, l)
           y == SubSeq(x, u, v)
           z == Bytes(a + p, q)
<1>0. a + p \in Nat /\ q \in Nat /\ p \in Nat /\ u = p + 1 /\ v = p + q
  OBVIOUS
<1> HIDE DEF p, q
<1>1. x \in Seq(Nat) /\ Len(x) = l /\ \A i \in 1..l : x[i] = a + i
  BY BytesAre
<1>2. z \in Seq(Nat) /\ Len(z) = q /\ \A i \in 1..q : z[i] = (a + p) + i
  BY <1>0, BytesAre
<1> HIDE DEF x, z
<1>3. y \in Seq(Nat) /\ Len(y) = q /\ \A i \in 1..q : y[i] = x[u + i - 1]
  <2>1. \A i \in u..v : x[i] \in Nat
    BY <1>1
  <2>2. v - u + 1 = q /\ (IF u <= v THEN v - u + 1 ELSE 0) = q
    BY <1>0
  <2>3. u \in Int /\ v \in Int
    OBVIOUS
  <2>4. /\ y \in Seq(Nat) /\ Len(y) = IF u <= v THEN v - u + 1 ELSE 0
        /\ \A i \in 1..(v - u + 1) : y[i] = x[u + i - 1]
    BY <2>1, <2>3, SubSeqProperties
  <2> QED
    BY <2>2, <2>4
<1> HIDE DEF y
<1>4. ASSUME NEW i \in 1..q
      PROVE  y[i] = z[i]
  <2>1. u + i - 1 \in 1..l /\ u + i - 1 = p + i /\ a + (p + i) = (a + p) + i
    BY <1>0
  <2>2. y[i] = x[p + i] /\ x[p + i] = a + (p + i) /\ z[i] = (a + p) + i
    BY <1>1, <1>2, <1>3, <2>1
  <2> QED
    BY <2>1, <2>2
<1>5. y = z
  BY <1>2, <1>3, <1>4, SeqEqual
<1> QED
  BY <1>5 DEF p, q, x, y, z

(* Chunks laid end to end: ends[i] bytes of the stream end the i-th.       *)
Laid(cs, n, ends) ==
  /\ ends \in [0..n -> Nat]
  /\ \A i \in 1..n : ends[i - 1] <= ends[i] /\ cs[i] = Bytes(ends[i - 1], ends[i] - ends[i - 1])

LEMMA LaidAt ==
  ASSUME NEW cs, NEW n \in Nat, NEW ends, Laid(cs, n, ends)
  PROVE  \A j \in 1..n :
           /\ ends[j - 1] \in Nat /\ ends[j] \in Nat /\ ends[j - 1] <= ends[j]
           /\ cs[j] = Bytes(ends[j - 1], ends[j] - ends[j - 1])
BY DEF Laid

LEMMA EndsGrow ==
  ASSUME NEW cs, NEW n \in Nat, NEW ends, Laid(cs, n, ends), NEW i \in 0..n, NEW j \in i..n
  PROVE  ends[i] <= ends[j]
<1> DEFINE S == {k \in Nat : i + k <= n => ends[i] <= ends[i + k]}
<1>0. ends \in [0..n -> Nat] /\ \A m \in 1..n : ends[m - 1] <= ends[m]
  BY DEF Laid
<1>1. 0 \in S
  BY <1>0
<1>2. ASSUME NEW k \in Nat, k \in S
      PROVE  k + 1 \in S
  <2>1. SUFFICES ASSUME i + (k + 1) <= n
                 PROVE  ends[i] <= ends[i + (k + 1)]
    OBVIOUS
  <2>2. i + (k + 1) \in 1..n /\ (i + (k + 1)) - 1 = i + k /\ i + k \in 0..n
    BY <2>1
  <2>3. ends[i + k] <= ends[i + (k + 1)]
    BY <1>0, <2>2
  <2>4. ends[i] <= ends[i + k]
    BY <1>2, <2>2
  <2>5. ends[i] \in Nat /\ ends[i + k] \in Nat /\ ends[i + (k + 1)] \in Nat
    BY <1>0, <2>2
  <2> QED
    BY <2>3, <2>4, <2>5
<1> HIDE DEF S
<1>3. Nat \subseteq S
  BY <1>1, <1>2, NatSet
<1>4. j - i \in Nat /\ i + (j - i) = j /\ j <= n
  OBVIOUS
<1>5. j - i \in S
  BY <1>3, <1>4
<1> QED
  BY <1>4, <1>5 DEF S

(* The first chunks of the batch are the stream's bytes up to the end of   *)
(* the last of them.                                                       *)
LEMMA JoinedIs ==
  ASSUME NEW cs, NEW n \in Nat, NEW ends, Laid(cs, n, ends), NEW whole \in 0..n
  PROVE  Joined(cs, whole) = Bytes(ends[0], ends[whole] - ends[0])
<1> DEFINE f[i \in 0..whole] == IF i = 0 THEN <<>> ELSE f[i - 1] \o cs[i]
           G == [i \in 0..whole |-> Bytes(ends[0], ends[i] - ends[0])]
           Solves(g) == g = [i \in 0..whole |-> IF i = 0 THEN <<>> ELSE g[i - 1] \o cs[i]]
<1>0. /\ ends \in [0..n -> Nat]
      /\ \A i \in 1..n : ends[i - 1] <= ends[i] /\ cs[i] = Bytes(ends[i - 1], ends[i] - ends[i - 1])
  BY DEF Laid
<1>1. \A i \in 0..n : ends[0] <= ends[i] /\ ends[i] - ends[0] \in Nat
  <2>1. ASSUME NEW i \in 0..n PROVE ends[0] <= ends[i]
    <3>1. 0 \in 0..n /\ i \in 0..n
      OBVIOUS
    <3> QED
      BY <3>1, EndsGrow
  <2> QED
    BY <1>0, <2>1
<1>2. Bytes(ends[0], 0) = <<>>
  <2>1. ends[0] \in Nat
    BY <1>0
  <2>2. Bytes(ends[0], 0) \in Seq(Nat) /\ Len(Bytes(ends[0], 0)) = 0
    BY <2>1, BytesAre
  <2> QED
    BY <2>2
<1>3. \A i \in 1..whole : G[i - 1] \o cs[i] = G[i]
  <2>1. SUFFICES ASSUME NEW i \in 1..whole
                 PROVE  G[i - 1] \o cs[i] = G[i]
    OBVIOUS
  <2>2. i \in 1..n /\ i - 1 \in 0..n /\ i \in 0..n /\ i - 1 \in 0..whole /\ i \in 0..whole
    OBVIOUS
  <2> DEFINE a == ends[0]
             m == ends[i - 1] - ends[0]
             k == ends[i] - ends[i - 1]
  <2>3. a \in Nat /\ m \in Nat /\ k \in Nat /\ a + m = ends[i - 1] /\ m + k = ends[i] - ends[0]
    <3>1. ends[0] \in Nat /\ ends[i - 1] \in Nat /\ ends[i] \in Nat
      BY <1>0, <2>2
    <3>2. ends[0] <= ends[i - 1] /\ ends[i - 1] <= ends[i]
      BY <1>0, <1>1, <2>2
    <3>3. \A x, y, z \in Nat : x <= y /\ y <= z =>
             /\ y - x \in Nat /\ z - y \in Nat /\ x + (y - x) = y /\ (y - x) + (z - y) = z - x
      OBVIOUS
    <3> QED
      BY <3>1, <3>2, <3>3
  <2>4. Bytes(a, m) \o Bytes(a + m, k) = Bytes(a, m + k)
    <3> HIDE DEF a, m, k
    <3> QED
      BY <2>3, BytesConcat
  <2>5. cs[i] = Bytes(a + m, k)
    BY <1>0, <2>2, <2>3
  <2> QED
    BY <2>2, <2>3, <2>4, <2>5
<1>4. Solves(G)
  <2>1. \A i \in 0..whole : G[i] = IF i = 0 THEN <<>> ELSE G[i - 1] \o cs[i]
    <3>1. ASSUME NEW i \in 0..whole
          PROVE  G[i] = IF i = 0 THEN <<>> ELSE G[i - 1] \o cs[i]
      <4>1. CASE i = 0
        BY <1>0, <1>2, <4>1
      <4>2. CASE i # 0
        <5>1. i \in 1..whole
          BY <4>2
        <5> QED
          BY <1>3, <4>2, <5>1
      <4> QED
        BY <4>1, <4>2
    <3> QED
      BY <3>1
  <2> QED
    BY <2>1
<1>5. f = CHOOSE g : Solves(g)
  OBVIOUS
<1> HIDE DEF f, G, Solves
<1>6. Solves(f)
  BY <1>4, <1>5
<1>7. \A i \in 0..whole : f[i] = IF i = 0 THEN <<>> ELSE f[i - 1] \o cs[i]
  BY <1>6 DEF Solves
<1>8. \A i \in 0..whole : G[i] = IF i = 0 THEN <<>> ELSE G[i - 1] \o cs[i]
  BY <1>4 DEF Solves
<1> DEFINE S == {i \in Nat : i <= whole => f[i] = G[i]}
<1>9. 0 \in S
  BY <1>7, <1>8
<1>10. ASSUME NEW i \in Nat, i \in S
       PROVE  i + 1 \in S
  <2>1. SUFFICES ASSUME i + 1 <= whole
                 PROVE  f[i + 1] = G[i + 1]
    OBVIOUS
  <2>2. i + 1 \in 0..whole /\ i + 1 # 0 /\ (i + 1) - 1 = i
    BY <2>1
  <2>3. f[i] = G[i]
    BY <1>10, <2>1
  <2> QED
    BY <1>7, <1>8, <2>2, <2>3
<1> HIDE DEF S
<1>11. Nat \subseteq S
  BY <1>9, <1>10, NatSet
<1>12. f[whole] = G[whole]
  BY <1>11 DEF S
<1> QED
  BY <1>12 DEF Joined, f, G

-----------------------------------------------------------------------------
(* Bytes of QUIC's stream that the socket has taken.                       *)
Put == Len(delivered)

(* What was taken is a prefix of the stream's bytes.  While a batch is     *)
(* written, its chunks are the bytes that follow, up to the last one read; *)
(* before the next one is read all of it has been taken.                   *)
UpInv ==
  /\ up \in {"read", "write", "flush"} \cup Ended
  /\ taken \in Nat /\ taken <= QuicBytes /\ Put \in Nat /\ Put <= taken
  /\ delivered = Bytes(0, Put)
  /\ up = "write" =>
       /\ chunks \in Seq(Seq(Nat))
       /\ \E ends : Laid(chunks, Len(chunks), ends) /\ ends[0] = Put /\ ends[Len(chunks)] = taken
  /\ up = "read" => taken = Put
  /\ up \in {"flush", "ok"} => Put = QuicBytes
  /\ relay = "ok" => up = "ok"
  /\ relay = "dialing" => up = "read"

LEMMA SameUp ==
  ASSUME UpInv, UNCHANGED upVars, relay' = "ok" => up = "ok", relay' = "dialing" => up = "read"
  PROVE  UpInv'
BY DEF UpInv, upVars, Put, Laid, Bytes

(* A batch holds the bytes that follow those read before.                  *)
LEMMA read_chunksStep ==
  ASSUME UpInv, relay = "running", UNCHANGED relay, read_chunks
  PROVE  UpInv' /\ Up!Take
<1> USE RelayAssumption
<1>1. PICK count \in 1..batch : \E ends \in [0..count -> taken..QuicBytes] :
        /\ ends[0] = taken
        /\ \A i \in 1..count : ends[i] - ends[i - 1] \in 1..BUFFER
        /\ chunks' = [i \in 1..count |-> Bytes(ends[i - 1], ends[i] - ends[i - 1])]
        /\ taken' = ends[count]
  BY DEF read_chunks
<1>2. PICK ends \in [0..count -> taken..QuicBytes] :
        /\ ends[0] = taken
        /\ \A i \in 1..count : ends[i] - ends[i - 1] \in 1..BUFFER
        /\ chunks' = [i \in 1..count |-> Bytes(ends[i - 1], ends[i] - ends[i - 1])]
        /\ taken' = ends[count]
  BY <1>1
<1>3. up = "read" /\ up' = "write" /\ UNCHANGED delivered /\ taken \in Nat /\ taken = Put /\ Put' = Put
      /\ delivered = Bytes(0, Put)
  BY DEF read_chunks, UpInv, Put
<1>4. count \in Nat
  BY DEF batch
<1>5. ends \in [0..count -> Nat] /\ \A i \in 1..count : ends[i - 1] <= ends[i] /\ ends[i] - ends[i - 1] \in Nat
                                                        /\ ends[i - 1] \in Nat
  <2>1. ends \in [0..count -> Nat]
    BY <1>2, <1>3
  <2>2. ASSUME NEW i \in 1..count
        PROVE  ends[i - 1] <= ends[i] /\ ends[i] - ends[i - 1] \in Nat /\ ends[i - 1] \in Nat
    <3>1. i - 1 \in 0..count /\ i \in 0..count
      BY <1>4
    <3>2. ends[i - 1] \in Nat /\ ends[i] \in Nat /\ ends[i] - ends[i - 1] \in 1..BUFFER
      BY <1>2, <2>1, <3>1
    <3> QED
      BY <3>2
  <2> QED
    BY <2>1, <2>2
<1>6. chunks' \in Seq(Seq(Nat)) /\ Len(chunks') = count
  <2>1. \A i \in 1..count : Bytes(ends[i - 1], ends[i] - ends[i - 1]) \in Seq(Nat)
    BY <1>5, BytesAre
  <2>2. chunks' \in [1..count -> Seq(Nat)]
    BY <1>2, <2>1
  <2>3. chunks' \in Seq(Seq(Nat))
    BY <1>4, <2>2, SeqDef
  <2>4. Len(chunks') \in Nat /\ DOMAIN chunks' = 1..Len(chunks')
    BY <2>3, LenProperties
  <2>5. \A m, k \in Nat : 1..m = 1..k => m = k
    OBVIOUS
  <2> QED
    BY <1>4, <2>2, <2>3, <2>4, <2>5
<1>7. Laid(chunks', Len(chunks'), ends)
  BY <1>2, <1>5, <1>6 DEF Laid
<1>8. taken' \in taken..QuicBytes
  BY <1>2, <1>4
<1>9. UpInv'
  <2>1. taken' \in Nat /\ taken' <= QuicBytes /\ Put' \in Nat /\ Put' <= taken' /\ delivered' = Bytes(0, Put')
    BY <1>3, <1>8 DEF UpInv
  <2>2. ends[0] = Put' /\ ends[Len(chunks')] = taken'
    BY <1>2, <1>3, <1>6
  <2> QED
    BY <1>3, <1>6, <1>7, <2>1, <2>2 DEF UpInv
<1>10. Up!Take
  BY <1>3, <1>8 DEF Up!Take, EndOf, Ended
<1> QED
  BY <1>9, <1>10

(* What is left of a batch is laid from where the write ended.             *)
LEMMA advanceIs ==
  ASSUME NEW n \in Nat, chunks \in Seq(Seq(Nat)), Len(chunks) = n,
         NEW ends, Laid(chunks, n, ends),
         NEW whole \in 0..n, NEW part \in Nat,
         IF whole = n THEN part = 0 ELSE part < Len(chunks[whole + 1])
  PROVE  LET left == advance(whole, part)
             rest == [i \in 0..(n - whole) |-> IF i = 0 THEN ends[whole] + part ELSE ends[whole + i]]
         IN  /\ left \in Seq(Seq(Nat)) /\ Len(left) = n - whole
             /\ Laid(left, n - whole, rest)
<1> DEFINE left == advance(whole, part)
           rest == [i \in 0..(n - whole) |-> IF i = 0 THEN ends[whole] + part ELSE ends[whole + i]]
           behind == SubSeq(chunks, whole + 1, n)
           m == n - whole
<1>0. m \in Nat /\ ends \in [0..n -> Nat]
  BY DEF Laid
<1>1. behind \in Seq(Seq(Nat)) /\ Len(behind) = m /\ \A i \in 1..m : behind[i] = chunks[whole + i]
  BY SubSeqProperties
<1> HIDE DEF behind
<1>2. \A i \in 1..m : /\ whole + i \in 1..n /\ whole + i - 1 \in 0..n /\ whole + i \in 0..n
                      /\ ends[whole + i - 1] \in Nat /\ ends[whole + i] \in Nat
                      /\ ends[whole + i - 1] <= ends[whole + i]
                      /\ behind[i] = Bytes(ends[whole + i - 1], ends[whole + i] - ends[whole + i - 1])
  <2>1. SUFFICES ASSUME NEW i \in 1..m
                 PROVE  /\ whole + i \in 1..n /\ whole + i - 1 \in 0..n /\ whole + i \in 0..n
                        /\ ends[whole + i - 1] \in Nat /\ ends[whole + i] \in Nat
                        /\ ends[whole + i - 1] <= ends[whole + i]
                        /\ behind[i] = Bytes(ends[whole + i - 1], ends[whole + i] - ends[whole + i - 1])
    OBVIOUS
  <2>2. whole + i \in 1..n /\ whole + i - 1 \in 0..n /\ whole + i \in 0..n
    BY <1>0
  <2>3. behind[i] = chunks[whole + i]
    BY <1>1
  <2>4. PICK j \in 1..n : j = whole + i
    BY <2>2
  <2>5. /\ ends[j - 1] \in Nat /\ ends[j] \in Nat /\ ends[j - 1] <= ends[j]
        /\ chunks[j] = Bytes(ends[j - 1], ends[j] - ends[j - 1])
    BY ONLY LaidAt, n \in Nat, Laid(chunks, n, ends), j \in 1..n
  <2>6. i \in Nat /\ whole \in Nat /\ j \in Nat
    BY <1>0
  <2> QED
    BY ONLY <2>2, <2>3, <2>4, <2>5, <2>6
<1>3. CASE part = 0
  <2>1. left = behind
    BY <1>3 DEF advance, behind
  <2>2. \A i \in 0..m : rest[i] = ends[whole + i] /\ rest[i] \in Nat
    <3>1. ends[whole] \in Nat /\ ends[whole] + 0 = ends[whole] /\ whole + 0 = whole
      BY <1>0
    <3>2. \A i \in 0..m : whole + i \in 0..n
      BY <1>0
    <3> QED
      BY <1>0, <1>3, <3>1, <3>2
  <2>3. rest \in [0..m -> Nat]
    BY <2>2
  <2>4. ASSUME NEW i \in 1..m
        PROVE  rest[i - 1] <= rest[i] /\ left[i] = Bytes(rest[i - 1], rest[i] - rest[i - 1])
    <3>1. i - 1 \in 0..m /\ i \in 0..m /\ whole + (i - 1) = whole + i - 1
      BY <1>0
    <3>2. rest[i - 1] = ends[whole + i - 1] /\ rest[i] = ends[whole + i]
      BY <2>2, <3>1
    <3> QED
      BY <1>2, <2>1, <3>2
  <2>5. Laid(left, m, rest)
    BY <2>3, <2>4 DEF Laid
  <2> QED
    BY <1>1, <2>1, <2>5
<1>4. CASE part # 0
  <2> DEFINE h == Head(behind)
             b == SubSeq(h, part + 1, Len(h))
             t == Tail(behind)
  <2>1. whole # n /\ m >= 1 /\ 1 \in 1..m /\ behind # <<>> /\ part < Len(chunks[whole + 1])
    BY <1>0, <1>1, <1>4
  <2>2. h = behind[1] /\ h \in Seq(Nat) /\ t \in Seq(Seq(Nat)) /\ Len(t) = m - 1
        /\ \A i \in 1..(m - 1) : t[i] = behind[i + 1]
    BY <1>1, <2>1, HeadTailProperties
  <2>3. left = <<b>> \o t
    BY <1>4 DEF advance, behind
  <2> HIDE DEF h, t
  <2> DEFINE a == ends[whole]
             l == ends[whole + 1] - ends[whole]
  <2>4. a \in Nat /\ l \in Nat /\ h = Bytes(a, l) /\ ends[whole + 1] \in Nat /\ ends[whole + 1] = a + l
    <3>1. whole + 1 - 1 = whole
      OBVIOUS
    <3>2. ends[whole] \in Nat /\ ends[whole + 1] \in Nat /\ ends[whole] <= ends[whole + 1] /\ h = Bytes(a, l)
      BY <1>2, <2>1, <2>2, <3>1
    <3> QED
      BY <3>2
  <2>5. Len(h) = l /\ part < l
    <3>1. Len(h) = l
      <4> HIDE DEF a, l
      <4> QED
        BY <2>4, BytesAre
    <3> QED
      BY <1>1, <2>1, <2>2, <3>1
  <2>6. b = Bytes(a + part, l - part) /\ b \in Seq(Nat)
    <3> HIDE DEF a, l
    <3>1. /\ part + 1 \in Nat /\ 1 <= part + 1 /\ part + 1 <= l + 1 /\ (part + 1) - 1 = part
          /\ a + part \in Nat /\ l - part \in Nat
      BY <2>4, <2>5
    <3>a. \A u, v \in Nat : 1 <= u /\ u <= v + 1 /\ v <= l =>
             SubSeq(Bytes(a, l), u, v) = Bytes(a + (u - 1), v - (u - 1))
      BY <2>4, BytesPart
    <3>b. PICK u \in Nat : u = part + 1
      BY <3>1
    <3>c. l \in Nat /\ 1 <= u /\ u <= l + 1 /\ l <= l /\ u - 1 = part
      BY <2>4, <3>1, <3>b
    <3>2. SubSeq(Bytes(a, l), u, l) = Bytes(a + (u - 1), l - (u - 1))
      BY ONLY <3>a, <3>c
    <3>3. Bytes(a + part, l - part) \in Seq(Nat)
      BY <3>1, BytesAre
    <3> QED
      BY <2>4, <2>5, <3>2, <3>3, <3>b, <3>c
  <2> HIDE DEF b, l
  <2>7. /\ left \in Seq(Seq(Nat)) /\ Len(left) = m
        /\ left[1] = b /\ \A i \in 2..m : left[i] = behind[i]
    <3>1. <<b>> \in Seq(Seq(Nat)) /\ Len(<<b>>) = 1 /\ <<b>>[1] = b
      BY <2>6
    <3>2. PICK one : one = <<b>>
      OBVIOUS
    <3>3. /\ left \in Seq(Seq(Nat)) /\ Len(left) = 1 + (m - 1)
          /\ \A i \in 1..(1 + (m - 1)) : left[i] = IF i <= 1 THEN one[i] ELSE t[i - 1]
      BY <2>2, <2>3, <3>1, <3>2, ConcatProperties
    <3>4. 1 + (m - 1) = m
      BY <1>0
    <3>5. left[1] = b
      BY <2>1, <3>1, <3>2, <3>3, <3>4
    <3>6. ASSUME NEW i \in 2..m PROVE left[i] = behind[i]
      <4>1. i \in 1..m /\ ~(i <= 1) /\ i - 1 \in 1..(m - 1) /\ (i - 1) + 1 = i
        BY <1>0
      <4> QED
        BY <2>2, <3>3, <3>4, <4>1
    <3> QED
      BY <3>3, <3>4, <3>5, <3>6
  <2> HIDE DEF left
  <2>8. rest[0] = a + part /\ \A i \in 1..m : rest[i] = ends[whole + i] /\ rest[i] \in Nat
    <3>1. 0 \in 0..m /\ \A i \in 1..m : i \in 0..m /\ i # 0
      BY <1>0
    <3>2. \A i \in 1..m : ends[whole + i] \in Nat
      BY <1>2
    <3> HIDE DEF m
    <3> QED
      BY <3>1, <3>2
  <2>9. rest \in [0..m -> Nat]
    <3>1. a + part \in Nat
      BY <2>4
    <3>2. \A i \in 0..m : i = 0 \/ i \in 1..m
      BY <1>0
    <3>3. \A i \in 0..m : rest[i] \in Nat
      <4> HIDE DEF rest, m, a
      <4> QED
        BY <2>8, <3>1, <3>2
    <3> QED
      BY <3>3
  <2> HIDE DEF rest
  <2>10. rest[0] <= rest[1] /\ left[1] = Bytes(rest[0], rest[1] - rest[0])
    <3>1. rest[1] = a + l /\ (a + l) - (a + part) = l - part /\ a + part <= a + l
      <4>1. a \in Nat /\ l \in Nat /\ part < l
        BY <2>4, <2>5
      <4> HIDE DEF a
      <4> QED
        BY <2>1, <2>4, <2>8, <4>1
    <3> QED
      BY <2>6, <2>7, <2>8, <3>1
  <2>11. ASSUME NEW i \in 2..m
         PROVE  rest[i - 1] <= rest[i] /\ left[i] = Bytes(rest[i - 1], rest[i] - rest[i - 1])
    <3>1. i - 1 \in 1..m /\ i \in 1..m /\ whole + (i - 1) = whole + i - 1
      BY <1>0
    <3>2. rest[i - 1] = ends[whole + i - 1] /\ rest[i] = ends[whole + i]
      BY <2>8, <3>1
    <3> QED
      BY <1>2, <2>7, <3>1, <3>2
  <2>12. \A i \in 1..m : rest[i - 1] <= rest[i] /\ left[i] = Bytes(rest[i - 1], rest[i] - rest[i - 1])
    <3>1. ASSUME NEW i \in 1..m
          PROVE  rest[i - 1] <= rest[i] /\ left[i] = Bytes(rest[i - 1], rest[i] - rest[i - 1])
      <4>1. i = 1 \/ i \in 2..m
        BY <1>0
      <4>2. 1 - 1 = 0
        OBVIOUS
      <4> QED
        BY <2>10, <2>11, <4>1, <4>2
    <3> QED
      BY <3>1
  <2>13. Laid(left, m, rest)
    BY <2>9, <2>12 DEF Laid
  <2> QED
    BY <2>7, <2>13 DEF left, rest
<1> QED
  BY <1>3, <1>4

(* A write, partial or not, takes the bytes that follow those taken, and   *)
(* leaves those that follow these.                                         *)
LEMMA write_vectoredStep ==
  ASSUME UpInv, relay = "running", UNCHANGED relay, write_vectored
  PROVE  UpInv' /\ Up!Deliver
<1> USE RelayAssumption
<1>1. PICK whole \in 0..Len(chunks), part \in 0..BUFFER :
        /\ poll_write_vectored(whole, part)
        /\ delivered' = delivered \o Joined(chunks, whole)
                            \o (IF part = 0 THEN <<>> ELSE SubSeq(chunks[whole + 1], 1, part))
        /\ chunks' = advance(whole, part)
        /\ up' = IF advance(whole, part) = <<>> THEN "read" ELSE "write"
  BY DEF write_vectored
<1>2. /\ up = "write" /\ UNCHANGED taken /\ chunks \in Seq(Seq(Nat)) /\ taken \in Nat /\ taken <= QuicBytes
      /\ Put \in Nat /\ delivered = Bytes(0, Put)
  BY DEF write_vectored, UpInv
<1>3. PICK ends : Laid(chunks, Len(chunks), ends) /\ ends[0] = Put /\ ends[Len(chunks)] = taken
  BY <1>2 DEF UpInv
<1>4. PICK n \in Nat : n = Len(chunks)
  BY <1>2
<1>5. Laid(chunks, n, ends) /\ ends[0] = Put /\ ends[n] = taken /\ whole \in 0..n /\ part \in Nat
  BY <1>1, <1>3, <1>4
<1>6. IF whole = n THEN part = 0 ELSE part < Len(chunks[whole + 1])
  BY <1>1, <1>4 DEF poll_write_vectored
<1> DEFINE left == advance(whole, part)
           rest == [i \in 0..(n - whole) |-> IF i = 0 THEN ends[whole] + part ELSE ends[whole + i]]
           D == ends[whole] + part
<1>7. left \in Seq(Seq(Nat)) /\ Len(left) = n - whole /\ Laid(left, n - whole, rest)
  <2>1. n \in Nat /\ chunks \in Seq(Seq(Nat)) /\ Len(chunks) = n
    BY <1>2, <1>4
  <2> QED
    BY ONLY <2>1, <1>5, <1>6, advanceIs, ZenonT(60)
<1>8. ends \in [0..n -> Nat] /\ ends[whole] \in Nat /\ Put <= ends[whole] /\ ends[whole] <= taken
  <2>1. ends \in [0..n -> Nat]
    BY <1>5 DEF Laid
  <2>2. 0 \in 0..n /\ whole \in 0..n /\ whole \in 0..n /\ n \in whole..n
    BY <1>5
  <2>3. ends[0] <= ends[whole]
    BY ONLY <1>5, <2>2, EndsGrow, n \in Nat
  <2>4. ends[whole] <= ends[n]
    BY ONLY <1>5, <2>2, EndsGrow, n \in Nat
  <2> QED
    BY <1>5, <2>1, <2>2, <2>3, <2>4
<1>9. Joined(chunks, whole) = Bytes(Put, ends[whole] - Put)
  <2>1. Joined(chunks, whole) = Bytes(ends[0], ends[whole] - ends[0])
    BY ONLY <1>5, JoinedIs, n \in Nat
  <2> QED
    BY <1>5, <2>1
<1>10. Bytes(0, Put) \o Bytes(Put, ends[whole] - Put) = Bytes(0, ends[whole])
  <2>1. PICK k \in Nat : k = ends[whole] - Put
    BY <1>2, <1>8
  <2>2. 0 + Put = Put /\ Put + k = ends[whole] /\ 0 \in Nat
    BY <1>2, <1>8, <2>1
  <2>3. \A a, m, j \in Nat : Bytes(a, m) \o Bytes(a + m, j) = Bytes(a, m + j)
    BY BytesConcat
  <2>4. Bytes(0, Put) \o Bytes(0 + Put, k) = Bytes(0, Put + k)
    BY ONLY <1>2, <2>2, <2>3, k \in Nat
  <2> QED
    BY <2>1, <2>2, <2>4
<1>11. delivered' = Bytes(0, D) /\ D \in Nat /\ D <= taken
  <2>1. CASE part = 0
    <3>1. Bytes(0, ends[whole]) \in Seq(Nat)
      BY <1>8, BytesAre
    <3>2. Bytes(0, ends[whole]) \o <<>> = Bytes(0, ends[whole])
      BY <3>1
    <3>3. delivered' = Bytes(0, ends[whole]) \o <<>>
      BY <1>1, <1>2, <1>9, <1>10, <2>1
    <3>4. D = ends[whole]
      BY <1>8, <2>1
    <3> QED
      BY <1>8, <3>2, <3>3, <3>4
  <2>2. CASE part # 0
    <3>1. whole # n /\ part < Len(chunks[whole + 1]) /\ whole + 1 \in 1..n
      BY <1>5, <1>6, <2>2
    <3>2. PICK j \in 1..n : j = whole + 1
      BY <3>1
    <3>3. /\ ends[j - 1] \in Nat /\ ends[j] \in Nat /\ ends[j - 1] <= ends[j]
          /\ chunks[j] = Bytes(ends[j - 1], ends[j] - ends[j - 1])
      BY ONLY <1>5, LaidAt, n \in Nat, j \in 1..n
    <3>4. j - 1 = whole
      BY <1>5, <3>2
    <3>5. PICK l \in Nat : l = ends[j] - ends[whole]
      BY <3>3, <3>4
    <3>6. chunks[whole + 1] = Bytes(ends[whole], l)
      BY <3>2, <3>3, <3>4, <3>5
    <3>7. part < l
      <4>1. PICK a \in Nat : a = ends[whole]
        BY <1>8
      <4>2. Len(Bytes(a, l)) = l
        BY BytesAre
      <4> QED
        BY <3>1, <3>6, <4>1, <4>2
    <3>8. SubSeq(Bytes(ends[whole], l), 1, part) = Bytes(ends[whole], part)
      <4>1. PICK a \in Nat : a = ends[whole]
        BY <1>8
      <4>2. \A u, v \in Nat : 1 <= u /\ u <= v + 1 /\ v <= l =>
              SubSeq(Bytes(a, l), u, v) = Bytes(a + (u - 1), v - (u - 1))
        BY BytesPart
      <4>3. 1 \in Nat /\ part \in Nat /\ 1 <= 1 /\ 1 <= part + 1 /\ part <= l /\ a + (1 - 1) = a
            /\ part - (1 - 1) = part
        BY <1>5, <3>7
      <4>4. SubSeq(Bytes(a, l), 1, part) = Bytes(a + (1 - 1), part - (1 - 1))
        BY ONLY <4>2, <4>3
      <4> QED
        BY <4>1, <4>3, <4>4
    <3>9. delivered' = Bytes(0, ends[whole]) \o Bytes(ends[whole], part)
      BY <1>1, <1>2, <1>9, <1>10, <2>2, <3>6, <3>8
    <3>10. Bytes(0, ends[whole]) \o Bytes(ends[whole], part) = Bytes(0, D)
      <4>1. PICK a \in Nat : a = ends[whole]
        BY <1>8
      <4>2. \A b, m, k \in Nat : Bytes(b, m) \o Bytes(b + m, k) = Bytes(b, m + k)
        BY BytesConcat
      <4>3. Bytes(0, a) \o Bytes(0 + a, part) = Bytes(0, a + part)
        BY <1>5, <4>2
      <4>4. 0 + a = a
        OBVIOUS
      <4> QED
        BY <4>1, <4>3, <4>4
    <3>11. D <= ends[j] /\ ends[j] <= taken
      <4>1. j \in 0..n /\ n \in j..n
        OBVIOUS
      <4>2. ends[j] <= ends[n]
        BY ONLY <1>5, <4>1, EndsGrow, n \in Nat
      <4>3. ends[whole] \in Nat /\ ends[j] \in Nat /\ part \in Nat /\ part < ends[j] - ends[whole]
        BY <1>5, <1>8, <3>3, <3>5, <3>7
      <4> QED
        BY <1>5, <4>2, <4>3
    <3>12. D \in Nat /\ D <= taken
      <4>1. D \in Nat
        BY <1>5, <1>8
      <4> HIDE DEF D
      <4> QED
        BY <1>2, <3>3, <3>11, <4>1
    <3> QED
      BY <3>9, <3>10, <3>12
  <2> QED
    BY <2>1, <2>2
<1>12. Put' = D
  <2> HIDE DEF D
  <2> QED
    BY <1>11, BytesAre DEF Put
<1>13. chunks' = left /\ up' = IF left = <<>> THEN "read" ELSE "write"
  BY <1>1
<1>14. Len(chunks') = n - whole /\ chunks' \in Seq(Seq(Nat)) /\ Laid(chunks', Len(chunks'), rest)
  <2> HIDE DEF left, rest
  <2> QED
    BY <1>7, <1>13
<1>15. rest[0] = D /\ (whole # n => rest[n - whole] = taken) /\ (whole = n => D = taken)
  <2>1. 0 \in 0..(n - whole) /\ n - whole \in 0..(n - whole) /\ (whole # n => n - whole # 0) /\ whole + (n - whole) = n
    BY <1>5
  <2>2. rest[0] = D
    BY <2>1
  <2>3. whole # n => rest[n - whole] = ends[n]
    <3>1. \A i \in 0..(n - whole) : i # 0 => rest[i] = ends[whole + i]
      OBVIOUS
    <3> HIDE DEF rest
    <3> QED
      BY <2>1, <3>1
  <2>4. whole = n => part = 0
    BY <1>6
  <2> QED
    BY <1>5, <1>8, <2>2, <2>3, <2>4
<1>16. left = <<>> => whole = n
  <2> HIDE DEF left, rest
  <2>1. left = <<>> => Len(left) = 0
    OBVIOUS
  <2> QED
    BY <1>5, <1>7, <2>1
<1> HIDE DEF left, rest, D
<1>17. whole = n => rest[n - whole] = D
  <2>1. whole = n => n - whole = 0
    OBVIOUS
  <2> QED
    BY <1>15, <2>1
<1>18. UpInv'
  <2>1. up' \in {"read", "write"}
    BY <1>13
  <2>2. Put' \in Nat /\ Put' <= taken' /\ delivered' = Bytes(0, Put') /\ taken' \in Nat /\ taken' <= QuicBytes
    BY <1>2, <1>11, <1>12
  <2>3. rest[0] = Put' /\ rest[Len(chunks')] = taken'
    BY <1>2, <1>12, <1>14, <1>15, <1>17
  <2>4. up' = "read" => taken' = Put'
    BY <1>2, <1>12, <1>13, <1>15, <1>16
  <2> QED
    BY <1>14, <2>1, <2>2, <2>3, <2>4 DEF UpInv
<1>19. Up!Deliver
  <2>1. delivered' = [i \in 1..D |-> i]
    BY <1>11 DEF Bytes
  <2>2. D \in Len(delivered)..taken
    <3>1. Put <= D
      BY <1>2, <1>5, <1>8 DEF D
    <3> QED
      BY <1>2, <1>11, <3>1 DEF Put
  <2>3. EndOf(up) = "open" /\ EndOf(up)' = "open"
    BY <1>2, <1>13 DEF EndOf, Ended
  <2> QED
    BY <1>2, <2>1, <2>2, <2>3 DEF Up!Deliver
<1> QED
  BY <1>18, <1>19

LEMMA UpOtherStep ==
  ASSUME UpInv, relay = "running", UNCHANGED relay, UpEof \/ UpFinishes \/ UpFails \/ UpStalls
  PROVE  UpInv' /\ [Up!Close \/ Up!Break]_(Up!pipe)
<1>1. /\ UNCHANGED <<chunks, taken, delivered>>
      /\ \/ up = "read" /\ taken = QuicBytes /\ up' = "flush"
         \/ up = "flush" /\ up' = "ok"
         \/ up \in {"read", "write", "flush"} /\ up' \in Failed
  BY DEF UpEof, UpFinishes, UpFails, UpStalls, Failed
<1>2. Put' = Put
  BY <1>1 DEF Put
<1>3. UpInv'
  BY <1>1, <1>2 DEF UpInv, Ended, Failed
<1>4. [Up!Close \/ Up!Break]_(Up!pipe)
  BY <1>1 DEF UpInv, Up!Close, Up!Break, Up!pipe, EndOf, Ended, Failed, Put
<1> QED
  BY <1>3, <1>4

LEMMA RelayEndUpStep ==
  ASSUME UpInv, RelayOk \/ RelayFails \/ LocalRelayFails \/ RelayAborted
  PROVE  UpInv' /\ [Up!Break]_(Up!pipe)
<1>1. CASE RelayOk
  BY <1>1, SameUp DEF RelayOk, upVars, Up!pipe, EndOf
<1>2. CASE RelayFails \/ LocalRelayFails \/ RelayAborted
  <2>1. /\ relay = "running" /\ relay' \in {"failed", "aborted"}
        /\ up' = IF up \in Ended THEN up ELSE "aborted"
        /\ UNCHANGED <<chunks, taken, delivered>>
    BY <1>2 DEF RelayFails, LocalRelayFails, RelayAborted, AbortBoth
  <2>2. Put' = Put
    BY <2>1 DEF Put
  <2>3. UpInv'
    BY <2>1, <2>2 DEF UpInv, Ended
  <2>4. [Up!Break]_(Up!pipe)
    BY <2>1 DEF Up!Break, Up!pipe, EndOf, Ended
  <2> QED
    BY <2>3, <2>4
<1> QED
  BY <1>1, <1>2

LEMMA RelayStepIsUpStep ==
  ASSUME UpInv, [RelayNext]_relay_vars
  PROVE  UpInv' /\ [Up!PipeNext]_(Up!pipe)
<1>1. CASE relay = "running" /\ UpSteps /\ UNCHANGED <<relay, downVars>>
  BY <1>1, read_chunksStep, write_vectoredStep, UpOtherStep DEF UpSteps, Up!PipeNext
<1>2. CASE relay = "running" /\ DownSteps /\ UNCHANGED <<relay, upVars>>
  <2>1. UpInv'
    BY <1>2, SameUp
  <2>2. UNCHANGED Up!pipe
    BY <1>2 DEF upVars, Up!pipe, EndOf
  <2> QED
    BY <2>1, <2>2
<1>3. CASE RelayOk \/ RelayFails \/ LocalRelayFails \/ RelayAborted
  BY <1>3, RelayEndUpStep DEF Up!PipeNext
<1>4. CASE UNCHANGED relay_vars
  <2>1. UNCHANGED relay /\ UNCHANGED upVars
    BY <1>4 DEF relay_vars
  <2>2. (relay = "ok" => up = "ok") /\ (relay = "dialing" => up = "read")
    BY DEF UpInv
  <2>3. UpInv'
    BY <2>1, <2>2, SameUp
  <2>4. UNCHANGED Up!pipe
    BY <2>1 DEF upVars, Up!pipe, EndOf
  <2> QED
    BY <2>3, <2>4
<1> QED
  BY <1>1, <1>2, <1>3, <1>4 DEF RelayNext

LEMMA RelayInitUpInv ==
  ASSUME NEW first \in {"dialing", "running", "udp"}, RelayInit(first)
  PROVE  UpInv /\ Up!PipeInit
<1> USE RelayAssumption DEF RelayInit
<1>1. delivered = <<>> /\ Put = 0
  BY DEF Put
<1>2. Bytes(0, 0) = <<>>
  <2>1. Bytes(0, 0) \in Seq(Nat) /\ Len(Bytes(0, 0)) = 0
    BY BytesAre
  <2> QED
    BY <2>1
<1>3. UpInv
  BY <1>1, <1>2 DEF UpInv
<1>4. Up!PipeInit
  BY <1>1 DEF Up!PipeInit, EndOf, Ended
<1> QED
  BY <1>3, <1>4

(* The relay by itself, its target dialed.                                 *)
RelaySpec == RelayInit("running") /\ [][RelayNext]_relay_vars

(* Each direction of a relay implements a pipe, for streams, buffers and   *)
(* batches of any size: through partial vectored writes, and through two   *)
(* buffers and a read ahead of the write, no byte is skipped, repeated or  *)
(* reordered, nothing moves after an error, and success means that both    *)
(* streams were delivered to their ends.                                   *)
THEOREM RelayIsTwoPipes == RelaySpec => ImplementsPipes
<1>1. RelayInit("running") => DownInv /\ Down!PipeInit /\ UpInv /\ Up!PipeInit
  BY RelayInitDownInv, RelayInitUpInv
<1>2. DownInv /\ [RelayNext]_relay_vars => DownInv' /\ [Down!PipeNext]_(Down!pipe)
  BY RelayStepIsPipeStep
<1>3. UpInv /\ [RelayNext]_relay_vars => UpInv' /\ [Up!PipeNext]_(Up!pipe)
  BY RelayStepIsUpStep
<1> QED
  BY <1>1, <1>2, <1>3, PTL DEF RelaySpec, ImplementsPipes, Down!PipeSpec, Up!PipeSpec

=============================================================================
