---------------------------- MODULE TuicUdpProofs ----------------------------
(***************************************************************************)
(* Proofs about the TUIC UDP relay, for payloads and datagrams of any      *)
(* size, any number of associations, packet identifiers and fragments, and *)
(* any order in which datagrams arrive, get lost and are collected.        *)
(***************************************************************************)
EXTENDS TuicUdp, SequenceTheorems, TLAPS

LEMMA MulMono ==
  ASSUME NEW i \in Nat, NEW j \in Nat, NEW o \in Nat, i <= j
  PROVE  i * o <= j * o
<1>1. (j - i) * o \in Nat
  OBVIOUS
<1>2. j * o = i * o + (j - i) * o
  OBVIOUS
<1> QED
  BY <1>1, <1>2

LEMMA DivBounds ==
  ASSUME NEW x \in Nat, NEW o \in Nat \ {0}
  PROVE  /\ x \div o \in Nat
         /\ (x \div o) * o <= x
         /\ x < (x \div o) * o + o
OBVIOUS

LEMMA MulStep ==
  ASSUME NEW i \in Nat, NEW o \in Nat
  PROVE  (i + 1) * o = i * o + o /\ i * o \in Nat
OBVIOUS

LEMMA Budgets ==
  ASSUME NEW size \in Nat
  PROVE  /\ first_budget(size) \in Nat /\ other_budget(size) \in Nat
         /\ first_budget(size) # 0 => FixedLen + AddrLen + first_budget(size) = size
         /\ other_budget(size) # 0 => FixedLen + 1 + other_budget(size) = size
BY SizesAssumption DEF first_budget, other_budget, Monus

(* Cuts of n bytes at b, b + o, b + 2o, ...: with q cuts every piece but   *)
(* the last is full, and the last ends at n.                               *)
LEMMA CutsEndAtLength ==
  ASSUME NEW n \in Nat, NEW b \in Nat, NEW o \in Nat \ {0}, b < n
  PROVE  LET q == (n - b + o - 1) \div o
         IN  /\ q \in Nat \ {0}
             /\ n <= b + q * o
             /\ \A i \in 0..(q - 1) : b + i * o < n
<1> DEFINE x == n - b + o - 1
           q == x \div o
<1>1. x \in Nat
  OBVIOUS
<1>2. q \in Nat /\ q * o <= x /\ x < q * o + o
  BY <1>1, DivBounds
<1> HIDE DEF q
<1>3. q # 0
  <2> SUFFICES ASSUME q = 0 PROVE FALSE
    OBVIOUS
  <2>1. q * o = 0
    OBVIOUS
  <2> QED
    BY <1>2, <2>1
<1>4. n <= b + q * o
  <2>1. q * o \in Nat
    BY <1>2, MulStep
  <2> QED
    BY <1>2, <2>1
<1>5. ASSUME NEW i \in 0..(q - 1)
      PROVE  b + i * o < n
  <2>1. i \in Nat /\ i + 1 \in Nat /\ i + 1 <= q
    BY <1>2
  <2>2. (i + 1) * o <= q * o
    BY <1>2, <2>1, MulMono
  <2>3. (i + 1) * o = i * o + o /\ i * o \in Nat
    BY <2>1, MulStep
  <2>4. q * o \in Nat
    BY <1>2, MulStep
  <2> QED
    BY <1>2, <2>2, <2>3, <2>4
<1> QED
  BY <1>2, <1>3, <1>4, <1>5 DEF q

(* The fragments of a payload are the payload, end to end, each in the     *)
(* datagram with its header.                                               *)
LEMMA FragmentsTile ==
  ASSUME NEW n \in Nat, NEW size \in Nat, ~CannotEncode(n, size)
  PROVE  LET total == fragment_total(n, size)
             span(i) == FragmentSpan(n, size, i)
         IN  /\ total \in 1..MaxFragments
             /\ span(0).lo = 0 /\ span(total - 1).hi = n
             /\ \A i \in 0..total - 1 :
                   /\ Size(span(i)) >= 0 /\ (n > 0 => Size(span(i)) > 0)
                   /\ i > 0 => span(i).lo = span(i - 1).hi
                   /\ FixedLen + (IF i = 0 THEN AddrLen ELSE 1) + Size(span(i)) <= size
<1> DEFINE b == first_budget(size)
           o == other_budget(size)
           total == fragment_total(n, size)
           span(i) == FragmentSpan(n, size, i)
           lo(i) == IF i = 0 THEN 0 ELSE b + (i - 1) * o
           hi(i) == Smaller(n, b + i * o)
<1>1. /\ b \in Nat \ {0} /\ o \in Nat \ {0} /\ total <= MaxFragments
      /\ FixedLen + AddrLen + b = size /\ FixedLen + 1 + o = size
      /\ MaxFragments \in Nat /\ FixedLen \in Nat /\ AddrLen \in Nat
  <2>1. b # 0 /\ o # 0 /\ ~(total > MaxFragments) /\ b \in Nat /\ o \in Nat
        /\ FixedLen + AddrLen + b = size /\ FixedLen + 1 + o = size
    BY Budgets DEF CannotEncode
  <2>2. total \in Nat
    <3>1. CASE n <= b
      BY <3>1 DEF fragment_total
    <3>2. CASE ~(n <= b)
      <4>1. (n - b + o - 1) \div o \in Nat
        <5> HIDE DEF b, o
        <5>1. b < n /\ o \in Nat \ {0} /\ b \in Nat
          BY <2>1, <3>2
        <5> QED
          BY <5>1, CutsEndAtLength
      <4> QED
        BY <3>2, <4>1 DEF fragment_total
    <3> QED
      BY <3>1, <3>2
  <2> QED
    BY <2>1, <2>2, SizesAssumption
<1>2. \A i : span(i).lo = lo(i) /\ span(i).hi = hi(i)
  BY DEF FragmentSpan
<1>3. CASE n <= b
  <2>1. total = 1
    BY <1>3 DEF fragment_total
  <2>2. hi(0) = n /\ lo(0) = 0
    <3>1. 0 * o = 0
      BY <1>1
    <3> HIDE DEF b, o
    <3> QED
      BY <1>1, <1>3, <3>1 DEF Smaller
  <2>3. span(0).lo = 0 /\ span(0).hi = n /\ Size(span(0)) = n
    BY <1>2, <2>2 DEF Size
  <2> HIDE DEF b, o, total, span, lo, hi
  <2> QED
    BY <1>1, <1>3, <2>1, <2>3 DEF total, span
<1>4. CASE ~(n <= b)
  <2> DEFINE q == (n - b + o - 1) \div o
  <2>1. /\ q \in Nat \ {0} /\ n <= b + q * o
        /\ \A i \in 0..(q - 1) : b + i * o < n
    <3> HIDE DEF b, o
    <3>1. b < n /\ o \in Nat \ {0} /\ b \in Nat
      BY <1>1, <1>4
    <3> QED
      BY <3>1, CutsEndAtLength
  <2>2. total = 1 + q
    BY <1>4 DEF fragment_total
  <2> HIDE DEF q, total, b, o
  <2>3. total \in 1..MaxFragments /\ total - 1 = q
    BY <1>1, <2>1, <2>2
  <2>4. \A i \in Nat : i * o \in Nat
    BY <1>1, MulStep
  <2>5. hi(q) = n
    BY <1>1, <2>1, <2>4 DEF Smaller
  <2>6. \A i \in 0..(q - 1) : hi(i) = b + i * o
    BY <1>1, <2>1, <2>4 DEF Smaller
  <2>7. ASSUME NEW i \in 0..q
        PROVE  /\ lo(i) \in Nat /\ hi(i) \in Nat /\ lo(i) < hi(i)
               /\ i > 0 => lo(i) = hi(i - 1)
               /\ hi(i) - lo(i) <= (IF i = 0 THEN b ELSE o)
    <3>1. CASE i = 0
      <4>1. hi(0) = b + 0 * o
        BY <2>1, <2>6
      <4>2. 0 * o = 0
        BY <1>1
      <4> QED
        BY <1>1, <3>1, <4>1, <4>2
    <3>2. CASE i > 0
      <4>1. i - 1 \in 0..(q - 1) /\ i - 1 \in Nat /\ i \in Nat
        BY <2>1, <3>2
      <4>2. lo(i) = b + (i - 1) * o /\ (i - 1) * o \in Nat
        BY <2>4, <3>2, <4>1
      <4>3. ((i - 1) + 1) * o = (i - 1) * o + o
        BY <1>1, <4>1, MulStep
      <4>4. (i - 1) + 1 = i
        BY <4>1
      <4>5. i * o = (i - 1) * o + o
        BY <4>3, <4>4
      <4>6. b + (i - 1) * o < n /\ lo(i) = hi(i - 1)
        BY <2>1, <2>6, <4>1, <4>2
      <4>7. hi(i) = IF n < b + i * o THEN n ELSE b + i * o
        BY DEF Smaller
      <4> HIDE DEF lo, hi
      <4> QED
        BY <1>1, <3>2, <4>2, <4>5, <4>6, <4>7
    <3> QED
      BY <2>1, <3>1, <3>2
  <2>8. \A i : Size(span(i)) = hi(i) - lo(i)
    BY <1>2 DEF Size
  <2>9. lo(0) = 0
    OBVIOUS
  <2> HIDE DEF span, lo, hi
  <2>10. ASSUME NEW i \in 0..total - 1
         PROVE  /\ Size(span(i)) >= 0 /\ (n > 0 => Size(span(i)) > 0)
                /\ i > 0 => span(i).lo = span(i - 1).hi
                /\ FixedLen + (IF i = 0 THEN AddrLen ELSE 1) + Size(span(i)) <= size
    BY <1>1, <1>2, <2>3, <2>7, <2>8
  <2>11. span(0).lo = 0 /\ span(total - 1).hi = n
    BY <1>2, <2>3, <2>5, <2>9
  <2> QED
    BY <2>3, <2>10, <2>11 DEF total, span
<1> QED
  BY <1>3, <1>4

-----------------------------------------------------------------------------
(* What the relay holds of the packets the client sent, wherever it holds  *)
(* it.  The history of sent packets is the parameter s.                    *)

Packets == [assoc : Assocs, pid : 0..(PacketIds - 1), len : Lengths, size : DatagramSizes]

Pieces == [src : Nat, span : [lo : Int, hi : Int]]

Tasks == [assoc : Assocs, queue : Seq(Seq(Pieces)), sender : BOOLEAN,
          state : {"run", "aborted", "ended"}, replyId : 0..(PacketIds - 1)]

(* p is the i-th of total fragments of a packet pid of association a.      *)
FromPacket(s, p, a, pid, total, i) ==
  /\ p.src \in 1..Len(s)
  /\ s[p.src].assoc = a
  /\ s[p.src].pid = pid
  /\ fragment_total(s[p.src].len, s[p.src].size) = total
  /\ p.span = FragmentSpan(s[p.src].len, s[p.src].size, i)

Fragment(s, f) ==
  /\ f.kind = "packet"
  /\ f.assoc \in Assocs /\ f.pid \in 0..(PacketIds - 1)
  /\ f.total \in Nat \ {0} /\ f.id \in 0..(f.total - 1)
  /\ decode_tuic_udp_fragment(f)
  /\ FromPacket(s, f, f.assoc, f.pid, f.total, f.id)

Message(s, f) ==
  Fragment(s, f) \/ (f.kind = "dissociate" /\ f.via = "uni" /\ f.assoc \in Assocs)

(* The fragments of one association, packet id and count, in order.        *)
Whole(s, a, payload) ==
  /\ payload \in Seq(Pieces)
  /\ Len(payload) # 0
  /\ \E pid \in 0..(PacketIds - 1) : \A i \in 1..Len(payload) :
        FromPacket(s, payload[i], a, pid, Len(payload), i - 1)

(* A table entry: a slot is empty or holds the fragment of its index.      *)
Partial(s, k, b) ==
  /\ b.total \in Nat \ {0}
  /\ b = [total |-> b.total, slots |-> b.slots]
  /\ b.slots = [i \in 0..(b.total - 1) |-> b.slots[i]]
  /\ \A i \in 0..(b.total - 1) :
        b.slots[i].src = 0 \/ (/\ b.slots[i] \in Pieces
                               /\ FromPacket(s, b.slots[i], k[1], k[2], b.total, i))

Keys == Assocs \X (0..(PacketIds - 1))

TypeInv ==
  /\ sent \in Seq(Packets) /\ replies \in Seq(Packets)
  /\ nextId \in [Assocs -> 0..(PacketIds - 1)]
  /\ tasks \in Seq(Tasks)
  /\ handle \in [Assocs -> 0..Len(tasks)]

NetInv == \A f \in net : Message(sent, f)

TableInv ==
  /\ buffers = [k \in Keys |-> buffers[k]]
  /\ \A k \in Keys : buffers[k] = NoBuffer \/ Partial(sent, k, buffers[k])

LoopInv ==
  /\ relay.pc = "read_uni" => Message(sent, relay.stream)
  /\ relay.pc = "forward" => relay.assoc \in Assocs /\ Whole(sent, relay.assoc, relay.payload)

QueueInv == \A t \in 1..Len(tasks) : \A j \in 1..Len(tasks[t].queue) :
              Whole(sent, tasks[t].assoc, tasks[t].queue[j])

OutInv == \A d \in out : Whole(sent, d.assoc, d.pieces)

(* The task the map names for an association serves that association.      *)
HandleInv == \A a \in Assocs : handle[a] # 0 => tasks[handle[a]].assoc = a

RelayInv ==
  /\ TypeInv /\ NetInv /\ TableInv /\ LoopInv /\ QueueInv /\ OutInv
  /\ HandleInv /\ OneTaskPerAssociation

-----------------------------------------------------------------------------
(* A longer history keeps what the shorter one accounts for.               *)
LEMMA HistoryGrows ==
  ASSUME NEW s \in Seq(Packets), NEW x \in Packets
  PROVE  LET s2 == Append(s, x)
         IN  /\ \A p, a, pid, total, i :
                   FromPacket(s, p, a, pid, total, i) => FromPacket(s2, p, a, pid, total, i)
             /\ \A f : Message(s, f) => Message(s2, f)
             /\ \A a, payload : Whole(s, a, payload) => Whole(s2, a, payload)
             /\ \A k, b : Partial(s, k, b) => Partial(s2, k, b)
<1> DEFINE s2 == Append(s, x)
<1>1. Len(s2) = Len(s) + 1 /\ \A i \in 1..Len(s) : s2[i] = s[i]
  BY AppendProperties
<1>2. Len(s) \in Nat
  BY LenProperties
<1> HIDE DEF s2
<1>3. \A p, a, pid, total, i :
         FromPacket(s, p, a, pid, total, i) => FromPacket(s2, p, a, pid, total, i)
  BY <1>1, <1>2 DEF FromPacket
<1>4. \A f : Message(s, f) => Message(s2, f)
  BY <1>3 DEF Message, Fragment
<1>5. \A a, payload : Whole(s, a, payload) => Whole(s2, a, payload)
  BY <1>3 DEF Whole
<1>6. \A k, b : Partial(s, k, b) => Partial(s2, k, b)
  <2> SUFFICES ASSUME NEW k, NEW b, Partial(s, k, b) PROVE Partial(s2, k, b)
    OBVIOUS
  <2>1. \A i \in 0..(b.total - 1) :
          b.slots[i].src = 0 \/ (/\ b.slots[i] \in Pieces
                                 /\ FromPacket(s2, b.slots[i], k[1], k[2], b.total, i))
    BY <1>3 DEF Partial
  <2> QED
    BY <2>1 DEF Partial
<1> QED
  BY <1>3, <1>4, <1>5, <1>6 DEF s2

(* Every fragment has a place in its payload.                              *)
LEMMA SpanType ==
  ASSUME NEW n \in Nat, NEW size \in Nat, NEW i \in Nat
  PROVE  FragmentSpan(n, size, i) \in [lo : Int, hi : Int]
<1> DEFINE b == first_budget(size)
           o == other_budget(size)
<1>1. b \in Nat /\ o \in Nat
  BY Budgets
<1> HIDE DEF b, o
<1>2. i * o \in Nat /\ (i # 0 => (i - 1) * o \in Nat)
  <2>1. CASE i = 0
    BY <1>1, <2>1, MulStep
  <2>2. CASE i # 0
    <3>1. i - 1 \in Nat
      BY <2>2
    <3> QED
      BY <1>1, <3>1, MulStep
  <2> QED
    BY <2>1, <2>2
<1>3. Smaller(n, b + i * o) \in Int
  BY <1>1, <1>2 DEF Smaller
<1>4. (IF i = 0 THEN 0 ELSE b + (i - 1) * o) \in Int
  BY <1>1, <1>2
<1> QED
  BY <1>3, <1>4 DEF FragmentSpan, b, o

LEMMA PieceOfFragment ==
  ASSUME NEW s \in Seq(Packets), NEW f, Fragment(s, f)
  PROVE  /\ Piece(f) \in Pieces /\ Piece(f).src # 0
         /\ FromPacket(s, Piece(f), f.assoc, f.pid, f.total, f.id)
<1>1. /\ f.src \in 1..Len(s) /\ f.id \in Nat
      /\ f.span = FragmentSpan(s[f.src].len, s[f.src].size, f.id)
  BY DEF Fragment, FromPacket
<1>2. s[f.src] \in Packets
  BY <1>1, ElementOfSeq
<1>3. s[f.src].len \in Nat /\ s[f.src].size \in Nat
  BY <1>2, SizesAssumption DEF Packets
<1>4. f.span \in [lo : Int, hi : Int]
  <2>1. \A n, size, i \in Nat : FragmentSpan(n, size, i) \in [lo : Int, hi : Int]
    BY SpanType
  <2>2. FragmentSpan(s[f.src].len, s[f.src].size, f.id) \in [lo : Int, hi : Int]
    BY ONLY <1>1, <1>3, <2>1
  <2> QED
    BY ONLY <1>1, <2>2
<1>5. f.src \in Nat /\ f.src # 0
  <2>1. Len(s) \in Nat
    BY LenProperties
  <2> QED
    BY <1>1, <2>1
<1>6. Piece(f).src = f.src /\ Piece(f).span = f.span
  BY DEF Piece
<1> QED
  BY <1>4, <1>5, <1>6 DEF Piece, Pieces, Fragment, FromPacket

(* The reassembler keeps its entries partial packets, and what it returns  *)
(* is whole.                                                               *)
LEMMA AcceptKeeps ==
  ASSUME TypeInv, TableInv, NEW f, Fragment(sent, f)
  PROVE  LET r == accept(f)
         IN  /\ r.buffer = NoBuffer \/ Partial(sent, <<f.assoc, f.pid>>, r.buffer)
             /\ r.payload = <<>> \/ Whole(sent, f.assoc, r.payload)
<1> DEFINE k == <<f.assoc, f.pid>>
           b == Entry(f)
           filled == [b EXCEPT !.slots[f.id] = Piece(f)]
           r == accept(f)
<1>1. /\ Piece(f) \in Pieces /\ Piece(f).src # 0
      /\ FromPacket(sent, Piece(f), f.assoc, f.pid, f.total, f.id)
  BY PieceOfFragment DEF TypeInv
<1>2. /\ f.assoc \in Assocs /\ f.pid \in 0..(PacketIds - 1)
      /\ f.total \in Nat \ {0} /\ f.id \in 0..(f.total - 1)
  BY DEF Fragment
<1>3. k \in Keys /\ k[1] = f.assoc /\ k[2] = f.pid
  BY <1>2 DEF Keys
<1>4. buffers[k] = NoBuffer \/ Partial(sent, k, buffers[k])
  BY <1>3 DEF TableInv
<1>5. Partial(sent, k, b)
  <2>1. CASE buffers[k] # NoBuffer
    BY <1>4, <2>1 DEF Entry
  <2>2. CASE buffers[k] = NoBuffer
    <3>1. b = [total |-> f.total, slots |-> [i \in 0..f.total - 1 |-> [src |-> 0]]]
      BY <2>2 DEF Entry
    <3>2. b.total = f.total /\ b.slots = [i \in 0..f.total - 1 |-> [src |-> 0]]
      BY <3>1
    <3>3. \A i \in 0..(f.total - 1) : b.slots[i].src = 0
      BY <3>2
    <3> HIDE DEF b, k
    <3> QED
      BY <1>2, <3>1, <3>2, <3>3 DEF Partial
  <2> QED
    BY <2>1, <2>2
<1> HIDE DEF b, k
<1>6. CASE f.total = 1
  <2>1. r.buffer = buffers[k] /\ r.payload = <<Piece(f)>>
    BY <1>6 DEF accept, AcceptResult, k
  <2>2. f.id = 0
    BY <1>2, <1>6
  <2>3. Whole(sent, f.assoc, <<Piece(f)>>)
    <3>1. <<Piece(f)>> \in Seq(Pieces) /\ Len(<<Piece(f)>>) = 1 /\ <<Piece(f)>>[1] = Piece(f)
      BY <1>1
    <3>2. FromPacket(sent, Piece(f), f.assoc, f.pid, 1, 1 - 1)
      BY <1>1, <1>6, <2>2
    <3> HIDE DEF r
    <3> QED
      BY <1>2, <3>1, <3>2 DEF Whole
  <2> QED
    BY <1>4, <2>1, <2>3 DEF k
<1>7. CASE f.total # 1 /\ b.total # f.total
  <2>1. r.buffer = NoBuffer /\ r.payload = <<>>
    BY <1>7 DEF accept, AcceptResult, b
  <2> QED
    BY <2>1
<1>8. CASE f.total # 1 /\ b.total = f.total /\ b.slots[f.id].src # 0
  <2>1. r.buffer = b /\ r.payload = <<>>
    BY <1>8 DEF accept, AcceptResult, b
  <2> QED
    BY <1>5, <2>1 DEF k
<1>9. CASE f.total # 1 /\ b.total = f.total /\ b.slots[f.id].src = 0
  <2>1. /\ filled.total = f.total
        /\ filled = [total |-> filled.total, slots |-> filled.slots]
        /\ filled.slots = [b.slots EXCEPT ![f.id] = Piece(f)]
    <3>1. b = [total |-> b.total, slots |-> b.slots]
      BY <1>5 DEF Partial
    <3> QED
      BY <1>9, <3>1
  <2>2. /\ filled.slots = [i \in 0..(f.total - 1) |-> filled.slots[i]]
        /\ \A i \in 0..(f.total - 1) :
             filled.slots[i] = IF i = f.id THEN Piece(f) ELSE b.slots[i]
    <3>1. b.slots = [i \in 0..(f.total - 1) |-> b.slots[i]]
      BY <1>5, <1>9 DEF Partial
    <3> HIDE DEF filled
    <3> QED
      BY <1>2, <2>1, <3>1
  <2> HIDE DEF filled
  <2>3. \A i \in 0..(f.total - 1) :
          filled.slots[i].src = 0 \/ (/\ filled.slots[i] \in Pieces
                                      /\ FromPacket(sent, filled.slots[i], k[1], k[2], f.total, i))
    <3>1. \A i \in 0..(f.total - 1) :
            b.slots[i].src = 0 \/ (/\ b.slots[i] \in Pieces
                                   /\ FromPacket(sent, b.slots[i], k[1], k[2], f.total, i))
      BY <1>5, <1>9 DEF Partial
    <3> QED
      BY <1>1, <1>3, <2>2, <3>1
  <2>4. Partial(sent, k, filled)
    BY <1>2, <2>1, <2>2, <2>3 DEF Partial
  <2>5. CASE Filled(filled) = 0..f.total - 1
    <3> DEFINE whole == [i \in 1..f.total |-> filled.slots[i - 1]]
    <3>1. r.buffer = NoBuffer /\ r.payload = whole
      BY <1>9, <2>5 DEF accept, AcceptResult, b, filled
    <3>2. \A i \in 0..(f.total - 1) : filled.slots[i].src # 0
      BY <2>5 DEF Filled
    <3>3. \A i \in 1..f.total : /\ filled.slots[i - 1] \in Pieces
                                /\ FromPacket(sent, filled.slots[i - 1], k[1], k[2], f.total, i - 1)
      <4> TAKE i \in 1..f.total
      <4>1. i - 1 \in 0..(f.total - 1)
        BY <1>2
      <4> QED
        BY <2>3, <3>2, <4>1
    <3>4. whole \in Seq(Pieces) /\ Len(whole) = f.total
      BY <1>2, <3>3 
    <3>5. \A i \in 1..f.total : whole[i] = filled.slots[i - 1]
      OBVIOUS
    <3> HIDE DEF whole
    <3>6. Whole(sent, f.assoc, whole)
      <4>1. \A i \in 1..Len(whole) : FromPacket(sent, whole[i], f.assoc, f.pid, Len(whole), i - 1)
        BY <1>3, <3>3, <3>4, <3>5
      <4> QED
        BY <1>2, <3>4, <4>1 DEF Whole
    <3> QED
      BY <3>1, <3>6
  <2>6. CASE Filled(filled) # 0..f.total - 1
    <3>1. r.buffer = filled /\ r.payload = <<>>
      BY <1>9, <2>6 DEF accept, AcceptResult, b, filled
    <3> QED
      BY <2>4, <3>1 DEF k
  <2> QED
    BY <2>5, <2>6
<1> QED
  BY <1>6, <1>7, <1>8, <1>9

LEMMA TakeKeeps ==
  ASSUME TypeInv, TableInv, NEW f, Fragment(sent, f), TakePacket(f), UNCHANGED sent
  PROVE  TableInv' /\ LoopInv'
<1> DEFINE k == <<f.assoc, f.pid>>
           r == IF decode_tuic_udp_fragment(f) THEN accept(f)
                ELSE AcceptResult(f, buffers[k], <<>>)
<1>1. /\ buffers' = [buffers EXCEPT ![k] = r.buffer]
      /\ relay' = IF r.payload = <<>> THEN Selecting
                  ELSE [pc |-> "forward", assoc |-> f.assoc, payload |-> r.payload]
  BY DEF TakePacket
<1>2. k \in Keys /\ f.assoc \in Assocs
  BY DEF Fragment, Keys
<1>3. /\ r.buffer = NoBuffer \/ Partial(sent, k, r.buffer)
      /\ r.payload = <<>> \/ Whole(sent, f.assoc, r.payload)
  <2>1. CASE decode_tuic_udp_fragment(f)
    BY <2>1, AcceptKeeps
  <2>2. CASE ~decode_tuic_udp_fragment(f)
    <3>1. r.buffer = buffers[k] /\ r.payload = <<>>
      BY <2>2 DEF AcceptResult
    <3> QED
      BY <1>2, <3>1 DEF TableInv
  <2> QED
    BY <2>1, <2>2
<1> HIDE DEF r, k
<1>4. TableInv'
  <2>1. buffers = [j \in Keys |-> buffers[j]]
    BY DEF TableInv
  <2>2. \A j \in Keys : buffers'[j] = IF j = k THEN r.buffer ELSE buffers[j]
    BY <1>1, <1>2, <2>1
  <2>3. buffers' = [j \in Keys |-> buffers'[j]]
    BY <1>1, <2>1
  <2> QED
    BY <1>3, <2>2, <2>3 DEF TableInv
<1>5. LoopInv'
  <2>1. CASE r.payload = <<>>
    BY <1>1, <2>1 DEF LoopInv, Selecting
  <2>2. CASE r.payload # <<>>
    <3>1. relay'.pc = "forward" /\ relay'.assoc = f.assoc /\ relay'.payload = r.payload
      BY <1>1, <2>2
    <3> QED
      BY <1>2, <1>3, <2>2, <3>1 DEF LoopInv
  <2> QED
    BY <2>1, <2>2
<1> QED
  BY <1>4, <1>5

-----------------------------------------------------------------------------
(* The tasks.                                                              *)

(* A step that changes tasks in place keeps their invariant when what is   *)
(* queued is whole and who still serves is the one the map names.          *)
LEMMA TasksKeep ==
  ASSUME TypeInv, HandleInv, UNCHANGED sent, \A a \in Assocs : handle'[a] \in {0, handle[a]},
         tasks' \in Seq(Tasks), Len(tasks') = Len(tasks),
         \A t \in 1..Len(tasks) :
           /\ tasks'[t].assoc = tasks[t].assoc
           /\ \A j \in 1..Len(tasks'[t].queue) : Whole(sent, tasks[t].assoc, tasks'[t].queue[j])
           /\ (tasks'[t].state = "run" /\ tasks'[t].sender) => handle'[tasks[t].assoc] = t
  PROVE  QueueInv' /\ HandleInv' /\ OneTaskPerAssociation'
<1>1. DOMAIN tasks' = 1..Len(tasks)
  BY LenProperties
<1>2. QueueInv' /\ OneTaskPerAssociation'
  BY <1>1 DEF QueueInv, OneTaskPerAssociation
<1>3. HandleInv'
  <2> SUFFICES ASSUME NEW a \in Assocs, handle'[a] # 0 PROVE tasks'[handle'[a]].assoc = a
    BY DEF HandleInv
  <2>1. handle'[a] = handle[a] /\ handle[a] \in 1..Len(tasks)
    <3>1. Len(tasks) \in Nat /\ handle[a] \in 0..Len(tasks)
      BY LenProperties DEF TypeInv
    <3> QED
      BY <3>1
  <2> QED
    BY <2>1 DEF HandleInv
<1> QED
  BY <1>2, <1>3

LEMMA TaskType ==
  ASSUME TypeInv, NEW t \in DOMAIN tasks
  PROVE  /\ t \in 1..Len(tasks)
         /\ tasks[t] \in Tasks
         /\ tasks[t].queue \in Seq(Seq(Pieces))
<1>1. tasks \in Seq(Tasks)
  BY DEF TypeInv
<1>2. DOMAIN tasks = 1..Len(tasks)
  BY <1>1, LenProperties
<1>3. tasks[t] \in Tasks
  BY <1>1, <1>2, ElementOfSeq
<1> QED
  BY <1>2, <1>3 DEF Tasks

(* A function on 1..n is a sequence of length n.                           *)
LEMMA MadeSeq ==
  ASSUME NEW S, NEW n \in Nat, NEW F, F = [t \in 1..n |-> F[t]], \A t \in 1..n : F[t] \in S
  PROVE  F \in Seq(S) /\ Len(F) = n
<1>1. F \in [1..n -> S]
  OBVIOUS
<1>2. F \in Seq(S)
  BY <1>1, SeqDef
<1>3. DOMAIN F = 1..n /\ DOMAIN F = 1..Len(F) /\ Len(F) \in Nat
  BY <1>1, <1>2, LenProperties
<1>4. \A m, j \in Nat : 1..m = 1..j => m = j
  OBVIOUS
<1> QED
  BY <1>2, <1>3, <1>4

LEMMA Requeued ==
  ASSUME NEW k \in Tasks, NEW q \in Seq(Seq(Pieces))
  PROVE  LET new == [k EXCEPT !.queue = q]
         IN  /\ new \in Tasks /\ new.assoc = k.assoc /\ new.state = k.state
             /\ new.sender = k.sender /\ new.queue = q
BY DEF Tasks

(* One task changes.                                                       *)
LEMMA OneTaskChanges ==
  ASSUME TypeInv, QueueInv, HandleInv, OneTaskPerAssociation, UNCHANGED <<sent, handle>>,
         NEW t \in DOMAIN tasks, NEW new \in Tasks,
         tasks' = [tasks EXCEPT ![t] = new],
         new.assoc = tasks[t].assoc,
         \A j \in 1..Len(new.queue) : Whole(sent, new.assoc, new.queue[j]),
         new.state = "run" => tasks[t].state = "run",
         new.sender = tasks[t].sender
  PROVE  /\ tasks' \in Seq(Tasks) /\ Len(tasks') = Len(tasks)
         /\ QueueInv' /\ HandleInv' /\ OneTaskPerAssociation'
<1>1. /\ tasks \in Seq(Tasks) /\ t \in 1..Len(tasks) /\ DOMAIN tasks = 1..Len(tasks)
  BY TaskType, LenProperties DEF TypeInv
<1>2. /\ tasks' \in Seq(Tasks) /\ Len(tasks') = Len(tasks)
      /\ \A j \in 1..Len(tasks) : tasks'[j] = IF j = t THEN new ELSE tasks[j]
  BY <1>1, ExceptSeq
<1>3. ASSUME NEW u \in 1..Len(tasks)
      PROVE  /\ tasks'[u].assoc = tasks[u].assoc
             /\ \A j \in 1..Len(tasks'[u].queue) : Whole(sent, tasks[u].assoc, tasks'[u].queue[j])
             /\ (tasks'[u].state = "run" /\ tasks'[u].sender) => handle'[tasks[u].assoc] = u
  <2>1. (tasks[u].state = "run" /\ tasks[u].sender) => handle[tasks[u].assoc] = u
    BY <1>1 DEF OneTaskPerAssociation
  <2>2. CASE u = t
    <3>1. tasks'[u] = new
      BY <1>2, <2>2
    <3> QED
      BY <2>1, <2>2, <3>1
  <2>3. CASE u # t
    <3>1. tasks'[u] = tasks[u]
      BY <1>2, <2>3
    <3> QED
      BY <2>1, <3>1 DEF QueueInv
  <2> QED
    BY <2>2, <2>3
<1> QED
  BY <1>2, <1>3, TasksKeep

(* The tasks are aborted, or lose their senders.                           *)
LEMMA AbortKeeps ==
  ASSUME NEW ts \in Seq(Tasks), NEW live
  PROVE  LET us == AbortAll(ts, live)
         IN  /\ us \in Seq(Tasks) /\ Len(us) = Len(ts)
             /\ \A t \in 1..Len(ts) :
                  /\ us[t].assoc = ts[t].assoc /\ us[t].queue = ts[t].queue
                  /\ us[t].sender = ts[t].sender
                  /\ us[t].state = "run" => ts[t].state = "run" /\ t \notin live
<1> DEFINE new(t) == IF t \in live /\ ts[t].state = "run"
                     THEN [ts[t] EXCEPT !.state = "aborted"] ELSE ts[t]
<1>1. Len(ts) \in Nat /\ DOMAIN ts = 1..Len(ts) /\ \A t \in 1..Len(ts) : ts[t] \in Tasks
  BY LenProperties, ElementOfSeq
<1>2. ASSUME NEW t \in 1..Len(ts)
      PROVE  /\ new(t) \in Tasks
             /\ new(t).assoc = ts[t].assoc /\ new(t).queue = ts[t].queue
             /\ new(t).sender = ts[t].sender
             /\ new(t).state = "run" => ts[t].state = "run" /\ t \notin live
  BY <1>1 DEF Tasks
<1>3. AbortAll(ts, live) = [t \in 1..Len(ts) |-> new(t)]
  BY <1>1 DEF AbortAll
<1> HIDE DEF new
<1>4. AbortAll(ts, live) \in Seq(Tasks) /\ Len(AbortAll(ts, live)) = Len(ts)
  <2> DEFINE us == AbortAll(ts, live)
  <2>1. us = [t \in 1..Len(ts) |-> us[t]] /\ \A t \in 1..Len(ts) : us[t] \in Tasks
    BY <1>2, <1>3
  <2> HIDE DEF us
  <2> QED
    BY <1>1, <2>1, MadeSeq DEF us
<1> QED
  BY <1>2, <1>3, <1>4

LEMMA CloseKeeps ==
  ASSUME NEW ts \in Seq(Tasks)
  PROVE  LET us == CloseChannels(ts)
         IN  /\ us \in Seq(Tasks) /\ Len(us) = Len(ts)
             /\ \A t \in 1..Len(ts) :
                  /\ us[t].assoc = ts[t].assoc /\ us[t].queue = ts[t].queue
                  /\ us[t].sender = FALSE
<1> DEFINE new(t) == [ts[t] EXCEPT !.sender = FALSE]
<1>1. Len(ts) \in Nat /\ DOMAIN ts = 1..Len(ts) /\ \A t \in 1..Len(ts) : ts[t] \in Tasks
  BY LenProperties, ElementOfSeq
<1>2. ASSUME NEW t \in 1..Len(ts)
      PROVE  /\ new(t) \in Tasks
             /\ new(t).assoc = ts[t].assoc /\ new(t).queue = ts[t].queue
             /\ new(t).sender = FALSE
  BY <1>1 DEF Tasks
<1>3. CloseChannels(ts) = [t \in 1..Len(ts) |-> new(t)]
  BY <1>1 DEF CloseChannels
<1> HIDE DEF new
<1>4. CloseChannels(ts) \in Seq(Tasks) /\ Len(CloseChannels(ts)) = Len(ts)
  <2> DEFINE us == CloseChannels(ts)
  <2>1. us = [t \in 1..Len(ts) |-> us[t]] /\ \A t \in 1..Len(ts) : us[t] \in Tasks
    BY <1>2, <1>3
  <2> HIDE DEF us
  <2> QED
    BY <1>1, <2>1, MadeSeq DEF us
<1> QED
  BY <1>2, <1>3, <1>4

LEMMA GoneKeeps ==
  ASSUME RelayInv, RelayGone, UNCHANGED <<sent, nextId, replies, out>>,
         tasks' \in {CloseChannels(AbortAll(tasks, Serving)), CloseChannels(tasks)}
  PROVE  RelayInv'
<1>1. tasks \in Seq(Tasks)
  BY DEF RelayInv, TypeInv
<1>2. /\ tasks' \in Seq(Tasks) /\ Len(tasks') = Len(tasks)
      /\ \A t \in 1..Len(tasks) : /\ tasks'[t].assoc = tasks[t].assoc
                                  /\ tasks'[t].queue = tasks[t].queue
                                  /\ tasks'[t].sender = FALSE
  <2> DEFINE ts == AbortAll(tasks, Serving)
  <2>1. /\ ts \in Seq(Tasks) /\ Len(ts) = Len(tasks)
        /\ \A t \in 1..Len(tasks) : ts[t].assoc = tasks[t].assoc /\ ts[t].queue = tasks[t].queue
    BY <1>1, AbortKeeps
  <2> HIDE DEF ts
  <2>2. CASE tasks' = CloseChannels(ts)
    <3>1. /\ CloseChannels(ts) \in Seq(Tasks) /\ Len(CloseChannels(ts)) = Len(ts)
          /\ \A t \in 1..Len(ts) : /\ CloseChannels(ts)[t].assoc = ts[t].assoc
                                   /\ CloseChannels(ts)[t].queue = ts[t].queue
                                   /\ CloseChannels(ts)[t].sender = FALSE
      BY <2>1, CloseKeeps
    <3> QED
      BY ONLY <2>1, <2>2, <3>1
  <2>3. CASE tasks' = CloseChannels(tasks)
    BY <1>1, <2>3, CloseKeeps
  <2> QED
    BY <2>2, <2>3 DEF ts
<1>3. QueueInv' /\ HandleInv' /\ OneTaskPerAssociation'
  <2>1. ASSUME NEW t \in 1..Len(tasks)
        PROVE  /\ tasks'[t].assoc = tasks[t].assoc
               /\ \A j \in 1..Len(tasks'[t].queue) : Whole(sent, tasks[t].assoc, tasks'[t].queue[j])
               /\ (tasks'[t].state = "run" /\ tasks'[t].sender) => handle'[tasks[t].assoc] = t
    BY <1>2 DEF RelayInv, QueueInv
  <2>2. \A a \in Assocs : handle'[a] \in {0, handle[a]}
    BY DEF RelayGone
  <2> QED
    BY <1>2, <2>1, <2>2, TasksKeep DEF RelayInv
<1>4. TypeInv'
  BY <1>2, LenProperties DEF RelayInv, TypeInv, RelayGone
<1>5. NetInv' /\ LoopInv' /\ OutInv'
  BY DEF RelayInv, NetInv, LoopInv, OutInv, RelayGone, Gone
<1>6. TableInv'
  BY DEF TableInv, RelayGone, NoBuffers, Keys
<1> QED
  BY <1>3, <1>4, <1>5, <1>6 DEF RelayInv

LEMMA InitInv == Init => RelayInv
<1> SUFFICES ASSUME Init PROVE RelayInv
  OBVIOUS
<1>1. /\ sent = <<>> /\ replies = <<>> /\ tasks = <<>> /\ net = {} /\ out = {}
      /\ Len(tasks) = 0 /\ relay.pc = "select"
  BY DEF Init, Selecting
<1>2. TypeInv
  BY <1>1, SizesAssumption DEF Init, TypeInv
<1>3. TableInv
  BY DEF Init, TableInv, NoBuffers, Keys
<1>4. NetInv /\ LoopInv /\ OutInv /\ QueueInv /\ HandleInv /\ OneTaskPerAssociation
  BY <1>1 DEF Init, NetInv, LoopInv, OutInv, QueueInv, HandleInv, OneTaskPerAssociation
<1> QED
  BY <1>2, <1>3, <1>4 DEF RelayInv

(* The client's steps.                                                     *)
LEMMA SendKeeps ==
  ASSUME RelayInv, NEW a \in Assocs, NEW n \in Lengths, NEW size \in DatagramSizes,
         NEW via, ClientSend(a, n, size, via)
  PROVE  RelayInv'
<1> DEFINE x == [assoc |-> a, pid |-> nextId[a], len |-> n, size |-> size]
<1>1. /\ sent' = Append(sent, x)
      /\ UNCHANGED <<buffers, relay, handle, tasks, out, replies>>
  BY DEF ClientSend
<1>2. x \in Packets /\ sent \in Seq(Packets) /\ nextId[a] \in 0..(PacketIds - 1)
  BY DEF RelayInv, TypeInv, Packets
<1>3. /\ sent' \in Seq(Packets) /\ Len(sent') = Len(sent) + 1
      /\ sent'[Len(sent) + 1] = x /\ Len(sent) \in Nat
  BY <1>1, <1>2, AppendProperties, LenProperties
<1>4. TypeInv'
  <2>1. nextId' \in [Assocs -> 0..(PacketIds - 1)]
    <3>1. \A i \in 0..(PacketIds - 1) : (i + 1) % PacketIds \in 0..(PacketIds - 1)
      BY SizesAssumption
    <3>2. nextId' = [nextId EXCEPT ![a] = (nextId[a] + 1) % PacketIds]
      BY DEF ClientSend
    <3> QED
      BY <1>2, <3>1, <3>2 DEF RelayInv, TypeInv
  <2> QED
    BY <1>1, <1>3, <2>1 DEF RelayInv, TypeInv
<1>5. /\ \A f : Message(sent, f) => Message(sent', f)
      /\ \A c, payload : Whole(sent, c, payload) => Whole(sent', c, payload)
      /\ \A k, b : Partial(sent, k, b) => Partial(sent', k, b)
  <2> HIDE DEF x
  <2> QED
    BY <1>1, <1>2, HistoryGrows
<1>6. NetInv'
  <2> SUFFICES ASSUME NEW f \in net', f \notin net, ~CannotEncode(n, size)
               PROVE  Message(sent', f)
    BY <1>5 DEF RelayInv, NetInv, ClientSend
  <2>1. f \in encode_tuic_udp_fragments(Len(sent) + 1, a, nextId[a], n, size, via)
    BY DEF ClientSend
  <2>2. PICK i \in 0..(fragment_total(n, size) - 1) :
          f = [kind |-> "packet", src |-> Len(sent) + 1, assoc |-> a, pid |-> nextId[a],
               via |-> via, total |-> fragment_total(n, size), id |-> i, addr |-> i = 0,
               span |-> FragmentSpan(n, size, i)]
    BY <2>1 DEF encode_tuic_udp_fragments
  <2>3. /\ f.kind = "packet" /\ f.src = Len(sent) + 1 /\ f.assoc = a /\ f.pid = nextId[a]
        /\ f.total = fragment_total(n, size) /\ f.id = i /\ f.span = FragmentSpan(n, size, i)
    BY <2>2
  <2>4. fragment_total(n, size) \in 1..MaxFragments
    <3>1. n \in Nat /\ size \in Nat
      BY SizesAssumption
    <3> QED
      BY <3>1, FragmentsTile
  <2>5. f.total \in Nat \ {0}
    BY <2>3, <2>4, SizesAssumption
  <2>6. FromPacket(sent', f, a, nextId[a], f.total, i)
    BY <1>3, <2>3 DEF FromPacket
  <2>7. decode_tuic_udp_fragment(f)
    <3>1. f.id < f.total
      BY <2>3, <2>4, SizesAssumption
    <3>2. f.addr = (i = 0)
      BY ONLY <2>2, Zenon
    <3> QED
      BY <2>3, <3>1, <3>2 DEF decode_tuic_udp_fragment
  <2> QED
    BY <1>2, <2>3, <2>5, <2>6, <2>7 DEF Message, Fragment
<1>7. TableInv'
  BY <1>1, <1>5 DEF RelayInv, TableInv
<1>8. LoopInv'
  BY <1>1, <1>5 DEF RelayInv, LoopInv
<1>9. QueueInv'
  BY <1>1, <1>5 DEF RelayInv, QueueInv
<1>10. OutInv' /\ HandleInv' /\ OneTaskPerAssociation'
  BY <1>1, <1>5 DEF RelayInv, OutInv, HandleInv, OneTaskPerAssociation
<1> QED
  BY <1>4, <1>6, <1>7, <1>8, <1>9, <1>10 DEF RelayInv

LEMMA DissociateSentKeeps ==
  ASSUME RelayInv, NEW a \in Assocs, NEW p \in 0..PacketIds - 1, send_tuic_dissociate(a, p)
  PROVE  RelayInv'
<1>1. TypeInv'
  BY DEF RelayInv, TypeInv, send_tuic_dissociate
<1>2. NetInv'
  <2>1. \A f : f.kind = "dissociate" /\ f.via = "uni" /\ f.assoc \in Assocs => Message(sent, f)
    BY DEF Message
  <2> QED
    BY <2>1 DEF RelayInv, NetInv, send_tuic_dissociate
<1>3. TableInv' /\ LoopInv' /\ QueueInv' /\ OutInv' /\ HandleInv' /\ OneTaskPerAssociation'
  BY DEF RelayInv, TableInv, LoopInv, QueueInv, OutInv, HandleInv, OneTaskPerAssociation,
         send_tuic_dissociate
<1> QED
  BY <1>1, <1>2, <1>3 DEF RelayInv

(* The relay's steps on a message it takes.                                *)
LEMMA DissociateKeeps ==
  ASSUME RelayInv, NEW a \in Assocs, Dissociate(a), UNCHANGED <<sent, nextId, replies>>
  PROVE  TypeInv' /\ QueueInv' /\ HandleInv' /\ OneTaskPerAssociation'
<1> DEFINE h == handle[a]
           ts == AbortAll(tasks, {h})
<1>1. /\ tasks \in Seq(Tasks) /\ h \in 0..Len(tasks) /\ Len(tasks) \in Nat
      /\ DOMAIN tasks = 1..Len(tasks)
  BY LenProperties DEF RelayInv, TypeInv
<1>2. handle' = [handle EXCEPT ![a] = 0]
  BY DEF Dissociate
<1>3. /\ \A t \in 1..Len(tasks) : (tasks[t].state = "run" /\ tasks[t].sender)
                                    => handle[tasks[t].assoc] = t
      /\ \A t \in 1..Len(tasks) : tasks[t].assoc \in Assocs
  <2>1. \A t \in 1..Len(tasks) : tasks[t] \in Tasks
    BY <1>1, ElementOfSeq
  <2> QED
    BY <1>1, <2>1 DEF RelayInv, OneTaskPerAssociation, Tasks
<1>4. /\ tasks' \in Seq(Tasks) /\ Len(tasks') = Len(tasks)
      /\ \A t \in 1..Len(tasks) :
           /\ tasks'[t].assoc = tasks[t].assoc /\ tasks'[t].queue = tasks[t].queue
           /\ (tasks'[t].state = "run" /\ tasks'[t].sender)
                => tasks[t].state = "run" /\ tasks[t].sender /\ t # h
  <2>1. CASE h = 0
    BY <1>1, <2>1 DEF Dissociate
  <2>2. CASE h # 0
    <3>1. /\ ts \in Seq(Tasks) /\ Len(ts) = Len(tasks)
          /\ \A t \in 1..Len(tasks) :
               /\ ts[t].assoc = tasks[t].assoc /\ ts[t].queue = tasks[t].queue
               /\ ts[t].sender = tasks[t].sender
               /\ ts[t].state = "run" => tasks[t].state = "run" /\ t \notin {h}
      BY <1>1, AbortKeeps
    <3>2. tasks' = [ts EXCEPT ![h].sender = FALSE]
      BY <2>2 DEF Dissociate
    <3> HIDE DEF ts, h
    <3>3. h \in 1..Len(ts) /\ ts[h] \in Tasks /\ DOMAIN ts = 1..Len(ts)
      BY <1>1, <2>2, <3>1, ElementOfSeq, LenProperties
    <3> DEFINE new == [ts[h] EXCEPT !.sender = FALSE]
    <3>4. new \in Tasks /\ new.assoc = ts[h].assoc /\ new.queue = ts[h].queue
          /\ new.state = ts[h].state
      BY <3>3 DEF Tasks
    <3>5. tasks' = [ts EXCEPT ![h] = new]
      BY <3>2
    <3> HIDE DEF new
    <3>6. /\ tasks' \in Seq(Tasks) /\ Len(tasks') = Len(ts)
          /\ \A t \in 1..Len(ts) : tasks'[t] = IF t = h THEN new ELSE ts[t]
      BY <3>1, <3>3, <3>4, <3>5, ExceptSeq
    <3> QED
      BY <3>1, <3>4, <3>6
  <2> QED
    BY <2>1, <2>2
<1>5. TypeInv'
  BY <1>1, <1>2, <1>4 DEF RelayInv, TypeInv
<1>6. ASSUME NEW t \in 1..Len(tasks)
      PROVE  /\ tasks'[t].assoc = tasks[t].assoc
             /\ \A j \in 1..Len(tasks'[t].queue) : Whole(sent, tasks[t].assoc, tasks'[t].queue[j])
             /\ (tasks'[t].state = "run" /\ tasks'[t].sender) => handle'[tasks[t].assoc] = t
  <2>1. handle \in [Assocs -> 0..Len(tasks)]
    BY DEF RelayInv, TypeInv
  <2> QED
    BY <1>2, <1>3, <1>4, <2>1 DEF RelayInv, QueueInv
<1>7. \A c \in Assocs : handle'[c] \in {0, handle[c]}
  BY <1>2 DEF RelayInv, TypeInv
<1> QED
  BY <1>4, <1>5, <1>6, <1>7, TasksKeep DEF RelayInv

LEMMA RelayStepKeeps ==
  ASSUME RelayInv, RelayStep
  PROVE  RelayInv'
<1> USE DEF RelayInv
<1>1. CASE RelayStops
  BY <1>1, GoneKeeps DEF RelayStops, ReturnFromLoop
<1>2. ASSUME NEW K \in (SUBSET Buffered) \ {{}}, collect_garbage(K)
      PROVE  RelayInv'
  <2>1. UNCHANGED <<sent, nextId, net, relay, handle, tasks, replies, out>>
    BY <1>2 DEF collect_garbage
  <2>2. TableInv'
    <3>1. buffers' = [k \in Keys |-> IF k \in K THEN NoBuffer ELSE buffers[k]]
      BY <1>2 DEF collect_garbage, TableInv
    <3> QED
      BY <2>1, <3>1 DEF TableInv
  <2> QED
    BY <2>1, <2>2 DEF TypeInv, NetInv, LoopInv, QueueInv, OutInv, HandleInv, OneTaskPerAssociation
<1>3. ASSUME NEW f \in net, AcceptUni(f)
      PROVE  RelayInv'
  <2>1. /\ UNCHANGED <<sent, nextId, buffers, handle, tasks, replies, out>>
        /\ net' = net \ {f} /\ relay'.pc = "read_uni" /\ relay'.stream = f
    BY <1>3 DEF AcceptUni
  <2>2. LoopInv' /\ NetInv'
    BY <2>1 DEF LoopInv, NetInv
  <2> QED
    BY <2>1, <2>2 DEF TypeInv, TableInv, QueueInv, OutInv, HandleInv, OneTaskPerAssociation
<1>4. ASSUME NEW f \in net, ReadDatagram(f)
      PROVE  RelayInv'
  <2>1. /\ UNCHANGED <<sent, nextId, handle, tasks, replies, out>>
        /\ net' = net \ {f} /\ f.via = "datagram" /\ TakePacket(f)
    BY <1>4 DEF ReadDatagram
  <2>2. NetInv'
    BY <2>1 DEF NetInv
  <2>3. TypeInv' /\ QueueInv' /\ OutInv' /\ HandleInv' /\ OneTaskPerAssociation'
    BY <2>1 DEF TypeInv, QueueInv, OutInv, HandleInv, OneTaskPerAssociation
  <2>4. Fragment(sent, f)
    BY <2>1 DEF NetInv, Message
  <2> QED
    BY <2>1, <2>2, <2>3, <2>4, TakeKeeps
<1>5. CASE ReadUni
  <2> DEFINE f == relay.stream
  <2>1. UNCHANGED <<sent, nextId, net, out, replies>> /\ Message(sent, f)
    BY <1>5 DEF ReadUni, LoopInv
  <2>2. NetInv' /\ OutInv'
    BY <2>1 DEF NetInv, OutInv
  <2>3. CASE f.kind = "packet" /\ TakePacket(f) /\ UNCHANGED <<handle, tasks>>
    <3>1. Fragment(sent, f)
      BY <2>1, <2>3 DEF Message
    <3>2. TypeInv' /\ QueueInv' /\ HandleInv' /\ OneTaskPerAssociation'
      BY <2>1, <2>3 DEF TypeInv, QueueInv, HandleInv, OneTaskPerAssociation
    <3>3. TableInv' /\ LoopInv'
      BY <2>1, <2>3, <3>1, TakeKeeps
    <3> QED
      BY <2>2, <3>2, <3>3
  <2>4. CASE f.kind = "dissociate" /\ Dissociate(f.assoc) /\ relay' = Selecting /\ UNCHANGED buffers
    <3>1. f.assoc \in Assocs
      BY <2>1, <2>4 DEF Message, Fragment
    <3>2. TypeInv' /\ QueueInv' /\ HandleInv' /\ OneTaskPerAssociation'
      BY <2>1, <2>4, <3>1, DissociateKeeps
    <3>3. TableInv' /\ LoopInv'
      BY <2>1, <2>4 DEF TableInv, LoopInv, Selecting
    <3> QED
      BY <2>2, <3>2, <3>3
  <2> QED
    BY <1>5, <2>3, <2>4 DEF ReadUni
<1>6. CASE ReadUniFails
  BY <1>6 DEF ReadUniFails, Selecting, TypeInv, NetInv, TableInv, LoopInv, QueueInv, OutInv,
              HandleInv, OneTaskPerAssociation
<1>7. CASE ForwardToTask
  <2> DEFINE h == handle[relay.assoc]
             new == [tasks[h] EXCEPT !.queue = Append(@, relay.payload)]
  <2>1. /\ UNCHANGED <<sent, nextId, net, buffers, handle, out, replies>> /\ relay' = Selecting
        /\ relay.assoc \in Assocs /\ Whole(sent, relay.assoc, relay.payload)
        /\ h # 0 /\ Running(h)
        /\ tasks' = [tasks EXCEPT ![h].queue = Append(@, relay.payload)]
    BY <1>7 DEF ForwardToTask, LoopInv, HasReceiver, Enqueue
  <2>2. /\ h \in DOMAIN tasks /\ tasks[h] \in Tasks /\ tasks[h].queue \in Seq(Seq(Pieces))
        /\ tasks[h].state = "run" \/ tasks[h].state = "aborted"
    <3>1. h \in DOMAIN tasks
      BY <2>1, LenProperties DEF TypeInv
    <3> QED
      BY <2>1, <3>1, TaskType DEF Running
  <2>3. relay.payload \in Seq(Pieces)
    BY <2>1 DEF Whole
  <2>4. /\ new \in Tasks /\ new.assoc = tasks[h].assoc /\ new.state = tasks[h].state
        /\ new.sender = tasks[h].sender /\ new.queue = Append(tasks[h].queue, relay.payload)
    <3> DEFINE q == Append(tasks[h].queue, relay.payload)
    <3>1. q \in Seq(Seq(Pieces))
      BY <2>2, <2>3, AppendProperties
    <3> HIDE DEF q
    <3>2. new = [tasks[h] EXCEPT !.queue = q]
      BY DEF q
    <3> HIDE DEF new
    <3> QED
      BY <2>2, <3>1, <3>2, Requeued DEF q
  <2>5. tasks' = [tasks EXCEPT ![h] = new]
    BY <2>1
  <2> HIDE DEF new
  <2>6. ASSUME NEW j \in 1..Len(new.queue)
        PROVE  Whole(sent, new.assoc, new.queue[j])
    <3> DEFINE q == tasks[h].queue
    <3>1. /\ Len(new.queue) = Len(q) + 1 /\ Len(q) \in Nat
          /\ \A m \in 1..Len(q) : new.queue[m] = q[m]
          /\ new.queue[Len(q) + 1] = relay.payload
      <4> HIDE DEF q
      <4>1. q \in Seq(Seq(Pieces)) /\ new.queue = Append(q, relay.payload)
        BY <2>2, <2>4 DEF q
      <4> QED
        BY <2>3, <4>1, AppendProperties, LenProperties
    <3>2. tasks[h].assoc = relay.assoc
      BY <2>1 DEF HandleInv
    <3>3. CASE j \in 1..Len(q)
      BY <2>2, <2>4, <3>1, <3>3, TaskType DEF QueueInv
    <3>4. CASE j = Len(q) + 1
      BY <2>1, <2>4, <3>1, <3>2, <3>4
    <3>5. j \in 1..Len(q) \/ j = Len(q) + 1
      <4>1. PICK m \in Nat : m = Len(q)
        BY <3>1
      <4>2. j \in 1..(m + 1)
        BY <3>1, <4>1
      <4>3. j \in 1..m \/ j = m + 1
        BY ONLY <4>2, m \in Nat
      <4> QED
        BY <4>1, <4>3
    <3> QED
      BY <3>3, <3>4, <3>5
  <2>7. TypeInv' /\ QueueInv' /\ HandleInv' /\ OneTaskPerAssociation'
    <3>1. tasks' \in Seq(Tasks) /\ Len(tasks') = Len(tasks) /\ QueueInv' /\ HandleInv' /\ OneTaskPerAssociation'
      BY <2>1, <2>2, <2>4, <2>5, <2>6, OneTaskChanges
    <3> QED
      BY <2>1, <3>1 DEF TypeInv
  <2>8. NetInv' /\ TableInv' /\ LoopInv' /\ OutInv'
    BY <2>1 DEF NetInv, TableInv, LoopInv, OutInv, Selecting
  <2> QED
    BY <2>7, <2>8
<1>8. CASE ForwardToNewTask
  <2> DEFINE a == relay.assoc
             new == [assoc |-> a, queue |-> <<relay.payload>>, sender |-> TRUE,
                     state |-> "run", replyId |-> 0]
  <2>1. /\ UNCHANGED <<sent, nextId, net, buffers, out, replies>> /\ relay' = Selecting
        /\ a \in Assocs /\ Whole(sent, a, relay.payload)
        /\ ~HasReceiver(handle[a])
        /\ tasks' = Append(tasks, new)
        /\ handle' = [handle EXCEPT ![a] = Len(tasks) + 1]
    BY <1>8 DEF ForwardToNewTask, LoopInv
  <2>2. relay.payload \in Seq(Pieces)
    BY <2>1 DEF Whole
  <2>3. /\ new \in Tasks /\ Len(new.queue) = 1 /\ new.queue[1] = relay.payload
        /\ new.assoc = a
    <3>1. 0 \in 0..(PacketIds - 1)
      BY SizesAssumption
    <3> QED
      BY <2>1, <2>2, <3>1 DEF Tasks
  <2> HIDE DEF new
  <2>4. /\ tasks \in Seq(Tasks) /\ Len(tasks) \in Nat /\ DOMAIN tasks = 1..Len(tasks)
        /\ handle \in [Assocs -> 0..Len(tasks)]
    BY LenProperties DEF TypeInv
  <2>5. /\ tasks' \in Seq(Tasks) /\ Len(tasks') = Len(tasks) + 1
        /\ \A t \in 1..Len(tasks) : tasks'[t] = tasks[t]
        /\ tasks'[Len(tasks) + 1] = new
        /\ DOMAIN tasks' = 1..(Len(tasks) + 1)
    BY <2>1, <2>3, <2>4, AppendProperties, LenProperties
  <2>6. TypeInv'
    BY <2>1, <2>4, <2>5 DEF TypeInv
  <2>7. QueueInv'
    <3> SUFFICES ASSUME NEW t \in 1..(Len(tasks) + 1), NEW j \in 1..Len(tasks'[t].queue)
                 PROVE  Whole(sent', tasks'[t].assoc, tasks'[t].queue[j])
      BY <2>5 DEF QueueInv
    <3>1. CASE t \in 1..Len(tasks)
      BY <2>1, <2>5, <3>1 DEF QueueInv
    <3>2. CASE t = Len(tasks) + 1
      BY <2>1, <2>3, <2>5, <3>2
    <3> QED
      BY <2>4, <3>1, <3>2
  <2>8. OneTaskPerAssociation'
    <3> SUFFICES ASSUME NEW t \in 1..(Len(tasks) + 1), tasks'[t].state = "run", tasks'[t].sender
                 PROVE  handle'[tasks'[t].assoc] = t
      BY <2>5 DEF OneTaskPerAssociation
    <3>1. CASE t \in 1..Len(tasks)
      <4>1. handle[tasks[t].assoc] = t /\ tasks[t].state = "run"
        BY <2>4, <2>5, <3>1 DEF OneTaskPerAssociation
      <4>2. tasks[t].assoc # a
        <5> SUFFICES ASSUME tasks[t].assoc = a PROVE FALSE
          OBVIOUS
        <5>1. handle[a] = t /\ t # 0 /\ Running(t)
          BY <2>4, <3>1, <4>1 DEF Running
        <5> QED
          BY <2>1, <5>1 DEF HasReceiver
      <4>3. tasks[t].assoc \in Assocs
        BY <2>4, <3>1, TaskType DEF Tasks
      <4> QED
        BY <2>1, <2>4, <2>5, <3>1, <4>1, <4>2, <4>3
    <3>2. CASE t = Len(tasks) + 1
      BY <2>1, <2>3, <2>4, <2>5, <3>2
    <3> QED
      BY <2>4, <3>1, <3>2
  <2>9. HandleInv'
    <3> SUFFICES ASSUME NEW c \in Assocs, handle'[c] # 0 PROVE tasks'[handle'[c]].assoc = c
      BY DEF HandleInv
    <3>1. CASE c = a
      BY <2>1, <2>3, <2>4, <2>5, <3>1
    <3>2. CASE c # a
      <4>1. handle'[c] = handle[c] /\ handle[c] \in 1..Len(tasks)
        BY <2>1, <2>4, <3>2
      <4> QED
        BY <2>5, <4>1 DEF HandleInv
    <3> QED
      BY <3>1, <3>2
  <2>10. NetInv' /\ TableInv' /\ LoopInv' /\ OutInv'
    BY <2>1 DEF NetInv, TableInv, LoopInv, OutInv, Selecting
  <2> QED
    BY <2>6, <2>7, <2>8, <2>9, <2>10
<1> QED
  BY <1>1, <1>2, <1>3, <1>4, <1>5, <1>6, <1>7, <1>8 DEF RelayStep

(* The steps of an association's task.                                     *)
LEMMA TaskStepKeeps ==
  ASSUME RelayInv, NEW t \in DOMAIN tasks, TaskStep(t)
  PROVE  RelayInv'
<1> USE DEF RelayInv
<1> DEFINE k == tasks[t]
<1>1. t \in 1..Len(tasks) /\ k \in Tasks /\ k.queue \in Seq(Seq(Pieces))
  BY TaskType
<1>2. \A j \in 1..Len(k.queue) : Whole(sent, k.assoc, k.queue[j])
  BY <1>1 DEF QueueInv
<1>3. ASSUME UNCHANGED <<sent, nextId, net, buffers, relay, handle>>
      PROVE  NetInv' /\ TableInv' /\ LoopInv'
  BY <1>3 DEF NetInv, TableInv, LoopInv
<1> HIDE DEF RelayInv
<1>4. ASSUME UNCHANGED <<sent, nextId, net, buffers, relay, handle>>,
             replies' \in Seq(Packets), OutInv',
             NEW new \in Tasks, tasks' = [tasks EXCEPT ![t] = new], new.assoc = k.assoc,
             \A j \in 1..Len(new.queue) : Whole(sent, new.assoc, new.queue[j]),
             new.state = "run" => k.state = "run", new.sender = k.sender
      PROVE  RelayInv'
  <2>1. /\ tasks' \in Seq(Tasks) /\ Len(tasks') = Len(tasks)
        /\ QueueInv' /\ HandleInv' /\ OneTaskPerAssociation'
    BY <1>4, OneTaskChanges DEF RelayInv
  <2>2. TypeInv'
    BY <1>4, <2>1 DEF RelayInv, TypeInv
  <2> QED
    BY <1>3, <1>4, <2>1, <2>2 DEF RelayInv
<1>5. CASE TaskSends(t)
  <2> DEFINE q == Tail(k.queue)
             new == [k EXCEPT !.queue = q]
  <2>1. /\ UNCHANGED <<sent, nextId, net, buffers, relay, handle, replies>>
        /\ k.queue # <<>> /\ tasks' = [tasks EXCEPT ![t].queue = Tail(@)]
        /\ out' \in {out, out \cup {[assoc |-> k.assoc, pieces |-> Head(k.queue)]}}
    BY <1>5 DEF TaskSends
  <2>2. /\ q \in Seq(Seq(Pieces)) /\ Len(q) = Len(k.queue) - 1 /\ Len(k.queue) \in Nat \ {0}
        /\ Head(k.queue) = k.queue[1]
        /\ \A j \in 1..Len(q) : q[j] = k.queue[j + 1]
    <3> HIDE DEF k
    <3> QED
      BY <1>1, <2>1, HeadTailProperties, LenProperties, EmptySeq
  <2> HIDE DEF q
  <2>3. /\ new \in Tasks /\ new.assoc = k.assoc /\ new.state = k.state
        /\ new.sender = k.sender /\ new.queue = q
    BY <1>1, <2>2, Requeued
  <2>4. tasks' = [tasks EXCEPT ![t] = new]
    BY <2>1 DEF q
  <2> HIDE DEF new, k
  <2>5. ASSUME NEW j \in 1..Len(q)
        PROVE  Whole(sent, k.assoc, q[j])
    <3>1. j + 1 \in 1..Len(k.queue)
      BY <2>2
    <3> QED
      BY <1>2, <2>2, <3>1
  <2>6. Whole(sent, k.assoc, Head(k.queue))
    BY <1>2, <2>2
  <2>7. OutInv'
    <3> SUFFICES ASSUME NEW d \in out' PROVE Whole(sent, d.assoc, d.pieces)
      BY <2>1 DEF OutInv
    <3>1. d \in out \/ d = [assoc |-> k.assoc, pieces |-> Head(k.queue)]
      BY <2>1
    <3> QED
      BY <2>6, <3>1 DEF RelayInv, OutInv
  <2>8. replies' \in Seq(Packets)
    BY <2>1 DEF RelayInv, TypeInv
  <2> QED
    BY <1>4, <2>1, <2>3, <2>4, <2>5, <2>7, <2>8 DEF k
<1>6. ASSUME UNCHANGED out PROVE UNCHANGED sent => OutInv'
  BY <1>6 DEF RelayInv, OutInv
<1>7. ASSUME UNCHANGED replies PROVE replies' \in Seq(Packets)
  BY <1>7 DEF RelayInv, TypeInv
<1>8. CASE TaskEnds(t)
  <2> DEFINE new == [k EXCEPT !.state = "ended", !.queue = <<>>]
  <2>1. /\ UNCHANGED <<sent, nextId, net, buffers, relay, handle, replies, out>>
        /\ tasks' = [tasks EXCEPT ![t].state = "ended", ![t].queue = <<>>]
    BY <1>8 DEF TaskEnds
  <2>2. /\ new \in Tasks /\ new.assoc = k.assoc /\ new.state = "ended"
        /\ new.sender = k.sender /\ new.queue = <<>>
    <3>1. \A q \in Seq(Seq(Pieces)) :
            LET n == [k EXCEPT !.state = "ended", !.queue = q] IN
            /\ n \in Tasks /\ n.assoc = k.assoc /\ n.state = "ended"
            /\ n.sender = k.sender /\ n.queue = q
      BY <1>1 DEF Tasks
    <3>2. <<>> \in Seq(Seq(Pieces))
      OBVIOUS
    <3> QED
      BY <3>1, <3>2
  <2>3. tasks' = [tasks EXCEPT ![t] = new]
    BY <1>1, <2>1
  <2> HIDE DEF new, k
  <2>4. \A j \in 1..Len(new.queue) : Whole(sent, new.assoc, new.queue[j])
    <3>1. Len(new.queue) = 0
      BY <2>2
    <3> QED
      BY <3>1
  <2> QED
    BY <1>4, <1>6, <1>7, <2>1, <2>2, <2>3, <2>4 DEF k
<1>9. CASE TaskGivesUp(t)
  <2> DEFINE new == [k EXCEPT !.state = "ended"]
  <2>1. /\ UNCHANGED <<sent, nextId, net, buffers, relay, handle, replies, out>>
        /\ tasks' = [tasks EXCEPT ![t].state = "ended"]
    BY <1>9 DEF TaskGivesUp
  <2>2. /\ new \in Tasks /\ new.assoc = k.assoc /\ new.state = "ended"
        /\ new.sender = k.sender /\ new.queue = k.queue
    BY <1>1 DEF Tasks
  <2>3. tasks' = [tasks EXCEPT ![t] = new]
    BY <2>1
  <2> HIDE DEF new
  <2> QED
    BY <1>2, <1>4, <1>6, <1>7, <2>1, <2>2, <2>3
<1>10. ASSUME NEW n \in Lengths, NEW size \in DatagramSizes, TaskReplies(t, n, size)
       PROVE  RelayInv'
  <2> DEFINE id == (k.replyId + 1) % PacketIds
             new == [k EXCEPT !.replyId = id]
             x == [assoc |-> k.assoc, pid |-> k.replyId, len |-> n, size |-> size]
  <2>1. /\ UNCHANGED <<sent, nextId, net, buffers, relay, handle, out>>
        /\ replies' = Append(replies, x)
        /\ tasks' = [tasks EXCEPT ![t].replyId = (@ + 1) % PacketIds]
    BY <1>10 DEF TaskReplies
  <2>2. k.replyId \in 0..(PacketIds - 1) /\ k.assoc \in Assocs
    BY <1>1 DEF Tasks
  <2>3. id \in 0..(PacketIds - 1)
    <3>1. \A i \in 0..(PacketIds - 1) : (i + 1) % PacketIds \in 0..(PacketIds - 1)
      BY SizesAssumption
    <3> QED
      BY <2>2, <3>1
  <2>4. tasks' = [tasks EXCEPT ![t] = new]
    BY <2>1
  <2> HIDE DEF id
  <2>5. /\ new \in Tasks /\ new.assoc = k.assoc /\ new.state = k.state
        /\ new.sender = k.sender /\ new.queue = k.queue
    BY <1>1, <2>3 DEF Tasks
  <2>6. replies' \in Seq(Packets)
    <3>1. x \in Packets
      BY <2>2 DEF Packets
    <3> HIDE DEF x
    <3> QED
      BY <2>1, <3>1, AppendProperties DEF RelayInv, TypeInv
  <2> HIDE DEF new, x
  <2> QED
    BY <1>2, <1>4, <1>6, <2>1, <2>4, <2>5, <2>6
<1> QED
  BY <1>5, <1>8, <1>9, <1>10 DEF TaskStep

LEMMA NextKeeps == RelayInv /\ [Next]_vars => RelayInv'
<1> SUFFICES ASSUME RelayInv, [Next]_vars PROVE RelayInv'
  OBVIOUS
<1>1. ASSUME UNCHANGED <<sent, nextId, buffers, relay, handle, tasks, replies, out>>,
             net' \subseteq net
      PROVE  RelayInv'
  BY <1>1 DEF RelayInv, TypeInv, NetInv, TableInv, LoopInv, QueueInv, OutInv, HandleInv,
              OneTaskPerAssociation
<1>2. CASE QuicCloses \/ ShutdownSignalled \/ OwnerFails \/ UNCHANGED vars
  <2>1. UNCHANGED <<sent, nextId, buffers, relay, handle, tasks, replies, out>>
        /\ net' \subseteq net
    BY <1>2 DEF QuicCloses, ShutdownSignalled, OwnerFails, vars
  <2> QED
    BY <1>1, <2>1
<1>3. CASE OwnerEnds
  BY <1>3, GoneKeeps DEF OwnerEnds, OwnerAborts
<1> QED
  BY <1>2, <1>3, RelayStepKeeps, TaskStepKeeps, SendKeeps, DissociateSentKeeps DEF Next

LEMMA SpecInv == Spec => []RelayInv
BY InitInv, NextKeeps, PTL DEF Spec

-----------------------------------------------------------------------------
(* encode_tuic_udp_fragments cuts a payload of any length, for any         *)
(* datagram size it accepts, into fragments that fit the datagram with     *)
(* their headers, are numbered within the byte, and end to end are the     *)
(* payload; the decoder takes each of them.                                *)
THEOREM FragmentsAreExact == Spec => []FragmentsExact
<1>1. RelayInv => FragmentsExact
  <2> SUFFICES ASSUME RelayInv PROVE FragmentsExact
    OBVIOUS
  <2>1. \A f \in net : f.kind = "packet" => decode_tuic_udp_fragment(f)
    BY DEF RelayInv, NetInv, Message, Fragment
  <2>2. ASSUME NEW p \in Range(sent) \cup Range(replies)
        PROVE  p.len \in Nat /\ p.size \in Nat
    <3>1. p \in Packets
      BY ElementOfSeq, LenProperties DEF RelayInv, TypeInv, Range
    <3> QED
      BY <3>1, SizesAssumption DEF Packets
  <2> QED
    BY <2>1, <2>2, FragmentsTile DEF FragmentsExact
<1> QED
  BY <1>1, SpecInv, PTL

(* Whatever is lost, reordered, collected or dissolved, and however packet *)
(* identifiers wrap, what leaves through an association's socket is made   *)
(* of all the fragments, in order, that packets of that association, of    *)
(* one identifier and one fragment count, were cut into.                   *)
THEOREM OutputIsWhole == Spec => []OutIsWhole
<1>1. RelayInv => OutIsWhole
  <2> SUFFICES ASSUME RelayInv, NEW d \in out
               PROVE  LET srcs == {d.pieces[i].src : i \in DOMAIN d.pieces}
                          n == Len(d.pieces) IN
                      /\ \A i \in srcs : /\ sent[i].assoc = d.assoc
                                         /\ sent[i].pid = sent[d.pieces[1].src].pid
                                         /\ fragment_total(sent[i].len, sent[i].size) = n
                      /\ \A i \in 1..n :
                            LET p == sent[d.pieces[i].src] IN
                            d.pieces[i].span = FragmentSpan(p.len, p.size, i - 1)
    BY DEF OutIsWhole
  <2>1. Whole(sent, d.assoc, d.pieces)
    BY DEF RelayInv, OutInv
  <2>2. /\ d.pieces \in Seq(Pieces) /\ Len(d.pieces) \in Nat \ {0}
        /\ DOMAIN d.pieces = 1..Len(d.pieces)
    BY <2>1, LenProperties DEF Whole
  <2>3. PICK pid \in 0..(PacketIds - 1) : \A i \in 1..Len(d.pieces) :
           FromPacket(sent, d.pieces[i], d.assoc, pid, Len(d.pieces), i - 1)
    BY <2>1 DEF Whole
  <2>4. 1 \in 1..Len(d.pieces)
    BY <2>2
  <2>5. ASSUME NEW i \in 1..Len(d.pieces)
        PROVE  LET p == sent[d.pieces[i].src] IN
               /\ p.assoc = d.assoc /\ p.pid = pid
               /\ fragment_total(p.len, p.size) = Len(d.pieces)
               /\ d.pieces[i].span = FragmentSpan(p.len, p.size, i - 1)
    BY <2>3 DEF FromPacket
  <2>6. \A i \in 1..Len(d.pieces) :
          d.pieces[i].span
            = FragmentSpan(sent[d.pieces[i].src].len, sent[d.pieces[i].src].size, i - 1)
    BY ONLY <2>5
  <2>7. ASSUME NEW k \in {d.pieces[i].src : i \in DOMAIN d.pieces}
        PROVE  /\ sent[k].assoc = d.assoc /\ sent[k].pid = sent[d.pieces[1].src].pid
               /\ fragment_total(sent[k].len, sent[k].size) = Len(d.pieces)
    <3>1. PICK i \in 1..Len(d.pieces) : k = d.pieces[i].src
      BY <2>2
    <3>2. sent[k].pid = pid /\ sent[d.pieces[1].src].pid = pid
      BY ONLY <2>4, <2>5, <3>1
    <3>3. sent[k].assoc = d.assoc /\ fragment_total(sent[k].len, sent[k].size) = Len(d.pieces)
      BY ONLY <2>5, <3>1
    <3> QED
      BY ONLY <3>2, <3>3
  <2> QED
    BY ONLY <2>6, <2>7
<1> QED
  BY <1>1, SpecInv, PTL

(* However often associations are dissolved, time out and are opened       *)
(* again, at most one task serves an association: the one the relay's map  *)
(* names.                                                                  *)
THEOREM AssociationHasOneTask == Spec => []OneTaskPerAssociation
<1>1. RelayInv => OneTaskPerAssociation
  BY DEF RelayInv
<1> QED
  BY <1>1, SpecInv, PTL
=============================================================================
