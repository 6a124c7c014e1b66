-------------------------- MODULE ForwardersProofs --------------------------
(***************************************************************************)
(* Proofs about the shared dialer and its users, for any number of relay   *)
(* tasks, connections, streams and local peers.                            *)
(***************************************************************************)
EXTENDS Forwarders, SequenceTheorems, TLAPS

(* A task that holds a connection got it from a dial.                      *)
HeldIsReal ==
  \A u \in Users : user[u] \in {"open", "invalidate"} => held[u] # NONE

DialerInv == TypeOK /\ LockOwned /\ GivenUpNotReused /\ HeldIsReal

(* Taking a task out of the queue leaves the others, in their order.       *)
LEMMA VacatedQueue ==
  ASSUME queue \in Seq(Users), NEW i \in 1..Len(queue),
         \A j, k \in 1..Len(queue) : queue[j] = queue[k] => j = k,
         queue' = Vacated(i)
  PROVE  /\ queue' \in Seq(Users)
         /\ \A j, k \in 1..Len(queue') : queue'[j] = queue'[k] => j = k
         /\ \A u : (\E j \in 1..Len(queue') : queue'[j] = u) <=>
                     (u # queue[i] /\ \E j \in 1..Len(queue) : queue[j] = u)
         /\ i # 1 => queue' # <<>> /\ Head(queue') = Head(queue)
<1> DEFINE n == Len(queue) - 1
<1>1. n \in Nat /\ Len(queue) = n + 1 /\ Len(queue) \in Nat
  OBVIOUS
<1>2. /\ queue' \in [1..n -> Users]
      /\ \A j \in 1..n : queue'[j] = IF j < i THEN queue[j] ELSE queue[j + 1]
  BY <1>1 DEF Vacated
<1>3. queue' \in Seq(Users) /\ Len(queue') = n
  <2>1. queue' \in Seq(Users)
    BY <1>1, <1>2, SeqDef
  <2>2. DOMAIN queue' = 1..n
    BY <1>2
  <2>3. Len(queue') \in Nat /\ DOMAIN queue' = 1..Len(queue')
    BY <2>1, LenProperties
  <2>4. \A m, k \in Nat : 1..m = 1..k => m = k
    OBVIOUS
  <2> QED
    BY <1>1, <2>1, <2>2, <2>3, <2>4
<1>4. \A j, k \in 1..n : queue'[j] = queue'[k] => j = k
  <2> TAKE j, k \in 1..n
  <2> HAVE queue'[j] = queue'[k]
  <2> DEFINE a == IF j < i THEN j ELSE j + 1
             b == IF k < i THEN k ELSE k + 1
  <2>1. a \in 1..Len(queue) /\ b \in 1..Len(queue) /\ queue[a] = queue[b]
    BY <1>1, <1>2
  <2>2. a = b
    BY <2>1
  <2> QED
    BY <2>2, <1>1
<1>5. ASSUME NEW u
      PROVE  (\E j \in 1..n : queue'[j] = u) <=>
               (u # queue[i] /\ \E j \in 1..Len(queue) : queue[j] = u)
  <2>1. ASSUME NEW j \in 1..n, queue'[j] = u
        PROVE  u # queue[i] /\ \E k \in 1..Len(queue) : queue[k] = u
    <3> DEFINE a == IF j < i THEN j ELSE j + 1
    <3>1. a \in 1..Len(queue) /\ a # i /\ queue[a] = u
      BY <1>1, <1>2, <2>1
    <3> QED
      BY <3>1
  <2>2. ASSUME NEW k \in 1..Len(queue), queue[k] = u, u # queue[i]
        PROVE  \E j \in 1..n : queue'[j] = u
    <3> DEFINE b == IF k < i THEN k ELSE k - 1
    <3>1. k # i
      BY <2>2
    <3>2. b \in 1..n /\ queue'[b] = u
      BY <1>1, <1>2, <2>2, <3>1
    <3> QED
      BY <3>2
  <2> QED
    BY <2>1, <2>2
<1>6. i # 1 => queue' # <<>> /\ Head(queue') = Head(queue)
  BY <1>1, <1>2, <1>3
<1> QED
  BY <1>3, <1>4, <1>5, <1>6

(* What a task leaves behind when it goes: the lock is owned as before.    *)
LEMMA LeaveKeepsLock ==
  ASSUME queue \in Seq(Users), NEW S, user \in [Users -> S], LockOwned,
         NEW u \in Users, NEW state \in {"open", "over"}, Leave(u, state)
  PROVE  queue' \in Seq(Users) /\ LockOwned'
<1>1. user' = [user EXCEPT ![u] = state]
  BY DEF Leave
<1>2. CASE \E i \in 1..Len(queue) : queue[i] = u /\ queue' = Vacated(i)
  <2>1. PICK i \in 1..Len(queue) : queue[i] = u /\ queue' = Vacated(i)
    BY <1>2
  <2>2. /\ queue' \in Seq(Users)
        /\ \A j, k \in 1..Len(queue') : queue'[j] = queue'[k] => j = k
        /\ \A v : (\E j \in 1..Len(queue') : queue'[j] = v) <=>
                    (v # u /\ \E j \in 1..Len(queue) : queue[j] = v)
        /\ i # 1 => queue' # <<>> /\ Head(queue') = Head(queue)
    BY <2>1, VacatedQueue DEF LockOwned
  <2>3. ASSUME NEW v \in Users, user'[v] = "dial"
        PROVE  Holds(v)'
    <3>1. v # u /\ user[v] = "dial" /\ Holds(v)
      BY <2>3, <1>1 DEF LockOwned
    <3>2. i # 1
      BY <2>1, <3>1 DEF Holds
    <3> QED
      BY <2>2, <3>1, <3>2 DEF Holds
  <2>4. ASSUME NEW v \in Users
        PROVE  user'[v] \in {"get", "dial", "invalidate"} <=>
                 \E j \in 1..Len(queue') : queue'[j] = v
    BY <2>2, <1>1 DEF LockOwned
  <2> QED
    BY <2>2, <2>3, <2>4 DEF LockOwned
<1>3. CASE (\A i \in 1..Len(queue) : queue[i] # u) /\ UNCHANGED queue
  BY <1>1, <1>3 DEF LockOwned, Holds
<1> QED
  BY <1>2, <1>3 DEF Leave

(* A task that starts to wait for the lock goes to the end of the queue.   *)
LEMMA WaitKeepsLock ==
  ASSUME queue \in Seq(Users), NEW S, user \in [Users -> S], LockOwned,
         NEW u \in Users, user[u] \notin {"get", "dial", "invalidate"},
         NEW state \in {"get", "invalidate"},
         user' = [user EXCEPT ![u] = state], queue' = Append(queue, u)
  PROVE  queue' \in Seq(Users) /\ LockOwned'
<1>1. /\ queue' \in Seq(Users) /\ Len(queue') = Len(queue) + 1 /\ Len(queue) \in Nat
      /\ \A i \in 1..Len(queue) : queue'[i] = queue[i]
      /\ queue'[Len(queue) + 1] = u
      /\ queue' # <<>>
  OBVIOUS
<1>2. \A i \in 1..Len(queue) : queue[i] # u
  BY DEF LockOwned
<1>3. \A i, j \in 1..Len(queue') : queue'[i] = queue'[j] => i = j
  BY <1>1, <1>2 DEF LockOwned
<1>4. ASSUME NEW v \in Users
      PROVE  user'[v] \in {"get", "dial", "invalidate"} <=>
               \E i \in 1..Len(queue') : queue'[i] = v
  <2>1. CASE v = u
    BY <1>1, <2>1
  <2>2. CASE v # u
    BY <1>1, <2>2 DEF LockOwned
  <2> QED
    BY <2>1, <2>2
<1>5. ASSUME NEW v \in Users, user'[v] = "dial"
      PROVE  Holds(v)'
  <2>1. user[v] = "dial" /\ Holds(v)
    BY <1>5 DEF LockOwned
  <2> QED
    BY <2>1, <1>1 DEF Holds
<1> QED
  BY <1>1, <1>3, <1>4, <1>5 DEF LockOwned

LEMMA NoneIsNoConnection ==
  ASSUME TypeOK
  PROVE  NONE \notin 1..dialed
BY DialerAssumption DEF TypeOK

(* Every step of a task that uses the dialer keeps the dialer sound.       *)
LEMMA GetKeepsDialer ==
  ASSUME DialerInv, NEW u \in Users, get_connection(u)
  PROVE  DialerInv'
<1> USE DEF TypeOK, HeldIsReal, GivenUpNotReused
<1>1. CASE get_connection_cached(u)
  <2>1. queue' \in Seq(Users) /\ LockOwned'
    BY <1>1, LeaveKeepsLock DEF DialerInv, get_connection_cached
  <2>2. user' = [user EXCEPT ![u] = "open"] /\ held' = [held EXCEPT ![u] = cache]
        /\ cache # NONE /\ UNCHANGED <<cache, dialed, dead, given_up>>
    BY <1>1 DEF get_connection_cached, Leave, healthy
  <2> QED
    BY <2>1, <2>2 DEF DialerInv
<1>2. CASE get_connection_dials(u)
  <2>1. LockOwned'
    BY <1>2 DEF DialerInv, get_connection_dials, LockOwned, Holds
  <2>2. GivenUpNotReused'
    BY <1>2, NoneIsNoConnection DEF DialerInv, get_connection_dials
  <2>3. TypeOK' /\ HeldIsReal'
    BY <1>2 DEF DialerInv, get_connection_dials
  <2> QED
    BY <2>1, <2>2, <2>3 DEF DialerInv
<1>3. CASE dial_ok(u)
  <2>1. queue' \in Seq(Users) /\ LockOwned'
    BY <1>3, LeaveKeepsLock DEF DialerInv, dial_ok
  <2>2. /\ user' = [user EXCEPT ![u] = "open"] /\ held' = [held EXCEPT ![u] = dialed + 1]
        /\ cache' = dialed + 1 /\ dialed' = dialed + 1 /\ dialed < MaxDials
        /\ UNCHANGED <<dead, given_up>>
    BY <1>3 DEF dial_ok, Leave
  <2> QED
    BY <2>1, <2>2, DialerAssumption DEF DialerInv
<1>4. CASE dial_err(u)
  <2>1. queue' \in Seq(Users) /\ LockOwned'
    BY <1>4, LeaveKeepsLock DEF DialerInv, dial_err
  <2> QED
    BY <1>4, <2>1 DEF DialerInv, dial_err, Leave
<1> QED
  BY <1>1, <1>2, <1>3, <1>4 DEF get_connection

LEMMA OpenKeepsDialer ==
  ASSUME DialerInv, NEW u \in Users, open_tcp_proxy_stream(u)
  PROVE  DialerInv'
<1> USE DEF TypeOK, HeldIsReal, GivenUpNotReused
<1>1. CASE open_ok(u)
  BY <1>1 DEF DialerInv, open_ok, LockOwned, Holds
<1>2. CASE open_err(u)
  <2>1. queue' \in Seq(Users) /\ LockOwned'
    BY <1>2, WaitKeepsLock DEF DialerInv, open_err
  <2> QED
    BY <1>2, <2>1 DEF DialerInv, open_err
<1>3. CASE invalidate(u)
  <2>1. queue' \in Seq(Users) /\ LockOwned'
    BY <1>3, LeaveKeepsLock DEF DialerInv, invalidate
  <2>2. /\ user' = [user EXCEPT ![u] = "over"] /\ cache' = NONE
        /\ given_up' = given_up \cup {held[u]} /\ held[u] # NONE
        /\ UNCHANGED <<dialed, dead, held>>
    BY <1>3 DEF DialerInv, invalidate, Leave
  <2>3. held[u] \in 1..dialed
    BY <2>2 DEF DialerInv
  <2>4. given_up' \subseteq 1..dialed
    BY <2>2, <2>3 DEF DialerInv
  <2>5. GivenUpNotReused'
    BY <2>2, <2>4, NoneIsNoConnection DEF DialerInv
  <2>6. TypeOK' /\ HeldIsReal'
    BY <2>1, <2>2, <2>4 DEF DialerInv
  <2> QED
    BY <2>1, <2>5, <2>6 DEF DialerInv
<1> QED
  BY <1>1, <1>2, <1>3 DEF open_tcp_proxy_stream

LEMMA OtherStepsKeepDialer ==
  ASSUME DialerInv, NEW u \in Users,
         Request(u) \/ Abort(u) \/ Again(u) \/ ConnectionDies
  PROVE  DialerInv'
<1> USE DEF TypeOK, HeldIsReal, GivenUpNotReused
<1>1. CASE Request(u)
  <2>1. queue' \in Seq(Users) /\ LockOwned'
    BY <1>1, WaitKeepsLock DEF DialerInv, Request
  <2> QED
    BY <1>1, <2>1 DEF DialerInv, Request
<1>2. CASE Abort(u)
  <2>1. queue' \in Seq(Users) /\ LockOwned'
    BY <1>2, LeaveKeepsLock DEF DialerInv, Abort
  <2> QED
    BY <1>2, <2>1 DEF DialerInv, Abort, Leave
<1>3. CASE Again(u)
  BY <1>3 DEF DialerInv, Again, LockOwned, Holds
<1>4. CASE ConnectionDies
  BY <1>4 DEF DialerInv, ConnectionDies, LockOwned, Holds
<1> QED
  BY <1>1, <1>2, <1>3, <1>4

(* A forwarder's own steps on its dialer: the first and the second request *)
(* of a connection, the end after a second failure, and shutdown.          *)
LEMMA ForwarderKeepsDialer ==
  ASSUME DialerInv,
         \/ StartOpen
         \/ Reconnect
         \/ OpenFailsSecond
         \/ TcpShutdown
  PROVE  DialerInv'
<1> USE ForwarderAssumption DEF TypeOK, HeldIsReal, GivenUpNotReused
<1>1. CASE StartOpen
  <2>1. queue' \in Seq(Users) /\ LockOwned'
    BY <1>1, WaitKeepsLock DEF DialerInv, StartOpen
  <2> QED
    BY <1>1, <2>1 DEF DialerInv, StartOpen
<1>2. CASE Reconnect
  <2>1. queue' \in Seq(Users) /\ LockOwned'
    BY <1>2, WaitKeepsLock DEF DialerInv, Reconnect
  <2> QED
    BY <1>2, <2>1 DEF DialerInv, Reconnect
<1>3. CASE OpenFailsSecond
  BY <1>3 DEF DialerInv, OpenFailsSecond, LockOwned, Holds
<1>4. CASE TcpShutdown
  <2>1. queue' \in Seq(Users) /\ LockOwned'
    BY <1>4, LeaveKeepsLock DEF DialerInv, TcpShutdown
  <2> QED
    BY <1>4, <2>1 DEF DialerInv, TcpShutdown, Leave
<1> QED
  BY <1>1, <1>2, <1>3, <1>4

-----------------------------------------------------------------------------
(* Where a forwarder's loop can be, and that the connection it opens a     *)
(* stream on is none it has given up.  Only the loop itself gives up       *)
(* connections of its dialer.                                              *)
LoopInv ==
  /\ kind \in {"mixed", "tcp", "udp"}
  /\ loop \in {"select", "opening", "relaying", "sending", "answer",
               "returned_ok", "returned_err"}
  /\ kind = "mixed" => loop = "select"
  /\ loop = "relaying" => kind = "tcp"
  /\ loop \in {"sending", "answer"} => kind = "udp"
  /\ loop = "opening" /\ user[Loop] = "open" => held[Loop] \notin given_up

Streams == [conn : 1..MaxDials \cup {NONE}, state : {"open", "finished"}]

(* Which streams the associations name; a new association never replaces   *)
(* one.                                                                    *)
StreamInv ==
  /\ stream \in Seq(Streams)
  /\ \A p \in DOMAIN associations : associations[p] \in 1..Len(stream)
  /\ idle \subseteq DOMAIN associations
  /\ kind # "udp" => DOMAIN associations = {}
  /\ loop = "opening" => peer \notin DOMAIN associations

ForwarderInv == DialerInv /\ LoopInv /\ StreamInv /\ StreamsAccounted

Open == {s \in DOMAIN stream : stream[s].state = "open"}

(* Finishing streams changes the state of these, and nothing else.         *)
LEMMA FinishExact ==
  ASSUME stream \in Seq(Streams), NEW S, stream' = Finish(S)
  PROVE  /\ stream' \in Seq(Streams) /\ Len(stream') = Len(stream)
         /\ Open' = Open \ S
<1>1. Len(stream) \in Nat /\ DOMAIN stream = 1..Len(stream)
      /\ \A s \in 1..Len(stream) : stream[s] \in Streams
  OBVIOUS
<1>2. /\ DOMAIN stream' = 1..Len(stream)
      /\ stream' \in [1..Len(stream) -> Streams]
      /\ \A s \in 1..Len(stream) :
           stream'[s].state = IF s \in S THEN "finished" ELSE stream[s].state
  BY <1>1 DEF Finish, Streams
<1>3. stream' \in Seq(Streams)
  BY <1>1, <1>2, SeqDef
<1>4. Len(stream') \in Nat /\ DOMAIN stream' = 1..Len(stream')
  BY <1>3, LenProperties
<1>5. \A m, k \in Nat : 1..m = 1..k => m = k
  OBVIOUS
<1>6. Len(stream') = Len(stream)
  BY <1>1, <1>2, <1>4, <1>5
<1>7. Open' = Open \ S
  BY <1>1, <1>2 DEF Open
<1> QED
  BY <1>3, <1>6, <1>7

(* A step that leaves loop, streams and associations alone.                *)
LEMMA SameStreams ==
  ASSUME StreamInv, StreamsAccounted,
         UNCHANGED <<kind, loop, peer, stream, associations, idle>>
  PROVE  StreamInv' /\ StreamsAccounted'
BY DEF StreamInv, StreamsAccounted

(* The end of a loop drops its map and finishes every stream.              *)
LEMMA ReturnErrKeepsStreams ==
  ASSUME StreamInv, ReturnErr
  PROVE  StreamInv' /\ StreamsAccounted'
<1>1. /\ stream' \in Seq(Streams) /\ Len(stream') = Len(stream)
      /\ Open' = Open \ DOMAIN stream
  BY FinishExact DEF StreamInv, ReturnErr
<1>2. Open' = {}
  BY <1>1 DEF Open
<1>3. loop' = "returned_err" /\ DOMAIN associations' = {} /\ idle' = {}
  BY DEF ReturnErr
<1>4. StreamInv'
  BY <1>1, <1>3 DEF StreamInv
<1> QED
  BY <1>2, <1>3, <1>4 DEF StreamsAccounted, Open

(* The streams of idle associations are finished, the others stay.         *)
LEMMA FinishIdleExact ==
  ASSUME StreamInv, StreamsAccounted, loop # "relaying",
         finish_idle_udp_associations
  PROVE  /\ stream' \in Seq(Streams) /\ Len(stream') = Len(stream)
         /\ DOMAIN associations' = DOMAIN associations \ idle
         /\ idle' = {}
         /\ \A p \in DOMAIN associations' : associations'[p] \in 1..Len(stream')
         /\ \A p, q \in DOMAIN associations' :
              associations'[p] = associations'[q] => p = q
         /\ Open' = {associations'[p] : p \in DOMAIN associations'}
<1>1. /\ stream' \in Seq(Streams) /\ Len(stream') = Len(stream)
      /\ Open' = Open \ {associations[p] : p \in idle}
  BY FinishExact DEF StreamInv, finish_idle_udp_associations
<1>2. /\ DOMAIN associations' = DOMAIN associations \ idle /\ idle' = {}
      /\ \A p \in DOMAIN associations' : associations'[p] = associations[p]
  BY DEF finish_idle_udp_associations, Without
<1>3. Open = {associations[p] : p \in DOMAIN associations}
  BY DEF StreamsAccounted, Open
<1>4. Open' = {associations'[p] : p \in DOMAIN associations'}
  BY <1>1, <1>2, <1>3 DEF StreamInv, StreamsAccounted
<1> QED
  BY <1>1, <1>2, <1>4 DEF StreamInv, StreamsAccounted

LEMMA InitForwarderInv ==
  ASSUME FInit({"mixed", "tcp", "udp"})
  PROVE  ForwarderInv
<1> USE DEF FInit, Init
<1>1. DialerInv
  BY DialerAssumption
  DEF DialerInv, TypeOK, LockOwned, GivenUpNotReused, HeldIsReal, Holds
<1>2. LoopInv
  BY DEF LoopInv
<1>3. StreamInv /\ StreamsAccounted
  BY DEF StreamInv, StreamsAccounted
<1> QED
  BY <1>1, <1>2, <1>3 DEF ForwarderInv

(* Opening a stream, with one redial.                                      *)
LEMMA OpenKeepsForwarder ==
  ASSUME ForwarderInv, open_with_reconnect
  PROVE  ForwarderInv'
<1> USE ForwarderAssumption DEF ForwarderInv
<1>0. kind # "mixed" /\ loop = "opening"
  BY DEF open_with_reconnect, LoopInv, GetConnection, GetConnectionFails,
         OpenFailsFirst, Invalidate, Reconnect, OpenFailsSecond, OpenOk
<1>1. CASE GetConnection
  <2>1. DialerInv'
    BY <1>1, GetKeepsDialer DEF GetConnection, get_connection
  <2>2. StreamInv' /\ StreamsAccounted'
    BY <1>1, SameStreams DEF GetConnection, fwdVars
  <2>3. user'[Loop] = "open" => held'[Loop] \notin given_up'
    BY <1>1 DEF GetConnection, get_connection_cached, get_connection_dials,
                dial_ok, Leave, DialerInv, TypeOK, GivenUpNotReused
  <2>4. LoopInv'
    BY <1>1, <2>3 DEF GetConnection, LoopInv, fwdVars
  <2> QED
    BY <2>1, <2>2, <2>4
<1>2. CASE GetConnectionFails
  <2>1. DialerInv'
    BY <1>2, GetKeepsDialer DEF GetConnectionFails, get_connection
  <2>2. StreamInv' /\ StreamsAccounted'
    BY <1>2, ReturnErrKeepsStreams DEF GetConnectionFails
  <2>3. LoopInv'
    BY <1>0, <1>2 DEF GetConnectionFails, ReturnErr, reqVars, LoopInv
  <2> QED
    BY <2>1, <2>2, <2>3
<1>3. CASE OpenFailsFirst
  <2>1. DialerInv'
    BY <1>3, OpenKeepsDialer DEF OpenFailsFirst, open_tcp_proxy_stream
  <2>2. StreamInv' /\ StreamsAccounted'
    BY <1>3, SameStreams DEF OpenFailsFirst, reqVars, udpVars
  <2>3. LoopInv'
    BY <1>3 DEF OpenFailsFirst, open_err, reqVars, LoopInv, DialerInv, TypeOK
  <2> QED
    BY <2>1, <2>2, <2>3
<1>4. CASE Invalidate
  <2>1. DialerInv'
    BY <1>4, OpenKeepsDialer DEF Invalidate, open_tcp_proxy_stream
  <2>2. StreamInv' /\ StreamsAccounted'
    BY <1>4, SameStreams DEF Invalidate, fwdVars
  <2>3. LoopInv'
    BY <1>4 DEF Invalidate, invalidate, Leave, fwdVars, LoopInv, DialerInv, TypeOK
  <2> QED
    BY <2>1, <2>2, <2>3
<1>5. CASE Reconnect
  <2>1. DialerInv'
    BY <1>5, ForwarderKeepsDialer
  <2>2. StreamInv' /\ StreamsAccounted'
    BY <1>5, SameStreams DEF Reconnect, fwdVars
  <2>3. LoopInv'
    BY <1>5 DEF Reconnect, fwdVars, LoopInv, DialerInv, TypeOK
  <2> QED
    BY <2>1, <2>2, <2>3
<1>6. CASE OpenFailsSecond
  <2>1. DialerInv'
    BY <1>6, ForwarderKeepsDialer
  <2>2. StreamInv' /\ StreamsAccounted'
    BY <1>6, ReturnErrKeepsStreams DEF OpenFailsSecond
  <2>3. LoopInv'
    BY <1>0, <1>6 DEF OpenFailsSecond, ReturnErr, reqVars, LoopInv
  <2> QED
    BY <2>1, <2>2, <2>3
<1>7. CASE OpenOk
  <2>1. DialerInv'
    BY <1>7, OpenKeepsDialer DEF OpenOk, open_tcp_proxy_stream
  <2>2. LoopInv'
    BY <1>0, <1>7 DEF OpenOk, reqVars, LoopInv
  <2> DEFINE n == Len(stream)
             new == [conn |-> held[Loop], state |-> "open"]
  <2>3. new \in Streams
    <3>1. dialed \in 0..MaxDials /\ held[Loop] \in 1..dialed \cup {NONE}
      BY DEF DialerInv, TypeOK
    <3>2. held[Loop] \in 1..MaxDials \cup {NONE}
      BY <3>1, DialerAssumption
    <3> QED
      BY <3>2 DEF Streams
  <2>4. /\ stream' \in Seq(Streams) /\ Len(stream') = n + 1 /\ n \in Nat
        /\ DOMAIN stream = 1..n /\ DOMAIN stream' = 1..(n + 1)
        /\ \A s \in 1..n : stream'[s] = stream[s]
        /\ stream'[n + 1].state = "open"
    BY <1>7, <2>3 DEF OpenOk, StreamInv
  <2>5. Open' = Open \cup {n + 1}
    BY <2>4 DEF Open
  <2>6. Open = {associations[p] : p \in DOMAIN associations}
    BY <1>0 DEF StreamsAccounted, Open
  <2>7. CASE kind = "tcp"
    <3>1. loop' = "relaying" /\ UNCHANGED <<kind, peer, associations, idle>>
      BY <1>7, <2>7 DEF OpenOk, udpVars, reqVars
    <3>2. DOMAIN associations = {}
      BY <2>7 DEF StreamInv
    <3>3. StreamInv'
      BY <2>4, <3>1, <3>2 DEF StreamInv
    <3>4. Open' = {n + 1}
      BY <2>5, <2>6, <3>2
    <3> QED
      BY <2>1, <2>2, <2>4, <3>1, <3>2, <3>3, <3>4 DEF StreamsAccounted, Open
  <2>8. CASE kind = "udp"
    <3>1. /\ loop' = "sending" /\ UNCHANGED <<kind, peer, idle>>
          /\ DOMAIN associations' = DOMAIN associations \cup {peer}
          /\ peer \notin DOMAIN associations
          /\ associations'[peer] = n + 1
          /\ \A p \in DOMAIN associations : associations'[p] = associations[p]
      BY <1>7, <2>8 DEF OpenOk, reqVars, StreamInv
    <3>2. StreamInv'
      BY <2>4, <2>8, <3>1 DEF StreamInv
    <3>3. \A p \in DOMAIN associations : associations[p] # n + 1
      BY <2>4 DEF StreamInv
    <3>4. \A p, q \in DOMAIN associations' :
            associations'[p] = associations'[q] => p = q
      BY <3>1, <3>3 DEF StreamsAccounted
    <3>5. Open' = {associations'[p] : p \in DOMAIN associations'}
      BY <2>5, <2>6, <3>1
    <3> QED
      BY <2>1, <2>2, <3>1, <3>2, <3>4, <3>5 DEF StreamsAccounted, Open
  <2> QED
    BY <1>0, <2>7, <2>8 DEF LoopInv
<1> QED
  BY <1>1, <1>2, <1>3, <1>4, <1>5, <1>6, <1>7 DEF open_with_reconnect

LEMMA TcpKeepsForwarder ==
  ASSUME ForwarderInv, Tcp
  PROVE  ForwarderInv'
<1> USE ForwarderAssumption DEF ForwarderInv
<1>1. CASE TcpAccept
  <2>1. DialerInv'
    BY <1>1, ForwarderKeepsDialer DEF TcpAccept
  <2>2. LoopInv'
    BY <1>1 DEF TcpAccept, StartOpen, reqVars, LoopInv, DialerInv, TypeOK
  <2>3. StreamInv' /\ StreamsAccounted'
    BY <1>1 DEF TcpAccept, StartOpen, reqVars, udpVars, StreamInv, StreamsAccounted
  <2> QED
    BY <2>1, <2>2, <2>3
<1>2. CASE TcpRelayEnds
  <2>1. DialerInv'
    BY <1>2 DEF TcpRelayEnds, vars, DialerInv, TypeOK, LockOwned, Holds,
                GivenUpNotReused, HeldIsReal
  <2>2. kind = "tcp" /\ LoopInv'
    BY <1>2 DEF TcpRelayEnds, reqVars, vars, LoopInv
  <2>3. /\ stream' \in Seq(Streams) /\ Len(stream') = Len(stream)
        /\ Open' = Open \ DOMAIN stream
    BY <1>2, FinishExact DEF TcpRelayEnds, StreamInv
  <2>4. Open' = {}
    BY <2>3 DEF Open
  <2>5. DOMAIN associations = {}
    BY <2>2 DEF StreamInv
  <2>6. StreamInv' /\ StreamsAccounted'
    BY <1>2, <2>3, <2>4, <2>5
    DEF TcpRelayEnds, reqVars, udpVars, StreamInv, StreamsAccounted, Open
  <2> QED
    BY <2>1, <2>2, <2>6
<1>3. CASE TcpShutdown
  <2>1. DialerInv'
    BY <1>3, ForwarderKeepsDialer
  <2>2. kind = "tcp" /\ LoopInv'
    BY <1>3 DEF TcpShutdown, reqVars, LoopInv
  <2>3. /\ stream' \in Seq(Streams) /\ Len(stream') = Len(stream)
        /\ Open' = Open \ DOMAIN stream
    BY <1>3, FinishExact DEF TcpShutdown, StreamInv
  <2>4. Open' = {}
    BY <2>3 DEF Open
  <2>5. DOMAIN associations = {}
    BY <2>2 DEF StreamInv
  <2>6. StreamInv' /\ StreamsAccounted'
    BY <1>3, <2>3, <2>4, <2>5
    DEF TcpShutdown, reqVars, udpVars, StreamInv, StreamsAccounted, Open
  <2> QED
    BY <2>1, <2>2, <2>6
<1> QED
  BY <1>1, <1>2, <1>3 DEF Tcp

LEMMA UdpKeepsForwarder ==
  ASSUME ForwarderInv, Udp
  PROVE  ForwarderInv'
<1> USE ForwarderAssumption DEF ForwarderInv
<1>0. ASSUME UNCHANGED vars
      PROVE  DialerInv'
  BY <1>0 DEF vars, DialerInv, TypeOK, LockOwned, Holds, GivenUpNotReused, HeldIsReal
<1>1. CASE CleanupTick
  <2>1. DialerInv' /\ LoopInv'
    BY <1>0, <1>1 DEF CleanupTick, reqVars, vars, LoopInv
  <2>2. StreamInv' /\ StreamsAccounted'
    BY <1>1, FinishIdleExact
    DEF CleanupTick, reqVars, StreamInv, StreamsAccounted, Open
  <2> QED
    BY <2>1, <2>2
<1>2. CASE SendDatagram \/ RecvDatagram
  <2>1. DialerInv' /\ LoopInv'
    BY <1>0, <1>2 DEF SendDatagram, RecvDatagram, reqVars, vars, LoopInv
  <2>2. StreamInv' /\ StreamsAccounted'
    BY <1>2 DEF SendDatagram, RecvDatagram, reqVars, StreamInv, StreamsAccounted
  <2> QED
    BY <2>1, <2>2
<1>3. CASE StreamFails
  <2>1. DialerInv' /\ LoopInv'
    BY <1>0, <1>3 DEF StreamFails, ReturnErr, reqVars, vars, LoopInv
  <2>2. StreamInv' /\ StreamsAccounted'
    BY <1>3, ReturnErrKeepsStreams DEF StreamFails
  <2> QED
    BY <2>1, <2>2
<1>4. CASE UdpShutdown
  <2>1. DialerInv' /\ LoopInv'
    BY <1>0, <1>4 DEF UdpShutdown, reqVars, vars, LoopInv
  <2>2. /\ stream' \in Seq(Streams) /\ Len(stream') = Len(stream)
        /\ Open' = Open \ {associations[p] : p \in DOMAIN associations}
    BY <1>4, FinishExact DEF UdpShutdown, finish_all_udp_associations, StreamInv
  <2>3. Open' = {}
    BY <1>4, <2>2 DEF UdpShutdown, StreamsAccounted, Open
  <2>4. DOMAIN associations' = {} /\ idle' = {} /\ loop' = "returned_ok"
    BY <1>4 DEF UdpShutdown, finish_all_udp_associations
  <2>5. StreamInv' /\ StreamsAccounted'
    BY <2>2, <2>3, <2>4 DEF StreamInv, StreamsAccounted, Open
  <2> QED
    BY <2>1, <2>5
<1>5. ASSUME NEW p \in Peers, RecvFrom(p)
      PROVE  ForwarderInv'
  <2>1. /\ stream' \in Seq(Streams) /\ Len(stream') = Len(stream)
        /\ DOMAIN associations' = DOMAIN associations \ idle
        /\ idle' = {}
        /\ \A q \in DOMAIN associations' : associations'[q] \in 1..Len(stream')
        /\ \A q, r \in DOMAIN associations' :
             associations'[q] = associations'[r] => q = r
        /\ Open' = {associations'[q] : q \in DOMAIN associations'}
    BY <1>5, FinishIdleExact DEF RecvFrom
  <2>2. kind = "udp" /\ kind' = "udp" /\ peer' = p /\ loop = "select"
    BY <1>5 DEF RecvFrom
  <2>3. CASE p \in DOMAIN associations \ idle
    <3>1. loop' = "sending" /\ UNCHANGED vars
      BY <1>5, <2>3 DEF RecvFrom
    <3>2. LoopInv'
      BY <2>2, <3>1 DEF LoopInv
    <3>3. StreamInv' /\ StreamsAccounted'
      BY <2>1, <2>2, <3>1 DEF StreamInv, StreamsAccounted, Open
    <3> QED
      BY <1>0, <3>1, <3>2, <3>3
  <2>4. CASE p \notin DOMAIN associations \ idle
    <3>1. StartOpen
      BY <1>5, <2>4 DEF RecvFrom
    <3>2. DialerInv'
      BY <3>1, ForwarderKeepsDialer
    <3>3. LoopInv'
      BY <2>2, <3>1 DEF StartOpen, LoopInv, DialerInv, TypeOK
    <3>4. StreamInv' /\ StreamsAccounted'
      BY <2>1, <2>2, <2>4, <3>1 DEF StartOpen, StreamInv, StreamsAccounted, Open
    <3> QED
      BY <3>2, <3>3, <3>4
  <2> QED
    BY <2>3, <2>4
<1>6. ASSUME NEW p \in Peers, TimePasses(p)
      PROVE  ForwarderInv'
  <2>1. DialerInv' /\ LoopInv'
    BY <1>0, <1>6 DEF TimePasses, reqVars, vars, LoopInv
  <2>2. StreamInv' /\ StreamsAccounted'
    BY <1>6 DEF TimePasses, reqVars, StreamInv, StreamsAccounted
  <2> QED
    BY <2>1, <2>2
<1> QED
  BY <1>1, <1>2, <1>3, <1>4, <1>5, <1>6 DEF Udp

LEMMA StepForwarderInv ==
  ASSUME ForwarderInv, [FNext]_allVars
  PROVE  ForwarderInv'
<1>0. ASSUME UNCHANGED vars
      PROVE  DialerInv'
  BY <1>0 DEF vars, ForwarderInv, DialerInv, TypeOK, LockOwned, Holds,
              GivenUpNotReused, HeldIsReal
<1>1. CASE kind = "mixed" /\ Next /\ UNCHANGED fwdVars
  <2>1. DialerInv'
    BY <1>1, GetKeepsDialer, OpenKeepsDialer, OtherStepsKeepDialer, ForwarderAssumption
    DEF Next, ForwarderInv
  <2>2. StreamInv' /\ StreamsAccounted'
    BY <1>1, SameStreams DEF ForwarderInv, fwdVars
  <2>3. LoopInv'
    BY <1>1 DEF ForwarderInv, LoopInv, fwdVars
  <2> QED
    BY <2>1, <2>2, <2>3 DEF ForwarderInv
<1>2. CASE kind # "mixed" /\ ~Returned /\ ConnectionDies /\ UNCHANGED fwdVars
  <2>1. DialerInv'
    BY <1>2, OtherStepsKeepDialer, ForwarderAssumption DEF ForwarderInv
  <2>2. StreamInv' /\ StreamsAccounted'
    BY <1>2, SameStreams DEF ForwarderInv, fwdVars
  <2>3. LoopInv'
    BY <1>2 DEF ForwarderInv, LoopInv, fwdVars, ConnectionDies
  <2> QED
    BY <2>1, <2>2, <2>3 DEF ForwarderInv
<1>3. CASE ShutdownRequested
  <2>1. StreamInv' /\ StreamsAccounted'
    BY <1>3, SameStreams DEF ForwarderInv, ShutdownRequested, udpVars
  <2>2. LoopInv'
    BY <1>3 DEF ForwarderInv, LoopInv, ShutdownRequested, vars
  <2> QED
    BY <1>0, <1>3, <2>1, <2>2 DEF ForwarderInv, ShutdownRequested
<1>4. CASE UNCHANGED allVars
  <2>1. StreamInv' /\ StreamsAccounted'
    BY <1>4, SameStreams DEF ForwarderInv, allVars, fwdVars
  <2>2. LoopInv'
    BY <1>4 DEF ForwarderInv, LoopInv, allVars, fwdVars, vars
  <2> QED
    BY <1>0, <1>4, <2>1, <2>2 DEF ForwarderInv, allVars
<1> QED
  BY <1>1, <1>2, <1>3, <1>4, OpenKeepsForwarder, TcpKeepsForwarder, UdpKeepsForwarder
  DEF FNext

-----------------------------------------------------------------------------
LEMMA ForwarderInvariant == FSpec => []ForwarderInv
BY InitForwarderInv, StepForwarderInv, PTL DEF FSpec

(* The lock of the dialer is only ever held or waited for by tasks that    *)
(* want it, and a connection a task has given up on is not in the cache    *)
(* again: for any number of tasks that dial, fail and are aborted.         *)
THEOREM DialerIsSound == FSpec => []DialerSound
<1>1. ForwarderInv => DialerSound
  BY DEF ForwarderInv, DialerInv, DialerSound
<1> QED
  BY <1>1, ForwarderInvariant, PTL

(* No stream of a forwarder is leaked: one is open for each association,   *)
(* or for the relay in progress, and none after the loop has returned.     *)
THEOREM StreamsAreAccounted == FSpec => []StreamsAccounted
<1>1. ForwarderInv => StreamsAccounted
  BY DEF ForwarderInv
<1> QED
  BY <1>1, ForwarderInvariant, PTL

(* A forwarder gives a request up only when a dial failed or when a second *)
(* stream could not be opened, on a connection it had not given up.        *)
THEOREM RedialsBeforeFailing == FSpec => FailsOnlyAfterRedial
<1> DEFINE Redialed == loop = "opening" /\ loop' = "returned_err" =>
                         dial_failed' \/ (errors' = 2 /\ held[Loop] \notin given_up)
<1>1. ForwarderInv /\ [FNext]_allVars => [Redialed]_allVars
  <2> SUFFICES ASSUME ForwarderInv, FNext, loop = "opening", loop' = "returned_err"
               PROVE  dial_failed' \/ (errors' = 2 /\ held[Loop] \notin given_up)
    OBVIOUS
  <2>1. \/ GetConnectionFails
        \/ OpenFailsSecond
    <3>1. ~(Tcp \/ Udp \/ ShutdownRequested)
      BY DEF Tcp, TcpAccept, TcpRelayEnds, TcpShutdown, Udp, CleanupTick,
             SendDatagram, RecvDatagram, StreamFails, UdpShutdown, RecvFrom,
             TimePasses, ShutdownRequested
    <3>2. ~(GetConnection \/ OpenFailsFirst \/ Invalidate \/ Reconnect \/ OpenOk)
      BY DEF GetConnection, OpenFailsFirst, Invalidate, Reconnect, OpenOk, fwdVars
    <3> QED
      BY <3>1, <3>2 DEF FNext, open_with_reconnect, allVars, fwdVars
  <2> QED
    BY <2>1 DEF GetConnectionFails, OpenFailsSecond, ForwarderInv, LoopInv
<1> QED
  BY <1>1, ForwarderInvariant, PTL DEF FSpec, FailsOnlyAfterRedial

=============================================================================
