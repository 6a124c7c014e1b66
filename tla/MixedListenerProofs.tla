------------------------ MODULE MixedListenerProofs ------------------------
(***************************************************************************)
(* The report of the mixed listener's loop is exact, for any number of     *)
(* local connections and peers and any capacity of the channels.           *)
(***************************************************************************)
EXTENDS MixedListener, FiniteSetTheorems, TLAPS

Early == {"new", "handshake", "rejected"}

(* A connection has a kind once its task was spawned, only a task that     *)
(* ended is joined, and the handshake in progress is the one at hand.      *)
TaskInv ==
  /\ task \in [Clients -> Early \cup Running \cup Results]
  /\ kind \in [Clients -> {"none", "tcp", "udp"}]
  /\ joined \subseteq Clients
  /\ \A k \in Clients : kind[k] = "none" <=> task[k] \in Early
  /\ \A k \in joined : task[k] \in Results
  /\ at = "handshake" => hand \in Clients /\ task[hand] = "handshake"

Accepted == {k \in Clients : task[k] # "new"}

Rejected == {k \in Clients : task[k] = "rejected"}

EndedAs(kd, r) == {k \in joined : kind[k] = kd /\ task[k] = r}

CountInv ==
  /\ report \in [Counters -> Nat]
  /\ report["accepted"] = Cardinality(Accepted)
  /\ report["completed_tcp"] = Cardinality(EndedAs("tcp", "completed"))
  /\ report["failed_tcp"] = Cardinality(EndedAs("tcp", "failed")) + Cardinality(Rejected)
  /\ report["completed_udp"] = Cardinality(EndedAs("udp", "completed"))
  /\ report["failed_udp"] = Cardinality(EndedAs("udp", "failed"))

ReturnInv == at = "returned" => \A k \in Clients : kind[k] # "none" => k \in joined

ReportInv == TaskInv /\ CountInv /\ ReturnInv

LEMMA SetsFinite ==
  ASSUME TaskInv
  PROVE  /\ IsFiniteSet(Accepted) /\ Cardinality(Accepted) \in Nat
         /\ IsFiniteSet(Rejected) /\ Cardinality(Rejected) \in Nat
         /\ \A kd, r : IsFiniteSet(EndedAs(kd, r)) /\ Cardinality(EndedAs(kd, r)) \in Nat
<1>1. \A S \in SUBSET Clients : IsFiniteSet(S) /\ Cardinality(S) \in Nat
  BY ListenerAssumption, FS_Subset, FS_CardinalityType
<1>2. Accepted \in SUBSET Clients /\ Rejected \in SUBSET Clients
  BY DEF Accepted, Rejected
<1>3. \A kd, r : EndedAs(kd, r) \in SUBSET Clients
  BY DEF EndedAs, TaskInv
<1> QED
  BY <1>1, <1>2, <1>3

(* A step that joins nothing, and accepts and rejects no connection.       *)
LEMMA QuietCounts ==
  ASSUME TaskInv, CountInv, UNCHANGED <<joined, report>>,
         Accepted' = Accepted, Rejected' = Rejected,
         \A k \in joined : task'[k] = task[k] /\ kind'[k] = kind[k]
  PROVE  CountInv'
<1>1. \A kd, r : EndedAs(kd, r)' = EndedAs(kd, r)
  BY DEF EndedAs
<1> QED
  BY <1>1 DEF CountInv

(* A task of the tasks in progress changes state, or ends.                 *)
LEMMA TaskMoves ==
  ASSUME ReportInv, NEW k \in Clients, task[k] \in Running,
         NEW state \in Running \cup Results, task' = [task EXCEPT ![k] = state],
         UNCHANGED <<at, hand, joined, report, kind>>
  PROVE  ReportInv'
<1> USE DEF ReportInv
<1>1. k \notin joined
  BY DEF TaskInv, Running, Results
<1>2. TaskInv'
  BY <1>1 DEF TaskInv, Early, Running, Results
<1>3. Accepted' = Accepted /\ Rejected' = Rejected
  BY DEF TaskInv, Accepted, Rejected, Running, Results
<1>4. \A j \in joined : task'[j] = task[j] /\ kind'[j] = kind[j]
  BY <1>1 DEF TaskInv
<1>5. CountInv'
  BY <1>3, <1>4, QuietCounts
<1>6. ReturnInv'
  BY DEF ReturnInv
<1> QED
  BY <1>2, <1>5, <1>6

LEMMA EndedGrows ==
  ASSUME TaskInv, NEW k \in Clients \ joined, joined' = joined \cup {k}, UNCHANGED <<task, kind>>
  PROVE  \A kd, r : Cardinality(EndedAs(kd, r)') =
                      IF kind[k] = kd /\ task[k] = r THEN Cardinality(EndedAs(kd, r)) + 1
                      ELSE Cardinality(EndedAs(kd, r))
<1> TAKE kd, r
<1>1. IsFiniteSet(EndedAs(kd, r)) /\ k \notin EndedAs(kd, r)
  BY SetsFinite DEF EndedAs
<1>2. CASE kind[k] = kd /\ task[k] = r
  <2>1. EndedAs(kd, r)' = EndedAs(kd, r) \cup {k}
    BY <1>2 DEF EndedAs
  <2>2. Cardinality(EndedAs(kd, r) \cup {k}) = Cardinality(EndedAs(kd, r)) + 1
    BY <1>1, FS_AddElement, ZenonT(30)
  <2> QED
    BY <1>2, <2>1, <2>2
<1>3. CASE ~(kind[k] = kd /\ task[k] = r)
  <2>1. EndedAs(kd, r)' = EndedAs(kd, r)
    BY <1>3 DEF EndedAs
  <2> QED
    BY <1>3, <2>1
<1> QED
  BY <1>2, <1>3

(* A join records the result under its kind, once.                         *)
LEMMA JoinCounts ==
  ASSUME ReportInv, NEW k \in Clients \ joined, kind[k] \in {"tcp", "udp"}, task[k] \in Results,
         joined' = joined \cup {k}, record_mixed_relay(k),
         UNCHANGED <<at, hand, task, kind>>
  PROVE  ReportInv'
<1> USE DEF ReportInv
<1>1. TaskInv'
  BY DEF TaskInv
<1>2. ReturnInv'
  BY DEF ReturnInv
<1>3. Accepted' = Accepted /\ Rejected' = Rejected
  BY DEF Accepted, Rejected
<1>4. \A kd, r : /\ Cardinality(EndedAs(kd, r)) \in Nat
                 /\ Cardinality(EndedAs(kd, r)') =
                      IF kind[k] = kd /\ task[k] = r THEN Cardinality(EndedAs(kd, r)) + 1
                      ELSE Cardinality(EndedAs(kd, r))
  BY SetsFinite, EndedGrows
<1>5. Cardinality(Rejected) \in Nat
  BY SetsFinite
<1>6. CountInv'
  <2>1. CASE task[k] = "completed" /\ kind[k] = "tcp"
    <3>1. report' = [report EXCEPT !["completed_tcp"] = @ + 1]
      BY <2>1 DEF record_mixed_relay, Count
    <3> QED
      BY <1>3, <1>4, <1>5, <2>1, <3>1 DEF CountInv, Counters
  <2>2. CASE task[k] = "completed" /\ kind[k] = "udp"
    <3>1. report' = [report EXCEPT !["completed_udp"] = @ + 1]
      BY <2>2 DEF record_mixed_relay, Count
    <3> QED
      BY <1>3, <1>4, <1>5, <2>2, <3>1 DEF CountInv, Counters
  <2>3. CASE task[k] = "failed" /\ kind[k] = "tcp"
    <3>1. report' = [report EXCEPT !["failed_tcp"] = @ + 1]
      BY <2>3 DEF record_mixed_relay, Count
    <3> QED
      BY <1>3, <1>4, <1>5, <2>3, <3>1 DEF CountInv, Counters
  <2>4. CASE task[k] = "failed" /\ kind[k] = "udp"
    <3>1. report' = [report EXCEPT !["failed_udp"] = @ + 1]
      BY <2>4 DEF record_mixed_relay, Count
    <3> QED
      BY <1>3, <1>4, <1>5, <2>4, <3>1 DEF CountInv, Counters
  <2>5. CASE task[k] \notin {"completed", "failed"}
    <3>1. report' = report
      BY <2>5 DEF record_mixed_relay
    <3> QED
      BY <1>3, <1>4, <1>5, <2>5, <3>1 DEF CountInv, Counters
  <2> QED
    BY <2>1, <2>2, <2>3, <2>4, <2>5
<1> QED
  BY <1>1, <1>2, <1>6

LEMMA AcceptCounts ==
  ASSUME ReportInv, NEW k \in Clients, AcceptArm(k)
  PROVE  ReportInv'
<1> USE DEF ReportInv
<1>1. /\ at' = "handshake" /\ hand' = k /\ task[k] = "new" /\ UNCHANGED <<joined, kind>>
      /\ task' = [task EXCEPT ![k] = "handshake"]
      /\ report' = [report EXCEPT !["accepted"] = @ + 1]
  BY DEF AcceptArm, Becomes, Count
<1>2. TaskInv'
  BY <1>1 DEF TaskInv, Early, Running, Results
<1>3. Accepted' = Accepted \cup {k} /\ k \notin Accepted /\ Rejected' = Rejected
  BY <1>1 DEF TaskInv, Accepted, Rejected
<1>4. Cardinality(Accepted') = Cardinality(Accepted) + 1
  BY <1>3, SetsFinite, FS_AddElement, ZenonT(30)
<1>5. \A kd, r : EndedAs(kd, r)' = EndedAs(kd, r)
  BY <1>1 DEF EndedAs, TaskInv, Results
<1>6. CountInv'
  BY <1>1, <1>3, <1>4, <1>5, SetsFinite DEF CountInv, Counters
<1>7. ReturnInv'
  BY <1>1 DEF ReturnInv
<1> QED
  BY <1>2, <1>6, <1>7

LEMMA RejectCounts ==
  ASSUME ReportInv, NEW k \in Clients, HandshakeFails(k)
  PROVE  ReportInv'
<1> USE DEF ReportInv
<1>1. /\ at' = "select" /\ task[k] = "handshake" /\ UNCHANGED <<joined, kind>>
      /\ task' = [task EXCEPT ![k] = "rejected"]
      /\ report' = [report EXCEPT !["failed_tcp"] = @ + 1]
  BY DEF HandshakeFails, HandshakeOver, Becomes, Count, TaskInv
<1>2. TaskInv'
  BY <1>1 DEF TaskInv, Early, Running, Results
<1>3. Rejected' = Rejected \cup {k} /\ k \notin Rejected /\ Accepted' = Accepted
  BY <1>1 DEF TaskInv, Accepted, Rejected
<1>4. Cardinality(Rejected') = Cardinality(Rejected) + 1
  BY <1>3, SetsFinite, FS_AddElement, ZenonT(30)
<1>5. \A kd, r : EndedAs(kd, r)' = EndedAs(kd, r)
  BY <1>1 DEF EndedAs, TaskInv, Results
<1>6. CountInv'
  BY <1>1, <1>3, <1>4, <1>5, SetsFinite DEF CountInv, Counters
<1>7. ReturnInv'
  BY <1>1 DEF ReturnInv
<1> QED
  BY <1>2, <1>6, <1>7

LEMMA SpawnCounts ==
  ASSUME ReportInv, NEW k \in Clients, SpawnTcp(k) \/ SpawnUdp(k)
  PROVE  ReportInv'
<1> USE DEF ReportInv
<1>1. PICK kd \in {"tcp", "udp"}, state \in Running :
        /\ at' = "select" /\ task[k] = "handshake" /\ UNCHANGED <<joined, report>>
        /\ task' = [task EXCEPT ![k] = state] /\ kind' = [kind EXCEPT ![k] = kd]
  BY DEF SpawnTcp, SpawnUdp, HandshakeOver, Becomes, TaskInv, Running
<1>2. k \notin joined
  BY <1>1 DEF TaskInv, Results
<1>3. TaskInv'
  BY <1>1, <1>2 DEF TaskInv, Early, Running, Results
<1>4. Rejected' = Rejected /\ Accepted' = Accepted
  BY <1>1 DEF TaskInv, Accepted, Rejected, Running
<1>5. \A j \in joined : task'[j] = task[j] /\ kind'[j] = kind[j]
  BY <1>1, <1>2 DEF TaskInv
<1>6. CountInv'
  BY <1>1, <1>4, <1>5, QuietCounts
<1>7. ReturnInv'
  BY <1>1 DEF ReturnInv
<1> QED
  BY <1>3, <1>6, <1>7

(* A step of the loop that touches no task and counts nothing.             *)
LEMMA QuietLoop ==
  ASSUME ReportInv, UNCHANGED <<task, kind, joined, report>>,
         at' = "handshake" => UNCHANGED <<at, hand>>,
         at' = "returned" => at = "returned" \/ Live("tcp") \cup Live("udp") = {}
  PROVE  ReportInv'
<1> USE DEF ReportInv
<1>1. TaskInv'
  BY DEF TaskInv
<1>2. CountInv'
  BY DEF CountInv, Accepted, Rejected, EndedAs
<1>3. ReturnInv'
  BY DEF ReturnInv, TaskInv, Live
<1> QED
  BY <1>1, <1>2, <1>3

LEMMA ReportInit == Init => ReportInv
<1> SUFFICES ASSUME Init PROVE ReportInv
  OBVIOUS
<1>1. TaskInv /\ ReturnInv
  BY DEF Init, TaskInv, ReturnInv, Early
<1>2. Accepted = {} /\ Rejected = {} /\ \A kd, r : EndedAs(kd, r) = {}
  BY DEF Init, Accepted, Rejected, EndedAs
<1>3. /\ Cardinality(Accepted) = 0 /\ Cardinality(Rejected) = 0
      /\ \A kd, r : Cardinality(EndedAs(kd, r)) = 0
  BY <1>2, FS_EmptySet
<1>4. report = [c \in Counters |-> 0]
  BY DEF Init
<1> QED
  BY <1>1, <1>3, <1>4 DEF ReportInv, CountInv, Counters

LEMMA ReportStep == ReportInv /\ [Next]_vars => ReportInv'
<1> SUFFICES ASSUME ReportInv, [Next]_vars PROVE ReportInv'
  OBVIOUS
<1>1. CASE \/ ShutdownArm \/ SendOk \/ SendErr \/ DrainEnds \/ RequestShutdown \/ SocketFails
           \/ \E k \in Clients : JoinPanicked(k)
           \/ \E p \in Peers : RecvUnrouted(p) \/ RecvRouted(p)
           \/ Terminated \/ UNCHANGED vars
  <2>1. UNCHANGED <<task, kind, joined, report>>
    BY <1>1 DEF ShutdownArm, SendOk, SendErr, DrainEnds, RequestShutdown, SocketFails, Fail,
                JoinPanicked, RecvUnrouted, RecvRouted, Terminated, loopVars, taskVars, vars
  <2>2. /\ at' = "handshake" => UNCHANGED <<at, hand>>
        /\ at' = "returned" => at = "returned"
    BY <1>1 DEF ShutdownArm, SendOk, SendErr, DrainEnds, RequestShutdown, SocketFails, Fail,
                JoinPanicked, RecvUnrouted, RecvRouted, Terminated, loopVars, taskVars, vars,
                Draining, AfterDrain
  <2> QED
    BY <2>1, <2>2, QuietLoop
<1>2. CASE Return
  <2>1. /\ UNCHANGED <<task, kind, joined, report>> /\ at' = "returned"
        /\ Live("tcp") \cup Live("udp") = {}
    BY <1>2 DEF Return, taskVars
  <2> QED
    BY <2>1, QuietLoop
<1>3. ASSUME NEW k \in Clients, JoinTcp(k) \/ JoinUdp(k) \/ DrainJoin(k)
      PROVE  ReportInv'
  <2>1. /\ k \in Clients \ joined /\ kind[k] \in {"tcp", "udp"} /\ task[k] \in Results
        /\ joined' = joined \cup {k} /\ record_mixed_relay(k) /\ UNCHANGED <<at, hand, task, kind>>
    BY <1>3 DEF JoinTcp, JoinUdp, DrainJoin, Live, Draining, Results, taskVars
  <2> QED
    BY <2>1, JoinCounts
<1>4. ASSUME NEW k \in Clients,
             \/ GetConnection(k) \/ IncomingRecv(k) \/ SendersGone(k) \/ Cancelled(k)
             \/ TcpRelayEnds(k) \/ AssociationFails(k) \/ SendDatagram(k) \/ Response(k)
             \/ ControlCloses(k)
      PROVE  ReportInv'
  <2>1. UNCHANGED <<at, hand, joined, report, kind>> /\ task[k] \in Running
    BY <1>4 DEF GetConnection, IncomingRecv, SendersGone, Cancelled, TcpRelayEnds,
                AssociationFails, SendDatagram, Response, ControlCloses, Break, taskRest, loopVars,
                Running
  <2>2. \/ UNCHANGED task
        \/ \E state \in Running \cup Results : task' = [task EXCEPT ![k] = state]
    BY <1>4 DEF GetConnection, IncomingRecv, SendersGone, Cancelled, TcpRelayEnds, Becomes, Ends,
                AssociationFails, SendDatagram, Response, ControlCloses, Break, Running, Results
  <2>3. CASE UNCHANGED task
    BY <2>1, <2>3, QuietLoop
  <2>4. CASE \E state \in Running \cup Results : task' = [task EXCEPT ![k] = state]
    BY <2>1, <2>4, TaskMoves
  <2> QED
    BY <2>2, <2>3, <2>4
<1> QED
  BY <1>1, <1>2, <1>3, <1>4, AcceptCounts, RejectCounts, SpawnCounts
  DEF Next, Loop, Environment, Task, Handshake

(* MixedTcpLoopReport is exact in every reachable state: every accepted    *)
(* connection, every joined result under its kind and every rejected       *)
(* handshake is counted once, and when run_loop_until returns it, all that *)
(* it spawned has ended and was joined.                                    *)
THEOREM ReportIsExact == Spec => []ReportAccounts
<1>1. ReportInv => ReportAccounts
  <2> SUFFICES ASSUME ReportInv PROVE ReportAccounts
    OBVIOUS
  <2>1. at = "returned" =>
          \A k \in Clients : task[k] \notin Running /\ (kind[k] # "none" => k \in joined)
    BY DEF ReportInv, ReturnInv, TaskInv, Early, Running, Results
  <2> QED
    BY <2>1 DEF ReportInv, CountInv, ReportAccounts, Accepted, Rejected, EndedAs
<1> QED
  BY <1>1, ReportInit, ReportStep, PTL DEF Spec
=============================================================================
