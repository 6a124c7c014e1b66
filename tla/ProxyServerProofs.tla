------------------------- MODULE ProxyServerProofs -------------------------
(***************************************************************************)
(* Proofs about the server loop, for any number of connections, streams    *)
(* and addresses and any admission budget.                                 *)
(***************************************************************************)
EXTENDS ProxyServer, FiniteSetTheorems, TLAPS

PermitsOf(ip) == {c \in Permits : ip_of[c] = ip}

LEMMA PermitsFinite ==
  /\ IsFiniteSet(Permits) /\ IsFiniteSet(Guarded)
  /\ Cardinality(Permits) \in Nat /\ Cardinality(Guarded) \in Nat
  /\ \A ip : IsFiniteSet(PermitsOf(ip)) /\ Cardinality(PermitsOf(ip)) \in Nat
<1>1. Permits \in SUBSET Conns /\ Guarded \in SUBSET Conns
  BY DEF Permits, Guarded
<1>2. \A ip : PermitsOf(ip) \in SUBSET Conns
  BY DEF PermitsOf, Permits
<1> QED
  BY <1>1, <1>2, ServerAssumption, FS_Subset, FS_CardinalityType

(* Admitting a connection takes exactly one permit, for its own address.   *)
LEMMA AdmitExact ==
  ASSUME AdmissionType, AdmissionExact, NEW c \in Conns, c \notin Permits,
         Permits' = Permits \cup {c}, try_admit_ok(ip_of[c])
  PROVE  AdmissionType' /\ AdmissionExact'
<1> DEFINE p == ip_of[c]
<1>0. p \in Ips
  BY ServerAssumption
<1>1. total' = Cardinality(Permits')
  BY ZenonT(30), PermitsFinite, FS_AddElement DEF AdmissionExact, try_admit_ok
<1>2. \A ip \in Ips : count(ip)' = IF ip = p THEN count(ip) + 1 ELSE count(ip)
  BY <1>0 DEF try_admit_ok, count
<1>3. ASSUME NEW ip \in Ips
      PROVE  Cardinality(PermitsOf(ip)') =
               IF ip = p THEN Cardinality(PermitsOf(ip)) + 1
                         ELSE Cardinality(PermitsOf(ip))
  <2>1. CASE ip = p
    <3>1. PermitsOf(ip)' = PermitsOf(ip) \cup {c} /\ c \notin PermitsOf(ip)
      BY <2>1 DEF PermitsOf
    <3> QED
      BY ZenonT(30), <2>1, <3>1, PermitsFinite, FS_AddElement
  <2>2. CASE ip # p
    <3>1. PermitsOf(ip)' = PermitsOf(ip)
      BY <2>2 DEF PermitsOf
    <3> QED
      BY <2>2, <3>1
  <2> QED
    BY <2>1, <2>2
<1>4. AdmissionExact'
  BY ZenonT(30), <1>1, <1>2, <1>3 DEF AdmissionExact, PermitsOf
<1>5. AdmissionType'
  BY <1>0, AdmissionAssumption
  DEF AdmissionType, try_admit_ok, saturated, count,
      MAX_PENDING_AUTHENTICATIONS_PER_IP
<1> QED
  BY <1>4, <1>5

(* Dropping a permit gives back exactly one, to its own address.           *)
LEMMA DropExact ==
  ASSUME AdmissionType, AdmissionExact, NEW c \in Conns, c \in Permits,
         Permits' = Permits \ {c}, permit_drop(ip_of[c])
  PROVE  AdmissionType' /\ AdmissionExact'
<1> DEFINE p == ip_of[c]
<1>0. p \in Ips
  BY ServerAssumption
<1>1. Cardinality(Permits') = Cardinality(Permits) - 1
  BY ZenonT(30), PermitsFinite, FS_RemoveElement
<1>2. c \in PermitsOf(p) /\ Cardinality(PermitsOf(p)) \in Nat \ {0}
  BY PermitsFinite, FS_EmptySet DEF PermitsOf
<1>3. total' = Cardinality(Permits')
  <2>1. total # 0
    BY PermitsFinite, FS_EmptySet DEF AdmissionExact
  <2> QED
    BY <1>1, <2>1 DEF permit_drop, saturating_dec, AdmissionExact
<1>4. count(p) \in Nat \ {0} /\ p \in DOMAIN per_ip
  BY <1>0, <1>2 DEF AdmissionExact, PermitsOf, count
<1>5. \A ip \in Ips : count(ip)' = IF ip = p THEN count(ip) - 1 ELSE count(ip)
  BY <1>4 DEF permit_drop, saturating_dec, count
<1>6. ASSUME NEW ip \in Ips
      PROVE  Cardinality(PermitsOf(ip)') =
               IF ip = p THEN Cardinality(PermitsOf(ip)) - 1
                         ELSE Cardinality(PermitsOf(ip))
  <2>1. CASE ip = p
    <3>1. PermitsOf(ip)' = PermitsOf(ip) \ {c} /\ c \in PermitsOf(ip)
      BY <2>1 DEF PermitsOf
    <3>2. Cardinality(PermitsOf(ip) \ {c}) = Cardinality(PermitsOf(ip)) - 1
      BY ZenonT(30), <3>1, PermitsFinite, FS_RemoveElement
    <3> QED
      BY <2>1, <3>1, <3>2
  <2>2. CASE ip # p
    <3>1. PermitsOf(ip)' = PermitsOf(ip)
      BY <2>2 DEF PermitsOf
    <3> QED
      BY <2>2, <3>1
  <2> QED
    BY <2>1, <2>2
<1>7. AdmissionExact'
  BY ZenonT(30), <1>3, <1>5, <1>6 DEF AdmissionExact, PermitsOf
<1>8. AdmissionType'
  BY <1>0, <1>4, AdmissionAssumption
  DEF AdmissionType, permit_drop, saturating_dec, count,
      MAX_PENDING_AUTHENTICATIONS_PER_IP
<1> QED
  BY <1>7, <1>8

-----------------------------------------------------------------------------
(* Type correctness of everything but the admission counts.                *)
LEMMA IncType ==
  ASSUME NEW counts \in Counters, NEW r \in {"tcp", "udp", "failed"}
  PROVE  Inc(counts, r) \in Counters
BY DEF Inc, Counters

LEMMA MergeType ==
  ASSUME NEW a \in Counters, NEW b \in Counters
  PROVE  merge(a, b) \in Counters
<1>1. DOMAIN a = {"tcp", "udp", "failed"}
  BY DEF Counters
<1>2. \A k \in DOMAIN a : a[k] + b[k] \in Nat
  BY <1>1 DEF Counters
<1>3. merge(a, b) = [tcp |-> a.tcp + b.tcp, udp |-> a.udp + b.udp,
                     failed |-> a.failed + b.failed]
  BY <1>1 DEF merge
<1> QED
  BY <1>1, <1>2, <1>3 DEF Counters

LEMMA ClosedType ==
  ASSUME StateType, connection_closed
  PROVE  /\ metrics' = [metrics EXCEPT !.active = saturating_dec(@)]
         /\ metrics' \in [accepted : Nat, rejected : Nat, active : Nat,
                          counts : Counters]
BY DEF StateType, connection_closed, saturating_dec

LEMMA RecordType ==
  ASSUME StateType, NEW c \in Conns, NEW r,
         record_proxy_connection_result(c, r)
  PROVE  /\ connection_report' \in [Conns -> Counters]
         /\ metrics' \in [accepted : Nat, rejected : Nat, active : Nat,
                          counts : Counters]
         /\ metrics'.accepted = metrics.accepted
         /\ metrics'.rejected = metrics.rejected
         /\ metrics'.active = metrics.active
<1>1. CASE r \in {"tcp", "udp", "failed"}
  <2>1. /\ Inc(connection_report[c], r) \in Counters
        /\ Inc(metrics.counts, r) \in Counters
    BY <1>1, IncType DEF StateType
  <2> QED
    BY <1>1, <2>1 DEF record_proxy_connection_result, relay_completed, StateType
<1>2. CASE r \notin {"tcp", "udp", "failed"}
  BY <1>2 DEF record_proxy_connection_result, relay_completed, StateType
<1> QED
  BY <1>1, <1>2

LEMMA MoveType ==
  ASSUME StateType, NEW S, NEW st \in StreamStates
  PROVE  Move(S, st) \in
           [Streams -> [owner : Conns \cup {NONE}, state : StreamStates]]
BY DEF StateType, Move

LEMMA StateTypeStep ==
  ASSUME StateType, Next
  PROVE  StateType'
<1> USE ServerAssumption DEF StateType, loopVars, envVars, tallies, ConnStates,
        InAuthTask, PermitHeld, AuthDone, TaskLive, TaskDone, Over, Counters,
        StreamStates, NoRelay, RelayResults
<1>1. ASSUME NEW c \in Conns, Arrive(c)
      PROVE  StateType'
  BY <1>1 DEF Arrive
<1>2. ASSUME NEW c \in Conns, PeerCloses(c)
      PROVE  StateType'
  BY <1>2 DEF PeerCloses
<1>3. ASSUME EndpointCloses
      PROVE  StateType'
  BY ZenonT(30), <1>3 DEF EndpointCloses
<1>4. ASSUME ShutdownRequested
      PROVE  StateType'
  BY <1>4 DEF ShutdownRequested
<1>5. ASSUME NEW s \in Streams, NEW r \in RelayResults,
             RelayFinishes(s, r)
      PROVE  StateType'
  BY <1>5 DEF RelayFinishes
<1>6. ASSUME NEW c \in Conns, NEW r \in AuthDone \cup {"auth_panicked"},
             authenticate_incoming_connection(c, r)
      PROVE  StateType'
  BY <1>6 DEF authenticate_incoming_connection
<1>7. ASSUME NEW c \in Conns, NEW s \in Streams, AcceptBi(c, s)
      PROVE  StateType'
  BY <1>7 DEF AcceptBi
<1>8. ASSUME NEW c \in Conns, NEW s \in Streams,
             NEW o \in {"relay", "before_header", "failed"},
             ReadHeader(c, s, o)
      PROVE  StateType'
  <2>1. /\ connection_report' \in [Conns -> Counters]
        /\ metrics' \in [accepted : Nat, rejected : Nat, active : Nat,
                         counts : Counters]
    BY <1>8, RecordType DEF ReadHeader
  <2>2. stream' \in [Streams -> [owner : Conns \cup {NONE}, state : StreamStates]]
    BY <1>8, MoveType DEF ReadHeader
  <2> QED
    BY ZenonT(30), <1>8, <2>1, <2>2 DEF ReadHeader
<1>9. ASSUME ShutdownArm
      PROVE  StateType'
  BY ZenonT(30), <1>9 DEF ShutdownArm
<1>10. ASSUME DrainAuthEnd
      PROVE  StateType'
  BY <1>10 DEF DrainAuthEnd
<1>11. ASSUME AcceptArmFatal
      PROVE  StateType'
  BY <1>11 DEF AcceptArmFatal
<1>12. ASSUME ElseArm
      PROVE  StateType'
  BY <1>12 DEF ElseArm
<1>13. ASSUME accept_incoming_fails
      PROVE  StateType'
  BY <1>13 DEF accept_incoming_fails
<1>14. ASSUME NEW c \in Conns, accept_incoming(c)
      PROVE  StateType'
  BY <1>14 DEF accept_incoming
<1>15. ASSUME NEW c \in Conns, DrainAuthTask(c)
      PROVE  StateType'
  BY SMTT(30), <1>15 DEF DrainAuthTask
<1>16. ASSUME NEW c \in Conns, JoinAuthTask(c)
      PROVE  StateType'
  <2>1. CASE JoinAuthOk(c)
    <3>1. /\ metrics' \in [accepted : Nat, rejected : Nat, active : Nat,
                           counts : Counters]
          /\ report' \in [accepted : Nat, rejected : Nat, counts : Counters]
      <4>1. metrics' = [accepted |-> metrics.accepted + 1,
                        rejected |-> metrics.rejected,
                        active |-> metrics.active + 1,
                        counts |-> metrics.counts]
        BY ZenonT(30), <2>1 DEF JoinAuthOk, connection_accepted
      <4>2. report' = [accepted |-> report.accepted + 1,
                       rejected |-> report.rejected, counts |-> report.counts]
        BY <2>1 DEF JoinAuthOk, connection_accepted
      <4> QED
        BY <4>1, <4>2
    <3> QED
      BY <1>16, <2>1, <3>1 DEF JoinAuthTask, JoinAuthOk
  <2>2. CASE JoinAuthRejected(c)
    BY SMTT(30), <1>16, <2>2 DEF JoinAuthTask, JoinAuthRejected, connection_rejected
  <2>3. CASE JoinAuthClosed(c)
    BY <1>16, <2>3 DEF JoinAuthTask, JoinAuthClosed
  <2>4. CASE JoinAuthPanicked(c)
    BY <1>16, <2>4 DEF JoinAuthTask, JoinAuthPanicked
  <2> QED
    BY SMTT(30), <1>16, <2>1, <2>2, <2>3, <2>4 DEF JoinAuthTask
<1>17. ASSUME NEW c \in Conns, AcceptArm(c)
      PROVE  StateType'
  <2>1. CASE AcceptArmAdmits(c)
    BY <1>17, <2>1 DEF AcceptArm, AcceptArmAdmits
  <2>2. CASE AcceptArmRefuses(c)
    <3>1. /\ metrics' \in [accepted : Nat, rejected : Nat, active : Nat,
                           counts : Counters]
          /\ report' \in [accepted : Nat, rejected : Nat, counts : Counters]
      BY SMTT(30), <2>2 DEF AcceptArmRefuses, connection_rejected
    <3> QED
      BY <1>17, <2>2, <3>1 DEF AcceptArm, AcceptArmRefuses
  <2> QED
    BY <1>17, <2>1, <2>2 DEF AcceptArm
<1>18. ASSUME NEW c \in Conns, JoinConnTask(c)
      PROVE  StateType'
  <2>1. report' \in [accepted : Nat, rejected : Nat, counts : Counters]
    <3>1. merge(report.counts, connection_report[c]) \in Counters
      BY MergeType
    <3> QED
      BY <1>18, <3>1 DEF JoinConnTask
  <2>2. conn' \in [Conns -> ConnStates]
    BY <1>18 DEF JoinConnTask
  <2>3. loop' \in {"select", "drain_auth", "returned_ok", "returned_err"}
    BY <1>18 DEF JoinConnTask
  <2>4. UNCHANGED <<envVars, accepting, shutdown_sent, accept_task, stream,
                    connection_report, metrics>>
    BY <1>18 DEF JoinConnTask
  <2> QED
    BY <2>1, <2>2, <2>3, <2>4
<1>19. ASSUME NEW c \in Conns, TaskDropped(c)
      PROVE  StateType'
  <2>1. metrics' \in [accepted : Nat, rejected : Nat, active : Nat,
                      counts : Counters]
    BY <1>19, ClosedType DEF TaskDropped
  <2>2. stream' \in [Streams -> [owner : Conns \cup {NONE}, state : StreamStates]]
    BY <1>19, MoveType DEF TaskDropped
  <2> QED
    BY ZenonT(30), <1>19, <2>1, <2>2 DEF TaskDropped
<1>20. ASSUME NEW c \in Conns, SeeShutdown(c)
      PROVE  StateType'
  <2>1. stream' \in [Streams -> [owner : Conns \cup {NONE}, state : StreamStates]]
    BY <1>20, MoveType DEF SeeShutdown
  <2> QED
    BY <1>20, <2>1 DEF SeeShutdown
<1>21. ASSUME NEW c \in Conns, SeeClosed(c)
      PROVE  StateType'
  <2>1. stream' \in [Streams -> [owner : Conns \cup {NONE}, state : StreamStates]]
    BY <1>21, MoveType DEF SeeClosed
  <2> QED
    BY <1>21, <2>1 DEF SeeClosed
<1>22. ASSUME NEW c \in Conns, DrainTimeout(c)
      PROVE  StateType'
  BY <1>22 DEF DrainTimeout
<1>23. ASSUME NEW c \in Conns, ConnTaskEnds(c)
      PROVE  StateType'
  BY <1>23, ClosedType DEF ConnTaskEnds
<1>24. ASSUME NEW c \in Conns, NEW s \in Streams, JoinRelay(c, s)
      PROVE  StateType'
  <2>1. /\ connection_report' \in [Conns -> Counters]
        /\ metrics' \in [accepted : Nat, rejected : Nat, active : Nat,
                         counts : Counters]
    BY <1>24, RecordType, ClosedType DEF JoinRelay
  <2>2. stream' \in [Streams -> [owner : Conns \cup {NONE}, state : StreamStates]]
    <3>1. Move(Headers(c), "lost") \in
            [Streams -> [owner : Conns \cup {NONE}, state : StreamStates]]
      BY MoveType
    <3>2. [Move(Headers(c), "lost") EXCEPT ![s].state = "over"] \in
            [Streams -> [owner : Conns \cup {NONE}, state : StreamStates]]
      BY <3>1
    <3>3. Move(Relays(c) \cup Headers(c), "over") \in
            [Streams -> [owner : Conns \cup {NONE}, state : StreamStates]]
      BY MoveType
    <3> QED
      BY ZenonT(30), <1>24, <3>2, <3>3 DEF JoinRelay
  <2> QED
    BY SMTT(30), <1>24, <2>1, <2>2 DEF JoinRelay
<1>25. ASSUME NEW c \in Conns, authentication_timeout(c)
      PROVE  StateType'
  BY <1>25 DEF authentication_timeout, authenticate_incoming_connection
<1>26. ASSUME NEW s \in Streams, RelayCancelled(s)
      PROVE  StateType'
  BY <1>26 DEF RelayCancelled
<1>27. ASSUME UNCHANGED vars
      PROVE  StateType'
  BY <1>27 DEF StateType, vars, loopVars, envVars, tallies
<1> HIDE DEF StateType, RelayResults, AuthDone
<1> QED
  BY SMTT(30), <1>1, <1>2, <1>3, <1>4, <1>5, <1>6, <1>7, <1>8, <1>9, <1>10, <1>11,
     <1>12, <1>13, <1>14, <1>15, <1>16, <1>17, <1>18, <1>19, <1>20, <1>21, <1>22, <1>23,
     <1>24, <1>25, <1>26, <1>27
  DEF Next, Environment, Loop, ConnTask, Terminated

-----------------------------------------------------------------------------
(* What a move of one connection does to the sets the invariants count.    *)
LEMMA Moves ==
  ASSUME StateType, NEW c \in Conns, NEW st, conn' = [conn EXCEPT ![c] = st]
  PROVE  /\ Permits' = IF st \in PermitHeld THEN Permits \cup {c} ELSE Permits \ {c}
         /\ Guarded' = IF st \in TaskLive THEN Guarded \cup {c} ELSE Guarded \ {c}
         /\ AuthTasks' = IF st \in InAuthTask THEN AuthTasks \cup {c}
                                              ELSE AuthTasks \ {c}
         /\ ConnTasks' = IF st \in TaskLive \cup TaskDone THEN ConnTasks \cup {c}
                                                          ELSE ConnTasks \ {c}
<1>1. conn'[c] = st /\ \A d \in Conns \ {c} : conn'[d] = conn[d]
  BY DEF StateType
<1> QED
  BY <1>1 DEF Permits, Guarded, AuthTasks, ConnTasks

LEMMA NoMove ==
  ASSUME conn' = conn
  PROVE  /\ Permits' = Permits /\ Guarded' = Guarded
         /\ AuthTasks' = AuthTasks /\ ConnTasks' = ConnTasks
BY DEF Permits, Guarded, AuthTasks, ConnTasks

LEMMA AdmissionSame ==
  ASSUME AdmissionType, AdmissionExact, UNCHANGED admissionVars,
         Permits' = Permits
  PROVE  AdmissionType' /\ AdmissionExact'
BY DEF AdmissionType, AdmissionExact, admissionVars, count

(* Every step keeps the admission counts exact and within their limits.    *)
LEMMA AdmissionStep ==
  ASSUME TypeOK, AdmissionExact, Next
  PROVE  AdmissionType' /\ AdmissionExact'
<1> DEFINE Goal == AdmissionType' /\ AdmissionExact'
<1>0. AdmissionType /\ StateType
  BY DEF TypeOK
<1> USE <1>0
<1>1. ASSUME NEW c \in Conns, Arrive(c)
      PROVE  Goal
  <2>1. Permits' = Permits
    BY <1>1, Moves DEF Arrive, Permits, PermitHeld, AuthDone
  <2> QED
    BY <1>1, <2>1, AdmissionSame DEF Arrive
<1>2. ASSUME NEW c \in Conns, PeerCloses(c)
      PROVE  Goal
  BY <1>2, NoMove, AdmissionSame DEF PeerCloses
<1>3. ASSUME EndpointCloses
      PROVE  Goal
  BY <1>3, NoMove, AdmissionSame DEF EndpointCloses
<1>4. ASSUME ShutdownRequested
      PROVE  Goal
  BY <1>4, NoMove, AdmissionSame DEF ShutdownRequested
<1>5. ASSUME NEW s \in Streams, NEW r \in RelayResults,
             RelayFinishes(s, r)
      PROVE  Goal
  BY <1>5, NoMove, AdmissionSame DEF RelayFinishes
<1>6. ASSUME NEW c \in Conns, NEW r \in AuthDone \cup {"auth_panicked"},
             authenticate_incoming_connection(c, r)
      PROVE  Goal
  <2>1. CASE r = "auth_panicked"
    <3>1. c \in Permits /\ Permits' = Permits \ {c} /\ permit_drop(ip_of[c])
      BY ZenonT(30), <1>6, <2>1, Moves
      DEF authenticate_incoming_connection, Permits, PermitHeld, AuthDone
    <3> QED
      BY <3>1, DropExact
  <2>2. CASE r # "auth_panicked"
    <3>1. Permits' = Permits /\ UNCHANGED admissionVars
      BY <1>6, <2>2, Moves
      DEF authenticate_incoming_connection, Permits, PermitHeld, AuthDone
    <3> QED
      BY <3>1, AdmissionSame
  <2> QED
    BY <2>1, <2>2
<1>7. ASSUME NEW c \in Conns, NEW s \in Streams, AcceptBi(c, s)
      PROVE  Goal
  BY <1>7, NoMove, AdmissionSame DEF AcceptBi
<1>8. ASSUME NEW c \in Conns, NEW s \in Streams,
             NEW o \in {"relay", "before_header", "failed"},
             ReadHeader(c, s, o)
      PROVE  Goal
  BY <1>8, NoMove, AdmissionSame DEF ReadHeader
<1>9. ASSUME ShutdownArm
      PROVE  Goal
  <2>1. Permits' = Permits
    BY <1>9 DEF ShutdownArm, Permits, PermitHeld, AuthDone
  <2> QED
    BY <1>9, <2>1, AdmissionSame DEF ShutdownArm
<1>10. ASSUME DrainAuthEnd
      PROVE  Goal
  BY <1>10, NoMove, AdmissionSame DEF DrainAuthEnd
<1>11. ASSUME AcceptArmFatal
      PROVE  Goal
  BY <1>11, NoMove, AdmissionSame DEF AcceptArmFatal
<1>12. ASSUME ElseArm
      PROVE  Goal
  BY <1>12, NoMove, AdmissionSame DEF ElseArm
<1>13. ASSUME accept_incoming_fails
      PROVE  Goal
  BY <1>13, NoMove, AdmissionSame DEF accept_incoming_fails
<1>14. ASSUME NEW c \in Conns, accept_incoming(c)
      PROVE  Goal
  <2>1. Permits' = Permits
    BY <1>14, Moves DEF accept_incoming, Permits, PermitHeld, AuthDone
  <2> QED
    BY <1>14, <2>1, AdmissionSame DEF accept_incoming
<1>15. ASSUME NEW c \in Conns, DrainAuthTask(c)
      PROVE  Goal
  <2>1. CASE conn[c] \in PermitHeld
    <3>1. c \in Permits /\ Permits' = Permits \ {c} /\ permit_drop(ip_of[c])
      BY ZenonT(30), <1>15, <2>1, Moves DEF DrainAuthTask, Permits, PermitHeld, AuthDone
    <3> QED
      BY <3>1, DropExact
  <2>2. CASE conn[c] \notin PermitHeld
    <3>1. Permits' = Permits /\ UNCHANGED admissionVars
      BY <1>15, <2>2, Moves DEF DrainAuthTask, Permits, PermitHeld, AuthDone
    <3> QED
      BY <3>1, AdmissionSame
  <2> QED
    BY <2>1, <2>2
<1>16. ASSUME NEW c \in Conns, JoinAuthTask(c)
      PROVE  Goal
  <2>1. CASE JoinAuthPanicked(c)
    <3>1. Permits' = Permits
      BY <2>1, Moves DEF JoinAuthPanicked, Permits, PermitHeld, AuthDone
    <3> QED
      BY <2>1, <3>1, AdmissionSame DEF JoinAuthPanicked
  <2>2. CASE ~JoinAuthPanicked(c)
    <3>1. c \in Permits /\ Permits' = Permits \ {c} /\ permit_drop(ip_of[c])
      BY <1>16, <2>2, Moves
      DEF JoinAuthTask, JoinAuthOk, JoinAuthRejected, JoinAuthClosed, Permits,
          PermitHeld, AuthDone
    <3> QED
      BY <3>1, DropExact
  <2> QED
    BY <2>1, <2>2
<1>17. ASSUME NEW c \in Conns, AcceptArm(c)
      PROVE  Goal
  <2>1. CASE AcceptArmAdmits(c)
    <3>1. /\ c \notin Permits /\ Permits' = Permits \cup {c}
          /\ try_admit_ok(ip_of[c])
      BY ZenonT(30), <2>1, Moves DEF AcceptArmAdmits, Permits, PermitHeld, AuthDone
    <3> QED
      BY <3>1, AdmitExact
  <2>2. CASE AcceptArmRefuses(c)
    <3>1. Permits' = Permits
      BY <2>2, Moves DEF AcceptArmRefuses, Permits, PermitHeld, AuthDone
    <3> QED
      BY <2>2, <3>1, AdmissionSame DEF AcceptArmRefuses, try_admit_err
  <2> QED
    BY <1>17, <2>1, <2>2 DEF AcceptArm
<1>18. ASSUME NEW c \in Conns, JoinConnTask(c)
      PROVE  Goal
  <2>1. Permits' = Permits
    BY <1>18, Moves DEF JoinConnTask, Permits, PermitHeld, AuthDone
  <2> QED
    BY <1>18, <2>1, AdmissionSame DEF JoinConnTask
<1>19. ASSUME NEW c \in Conns, TaskDropped(c)
      PROVE  Goal
  <2>1. CASE c \in Permits
    <3>1. Permits' = Permits \ {c} /\ permit_drop(ip_of[c])
      BY ZenonT(30), <1>19, <2>1, Moves DEF TaskDropped, PermitHeld, AuthDone
    <3> QED
      BY <2>1, <3>1, DropExact
  <2>2. CASE c \notin Permits
    <3>1. Permits' = Permits /\ UNCHANGED admissionVars
      <4>1. Permits' = Permits \ {c}
        BY ZenonT(30), <1>19, Moves DEF TaskDropped, PermitHeld, AuthDone
      <4> QED
        BY <1>19, <2>2, <4>1 DEF TaskDropped
    <3> QED
      BY <3>1, AdmissionSame
  <2> QED
    BY <2>1, <2>2
<1>20. ASSUME NEW c \in Conns, SeeShutdown(c)
      PROVE  Goal
  <2>1. Permits' = Permits
    BY <1>20, Moves DEF SeeShutdown, Permits, PermitHeld, AuthDone
  <2> QED
    BY <1>20, <2>1, AdmissionSame DEF SeeShutdown
<1>21. ASSUME NEW c \in Conns, SeeClosed(c)
      PROVE  Goal
  <2>1. Permits' = Permits
    BY <1>21, Moves DEF SeeClosed, Permits, PermitHeld, AuthDone
  <2> QED
    BY <1>21, <2>1, AdmissionSame DEF SeeClosed
<1>22. ASSUME NEW c \in Conns, DrainTimeout(c)
      PROVE  Goal
  <2>1. Permits' = Permits
    BY <1>22, Moves DEF DrainTimeout, Permits, PermitHeld, AuthDone
  <2> QED
    BY <1>22, <2>1, AdmissionSame DEF DrainTimeout
<1>23. ASSUME NEW c \in Conns, ConnTaskEnds(c)
      PROVE  Goal
  <2>1. Permits' = Permits
    BY <1>23, Moves DEF ConnTaskEnds, Permits, PermitHeld, AuthDone
  <2> QED
    BY <1>23, <2>1, AdmissionSame DEF ConnTaskEnds
<1>24. ASSUME NEW c \in Conns, NEW s \in Streams, JoinRelay(c, s)
      PROVE  Goal
  <2>1. conn' = conn \/ (conn[c] \in TaskLive /\ conn' = [conn EXCEPT ![c] = "panicked"])
    BY <1>24 DEF JoinRelay
  <2>2. Permits' = Permits
    BY <2>1, Moves, NoMove DEF Permits, PermitHeld, AuthDone, TaskLive
  <2> QED
    BY <1>24, <2>2, AdmissionSame DEF JoinRelay
<1>25. ASSUME NEW c \in Conns, authentication_timeout(c)
      PROVE  Goal
  <2>1. Permits' = Permits /\ UNCHANGED admissionVars
    BY <1>25, Moves
    DEF authentication_timeout, authenticate_incoming_connection, Permits,
        PermitHeld, AuthDone
  <2> QED
    BY <2>1, AdmissionSame
<1>26. ASSUME NEW s \in Streams, RelayCancelled(s)
      PROVE  Goal
  BY <1>26, NoMove, AdmissionSame DEF RelayCancelled
<1>27. ASSUME UNCHANGED vars
      PROVE  Goal
  BY <1>27, NoMove, AdmissionSame DEF vars, admissionVars
<1> HIDE DEF Goal
<1>28. Goal
  BY SMTT(30), <1>1, <1>2, <1>3, <1>4, <1>5, <1>6, <1>7, <1>8, <1>9, <1>10, <1>11,
     <1>12, <1>13, <1>14, <1>15, <1>16, <1>17, <1>18, <1>19, <1>20, <1>21, <1>22, <1>23,
     <1>24, <1>25, <1>26, <1>27
  DEF Next, Environment, Loop, ConnTask, Terminated
<1> QED
  BY <1>28 DEF Goal

-----------------------------------------------------------------------------
LEMMA ActiveSame ==
  ASSUME ConnectionMetricsExact, Guarded' = Guarded,
         metrics'.active = metrics.active,
         metrics'.accepted = metrics.accepted, report'.accepted = report.accepted,
         metrics'.rejected = metrics.rejected, report'.rejected = report.rejected
  PROVE  ConnectionMetricsExact'
BY DEF ConnectionMetricsExact

LEMMA ActiveDrops ==
  ASSUME StateType, ConnectionMetricsExact, NEW c \in Guarded,
         Guarded' = Guarded \ {c}, connection_closed, report' = report
  PROVE  ConnectionMetricsExact'
<1>1. Cardinality(Guarded) \in Nat \ {0}
  BY PermitsFinite, FS_EmptySet
<1>2. Cardinality(Guarded') = Cardinality(Guarded) - 1
  BY ZenonT(30), PermitsFinite, FS_RemoveElement
<1>3. /\ metrics'.active = metrics.active - 1
      /\ metrics'.accepted = metrics.accepted
      /\ metrics'.rejected = metrics.rejected
  BY <1>1 DEF connection_closed, saturating_dec, ConnectionMetricsExact, StateType
<1> QED
  BY <1>2, <1>3 DEF ConnectionMetricsExact

(* Every step keeps the connection metrics exact.                          *)
LEMMA MetricsStep ==
  ASSUME StateType, ConnectionMetricsExact, Next
  PROVE  ConnectionMetricsExact'
<1> DEFINE Goal == ConnectionMetricsExact'
<1>0. /\ metrics \in [accepted : Nat, rejected : Nat, active : Nat,
                      counts : Counters]
      /\ report \in [accepted : Nat, rejected : Nat, counts : Counters]
  BY DEF StateType
<1>1. ASSUME NEW c \in Conns, Arrive(c)
      PROVE  Goal
  <2>1. Guarded' = Guarded
    BY <1>1, Moves DEF Arrive, Guarded, TaskLive
  <2> QED
    BY <1>1, <2>1, ActiveSame DEF Arrive, tallies
<1>2. ASSUME NEW c \in Conns, PeerCloses(c)
      PROVE  Goal
  BY <1>2, NoMove, ActiveSame DEF PeerCloses, tallies
<1>3. ASSUME EndpointCloses
      PROVE  Goal
  BY <1>3, NoMove, ActiveSame DEF EndpointCloses, tallies
<1>4. ASSUME ShutdownRequested
      PROVE  Goal
  BY <1>4, NoMove, ActiveSame DEF ShutdownRequested, tallies
<1>5. ASSUME NEW s \in Streams, NEW r \in RelayResults,
             RelayFinishes(s, r)
      PROVE  Goal
  BY <1>5, NoMove, ActiveSame DEF RelayFinishes, tallies
<1>6. ASSUME NEW c \in Conns, NEW r \in AuthDone \cup {"auth_panicked"},
             authenticate_incoming_connection(c, r)
      PROVE  Goal
  <2>1. Guarded' = Guarded
    BY <1>6, Moves
    DEF authenticate_incoming_connection, Guarded,
      TaskLive, AuthDone
  <2> QED
    BY <1>6, <2>1, ActiveSame 
    DEF authenticate_incoming_connection, tallies
<1>7. ASSUME NEW c \in Conns, NEW s \in Streams, AcceptBi(c, s)
      PROVE  Goal
  BY <1>7, NoMove, ActiveSame DEF AcceptBi, tallies
<1>8. ASSUME NEW c \in Conns, NEW s \in Streams,
             NEW o \in {"relay", "before_header", "failed"},
             ReadHeader(c, s, o)
      PROVE  Goal
  BY <1>8, NoMove, RecordType, ActiveSame DEF ReadHeader
<1>9. ASSUME ShutdownArm
      PROVE  Goal
  <2>1. Guarded' = Guarded
    BY <1>9 DEF ShutdownArm, Guarded, TaskLive
  <2> QED
    BY <1>9, <2>1, ActiveSame DEF ShutdownArm, tallies
<1>10. ASSUME DrainAuthEnd
      PROVE  Goal
  BY <1>10, NoMove, ActiveSame DEF DrainAuthEnd, tallies
<1>11. ASSUME AcceptArmFatal
      PROVE  Goal
  BY <1>11, NoMove, ActiveSame DEF AcceptArmFatal, tallies
<1>12. ASSUME ElseArm
      PROVE  Goal
  BY <1>12, NoMove, ActiveSame DEF ElseArm, tallies
<1>13. ASSUME accept_incoming_fails
      PROVE  Goal
  BY <1>13, NoMove, ActiveSame DEF accept_incoming_fails, tallies
<1>14. ASSUME NEW c \in Conns, accept_incoming(c)
      PROVE  Goal
  <2>1. Guarded' = Guarded
    BY <1>14, Moves DEF accept_incoming, Guarded, TaskLive
  <2> QED
    BY <1>14, <2>1, ActiveSame DEF accept_incoming, tallies
<1>15. ASSUME NEW c \in Conns, DrainAuthTask(c)
      PROVE  Goal
  <2>1. Guarded' = Guarded
    BY <1>15, Moves DEF DrainAuthTask, Guarded, TaskLive,
      InAuthTask, PermitHeld, AuthDone
  <2> QED
    BY <1>15, <2>1, ActiveSame DEF DrainAuthTask, tallies
<1>16. ASSUME NEW c \in Conns, JoinAuthTask(c)
      PROVE  Goal
  <2>1. CASE JoinAuthOk(c)
    <3>1. Guarded' = Guarded \cup {c} /\ c \notin Guarded
      BY ZenonT(30), <2>1, Moves DEF JoinAuthOk, Guarded, TaskLive
    <3>2. Cardinality(Guarded') = Cardinality(Guarded) + 1
      BY ZenonT(30), <3>1, PermitsFinite, FS_AddElement
    <3>3. /\ metrics'.active = metrics.active + 1
          /\ metrics'.accepted = metrics.accepted + 1
          /\ metrics'.rejected = metrics.rejected
          /\ report'.accepted = report.accepted + 1
          /\ report'.rejected = report.rejected
      BY <1>0, <2>1 DEF JoinAuthOk, connection_accepted
    <3> QED
      BY <3>2, <3>3 DEF ConnectionMetricsExact
  <2>2. CASE JoinAuthRejected(c)
    <3>1. Guarded' = Guarded
      BY <2>2, Moves DEF JoinAuthRejected, Guarded, TaskLive
    <3> QED
      BY <1>0, <2>2, <3>1
      DEF JoinAuthRejected, connection_rejected, ConnectionMetricsExact
  <2>3. CASE JoinAuthClosed(c) \/ JoinAuthPanicked(c)
    <3>1. Guarded' = Guarded
      BY <2>3, Moves DEF JoinAuthClosed, JoinAuthPanicked, Guarded, TaskLive
    <3> QED
      BY <2>3, <3>1, ActiveSame DEF JoinAuthClosed, JoinAuthPanicked
  <2> QED
    BY <1>16, <2>1, <2>2, <2>3 DEF JoinAuthTask
<1>17. ASSUME NEW c \in Conns, AcceptArm(c)
      PROVE  Goal
  <2>1. CASE AcceptArmAdmits(c)
    <3>1. Guarded' = Guarded
      BY <2>1, Moves DEF AcceptArmAdmits, Guarded, TaskLive
    <3> QED
      BY <2>1, <3>1, ActiveSame DEF AcceptArmAdmits
  <2>2. CASE AcceptArmRefuses(c)
    <3>1. Guarded' = Guarded
      BY <2>2, Moves DEF AcceptArmRefuses, Guarded, TaskLive
    <3> QED
      BY <1>0, <2>2, <3>1
      DEF AcceptArmRefuses, connection_rejected, ConnectionMetricsExact
  <2> QED
    BY <1>17, <2>1, <2>2 DEF AcceptArm
<1>18. ASSUME NEW c \in Conns, JoinConnTask(c)
      PROVE  Goal
  <2>1. Guarded' = Guarded
    BY <1>18, Moves DEF JoinConnTask, Guarded, TaskLive
  <2> QED
    BY <1>18, <1>0, <2>1, ActiveSame DEF JoinConnTask, tallies
<1>19. ASSUME NEW c \in Conns, TaskDropped(c)
      PROVE  Goal
  <2>1. Guarded' = Guarded \ {c}
    BY ZenonT(30), <1>19, Moves DEF TaskDropped, TaskLive
  <2>2. CASE c \in Guarded
    BY <1>19, <2>1, <2>2, ActiveDrops DEF TaskDropped
  <2>3. CASE c \notin Guarded
    BY <1>19, <2>1, <2>3, ActiveSame DEF TaskDropped
  <2> QED
    BY <2>2, <2>3
<1>20. ASSUME NEW c \in Conns, SeeShutdown(c)
      PROVE  Goal
  <2>1. Guarded' = Guarded
    BY <1>20, Moves DEF SeeShutdown, Guarded, TaskLive
  <2> QED
    BY <1>20, <2>1, ActiveSame DEF SeeShutdown, tallies
<1>21. ASSUME NEW c \in Conns, SeeClosed(c)
      PROVE  Goal
  <2>1. Guarded' = Guarded
    BY <1>21, Moves DEF SeeClosed, Guarded, TaskLive
  <2> QED
    BY <1>21, <2>1, ActiveSame DEF SeeClosed, tallies
<1>22. ASSUME NEW c \in Conns, DrainTimeout(c)
      PROVE  Goal
  <2>1. Guarded' = Guarded
    BY <1>22, Moves DEF DrainTimeout, Guarded, TaskLive
  <2> QED
    BY <1>22, <2>1, ActiveSame DEF DrainTimeout, tallies
<1>23. ASSUME NEW c \in Conns, ConnTaskEnds(c)
      PROVE  Goal
  <2>1. c \in Guarded /\ Guarded' = Guarded \ {c}
    BY ZenonT(30), <1>23, Moves DEF ConnTaskEnds, Guarded, TaskLive
  <2> QED
    BY SMTT(30), <1>23, <2>1, ActiveDrops DEF ConnTaskEnds
<1>24. ASSUME NEW c \in Conns, NEW s \in Streams, JoinRelay(c, s)
      PROVE  Goal
  <2>1. CASE conn' = conn /\ record_proxy_connection_result(c, stream[s].state)
    BY <1>24, <2>1, NoMove, RecordType, ActiveSame DEF JoinRelay
  <2>2. CASE conn' = [conn EXCEPT ![c] = "panicked"] /\ connection_closed
    <3>1. c \in Guarded /\ Guarded' = Guarded \ {c}
      BY ZenonT(30), <1>24, <2>2, Moves DEF JoinRelay, Guarded, TaskLive
    <3> QED
      BY <1>24, <2>2, <3>1, ActiveDrops DEF JoinRelay
  <2> QED
    BY <1>24, <2>1, <2>2 DEF JoinRelay
<1>25. ASSUME NEW c \in Conns, authentication_timeout(c)
      PROVE  Goal
  <2>1. Guarded' = Guarded
    BY <1>25, Moves
    DEF authentication_timeout, authenticate_incoming_connection, Guarded,
        TaskLive
  <2> QED
    BY <1>25, <2>1, ActiveSame
    DEF authentication_timeout, authenticate_incoming_connection, tallies
<1>26. ASSUME NEW s \in Streams, RelayCancelled(s)
      PROVE  Goal
  BY <1>26, NoMove, ActiveSame DEF RelayCancelled, tallies
<1>27. ASSUME UNCHANGED vars
      PROVE  Goal
  BY <1>27, NoMove, ActiveSame DEF vars, tallies
<1> HIDE DEF Goal
<1>28. Goal
  BY SMTT(30), <1>1, <1>2, <1>3, <1>4, <1>5, <1>6, <1>7, <1>8, <1>9, <1>10, <1>11,
     <1>12, <1>13, <1>14, <1>15, <1>16, <1>17, <1>18, <1>19, <1>20, <1>21, <1>22, <1>23,
     <1>24, <1>25, <1>26, <1>27
  DEF Next, Environment, Loop, ConnTask, Terminated
<1> QED
  BY <1>28 DEF Goal

-----------------------------------------------------------------------------
(* RelaysEndWithTask, stream by stream.                                    *)
Owned ==
  \A s \in Streams :
    /\ stream[s].state \notin NoRelay
    /\ stream[s].owner \in Conns
    => conn[stream[s].owner] \in TaskLive

LEMMA MoveEffect ==
  ASSUME StateType, NEW S, NEW st, NEW t \in Streams
  PROVE  /\ Move(S, st)[t].owner = stream[t].owner
         /\ Move(S, st)[t].state = IF t \in S THEN st ELSE stream[t].state
BY DEF StateType, Move

LEMMA OwnedIff == RelaysEndWithTask <=> Owned
BY DEF RelaysEndWithTask, Owned, Relays

(* No step leaves a relay behind the task of its connection.               *)
LEMMA RelayStep ==
  ASSUME StateType, Owned, Next
  PROVE  Owned'
<1> DEFINE Goal == Owned'
<1>0. /\ conn \in [Conns -> ConnStates]
      /\ stream \in [Streams -> [owner : Conns \cup {NONE}, state : StreamStates]]
  BY DEF StateType
<1> USE <1>0
<1>1. ASSUME NEW c \in Conns, Arrive(c)
      PROVE  Goal
  BY <1>1 DEF Arrive, Owned, TaskLive
<1>2. ASSUME NEW c \in Conns, PeerCloses(c)
      PROVE  Goal
  BY <1>2 DEF PeerCloses, Owned
<1>3. ASSUME EndpointCloses
      PROVE  Goal
  BY <1>3 DEF EndpointCloses, Owned
<1>4. ASSUME ShutdownRequested
      PROVE  Goal
  BY <1>4 DEF ShutdownRequested, Owned
<1>5. ASSUME NEW s \in Streams, NEW r \in RelayResults,
             RelayFinishes(s, r)
      PROVE  Goal
  <2> SUFFICES ASSUME NEW t \in Streams,
                      stream'[t].state \notin NoRelay,
                      stream'[t].owner \in Conns
               PROVE  conn'[stream'[t].owner] \in TaskLive
    BY DEF Owned
  <2>1. stream'[t].owner = stream[t].owner
    BY <1>5 DEF RelayFinishes
  <2>2. stream[t].state \notin NoRelay
    BY <1>5 DEF RelayFinishes, NoRelay
  <2> QED
    BY <1>5, <2>1, <2>2 DEF RelayFinishes, Owned
<1>6. ASSUME NEW c \in Conns, NEW r \in AuthDone \cup {"auth_panicked"},
             authenticate_incoming_connection(c, r)
      PROVE  Goal
  BY <1>6 DEF authenticate_incoming_connection, Owned, TaskLive
<1>7. ASSUME NEW c \in Conns, NEW s \in Streams, AcceptBi(c, s)
      PROVE  Goal
  BY SMTT(30), <1>7 DEF AcceptBi, Owned, NoRelay, TaskLive
<1>8. ASSUME NEW c \in Conns, NEW s \in Streams,
             NEW o \in {"relay", "before_header", "failed"},
             ReadHeader(c, s, o)
      PROVE  Goal
  BY <1>8, MoveEffect DEF ReadHeader, Owned, Headers, NoRelay, TaskLive
<1>9. ASSUME ShutdownArm
      PROVE  Goal
  BY <1>9 DEF ShutdownArm, Owned, TaskLive
<1>10. ASSUME DrainAuthEnd
      PROVE  Goal
  BY <1>10 DEF DrainAuthEnd, Owned
<1>11. ASSUME AcceptArmFatal
      PROVE  Goal
  BY <1>11 DEF AcceptArmFatal, Owned
<1>12. ASSUME ElseArm
      PROVE  Goal
  BY <1>12 DEF ElseArm, Owned
<1>13. ASSUME accept_incoming_fails
      PROVE  Goal
  BY <1>13 DEF accept_incoming_fails, Owned
<1>14. ASSUME NEW c \in Conns, accept_incoming(c)
      PROVE  Goal
  BY <1>14 DEF accept_incoming, Owned, TaskLive
<1>15. ASSUME NEW c \in Conns, DrainAuthTask(c)
      PROVE  Goal
  BY <1>15
  DEF DrainAuthTask, Owned, TaskLive, InAuthTask, PermitHeld, AuthDone
<1>16. ASSUME NEW c \in Conns, JoinAuthTask(c)
      PROVE  Goal
  BY <1>16
  DEF JoinAuthTask, JoinAuthOk, JoinAuthRejected, JoinAuthClosed,
      JoinAuthPanicked, Owned, TaskLive
<1>17. ASSUME NEW c \in Conns, AcceptArm(c)
      PROVE  Goal
  BY <1>17
  DEF AcceptArm, AcceptArmAdmits, AcceptArmRefuses, Owned, TaskLive
<1>18. ASSUME NEW c \in Conns, JoinConnTask(c)
      PROVE  Goal
  BY SMTT(30), <1>18 DEF JoinConnTask, Owned, TaskLive
<1>19. ASSUME NEW c \in Conns, TaskDropped(c)
      PROVE  Goal
  <2> SUFFICES ASSUME NEW t \in Streams,
                      stream'[t].state \notin NoRelay,
                      stream'[t].owner \in Conns
               PROVE  conn'[stream'[t].owner] \in TaskLive
    BY SMTT(30) DEF Owned
  <2>1. /\ stream' = Move(Relays(c) \cup Headers(c), "over")
        /\ conn' = [conn EXCEPT ![c] = "dropped"]
    BY <1>19 DEF TaskDropped
  <2>2. /\ stream'[t].owner = stream[t].owner
        /\ t \notin Relays(c)
        /\ stream'[t].state = stream[t].state
    BY SMTT(30), <2>1, MoveEffect DEF NoRelay
  <2> QED
    BY <2>1, <2>2 DEF Owned, Relays
<1>20. ASSUME NEW c \in Conns, SeeShutdown(c)
      PROVE  Goal
  BY SMTT(30), <1>20, MoveEffect DEF SeeShutdown, Owned, NoRelay, TaskLive
<1>21. ASSUME NEW c \in Conns, SeeClosed(c)
      PROVE  Goal
  BY <1>21, MoveEffect DEF SeeClosed, Owned, NoRelay, TaskLive
<1>22. ASSUME NEW c \in Conns, DrainTimeout(c)
      PROVE  Goal
  BY <1>22 DEF DrainTimeout, Owned, TaskLive
<1>23. ASSUME NEW c \in Conns, ConnTaskEnds(c)
      PROVE  Goal
  BY <1>23 DEF ConnTaskEnds, Owned, Relays, TaskLive
<1>24. ASSUME NEW c \in Conns, NEW s \in Streams, JoinRelay(c, s)
      PROVE  Goal
  <2> SUFFICES ASSUME NEW t \in Streams,
                      stream'[t].state \notin NoRelay,
                      stream'[t].owner \in Conns
               PROVE  conn'[stream'[t].owner] \in TaskLive
    BY SMTT(30) DEF Owned
  <2>1. CASE stream[s].state = "panicked" /\ conn[c] # "aborting"
    <3>1. /\ stream' = Move(Relays(c) \cup Headers(c), "over")
          /\ conn' = [conn EXCEPT ![c] = "panicked"]
      BY SMTT(30), <1>24, <2>1 DEF JoinRelay
    <3>2. /\ stream'[t].owner = stream[t].owner
          /\ t \notin Relays(c)
          /\ stream'[t].state = stream[t].state
      BY <3>1, MoveEffect DEF NoRelay
    <3> QED
      BY <3>1, <3>2 DEF Owned, Relays
  <2>2. CASE ~(stream[s].state = "panicked" /\ conn[c] # "aborting")
    <3>1. /\ stream' = [Move(Headers(c), "lost") EXCEPT ![s].state = "over"]
          /\ conn' = conn
      BY <1>24, <2>2 DEF JoinRelay
    <3>2. t # s /\ stream'[t] = Move(Headers(c), "lost")[t]
      BY <3>1, MoveType DEF NoRelay, StreamStates
    <3> QED
      BY <3>1, <3>2, MoveEffect DEF Owned, NoRelay
  <2> QED
    BY <2>1, <2>2
<1>25. ASSUME NEW c \in Conns, authentication_timeout(c)
      PROVE  Goal
  BY <1>25
  DEF authentication_timeout, authenticate_incoming_connection, Owned, TaskLive
<1>26. ASSUME NEW s \in Streams, RelayCancelled(s)
      PROVE  Goal
  <2> SUFFICES ASSUME NEW t \in Streams,
                      stream'[t].state \notin NoRelay,
                      stream'[t].owner \in Conns
               PROVE  conn'[stream'[t].owner] \in TaskLive
    BY DEF Owned
  <2>1. stream'[t].owner = stream[t].owner
    BY <1>26 DEF RelayCancelled
  <2>2. stream[t].state \notin NoRelay
    BY <1>26 DEF RelayCancelled, NoRelay
  <2> QED
    BY SMTT(30), <1>26, <2>1, <2>2 DEF RelayCancelled, Owned
<1>27. ASSUME UNCHANGED vars
      PROVE  Goal
  BY SMTT(30), <1>27 DEF vars, Owned
<1> HIDE DEF Goal
<1>28. Goal
  BY SMTT(30), <1>1, <1>2, <1>3, <1>4, <1>5, <1>6, <1>7, <1>8, <1>9, <1>10, <1>11,
     <1>12, <1>13, <1>14, <1>15, <1>16, <1>17, <1>18, <1>19, <1>20, <1>21, <1>22, <1>23,
     <1>24, <1>25, <1>26, <1>27
  DEF Next, Environment, Loop, ConnTask, Terminated
<1> QED
  BY <1>28 DEF Goal

-----------------------------------------------------------------------------
(* What each phase of the loop has already settled: it stops accepting     *)
(* before it drains, has no authentication task left once it has drained,  *)
(* and no connection task left when it returns its report.                 *)
PhaseInv ==
  /\ loop \in {"drain_auth", "returned_ok"} => ~accepting
  /\ ~accepting /\ loop # "drain_auth" => AuthTasks = {}
  /\ loop = "returned_ok" => ConnTasks = {}

LEMMA PhaseStep ==
  ASSUME StateType, PhaseInv, Next
  PROVE  PhaseInv'
<1> DEFINE Goal == PhaseInv'
<1>1. ASSUME NEW c \in Conns, Arrive(c)
      PROVE  Goal
  BY <1>1, Moves
  DEF Arrive, loopVars, PhaseInv, AuthTasks, ConnTasks,
      InAuthTask, PermitHeld, AuthDone, TaskLive, TaskDone
<1>2. ASSUME NEW c \in Conns, PeerCloses(c)
      PROVE  Goal
  BY <1>2, NoMove DEF PeerCloses, loopVars, PhaseInv
<1>3. ASSUME EndpointCloses
      PROVE  Goal
  BY <1>3, NoMove DEF EndpointCloses, loopVars, PhaseInv
<1>4. ASSUME ShutdownRequested
      PROVE  Goal
  BY <1>4, NoMove DEF ShutdownRequested, loopVars, PhaseInv
<1>5. ASSUME NEW s \in Streams, NEW r \in RelayResults,
             RelayFinishes(s, r)
      PROVE  Goal
  BY SMTT(30), <1>5, NoMove DEF RelayFinishes, loopVars, PhaseInv
<1>6. ASSUME NEW c \in Conns, NEW r \in AuthDone \cup {"auth_panicked"},
             authenticate_incoming_connection(c, r)
      PROVE  Goal
  BY <1>6, Moves
  DEF authenticate_incoming_connection, loopVars, PhaseInv, AuthTasks, ConnTasks,
      InAuthTask, PermitHeld, AuthDone, TaskLive, TaskDone
<1>7. ASSUME NEW c \in Conns, NEW s \in Streams, AcceptBi(c, s)
      PROVE  Goal
  BY <1>7, NoMove DEF AcceptBi, loopVars, PhaseInv
<1>8. ASSUME NEW c \in Conns, NEW s \in Streams,
             NEW o \in {"relay", "before_header", "failed"},
             ReadHeader(c, s, o)
      PROVE  Goal
  BY <1>8, NoMove DEF ReadHeader, loopVars, PhaseInv
<1>9. ASSUME ShutdownArm
      PROVE  Goal
  BY <1>9 DEF ShutdownArm, PhaseInv
<1>10. ASSUME DrainAuthEnd
      PROVE  Goal
  BY <1>10, NoMove DEF DrainAuthEnd, loopVars, PhaseInv
<1>11. ASSUME AcceptArmFatal
      PROVE  Goal
  BY <1>11, NoMove DEF AcceptArmFatal, loopVars, PhaseInv
<1>12. ASSUME ElseArm
      PROVE  Goal
  BY <1>12, NoMove DEF ElseArm, loopVars, PhaseInv
<1>13. ASSUME accept_incoming_fails
      PROVE  Goal
  BY SMTT(30), <1>13, NoMove DEF accept_incoming_fails, loopVars, PhaseInv
<1>14. ASSUME NEW c \in Conns, accept_incoming(c)
      PROVE  Goal
  BY SMTT(30), <1>14, Moves
  DEF accept_incoming, loopVars, PhaseInv, AuthTasks, ConnTasks,
      InAuthTask, PermitHeld, AuthDone, TaskLive, TaskDone
<1>15. ASSUME NEW c \in Conns, DrainAuthTask(c)
      PROVE  Goal
  BY SMTT(30), <1>15, Moves
  DEF DrainAuthTask, loopVars, PhaseInv, AuthTasks, ConnTasks,
      InAuthTask, PermitHeld, AuthDone, TaskLive, TaskDone
<1>16. ASSUME NEW c \in Conns, JoinAuthTask(c)
      PROVE  Goal
  BY SMTT(30), <1>16, Moves
  DEF JoinAuthTask, JoinAuthOk, JoinAuthRejected, JoinAuthClosed,
      JoinAuthPanicked, loopVars, PhaseInv, AuthTasks, ConnTasks,
      InAuthTask, PermitHeld, AuthDone, TaskLive, TaskDone
<1>17. ASSUME NEW c \in Conns, AcceptArm(c)
      PROVE  Goal
  BY <1>17, Moves
  DEF AcceptArm, AcceptArmAdmits, AcceptArmRefuses, loopVars, PhaseInv, AuthTasks, ConnTasks,
      InAuthTask, PermitHeld, AuthDone, TaskLive, TaskDone
<1>18. ASSUME NEW c \in Conns, JoinConnTask(c)
      PROVE  Goal
  BY SMTT(30), <1>18, Moves
  DEF JoinConnTask, loopVars, PhaseInv, AuthTasks, ConnTasks,
      InAuthTask, PermitHeld, AuthDone, TaskLive, TaskDone
<1>19. ASSUME NEW c \in Conns, TaskDropped(c)
      PROVE  Goal
  BY SMTT(30), <1>19, Moves
  DEF TaskDropped, loopVars, PhaseInv, AuthTasks, ConnTasks,
      InAuthTask, PermitHeld, AuthDone, TaskLive, TaskDone
<1>20. ASSUME NEW c \in Conns, SeeShutdown(c)
      PROVE  Goal
  BY SMTT(30), <1>20, Moves
  DEF SeeShutdown, loopVars, PhaseInv, AuthTasks, ConnTasks,
      InAuthTask, PermitHeld, AuthDone, TaskLive, TaskDone
<1>21. ASSUME NEW c \in Conns, SeeClosed(c)
      PROVE  Goal
  BY SMTT(30), <1>21, Moves
  DEF SeeClosed, loopVars, PhaseInv, AuthTasks, ConnTasks,
      InAuthTask, PermitHeld, AuthDone, TaskLive, TaskDone
<1>22. ASSUME NEW c \in Conns, DrainTimeout(c)
      PROVE  Goal
  BY SMTT(30), <1>22, Moves
  DEF DrainTimeout, loopVars, PhaseInv, AuthTasks, ConnTasks,
      InAuthTask, PermitHeld, AuthDone, TaskLive, TaskDone
<1>23. ASSUME NEW c \in Conns, ConnTaskEnds(c)
      PROVE  Goal
  BY <1>23, Moves
  DEF ConnTaskEnds, loopVars, PhaseInv, AuthTasks, ConnTasks,
      InAuthTask, PermitHeld, AuthDone, TaskLive, TaskDone
<1>24. ASSUME NEW c \in Conns, NEW s \in Streams, JoinRelay(c, s)
      PROVE  Goal
  <2>1. UNCHANGED <<loop, accepting>> /\ conn[c] \in TaskLive
    BY <1>24 DEF JoinRelay, loopVars
  <2>2. conn' = conn \/ conn' = [conn EXCEPT ![c] = "panicked"]
    BY SMTT(30), <1>24 DEF JoinRelay
  <2>3. AuthTasks' = AuthTasks /\ ConnTasks' = ConnTasks
    BY SMTT(30), <2>1, <2>2, Moves, NoMove
    DEF AuthTasks, ConnTasks, InAuthTask, PermitHeld, AuthDone, TaskLive,
        TaskDone
  <2> QED
    BY <2>1, <2>3 DEF PhaseInv
<1>25. ASSUME NEW c \in Conns, authentication_timeout(c)
      PROVE  Goal
  BY <1>25, Moves
  DEF authentication_timeout, authenticate_incoming_connection,
      loopVars, PhaseInv, AuthTasks, ConnTasks,
      InAuthTask, PermitHeld, AuthDone, TaskLive, TaskDone
<1>26. ASSUME NEW s \in Streams, RelayCancelled(s)
      PROVE  Goal
  BY <1>26, NoMove DEF RelayCancelled, loopVars, PhaseInv
<1>27. ASSUME UNCHANGED vars
      PROVE  Goal
  BY SMTT(30), <1>27, NoMove DEF vars, loopVars, PhaseInv
<1> HIDE DEF Goal
<1>28. Goal
  BY <1>1, <1>2, <1>3, <1>4, <1>5, <1>6, <1>7, <1>8, <1>9, <1>10, <1>11,
     <1>12, <1>13, <1>14, <1>15, <1>16, <1>17, <1>18, <1>19, <1>20, <1>21, <1>22, <1>23,
     <1>24, <1>25, <1>26, <1>27
  DEF Next, Environment, Loop, ConnTask, Terminated
<1> QED
  BY <1>28 DEF Goal

-----------------------------------------------------------------------------
(* The inductive invariant of the server loop.                             *)
IInv ==
  /\ TypeOK
  /\ AdmissionExact
  /\ ConnectionMetricsExact
  /\ RelaysEndWithTask
  /\ PhaseInv

LEMMA InitIInv == Init => IInv
<1> SUFFICES ASSUME Init PROVE IInv
  BY SMTT(30)
<1>1. StateType
  BY ZenonT(30), ServerAssumption
  DEF Init, StateType, ConnStates, StreamStates, NoRelay, Counters, NoCounts
<1>2. AdmissionType
  BY AdmissionAssumption DEF Init, admission_init, AdmissionType
<1>3. Permits = {} /\ Guarded = {} /\ AuthTasks = {} /\ ConnTasks = {}
  BY DEF Init, Permits, Guarded, AuthTasks, ConnTasks, PermitHeld, AuthDone,
         InAuthTask, TaskLive, TaskDone
<1>4. AdmissionExact
  <2>1. \A ip : {c \in Permits : ip_of[c] = ip} = {}
    BY SMTT(30), <1>3
  <2> QED
    BY <1>3, <2>1, FS_EmptySet DEF Init, admission_init, AdmissionExact, count
<1>5. ConnectionMetricsExact
  BY SMTT(30), <1>3, FS_EmptySet DEF Init, ConnectionMetricsExact
<1>6. RelaysEndWithTask
  BY SMTT(30) DEF Init, RelaysEndWithTask, Relays, NoRelay
<1>7. PhaseInv
  BY <1>3 DEF Init, PhaseInv
<1> QED
  BY <1>1, <1>2, <1>4, <1>5, <1>6, <1>7 DEF IInv, TypeOK

LEMMA OwnedPrimed == RelaysEndWithTask' <=> Owned'
BY DEF RelaysEndWithTask, Owned, Relays

LEMMA NextIInv == IInv /\ [Next]_vars => IInv'
<1> SUFFICES ASSUME IInv, [Next]_vars PROVE IInv'
  OBVIOUS
<1>1. CASE Next
  BY SMTT(30), <1>1, StateTypeStep, AdmissionStep, MetricsStep, RelayStep, PhaseStep,
     OwnedIff, OwnedPrimed
  DEF IInv, TypeOK
<1>2. CASE UNCHANGED vars
  BY ZenonT(30), <1>2
  DEF IInv, TypeOK, StateType, AdmissionType, AdmissionExact, count,
      ConnectionMetricsExact, RelaysEndWithTask, Relays, PhaseInv, Permits,
      Guarded, AuthTasks, ConnTasks, vars, loopVars, envVars, tallies
<1> QED
  BY <1>1, <1>2

(* The inductive invariant holds in every reachable state.                 *)
THEOREM Invariance == Spec => []IInv
BY InitIInv, NextIInv, PTL DEF Spec

(* Types, with the admission counts within their limits, for any budget.   *)
THEOREM TypeCorrect == Spec => []TypeOK
<1>1. IInv => TypeOK
  BY DEF IInv
<1> QED
  BY <1>1, Invariance, PTL

(* The admission state counts exactly the live permits: no way a handshake *)
(* can end leaks or double-frees a slot of the budget.                     *)
THEOREM AdmissionIsExact == Spec => []AdmissionExact
<1>1. IInv => AdmissionExact
  BY DEF IInv
<1> QED
  BY <1>1, Invariance, PTL

(* active_connections counts the running connection tasks, and the loop's  *)
(* report agrees with the metrics.                                         *)
THEOREM ConnectionMetricsAreExact == Spec => []ConnectionMetricsExact
<1>1. IInv => ConnectionMetricsExact
  BY DEF IInv
<1> QED
  BY <1>1, Invariance, PTL

(* No relay outlives the task of its connection.                           *)
THEOREM RelaysAreOwned == Spec => []RelaysEndWithTask
<1>1. IInv => RelaysEndWithTask
  BY DEF IInv
<1> QED
  BY <1>1, Invariance, PTL

(* When the loop returns its report, no task, permit, active connection or *)
(* relay is left.                                                          *)
THEOREM ReturnIsClean == Spec => []NothingLeftAtReturn
<1>1. IInv => NothingLeftAtReturn
  <2> SUFFICES ASSUME IInv, loop = "returned_ok"
               PROVE  /\ AuthTasks \cup ConnTasks = {}
                      /\ total = 0
                      /\ metrics.active = 0
                      /\ \A c \in Conns : Relays(c) = {}
    BY DEF NothingLeftAtReturn
  <2>1. AuthTasks = {} /\ ConnTasks = {}
    BY DEF IInv, PhaseInv
  <2>2. Permits = {} /\ Guarded = {}
    BY <2>1 DEF AuthTasks, ConnTasks, Permits, Guarded, InAuthTask
  <2>3. total = 0 /\ metrics.active = 0
    BY <2>2, FS_EmptySet DEF IInv, AdmissionExact, ConnectionMetricsExact
  <2>4. \A c \in Conns : Relays(c) = {}
    BY <2>1 DEF IInv, RelaysEndWithTask, ConnTasks
  <2> QED
    BY <2>1, <2>3, <2>4
<1> QED
  BY <1>1, Invariance, PTL

(* Only the accept arm, on try_admit's error, refuses a connection.        *)
LEMMA RefusedBy ==
  ASSUME StateType, Next, NEW d \in Conns, conn'[d] = "refused",
         conn[d] # "refused"
  PROVE  AcceptArm(d) /\ AcceptArmRefuses(d)
<1> DEFINE Goal == AcceptArm(d) /\ AcceptArmRefuses(d)
<1>0. conn \in [Conns -> ConnStates]
  BY DEF StateType
<1> USE <1>0
<1>1. ASSUME NEW c \in Conns, Arrive(c)
      PROVE  Goal
  BY <1>1 DEF Arrive
<1>2. ASSUME NEW c \in Conns, PeerCloses(c)
      PROVE  Goal
  BY <1>2 DEF PeerCloses
<1>3. ASSUME EndpointCloses
      PROVE  Goal
  BY <1>3 DEF EndpointCloses
<1>4. ASSUME ShutdownRequested
      PROVE  Goal
  BY <1>4 DEF ShutdownRequested
<1>5. ASSUME NEW s \in Streams, NEW r \in RelayResults,
             RelayFinishes(s, r)
      PROVE  Goal
  BY <1>5 DEF RelayFinishes
<1>6. ASSUME NEW c \in Conns, NEW r \in AuthDone \cup {"auth_panicked"},
             authenticate_incoming_connection(c, r)
      PROVE  Goal
  BY SMTT(30), <1>6 DEF authenticate_incoming_connection, AuthDone
<1>7. ASSUME NEW c \in Conns, NEW s \in Streams, AcceptBi(c, s)
      PROVE  Goal
  BY <1>7 DEF AcceptBi
<1>8. ASSUME NEW c \in Conns, NEW s \in Streams,
             NEW o \in {"relay", "before_header", "failed"},
             ReadHeader(c, s, o)
      PROVE  Goal
  BY <1>8 DEF ReadHeader
<1>9. ASSUME ShutdownArm
      PROVE  Goal
  BY <1>9 DEF ShutdownArm
<1>10. ASSUME DrainAuthEnd
      PROVE  Goal
  BY <1>10 DEF DrainAuthEnd
<1>11. ASSUME AcceptArmFatal
      PROVE  Goal
  BY <1>11 DEF AcceptArmFatal
<1>12. ASSUME ElseArm
      PROVE  Goal
  BY <1>12 DEF ElseArm
<1>13. ASSUME accept_incoming_fails
      PROVE  Goal
  BY <1>13 DEF accept_incoming_fails
<1>14. ASSUME NEW c \in Conns, accept_incoming(c)
      PROVE  Goal
  BY <1>14 DEF accept_incoming
<1>15. ASSUME NEW c \in Conns, DrainAuthTask(c)
      PROVE  Goal
  BY SMTT(30), <1>15 DEF DrainAuthTask
<1>16. ASSUME NEW c \in Conns, JoinAuthTask(c)
      PROVE  Goal
  BY SMTT(30), <1>16 DEF JoinAuthTask, JoinAuthOk, JoinAuthRejected, JoinAuthClosed,
      JoinAuthPanicked
<1>17. ASSUME NEW c \in Conns, AcceptArm(c)
      PROVE  Goal
  BY <1>17 DEF AcceptArm, AcceptArmAdmits, AcceptArmRefuses
<1>18. ASSUME NEW c \in Conns, JoinConnTask(c)
      PROVE  Goal
  BY <1>18 DEF JoinConnTask
<1>19. ASSUME NEW c \in Conns, TaskDropped(c)
      PROVE  Goal
  BY <1>19 DEF TaskDropped
<1>20. ASSUME NEW c \in Conns, SeeShutdown(c)
      PROVE  Goal
  BY <1>20 DEF SeeShutdown
<1>21. ASSUME NEW c \in Conns, SeeClosed(c)
      PROVE  Goal
  BY <1>21 DEF SeeClosed
<1>22. ASSUME NEW c \in Conns, DrainTimeout(c)
      PROVE  Goal
  BY <1>22 DEF DrainTimeout
<1>23. ASSUME NEW c \in Conns, ConnTaskEnds(c)
      PROVE  Goal
  BY <1>23 DEF ConnTaskEnds
<1>24. ASSUME NEW c \in Conns, NEW s \in Streams, JoinRelay(c, s)
      PROVE  Goal
  BY <1>24 DEF JoinRelay
<1>25. ASSUME NEW c \in Conns, authentication_timeout(c)
      PROVE  Goal
  BY <1>25 DEF authentication_timeout,
      authenticate_incoming_connection
<1>26. ASSUME NEW s \in Streams, RelayCancelled(s)
      PROVE  Goal
  BY <1>26 DEF RelayCancelled
<1>27. ASSUME UNCHANGED vars
      PROVE  Goal
  BY SMTT(30), <1>27 DEF vars
<1> HIDE DEF Goal
<1>28. Goal
  BY SMTT(30), <1>1, <1>2, <1>3, <1>4, <1>5, <1>6, <1>7, <1>8, <1>9, <1>10, <1>11,
     <1>12, <1>13, <1>14, <1>15, <1>16, <1>17, <1>18, <1>19, <1>20, <1>21, <1>22, <1>23,
     <1>24, <1>25, <1>26, <1>27
  DEF Next, Environment, Loop, ConnTask, Terminated
<1> QED
  BY <1>28 DEF Goal

(* A connection is refused only when its own address holds half of the     *)
(* budget: other addresses can never use it up.                            *)
THEOREM RefusalIsFair == Spec => RefusedOnlyAtOwnLimit
<1> DEFINE A == \A c \in Conns :
                 conn'[c] = "refused" /\ conn[c] # "refused" =>
                   Cardinality({d \in Permits : ip_of[d] = ip_of[c]}) >=
                     MAX_PENDING_AUTHENTICATIONS_PER_IP
<1>1. IInv /\ [Next]_vars => A \/ UNCHANGED vars
  <2> SUFFICES ASSUME IInv, Next, NEW c \in Conns,
                      conn'[c] = "refused", conn[c] # "refused"
               PROVE  Cardinality({d \in Permits : ip_of[d] = ip_of[c]}) >=
                        MAX_PENDING_AUTHENTICATIONS_PER_IP
    BY SMTT(30)
  <2>1. AcceptArm(c) /\ AcceptArmRefuses(c)
    BY RefusedBy DEF IInv, TypeOK
  <2>2. count(ip_of[c]) >= MAX_PENDING_AUTHENTICATIONS_PER_IP
    BY <2>1, AdmissionAssumption
    DEF AcceptArm, AcceptArmRefuses, try_admit_err, saturated,
        has_global_capacity, IInv, TypeOK, AdmissionType
  <2> QED
    BY SMTT(30), <2>2, ServerAssumption DEF IInv, AdmissionExact
<1> QED
  BY <1>1, Invariance, PTL DEF Spec, RefusedOnlyAtOwnLimit

(* The counts of permits and of connections are exact on every path.       *)
THEOREM CountsAreExact == Spec => []CountsExact
BY AdmissionIsExact, ConnectionMetricsAreExact, PTL DEF CountsExact

(* No relay outlives its connection's task, and nothing outlives the loop. *)
THEOREM NothingOutlives == Spec => []NoRelayOutlives
BY RelaysAreOwned, ReturnIsClean, PTL DEF NoRelayOutlives

=============================================================================
