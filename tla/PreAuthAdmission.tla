-------------------------- MODULE PreAuthAdmission --------------------------
(***************************************************************************)
(* The server's pre-authentication admission control: a counter of all     *)
(* handshakes in progress and a map from client address to the handshakes  *)
(* in progress from it, both behind one mutex.  A permit is taken when an  *)
(* incoming connection is handed to an authentication task, and its Drop   *)
(* gives both counts back.                                                 *)
(***************************************************************************)
EXTENDS Naturals, FiniteSets

CONSTANTS
  Ips,                          \* client addresses
  MAX_PENDING_AUTHENTICATIONS   \* 128 in the code

ASSUME AdmissionAssumption == MAX_PENDING_AUTHENTICATIONS \in Nat

VARIABLES
  total,    \* PreAuthAdmissionState.total
  per_ip    \* PreAuthAdmissionState.per_ip: absent means no permit

admissionVars == <<total, per_ip>>

MAX_PENDING_AUTHENTICATIONS_PER_IP == MAX_PENDING_AUTHENTICATIONS \div 2

admission_init ==
  /\ total = 0
  /\ per_ip = [ip \in {} |-> 0]

has_global_capacity == total < MAX_PENDING_AUTHENTICATIONS

count(ip) == IF ip \in DOMAIN per_ip THEN per_ip[ip] ELSE 0

\* Slip: all handshakes are held to the limit of one address.
saturated_by_all(ip) == total >= MAX_PENDING_AUTHENTICATIONS_PER_IP

saturated(ip) ==
  \/ total >= MAX_PENDING_AUTHENTICATIONS
  \/ count(ip) >= MAX_PENDING_AUTHENTICATIONS_PER_IP

saturating_dec(n) == IF n = 0 THEN 0 ELSE n - 1

try_admit_ok(ip) ==
  /\ ~saturated(ip)
  /\ total' = total + 1
  /\ per_ip' = [i \in DOMAIN per_ip \cup {ip} |->
                  IF i = ip THEN count(ip) + 1 ELSE per_ip[i]]

try_admit_err(ip) ==
  /\ saturated(ip)
  /\ UNCHANGED admissionVars

permit_drop(ip) ==
  LET left == saturating_dec(count(ip))
      kept == IF left = 0 THEN DOMAIN per_ip \ {ip} ELSE DOMAIN per_ip
  IN  /\ total' = saturating_dec(total)
      /\ per_ip' = [i \in kept |-> IF i = ip THEN left ELSE per_ip[i]]

(* The counts stay within their limits, and no address is kept in the map  *)
(* with a count of zero.                                                   *)
AdmissionType ==
  /\ total \in 0..MAX_PENDING_AUTHENTICATIONS
  /\ DOMAIN per_ip \subseteq Ips
  /\ per_ip \in [DOMAIN per_ip -> 1..MAX_PENDING_AUTHENTICATIONS_PER_IP]

=============================================================================
