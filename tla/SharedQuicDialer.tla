-------------------------- MODULE SharedQuicDialer --------------------------
(***************************************************************************)
(* The client's shared dialer: one cached, authenticated QUIC connection   *)
(* behind a tokio Mutex, used by every relay task of a forwarder or of the *)
(* mixed listener.  A relay task gets the connection (dialing it under the *)
(* lock when there is none, or a closed one), opens its proxy stream, and  *)
(* on any error of that discards the cache.  A task may be aborted at any  *)
(* await, the one inside the dial included.                                *)
(***************************************************************************)
EXTENDS Naturals, Sequences

CONSTANTS
  Users,      \* relay tasks using the dialer at the same time
  NONE,       \* no connection
  MaxDials    \* bound: connections ever established

ASSUME DialerAssumption == MaxDials \in Nat /\ NONE \notin 1..MaxDials

VARIABLES
  cache,    \* SharedQuicDialer.cache: the cached connection
  queue,    \* holder of the mutex and the tasks waiting for it, in order
  dialed,   \* connections established so far are 1..dialed
  dead,     \* connections whose close_reason() is set
  user,     \* where each relay task is
  held,     \* the connection each relay task got
  given_up  \* history: connections discarded after a failed stream open

vars == <<cache, queue, dialed, dead, user, held, given_up>>

Init ==
  /\ cache = NONE
  /\ queue = <<>>
  /\ dialed = 0
  /\ dead = {}
  /\ user = [u \in Users |-> "idle"]
  /\ held = [u \in Users |-> NONE]
  /\ given_up = {}

Holds(u) == queue # <<>> /\ Head(queue) = u

(* The queue without its i-th task.                                        *)
Vacated(i) == [j \in 1..(Len(queue) - 1) |-> IF j < i THEN queue[j] ELSE queue[j + 1]]

(* The task goes to a state, giving up the lock or its place in the queue. *)
Leave(u, state) ==
  /\ \/ \E i \in 1..Len(queue) : queue[i] = u /\ queue' = Vacated(i)
     \/ (\A i \in 1..Len(queue) : queue[i] # u) /\ UNCHANGED queue
  /\ user' = [user EXCEPT ![u] = state]

(* A local connection is accepted and its task asks for the connection.    *)
Request(u) ==
  /\ user[u] = "idle"
  /\ user' = [user EXCEPT ![u] = "get"]
  /\ queue' = Append(queue, u)
  /\ UNCHANGED <<cache, dialed, dead, held, given_up>>

healthy == cache # NONE /\ cache \notin dead

get_connection_cached(u) ==
  /\ user[u] = "get"
  /\ Holds(u)
  /\ healthy
  /\ Leave(u, "open")
  /\ held' = [held EXCEPT ![u] = cache]
  /\ UNCHANGED <<cache, dialed, dead, given_up>>

get_connection_dials(u) ==
  /\ user[u] = "get"
  /\ Holds(u)
  /\ ~healthy
  /\ cache' = NONE
  /\ user' = [user EXCEPT ![u] = "dial"]
  /\ UNCHANGED <<queue, dialed, dead, held, given_up>>

dial_ok(u) ==
  /\ user[u] = "dial"
  /\ dialed < MaxDials
  /\ dialed' = dialed + 1
  /\ cache' = dialed + 1
  /\ held' = [held EXCEPT ![u] = dialed + 1]
  /\ Leave(u, "open")
  /\ UNCHANGED <<dead, given_up>>

dial_err(u) ==
  /\ user[u] = "dial"
  /\ Leave(u, "over")
  /\ UNCHANGED <<cache, dialed, dead, held, given_up>>

(* open_tcp_proxy_stream on the connection that was returned: it fails     *)
(* when that connection has died, and also when the header cannot be       *)
(* encoded (a domain name that is too long).                               *)
open_ok(u) ==
  /\ user[u] = "open"
  /\ held[u] \notin dead
  /\ user' = [user EXCEPT ![u] = "over"]
  /\ UNCHANGED <<cache, queue, dialed, dead, held, given_up>>

open_err(u) ==
  /\ user[u] = "open"
  /\ user' = [user EXCEPT ![u] = "invalidate"]
  /\ queue' = Append(queue, u)
  /\ UNCHANGED <<cache, dialed, dead, held, given_up>>

\* Slip: the lock is taken but the cache is left as it is.
invalidate_nothing(u) ==
  /\ user[u] = "invalidate"
  /\ Holds(u)
  /\ given_up' = given_up \cup {held[u]}
  /\ Leave(u, "over")
  /\ UNCHANGED <<cache, dialed, dead, held>>

invalidate(u) ==
  /\ user[u] = "invalidate"
  /\ Holds(u)
  /\ cache' = NONE
  /\ given_up' = given_up \cup {held[u]}
  /\ Leave(u, "over")
  /\ UNCHANGED <<dialed, dead, held>>

\* Slip: the lock of a task aborted while it dials is never released.
Abort_keeps_lock(u) ==
  /\ user[u] \in {"get", "dial", "open", "invalidate"}
  /\ user' = [user EXCEPT ![u] = "over"]
  /\ UNCHANGED <<cache, queue, dialed, dead, held, given_up>>

(* The task is aborted at an await; its guard, or its place in the queue,  *)
(* is dropped with it.                                                     *)
Abort(u) ==
  /\ user[u] \in {"get", "dial", "open", "invalidate"}
  /\ Leave(u, "over")
  /\ UNCHANGED <<cache, dialed, dead, held, given_up>>

(* The slot is reused for the next local connection.                       *)
Again(u) ==
  /\ user[u] = "over"
  /\ user' = [user EXCEPT ![u] = "idle"]
  /\ held' = [held EXCEPT ![u] = NONE]
  /\ UNCHANGED <<cache, queue, dialed, dead, given_up>>

(* Idle close, server restart or a migration failure.                      *)
ConnectionDies ==
  \E c \in (1..dialed) \ dead :
    /\ dead' = dead \cup {c}
    /\ UNCHANGED <<cache, queue, dialed, user, held, given_up>>

get_connection(u) ==
  get_connection_cached(u) \/ get_connection_dials(u) \/ dial_ok(u) \/ dial_err(u)

open_tcp_proxy_stream(u) == open_ok(u) \/ open_err(u) \/ invalidate(u)

Next ==
  \/ \E u \in Users : \/ Request(u) \/ Abort(u) \/ Again(u)
                      \/ get_connection(u) \/ open_tcp_proxy_stream(u)
  \/ ConnectionDies

-----------------------------------------------------------------------------
(* Every variable has its type.                                            *)
TypeOK ==
  /\ cache \in 1..dialed \cup {NONE}
  /\ dialed \in 0..MaxDials
  /\ dead \subseteq 1..dialed
  /\ user \in [Users -> {"idle", "get", "dial", "open", "invalidate", "over"}]
  /\ held \in [Users -> 1..dialed \cup {NONE}]
  /\ given_up \subseteq 1..dialed
  /\ queue \in Seq(Users)

(* The lock is only ever held, or waited for, by tasks that still want it, *)
(* each once, and the task that dials holds it: a task that ends, fails or *)
(* is aborted in the middle of a dial has given it up, so a dial never     *)
(* stops the tasks behind it for good.                                     *)
LockOwned ==
  /\ \A i, j \in 1..Len(queue) : queue[i] = queue[j] => i = j
  /\ \A u \in Users :
       user[u] \in {"get", "dial", "invalidate"} <=> \E i \in 1..Len(queue) : queue[i] = u
  /\ \A u \in Users : user[u] = "dial" => Holds(u)

(* "Discards any cached connection so the next get_connection dials        *)
(* afresh": a connection that some task has given up on is never in the    *)
(* cache again, whatever other tasks dialed in between.                    *)
GivenUpNotReused == cache \notin given_up

(* What the tasks that share a dialer rely on: the lock comes free again,  *)
(* and a connection that was given up stays given up.                      *)
DialerSound == LockOwned /\ GivenUpNotReused

=============================================================================
