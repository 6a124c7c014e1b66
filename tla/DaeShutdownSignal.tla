------------------------- MODULE DaeShutdownSignal -------------------------
(***************************************************************************)
(* The cloneable shutdown signal of the dae adapter: an atomic flag and a  *)
(* tokio Notify.  wait() reads the flag, then creates a Notified future    *)
(* and awaits it, and reads the flag again each time it is woken;          *)
(* request_shutdown() stores the flag, then calls notify_waiters().  The   *)
(* clones run on different threads, so each of these is a step.            *)
(***************************************************************************)
EXTENDS Naturals

CONSTANTS
  Waiters,      \* clones of the signal that call wait()
  Requesters    \* clones of the signal that call request_shutdown(), once each

VARIABLES
  requested,   \* DaeShutdownInner.requested
  waiter,      \* where each wait() call is
  requester    \* where each request_shutdown() call is

vars == <<requested, waiter, requester>>

Init ==
  /\ requested = FALSE
  /\ waiter = [w \in Waiters |-> "idle"]
  /\ requester = [r \in Requesters |-> "idle"]

request_shutdown(r) ==
  /\ requester[r] = "idle"
  /\ requested' = TRUE
  /\ requester' = [requester EXCEPT ![r] = "stored"]
  /\ UNCHANGED waiter

(* tokio: wakes the Notified futures that exist now, and leaves no permit  *)
(* for those created later.                                                *)
notify_waiters(r) ==
  /\ requester[r] = "stored"
  /\ requester' = [requester EXCEPT ![r] = "done"]
  /\ waiter' = [w \in Waiters |-> IF waiter[w] = "notified" THEN "woken"
                                                            ELSE waiter[w]]
  /\ UNCHANGED requested

(* The flag is read at the start of wait(), and again after each wake-up.  *)
is_shutdown_requested(w) ==
  /\ waiter[w] \in {"idle", "woken"}
  /\ waiter' = [waiter EXCEPT ![w] = IF requested THEN "returned" ELSE "unset"]
  /\ UNCHANGED <<requested, requester>>

notified(w) ==
  /\ waiter[w] = "unset"
  /\ waiter' = [waiter EXCEPT ![w] = "notified"]
  /\ UNCHANGED <<requested, requester>>

wait(w) == is_shutdown_requested(w) \/ notified(w)

Next ==
  \/ \E r \in Requesters : request_shutdown(r) \/ notify_waiters(r)
  \/ \E w \in Waiters : wait(w)

(* Threads in wait() and in request_shutdown() keep running; nobody has to *)
(* request a shutdown.                                                     *)
Fairness ==
  /\ \A r \in Requesters : WF_vars(notify_waiters(r))
  /\ \A w \in Waiters : WF_vars(wait(w))

Spec == Init /\ [][Next]_vars /\ Fairness

-----------------------------------------------------------------------------
(* "Waits until shutdown is requested.": once a shutdown has been          *)
(* requested, every call of wait() returns.                                *)
WaitReturns ==
  \A w \in Waiters : requested ~> waiter[w] = "returned"

=============================================================================
