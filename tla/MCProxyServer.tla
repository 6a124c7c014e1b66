--------------------------- MODULE MCProxyServer ---------------------------
(***************************************************************************)
(* Instances of the server loop.  With a budget of two (one per address),  *)
(* connections c1 and c2 from one address and c3 from another meet both    *)
(* the per-address and the global limit.                                   *)
(***************************************************************************)
EXTENDS ProxyServer

CONSTANTS a, b, c1, c2, c3

MCIps   == {a, b}
MCIpOf  == [c \in Conns |-> IF c = c3 THEN b ELSE a]

=============================================================================
