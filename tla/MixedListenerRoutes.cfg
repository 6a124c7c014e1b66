CONSTANTS
  Clients = {k1, k2}
  Peers = {p1}
  NONE = NONE
  CHANNEL = 1

SPECIFICATION Spec

INVARIANT RoutesAreSticky
