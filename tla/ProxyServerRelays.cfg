SPECIFICATION Spec
CONSTANTS
  a = a
  b = b
  c1 = c1
  c2 = c2
  c3 = c3
  NONE = NONE
  Ips <- MCIps
  Conns = {c1, c3}
  Streams = {s1, s2}
  ip_of <- MCIpOf
  MAX_PENDING_AUTHENTICATIONS = 2
INVARIANTS
  RelayCountsAgree
  
PROPERTIES
  ConnectionsWindDown
