SPECIFICATION Spec
CONSTANTS
  a = a
  b = b
  c1 = c1
  c2 = c2
  c3 = c3
  Ips <- MCIps
  MAX_PENDING_AUTHENTICATIONS = 2
  Conns = {c1}
  Streams = {s1, s2}
  ip_of <- MCIpOf
  NONE = NONE
INVARIANT EveryStreamServed
