SPECIFICATION ESpec
CONSTANTS
  Calls = {c1, c2}
  Targets <- AllTargets
  Servers <- AllServers
  MaxBytes = 2
  Conns = {k1, k2}
  Ips = {ip}
  MaxOpened = 2
  MAX_PENDING_AUTHENTICATIONS = 2
  Users = {u1, u2, u3}
  Loop = u1
  NONE = NONE
  Peers = {p1, p2}
  MaxDials = 2
  MaxStreams = 3
  BClients = {1, 2}
  BRequests = 2
  READY_ATTEMPTS = 3
  WARMUP_WAVES = 2
  MaxWaves = 4
INVARIANTS
  DaeCounts
  LoopsAccount
  DialerSound
  
  BenchmarkTruthful
PROPERTIES
  FailsOnlyAfterRedial
  StoppedLoopsReturn
CHECK_DEADLOCK FALSE
