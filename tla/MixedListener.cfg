CONSTANTS
  Clients = {k1, k2}
  Peers = {p1, p2}
  NONE = NONE
  CHANNEL = 2

SPECIFICATION Spec

INVARIANTS
  OnePeerPerAssociation
  ReportAccounts
PROPERTIES
  DrainReturns
