SPECIFICATION FairSpec
CONSTANTS
  Requests = {r1, r2, r3}
  Conns = {c1, c2}
  Orgs = {o1, o2}
  NoOrg = NoOrg
  NoConn = NoConn
INVARIANTS
  Isolation
PROPERTIES
  ResetBetweenTenants
  EveryRequestEnds
