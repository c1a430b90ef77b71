\* Two clients of this release, one of which serves models, and one of an older
\* release, which sends no role; a slot is free again when its connection ended.
SPECIFICATION FairSpec
CONSTANTS
  a = a  b = b  l = l  c1 = c1  c2 = c2  c3 = c3
  NoClient = NoClient
  NoConn = NoConn
  Clients <- AllClients
  Conns <- TwoConns
  Roles <- WithRoles
  ModelServers <- Serving
  Grace = 1
  TokenLifetime = 2
  TakeInterval = 1
  Viewers = 2
  ViewerSnapshots = 1
  MaxGeneration = 2
CHECK_DEADLOCK FALSE
INVARIANTS ControllerIsShown LeaseIsBacked
PROPERTIES LeaseMovesByRight LeavingEnds
