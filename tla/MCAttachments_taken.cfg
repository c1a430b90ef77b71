SPECIFICATION Spec
CONSTANTS
  a = a  b = b  l = l  c1 = c1  c2 = c2  c3 = c3
  NoClient = NoClient
  NoConn = NoConn
  Clients <- TwoClients
  Conns <- TwoConns
  Roles <- WithRoles
  ModelServers <- Serving
  Grace = 1
  TokenLifetime = 2
  TakeInterval = 1
  Viewers = 2
  ViewerSnapshots = 1
  MaxGeneration = 3
CHECK_DEADLOCK FALSE
INVARIANT TakenIsTold
