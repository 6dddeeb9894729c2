SPECIFICATION Spec
CONSTANTS
  c1 = c1
  c2 = c2
  Conns <- MCConns
  Device = Device
  RoleOf <- AllFull
  MaxClients = 2
  QueueMax = 1
  ReplayMax = 2
  Wanted = {0, 3}
  EchoTx = TRUE
  MaxChunks = 2
  MaxRequests = 1
CHECK_DEADLOCK FALSE
SYMMETRY Alike
INVARIANTS
  TypeOK
  SlotsHeldByTheServed
  OutputInOrder
  LiveHasNoHoles
