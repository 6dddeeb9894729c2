SPECIFICATION Spec
CONSTANTS
  c1 = c1
  c2 = c2
  Conns <- MCConns
  Device = Device
  RoleOf <- OneReadOnly
  MaxClients = 1
  QueueMax = 1
  ReplayMax = 2
  Wanted = {0, 1}
  EchoTx = TRUE
  MaxChunks = 1
  MaxRequests = 1
CHECK_DEADLOCK FALSE
PROPERTIES
  DroppedIsReleased
  DeviceNeverStalls
