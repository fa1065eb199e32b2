SPECIFICATION Spec
CONSTANTS
  Clients = {c1, c2}
  Requests = {"status"}
  UdpClients = {u1, u2}
  Port <- SamePort
  MAX_TCP_CONNECTIONS = 1
  MAX_UDP_CONNECTIONS = 2
PROPERTY BroadcastsGoToAll
CHECK_DEADLOCK FALSE
