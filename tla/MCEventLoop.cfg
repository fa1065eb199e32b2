SPECIFICATION Spec
CONSTANTS
  Clients = {c1, c2}
  Requests = {"badAuth", "image"}
  UdpClients = {u1}
  Port <- SamePort
  MAX_TCP_CONNECTIONS = 1
  MAX_UDP_CONNECTIONS = 1
INVARIANTS
  TypeOK
  ListIsSound
  ReadyBitsAreCurrent
  OutageTellsListed
CHECK_DEADLOCK FALSE
