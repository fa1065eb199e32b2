SPECIFICATION FairSpec
CONSTANTS
  Clients = {c1, c2}
  Requests = {"image"}
  UdpClients = {}
  Port <- SamePort
  MAX_TCP_CONNECTIONS = 1
  MAX_UDP_CONNECTIONS = 1
PROPERTIES
  OutageStops
  LeaversAreReaped
  SigintStops
CHECK_DEADLOCK FALSE
