SPECIFICATION FairSpec
CONSTANTS
  c1 = c1
  c2 = c2
  Clients <- TwoClients
  Addresses <- FourAddresses
  MAX_UDP_CONNECTIONS = 2
  MaxAlerts = 1
INVARIANTS
  TypeOK
  AlertsHeardOnce
  HeardAreListed
PROPERTY ExitLetsGo
CHECK_DEADLOCK FALSE
