\* Two servers, three exchanges, ifconfig in between.
SPECIFICATION DhcpFairSpec
CONSTANTS
  Servers <- MCServers
  Silent <- MCSilent
  Timeout = 2
  MaxStarts = 3
  StaticAllowed = TRUE
INVARIANTS AddressGranted DoneMeansConfigured GatewayOfThisExchange
PROPERTY ExchangeEnds
CHECK_DEADLOCK FALSE
