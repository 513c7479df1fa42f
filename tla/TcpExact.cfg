\* Sessions and requests, no request behind a SOCKS5 session.
SPECIFICATION FairSpec
CONSTANTS
  Cap = 3
  Half = 8
  Irs <- MCIrs
  MaxStream = 5
  MaxSeg = 3
  Asks <- MCAsks
  MaxConns = 2
  MaxSent = 1
  AfterSocks = FALSE
INVARIANT TcpInv
PROPERTIES ImplementsByteStream EveryByteArrives
CHECK_DEADLOCK FALSE
