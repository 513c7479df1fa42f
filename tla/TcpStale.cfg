\* A request behind a session that has left tcpConsumed above 0.
SPECIFICATION Spec
CONSTANTS
  Cap = 3
  Half = 8
  Irs = {1}
  MaxStream = 5
  MaxSeg = 2
  Asks <- MCAsks
  MaxConns = 2
  MaxSent = 0
  AfterSocks = TRUE
INVARIANT StreamExact
CHECK_DEADLOCK FALSE
