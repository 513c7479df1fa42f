\* A line entered while the DHCP report is due.
SPECIFICATION ShellSpec
CONSTANTS
  Servers = {"s1"}
  Silent = {}
  Timeout = 1
  MaxStarts <- MCMaxStarts
  StaticAllowed = FALSE
  QueueCap = 4
  MaxLine = 4
  MaxKeys = 4
INVARIANT EnteredLinesRun
CHECK_DEADLOCK FALSE
