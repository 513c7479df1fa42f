\* Typing, commands and a DHCP exchange interleaved; the queue and the line fill up.
SPECIFICATION ShellFairSpec
CONSTANTS
  Servers = {"s1"}
  Silent = {}
  Timeout = 1
  MaxStarts <- MCMaxStarts
  StaticAllowed = FALSE
  QueueCap = 3
  MaxLine = 2
  MaxKeys = 5
INVARIANT LinesInOrder
PROPERTIES EveryLineRuns OutcomeReported
CHECK_DEADLOCK FALSE
