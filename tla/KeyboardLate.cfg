\* The first IRQ1 arrives while the poller is reading.
SPECIFICATION Spec
CONSTANTS
  QueueSize = 3
  PollBurst = 2
  Plain <- MCPlain
  Enter <- MCEnter
  Nav <- MCNav
  Machines = {"late"}
  Mouse = {}
  MaxBytes = 2
  MaxRaced = 2
  MaxAux = 0
INVARIANT NoScancodeTwice
CHECK_DEADLOCK FALSE
