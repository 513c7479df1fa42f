\* Every delivery of IRQ1, each with a mouse.
SPECIFICATION FairSpec
CONSTANTS
  QueueSize = 3
  PollBurst = 2
  Plain <- MCPlain
  Enter <- MCEnter
  Nav <- MCNav
  Machines = {"irq", "polled", "late", "unreliable"}
  Mouse = {"irq", "polled", "late", "unreliable"}
  MaxBytes = 4
  MaxRaced = 2
  MaxAux = 1
INVARIANT DriverInv
PROPERTIES ImplementsKeyQueue EveryKeyTaken EveryByteRead
CHECK_DEADLOCK FALSE
