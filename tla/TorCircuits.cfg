\* All tor and proxy commands, in any order.
SPECIFICATION Spec
CONSTANTS
  Relays = {a, b, c}
  None = None
  NoKey = NoKey
  MaxData = 2
  DomainLens <- MCDomainLens
SYMMETRY RelaySymmetry
INVARIANTS CellsReadWhole HopsInStep HopsVerified NothingOpenAtPrompt RolesDiffer
  PhaseTellsStop OnlyThroughTunnel
CHECK_DEADLOCK FALSE
