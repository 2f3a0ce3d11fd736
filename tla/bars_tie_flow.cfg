CONSTANTS
  Symbols = {1, 2}
  Specs <- FlowSpecs
  RawTicks <- FlowTicks
  Modes <- FlowModes
  Lost <- FlowLost
  MaxTicks <- FlowMax
SPECIFICATION Spec
INVARIANTS
  TieOrderKeepsFlow
CHECK_DEADLOCK FALSE
