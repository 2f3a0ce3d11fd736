CONSTANTS
  WarmupTol = 20
  ParityTol = 4
  Symbols = {A, B}
  Catalog <- FlatFeatures
  KindsOf <- FlatKinds
  MaxOdd <- FlatOdd
  MaxBars <- Alone
SPECIFICATION Spec
CHECK_DEADLOCK FALSE
INVARIANTS
  ServedIsBatch
