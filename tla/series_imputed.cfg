CONSTANTS
  WarmupTol = 20
  ParityTol = 4
  Symbols = {A, B}
  Catalog <- ImputedFeatures
  KindsOf <- ImputedKinds
  MaxOdd <- ImputedOdd
  MaxBars <- Alone
SPECIFICATION Spec
CHECK_DEADLOCK FALSE
INVARIANTS
  NothingImputed
