CONSTANTS
  WarmupTol = 20
  ParityTol = 4
  Symbols = {A, B}
  Catalog <- AllFeatures
  KindsOf <- OrdinaryKinds
  MaxOdd <- FewOdd
  MaxBars <- BarsOf
SPECIFICATION Spec
CHECK_DEADLOCK FALSE
INVARIANTS
  TypeOK
  ServedIsBatch
  NullBeforeMinHistory
  NumberFromMinHistory
  NothingImputed
  NeverInfinite
