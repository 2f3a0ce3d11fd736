CONSTANTS
  Functions <- Shipped
  Names <- Called
  Imports <- BothWays
  Key <- NameOrder
  Builders <- TwoPasses
  Constants = {"SCALE"}
  Values = {1, 2}
  Bodies <- ShippedBodies
  Bindings <- ShippedBindings
  Libraries <- ShippedLibraries
  MaxEdits = 2
SPECIFICATION FairSpec
INVARIANTS
  TypeOK
  FormulaIsCovered
  EqualPinsEqualFormula
  UnchangedKeepsItsPin
PROPERTIES
  BindingEnds
  ImplementsPinLog
