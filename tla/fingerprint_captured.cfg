CONSTANTS
  Functions <- Shipped
  Names <- Called
  Imports <- BothWays
  Key <- NameOrder
  Builders <- TwoPasses
  Constants = {"SCALE"}
  Values = {1, 2}
  Bodies <- LeafBodies
  Bindings <- Weighted
  Libraries <- LeafLibrary
  MaxEdits = 1
SPECIFICATION Spec
INVARIANTS
  RetunedConstantShows
