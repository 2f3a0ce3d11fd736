CONSTANTS
  Symbols = {1, 2}
  Specs <- EveryKind
  Prints <- TwoPrints
  MaxTs = 2
  MaxTicks = 4
SPECIFICATION Spec
INVARIANTS
  TypeOK
  RowsAreTheBatch
  BucketsFollowTime
  BarTimesIncrease
  OnlyLastBarOpen
  ClosedBarFilledItsBand
PROPERTIES
  ClosedBarsAreFinal
  ImplementsBarLog
CHECK_DEADLOCK FALSE
