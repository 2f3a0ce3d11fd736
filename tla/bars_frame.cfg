CONSTANTS
  Symbols = {1, 2}
  Specs <- AllSpecs
  RawTicks <- TicksOf
  Modes <- ModesOf
  Lost <- LostOf
  MaxTicks <- MaxTicksOf
SPECIFICATION Spec
INVARIANTS
  TypeOK
  TradesAreConserved
  TieOrderKeepsBars
  LatePrintRewritesOnlySuffix
  BuiltBarsMeetTheContract
PROPERTIES
  ValidatedBuildsAppendOnly
CHECK_DEADLOCK FALSE
