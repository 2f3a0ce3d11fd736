CONSTANTS
  Calls <- AllCalls
  SnakeCase <- Measures
  Predicates <- Trend
  Iterables <- Lists
  Transforms <- TransformBundles
  MaxRegistries = 2
  MaxAdds = 2
  MaxPins = 1
SPECIFICATION Spec
CHECK_DEADLOCK FALSE
INVARIANTS
  TypeOK
  PinnedStillResolves
  ReadWasPinned
  EditedNeverResolves
  ServedAsPinned
PROPERTIES
  FrozenNeverChanges
