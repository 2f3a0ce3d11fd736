CONSTANTS
  Calls <- OneAbsent
  Symbols = {"a", "b"}
  Timestamps = {1}
  Bars <- OneBar
  MaxRows <- UniverseRows
SPECIFICATION Spec
INVARIANTS
  DeclaredUniverseIsPresent
CHECK_DEADLOCK FALSE
