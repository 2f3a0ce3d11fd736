CONSTANTS
  Calls <- PanelCalls
  Symbols = {"a", "b"}
  Timestamps = {1, 2}
  Bars <- PanelBars
  MaxRows <- PanelRows
SPECIFICATION Spec
INVARIANTS
  TypeOK
  GateIsTheContract
  AuditAgrees
  ModesNest
  ValuesArePointInTime
  NoWarmupNullSurvives
PROPERTIES
  StrictValuesAreFinal
CHECK_DEADLOCK FALSE
