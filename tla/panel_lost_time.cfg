CONSTANTS
  Calls <- RocCalls
  Symbols = {"a"}
  Timestamps <- LostTimes
  Bars <- OneBar
  MaxRows <- LostTimeRows
SPECIFICATION Spec
INVARIANTS
  AcceptedTimesIncrease
CHECK_DEADLOCK FALSE
