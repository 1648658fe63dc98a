SPECIFICATION Spec
CONSTANTS
  Kinds = {"plain", "bad"}
  Commands <- Travel
  MaxAge = 0
  Safelist = FALSE
  Broken = TRUE
  MaxActions = 2
  MaxUpdates = 1
  MaxMessages = 3
  Undefined = Undefined
INVARIANTS AppHasState HistoryReplays
PROPERTIES ImportRestores
CHECK_DEADLOCK FALSE
