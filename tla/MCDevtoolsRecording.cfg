SPECIFICATION Spec
CONSTANTS
  Kinds = {"plain", "blocked"}
  Commands <- Recording
  MaxAge = 3
  Safelist = FALSE
  Broken = FALSE
  MaxActions = 5
  MaxUpdates = 2
  MaxMessages = 4
  Undefined = Undefined
INVARIANTS Transparent
PROPERTIES PastStaysInView ResumeKeepsState MaxAgeKept
CHECK_DEADLOCK FALSE
