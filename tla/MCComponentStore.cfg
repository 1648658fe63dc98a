SPECIFICATION Spec
CONSTANTS
  Plain = {p1, p2}
  Debounced = {d}
  Foreign = Foreign
  None = None
  MaxUpdates = 3
  PatchBehindQueue = FALSE
  UpdatesWhenDebounced = FALSE
INVARIANTS SerialUpdates SubscribersAreCurrent
PROPERTIES DebouncedSettles
