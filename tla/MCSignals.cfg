SPECIFICATION Spec
CONSTANTS
  w1 = w1
  w2 = w2
  Watchers = {w1, w2}
  RxSignals = {1}
  RxObservables = {2}
  MethodSignals = {3}
  Home <- MCHome
  RxMethod = RxMethod
  None = None
  MaxPatches = 2
  MaxDepth = 2
INVARIANTS WatchersAreCurrent RxLeavesNothing
PROPERTIES LatestIsProcessed
