SPECIFICATION Spec
CONSTANTS
  w1 = w1
  w2 = w2
  Watchers = {}
  RxSignals = {}
  RxObservables = {}
  MethodSignals = {3, 4}
  Home <- MCHome
  RxMethod = RxMethod
  None = None
  MaxPatches = 1
  MaxDepth = 2
PROPERTIES DestroyStopsAll
