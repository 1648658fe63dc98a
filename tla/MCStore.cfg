SPECIFICATION Spec
CONSTANTS
  A = A
  B = B
  Boom = Boom
  root = root
  lazy = lazy
  INIT_TYPE = INIT_TYPE
  UPDATE_TYPE = UPDATE_TYPE
  Types <- MCTypes
  Throwing = {}
  Features <- MCFeatures
  RootFeatures <- MCRootFeatures
  Preloaded = {lazy}
  Handles <- MCHandles
  Observers = {o1}
  Listeners = {l1}
  Nobody = Nobody
  MaxActions = 4
INVARIANTS TypeOK SerialOrder EffectsAfterState GaplessHearing SlicesReplayLog RegisteredFeaturesHaveState
CHECK_DEADLOCK FALSE
