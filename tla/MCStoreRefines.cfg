SPECIFICATION Spec
CONSTANTS
  A = A
  B = B
  Boom = Boom
  root = root
  lazy = lazy
  INIT_TYPE = INIT_TYPE
  UPDATE_TYPE = UPDATE_TYPE
  Types <- MCTypesBoom
  Throwing = {Boom}
  Features = {}
  RootFeatures = {}
  Preloaded = {}
  Handles <- MCHandlesNone
  Observers = {o1, o2}
  Listeners = {l1, l2}
  Nobody = Nobody
  MaxActions = 5
SYMMETRY Alike
INVARIANTS GaplessViews CallbackDiscipline
PROPERTIES ImplementsAbstractStore
CHECK_DEADLOCK FALSE
