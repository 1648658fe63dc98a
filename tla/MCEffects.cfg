SPECIFICATION EffectsFairSpec
CONSTANTS
  i1 = i1
  i2 = i2
  i3 = i3
  e1 = e1
  e2 = e2
  e3 = e3
  classA = classA
  classB = classB
  A = A
  Output = Output
  OnInit = OnInit
  ROOT_EFFECTS_INIT = ROOT_EFFECTS_INIT
  INIT_TYPE = INIT_TYPE
  UPDATE_TYPE = UPDATE_TYPE
  Types <- MCTypes
  Throwing = {}
  Features = {}
  RootFeatures = {}
  Preloaded = {}
  Handles <- MCHandles
  Observers = {}
  Listeners <- MCSubscriptions
  Nobody = Nobody
  MaxActions = 5
  Instances <- MCInstances
  Group <- MCGroup
  Effects <- MCEffectSet
  Owner <- MCOwner
  Dispatching = {e1, e3}
  Handled = {e1, e2}
  Finite = {e1}
  WithInit = {i1, i3}
  MaxErrors = 2
  MaxInflight = 1
  Calls <- MCCalls
  None = None
INVARIANTS OneSubscriptionPerEffect NoActionMissed RootEffectsInitLast StoreOutlivesDispatchingEffects
PROPERTIES EveryEffectHears
CHECK_DEADLOCK FALSE
