SPECIFICATION RouterFairSpec
CONSTANTS
  router = router
  home = home
  away = away
  Urls = {home, away}
  HomeUrl = home
  RouterKey = router
  Service = service
  Effect = effect
  ReactsTo <- MCReactsTo
  JumpsInFlight = FALSE
  MaxNavigations = 3
  MaxJumps = 1
  Null = Null
  INIT_TYPE = INIT_TYPE
  UPDATE_TYPE = UPDATE_TYPE
  Types <- MCTypes
  Throwing = {}
  Features = {router}
  RootFeatures = {router}
  Preloaded = {}
  Handles <- MCHandles
  Observers = {service}
  Listeners = {effect}
  Nobody = Nobody
  MaxActions = 14
INVARIANTS DocumentedOrder StoreMirrorsRouter FailureCarriesOwnState
PROPERTIES SliceAndUrlConverge
CHECK_DEADLOCK FALSE
