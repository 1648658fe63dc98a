---------------------------- MODULE RouterStore ----------------------------
(***************************************************************************)
(* StoreRouterConnectingService of @ngrx/router-store between the store    *)
(* and the Angular router.  The service turns router events into store     *)
(* actions, and changes of the router slice into navigations; its trigger  *)
(* tells one direction from the other.                                     *)
(*                                                                         *)
(* The router is external code: navigateByUrl emits NavigationStart        *)
(* synchronously, after NavigationCancel of the navigation it supersedes;  *)
(* the later events of a navigation come from tasks of their own.          *)
(***************************************************************************)
EXTENDS Store

CONSTANTS
  Urls,            (* URLs; URLs that differ by a trailing slash are one. *)
  HomeUrl,         (* The URL the router starts on.                       *)
  RouterKey,       (* config.stateKey.                                    *)
  Service,         (* The service, as a subscriber of the state.          *)
  Effect,          (* An application effect that may navigate.            *)
  ReactsTo,        (* Router actions on which the effect navigates.       *)
  JumpsInFlight,   (* The application may change the router slice while a *)
                   (* navigation is under way (e.g. time travel).         *)
  MaxNavigations,  (* Number of navigations. Bounds the model.            *)
  MaxJumps,        (* Number of changes of the slice by the application.  *)
  Null

ROUTER_REQUEST == "request"
ROUTER_NAVIGATION == "navigation"
ROUTER_NAVIGATED == "navigated"
ROUTER_CANCEL == "cancel"
ROUTER_ERROR == "error"
RouterActions == {ROUTER_REQUEST, ROUTER_NAVIGATION, ROUTER_NAVIGATED,
                  ROUTER_CANCEL, ROUTER_ERROR}

(* A payload keeps the URL of its routerState, the version of its          *)
(* storeState and its event's navigation id.  "jump" is an action of the   *)
(* application on which the slice takes the URL.                           *)
Action(type, id, url, store) ==
  [type |-> type, id |-> id, url |-> url, store |-> store]
Jump(url) == Action("jump", 0, url, Null)

(* routerReducer answers with a new slice on three of the five.            *)
Reduced == {ROUTER_NAVIGATION, ROUTER_CANCEL, ROUTER_ERROR, "jump"}

(* A navigation in flight.                                                 *)
Navigations ==
  [id : Nat, url : Urls, stage : {"started", "recognized"}]

ASSUME RouterAssumption ==
  /\ HomeUrl \in Urls /\ Null \notin Urls \cup Navigations \cup {"start"}
  /\ INIT_TYPE \notin Types
  /\ RouterKey \in RootFeatures
  /\ Service \in Observers
  /\ Effect \in Listeners
  /\ ReactsTo \subseteq RouterActions
  /\ JumpsInFlight \in BOOLEAN
  /\ MaxNavigations \in Nat /\ MaxJumps \in Nat
  /\ Handles[RouterKey] = {a \in Types : a.type \in Reduced}

VARIABLES
  late,        (* Configuration: navigationActionTiming is PostActivation.*)
  url,         (* router.url.                                             *)
  navigation,  (* The navigation in flight, or Null.                      *)
  navigations, (* Number of navigations so far: the id of the latest.     *)
  events,      (* Router events being emitted, still to be handled.       *)
  service,     (* The fields of the service.                              *)
  selected,    (* The slice that select(stateKey) emitted last.           *)
  agenda,      (* What the handler of a router event has yet to do.       *)
  (* History variables.                                                   *)
  startedAt    (* startedAt[n]: the store's version when the n-th         *)
               (* navigation started.                                     *)

routerVars == <<late, url, navigation, navigations, events, service, selected,
                agenda, startedAt>>
routerAllVars == <<vars, routerVars>>

RouterSlice == Slice(state, RouterKey)
UrlOf(slice) == IF slice = <<>> THEN Null ELSE log[Last(slice)].url

(* The state that withLatestFrom(store) of the event listener holds: its   *)
(* subscription comes after the one the service's state listener runs on.  *)
LatestStore == IF cur = Service THEN Version - 1 ELSE Version

RouterInit ==
  /\ Init
  /\ late \in BOOLEAN
  /\ url = HomeUrl
  /\ navigation = Null
  /\ navigations = 0
  /\ events = <<>>
  /\ service = [lastEvent |-> Null, routerState |-> Null, storeState |-> Null,
                trigger |-> "NONE", recognized |-> Null]
  /\ selected = <<>>
  /\ agenda = <<>>
  /\ startedAt = <<>>
-----------------------------------------------------------------------------
(* reset().                                                                *)
Reset(s) == [s EXCEPT !.trigger = "NONE", !.storeState = Null,
                      !.routerState = Null]

(* What a handler of router events leaves: the service's fields, the       *)
(* actions to dispatch in order, and whether reset() follows them.         *)
Handler(s, out, reset) == [service |-> s, out |-> out, reset |-> reset]

(* NavigationStart.                                                        *)
OnStart(s, id) ==
  LET t == [s EXCEPT !.lastEvent = "start", !.routerState = url] IN
  IF s.trigger = "STORE"
  THEN Handler(t, <<>>, FALSE)
  ELSE Handler([t EXCEPT !.storeState = LatestStore],
               <<Action(ROUTER_REQUEST, id, url, Null)>>, FALSE)

(* Mutant: the timing of the action is ignored.                            *)
OnRecognizedAlways(s, id, target) ==
  Handler([s EXCEPT !.lastEvent = "recognized", !.recognized = target],
          IF s.trigger # "STORE"
          THEN <<Action(ROUTER_NAVIGATION, id, target, Null)>> ELSE <<>>,
          FALSE)

(* RoutesRecognized.                                                       *)
OnRecognized(s, id, target) ==
  Handler([s EXCEPT !.lastEvent = "recognized", !.recognized = target],
          IF ~late /\ s.trigger # "STORE"
          THEN <<Action(ROUTER_NAVIGATION, id, target, Null)>> ELSE <<>>,
          FALSE)

(* Mutant: a failure carries the URL that was asked for.                   *)
OnFailureTarget(s, type, id) ==
  Handler([s EXCEPT !.lastEvent = type],
          <<Action(type, id, IF s.recognized = Null THEN s.routerState
                             ELSE s.recognized, s.storeState)>>, TRUE)

(* Mutant: a failure carries the store's state of that moment.             *)
OnFailureLatest(s, type, id) ==
  Handler([s EXCEPT !.lastEvent = type],
          <<Action(type, id, s.routerState, LatestStore)>>, TRUE)

(* NavigationCancel and NavigationError.                                   *)
OnFailure(s, type, id) ==
  Handler([s EXCEPT !.lastEvent = type],
          <<Action(type, id, s.routerState, s.storeState)>>, TRUE)

(* NavigationEnd.                                                          *)
OnEnd(s, id) ==
  LET navigated == <<Action(ROUTER_NAVIGATED, id, url, Null)>> IN
  Handler([s EXCEPT !.lastEvent = "end"],
          IF s.trigger = "STORE" THEN <<>>
          ELSE IF late
          THEN <<Action(ROUTER_NAVIGATION, id, s.recognized, Null)>>
                 \o navigated
          ELSE navigated,
          TRUE)

Handle(s, event) ==
  CASE event.kind = "start" -> OnStart(s, event.id)
    [] event.kind = "recognized" -> OnRecognized(s, event.id, event.url)
    [] event.kind \in {ROUTER_CANCEL, ROUTER_ERROR} ->
         OnFailure(s, event.kind, event.id)
    [] event.kind = "end" -> OnEnd(s, event.id)

(* dispatchRouterAction sets the trigger to ROUTER for the time of the     *)
(* dispatch.  Inside a flush the dispatch only queues, so the whole        *)
(* handler runs before any action of its own is reduced.                   *)
Finish(h) ==
  LET released == IF h.out = <<>> THEN h.service
                  ELSE [h.service EXCEPT !.trigger = "NONE"]
  IN IF h.reset THEN Reset(released) ELSE released

(* Outside a flush each dispatch runs the whole flush before it returns.   *)
Steps(h) ==
  [i \in 1 .. 2 * Len(h.out) |->
     IF i % 2 = 1 THEN [do |-> "dispatch", action |-> h.out[(i + 1) \div 2]]
                  ELSE [do |-> "release"]]
    \o (IF h.reset THEN <<[do |-> "reset"]>> ELSE <<>>)

(* Synchronous code outside a flush, and the start of a task.              *)
Idle == ~Flushing /\ cur = Nobody
Task == Idle /\ agenda = <<>> /\ events = <<>>

StoreUnchanged ==
  UNCHANGED <<phase, todo, cur, config, state, signal, subscriptions, status,
              log>>
-----------------------------------------------------------------------------
(* router.navigateByUrl, as the service uses it.                           *)
Emitted(target) ==
  (IF navigation = Null THEN <<>>
   ELSE <<[kind |-> ROUTER_CANCEL, id |-> navigation.id,
           url |-> navigation.url]>>)
    \o <<[kind |-> "start", id |-> navigations + 1, url |-> target]>>

NavigateByUrl(target) ==
  /\ navigations < MaxNavigations
  /\ navigations' = navigations + 1
  /\ navigation' = [id |-> navigations + 1, url |-> target, stage |-> "started"]

(* In a task the events are handled one by one, each with its flushes.     *)
AppNavigates(target) ==
  /\ Task
  /\ ~destroyed /\ Contains(observers, Service)
  /\ target # url
  /\ NavigateByUrl(target)
  /\ events' = Emitted(target)
  /\ UNCHANGED <<vars, late, url, service, selected, agenda, startedAt>>

(* In a callback the service handles them on the spot, its dispatches only *)
(* join the queue.                                                         *)
NavigateInFlush(s, target) ==
  /\ NavigateByUrl(target)
  /\ startedAt' = Append(startedAt, Version)
  /\ LET emitted == Emitted(target)
         first == Handle(s, Head(emitted))
         second == Handle(Finish(first), Last(emitted))
     IN IF Len(emitted) = 1
        THEN /\ service' = Finish(first)
             /\ queue' = queue \o first.out
             /\ dispatched' = dispatched \o first.out
        ELSE /\ service' = Finish(second)
             /\ queue' = queue \o first.out \o second.out
             /\ dispatched' = dispatched \o first.out \o second.out

(* Mutant: the slice is followed only when no navigation was seen to end.  *)
NeededOnce ==
  /\ UrlOf(RouterSlice) # Null
  /\ service.trigger # "ROUTER"
  /\ service.lastEvent \notin {"start", "end"}
  /\ UrlOf(RouterSlice) # url

(* navigateIfNeeded, in the service's callback for a state whose router    *)
(* slice is not the one it saw last.                                       *)
Needed ==
  /\ UrlOf(RouterSlice) # Null
  /\ service.trigger # "ROUTER"
  /\ service.lastEvent # "start"
  /\ UrlOf(RouterSlice) # url

StateListener ==
  /\ cur = Service
  /\ selected # RouterSlice
  /\ selected' = RouterSlice
  /\ IF Needed
     THEN NavigateInFlush([service EXCEPT !.storeState = Version,
                                          !.trigger = "STORE"],
                          UrlOf(RouterSlice))
     ELSE UNCHANGED <<queue, dispatched, navigation, navigations, startedAt,
                     service>>
  /\ StoreUnchanged
  /\ UNCHANGED <<late, url, events, agenda>>

(* The application's effect navigates on a router action it hears, but not *)
(* while the router is still emitting the events of a navigation that      *)
(* superseded another one.                                                 *)
EffectNavigates(target) ==
  /\ cur = Effect
  /\ Last(log) # INIT_TYPE /\ Last(log).type \in ReactsTo
  /\ events = <<>>
  /\ target # url
  /\ NavigateInFlush(service, target)
  /\ StoreUnchanged
  /\ UNCHANGED <<late, url, events, selected, agenda>>
-----------------------------------------------------------------------------
(* The router goes on with a navigation, each time in a task of its own.   *)
Emits(kind) ==
  /\ Task
  /\ navigation # Null
  /\ events' = <<[kind |-> kind, id |-> navigation.id, url |-> navigation.url]>>
  /\ UNCHANGED <<vars, late, navigations, service, selected, agenda, startedAt>>

RouterRecognizes ==
  /\ Emits("recognized")
  /\ navigation.stage = "started"
  /\ navigation' = [navigation EXCEPT !.stage = "recognized"]
  /\ url' = url

RouterEnds ==
  /\ Emits("end")
  /\ navigation.stage = "recognized"
  /\ navigation' = Null
  /\ url' = navigation.url

RouterFails(kind) ==
  /\ Emits(kind)
  /\ navigation' = Null
  /\ url' = url

(* The service handles the next router event outside a flush ...           *)
HandleEvent ==
  /\ Idle
  /\ agenda = <<>>
  /\ events # <<>>
  /\ LET h == Handle(service, Head(events)) IN
       /\ service' = h.service
       /\ agenda' = Steps(h)
  /\ events' = Tail(events)
  /\ startedAt' = IF Head(events).kind = "start" THEN Append(startedAt, Version)
                                                 ELSE startedAt
  /\ UNCHANGED <<vars, late, url, navigation, navigations, selected>>

(* ... and goes through what that calls for, a flush after each dispatch.  *)
HandlerStep ==
  /\ Idle
  /\ agenda # <<>>
  /\ agenda' = Tail(agenda)
  /\ CASE Head(agenda).do = "dispatch" ->
            /\ service' = [service EXCEPT !.trigger = "ROUTER"]
            /\ Next_(Head(agenda).action)
       [] Head(agenda).do = "release" ->
            /\ service' = [service EXCEPT !.trigger = "NONE"]
            /\ UNCHANGED <<queue, dispatched>>
       [] Head(agenda).do = "reset" ->
            /\ service' = Reset(service)
            /\ UNCHANGED <<queue, dispatched>>
  /\ StoreUnchanged
  /\ UNCHANGED <<late, url, navigation, navigations, events, selected,
                 startedAt>>
-----------------------------------------------------------------------------
Jumps == Cardinality({n \in DOMAIN dispatched :
                        /\ dispatched[n] # INIT_TYPE
                        /\ dispatched[n].type = "jump"})

(* The application changes the router slice by an action of its own.       *)
AppJumps(target) ==
  /\ Task
  /\ Contains(observers, Service)
  /\ Jumps < MaxJumps
  /\ navigations < MaxNavigations
  /\ navigation = Null \/ JumpsInFlight
  /\ Dispatch(Jump(target))
  /\ UNCHANGED routerVars

(* The service is constructed: it subscribes to the store and the router.  *)
Construct == Task /\ Subscribe(Service) /\ UNCHANGED routerVars

EffectStarts == Task /\ Listen(Effect) /\ UNCHANGED routerVars

(* The store's flush goes on; a changed slice is for StateListener.        *)
RouterFlush ==
  /\ Flush
  /\ cur = Service => selected = RouterSlice
  /\ UNCHANGED routerVars

RouterSteps == RouterRecognizes \/ RouterEnds

RouterNext ==
  \/ Construct
  \/ EffectStarts
  \/ \E target \in Urls : \/ AppNavigates(target)
                          \/ AppJumps(target)
                          \/ EffectNavigates(target)
  \/ StateListener
  \/ RouterSteps
  \/ \E kind \in {ROUTER_CANCEL, ROUTER_ERROR} : RouterFails(kind)
  \/ HandleEvent
  \/ HandlerStep
  \/ RouterFlush

RouterSpec == RouterInit /\ [][RouterNext]_routerAllVars

(* Synchronous code runs to its end, and the router goes on with a         *)
(* navigation until it ends or fails.                                      *)
RouterFairness ==
  /\ WF_routerAllVars(\/ StateListener \/ RouterFlush
                      \/ HandleEvent \/ HandlerStep)
  /\ WF_routerAllVars(RouterSteps)

RouterFairSpec == RouterSpec /\ RouterFairness
-----------------------------------------------------------------------------
(* The service's own actions; those of one navigation among the first n of *)
(* s, by their types.                                                      *)
Routed(a) == a # INIT_TYPE /\ a.type \in RouterActions

TypesIn(s, n, id) ==
  {s[m].type : m \in {m \in 1 .. n : Routed(s[m]) /\ s[m].id = id}}

(* What a navigation has dispatched before an action of a type, in the     *)
(* orders that actions.md:39 lists; a navigation the store triggered shows *)
(* its failure only.                                                       *)
Before(type) ==
  CASE type = ROUTER_REQUEST -> {{}}
    [] type = ROUTER_NAVIGATION -> {{ROUTER_REQUEST}}
    [] type = ROUTER_NAVIGATED -> {{ROUTER_REQUEST, ROUTER_NAVIGATION}}
    [] OTHER -> {{}, {ROUTER_REQUEST}, {ROUTER_REQUEST, ROUTER_NAVIGATION}}

InOrder(s) ==
  \A n \in DOMAIN s :
    Routed(s[n]) => TypesIn(s, n - 1, s[n].id) \in Before(s[n].type)

(* The actions of each navigation come in a documented order, whatever     *)
(* callback the navigation was started from and whatever superseded it.    *)
DocumentedOrder == InOrder(log)

(* ROUTER_CANCEL and ROUTER_ERROR carry the store state from before their  *)
(* own navigation (actions.md:25 and :31), whatever was reduced since and  *)
(* whichever navigation superseded another; or none, where reset() of an   *)
(* outer handler wiped what the navigation had stored.                     *)
FailureCarriesOwnState ==
  \A n \in DOMAIN log :
    log[n] # INIT_TYPE /\ log[n].type \in {ROUTER_CANCEL, ROUTER_ERROR} =>
      log[n].store \in {Null, startedAt[log[n].id]}

(* The router slice shows another URL than the router.  It shows none      *)
(* before the first router action, and after the failure of a navigation   *)
(* that lost its routerState in the same way.                              *)
Diverged == UrlOf(RouterSlice) \notin {Null, url}

(* Between navigations the router slice shows the router's URL, whoever    *)
(* started the last one and however it ended.                              *)
StoreMirrorsRouter ==
  Task /\ navigation = Null => ~Diverged

(* A change of the slice gets to the router or is taken back.              *)
SliceAndUrlConverge == Diverged ~> ~Diverged
=============================================================================
