# A formal model of NgRx

NgRx is a set of libraries for reactive state in Angular applications. This
directory holds TLA+ specifications of its stateful parts, TLC configurations
that check them on small instances, and proofs that the TLA+ proof system checks for
every value of the constants: of the store's safety properties and its refinement of
a serial store, and of those of the effects, the router connection, the devtools'
lifted reducer, the data collections, signal watchers, `rxMethod` and `ComponentStore`.

All of NgRx runs on one JavaScript thread. What makes it hard is not parallelism
but re-entrancy: a subscriber's callback may dispatch, subscribe, unsubscribe,
navigate or destroy while a notification is under way, and asynchronous work
(effects, the router, a devtools panel) comes back in tasks of its own, in an
order nobody chose. The models therefore have one step per piece of code that
runs without giving control to somebody else's code, and application code may
do anything its API allows wherever it has control.

## The system

Paths below are relative to `src/modules/`.

| component | state it keeps | operations | how it interacts |
|---|---|---|---|
| **store**: `ActionsSubject`, `ReducerManager`, `State`, `ScannedActionsSubject`, `Store` (`store/src`) | the queue of RxJS's `queueScheduler`, the reducers by feature key, the state object, its subscribers and those of the scanned actions | `dispatch`, `addFeatures`, `removeFeatures`, subscribe and unsubscribe, `error`, `ngOnDestroy` | every other package dispatches to it and listens to it |
| **selectors** (`store/src/selector.ts`) | one memoized result each | call, `release`, `setResult` | read the store's state |
| **effects** (`effects/src`) | the runner's subscription, one inner subscription per group of instances, retries left per effect | `provideEffects`, `addEffects`, resubscribing on errors, the initialization hooks | subscribe to the scanned actions, dispatch to the store, report to `store.error` |
| **router-store** (`router-store/src`) | `trigger`, `lastEvent`, `routerState`, `storeState` and the router slice | listeners to router events and to the slice | navigates when the slice changes, dispatches when the router moves |
| **store-devtools** (`store-devtools/src`) | the lifted state: staged and skipped actions, computed states, committed state, pointer, lock, pause | eleven lifted actions, filters, `maxAge` | takes the place of `State`; a panel in a browser extension sends messages |
| **entity** (`entity/src`, `signals/entities`) | ids and entities of a collection | add, set, update, upsert, map, remove, sorted or not | pure; called in reducers and in `patchState` |
| **data** (`data/src`) | collections with a change state per entity | optimistic and pessimistic saves, queries with merge strategies, undo, cancel | effects that call a server |
| **component-store** (`component-store/src`) | a `ReplaySubject` of the state behind the shared `queueScheduler` | `setState`, `patchState`, updaters, `select` with debouncing, effects | lives and dies with a component |
| **component** (`component/src`) | the render event of the last observable | `LetDirective`, `PushPipe` | Angular's change detection |
| **signals** (`signals/src`, `signals/rxjs-interop`) | a state signal and its watchers, the effects of its methods | `patchState`, `watchState`, `signalMethod`, `rxMethod`, hooks | Angular's signals, effects and injectors |
| **operators**, **data-persistence** | none | RxJS compositions | used in effects |
| **schematics, eslint-plugin** | none | code generation | build time |

### What is hard, and what makes each part correct

- *store*: actions are reduced one at a time, in dispatch order, however deeply
  nested the dispatch; every subscriber sees every state once; the state goes out
  before the action does; a new root reducer overtakes the actions already queued;
  a reducer that throws, an error or a destruction comes in the middle of all that.
- *effects*: an effect that fails subscribes again inside the callback that
  failed; an instance may be added twice, or again after the first one completed;
  an effect that does not dispatch and runs out of retries takes the store down.
- *router-store*: one field, `trigger`, tells navigations that come from the store
  from those that come from the router, around dispatches that sometimes run a
  whole flush and sometimes only queue. Store and router must end up agreeing.
- *store-devtools*: each message recomputes as little as it can get away with; the
  pointer, the filters, `maxAge`, errors and pausing all shift the same arrays.
- *data*: requests run side by side and come back in any order, late, refused,
  canceled or not at all, into a collection that was changed optimistically and goes
  on being changed. No unsaved change may get lost from the tracker, undoing must lead
  back to what the server has, and every caller must hear.
- *entity*: three implementations of one interface, each with an order to keep: a
  sorted merge that reuses the old array where it can, keys that change.
- *component-store*: updates wait in a queue that all stores share; selectors may be
  debounced to the next microtask. Updates must build on each other, and subscribers
  end with the latest state.
- *signals*: watchers are called on the spot and may patch, watch, destroy or throw;
  effects run later and belong to injectors that come and go.

`PROJECT.json` has the full list of components and, under `hazards`, each place in
the code that is hard to test, with the properties that cover it.

## Modules

```
AbstractStore            what the store promises: a serial store
   ^ implements
Store                    the store itself
   ^ EXTENDS             StoreProofs             (theorems)
Effects                  EffectsProofs           (theorems; uses StoreProofs)
RouterStore              RouterStoreProofs       (theorems)
Devtools                 the lifted reducer, which replaces State
   ^ EXTENDS             DevtoolsProofs          (theorems)
Entity                   the entity adapters and signals/entities, side by side
Data                     a collection of @ngrx/data, its tracker and its requests
                         (relies on what Entity shows of the adapter)
   ^ EXTENDS             DataProofs              (theorems)
Signals                  a state source, its watchers, rxMethod and signalMethod
   ^ EXTENDS             SignalsProofs           (theorems)
ComponentStore           a ComponentStore on the shared queueScheduler
   ^ EXTENDS             ComponentStoreProofs    (theorems)
FoldTheorems             induction over numbers and folds over sequences, for
                         SignalsProofs, ComponentStoreProofs and DevtoolsProofs
MC*.tla, MC*.cfg         instances of the above
```

### Store

`queue`, `phase`, `todo` and `cur` are the control state of a flush.
`queueScheduler` holds the actions (`queue`); `State`'s subscriber reduces the head
(`Scan`), calls `next` on the state (`phase = "state"`) and then on the
`ScannedActionsSubject` (`phase = "scanned"`). RxJS's `Subject.next` iterates over
a copy of its list of observers: `todo` is what is left of that copy, `cur` the
subscriber whose callback is running. A subscriber that unsubscribed since the
copy was made is skipped (`SkipClosed`); one that subscribed since is not in the
copy but was shown the current state on subscribing.

Application code has control when `UserCode` holds: between flushes, and inside
a callback. It may then take any step of `Application`. `Dispatch` during a flush
only appends, because `queueScheduler` is already flushing. `AddFeatures` puts the
new root reducer in force at once and queues an update action, as
`ReducerManager.updateReducers` does with its two subjects. `Error` reaches `State`
behind the queue (`ErrorNotification`); `ReducerThrows` closes `State`'s
subscription and drops the queue; `Destroy` runs every `ngOnDestroy`.

A slice is the sequence of positions in `log` of the actions its reducer answered.
That is the finest reducer there is: two different histories give two different
slices, and a type that is not in `Handles[k]` gives the same slice back, which is
what `combineReducers` compares by reference. `HasChanged` and `Combination` are
its loop, with the consequence that a removed feature's slice stays until some
other slice changes.

Reducer factories and meta-reducers are part of the reducer; selectors and
`distinctUntilChanged` in `Store.select` filter what a subscriber is shown and are
not in this module. Nor are the TypeErrors of `ActionsSubject.next` on what is no action,
which come before anything has changed.

### AbstractStore

Actions are submitted, applied in that order, shown to the watchers, told to the
audience; the next one is applied when all that is done. No queue, no callbacks, no
phases. `Store` implements it under the refinement mapping at the end of
`Store.tla` (`submitted <- dispatched`, `applied <- log`, `shown <- seen`, ...).
`dispatched`, `log`, `seen` and `heard` are history variables that no action of the
store reads, except that the version is `Len(log)` and that `seen[o] = <<>>` tells a
subscription that was never made.

### Effects

Extends `Store`: the scanned actions' subscribers (`Listeners`) are the
effects' subscriptions `<<e, n>>`, number *n* of effect *e*, because
`defaultEffectsErrorHandler` subscribes to the pipe again after each error. A group
is what `groupBy` makes of an instance: its prototype and identifier.
`active[g]` is the instance that the group's `exhaustMap` runs, `started[g]` its
`take(1)` for the init hook, `open` the runner's subscription. The initializer of
`provideEffects` is synchronous but dispatches as it goes, so it is a list of things
to do (`boot`) with a flush after each.

An effect's code is: it hears an action (`cur`) or a job it started comes back
(`inflight`), and then it emits, starts a job, throws or completes.
An error is retried up to `MaxErrors` times; after that a
dispatching effect ends alone, as its notifications are materialized, and a
`{ dispatch: false }` effect ends the runner and fails the store.

### RouterStore

Extends `Store`: `Service` is the `StoreRouterConnectingService` as a
subscriber of the state, `Effect` an application effect that may navigate when it
hears a router action. Each handler of a router event is an operator (`OnStart`,
`OnRecognized`, `OnFailure`, `OnEnd`) giving the service's new fields, the actions to
dispatch and whether `reset()` follows. The same handler runs in two ways, and this
difference is the point of the module:

- outside a flush, each `dispatch` runs a whole flush before it returns, so the
  handler is a list of steps (`agenda`) with flushes between them, and an effect that
  navigates meanwhile interleaves with the rest of the handler;
- inside a flush (a navigation started in a callback) the dispatches only queue and the
  whole handler is one step (`NavigateInFlush`).

The application's effect does not navigate while the router is still emitting the events
of a navigation that superseded another one (`events = <<>>` in `EffectNavigates`): what
the router makes of a third navigation there is its own affair.

The Angular router is external: `navigateByUrl` emits NavigationCancel of the
navigation it supersedes and NavigationStart at once; the rest of a navigation comes
in later tasks. URLs that differ by a trailing slash are one URL, as in
`isSameUrl`. `late` is `navigationActionTiming` and is left open.

### Devtools

With the devtools provided, `State` is replaced by a scan of *lifted* actions; the
module is that scan's reducer. `lifted` has the fields of `LiftedState` and the
operators carry the source's names. The application's reducer appends the action's
number, so a state *is* the list of the actions that made it. `Undefined` stands for
JavaScript's `undefined` and, as the result of the reducer, for a TypeError,
which ends the scan (`alive`).

Messages of the panel are chosen from the history it was shown last (`Requests`) and
arrive later (`Ask`, `Arrives`), after other actions perhaps. One is under way at a time;
of several, the later ones would be chosen from an older history still. `UPDATE` is queued
and may find other things before it. `accepted` is a history variable: what the latest
state ought to show.

### Entity

The unsorted adapter, the sorted adapter and the updaters of `signals/entities`
perform every operation together, and a plain dictionary performs what the operation
is meant to do to the entities. The operators carry the names of the source's
functions (`takeNewKey`, `merge`, `takeUpdatedModel`, `EntitiesOnly` for
`DidMutate.EntitiesOnly`). JavaScript's stable sort is `SortModels`. An update may
move an entity to a free id. Inputs are batches that name an id once; the hazards say
what the code does with others.

### Data

`collection` holds entities, `changeState` and `loading`; `requests` what has been sent.
A reducer's operation and the effect that follows it are one step, as nothing comes
between them but subscribers. A request is sent, then answered, refused or timed out
(`Fails`, whose error is reduced after a delay), skipped (the delete of an entity that
was never saved, also after a delay) or canceled, whereupon the server's answer still
comes and must find nobody. Operations of `EntityEffects` (`SaveOne`, `Query`) and change
sets of `EntityCacheEffects` (`SaveEntities`) differ in what their success does, and
the model keeps that: `changed` responses, skipped updates, content that is missing.

`known` is a history variable: what the client was last told of every entity, by the
server or by an application that commits or loads. The properties relate it to the
collection and the tracker.

The application waits for the saves of an entity before it touches it again (`Busy`), and
keeps its saves and its reloads apart: while a QUERY_LOAD, or a QUERY_ALL, is on its way it
saves nothing, and while a save is it does not reload (`MaySave`, `MayReload`). The code
asks for neither. The server is free: it answers, in any order, whatever was sent.
Five constants let the application, or the server, do otherwise; no run sets them but the
one that shows a disagreement:

| constant | lets | and then |
|---|---|---|
| `MergeAll = "PreserveChanges"` | QUERY_ALL merge with the default strategy | undo brings back stale values (`MCDataPreserve`) |
| `NoContent` | a server answer 204 to an optimistic change set | the caller hears nothing; the changes stay tracked as unsaved |
| `LostAnswers` | a query return an entity whose save was canceled but got through | it stays tracked as added, undo removes it |
| `Overlap` | an application save an entity again before the first save ends | the first answer ends the tracking of the second save |
| `LoadsAndSaves` | an application save while a reload is on its way, or reload while a save is | the reload's answer ends the tracking of what was saved and puts back what the server had: answered without a change, an added entity is on the server and not in the cache |

### Signals

All of it runs on one call stack, which is the variable `stack`: frames of
`notifyWatchers` with the watchers still to call, and of code that processes an input.
Whatever code is on top may patch, watch, destroy an injector or a method, return, or
throw, which unwinds to the task or to the pipe of the `rxMethod`. `owned` are the
watchers that `watchState` has returned a `destroy` for. Angular marks effects dirty
and runs them when the stack is empty. The array of effects in `signalMethod` is
`effectRefs`, with `splice` and `forEach` as JavaScript defines them.

### ComponentStore

`queue` and `flushing` are the `queueScheduler`, `ForeignTask` another store's task on
it, inside which calls of this store only queue. A state is the sequence of the updates
that made it, so that a lost or reordered one shows. `debounceSync` is its two
variables, `actionValue` and whether there is an `actionSubscription` (`scheduled`); its
action runs when the stack is empty (`RunAsap`) and resets the subscription afterwards
(`AsapReturn`). `PatchBehindQueue` and `UpdatesWhenDebounced` admit the two things that
the code does not get right; see "Disagreements".

## What is checked

| run | expects | distinct states |
|---|---|---|
| `MCStore` | pass | 509 000 |
| `MCStoreRefines` | pass | 739 000, up to symmetry |
| `MCEffects` | pass | 181 000 |
| `MCRouterStore` | pass | 304 000 |
| `MCDevtoolsTravel` | pass | 595 000 |
| `MCDevtoolsRecording` | pass | 627 000 |
| `MCEntity` | pass | 1 500 |
| `MCData` | pass | 87 000 |
| `MCDataPreserve` | violation | |
| `MCSignals` | pass | 146 000 |
| `MCSignalMethod` | violation | |
| `MCComponentStore` | pass | 83 000 |

**MCStore**: one state subscriber, one listener, a root feature that handles one type
and a lazy one that handles both and has a preloaded slice, four actions including the
initial one. Actions are serial (`SerialOrder`), hearing is gapless, effects run after
the state is out, slices are the handled part of the log, registered features get a
state. Four actions give: the initial one, one being reduced, one or two dispatched in its
callbacks; or a feature registered, removed, and an action that only it handles. That
one feature handles what the other does not matters: otherwise every change would be
the other's too.

**MCStoreRefines**: five actions, two state subscribers and two listeners, so that one
can act while another waits in the snapshot, and so that several actions wait in the
queue at once; a type on which the reducer throws. No features, as no property of this
run looks at slices. Shows `GaplessViews`, `CallbackDiscipline` and that every step of
the store is a step of `AbstractStore` or a stutter. The subscribers of a kind are
symmetric: no action or property names one, and the run has no liveness property.

**MCEffects**: three instances, two of which (`i1`, `i3`) are one group, with an
effect that dispatches and may complete, one that does not dispatch, and one without
error handler. One call provides two instances, another the third. Two retries where
the code has ten: the limit is a counter compared in one place, and two reaches first,
last and exhausted. One job per effect: a second one would come back as the first does.

**MCRouterStore**: both timings, two URLs, three navigations (one
superseded, one superseding, one after them), one change of the slice by
the application, an effect that may navigate on any of four router actions. The
application changes the slice only while no navigation is under way: see the hazards
for what the code does otherwise. A failure carries the store state from before its own
navigation, or none (`FailureCarriesOwnState`); the second is a disagreement.

**MCDevtoolsTravel**: every message except pausing, with a reducer that throws on
"bad" until a hot reload mends it; two actions, one reload, three
messages. Computed states are at every moment those of a full replay
(`HistoryReplays`): that is the one property behind all the partial recomputations.

**MCDevtoolsRecording**: locking, pausing, blocked actions, jumps and `maxAge` 3, with
five actions, so that the history is trimmed and trimmed again. Nothing of that may
change what the actions did (`Transparent`) or let the history grow (`MaxAgeKept`). A view
of the past moves only with the committed state (`PastStaysInView`): where the pointer is
at 0 and `maxAge` commits the action after it, the application is shown what that action
had made; at any other entry nothing changes, however much is committed. Resuming shows
the state that was in view and records on from it (`ResumeKeepsState`), unless a jump came
late: to an entry that an update has trimmed away since, where resuming is a TypeError.

**MCEntity**: three ids, two sort keys, batches of two. Nothing bounds the length of a
run: the 1 500 states are all the collections there are, each with every operation
tried on it (270 000 steps). Two entities with equal keys and one that is moved past
them is what the merge can get wrong, and three ids have that; a batch of two is the
shortest whose order matters.

**MCData**: two entities, two requests at a time, two values of which the application
gives one, so that what the server made of a save can be told from what was sent. No
bound on the length of a run. Two requests race each other and the operations of the
cache; a third would race either as the second does.

**MCDataPreserve**: the same with queries merged by `PreserveChanges`.

**MCSignals**: two watchers, one `rxMethod` with a signal and an observable, one
`signalMethod`, two injectors, two patches and calls inside calls to depth two: a
watcher that patches inside the notification of a patch is the case that matters, and a
deeper one repeats it.

**MCSignalMethod**: two signals given to one `signalMethod`, then destroyed.

**MCComponentStore**: two plain subscribers and a debounced one, three updates: one
applied, one waiting and one called in a callback.

Bounds: `MaxActions`, `MaxErrors`, `MaxInflight`, `MaxNavigations`, `MaxJumps`,
`MaxUpdates`, `MaxMessages`, `MaxPatches`, `MaxDepth`, `MaxBatch` and the number of
`Slots` bound the models by guards and nothing else does. `CHECK_DEADLOCK FALSE` is set
for the runs of the store, the effects, the router and the devtools, whose inputs are
numbered: when they are used up, nothing more has to happen.

### Fairness

- `WF(Flush)`: a flush is a synchronous loop; JavaScript runs it to its end. It
  includes that a callback returns. Nothing is assumed about application code
  beyond that; it need not do anything.
- `WF(AddEffects \/ DispatchEffectsInit)`: the rest of a synchronous initializer.
- `WF(HandleEvent \/ HandlerStep \/ StateListener \/ ...)`: the rest of a synchronous
  handler of a router event.
- `WF(RouterSteps)`: the router goes on with a navigation it started. Cancelling
  and failing are not fair: they may happen or not.
- `WF(Expires(r))` in `Data`: a request that the server does not answer fails, by the
  timeout of the data service where the application configures one and otherwise when the
  browser gives up (without a configured timeout the property rests on the browser alone),
  and the delays of errors and skipped answers are timers. The server itself is not fair.
- `SF` of returning, for each depth of the call stack, and of running a dirty effect, in
  `Signals`: calls return or throw however much they call first, and Angular gets to
  its effects although other tasks keep coming. Strong, because a step of other code
  disables these for as long as it runs.
- `WF(Proceed)` and `SF(RunAsap)` in `ComponentStore`: the flush is a synchronous loop,
  and microtasks run although other tasks keep coming.

### Disagreements between code and documentation

Two have a run of their own, whose only property states what the documentation or a
comment says.

1. `MCDataPreserve`. Merging with `PreserveChanges` is documented to overwrite the
   `originalValue` of each changed entity. It does for the first of a batch only.
   `UndoRestoresLastKnown` is violated: undoing another one restores a stale value.
2. `MCSignalMethod`. Destroying a `signalMethod` stops all its instances, says its test.
   Each effect's cleanup removes the effect from the array that `destroy` goes through,
   so every second effect is skipped.

The others show when the named constant or command is set in the cfg of the run:

3. `ROUTER_CANCEL` and `ROUTER_ERROR` are documented to carry the store state from
   before the navigation. When an effect navigates on `ROUTER_CANCEL` or
   `ROUTER_NAVIGATED`, NavigationStart of the new navigation stores that state and then
   the outer handler's `reset()` wipes it. The new navigation's failure carries `null`, and
   no router state. `FailureCarriesOwnState` admits this; without its `Null` it fails in
   `MCRouterStore`.
4. `RESET` while recording is paused clears the computed states and then, because it is
   paused, copies the last one of them: `undefined`. The application has no state until
   recording resumes, which fails. (`MCDevtoolsTravel` with `PAUSE_RECORDING` and `RESET`:
   `AppHasState`.)
5. With `actionsSafelist` the devtools' own entries, for a pause or an update, are filtered
   out while the pointer stays on them. Resuming or committing then reads the state of an
   entry that is not there: a TypeError ends the scan, and the application with it.
   (`MCDevtoolsTravel` with `Safelist = TRUE`, and with `PAUSE_RECORDING` for the first:
   `AppHasState`.)
6. The history is trimmed when its length *equals* `maxAge`, and not beyond an entry with
   an error. An error lets it grow; once the erroneous action is toggled off, the length is
   past `maxAge` for good. (`MCDevtoolsRecording` with "bad" actions, `Broken = TRUE` and
   `TOGGLE_ACTION`: `MaxAgeKept`.)
7. A debounced selector is documented to emit once the state has settled. A state that its
   subscriber itself sets is kept back until the next change, because
   `actionSubscription` is reset after the subscriber was called.
   (`UpdatesWhenDebounced = TRUE`: `DebouncedSettles`.)
8. `patchState` with a function reads the state at the call and overwrites what was queued
   before it. (`PatchBehindQueue = TRUE`: `SerialUpdates`.)
9. The dispatcher promises that a change set's observable terminates. After an
   optimistic save and an answer without content it does not. (`NoContent = TRUE`:
   `EveryCallerAnswered`.)
10. The unsorted adapter takes a new id 0 for none. (0 in `Ids`: `IdsMatchEntities`.)

## What is proved

`StoreProofs.tla` proves, from `StoreAssumption` alone (the constants have the types
their names say; observers and listeners are disjoint), for any number of types,
features, subscribers and actions:

| theorem | says |
|---|---|
| `TypeCorrect` | `Spec => []TypeOK` |
| `ActionsAreSerial` | `Spec => []SerialOrder` |
| `CallbacksKeepDiscipline` | `Spec => []CallbackDiscipline` |
| `ViewsAreGapless`, `HearingIsGapless` | `Spec => []GaplessViews`, `[]GaplessHearing` |
| `EffectsRunAfterState` | `Spec => []EffectsAfterState` |
| `SlicesReplay` | `Spec => []SlicesReplayLog` |
| `RegisteredFeaturesGetState` | `Spec => []RegisteredFeaturesHaveState` |
| `StoreImplementsAbstractStore` | `Spec => ImplementsAbstractStore` |

The argument:

- `TypeOK` is inductive: it includes that nothing is in progress when `phase` is
  `"idle"`.
- `QueueInvariant` adds to the serial order that a dead store's queue is empty. Without
  that a step of a dead store could reduce an action out of turn.
- `ViewInvariant` is the conjunction of the callback discipline, gapless views, gapless
  hearing and effects-after-state. None of them is inductive alone: that `NotifyObserver`
  leaves no gap rests on the snapshot having no repetitions, that the next `Scan` leaves
  nobody behind rests on the snapshot being used up, and that an effect runs after
  every subscriber of the state rests on who is still in the snapshot. The lemmas on
  sequences (`AppendSubscriber`, `RemoveSubscriber`, `NextSubscriber`, `ShowNext`) say
  what subscribing, leaving and being called do to lists without repetitions.
- `SliceInvariant` adds to `SlicesReplayLog` that a registered feature without a slice
  was registered at the current version: it cannot have missed an action, because
  `combineReducers` counts a missing slice as a change.
- `RegistrationInvariant` says that while the store lives, a registered feature without
  a slice has an action in the queue that will give it one, or the store is about to
  fail; and that a living store which accepts nothing more is about to fail.
- The refinement is proved action by action, `InitRefines` to `StepRefines`, under
  `TypeOK` and `ViewInvariant`: `Scan` is `Apply` only because nobody is behind then.

Of the other components:

| theorem | says | assumes |
|---|---|---|
| `OneSubscription`, `NothingMissed` (`EffectsProofs`) | `EffectsSpec => []OneSubscriptionPerEffect`, `[]NoActionMissed` | `EffectsAssumption`, `StoreAssumption` |
| `InitComesLast`, `StoreOutlives` (`EffectsProofs`) | `EffectsSpec => []RootEffectsInitLast`, `[]StoreOutlivesDispatchingEffects` | the same |
| `FailuresCarryOwnState` (`RouterStoreProofs`) | `RouterSpec => []FailureCarriesOwnState` | `~JumpsInFlight` |
| `ActionsInDocumentedOrder` (`RouterStoreProofs`) | `RouterSpec => []DocumentedOrder` | `~JumpsInFlight`, and the initial action is none of the router's |
| `SliceMirrorsUrl` (`RouterStoreProofs`) | `RouterSpec => []StoreMirrorsRouter` | `~JumpsInFlight`, no reducer throws, the payloads are actions of the store |
| `UndoTheorem`, `UntrackedTheorem`, `SavesCanBeUndoneTheorem` (`DataProofs`) | `Spec => []UndoRestoresLastKnown`, `[]UntrackedIsLastKnown`, `[]SavesCanBeUndone` | `Prudent` |
| `LoadingTheorem` (`DataProofs`) | `Spec => []LoadingMeansPending` | nothing but `DataAssumption` |
| `ReplayTheorem`, `ImportTheorem` (`DevtoolsProofs`) | `Spec => []HistoryReplays`, `ImportRestores` | `Recorded` |
| `AppStateTheorem`, `CommitTheorem` (`DevtoolsProofs`) | `Spec => []AppHasState`, `CommitKeepsState` | `Recorded`, `MaxAge = 0` |
| `TransparentTheorem`, `MaxAgeTheorem`, `ResumeTheorem` (`DevtoolsProofs`) | `Spec => []Transparent`, `MaxAgeKept`, `ResumeKeepsState` | `Recording` |
| `PastTheorem` (`DevtoolsProofs`) | `Spec => PastStaysInView` | `Recorded \/ Recording` |
| `RxIsClean`, `WatchersStayCurrent` (`SignalsProofs`) | `Spec => []RxLeavesNothing`, `[]WatchersAreCurrent` | `SignalsAssumption` |
| `SubscribersStayCurrent` (`ComponentStoreProofs`) | `Spec => []SubscribersAreCurrent` | `ComponentStoreAssumption` |
| `UpdatesAreSerial` (`ComponentStoreProofs`) | `Spec => []SerialUpdates` | `~PatchBehindQueue` |

The assumptions beyond those on the constants' types are the ones the runs make too, and
each stands where the code does not keep the property without it: see the hazards and
the disagreements above.

- **Effects.** `EffectsInvariant` is one invariant for the four properties, as none is
  inductive without the others. Beyond the types it says: an instance is active only
  under an open subscription of the runner, the runner is open only in a store that was
  not destroyed, and a store that accepts nothing more although nobody destroyed it has a
  `{ dispatch: false }` effect to blame (`RunnerInvariant`); the listeners of the scanned
  actions are exactly the current subscriptions of the live effects, each once
  (`SubscriptionInvariant`); while an action is given out, a live effect has heard it or its
  subscription is still in the snapshot, since it may subscribe anew only after it heard
  the action that made it fail (`HeardInvariant`); and until `ROOT_EFFECTS_INIT` is
  dispatched, it is last in the initializer's list, with every instance of the call before
  it in the list or added (`BootInvariant`). That the number of effects is finite is part
  of `EffectsAssumption`. The store's own invariants come
  from `StoreProofs`.
- **Router, control.** `RouterInvariant` says which handler is at work inside which flush.
  Its heart is `AgendaInvariant`: while a handler has something left to do, a flush under
  way is its own (`trigger = "ROUTER"`) or one in which a navigation has started; with no
  handler at work, what is being reduced is none of the router's actions, so that the
  effect cannot navigate. `EventsInvariant` lists the events that may be emitted at a
  time and ties the recorded states to the number of navigations, `NavigationInvariant`
  says that the state the service keeps is that of the latest navigation it has heard of.
  A failure's payload, queued, reduced or on the agenda, carries its own navigation's
  state by type (`Own`), which is `FailuresCarryOwnState`.
- **Router, mirroring.** `WholeInvariant` adds what the slice *will* show once all that is
  queued or on the agenda is reduced (`MirrorInvariant`): the URL of the router, or, where
  the store asked for a navigation, that navigation's URL; that inside a flush all that
  waits leads back to the router's URL (`OrderInvariant`); and that the service has seen
  the slice or is still to be called in the `next` under way (`ViewInvariant`), without
  which it would miss the change it must follow. A reducer that throws ends the store and
  leaves the slice where it was, so `Throwing = {}`. `Payloads \subseteq Types` says that
  the store's actions include those of the router; the run's `Types` has all that occur
  within its bounds.
- **Router, order.** `OrdersInvariant` extends the order of `log` to what is queued and to
  what a handler has yet to dispatch. It needs to know what each navigation has
  dispatched so far: nothing for those to come, for the one in flight what its stage and
  the timing call for (nothing when the store triggered it), and for a handler
  interrupted by a flush of its own, that only the end of an older navigation is left to
  come. The property is stated over the set of types that precede each action, as
  `TypesIn` and `Before`, which needs no sequence of a navigation's own.
- **Data.** `DataInv` relates the collection, the history variable `known` (what the server
  is known to have) and the requests: an untracked entity is what is known of it, a
  tracked one keeps what is known as its original value (`Consistent`); saves under way
  are about different entities, and each finds the entities that its success takes for
  granted (`RequestsInv`). Every operation of the tracker and of the adapter is shown to
  change its own entities only (`Same`), and one that may meet a save's entities to leave
  what that save relies on (`Guards`). `Prudent` is the setting of `MCData`:
  queries overwrite (`MCDataPreserve` shows what happens otherwise), change sets are
  answered with content, an answer whose effect the server kept is not lost, no two
  saves of one entity overlap, and reloads and saves are kept apart. The last is an
  assumption about what the application sends; that no reload's *answer* meets a save in
  flight is an invariant of its own (`Apart`), kept by every step and proved together with
  `DataInv`. The `loading` flag needs none of this.
- **Devtools, replaying.** `Recorded` is the setting of `MCDevtoolsTravel` with any
  `maxAge`, any commands but pausing, and actions that throw: nothing is filtered and
  nothing is left unrecorded. (With filters or pauses the computed states are not those of
  a replay, and are not meant to be.) A replay is a recursion over the staged actions.
  `EntryReplays` says instead of each entry how it follows from the one before it; two
  histories with the same actions whose entries all follow are equal (`ReplayedIs`
  and what it rests on, by induction with `FoldTheorems`), so each handler may be shown to
  keep the relation, position by position: entries before the first one that a command
  affects stay, the others are computed. `HistoryInvariant` has it for the current history
  and for the exported one. It holds with one exception, which is why it
  is not simply `HistoryReplays`: while an update is queued, a history with an error may
  still hold what the old reducer made of it. Without an error the mended reducer makes the
  same of it, which is also why an import of such a history restores what it showed.
- **Devtools, the application's state.** `ViewInvariant` says that the pointer is in the
  history, that the exported one's is in that, and that the one message under way, which
  was chosen from an older history, still names an action that is there
  (`MessageInRange`). That takes `MaxAge = 0`: with `maxAge` an action may be committed
  before a message that toggles it arrives, and toggling it is a TypeError. See the
  hazards. `CommitTheorem` says that a `COMMIT` keeps the state in view: it could fail
  only where the pointer has left the history, so that no run asks it beside
  `AppHasState`.
- **Devtools, recording.** `Recording` is the setting of `MCDevtoolsRecording` with any
  `maxAge`, any blocklist and the jumps to an action: no safelist (disagreement 5), no
  action that throws (disagreement 6), and a monitor that locks, pauses and jumps. Here the
  history cannot be compared with a replay. `Shown` says instead that it is complete,
  has no error, skips and keeps nothing that is filtered, and ends with the
  state that the actions accepted have made; a filter then is the identity on what is
  recorded (`FilterKeeps`), and a recomputation on what it finds. `Within` admits the entry
  that stands for a pause on top of `maxAge`; it goes when recording resumes. `PauseOK`
  says that a pause under way is asked of a history that is not paused and reversely, as
  the monitor shows one button. The invariant leaves the pointer out, and so covers a
  failure: where the history is full, an update trims the history between a jump to its
  last entry and the jump's arrival, and resuming there is a TypeError that ends the scan.
  `ResumeDefined` says that it fails there and nowhere else, and `ResumeShown` that what it
  leaves shows the state that was in view: hence `ResumeTheorem`, to the letter of
  `ResumeKeepsState`. `RecordPast` and `PerformPast` follow a view of the past through
  `commitExcessActions`: the pointer moves with the entries unless it is at 0.
- **rxMethod.** `RxInv` adds the type of `instances` to `RxLeavesNothing`. `StagesKept`
  disposes of all that brings nothing to life; `StartKeeps` is the case in which something
  does, and there `rxOpen` decides; `CloseRxCloses` is why nothing survives.
- **Watchers.** `CurrentInv` adds to `WatchersAreCurrent` the types of the list and of the
  call stack. A patch puts everybody into the snapshot of a new frame; who is called
  leaves it and is current (`CalledKeeps`); a frame is taken off when its snapshot is used
  up, or by a throw, which counts the others as missed. That a destroyed watcher leaves
  the list, which the model writes as a fold (`Without`), is where `FoldTheorems` comes in.
- **ComponentStore.** `SubscriberInv` adds to `SubscribersAreCurrent` that nobody is
  subscribed after the destruction: an `initState` that was waiting then sets
  `isInitialized` and calls nobody. `RunTask` makes everybody wait, `NotifyNext` takes the
  first from the list and makes it current (`CalledFirst`), and the replay makes who
  subscribes current. `SerialInv` says that folding the queue over the present state
  gives all the calls since the state was set; `FoldTheorems` proves what that takes
  about `FoldLeft`: its value on an appended and on a shortened sequence.
- **FoldTheorems.** The library's induction theorems take an operator, which the provers
  cannot instantiate. For a *set* of numbers induction follows from the well-foundedness of
  `<` (`LeastNumber`, `Induction`), and with sets in the place of predicates the recursion
  equations of the community modules' folds can be proved once and cited.

Only model-checked:

- the liveness properties (`EveryEffectHears`, `SliceAndUrlConverge`,
  `EveryCallerAnswered`, `LatestIsProcessed`, `DebouncedSettles`): liveness under fairness
  is out of the prover's reach;
- the invariants of `Entity`. The adapters are functions of a whole collection: sorts,
  merges and batches that `Entity.tla` writes as recursions and folds over sequences whose
  order is the property. Nothing happens between two operations, and the run goes
  through every collection of its ids with every operation, so that a proof would be about
  the algorithms for more ids only.

## What is not modelled

- `createSelector`'s memoization, `MockStore`, runtime checks, action and reducer
  creators, serializers: pure or for tests and development, without a state machine.
- The wiring of dependency injection: it calls the operations modelled here, in the order
  of the injectors. `EffectsModule` makes the same calls as `provideEffects`.
- `ngrxOnRunEffects`, with which an application replaces the merged stream of a class.
- What the devtools' extension is told, and the timing of its connection.
- The snapshot's contents and the error handler of `navigateByUrl`.
- In `Data`: primary keys that the server changes, several collections, the strategies of
  saves other than the default, the `loaded` flag, guards (an add that the server answers
  without data makes one throw inside the reducer, which leaves `loading` set), URLs and
  HTTP options, the facades of the collection services.
- In `Signals`: the composition of a SignalStore's features, which is over when the store
  is created; `deepSignal` and `signalState`, projections of the state; an observable that
  emits inside `subscribe()`, before the `rxMethod` has its subscription
  (`rx-method.ts:61`). If what it starts there destroys the `rxMethod`, the new instance
  goes only when line 62 adds it to what is already closed.
- In `ComponentStore`: the `shareReplay` of a selector that several subscribe to, who then
  share a connection, and of whom a late one is first shown what the selector emitted last
  (each subscriber of the model has a selector of its own); observables given to updaters,
  `effect()` (a `Subject` with a `takeUntil`), `selectSignal`, combinations of selectors
  and the lifecycle hooks.
- `LetDirective`, `PushPipe`, the operators and data-persistence: compositions of RxJS
  operators with the state of one subscription.
- Schematics, migrations, lint rules and the documentation site, which are most of the
  repository's lines: generated or executed at build time, with no state to model.

## Plan

Done: `AbstractStore`, `Store`, `Effects`, `RouterStore`, `Devtools`, `Entity`, `Data`,
`Signals`, `ComponentStore` and their runs; the proofs of `StoreProofs`, `EffectsProofs`,
`RouterStoreProofs`, `DevtoolsProofs`, `DataProofs`, `SignalsProofs`,
`ComponentStoreProofs` and `FoldTheorems`.

1. Proofs for `Entity`: `IdsMatchEntities` and `ImplementationsAgree` of the unsorted
   adapter and of the updaters first, then the merge.
2. `AppHasState` with `maxAge`, for the commands that name no action; the shared selectors
   of `ComponentStore`.
3. `RenderEvents`: the events of a switching observable in `component`.
4. The `act` operator of `effects` and the operators of data-persistence.
