------------------------------- MODULE Store -------------------------------
(***************************************************************************)
(* The core of @ngrx/store: ActionsSubject, ReducerManager, State,         *)
(* ScannedActionsSubject and the Store facade, on one JavaScript thread.   *)
(*                                                                         *)
(* A dispatched action goes to the ActionsSubject, is put on RxJS's        *)
(* queueScheduler (first in, first out; a dispatch made while the queue is *)
(* being flushed only appends), is reduced by the root reducer that is     *)
(* current when its turn comes, and the new state is shown to the state's  *)
(* subscribers before the action is shown to the subscribers of the        *)
(* ScannedActionsSubject, the effects among them.                          *)
(*                                                                         *)
(* The interleavings are those of synchronous callbacks: application code  *)
(* has control between flushes and inside each subscriber's callback, and  *)
(* may there dispatch, subscribe, unsubscribe, register or remove features,*)
(* fail the store or destroy it.                                           *)
(***************************************************************************)
EXTENDS Naturals, Sequences, SequencesExt

CONSTANTS
  Types,         (* Action types the application dispatches.              *)
  Throwing,      (* Types on which the root reducer throws.               *)
  INIT_TYPE,     (* '@ngrx/store/init'.                                   *)
  UPDATE_TYPE,   (* '@ngrx/store/update-reducers'.                        *)
  Features,      (* Feature keys.                                         *)
  RootFeatures,  (* Keys registered with the root reducer map.            *)
  Preloaded,     (* Keys of the configured initial state.                 *)
  Handles,       (* Handles[k]: the types on which k's reducer answers    *)
                 (* with a new slice; on the others it returns its slice. *)
  Observers,     (* Subscribers of the state.                             *)
  Listeners,     (* Subscribers of the scanned actions.                   *)
  Nobody,        (* Not a subscriber.                                     *)
  MaxActions     (* Number of actions ever dispatched. Bounds the model.  *)

Actions == Types \cup {INIT_TYPE, UPDATE_TYPE}

ASSUME StoreAssumption ==
  /\ Throwing \subseteq Types
  /\ RootFeatures \subseteq Features
  /\ Preloaded \subseteq Features
  /\ Handles \in [Features -> SUBSET Actions]
  /\ Nobody \notin Observers \cup Listeners
  /\ Observers \cap Listeners = {}
  /\ MaxActions \in Nat \ {0}

VARIABLES
  queue,      (* Actions scheduled on the queueScheduler, oldest first.   *)
  phase,      (* "idle", or the subject whose next() is running: "state"  *)
              (* or "scanned".                                            *)
  todo,       (* The running next()'s snapshot: subscribers still to call.*)
  cur,        (* The subscriber whose callback is running, or Nobody.     *)
  reducers,   (* The registered feature keys.                             *)
  state,      (* Slice of each key present in the state object: the       *)
              (* positions in log of the actions its reducer handled.     *)
  signal,     (* The version State.state (the signal) shows.              *)
  observers,  (* Current subscribers of the state, oldest first.          *)
  listeners,  (* Current subscribers of the scanned actions.              *)
  accepting,  (* The ActionsSubject is neither errored nor completed.     *)
  failing,    (* An error notification is scheduled behind the queue.     *)
  alive,      (* State's own subscription is open.                        *)
  destroyed,  (* The injector is gone: every subject has completed.       *)
  (* History variables.                                                   *)
  dispatched, (* Every action the ActionsSubject accepted.                *)
  log,        (* Every action reduced; Len(log) is the state's version.   *)
  seen,       (* seen[o]: the versions observer o was shown.              *)
  heard,      (* heard[l]: the positions in log of what listener l heard. *)
  since       (* since[k]: the version when k was last registered.        *)

flow == <<queue, phase, todo, cur>>
config == <<reducers, since>>
subscriptions == <<observers, listeners, seen, heard>>
status == <<accepting, failing, alive, destroyed>>
vars == <<queue, phase, todo, cur, reducers, state, signal, observers,
          listeners, accepting, failing, alive, destroyed, dispatched, log,
          seen, heard, since>>

Version == Len(log)

(***************************************************************************)
(* The root reducer: combineReducers over the registered keys.             *)
(***************************************************************************)
Undefined == <<>>  \* a slice starts from its reducer's initial state
Slice(s, k) == IF k \in DOMAIN s THEN s[k] ELSE Undefined

Reduce(k, slice, action) ==
  IF action \in Handles[k] THEN Append(slice, Version + 1) ELSE slice

(* Mutants: only the root's reducers count as changes; a missing slice is  *)
(* not a change.                                                           *)
RootHasChanged(s, action) ==
  \E k \in reducers \cap RootFeatures : \/ k \notin DOMAIN s
                                       \/ Reduce(k, s[k], action) # s[k]
SliceHasChanged(s, action) ==
  \E k \in reducers \cap DOMAIN s : Reduce(k, s[k], action) # s[k]

HasChanged(s, action) ==
  \E k \in reducers : \/ k \notin DOMAIN s
                      \/ Reduce(k, s[k], action) # s[k]

Combination(s, action) ==
  IF HasChanged(s, action)
  THEN [k \in reducers |-> Reduce(k, Slice(s, k), action)]
  ELSE s
-----------------------------------------------------------------------------
(* State's constructor subscribes to the ActionsSubject, whose seed is the *)
(* INIT_TYPE action, before anything else can subscribe.                   *)
Init ==
  /\ queue = <<INIT_TYPE>>
  /\ phase = "idle"
  /\ todo = <<>>
  /\ cur = Nobody
  /\ reducers = RootFeatures
  /\ state = [k \in Preloaded |-> Undefined]
  /\ signal = 0
  /\ observers = <<>>
  /\ listeners = <<>>
  /\ accepting = TRUE
  /\ failing = FALSE
  /\ alive = TRUE
  /\ destroyed = FALSE
  /\ dispatched = <<INIT_TYPE>>
  /\ log = <<>>
  /\ seen = [o \in Observers |-> <<>>]
  /\ heard = [l \in Listeners |-> <<>>]
  /\ since = [k \in Features |-> 0]

(* Application code has control inside a callback, or when nothing is      *)
(* being flushed.                                                          *)
Flushing == phase # "idle" \/ (alive /\ (queue # <<>> \/ failing))
UserCode == cur # Nobody \/ ~Flushing

(* Mutants: an action goes ahead of those that wait; an action dispatched  *)
(* during a flush gets lost.                                               *)
NextJumpsQueue(action) ==
  /\ queue' = IF accepting /\ alive THEN <<action>> \o queue ELSE queue
  /\ dispatched' = IF accepting /\ alive THEN Append(dispatched, action)
                                         ELSE dispatched
NextIgnoresReentrant(action) ==
  /\ queue' = IF accepting /\ alive /\ phase = "idle"
              THEN Append(queue, action) ELSE queue
  /\ dispatched' = IF accepting /\ alive THEN Append(dispatched, action)
                                         ELSE dispatched

(* ActionsSubject.next: observeOn(queueScheduler) appends to the queue. A  *)
(* stopped subject ignores the action; without State's subscription        *)
(* nothing is scheduled. What is no action, on which next throws before    *)
(* anything else happens, is not dispatched.                               *)
Next_(action) ==
  /\ queue' = IF accepting /\ alive THEN Append(queue, action) ELSE queue
  /\ dispatched' = IF accepting /\ alive THEN Append(dispatched, action)
                                         ELSE dispatched

CanDispatch == UserCode /\ Len(dispatched) < MaxActions

Dispatch(action) ==
  /\ CanDispatch
  /\ Next_(action)
  /\ UNCHANGED <<phase, todo, cur, config, state, signal, subscriptions,
                 status, log>>

(* ReducerManager.addReducers: the new root reducer is in force at once,   *)
(* ahead of the actions already queued; the UPDATE_TYPE action queues up.  *)
AddFeatures(keys) ==
  /\ CanDispatch
  /\ reducers' = reducers \cup keys
  /\ since' = [k \in Features |-> IF k \in keys \ reducers THEN Version
                                  ELSE since[k]]
  /\ Next_(UPDATE_TYPE)
  /\ UNCHANGED <<phase, todo, cur, state, signal, subscriptions, status, log>>

RemoveFeatures(keys) ==
  /\ CanDispatch
  /\ reducers' = reducers \ keys
  /\ Next_(UPDATE_TYPE)
  /\ UNCHANGED <<phase, todo, cur, since, state, signal, subscriptions,
                 status, log>>

(* Mutant: next() goes through the live list of subscribers.               *)
SubscribeLive(o) ==
  /\ UserCode
  /\ ~destroyed
  /\ ~Contains(observers, o)
  /\ seen[o] = <<>>
  /\ observers' = Append(observers, o)
  /\ seen' = [seen EXCEPT ![o] = <<Version>>]
  /\ todo' = IF phase = "state" THEN Append(todo, o) ELSE todo
  /\ UNCHANGED <<queue, phase, cur, config, state, signal, listeners, heard,
                 status, dispatched, log>>

(* A new subscriber of the state is shown the current version at once; it  *)
(* is not in the snapshot of a next() that is under way.  A subscriber     *)
(* stands for one subscription: one that left does not come back.          *)
Subscribe(o) ==
  /\ UserCode
  /\ ~destroyed
  /\ ~Contains(observers, o)
  /\ seen[o] = <<>>
  /\ observers' = Append(observers, o)
  /\ seen' = [seen EXCEPT ![o] = <<Version>>]
  /\ UNCHANGED <<flow, config, state, signal, listeners, heard, status,
                 dispatched, log>>

Listen(l) ==
  /\ UserCode
  /\ ~destroyed
  /\ ~Contains(listeners, l) /\ ~Contains(todo, l)
  /\ heard[l] = <<>>
  /\ listeners' = Append(listeners, l)
  /\ UNCHANGED <<flow, config, state, signal, observers, seen, heard, status,
                 dispatched, log>>

(* The subject drops the subscriber from its list.  The snapshot of a      *)
(* next() that is under way keeps it, closed.                              *)
Unsubscribe(o) ==
  /\ UserCode
  /\ \E i \in DOMAIN observers : /\ observers[i] = o
                                /\ observers' = RemoveAt(observers, i)
  /\ UNCHANGED <<flow, config, state, signal, listeners, seen, heard, status,
                 dispatched, log>>

Unlisten(l) ==
  /\ UserCode
  /\ \E i \in DOMAIN listeners : /\ listeners[i] = l
                                /\ listeners' = RemoveAt(listeners, i)
  /\ UNCHANGED <<flow, config, state, signal, observers, seen, heard, status,
                 dispatched, log>>

(* Store.error: the ActionsSubject stops; the notification reaches State   *)
(* behind the actions already queued.                                      *)
Error ==
  /\ UserCode
  /\ accepting
  /\ accepting' = FALSE
  /\ failing' = alive
  /\ UNCHANGED <<flow, config, state, signal, subscriptions, alive,
                 destroyed, dispatched, log>>

(* The environment injector is destroyed: every ngOnDestroy runs, State    *)
(* unsubscribes from the queue, the subjects complete their subscribers.   *)
Destroy ==
  /\ UserCode
  /\ accepting' = FALSE
  /\ failing' = FALSE
  /\ alive' = FALSE
  /\ destroyed' = TRUE
  /\ queue' = <<>>
  /\ observers' = <<>>
  /\ listeners' = <<>>
  /\ UNCHANGED <<phase, todo, cur, config, state, signal, seen, heard,
                 dispatched, log>>
-----------------------------------------------------------------------------
(* Mutant: a nested dispatch is reduced inside the callback.               *)
RunnableNested == queue # <<>>

(* The scheduler takes up an action when the one before is through.        *)
Runnable == phase = "idle" /\ queue # <<>>

(* Mutant: next() is left before its snapshot is exhausted.                *)
CalledSome == cur = Nobody

(* A next() is over when its snapshot was called and the last callback     *)
(* has returned.                                                           *)
CalledAll == cur = Nobody /\ todo = <<>>

(* One queued action is reduced. State's signal is the first subscriber of *)
(* the state, and setting it runs no application code.                     *)
Scan ==
  /\ Runnable
  /\ Head(queue) \notin Throwing
  /\ queue' = Tail(queue)
  /\ log' = Append(log, Head(queue))
  /\ state' = Combination(state, Head(queue))
  /\ signal' = Version + 1
  /\ phase' = "state"
  /\ todo' = observers
  /\ UNCHANGED <<cur, config, subscriptions, status, dispatched>>

(* A reducer that throws ends the scan: State's subscription is closed and *)
(* what was scheduled for it is dropped.                                   *)
ReducerThrows ==
  /\ Runnable
  /\ Head(queue) \in Throwing
  /\ queue' = <<>>
  /\ failing' = FALSE
  /\ alive' = FALSE
  /\ UNCHANGED <<phase, todo, cur, config, state, signal, subscriptions,
                 accepting, destroyed, dispatched, log>>

(* The scheduled error notification closes State's subscription.           *)
ErrorNotification ==
  /\ phase = "idle"
  /\ queue = <<>>
  /\ failing
  /\ failing' = FALSE
  /\ alive' = FALSE
  /\ UNCHANGED <<flow, config, state, signal, subscriptions, accepting,
                 destroyed, dispatched, log>>

(* next() calls the next subscriber of its snapshot.                       *)
NotifyObserver ==
  /\ phase = "state"
  /\ cur = Nobody
  /\ todo # <<>>
  /\ Contains(observers, Head(todo))
  /\ cur' = Head(todo)
  /\ todo' = Tail(todo)
  /\ seen' = [seen EXCEPT ![Head(todo)] = Append(@, Version)]
  /\ UNCHANGED <<queue, phase, config, state, signal, observers, listeners,
                 heard, status, dispatched, log>>

NotifyListener ==
  /\ phase = "scanned"
  /\ cur = Nobody
  /\ todo # <<>>
  /\ Contains(listeners, Head(todo))
  /\ cur' = Head(todo)
  /\ todo' = Tail(todo)
  /\ heard' = [heard EXCEPT ![Head(todo)] = Append(@, Version)]
  /\ UNCHANGED <<queue, phase, config, state, signal, observers, listeners,
                 seen, status, dispatched, log>>

(* A subscriber closed since the snapshot was taken ignores the call.      *)
SkipClosed ==
  /\ cur = Nobody
  /\ todo # <<>>
  /\ ~Contains(observers, Head(todo))
  /\ ~Contains(listeners, Head(todo))
  /\ todo' = Tail(todo)
  /\ UNCHANGED <<queue, phase, cur, config, state, signal, subscriptions,
                 status, dispatched, log>>

(* The callback returns, or throws: its error is reported asynchronously.  *)
CallbackReturns ==
  /\ cur # Nobody
  /\ cur' = Nobody
  /\ UNCHANGED <<queue, phase, todo, config, state, signal, subscriptions,
                 status, dispatched, log>>

(* Mutant: an action that changed nothing is not emitted.                  *)
EmitChanges ==
  /\ phase = "state"
  /\ CalledAll
  /\ phase' = "scanned"
  /\ todo' = IF \E k \in DOMAIN state : Contains(state[k], Version)
             THEN listeners ELSE <<>>
  /\ UNCHANGED <<queue, cur, config, state, signal, subscriptions, status,
                 dispatched, log>>

(* State's subscriber goes on to scannedActions.next(action).              *)
EmitScanned ==
  /\ phase = "state"
  /\ CalledAll
  /\ phase' = "scanned"
  /\ todo' = listeners
  /\ UNCHANGED <<queue, cur, config, state, signal, subscriptions, status,
                 dispatched, log>>

(* The scheduler takes up the next action of its queue.                    *)
Flushed ==
  /\ phase = "scanned"
  /\ CalledAll
  /\ phase' = "idle"
  /\ UNCHANGED <<queue, todo, cur, config, state, signal, subscriptions,
                 status, dispatched, log>>
-----------------------------------------------------------------------------
Application ==
  \/ \E action \in Types : Dispatch(action)
  \/ \E keys \in SUBSET Features \ {{}} :
       AddFeatures(keys) \/ RemoveFeatures(keys)
  \/ \E o \in Observers : Subscribe(o) \/ Unsubscribe(o)
  \/ \E l \in Listeners : Listen(l) \/ Unlisten(l)
  \/ Error
  \/ Destroy

Flush ==
  \/ Scan
  \/ ReducerThrows
  \/ ErrorNotification
  \/ NotifyObserver
  \/ NotifyListener
  \/ SkipClosed
  \/ CallbackReturns
  \/ EmitScanned
  \/ Flushed

Next == Application \/ Flush

Spec == Init /\ [][Next]_vars
-----------------------------------------------------------------------------
(* The variables keep their types, and nothing is in progress when the     *)
(* queue is idle.                                                          *)
TypeOK ==
  /\ queue \in Seq(Actions)
  /\ phase \in {"idle", "state", "scanned"}
  /\ todo \in Seq(Observers \cup Listeners)
  /\ cur \in Observers \cup Listeners \cup {Nobody}
  /\ reducers \in SUBSET Features
  /\ DOMAIN state \subseteq Features
  /\ \A k \in DOMAIN state : state[k] \in Seq(Nat)
  /\ signal \in Nat
  /\ observers \in Seq(Observers)
  /\ listeners \in Seq(Listeners)
  /\ accepting \in BOOLEAN /\ failing \in BOOLEAN
  /\ alive \in BOOLEAN /\ destroyed \in BOOLEAN
  /\ dispatched \in Seq(Actions)
  /\ log \in Seq(Actions)
  /\ seen \in [Observers -> Seq(Nat)]
  /\ heard \in [Listeners -> Seq(Nat)]
  /\ since \in [Features -> Nat]
  /\ phase = "idle" => cur = Nobody /\ todo = <<>>

(* Every accepted action is reduced at most once and in dispatch order,    *)
(* whoever dispatched it and from wherever; while the store lives none is  *)
(* lost between ActionsSubject and reducer (State's queueScheduler).       *)
SerialOrder ==
  /\ Len(log) <= Len(dispatched)
  /\ \A i \in 1 .. Len(log) : log[i] = dispatched[i]
  /\ alive => log \o queue = dispatched

Successive(s) == \A i \in 1 .. Len(s) - 1 : s[i + 1] = s[i] + 1

(* A state subscriber misses no version and sees none twice or out of      *)
(* order, and it is behind only while its turn in a next() is to come.     *)
GaplessViews ==
  /\ \A o \in Observers : Successive(seen[o])
  /\ \A o \in ToSet(observers) :
       Last(seen[o]) = IF phase = "state" /\ Contains(todo, o)
                       THEN Version - 1 ELSE Version

(* No effect hears an action before every subscriber of the state, the     *)
(* signal included, was shown the state it produced; the signal never      *)
(* differs from the subject when application code runs.                    *)
EffectsAfterState ==
  /\ signal = Version
  /\ cur \in Listeners =>
       /\ Last(heard[cur]) = Version
       /\ \A o \in ToSet(observers) : Last(seen[o]) = signal

(* What a listener hears is gapless from the first action it hears, and    *)
(* complete when the queue moves on.                                       *)
GaplessHearing ==
  /\ \A l \in Listeners : Successive(heard[l])
  /\ \A l \in ToSet(listeners) :
       heard[l] # <<>> =>
         Last(heard[l]) = IF \/ phase = "state"
                             \/ phase = "scanned" /\ Contains(todo, l)
                          THEN Version - 1 ELSE Version

(* Callbacks keep to their turn: a subscriber runs only inside the next()  *)
(* of its own subject, is called at most once in it, and was shown the     *)
(* state when it subscribed; a store that died schedules nothing.          *)
CallbackDiscipline ==
  /\ IsInjective(observers) /\ IsInjective(listeners) /\ IsInjective(todo)
  /\ phase = "state" => ToSet(todo) \subseteq Observers
  /\ phase = "scanned" => ToSet(todo) \subseteq Listeners
  /\ cur \in Observers => phase = "state" /\ ~Contains(todo, cur)
  /\ cur \in Listeners => phase = "scanned" /\ ~Contains(todo, cur)
  /\ \A o \in ToSet(observers) \cup (ToSet(todo) \cap Observers) :
       seen[o] # <<>>
  /\ ~alive => queue = <<>>

(* The slice of a registered feature replays exactly the handled actions   *)
(* of the log since the registration, behind what a slice left over from   *)
(* an earlier registration may hold, each once and in order.               *)
SlicesReplayLog ==
  \A k \in DOMAIN state :
    LET handled == {n \in 1 .. Version : log[n] \in Handles[k]} IN
      /\ ToSet(state[k]) \subseteq handled
      /\ \A i \in 1 .. Len(state[k]) - 1 : state[k][i] < state[k][i + 1]
      /\ k \in reducers =>
           {n \in handled : n > since[k]} \subseteq ToSet(state[k])

(* When nothing is being flushed, a registered feature has its slice.      *)
RegisteredFeaturesHaveState ==
  alive /\ ~Flushing => reducers \subseteq DOMAIN state

-----------------------------------------------------------------------------
(* The store implements AbstractStore.                                     *)
Abstract == INSTANCE AbstractStore WITH
  First <- INIT_TYPE,
  Watchers <- Observers,
  Audience <- Listeners,
  submitted <- dispatched,
  applied <- log,
  halted <- ~alive,
  watching <- ToSet(observers),
  listening <- ToSet(listeners),
  shown <- seen,
  told <- heard

(* Queue, callbacks and re-entrant dispatches together are a serial store: *)
(* every step is a step of AbstractStore or leaves its state as it was.    *)
ImplementsAbstractStore == Abstract!Spec
=============================================================================
