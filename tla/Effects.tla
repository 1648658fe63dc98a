------------------------------ MODULE Effects ------------------------------
(***************************************************************************)
(* @ngrx/effects on top of the store: EffectSources, EffectsRunner, the    *)
(* resolver, the default error handler and the provideEffects initializer. *)
(*                                                                         *)
(* An effect is a pipe that application code hangs between the scanned     *)
(* actions and the store.  Hearing an action it may emit an action at once,*)
(* start asynchronous work whose result comes later, or throw into its     *)
(* main stream; after an error the handler subscribes to the same pipe     *)
(* again, as a new subscriber of the scanned actions, MaxErrors times.     *)
(***************************************************************************)
EXTENDS Store

CONSTANTS
  Instances,     (* Effect class instances and records passed to          *)
                 (* addEffects.                                           *)
  Group,         (* Group[i]: i's prototype and ngrxOnIdentifyEffects().  *)
  Effects,       (* The effects; an effect belongs to one instance.       *)
  Owner,         (* Owner[e]: the instance that has effect e.             *)
  Dispatching,   (* Effects without { dispatch: false }.                  *)
  Handled,       (* Effects without { useEffectsErrorHandler: false }.    *)
  Finite,        (* Effects whose pipe may complete.                      *)
  WithInit,      (* Instances that implement OnInitEffects.               *)
  MaxErrors,     (* MAX_NUMBER_OF_RETRY_ATTEMPTS.                         *)
  MaxInflight,   (* Asynchronous jobs per effect. Bounds the model.       *)
  Calls,         (* Sets of orders in which provideEffects lists instances*)
  Output,        (* Type of the actions effects emit.                     *)
  OnInit,        (* Type of ngrxOnInitEffects()'s action.                 *)
  ROOT_EFFECTS_INIT,
  None           (* No instance.                                          *)

Groups == {Group[i] : i \in Instances}

(* Subscription number n of effect e to the scanned actions.               *)
Subscriptions == Effects \X (0 .. MaxErrors)

ASSUME EffectsAssumption ==
  /\ IsFiniteSet(Effects)
  /\ Group \in [Instances -> Groups]
  /\ Owner \in [Effects -> Instances]
  /\ Dispatching \subseteq Effects
  /\ Handled \subseteq Effects
  /\ Finite \subseteq Effects
  /\ WithInit \subseteq Instances
  /\ MaxErrors \in Nat /\ MaxInflight \in Nat
  /\ Calls \subseteq Seq(Instances)
  /\ None \notin Instances
  /\ Listeners = Subscriptions
  /\ {Output, OnInit, ROOT_EFFECTS_INIT} \subseteq Types
  /\ ROOT_EFFECTS_INIT \notin {Output, OnInit, INIT_TYPE, UPDATE_TYPE}
  /\ ROOT_EFFECTS_INIT \notin Instances  \* an initializer's two kinds of tasks

VARIABLES
  isStarted,  (* EffectsRunner has an effectsSubscription.                *)
  open,       (* ... and that subscription is open.                       *)
  active,     (* active[g]: the instance group g's exhaustMap runs.       *)
  started,    (* started[g]: number of actions dispatched when the group  *)
              (* saw its first instance (take(1) of init$), or 0.         *)
  errors,     (* errors[e]: errors of e since it was resolved.            *)
  ended,      (* Effects of active instances whose stream is over.        *)
  inflight,   (* inflight[e]: asynchronous jobs under way in e.           *)
  boot,       (* What a running provideEffects initializer has yet to do: *)
              (* instances to add, then perhaps ROOT_EFFECTS_INIT.        *)
  provided,   (* The provideEffects calls whose initializer has run.      *)
  (* History variables.                                                   *)
  rootCall,   (* The instances of the call that started the runner.       *)
  resolved    (* resolved[i]: the store's version when i was resolved.    *)

runner == <<isStarted, open, boot, provided, rootCall>>
effects == <<active, started, errors, ended, inflight, resolved>>
effectVars == <<isStarted, open, active, started, errors, ended, inflight,
                boot, provided, rootCall, resolved>>
allVars == <<vars, effectVars>>

EffectsOf(i) == {e \in Effects : Owner[e] = i}
Live(e) == active[Group[Owner[e]]] = Owner[e] /\ e \notin ended
Subscription(e) == <<e, errors[e]>>

EffectsInit ==
  /\ Init
  /\ isStarted = FALSE
  /\ open = FALSE
  /\ active = [g \in Groups |-> None]
  /\ started = [g \in Groups |-> 0]
  /\ errors = [e \in Effects |-> 0]
  /\ ended = {}
  /\ inflight = [e \in Effects |-> 0]
  /\ boot = <<>>
  /\ provided = {}
  /\ rootCall = <<>>
  /\ resolved = [i \in Instances |-> 0]

(* Synchronous code outside a flush; an initializer that has begun runs to *)
(* its end before any other task.                                          *)
Idle == ~Flushing /\ cur = Nobody
Task == Idle /\ boot = <<>>

Unchanged == UNCHANGED <<phase, todo, cur, config, state, signal, observers,
                         seen, heard, log>>
-----------------------------------------------------------------------------
(* Mutant: every call dispatches the init action.                          *)
InitializerAlways(instances) == instances \o <<ROOT_EFFECTS_INIT>>

(* What the initializer has to do once the runner is started.              *)
Initializer(instances) ==
  instances \o (IF isStarted THEN <<>> ELSE <<ROOT_EFFECTS_INIT>>)

(* The initializer of provideEffects: start the runner unless it is        *)
(* started, add every instance, and dispatch the init action if it was     *)
(* this call that started the runner.                                      *)
ProvideEffects(instances) ==
  /\ Task
  /\ ~destroyed
  /\ instances \notin provided
  /\ provided' = provided \cup {instances}
  /\ rootCall' = IF isStarted THEN rootCall ELSE instances
  /\ boot' = Initializer(instances)
  /\ isStarted' = TRUE
  /\ open' = (open \/ ~isStarted)
  /\ UNCHANGED <<vars, effects>>

(* Mutant: another instance of the group takes the place of the first.     *)
AcceptsAny(g) == open

(* exhaustMap: the group takes an instance when it runs none.              *)
Accepts(g) == open /\ active[g] = None

(* take(1) of init$: the group has seen no instance yet.                   *)
FirstOfGroup(g) == open /\ started[g] = 0

(* EffectSources.addEffects.  Without the runner's subscription the        *)
(* instance is lost; a group that runs an instance ignores another one.    *)
AddEffects ==
  /\ Idle
  /\ boot # <<>>
  /\ Head(boot) \in Instances
  /\ boot' = Tail(boot)
  /\ UNCHANGED <<isStarted, open, inflight, provided, rootCall>>
  /\ LET i == Head(boot)
         g == Group[i]
         fresh == Accepts(g)
         first == FirstOfGroup(g)
     IN /\ active' = IF fresh THEN [active EXCEPT ![g] = i] ELSE active
        /\ errors' = [e \in Effects |->
                        IF fresh /\ e \in EffectsOf(i) THEN 0 ELSE errors[e]]
        /\ ended' = IF fresh THEN ended \ EffectsOf(i) ELSE ended
        /\ \E order \in SetToSeqs({<<e, 0>> : e \in EffectsOf(i)}) :
             listeners' = IF fresh THEN listeners \o order ELSE listeners
        /\ started' = IF first THEN [started EXCEPT ![g] = Len(dispatched)]
                               ELSE started
        /\ resolved' = IF fresh THEN [resolved EXCEPT ![i] = Version]
                                ELSE resolved
        /\ IF first /\ i \in WithInit THEN Next_(OnInit)
                                      ELSE UNCHANGED <<queue, dispatched>>
  /\ Unchanged /\ UNCHANGED status

DispatchEffectsInit ==
  /\ Idle
  /\ boot = <<ROOT_EFFECTS_INIT>>
  /\ boot' = <<>>
  /\ Next_(ROOT_EFFECTS_INIT)
  /\ UNCHANGED <<isStarted, open, provided, rootCall, effects, listeners,
                 status>> /\ Unchanged

(* The application's own code dispatches, in a task or while a class of    *)
(* effects is constructed.                                                 *)
AppDispatches(action) ==
  /\ Idle
  /\ Dispatch(action)
  /\ UNCHANGED effectVars
-----------------------------------------------------------------------------
(* The code of e that runs: its callback for an action it just heard, or   *)
(* the continuation of asynchronous work.                                  *)
Hearing(e) == cur = Subscription(e)
Resuming(e) == Task /\ inflight[e] > 0
Spent(e) == IF Hearing(e) THEN 0 ELSE 1

(* e emits an action: mergeEffects' materialized value reaches the runner, *)
(* which passes it to store.next.  { dispatch: false } drops it.           *)
Emits(e) ==
  /\ Live(e)
  /\ Hearing(e) \/ Resuming(e)
  /\ Len(dispatched) < MaxActions
  /\ inflight' = [inflight EXCEPT ![e] = @ - Spent(e)]
  /\ IF e \in Dispatching THEN Next_(Output)
                          ELSE UNCHANGED <<queue, dispatched>>
  /\ UNCHANGED <<runner, active, started, errors, ended, resolved, listeners,
                 status>>
  /\ Unchanged

StartsWork(e) ==
  /\ Live(e)
  /\ Hearing(e)
  /\ inflight[e] < MaxInflight
  /\ inflight' = [inflight EXCEPT ![e] = @ + 1]
  /\ UNCHANGED <<vars, runner, active, started, errors, ended, resolved>>

Runs(e) == Live(e) /\ (Hearing(e) \/ Resuming(e))

(* The handler still subscribes again.                                     *)
CanRetry(e) == errors[e] < MaxErrors

(* Mutant: the pipe is dropped, and nobody subscribes to it again.         *)
Dropped(e) == RemoveFirst(listeners, Subscription(e))

(* The pipe is the last subscriber of the scanned actions.                 *)
Resubscribed(e) ==
  Append(RemoveFirst(listeners, Subscription(e)), <<e, errors[e] + 1>>)

(* defaultEffectsErrorHandler: catchError reports the error and subscribes *)
(* to the pipe again; what the old subscription had in flight is lost.     *)
Resubscribes(e) ==
  /\ Runs(e)
  /\ e \in Handled
  /\ CanRetry(e)
  /\ errors' = [errors EXCEPT ![e] = @ + 1]
  /\ inflight' = [inflight EXCEPT ![e] = 0]
  /\ listeners' = Resubscribed(e)
  /\ UNCHANGED <<runner, active, started, ended, resolved, queue, dispatched,
                 status>>
  /\ Unchanged

Unhandled(e) == Runs(e) /\ (e \notin Handled \/ ~CanRetry(e))

(* e's stream is over.  The group is free again when every effect of the   *)
(* instance is over: exhaustMap's inner observable has completed.          *)
Over(e) ==
  /\ LET over == EffectsOf(Owner[e]) \subseteq ended \cup {e} IN
       active' = IF over THEN [active EXCEPT ![Group[Owner[e]]] = None]
                         ELSE active
  /\ ended' = ended \cup {e}
  /\ inflight' = [inflight EXCEPT ![e] = 0]
  /\ listeners' = RemoveFirst(listeners, Subscription(e))
  /\ UNCHANGED <<runner, started, errors, resolved, queue, dispatched, status>>
  /\ Unchanged

(* The pipe completes by itself (take, takeUntil).                         *)
Completes(e) == Runs(e) /\ e \in Finite /\ Over(e)

(* Mutant: no effect is materialized.                                      *)
NeverMaterialized(e) == FALSE

(* mergeEffects: the notifications of a dispatching effect are values, its *)
(* error among them.                                                       *)
Materialized(e) == e \in Dispatching

(* An error nothing catches becomes a notification that toActions filters  *)
(* out, and only e is over.                                                *)
EndsByError(e) == Unhandled(e) /\ Materialized(e) /\ Over(e)

(* A { dispatch: false } effect is not materialized: its error is that of  *)
(* toActions, closes the runner's subscription with every effect, and goes *)
(* to store.error.                                                         *)
FailsRunner(e) ==
  /\ Unhandled(e)
  /\ ~Materialized(e)
  /\ open' = FALSE
  /\ active' = [g \in Groups |-> None]
  /\ ended' = Effects
  /\ inflight' = [x \in Effects |-> 0]
  /\ listeners' = <<>>
  /\ accepting' = FALSE
  /\ failing' = (alive /\ (failing \/ accepting))
  /\ UNCHANGED <<isStarted, boot, provided, rootCall, started, errors, resolved,
                 queue, dispatched, alive, destroyed>>
  /\ Unchanged

(* The injector is destroyed: EffectsRunner.ngOnDestroy unsubscribes.      *)
DestroyAll ==
  /\ Task
  /\ Destroy
  /\ isStarted' = FALSE
  /\ open' = FALSE
  /\ active' = [g \in Groups |-> None]
  /\ ended' = Effects
  /\ inflight' = [e \in Effects |-> 0]
  /\ UNCHANGED <<started, errors, resolved, boot, provided, rootCall>>
-----------------------------------------------------------------------------
EffectsNext ==
  \/ \E instances \in Calls : ProvideEffects(instances)
  \/ AddEffects
  \/ DispatchEffectsInit
  \/ \E action \in Types \ {Output, OnInit, ROOT_EFFECTS_INIT} :
       AppDispatches(action)
  \/ \E e \in Effects : \/ Emits(e)
                        \/ StartsWork(e)
                        \/ Resubscribes(e)
                        \/ Completes(e)
                        \/ EndsByError(e)
                        \/ FailsRunner(e)
  \/ DestroyAll
  \/ Flush /\ UNCHANGED effectVars

EffectsSpec == EffectsInit /\ [][EffectsNext]_allVars

(* A flush and an initializer are synchronous code that runs to its end.   *)
EffectsFairness ==
  /\ WF_allVars(Flush /\ UNCHANGED effectVars)
  /\ WF_allVars(AddEffects \/ DispatchEffectsInit)

EffectsFairSpec == EffectsSpec /\ EffectsFairness
-----------------------------------------------------------------------------
(* A live effect has exactly one subscription to the actions, whatever it  *)
(* threw before; an effect of an ignored or finished instance has none.    *)
OneSubscriptionPerEffect ==
  /\ ToSet(listeners) = {Subscription(e) : e \in {x \in Effects : Live(x)}}
  /\ Len(listeners) = Cardinality(ToSet(listeners))

(* A live effect heard every action reduced since its instance was         *)
(* resolved: none is lost between an error and the resubscription.         *)
NoActionMissed ==
  \A e \in Effects : Live(e) =>
    \A n \in resolved[Owner[e]] + 1 .. Version :
      \/ n = Version /\ phase # "idle"
      \/ \E k \in 0 .. errors[e] : Contains(heard[<<e, k>>], n)

(* ROOT_EFFECTS_INIT is dispatched once, after every effect of the call    *)
(* that started the runner was added (lifecycle.md:5).                     *)
RootEffectsInitLast ==
  LET inits == {n \in DOMAIN dispatched : dispatched[n] = ROOT_EFFECTS_INIT} IN
    /\ Cardinality(inits) <= 1
    /\ \A n \in inits : \A i \in ToSet(rootCall) :
         started[Group[i]] \in 1 .. n - 1

(* Only a { dispatch: false } effect that ran out of retries, or has none, *)
(* stops the store; the others cannot, however they fail.                  *)
StoreOutlivesDispatchingEffects ==
  ~accepting /\ ~destroyed =>
    \E e \in Effects \ Dispatching : e \notin Handled \/ errors[e] = MaxErrors

(* An action waiting in the queue is heard by each effect that is live,    *)
(* through whichever subscription it has then, unless the effect or the    *)
(* store ends first.                                                       *)
EveryEffectHears ==
  \A e \in Effects : \A n \in 1 .. MaxActions :
    (Version < n /\ n <= Len(dispatched) /\ Live(e) /\ alive)
      ~> \/ \E k \in 0 .. MaxErrors : Contains(heard[<<e, k>>], n)
         \/ ~Live(e) \/ ~alive
=============================================================================
