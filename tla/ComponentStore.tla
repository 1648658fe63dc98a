--------------------------- MODULE ComponentStore ---------------------------
(***************************************************************************)
(* A ComponentStore: its state, the updates that wait for their turn, and  *)
(* subscribers of its selectors, debounced or not.                         *)
(*                                                                         *)
(* Updates go through the queueScheduler of RxJS, which is external and    *)
(* shared with every other store: a task scheduled while another one runs  *)
(* waits until that has ended, otherwise it runs at once, inside the call  *)
(* that scheduled it.  Debounced selectors emit from the asapScheduler,    *)
(* when the call stack is empty.                                           *)
(*                                                                         *)
(* The state is the sequence of the updates that made it.  What is called  *)
(* by a subscriber when it subscribes is called by the code that makes it  *)
(* subscribe.                                                              *)
(***************************************************************************)
EXTENDS Naturals, Sequences, SequencesExt, FiniteSets

CONSTANTS
  Plain,            (* Subscribers of selectors.                           *)
  Debounced,        (* Subscribers of selectors with { debounce: true }.   *)
  Foreign,          (* Tasks of others on the queueScheduler.              *)
  None,             (* Nobody, nothing.                                    *)
  MaxUpdates,       (* Calls that change the state. Bounds the model.      *)
  PatchBehindQueue, (* Whether patchState is called with a function while  *)
                    (* updates are waiting.                                *)
  UpdatesWhenDebounced  (* Whether debounced subscribers change the state. *)

Subscribers == Plain \cup Debounced

ASSUME ComponentStoreAssumption ==
  /\ Plain \cap Debounced = {} /\ {Foreign, None} \cap Subscribers = {}
  /\ Foreign # None /\ MaxUpdates \in Nat
  /\ {PatchBehindQueue, UpdatesWhenDebounced} \subseteq BOOLEAN

VARIABLES
  phase,          (* Whether the ComponentStore is constructed, destroyed. *)
  isInitialized,
  state,          (* What stateSubject$ replays.                           *)
  queue,          (* The tasks of this store that wait.                    *)
  flushing,       (* Whether the queueScheduler runs a task.               *)
  notify,         (* Subscribers that next() has still to call.            *)
  calling,        (* Whose code runs inside the task, if any does.         *)
  live,           (* The subscribers in the order they subscribed.         *)
  actionValue,    (* debounceSync: the last value of each,                 *)
  scheduled,      (* and those with an actionSubscription.                 *)
  asap,           (* The debounced subscriber that the asapScheduler runs. *)
  seen,           (* History: what a subscriber was last called with.      *)
  calls,          (* History: the updates called since the state was set.  *)
  count           (* History: the calls that change the state.             *)

scheduler == <<queue, flushing, notify, calling, asap>>
selectors == <<live, actionValue, scheduled, seen>>
history == <<calls, count>>
vars == <<phase, isInitialized, state, scheduler, selectors, history>>

Live == ToSet(live)
-----------------------------------------------------------------------------
(* Code of the application runs: a task of its own, a callback of a        *)
(* subscriber, or inside a task of another store.                          *)
Running == flushing => calling # None
Idle == ~flushing /\ asap = None

(* Mutant: the last call is served first.                                  *)
ScheduleFirst(task) ==
  /\ queue' = <<task>> \o queue
  /\ flushing' = TRUE
  /\ UNCHANGED <<notify, calling, asap>>

(* queueScheduler.schedule: what is called while nothing is run starts a   *)
(* flush, which is over before the call returns.                           *)
Schedule(task) ==
  /\ queue' = Append(queue, task)
  /\ flushing' = TRUE
  /\ UNCHANGED <<notify, calling, asap>>

Task(kind, value) == [kind |-> kind, value |-> value, id |-> count + 1]
Initializes(task) == task.kind = "init"

(* What a task makes of the state; updates throw before there is one.      *)
Apply(store, task) ==
  CASE task.kind = "init" -> [isInitialized |-> TRUE, state |-> task.value]
    [] task.kind = "update" ->
         IF store.isInitialized
         THEN [store EXCEPT !.state = Append(@, task.id)] ELSE store
    [] task.kind = "patch" ->
         IF store.isInitialized
         THEN [store EXCEPT !.state = Append(task.value, task.id)] ELSE store
Now == [isInitialized |-> isInitialized, state |-> state]
-----------------------------------------------------------------------------
(* The queueScheduler runs a task of this store: initState, or an updater  *)
(* whose withLatestFrom has seen every state.  After the destruction       *)
(* stateSubject$ takes no state any more.                                  *)
RunTask ==
  /\ flushing /\ calling = None /\ notify = <<>> /\ queue # <<>>
  /\ LET task == Head(queue)
         next == Apply(Now, task)
     IN /\ isInitialized' = next.isInitialized
        /\ IF phase = "destroyed" THEN UNCHANGED <<state, notify>>
           ELSE /\ state' = next.state
                /\ notify' = IF next.isInitialized THEN live ELSE <<>>
  /\ queue' = Tail(queue)
  /\ UNCHANGED <<phase, flushing, calling, asap, selectors, history>>

EndFlush ==
  /\ flushing /\ calling = None /\ notify = <<>> /\ queue = <<>>
  /\ flushing' = FALSE
  /\ UNCHANGED <<phase, isInitialized, state, queue, notify, calling, asap,
                 selectors, history>>

(* Mutant: debounceSync keeps the value that it scheduled the action for.  *)
NotifyNextKeepsFirst ==
  /\ notify # <<>>
  /\ LET s == Head(notify)
     IN /\ calling' = IF s \in Plain \cap Live THEN s ELSE None
        /\ seen' = [seen EXCEPT ![s] = IF s \in Plain \cap Live THEN state
                                       ELSE @]
        /\ IF s \in Debounced \cap Live /\ s \notin scheduled
           THEN /\ actionValue' = [actionValue EXCEPT ![s] = state]
                /\ scheduled' = scheduled \cup {s}
           ELSE UNCHANGED <<actionValue, scheduled>>
  /\ notify' = Tail(notify)
  /\ UNCHANGED <<phase, isInitialized, state, queue, flushing, asap, live,
                 history>>

(* next() of stateSubject$ goes on to the next subscriber.  debounceSync   *)
(* keeps the value and schedules one action at a time.                     *)
NotifyNext ==
  /\ notify # <<>>
  /\ LET s == Head(notify)
     IN /\ calling' = IF s \in Plain \cap Live THEN s ELSE None
        /\ seen' = [seen EXCEPT ![s] = IF s \in Plain \cap Live THEN state
                                       ELSE @]
        /\ IF s \in Debounced \cap Live
           THEN /\ actionValue' = [actionValue EXCEPT ![s] = state]
                /\ scheduled' = scheduled \cup {s}
           ELSE UNCHANGED <<actionValue, scheduled>>
  /\ notify' = Tail(notify)
  /\ UNCHANGED <<phase, isInitialized, state, queue, flushing, asap, live,
                 history>>

(* The last callback of a next(), or the task of another store, returns.   *)
Return ==
  /\ calling # None /\ notify = <<>>
  /\ calling' = None
  /\ UNCHANGED <<phase, isInitialized, state, queue, flushing, notify, asap,
                 selectors, history>>

ForeignTask ==
  /\ Idle
  /\ flushing' = TRUE /\ calling' = Foreign
  /\ UNCHANGED <<phase, isInitialized, state, queue, notify, asap, selectors,
                 history>>

(* The action that debounceSync scheduled: the subscriber runs first, and  *)
(* actionSubscription is reset when it has returned.                       *)
RunAsap(s) ==
  /\ Idle /\ s \in scheduled
  /\ seen' = [seen EXCEPT ![s] = actionValue[s]]
  /\ asap' = s
  /\ UNCHANGED <<phase, isInitialized, state, queue, flushing, notify, calling,
                 live, actionValue, scheduled, history>>
AsapReturn ==
  /\ ~flushing /\ asap # None
  /\ scheduled' = scheduled \ {asap}
  /\ asap' = None
  /\ UNCHANGED <<phase, isInitialized, state, queue, flushing, notify, calling,
                 live, actionValue, seen, history>>
-----------------------------------------------------------------------------
(* What the application calls.                                             *)

(* A constructor given a state initializes it when its turn comes.         *)
Construct(withState) ==
  /\ Running /\ phase = "none"
  /\ phase' = "alive"
  /\ IF withState THEN Schedule(Task("init", <<>>)) ELSE UNCHANGED scheduler
  /\ UNCHANGED <<isInitialized, state, selectors, history>>

MayUpdate ==
  /\ Running /\ phase = "alive" /\ count < MaxUpdates
  /\ UpdatesWhenDebounced \/ asap = None
Calls(task, made) ==
  /\ Schedule(task)
  /\ calls' = made /\ count' = count + 1
  /\ UNCHANGED <<phase, isInitialized, state, selectors>>

(* An updater, setState with a function or patchState with an object.  It  *)
(* throws before the initialization: at once, or when its turn comes.      *)
Initialized ==
  isInitialized \/ \E k \in DOMAIN queue : Initializes(queue[k])
Update ==
  /\ MayUpdate
  /\ Calls(Task("update", None),
           IF Initialized THEN Append(calls, count + 1) ELSE calls)

SetState ==
  /\ MayUpdate
  /\ Calls(Task("init", <<count + 1>>), <<count + 1>>)

(* patchState with a function, which is called with the state of now.      *)
PatchState ==
  /\ MayUpdate /\ isInitialized
  /\ PatchBehindQueue \/ queue = <<>>
  /\ Calls(Task("patch", state), Append(calls, count + 1))

(* Mutant: stateSubject$ does not replay.                                  *)
SubscribeUnreplayed(s) ==
  /\ Running /\ phase = "alive" /\ s \notin Live
  /\ live' = Append(live, s)
  /\ seen' = [seen EXCEPT ![s] = None]
  /\ UNCHANGED <<phase, isInitialized, state, scheduler, actionValue,
                 scheduled, history>>

(* A selector replays the state to who subscribes. Each subscriber has a   *)
(* selector of its own: what a shared one replays is left out.             *)
Subscribe(s) ==
  /\ Running /\ phase = "alive" /\ s \notin Live
  /\ live' = Append(live, s)
  /\ seen' = [seen EXCEPT ![s] = IF s \in Plain /\ isInitialized THEN state
                                 ELSE None]
  /\ IF s \in Debounced /\ isInitialized
     THEN /\ actionValue' = [actionValue EXCEPT ![s] = state]
          /\ scheduled' = scheduled \cup {s}
     ELSE UNCHANGED <<actionValue, scheduled>>
  /\ UNCHANGED <<phase, isInitialized, state, scheduler, history>>

(* A debounced subscriber does so outside its own callback.                *)
Unsubscribe(s) ==
  /\ Running /\ s \in Live /\ s # asap
  /\ \E k \in DOMAIN live : live[k] = s /\ live' = RemoveAt(live, k)
  /\ scheduled' = scheduled \ {s}
  /\ UNCHANGED <<phase, isInitialized, state, scheduler, actionValue, seen,
                 history>>

(* ngOnDestroy: stateSubject$ completes, whereupon debounceSync emits what *)
(* it has; then destroy$ ends selectors and updaters, the waiting ones     *)
(* too.  Initializations are not tied to it.                               *)
Destroy ==
  /\ Running /\ phase = "alive"
  /\ phase' = "destroyed"
  /\ seen' = [s \in Subscribers |-> IF s \in scheduled THEN actionValue[s]
                                    ELSE seen[s]]
  /\ live' = <<>> /\ scheduled' = {} /\ notify' = <<>>
  /\ queue' = SelectSeq(queue, Initializes)
  /\ UNCHANGED <<isInitialized, state, flushing, calling, asap, actionValue,
                 history>>
-----------------------------------------------------------------------------
Init ==
  /\ phase = "none" /\ isInitialized = FALSE /\ state = <<>>
  /\ queue = <<>> /\ flushing = FALSE /\ notify = <<>>
  /\ calling = None /\ asap = None
  /\ live = <<>> /\ scheduled = {}
  /\ actionValue = [s \in Debounced |-> None]
  /\ seen = [s \in Subscribers |-> None]
  /\ calls = <<>> /\ count = 0

Proceed == RunTask \/ EndFlush \/ NotifyNext \/ Return \/ AsapReturn

Next ==
  \/ Proceed
  \/ ForeignTask
  \/ \E withState \in BOOLEAN : Construct(withState)
  \/ Update
  \/ SetState
  \/ PatchState
  \/ \E s \in Subscribers : Subscribe(s) \/ Unsubscribe(s)
  \/ \E s \in Debounced : RunAsap(s)
  \/ Destroy

(* Calls return, and microtasks are run although other tasks keep coming.  *)
Fairness == WF_vars(Proceed) /\ \A s \in Debounced : SF_vars(RunAsap(s))
Spec == Init /\ [][Next]_vars /\ Fairness
-----------------------------------------------------------------------------
(* Updates take effect in the order of the calls, each on what the one     *)
(* before it left, wherever they are called from: what is waiting, applied *)
(* to the state, gives all the calls since the state was set.              *)
SerialUpdates ==
  phase = "alive" => FoldLeft(Apply, Now, queue).state = calls

(* A subscriber of a selector has the state, or is about to be called with *)
(* it: whoever subscribes or unsubscribes inside a callback.  No state is  *)
(* passed over, since the next task waits for all the calls.               *)
SubscribersAreCurrent ==
  \A s \in Plain \cap Live :
    isInitialized => seen[s] = state \/ s \in ToSet(notify)

(* A debounced selector emits the state in the end, however many changes   *)
(* it left out.                                                            *)
Behind(s) == s \in Live /\ isInitialized /\ seen[s] # state
DebouncedSettles == \A s \in Debounced : Behind(s) ~> ~Behind(s)
=============================================================================
