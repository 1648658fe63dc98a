------------------------------ MODULE Signals -------------------------------
(***************************************************************************)
(* The state source of a SignalStore or a signalState, with the watchers   *)
(* of watchState, and an rxMethod and a signalMethod that process it.      *)
(*                                                                         *)
(* patchState writes a signal and calls the watchers at once, and they may *)
(* patch, watch or destroy in turn.  Instances of the methods have a       *)
(* signal for input, here the state, or an observable.  Those of a signal  *)
(* are effects of Angular, which is external: it marks an effect dirty     *)
(* when its signal is set, runs it when the call stack is empty, calls its *)
(* cleanup before the next run, and destroys it with its injector.         *)
(*                                                                         *)
(* The state is the number of patches.  All code runs on one call stack,   *)
(* which is a variable; callbacks that throw unwind it.                    *)
(***************************************************************************)
EXTENDS Naturals, Sequences, SequencesExt, FiniteSetsExt

CONSTANTS
  Watchers,        (* Functions given to watchState.                       *)
  RxSignals,       (* Instances of the rxMethod with a signal for input,   *)
  RxObservables,   (* those with an observable,                            *)
  MethodSignals,   (* and those of the signalMethod with a signal.         *)
  Home,            (* The injector of every watcher and instance.          *)
  RxMethod,        (* The rxMethod itself, called with a value.            *)
  None,            (* Nobody.                                              *)
  MaxPatches,      (* Patches of the state. Bounds the model.              *)
  MaxDepth         (* Calls inside each other. Bounds the model.           *)

RxInstances == RxSignals \cup RxObservables
Effects == RxSignals \cup MethodSignals
Instances == RxInstances \cup MethodSignals
Injectors == {"source", "caller"}

ASSUME SignalsAssumption ==
  /\ RxSignals \cap RxObservables = {}
  /\ RxInstances \cap MethodSignals = {} /\ Instances \subseteq Nat
  /\ Home \in [Watchers \cup Instances -> Injectors]
  /\ MaxPatches \in Nat /\ MaxDepth \in Nat

VARIABLES
  state,       (* The signal.                                              *)
  watchers,    (* STATE_WATCHERS of the signal.                            *)
  owned,       (* Watchers with a destroy, that their injector calls too.  *)
  stack,       (* The call stack: notifications and processing of inputs.  *)
  instances,   (* Instances of the methods, with their effects.            *)
  effectRefs,  (* The array that signalMethod calls watchers.              *)
  rxOpen,      (* Whether sourceSub of the rxMethod is not closed.         *)
  injectors,   (* Injectors that are not destroyed.                        *)
  behind,      (* History: watchers not yet called with the newest state,  *)
  missed       (* and those that a throw keeps from being called with it.  *)

source == <<state, watchers, owned, behind, missed>>
methods == <<instances, effectRefs, rxOpen>>
vars == <<stack, injectors, source, methods>>
-----------------------------------------------------------------------------
(* The call stack.  A frame calls the watchers in rest one after another,  *)
(* or is the processing of an input; who is the one whose code runs in it. *)

Notification(rest) == [kind |-> "notify", rest |-> rest, who |-> None]
Processing(who) == [kind |-> "process", rest |-> <<>>, who |-> who]

Idle == stack = <<>>
Top == Last(stack)
(* Code of the application is running: a task, a watcher, a processingFn.  *)
Running == ~Idle => Top.who # None

Calls(frame) == stack' = Append(stack, frame)
CanCall == Running /\ Len(stack) < MaxDepth
-----------------------------------------------------------------------------
(* state-source.ts                                                         *)

(* Mutant: a patch made by a watcher notifies nobody.                      *)
PatchStateQuietly ==
  /\ CanCall /\ state < MaxPatches
  /\ state' = state + 1
  /\ instances' = [i \in Instances |->
       IF i \in Effects /\ instances[i].stage = "live"
       THEN [instances[i] EXCEPT !.dirty = TRUE, !.processed = FALSE]
       ELSE instances[i]]
  /\ behind' = ToSet(watchers) /\ missed' = {}
  /\ Calls(Notification(IF Idle THEN watchers ELSE <<>>))
  /\ UNCHANGED <<watchers, owned, effectRefs, rxOpen, injectors>>

(* Mutant: effects read their input inside untracked.                      *)
PatchStateUntracked ==
  /\ CanCall /\ state < MaxPatches
  /\ state' = state + 1
  /\ instances' = [i \in Instances |->
       [instances[i] EXCEPT !.processed = FALSE]]
  /\ behind' = ToSet(watchers) /\ missed' = {}
  /\ Calls(Notification(watchers))
  /\ UNCHANGED <<watchers, owned, effectRefs, rxOpen, injectors>>

(* patchState: the signal is set, which makes every effect dirty, and the  *)
(* watchers are those of this moment.                                      *)
PatchState ==
  /\ CanCall /\ state < MaxPatches
  /\ state' = state + 1
  /\ instances' = [i \in Instances |->
       IF i \in Effects /\ instances[i].stage = "live"
       THEN [instances[i] EXCEPT !.dirty = TRUE, !.processed = FALSE]
       ELSE instances[i]]
  /\ behind' = ToSet(watchers) /\ missed' = {}
  /\ Calls(Notification(watchers))
  /\ UNCHANGED <<watchers, owned, effectRefs, rxOpen, injectors>>

(* watchState: one function is watched once at a time.  The watcher is     *)
(* called before there is a way to destroy it.                             *)
WatchState(w) ==
  /\ CanCall /\ w \notin ToSet(watchers) /\ Home[w] \in injectors
  /\ watchers' = Append(watchers, w)
  /\ Calls([Notification(<<w>>) EXCEPT !.kind = "watch"])
  /\ behind' = behind \cup {w}
  /\ UNCHANGED <<state, owned, missed, methods, injectors>>

(* watchers.filter                                                         *)
Without(refs, gone) ==
  FoldLeft(LAMBDA kept, w : IF w \in gone THEN kept ELSE Append(kept, w),
           <<>>, refs)
RemoveWatchers(gone) ==
  /\ watchers' = Without(watchers, gone)
  /\ owned' = owned \ gone
  /\ behind' = behind \ gone /\ missed' = missed \ gone
DestroyWatcher(w) ==
  /\ Running /\ w \in owned
  /\ RemoveWatchers({w})
  /\ UNCHANGED <<state, stack, methods, injectors>>

(* The loop of notifyWatchers: the state is read anew for every watcher.   *)
NotifyNext ==
  /\ ~Idle /\ Top.rest # <<>>
  /\ LET w == Head(Top.rest)
     IN /\ behind' = behind \ {w} /\ missed' = missed \ {w}
        /\ stack' = [stack EXCEPT ![Len(stack)].rest = Tail(@),
                                  ![Len(stack)].who = w]
  /\ UNCHANGED <<state, watchers, owned, methods, injectors>>
-----------------------------------------------------------------------------
(* signal-method.ts                                                        *)

(* watchers.splice(watchers.indexOf(watcher), 1): index -1 is the last.    *)
Splice(refs, i) ==
  IF refs = <<>> THEN refs
  ELSE IF i \in ToSet(refs) THEN RemoveFirst(refs, i) ELSE Front(refs)

(* The cleanup of an effect, if it registered one when it last ran.        *)
CleanUp(refs, i) == IF instances[i].cleanup THEN Splice(refs, i) ELSE refs

Gone(ids) ==
  [i \in Instances |-> IF i \in ids /\ instances[i].stage = "live"
                       THEN [instances[i] EXCEPT !.stage = "destroyed",
                                                 !.dirty = FALSE,
                                                 !.processed = FALSE,
                                                 !.cleanup = FALSE]
                       ELSE instances[i]]
(* Effects are destroyed in the order they were created in.                *)
GoneRefs(ids) ==
  FoldLeft(CleanUp, effectRefs, SetToSortSeq(ids, <))

(* signalMethodFn.destroy: forEach goes on by index over an array that the *)
(* cleanups of the effects it destroys shorten.                            *)
DestroyNext(acc, k) ==
  IF k > Len(acc.refs) THEN acc
  ELSE [refs |-> CleanUp(acc.refs, acc.refs[k]),
        gone |-> acc.gone \cup {acc.refs[k]}]
DestroySignalMethod ==
  LET forEach == FoldLeft(DestroyNext, [refs |-> effectRefs, gone |-> {}],
                          [k \in DOMAIN effectRefs |-> k])
  IN /\ Running
     /\ instances' = Gone(forEach.gone)
     /\ effectRefs' = forEach.refs
  /\ UNCHANGED <<stack, injectors, source, rxOpen>>

ProcessSignal(i) ==
  /\ instances' = [instances EXCEPT ![i].stage = "live", ![i].dirty = TRUE]
  /\ effectRefs' = Append(effectRefs, i)
  /\ UNCHANGED rxOpen
-----------------------------------------------------------------------------
(* rx-method.ts                                                            *)

(* Mutant: an instance started after the destroy lives.                    *)
RxProcessAnyway(i) ==
  /\ instances' = [instances EXCEPT ![i].stage = "live",
                                    ![i].dirty = i \in RxSignals]
  /\ UNCHANGED <<effectRefs, rxOpen>>

(* What is added to a closed subscription is unsubscribed at once.         *)
RxProcess(i) ==
  /\ instances' = [instances EXCEPT
       ![i].stage = IF rxOpen THEN "live" ELSE "destroyed",
       ![i].dirty = rxOpen /\ i \in RxSignals]
  /\ UNCHANGED <<effectRefs, rxOpen>>

(* sourceSub.unsubscribe, also when the pipe of the generator fails.       *)
CloseRx == rxOpen' = FALSE /\ instances' = Gone(RxInstances)

DestroyRx ==
  /\ Running /\ rxOpen /\ CloseRx
  /\ UNCHANGED <<stack, injectors, source, effectRefs>>
-----------------------------------------------------------------------------
(* Instances of both methods.                                              *)

(* An observable emits after it was subscribed to, not inside subscribe(). *)
Start(i) ==
  /\ Running /\ instances[i].stage = "none" /\ Home[i] \in injectors
  /\ \A j \in Instances : j < i => instances[j].stage # "none"
  /\ IF i \in MethodSignals THEN ProcessSignal(i) ELSE RxProcess(i)
  /\ UNCHANGED <<stack, injectors, source>>

(* The EffectRef or RxMethodRef; or an observable completes.               *)
DestroyInstance(i) ==
  /\ Running /\ instances[i].stage = "live"
  /\ instances' = Gone({i})
  /\ effectRefs' = GoneRefs({i})
  /\ UNCHANGED <<stack, injectors, source, rxOpen>>

(* Angular runs an effect, its cleanup first.                              *)
RunEffect(i) ==
  /\ Idle /\ instances[i].stage = "live" /\ instances[i].dirty
  /\ effectRefs' = GoneRefs({i})
  /\ instances' = [instances EXCEPT ![i].dirty = FALSE, ![i].cleanup = FALSE,
                                    ![i].processed = TRUE]
  /\ Calls(Processing(i))
  /\ UNCHANGED <<injectors, source, rxOpen>>

Emit(i) ==
  /\ CanCall /\ instances[i].stage = "live"
  /\ Calls(Processing(i))
  /\ UNCHANGED <<injectors, source, methods>>

(* A call with a value; of an rxMethod that is closed it comes to nothing, *)
(* of a signalMethod it is processingFn and no more.                       *)
CallWithValue ==
  /\ CanCall /\ rxOpen
  /\ Calls(Processing(RxMethod))
  /\ UNCHANGED <<injectors, source, methods>>

(* The function at the top returns.  An effect of the signalMethod         *)
(* registers its cleanup when processingFn has returned, and watchState    *)
(* the destroy when the watcher has, if the injector is still there.       *)
Return ==
  /\ ~Idle /\ Top.rest = <<>>
  /\ stack' = Front(stack)
  /\ instances' = IF Top.who \in MethodSignals
                  THEN [instances EXCEPT ![Top.who].cleanup =
                          instances[Top.who].stage = "live"]
                  ELSE instances
  /\ owned' = IF Top.kind = "watch" /\ Home[Top.who] \in injectors
              THEN owned \cup {Top.who} ELSE owned
  /\ UNCHANGED <<injectors, state, watchers, behind, missed, effectRefs,
                 rxOpen>>

(* The code at the top throws.  The error goes through watchers and        *)
(* processingFn up to the task, or to the pipe of the rxMethod, which it   *)
(* closes.  Watchers that were not called yet never will be.               *)
InPipe(k) ==
  /\ stack[k].kind = "process"
  /\ stack[k].who \in RxInstances \cup {RxMethod}
Unwinds(bottom) ==
  LET unwound == SubSeq(stack, bottom, Len(stack))
  IN /\ stack' = SubSeq(stack, 1, bottom - 1)
     /\ missed' = missed \cup (behind \cap
          UNION {ToSet(unwound[k].rest) : k \in DOMAIN unwound})
Throw ==
  /\ ~Idle /\ Running
  /\ \/ /\ \A k \in DOMAIN stack : ~InPipe(k)
        /\ Unwinds(1)
        /\ UNCHANGED <<instances, rxOpen>>
     \/ \E pipe \in DOMAIN stack :
          /\ InPipe(pipe) /\ \A k \in DOMAIN stack : InPipe(k) => k <= pipe
          /\ Unwinds(pipe)
          /\ IF rxOpen THEN CloseRx ELSE UNCHANGED <<instances, rxOpen>>
  /\ UNCHANGED <<state, watchers, owned, behind, effectRefs, injectors>>

(* DestroyRef of an injector.                                              *)
DestroyInjector(injector) ==
  LET closes == injector = "source" /\ rxOpen
      gone == {i \in Instances : Home[i] = injector}
                \cup IF closes THEN RxInstances ELSE {}
  IN /\ Running /\ injector \in injectors
     /\ injectors' = injectors \ {injector}
     /\ RemoveWatchers({w \in owned : Home[w] = injector})
     /\ instances' = Gone(gone)
     /\ effectRefs' = GoneRefs(gone)
     /\ rxOpen' = (rxOpen /\ ~closes)
     /\ UNCHANGED <<stack, state>>
-----------------------------------------------------------------------------
Init ==
  /\ state = 0 /\ watchers = <<>> /\ owned = {} /\ stack = <<>>
  /\ instances = [i \in Instances |-> [stage |-> "none", dirty |-> FALSE,
                                       cleanup |-> FALSE, processed |-> FALSE]]
  /\ effectRefs = <<>> /\ rxOpen = TRUE /\ injectors = Injectors
  /\ behind = {} /\ missed = {}

Next ==
  \/ PatchState
  \/ \E w \in Watchers : WatchState(w) \/ DestroyWatcher(w)
  \/ NotifyNext
  \/ Return
  \/ Throw
  \/ \E i \in Instances : Start(i) \/ DestroyInstance(i)
  \/ \E i \in Effects : RunEffect(i)
  \/ \E i \in RxObservables : Emit(i)
  \/ CallWithValue
  \/ DestroyRx
  \/ DestroySignalMethod
  \/ \E injector \in Injectors : DestroyInjector(injector)

(* Every call returns or throws in the end, whatever it calls, and Angular *)
(* gets to its dirty effects although other tasks keep coming.             *)
Fairness ==
  /\ \A depth \in 1..MaxDepth :
       SF_vars(Len(stack) = depth /\ (NotifyNext \/ Return))
  /\ \A i \in Effects : SF_vars(RunEffect(i))
Spec == Init /\ [][Next]_vars /\ Fairness
-----------------------------------------------------------------------------
(* A watcher that patches starts a notification inside the one that called *)
(* it, over another list of watchers perhaps.  Still, whoever watches and  *)
(* has not seen the state is about to be called, unless a watcher threw.   *)
WatchersAreCurrent ==
  \A w \in behind \ missed :
    \E k \in DOMAIN stack : w \in ToSet(stack[k].rest)

(* An rxMethod that was destroyed, by its own destroy, its injector or an  *)
(* error in its pipe, leaves no effect and no subscription behind, be they *)
(* of other injectors or started later.                                    *)
RxLeavesNothing ==
  ~rxOpen => \A i \in RxInstances : instances[i].stage # "live"

(* Destroying a signalMethod stops all instances that it has.              *)
DestroyStopsAll ==
  [][DestroySignalMethod =>
       \A i \in MethodSignals : instances'[i].stage # "live"]_vars

(* An effect that lives processes the newest state in the end, also when   *)
(* the state is patched while it runs, or by what it runs.                 *)
Stale(i) ==
  /\ instances[i].stage = "live"
  /\ instances[i].dirty \/ ~instances[i].processed
LatestIsProcessed == \A i \in Effects : Stale(i) ~> ~Stale(i)
=============================================================================
