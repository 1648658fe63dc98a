--------------------------- MODULE EffectsProofs ---------------------------
(***************************************************************************)
(* Proof of the safety properties of @ngrx/effects, for any instances,     *)
(* groups, effects, retries and calls of provideEffects.                   *)
(*                                                                         *)
(* First what subscribing and unsubscribing do to the list of subscribers, *)
(* then the five parts of the invariant, each kept by every step, and last *)
(* the properties that follow.                                             *)
(***************************************************************************)
EXTENDS Effects, StoreProofs, FiniteSetTheorems

(* The types of the variables that the effects add to the store's.         *)
EffectsTypeOK ==
  /\ isStarted \in BOOLEAN
  /\ open \in BOOLEAN
  /\ active \in [Groups -> Instances \cup {None}]
  /\ started \in [Groups -> Nat]
  /\ errors \in [Effects -> 0 .. MaxErrors]
  /\ ended \subseteq Effects
  /\ inflight \in [Effects -> Nat]
  /\ boot \in Seq(Instances \cup {ROOT_EFFECTS_INIT})
  /\ rootCall \in Seq(Instances)
  /\ resolved \in [Instances -> Nat]

(* Some effect may stop the store: it has { dispatch: false } and no       *)
(* retries, or none left.                                                  *)
Blame == \E e \in Effects \ Dispatching : e \notin Handled \/ errors[e] = MaxErrors

(* An instance runs only under an open subscription of the runner, that    *)
(* subscription only in a living store, and if the store accepts nothing   *)
(* more although nobody destroyed it, then because of an effect that is to *)
(* blame.                                                                  *)
RunnerInvariant ==
  /\ \A g \in Groups : active[g] # None => open
  /\ open => isStarted /\ ~destroyed
  /\ accepting /\ isStarted => open
  /\ destroyed => ~accepting
  /\ ~accepting /\ ~destroyed => ~open /\ isStarted /\ Blame

(* The subscription that each live effect has now, after the errors it     *)
(* had.                                                                    *)
LiveSubscriptions == {Subscription(e) : e \in {x \in Effects : Live(x)}}

(* The scanned actions' subscribers are these, each once.                  *)
SubscriptionInvariant ==
  /\ IsInjective(listeners)
  /\ ToSet(listeners) = LiveSubscriptions

(* Effect e heard action number n, through whichever subscription it had   *)
(* then.                                                                   *)
HasHeard(e, n) == \E k \in 0 .. errors[e] : Contains(heard[<<e, k>>], n)

(* While an action is given to the effects, who has not heard it is still  *)
(* in the snapshot. An effect may subscribe anew only after it heard the   *)
(* action that made it fail.                                               *)
HeardInvariant ==
  /\ NoActionMissed
  /\ cur \in Listeners => phase = "scanned" /\ Contains(heard[cur], Version)
  /\ phase = "scanned" =>
       \A e \in Effects : Live(e) /\ resolved[Owner[e]] < Version =>
         HasHeard(e, Version) \/ Contains(todo, Subscription(e))

(* The initializer has yet to dispatch ROOT_EFFECTS_INIT.                  *)
InitPending == Contains(boot, ROOT_EFFECTS_INIT)

(* The positions at which ROOT_EFFECTS_INIT was dispatched.                *)
Inits == {n \in DOMAIN dispatched : dispatched[n] = ROOT_EFFECTS_INIT}

(* Until ROOT_EFFECTS_INIT is dispatched, it is last in the initializer's  *)
(* list, and every instance of the call is still in the list before it or  *)
(* was added; afterwards all of them were added earlier than it.           *)
BootInvariant ==
  /\ dispatched # <<>>
  /\ \A g \in Groups : started[g] <= Len(dispatched)
  /\ boot # <<>> => isStarted \/ destroyed
  /\ \A j \in 1 .. Len(boot) - 1 : boot[j] # ROOT_EFFECTS_INIT
  /\ Inits # {} => ~InitPending
  /\ Inits # {} => isStarted \/ destroyed
  /\ InitPending =>
       \A i \in ToSet(rootCall) :
         Contains(boot, i) \/ (accepting => started[Group[i]] # 0)
  /\ \A n \in Inits : \A i \in ToSet(rootCall) : started[Group[i]] \in 1 .. n - 1
  /\ \A m, n \in Inits : m = n

(* The inductive invariant.                                                *)
EffectsInvariant ==
  /\ TypeOK
  /\ EffectsTypeOK
  /\ RunnerInvariant
  /\ SubscriptionInvariant
  /\ HeardInvariant
  /\ BootInvariant

(* In a list without repetitions, the first occurrence is the only one.    *)
LEMMA RemoveFirstIsRemoveAt ==
  ASSUME NEW S, NEW s \in Seq(S), NEW k \in DOMAIN s, IsInjective(s)
  PROVE  RemoveFirst(s, s[k]) = RemoveAt(s, k)
<1> DEFINE I == {i \in 1 .. Len(s) : s[i] = s[k]}
<1>1. I = {k}
  BY LenProperties DEF IsInjective
<1>2. Min(I) = k
  BY <1>1, LenProperties DEF Min
<1>3. QED
  BY <1>1, <1>2, LenProperties DEF RemoveFirst, SelectInSeq

(* Unsubscribing leaves a list of subscribers.                             *)
LEMMA RemoveFirstType ==
  ASSUME NEW S, NEW s \in Seq(S), NEW e, IsInjective(s)
  PROVE  RemoveFirst(s, e) \in Seq(S)
<1>1. CASE \E k \in DOMAIN s : s[k] = e
  BY <1>1, RemoveFirstIsRemoveAt, RemoveAtType
<1>2. CASE ~ \E k \in DOMAIN s : s[k] = e
  BY <1>2, LenProperties DEF RemoveFirst
<1>3. QED
  BY <1>1, <1>2

(* A subscription is an effect and a number of errors.                     *)
LEMMA SubscriptionFacts ==
  /\ \A e \in Effects : \A k \in 0 .. MaxErrors : <<e, k>> \in Listeners
  /\ \A l \in Listeners : /\ l = <<l[1], l[2]>>
                          /\ l[1] \in Effects /\ l[2] \in 0 .. MaxErrors
BY EffectsAssumption DEF Subscriptions

(* Instances and their effects belong to each other.                       *)
LEMMA EffectsOfFacts ==
  ASSUME NEW i \in Instances
  PROVE  /\ Group[i] \in Groups
         /\ EffectsOf(i) \subseteq Effects
         /\ \A e \in EffectsOf(i) : Owner[e] = i
         /\ \A e \in Effects : Owner[e] \in Instances /\ Group[Owner[e]] \in Groups
BY EffectsAssumption DEF EffectsOf

(* An order of a finite set lists each of its elements once.               *)
LEMMA OrderFacts ==
  ASSUME NEW S, IsFiniteSet(S), NEW order \in SetToSeqs(S)
  PROVE  order \in Seq(S) /\ IsInjective(order) /\ ToSet(order) = S
<1> DEFINE D == 1 .. Cardinality(S)
<1>1. Cardinality(S) \in Nat
  BY FS_CardinalityType
<1>2. order \in [D -> S] /\ \A i, j \in D : i # j => order[i] # order[j]
  BY DEF SetToSeqs
<1>3. order \in Injection(D, S)
  BY <1>2 DEF Injection, IsInjective
<1>4. Cardinality(D) = Cardinality(S)
  BY <1>1, FS_Interval
<1>5. order \in Surjection(D, S)
  BY <1>3, <1>4, FS_Injection
<1>6. \A x \in S : \E i \in D : order[i] = x
  BY <1>5 DEF Surjection
<1>7. ToSet(order) = S
  BY <1>2, <1>6 DEF ToSet
<1>8. order \in Seq(S)
  BY <1>1, <1>2, SeqDef
<1>9. QED
  BY <1>2, <1>7, <1>8 DEF IsInjective

(* Two lists of different subscribers make a list without repetitions.     *)
LEMMA ConcatSubscribers ==
  ASSUME NEW S, NEW s \in Seq(S), NEW t \in Seq(S), IsInjective(s), IsInjective(t),
         ToSet(s) \cap ToSet(t) = {}
  PROVE  IsInjective(s \o t) /\ ToSet(s \o t) = ToSet(s) \cup ToSet(t)
<1> DEFINE u == s \o t
<1>1. /\ Len(s) \in Nat /\ DOMAIN s = 1 .. Len(s)
      /\ Len(t) \in Nat /\ DOMAIN t = 1 .. Len(t)
  BY LenProperties
<1>2. /\ u \in Seq(S) /\ Len(u) = Len(s) + Len(t)
      /\ \A i \in 1 .. Len(s) + Len(t) :
           u[i] = IF i <= Len(s) THEN s[i] ELSE t[i - Len(s)]
  BY ConcatProperties
<1> HIDE DEF u
<1>3. DOMAIN u = 1 .. Len(s) + Len(t)
  BY <1>1, <1>2, LenProperties
<1>4. \A i \in 1 .. Len(s) : i \in DOMAIN u /\ u[i] = s[i]
  BY <1>1, <1>2, <1>3
<1>5. ASSUME NEW j \in 1 .. Len(t) PROVE Len(s) + j \in DOMAIN u /\ u[Len(s) + j] = t[j]
  <2>1. Len(s) + j \in 1 .. Len(s) + Len(t) /\ ~(Len(s) + j <= Len(s))
    BY <1>1
  <2>2. (Len(s) + j) - Len(s) = j
    BY <1>1
  <2>3. u[Len(s) + j] = t[(Len(s) + j) - Len(s)]
    BY <1>2, <2>1
  <2>4. QED
    BY <1>3, <2>1, <2>2, <2>3
<1>6. ASSUME NEW i \in DOMAIN u
      PROVE  \/ i \in 1 .. Len(s) /\ u[i] = s[i] /\ u[i] \in ToSet(s)
             \/ /\ i - Len(s) \in 1 .. Len(t)
                /\ u[i] = t[i - Len(s)]
                /\ u[i] \in ToSet(t)
                /\ i > Len(s)
  <2>1. CASE i <= Len(s)
    <3>1. i \in 1 .. Len(s) /\ u[i] = s[i]
      BY <1>1, <1>2, <1>3, <2>1
    <3>2. QED
      BY <1>1, <3>1 DEF ToSet
  <2>2. CASE ~(i <= Len(s))
    <3>1. i - Len(s) \in 1 .. Len(t) /\ u[i] = t[i - Len(s)] /\ i > Len(s)
      BY <1>1, <1>2, <1>3, <2>2
    <3>2. QED
      BY <1>1, <3>1 DEF ToSet
  <2>3. QED
    BY <2>1, <2>2
<1>7. IsInjective(u)
  <2> SUFFICES ASSUME NEW i \in DOMAIN u, NEW j \in DOMAIN u, u[i] = u[j]
               PROVE  i = j
    BY DEF IsInjective
  <2>1. CASE i \in 1 .. Len(s) /\ j \in 1 .. Len(s)
    BY <1>1, <1>4, <2>1 DEF IsInjective
  <2>2. CASE i > Len(s) /\ j > Len(s)
    <3>1. /\ i - Len(s) \in 1 .. Len(t) /\ j - Len(s) \in 1 .. Len(t)
          /\ t[i - Len(s)] = t[j - Len(s)]
      BY <1>1, <1>6, <2>2
    <3>2. i - Len(s) = j - Len(s)
      BY <1>1, <3>1 DEF IsInjective
    <3>3. QED
      BY <1>1, <1>3, <3>2
  <2>3. QED
    BY <1>1, <1>3, <1>6, <2>1, <2>2
<1>8. ToSet(u) \subseteq ToSet(s) \cup ToSet(t)
  <2>1. ASSUME NEW x \in ToSet(u) PROVE x \in ToSet(s) \cup ToSet(t)
    <3>1. PICK i \in DOMAIN u : x = u[i]
      BY <2>1 DEF ToSet
    <3>2. QED
      BY <1>6, <3>1
  <2>2. QED
    BY <2>1
<1>9. ToSet(s) \subseteq ToSet(u)
  BY <1>1, <1>4 DEF ToSet
<1>10. ToSet(t) \subseteq ToSet(u)
  <2>1. ASSUME NEW x \in ToSet(t) PROVE x \in ToSet(u)
    <3>1. PICK j \in DOMAIN t : x = t[j]
      BY <2>1 DEF ToSet
    <3>2. Len(s) + j \in DOMAIN u /\ u[Len(s) + j] = x
      BY <1>1, <1>5, <3>1
    <3>3. QED
      BY <3>2 DEF ToSet
  <2>2. QED
    BY <2>1
<1>11. QED
  BY <1>7, <1>8, <1>9, <1>10 DEF u

(* Unsubscribing removes that subscriber and keeps the list without        *)
(* repetitions.                                                            *)
LEMMA RemoveFirstSubscriber ==
  ASSUME NEW S, NEW s \in Seq(S), NEW e, IsInjective(s), Contains(s, e)
  PROVE  /\ RemoveFirst(s, e) \in Seq(S)
         /\ IsInjective(RemoveFirst(s, e))
         /\ ToSet(RemoveFirst(s, e)) = ToSet(s) \ {e}
<1>1. PICK k \in DOMAIN s : s[k] = e
  BY LenProperties DEF Contains
<1>2. RemoveFirst(s, e) = RemoveAt(s, k)
  BY <1>1, RemoveFirstIsRemoveAt
<1>3. QED
  BY <1>1, <1>2, RemoveSubscriber, RemoveAtType

(* An instance brings finitely many subscriptions.                         *)
LEMMA FiniteSubscriptions ==
  ASSUME NEW i \in Instances
  PROVE  IsFiniteSet({<<e, 0>> : e \in EffectsOf(i)})
<1> DEFINE S == {<<e, 0>> : e \in EffectsOf(i)}
           f == [e \in EffectsOf(i) |-> <<e, 0>>]
<1>1. IsFiniteSet(EffectsOf(i))
  BY EffectsAssumption, EffectsOfFacts, FS_Subset
<1>2. f \in Surjection(EffectsOf(i), S)
  BY DEF Surjection
<1>3. QED
  BY <1>1, <1>2, FS_Surjection

(* A step of the flush by itself neither subscribes, dispatches nor ends   *)
(* anything but the action under way.                                      *)
LEMMA FlushFrame ==
  ASSUME Flush
  PROVE  UNCHANGED <<observers, listeners, accepting, destroyed, dispatched>>
BY DEF Flush, Scan, ReducerThrows, ErrorNotification, NotifyObserver,
       NotifyListener, SkipClosed, CallbackReturns, EmitScanned, Flushed,
       subscriptions, status

(* A dispatch appends to the history if the store accepts it, and does     *)
(* nothing if not.                                                         *)
LEMMA NextGrows ==
  ASSUME TypeOK, NEW action \in Actions, Next_(action)
  PROVE  /\ queue' \in Seq(Actions) /\ dispatched' \in Seq(Actions)
         /\ \/ /\ accepting
               /\ Len(dispatched') = Len(dispatched) + 1
               /\ dispatched'[Len(dispatched) + 1] = action
               /\ \A n \in 1 .. Len(dispatched) : dispatched'[n] = dispatched[n]
            \/ ~(accepting /\ alive) /\ dispatched' = dispatched
<1>1. queue' \in Seq(Actions) /\ dispatched' \in Seq(Actions)
  BY NextType
<1>2. CASE accepting /\ alive
  BY <1>1, <1>2, AppendProperties DEF Next_, TypeOK
<1>3. CASE ~(accepting /\ alive)
  BY <1>1, <1>3 DEF Next_
<1>4. QED
  BY <1>2, <1>3

(* What effects and their initializer dispatch are actions.                *)
LEMMA EffectActions == {Output, OnInit, ROOT_EFFECTS_INIT} \subseteq Actions
BY EffectsAssumption DEF Actions

(* The initial state has its types.                                        *)
LEMMA EffectsInitType == EffectsInit => TypeOK /\ EffectsTypeOK
<1> SUFFICES ASSUME EffectsInit PROVE TypeOK /\ EffectsTypeOK
  OBVIOUS
<1>1. TypeOK
  BY InitType, StoreAssumption DEF EffectsInit
<1>2. 0 \in 0 .. MaxErrors
  BY EffectsAssumption
<1>3. QED
  BY <1>1, <1>2, EmptySeq DEF EffectsInit, EffectsTypeOK

(* Every step keeps the types.                                             *)
LEMMA EffectsStepType ==
  TypeOK /\ EffectsTypeOK /\ SubscriptionInvariant /\ [EffectsNext]_allVars
    => TypeOK' /\ EffectsTypeOK'
<1> SUFFICES ASSUME TypeOK, EffectsTypeOK, SubscriptionInvariant,
                    [EffectsNext]_allVars
             PROVE  TypeOK' /\ EffectsTypeOK'
  OBVIOUS
<1> USE EffectActions DEF runner, effects, effectVars, Unchanged, config, status
<1>1. /\ Version \in Nat /\ Len(dispatched) \in Nat
      /\ listeners \in Seq(Listeners) /\ IsInjective(listeners)
      /\ MaxErrors \in Nat
  BY LenProperties, EffectsAssumption DEF TypeOK, Version, SubscriptionInvariant
<1>2. ASSUME NEW instances \in Calls, ProvideEffects(instances)
      PROVE  TypeOK' /\ EffectsTypeOK'
  <2>1. instances \in Seq(Instances)
    BY EffectsAssumption
  <2>2. Initializer(instances) \in Seq(Instances \cup {ROOT_EFFECTS_INIT})
    <3>1. instances \in Seq(Instances \cup {ROOT_EFFECTS_INIT})
      BY <2>1, SeqMonotonic
    <3>2. /\ <<>> \in Seq(Instances \cup {ROOT_EFFECTS_INIT})
          /\ <<ROOT_EFFECTS_INIT>> \in Seq(Instances \cup {ROOT_EFFECTS_INIT})
      OBVIOUS
    <3>3. QED
      BY <3>1, <3>2, ConcatProperties DEF Initializer
  <2>3. TypeOK'
    BY <1>2 DEF ProvideEffects, TypeOK, vars
  <2>4. QED
    BY <1>2, <2>1, <2>2, <2>3 DEF ProvideEffects, EffectsTypeOK
<1>3. CASE AddEffects
  <2> DEFINE i == Head(boot)
             g == Group[i]
             fresh == Accepts(g)
             first == FirstOfGroup(g)
  <2>1. i \in Instances /\ g \in Groups
    BY <1>3, EffectsOfFacts DEF AddEffects
  <2>2. boot' \in Seq(Instances \cup {ROOT_EFFECTS_INIT})
    BY <1>3, HeadTailProperties DEF AddEffects, EffectsTypeOK
  <2>3. /\ active' = IF fresh THEN [active EXCEPT ![g] = i] ELSE active
        /\ errors' = [e \in Effects |->
                        IF fresh /\ e \in EffectsOf(i) THEN 0 ELSE errors[e]]
        /\ ended' = IF fresh THEN ended \ EffectsOf(i) ELSE ended
        /\ \E order \in SetToSeqs({<<e, 0>> : e \in EffectsOf(i)}) :
             listeners' = IF fresh THEN listeners \o order ELSE listeners
        /\ started' = IF first THEN [started EXCEPT ![g] = Len(dispatched)]
                               ELSE started
        /\ resolved' = IF fresh THEN [resolved EXCEPT ![i] = Version]
                                ELSE resolved
        /\ IF first /\ i \in WithInit THEN Next_(OnInit)
                                      ELSE UNCHANGED <<queue, dispatched>>
    BY <1>3 DEF AddEffects
  <2> HIDE DEF i, g, fresh, first
  <2>4. active' \in [Groups -> Instances \cup {None}]
    BY <2>1, <2>3 DEF EffectsTypeOK
  <2>5. errors' \in [Effects -> 0 .. MaxErrors]
    BY <1>1, <2>3 DEF EffectsTypeOK
  <2>6. ended' \subseteq Effects
    BY <2>3 DEF EffectsTypeOK
  <2>7. started' \in [Groups -> Nat]
    BY <1>1, <2>1, <2>3 DEF EffectsTypeOK
  <2>8. resolved' \in [Instances -> Nat]
    BY <1>1, <2>1, <2>3 DEF EffectsTypeOK
  <2>9. listeners' \in Seq(Listeners)
    <3> DEFINE new == {<<e, 0>> : e \in EffectsOf(i)}
    <3>1. PICK order \in SetToSeqs(new) :
            listeners' = IF fresh THEN listeners \o order ELSE listeners
      BY <2>3
    <3>2. new \subseteq Listeners /\ order \in [1 .. Cardinality(new) -> new]
      BY <2>1, <1>1, EffectsOfFacts, SubscriptionFacts DEF SetToSeqs
    <3>3. IsFiniteSet(new)
      BY <2>1, FiniteSubscriptions
    <3> HIDE DEF new
    <3>4. order \in Seq(new)
      BY <3>1, <3>3, OrderFacts
    <3>5. order \in Seq(Listeners)
      BY <3>2, <3>4, SeqMonotonic
    <3>6. QED
      BY <1>1, <3>1, <3>5, ConcatProperties
  <2>10. queue' \in Seq(Actions) /\ dispatched' \in Seq(Actions)
    <3>1. CASE first /\ i \in WithInit
      BY <2>3, <3>1, NextType
    <3>2. CASE ~(first /\ i \in WithInit)
      BY <2>3, <3>2 DEF TypeOK
    <3>3. QED
      BY <3>1, <3>2
  <2>11. TypeOK'
    BY <1>3, <2>9, <2>10 DEF AddEffects, TypeOK
  <2>12. QED
    BY <1>3, <2>2, <2>4, <2>5, <2>6, <2>7, <2>8, <2>11
    DEF AddEffects, EffectsTypeOK
<1>4. CASE DispatchEffectsInit
  <2>1. queue' \in Seq(Actions) /\ dispatched' \in Seq(Actions)
    BY <1>4, NextType DEF DispatchEffectsInit
  <2>2. TypeOK'
    BY <1>4, <2>1 DEF DispatchEffectsInit, TypeOK
  <2>3. QED
    BY <1>4, <2>2, EmptySeq DEF DispatchEffectsInit, EffectsTypeOK
<1>5. ASSUME NEW action \in Types, AppDispatches(action)
      PROVE  TypeOK' /\ EffectsTypeOK'
  <2>1. Next
    BY <1>5 DEF AppDispatches, Next, Application
  <2>2. TypeOK'
    BY <2>1, StepType, StoreAssumption
  <2>3. QED
    BY <1>5, <2>2 DEF AppDispatches, EffectsTypeOK
<1>6. ASSUME NEW e \in Effects, Emits(e) PROVE TypeOK' /\ EffectsTypeOK'
  <2>1. queue' \in Seq(Actions) /\ dispatched' \in Seq(Actions)
    <3>1. CASE e \in Dispatching
      BY <1>6, <3>1, NextType DEF Emits
    <3>2. CASE e \notin Dispatching
      BY <1>6, <3>2 DEF Emits, TypeOK
    <3>3. QED
      BY <3>1, <3>2
  <2>2. TypeOK'
    BY <1>6, <2>1 DEF Emits, TypeOK
  <2>3. inflight[e] - Spent(e) \in Nat
    BY <1>6 DEF Emits, Resuming, Spent, EffectsTypeOK
  <2>4. inflight' \in [Effects -> Nat]
    BY <1>6, <2>3 DEF Emits, EffectsTypeOK
  <2>5. QED
    BY <1>6, <2>2, <2>4 DEF Emits, EffectsTypeOK
<1>7. ASSUME NEW e \in Effects, StartsWork(e) PROVE TypeOK' /\ EffectsTypeOK'
  <2>1. UNCHANGED vars
    BY <1>7 DEF StartsWork
  <2>2. TypeOK'
    BY <2>1, StepType, StoreAssumption
  <2>3. inflight' \in [Effects -> Nat]
    BY <1>7 DEF StartsWork, EffectsTypeOK
  <2>4. UNCHANGED <<isStarted, open, active, started, errors, ended, boot, rootCall,
                    resolved>>
    BY <1>7 DEF StartsWork, runner
  <2>5. QED
    BY <2>2, <2>3, <2>4 DEF EffectsTypeOK
<1>8. ASSUME NEW e \in Effects, Resubscribes(e) PROVE TypeOK' /\ EffectsTypeOK'
  <2>1. errors[e] + 1 \in 0 .. MaxErrors
    BY <1>1, <1>8 DEF Resubscribes, CanRetry, EffectsTypeOK
  <2>2. listeners' \in Seq(Listeners)
    <3>1. RemoveFirst(listeners, Subscription(e)) \in Seq(Listeners)
      BY <1>1, RemoveFirstType
    <3>2. <<e, errors[e] + 1>> \in Listeners
      BY <2>1, SubscriptionFacts
    <3>3. QED
      BY <1>8, <3>1, <3>2, AppendProperties DEF Resubscribes, Resubscribed
  <2>3. TypeOK'
    BY <1>8, <2>2 DEF Resubscribes, TypeOK
  <2>4. QED
    BY <1>8, <2>1, <2>3 DEF Resubscribes, EffectsTypeOK
<1>9. ASSUME NEW e \in Effects, Over(e) PROVE TypeOK' /\ EffectsTypeOK'
  <2>1. listeners' \in Seq(Listeners)
    BY <1>1, <1>9, RemoveFirstType DEF Over
  <2>2. TypeOK'
    BY <1>9, <2>1 DEF Over, TypeOK
  <2>3. active' \in [Groups -> Instances \cup {None}]
    <3> DEFINE over == EffectsOf(Owner[e]) \subseteq ended \cup {e}
               g == Group[Owner[e]]
    <3>1. active' = IF over THEN [active EXCEPT ![g] = None] ELSE active
      BY <1>9 DEF Over
    <3> HIDE DEF over, g
    <3>2. QED
      BY <3>1 DEF EffectsTypeOK
  <2>4. QED
    BY <1>9, <2>2, <2>3 DEF Over, EffectsTypeOK
<1>10. ASSUME NEW e \in Effects, FailsRunner(e) PROVE TypeOK' /\ EffectsTypeOK'
  <2>1. TypeOK'
    BY <1>10, EmptySeq DEF FailsRunner, TypeOK
  <2>2. QED
    BY <1>10, <2>1 DEF FailsRunner, EffectsTypeOK
<1>11. CASE DestroyAll
  <2>1. Next
    BY <1>11 DEF DestroyAll, Next, Application
  <2>2. TypeOK'
    BY <2>1, StepType, StoreAssumption
  <2>3. QED
    BY <1>11, <2>2 DEF DestroyAll, EffectsTypeOK
<1>12. CASE Flush /\ UNCHANGED effectVars
  <2>1. TypeOK'
    BY <1>12, StepType, StoreAssumption DEF Next
  <2>2. QED
    BY <1>12, <2>1 DEF EffectsTypeOK
<1>13. CASE UNCHANGED allVars
  <2>1. UNCHANGED vars /\ UNCHANGED effectVars
    BY <1>13 DEF allVars
  <2>2. TypeOK'
    BY <2>1, StepType, StoreAssumption
  <2>3. UNCHANGED <<isStarted, open, active, started, errors, ended, inflight, boot,
                    rootCall, resolved>>
    BY <2>1 DEF effectVars
  <2>4. QED
    BY <2>2, <2>3 DEF EffectsTypeOK
<1>14. QED
  BY <1>2, <1>3, <1>4, <1>5, <1>6, <1>7, <1>8, <1>9, <1>10, <1>11, <1>12, <1>13
  DEF EffectsNext, Completes, EndsByError

(* Where an effect lives, runner and store do.                             *)
LEMMA LiveFacts ==
  ASSUME EffectsTypeOK, RunnerInvariant, NEW e \in Effects, Live(e)
  PROVE  open /\ isStarted /\ ~destroyed /\ accepting
BY EffectsOfFacts, EffectsAssumption
DEF Live, RunnerInvariant, EffectsTypeOK

(* Every step keeps runner and store consistent.                           *)
LEMMA StepRunner ==
  /\ TypeOK
  /\ EffectsTypeOK
  /\ RunnerInvariant
  /\ [EffectsNext]_allVars
  => RunnerInvariant'
<1> SUFFICES ASSUME TypeOK, EffectsTypeOK, RunnerInvariant,
                    [EffectsNext]_allVars
             PROVE  RunnerInvariant'
  OBVIOUS
<1> USE DEF runner, effects, effectVars, Unchanged, status, RunnerInvariant
<1>1. MaxErrors \in Nat /\ errors \in [Effects -> 0 .. MaxErrors]
  BY EffectsAssumption DEF EffectsTypeOK
<1>2. ASSUME NEW instances \in Calls, ProvideEffects(instances)
      PROVE  RunnerInvariant'
  BY <1>2 DEF ProvideEffects, vars, Blame
<1>3. CASE AddEffects
  <2> DEFINE i == Head(boot)
             g == Group[i]
             fresh == Accepts(g)
  <2>1. /\ active' = IF fresh THEN [active EXCEPT ![g] = i] ELSE active
        /\ errors' = [e \in Effects |->
                        IF fresh /\ e \in EffectsOf(i) THEN 0 ELSE errors[e]]
        /\ UNCHANGED <<open, isStarted, accepting, destroyed>>
    BY <1>3 DEF AddEffects
  <2>2. fresh => open
    BY DEF Accepts
  <2> HIDE DEF i, g, fresh
  <2>3. ~accepting /\ ~destroyed => Blame'
    <3> SUFFICES ASSUME ~accepting, ~destroyed PROVE Blame'
      OBVIOUS
    <3>1. ~fresh
      BY <2>2
    <3>2. errors' = errors
      BY <1>1, <2>1, <3>1
    <3>3. QED
      BY <3>2 DEF Blame
  <2>4. \A h \in Groups : active'[h] # None => open'
    BY <2>1, <2>2 DEF EffectsTypeOK
  <2>5. QED
    BY <2>1, <2>3, <2>4
<1>4. CASE DispatchEffectsInit
  BY <1>4 DEF DispatchEffectsInit, Blame
<1>5. ASSUME NEW action \in Types, AppDispatches(action)
      PROVE  RunnerInvariant'
  BY <1>5 DEF AppDispatches, Dispatch, Blame
<1>6. ASSUME NEW e \in Effects, Emits(e) PROVE RunnerInvariant'
  BY <1>6 DEF Emits, Blame
<1>7. ASSUME NEW e \in Effects, StartsWork(e) PROVE RunnerInvariant'
  BY <1>7 DEF StartsWork, Blame, vars
<1>8. ASSUME NEW e \in Effects, Resubscribes(e) PROVE RunnerInvariant'
  <2>1. open /\ isStarted /\ ~destroyed /\ accepting
    BY <1>8, LiveFacts DEF Resubscribes, Runs
  <2>2. QED
    BY <1>8, <2>1 DEF Resubscribes
<1>9. ASSUME NEW e \in Effects, Over(e), Runs(e) PROVE RunnerInvariant'
  <2>1. open /\ isStarted /\ ~destroyed /\ accepting
    BY <1>9, LiveFacts DEF Runs
  <2>2. UNCHANGED <<open, isStarted, accepting, destroyed>>
    BY <1>9 DEF Over
  <2>3. QED
    BY <2>1, <2>2
<1>10. ASSUME NEW e \in Effects, FailsRunner(e) PROVE RunnerInvariant'
  <2>1. open /\ isStarted /\ ~destroyed /\ accepting
    BY <1>10, LiveFacts DEF FailsRunner, Unhandled, Runs
  <2>2. e \in Effects \ Dispatching
    BY <1>10 DEF FailsRunner, Materialized
  <2>3. e \notin Handled \/ errors[e] = MaxErrors
    BY <1>1, <1>10 DEF FailsRunner, Unhandled, CanRetry
  <2>4. Blame'
    BY <1>10, <2>2, <2>3 DEF Blame, FailsRunner
  <2>5. QED
    BY <1>10, <2>1, <2>4 DEF FailsRunner
<1>11. CASE DestroyAll
  BY <1>11 DEF DestroyAll, Destroy
<1>12. CASE Flush /\ UNCHANGED effectVars
  BY <1>12, FlushFrame DEF Blame
<1>13. CASE UNCHANGED allVars
  BY <1>13 DEF allVars, vars, Blame
<1>14. QED
  BY <1>2, <1>3, <1>4, <1>5, <1>6, <1>7, <1>8, <1>9, <1>10, <1>11, <1>12, <1>13
  DEF EffectsNext, Completes, EndsByError, Unhandled

(* addEffects of an accepted instance makes its effects live, which were   *)
(* not, and no other.                                                      *)
LEMMA AddFresh ==
  ASSUME EffectsTypeOK, AddEffects, Accepts(Group[Head(boot)])
  PROVE  LET i == Head(boot) IN
         /\ \A e \in EffectsOf(i) : ~Live(e) /\ Live(e)' /\ errors'[e] = 0
         /\ \A e \in Effects \ EffectsOf(i) :
              (Live(e)' <=> Live(e)) /\ errors'[e] = errors[e]
<1> DEFINE i == Head(boot)
           g == Group[i]
<1>1. /\ i \in Instances /\ g \in Groups
      /\ active[g] = None
      /\ active' = [active EXCEPT ![g] = i]
      /\ errors' = [e \in Effects |-> IF e \in EffectsOf(i) THEN 0 ELSE errors[e]]
      /\ ended' = ended \ EffectsOf(i)
  BY EffectsOfFacts DEF AddEffects, Accepts
<1>2. None \notin Instances
  BY EffectsAssumption
<1> HIDE DEF i
<1>3. ASSUME NEW e \in EffectsOf(i) PROVE ~Live(e) /\ Live(e)' /\ errors'[e] = 0
  <2>1. Owner[e] = i /\ e \in Effects
    BY <1>1, EffectsOfFacts
  <2>2. QED
    BY <1>1, <1>2, <2>1 DEF Live, EffectsTypeOK
<1>4. ASSUME NEW e \in Effects \ EffectsOf(i)
      PROVE  (Live(e)' <=> Live(e)) /\ errors'[e] = errors[e]
  <2>1. Owner[e] # i /\ Owner[e] \in Instances /\ Group[Owner[e]] \in Groups
    BY EffectsAssumption, EffectsOfFacts, <1>1 DEF EffectsOf
  <2>2. QED
    BY <1>1, <1>2, <2>1 DEF Live, EffectsTypeOK
<1>5. QED
  BY <1>3, <1>4 DEF i

(* An effect has its current subscription as long as it is live.           *)
LEMMA SubscriptionIn ==
  ASSUME SubscriptionInvariant, TypeOK, NEW e \in Effects
  PROVE  Contains(listeners, Subscription(e)) <=> Live(e)
<1>1. Contains(listeners, Subscription(e)) <=> Subscription(e) \in LiveSubscriptions
  BY ContainsIsToSet DEF SubscriptionInvariant, TypeOK
<1>2. \A x \in Effects : Subscription(x) = Subscription(e) => x = e
  BY DEF Subscription
<1>3. QED
  BY <1>1, <1>2 DEF LiveSubscriptions

(* An effect that is over, and only that one, is no longer live.           *)
LEMMA OverFacts ==
  ASSUME EffectsTypeOK, NEW e \in Effects, Live(e), Over(e)
  PROVE  /\ ~Live(e)' /\ errors' = errors
         /\ \A x \in Effects \ {e} : Live(x)' <=> Live(x)
<1> DEFINE over == EffectsOf(Owner[e]) \subseteq ended \cup {e}
           g == Group[Owner[e]]
<1>1. /\ active' = IF over THEN [active EXCEPT ![g] = None] ELSE active
      /\ ended' = ended \cup {e}
      /\ errors' = errors
  BY DEF Over
<1>2. g \in Groups /\ active[g] = Owner[e]
  BY EffectsOfFacts, EffectsAssumption DEF Live
<1>3. ASSUME NEW x \in Effects \ {e} PROVE Live(x)' <=> Live(x)
  <2>1. Owner[x] \in Instances /\ Group[Owner[x]] \in Groups /\ Owner[x] # None
    BY EffectsAssumption, EffectsOfFacts
  <2>2. CASE ~over
    BY <1>1, <2>2 DEF Live
  <2>3. CASE over /\ Owner[x] = Owner[e]
    <3>1. x \in ended
      BY <2>3 DEF EffectsOf
    <3>2. QED
      BY <1>1, <3>1 DEF Live
  <2>4. CASE over /\ Owner[x] # Owner[e]
    BY <1>1, <1>2, <2>1, <2>4 DEF Live, EffectsTypeOK
  <2>5. QED
    BY <2>2, <2>3, <2>4
<1>4. QED
  BY <1>1, <1>3 DEF Live

(* Every step keeps one subscription per live effect: adding an instance   *)
(* appends new ones, an error replaces one by its successor, the end of an *)
(* effect or of the runner removes.                                        *)
LEMMA StepSubscription ==
  /\ TypeOK
  /\ EffectsTypeOK
  /\ RunnerInvariant
  /\ SubscriptionInvariant
  /\ [EffectsNext]_allVars
  => SubscriptionInvariant'
<1> SUFFICES ASSUME TypeOK, EffectsTypeOK, RunnerInvariant, SubscriptionInvariant,
                    [EffectsNext]_allVars
             PROVE  SubscriptionInvariant'
  OBVIOUS
<1> USE DEF runner, effects, effectVars, Unchanged, status
<1>1. /\ listeners \in Seq(Listeners)
      /\ IsInjective(listeners)
      /\ ToSet(listeners) = LiveSubscriptions
  BY DEF TypeOK, SubscriptionInvariant
<1>2. ASSUME UNCHANGED <<listeners, active, ended, errors>>
      PROVE  SubscriptionInvariant'
  BY <1>1, <1>2 DEF SubscriptionInvariant, LiveSubscriptions, Live, Subscription
<1>3. CASE AddEffects
  <2> DEFINE i == Head(boot)
             g == Group[i]
             fresh == Accepts(g)
             new == {<<e, 0>> : e \in EffectsOf(i)}
  <2>1. i \in Instances /\ errors \in [Effects -> 0 .. MaxErrors]
    BY <1>3 DEF AddEffects, EffectsTypeOK
  <2>2. /\ active' = IF fresh THEN [active EXCEPT ![g] = i] ELSE active
        /\ errors' = [e \in Effects |->
                        IF fresh /\ e \in EffectsOf(i) THEN 0 ELSE errors[e]]
        /\ ended' = IF fresh THEN ended \ EffectsOf(i) ELSE ended
        /\ \E order \in SetToSeqs(new) :
             listeners' = IF fresh THEN listeners \o order ELSE listeners
    BY <1>3 DEF AddEffects
  <2>3. CASE ~fresh
    <3>1. errors' = errors /\ UNCHANGED <<active, ended, listeners>>
      BY <2>1, <2>2, <2>3
    <3>2. QED
      BY <1>2, <3>1
  <2>4. CASE fresh
    <3>1. PICK order \in SetToSeqs(new) : listeners' = listeners \o order
      BY <2>2, <2>4
    <3>2. IsFiniteSet(new) /\ new \subseteq Listeners
      BY <2>1, FiniteSubscriptions, EffectsOfFacts, SubscriptionFacts, EffectsAssumption
    <3>3. /\ \A e \in EffectsOf(i) : ~Live(e) /\ Live(e)' /\ errors'[e] = 0
          /\ \A e \in Effects \ EffectsOf(i) :
               (Live(e)' <=> Live(e)) /\ errors'[e] = errors[e]
          /\ EffectsOf(i) \subseteq Effects
      BY <1>3, <2>1, <2>4, AddFresh, EffectsOfFacts
    <3> HIDE DEF i, g, fresh
    <3>4. LiveSubscriptions' = LiveSubscriptions \cup new
      <4>1. \A e \in EffectsOf(i) : Subscription(e)' = <<e, 0>>
        BY <3>3 DEF Subscription
      <4>2. \A e \in Effects \ EffectsOf(i) : Subscription(e)' = Subscription(e)
        BY <3>3 DEF Subscription
      <4>3. LiveSubscriptions' \subseteq LiveSubscriptions \cup new
        BY <3>3, <4>1, <4>2 DEF LiveSubscriptions
      <4>4. new \subseteq LiveSubscriptions'
        BY <3>3, <4>1 DEF LiveSubscriptions
      <4>5. LiveSubscriptions \subseteq LiveSubscriptions'
        BY <3>3, <4>2 DEF LiveSubscriptions
      <4>6. QED
        BY <4>3, <4>4, <4>5
    <3>5. LiveSubscriptions \cap new = {}
      BY <3>3 DEF LiveSubscriptions, Subscription
    <3> HIDE DEF new
    <3>6. order \in Seq(new) /\ IsInjective(order) /\ ToSet(order) = new
      BY <3>1, <3>2, OrderFacts
    <3>7. order \in Seq(Listeners)
      BY <3>2, <3>6, SeqMonotonic
    <3>8. /\ IsInjective(listeners \o order)
          /\ ToSet(listeners \o order) = ToSet(listeners) \cup new
      BY <1>1, <3>5, <3>6, <3>7, ConcatSubscribers
    <3>9. QED
      BY <1>1, <3>1, <3>4, <3>8 DEF SubscriptionInvariant
  <2>5. QED
    BY <2>3, <2>4
<1>4. ASSUME NEW e \in Effects, Resubscribes(e) PROVE SubscriptionInvariant'
  <2> DEFINE without == RemoveFirst(listeners, Subscription(e))
             new == <<e, errors[e] + 1>>
  <2>1. Live(e) /\ Contains(listeners, Subscription(e))
    BY <1>4, SubscriptionIn DEF Resubscribes, Runs
  <2>2. /\ without \in Seq(Listeners)
        /\ IsInjective(without)
        /\ ToSet(without) = ToSet(listeners) \ {Subscription(e)}
    BY <1>1, <2>1, RemoveFirstSubscriber
  <2>3. new \in Listeners /\ errors \in [Effects -> Nat] /\ errors[e] + 1 # errors[e]
    <3>1. errors[e] + 1 \in 0 .. MaxErrors /\ errors \in [Effects -> 0 .. MaxErrors]
      BY <1>4, EffectsAssumption DEF Resubscribes, CanRetry, EffectsTypeOK
    <3>2. QED
      BY <3>1, SubscriptionFacts
  <2>4. new \notin ToSet(without)
    BY <1>1, <2>2, <2>3 DEF LiveSubscriptions, Subscription
  <2>5. /\ listeners' = Append(without, new)
        /\ errors' = [errors EXCEPT ![e] = errors[e] + 1]
        /\ UNCHANGED <<active, ended>>
    BY <1>4 DEF Resubscribes, Resubscribed
  <2>6. LiveSubscriptions' = (LiveSubscriptions \ {Subscription(e)}) \cup {new}
    <3>1. \A x \in Effects : Live(x)' <=> Live(x)
      BY <2>5 DEF Live
    <3>2. Subscription(e)' = new
      BY <2>3, <2>5 DEF Subscription
    <3>3. \A x \in Effects \ {e} : /\ Subscription(x)' = Subscription(x)
                                   /\ Subscription(x) # Subscription(e)
      BY <2>3, <2>5 DEF Subscription
    <3> HIDE DEF new
    <3>4. LiveSubscriptions' \subseteq (LiveSubscriptions \ {Subscription(e)}) \cup {new}
      BY <3>1, <3>2, <3>3 DEF LiveSubscriptions
    <3>5. new \in LiveSubscriptions'
      BY <2>1, <3>1, <3>2 DEF LiveSubscriptions
    <3>6. LiveSubscriptions \ {Subscription(e)} \subseteq LiveSubscriptions'
      <4> SUFFICES ASSUME NEW l \in LiveSubscriptions, l # Subscription(e)
                   PROVE  l \in LiveSubscriptions'
        OBVIOUS
      <4>1. PICK x \in {y \in Effects : Live(y)} : l = Subscription(x)
        BY DEF LiveSubscriptions
      <4>2. x # e /\ l = Subscription(x)' /\ Live(x)'
        BY <3>1, <3>3, <4>1
      <4>3. QED
        BY <4>1, <4>2 DEF LiveSubscriptions
    <3>7. QED
      BY <3>4, <3>5, <3>6
  <2> HIDE DEF without, new
  <2>7. ~Contains(without, new)
    BY <2>2, <2>4, ContainsIsToSet
  <2>8. /\ IsInjective(Append(without, new))
        /\ ToSet(Append(without, new)) = ToSet(without) \cup {new}
    BY <2>2, <2>3, <2>7, AppendSubscriber
  <2>9. QED
    BY <1>1, <2>2, <2>5, <2>6, <2>8 DEF SubscriptionInvariant
<1>5. ASSUME NEW e \in Effects, Over(e), Runs(e) PROVE SubscriptionInvariant'
  <2>1. Live(e) /\ Contains(listeners, Subscription(e))
    BY <1>5, SubscriptionIn DEF Runs
  <2>2. /\ IsInjective(listeners')
        /\ ToSet(listeners') = ToSet(listeners) \ {Subscription(e)}
    BY <1>1, <1>5, <2>1, RemoveFirstSubscriber DEF Over
  <2>3. /\ ~Live(e)' /\ errors' = errors
        /\ \A x \in Effects \ {e} : Live(x)' <=> Live(x)
    BY <1>5, <2>1, OverFacts
  <2>4. /\ \A x \in Effects : Subscription(x)' = Subscription(x)
        /\ \A x \in Effects \ {e} : Subscription(x) # Subscription(e)
    BY <2>3 DEF Subscription
  <2>5. LiveSubscriptions' = LiveSubscriptions \ {Subscription(e)}
    <3>1. LiveSubscriptions' \subseteq LiveSubscriptions \ {Subscription(e)}
      BY <2>3, <2>4 DEF LiveSubscriptions
    <3>2. LiveSubscriptions \ {Subscription(e)} \subseteq LiveSubscriptions'
      BY <2>3, <2>4 DEF LiveSubscriptions
    <3>3. QED
      BY <3>1, <3>2
  <2>6. QED
    BY <1>1, <2>2, <2>5 DEF SubscriptionInvariant
<1>6. ASSUME ended' = Effects, listeners' = <<>> PROVE SubscriptionInvariant'
  <2>1. LiveSubscriptions' = {}
    BY <1>6 DEF LiveSubscriptions, Live
  <2>2. IsInjective(<<>>) /\ ToSet(<<>>) = {}
    BY DEF IsInjective, ToSet
  <2>3. QED
    BY <1>6, <2>1, <2>2 DEF SubscriptionInvariant
<1>7. ASSUME NEW e \in Effects, FailsRunner(e) PROVE SubscriptionInvariant'
  BY <1>6, <1>7 DEF FailsRunner
<1>8. CASE DestroyAll
  BY <1>6, <1>8 DEF DestroyAll, Destroy
<1>9. CASE Flush /\ UNCHANGED effectVars
  BY <1>2, <1>9, FlushFrame
<1>10. ASSUME NEW instances \in Calls, ProvideEffects(instances)
       PROVE  SubscriptionInvariant'
  BY <1>2, <1>10 DEF ProvideEffects, vars
<1>11. CASE DispatchEffectsInit
  BY <1>2, <1>11 DEF DispatchEffectsInit
<1>12. ASSUME NEW action \in Types, AppDispatches(action)
       PROVE  SubscriptionInvariant'
  BY <1>2, <1>12 DEF AppDispatches, Dispatch, subscriptions
<1>13. ASSUME NEW e \in Effects, Emits(e) PROVE SubscriptionInvariant'
  BY <1>2, <1>13 DEF Emits
<1>14. ASSUME NEW e \in Effects, StartsWork(e) PROVE SubscriptionInvariant'
  BY <1>2, <1>14 DEF StartsWork, vars
<1>15. CASE UNCHANGED allVars
  BY <1>2, <1>15 DEF allVars, vars
<1>16. QED
  BY <1>3, <1>4, <1>5, <1>7, <1>8, <1>9, <1>10, <1>11, <1>12, <1>13, <1>14, <1>15
  DEF EffectsNext, Completes, EndsByError, Unhandled

(* What is in a list and not its head is in its tail.                      *)
LEMMA HeadOrTail ==
  ASSUME NEW S, NEW s \in Seq(S), s # <<>>, NEW x, Contains(s, x), x # Head(s)
  PROVE  Contains(Tail(s), x)
<1>1. PICK k \in 1 .. Len(s) : s[k] = x
  BY DEF Contains
<1>2. /\ Len(s) \in Nat /\ Len(s) # 0 /\ Head(s) = s[1]
      /\ Len(Tail(s)) = Len(s) - 1
      /\ \A i \in 1 .. Len(Tail(s)) : Tail(s)[i] = s[i + 1]
  BY HeadTailProperties, LenProperties, EmptySeq
<1>3. k - 1 \in 1 .. Len(Tail(s)) /\ (k - 1) + 1 = k
  BY <1>1, <1>2
<1>4. Tail(s)[k - 1] = x
  BY <1>1, <1>2, <1>3
<1>5. QED
  BY <1>3, <1>4 DEF Contains

(* What is appended to a list is in it, beside what was there.             *)
LEMMA AppendContains ==
  ASSUME NEW S, NEW s \in Seq(S), NEW x \in S
  PROVE  /\ Contains(Append(s, x), x)
         /\ \A y : Contains(s, y) => Contains(Append(s, x), y)
<1>1. /\ Len(Append(s, x)) = Len(s) + 1 /\ Append(s, x)[Len(s) + 1] = x
      /\ Len(s) \in Nat
      /\ \A i \in 1 .. Len(s) : Append(s, x)[i] = s[i]
  BY AppendProperties, LenProperties
<1>2. QED
  BY <1>1 DEF Contains

(* Every step keeps that nothing is missed: a live effect is in the        *)
(* snapshot when an action goes out, leaves the snapshot by hearing it,    *)
(* and takes what it heard along when it subscribes anew.                  *)
LEMMA StepHeard ==
  /\ TypeOK
  /\ EffectsTypeOK
  /\ SubscriptionInvariant
  /\ HeardInvariant
  /\ [EffectsNext]_allVars
  => HeardInvariant'
<1> SUFFICES ASSUME TypeOK, EffectsTypeOK, SubscriptionInvariant, HeardInvariant,
                    [EffectsNext]_allVars
             PROVE  HeardInvariant'
  OBVIOUS
<1> USE DEF runner, effects, effectVars, Unchanged, status
<1>1. /\ Version \in Nat
      /\ \A e \in Effects : /\ errors[e] \in Nat
                            /\ Owner[e] \in Instances
                            /\ resolved[Owner[e]] \in Nat
                            /\ Subscription(e) \in Listeners
                            /\ \A k \in 0 .. errors[e] : <<e, k>> \in Listeners
  <2>1. ASSUME NEW e \in Effects
        PROVE  /\ errors[e] \in Nat /\ errors[e] \in 0 .. MaxErrors
               /\ Owner[e] \in Instances
               /\ resolved[Owner[e]] \in Nat
    BY EffectsAssumption DEF EffectsTypeOK
  <2>2. Version \in Nat /\ MaxErrors \in Nat
    BY LenProperties, EffectsAssumption DEF TypeOK, Version
  <2>3. ASSUME NEW e \in Effects PROVE \A k \in 0 .. errors[e] : k \in 0 .. MaxErrors
    BY <2>1, <2>2
  <2>4. QED
    BY <2>1, <2>2, <2>3, SubscriptionFacts DEF Subscription
<1>2. /\ Nobody \notin Listeners /\ Nobody \notin Observers
      /\ Observers \cap Listeners = {}
  BY StoreAssumption
<1>3. /\ \A e \in Effects : Live(e) =>
           \A n \in resolved[Owner[e]] + 1 .. Version :
             (n = Version /\ phase # "idle") \/ HasHeard(e, n)
      /\ cur \in Listeners => phase = "scanned" /\ Contains(heard[cur], Version)
      /\ phase = "scanned" =>
           \A e \in Effects : Live(e) /\ resolved[Owner[e]] < Version =>
             HasHeard(e, Version) \/ Contains(todo, Subscription(e))
  BY DEF HeardInvariant, NoActionMissed, HasHeard
<1>4. ASSUME \A e \in Effects : Live(e)' =>
               \A n \in resolved'[Owner[e]] + 1 .. Version' :
                 (n = Version' /\ phase' # "idle") \/ HasHeard(e, n)',
             cur' \in Listeners => phase' = "scanned" /\ Contains(heard'[cur'], Version'),
             phase' = "scanned" =>
               \A e \in Effects : Live(e)' /\ resolved'[Owner[e]] < Version' =>
                 HasHeard(e, Version)' \/ Contains(todo', Subscription(e)')
      PROVE  HeardInvariant'
  BY <1>4 DEF HeardInvariant, NoActionMissed, HasHeard
<1>5. ASSUME UNCHANGED <<phase, todo, cur, log, heard, errors, resolved>>,
             \A e \in Effects : Live(e)' => Live(e)
      PROVE  HeardInvariant'
  BY <1>3, <1>4, <1>5 DEF HasHeard, Subscription, Version
<1>6. ASSUME UNCHANGED <<phase, todo, cur, log, heard, errors, resolved, active, ended>>
      PROVE  HeardInvariant'
  BY <1>5, <1>6 DEF Live
<1>7. CASE AddEffects
  <2> DEFINE i == Head(boot)
             g == Group[i]
             fresh == Accepts(g)
  <2>1. /\ i \in Instances /\ errors \in [Effects -> 0 .. MaxErrors]
        /\ phase = "idle" /\ cur = Nobody
        /\ UNCHANGED <<phase, todo, cur, log, heard>>
    BY <1>7 DEF AddEffects, EffectsTypeOK, Idle, Flushing
  <2>2. /\ active' = IF fresh THEN [active EXCEPT ![g] = i] ELSE active
        /\ errors' = [e \in Effects |->
                        IF fresh /\ e \in EffectsOf(i) THEN 0 ELSE errors[e]]
        /\ ended' = IF fresh THEN ended \ EffectsOf(i) ELSE ended
        /\ resolved' = IF fresh THEN [resolved EXCEPT ![i] = Version]
                                ELSE resolved
    BY <1>7 DEF AddEffects
  <2>3. CASE ~fresh
    <3>1. errors' = errors /\ UNCHANGED <<active, ended, resolved>>
      BY <2>1, <2>2, <2>3
    <3>2. QED
      BY <1>6, <2>1, <3>1
  <2>4. CASE fresh
    <3>1. \A e \in Effects \ EffectsOf(i) :
            (Live(e)' <=> Live(e)) /\ errors'[e] = errors[e]
      BY <1>7, <2>4, AddFresh
    <3>2. /\ resolved' = [resolved EXCEPT ![i] = Version]
          /\ resolved \in [Instances -> Nat]
      BY <2>2, <2>4 DEF EffectsTypeOK
    <3> HIDE DEF i, fresh, g
    <3>3. \A e \in EffectsOf(i) : resolved'[Owner[e]] = Version
      BY <2>1, <3>2, EffectsOfFacts
    <3>4. \A e \in Effects \ EffectsOf(i) : resolved'[Owner[e]] = resolved[Owner[e]]
      BY <1>1, <2>1, <3>2 DEF EffectsOf
    <3>5. Version' = Version
      BY <2>1 DEF Version
    <3>6. ASSUME NEW e \in Effects, Live(e)',
                 NEW n \in resolved'[Owner[e]] + 1 .. Version'
          PROVE  HasHeard(e, n)'
      <4>1. CASE e \in EffectsOf(i)
        BY <1>1, <3>3, <3>5, <3>6, <4>1
      <4>2. CASE e \notin EffectsOf(i)
        <5>1. HasHeard(e, n)
          BY <1>3, <2>1, <3>1, <3>4, <3>5, <3>6, <4>2
        <5>2. QED
          BY <2>1, <3>1, <4>2, <5>1 DEF HasHeard
      <4>3. QED
        BY <4>1, <4>2
    <3>7. QED
      BY <1>2, <1>4, <2>1, <3>6
  <2>5. QED
    BY <2>3, <2>4
<1>8. ASSUME NEW e \in Effects, Resubscribes(e) PROVE HeardInvariant'
  <2>1. /\ errors' = [errors EXCEPT ![e] = errors[e] + 1]
        /\ UNCHANGED <<phase, todo, cur, log, heard, active, ended, resolved>>
        /\ errors \in [Effects -> 0 .. MaxErrors]
        /\ Live(e)
    BY <1>8 DEF Resubscribes, Runs, EffectsTypeOK
  <2>2. /\ \A x \in Effects : Live(x)' <=> Live(x)
        /\ Version' = Version
    BY <2>1 DEF Live, Version
  <2>3. \A x \in Effects : \A n : HasHeard(x, n) => HasHeard(x, n)'
    <3>1. \A x \in Effects : \A k \in 0 .. errors[x] : k \in 0 .. errors'[x]
      BY <1>1, <2>1
    <3>2. QED
      BY <2>1, <3>1 DEF HasHeard
  <2>4. \A x \in Effects \ {e} : Subscription(x)' = Subscription(x)
    BY <2>1 DEF Subscription
  <2>5. phase = "scanned" => HasHeard(e, Version)
    <3>1. CASE Hearing(e)
      <4>1. Contains(heard[<<e, errors[e]>>], Version)
        BY <1>1, <1>3, <3>1 DEF Hearing, Subscription
      <4>2. QED
        BY <1>1, <4>1 DEF HasHeard
    <3>2. CASE Resuming(e)
      BY <3>2 DEF Resuming, Task, Idle, Flushing
    <3>3. QED
      BY <1>8, <3>1, <3>2 DEF Resubscribes, Runs
  <2>6. ASSUME NEW x \in Effects, Live(x)',
               NEW n \in resolved'[Owner[x]] + 1 .. Version'
        PROVE  (n = Version' /\ phase' # "idle") \/ HasHeard(x, n)'
    BY <1>3, <2>1, <2>2, <2>3, <2>6
  <2>7. ASSUME NEW x \in Effects, phase' = "scanned", Live(x)',
               resolved'[Owner[x]] < Version'
        PROVE  HasHeard(x, Version)' \/ Contains(todo', Subscription(x)')
    <3>1. HasHeard(x, Version) \/ Contains(todo, Subscription(x))
      BY <1>3, <2>1, <2>2, <2>7
    <3>2. CASE x = e
      BY <2>1, <2>2, <2>3, <2>5, <2>7, <3>2
    <3>3. CASE x # e
      BY <2>1, <2>2, <2>3, <2>4, <3>1, <3>3
    <3>4. QED
      BY <3>2, <3>3
  <2>8. QED
    BY <1>3, <1>4, <2>1, <2>2, <2>6, <2>7
<1>9. ASSUME NEW e \in Effects, Over(e), Runs(e) PROVE HeardInvariant'
  <2>1. \A x \in Effects : Live(x)' => Live(x)
    BY <1>9, OverFacts DEF Runs
  <2>2. UNCHANGED <<phase, todo, cur, log, heard, errors, resolved>>
    BY <1>9 DEF Over
  <2>3. QED
    BY <1>5, <2>1, <2>2
<1>10. ASSUME NEW e \in Effects, FailsRunner(e) PROVE HeardInvariant'
  BY <1>5, <1>10 DEF FailsRunner, Live
<1>11. CASE DestroyAll
  BY <1>5, <1>11 DEF DestroyAll, Destroy, Live, config
<1>12. CASE Flush /\ UNCHANGED effectVars
  <2>1. /\ \A e \in Effects : /\ Live(e)' <=> Live(e)
                              /\ Subscription(e)' = Subscription(e)
                              /\ errors'[e] = errors[e]
                              /\ resolved'[Owner[e]] = resolved[Owner[e]]
        /\ UNCHANGED <<active, ended, errors, resolved>>
    BY <1>12 DEF Live, Subscription
  <2>2. \A e \in Effects : Live(e) => Contains(listeners, Subscription(e))
    BY SubscriptionIn
  <2>3. CASE Scan
    <3>1. /\ phase = "idle" /\ phase' = "state" /\ cur' = cur /\ heard' = heard
          /\ Version' = Version + 1
      <4>1. Len(log') = Len(log) + 1
        <5>1. Head(queue) \in Actions
          BY <2>3, HeadTailProperties DEF Scan, Runnable, TypeOK
        <5>2. QED
          BY <2>3, <5>1, AppendProperties DEF Scan, TypeOK
      <4>2. QED
        BY <2>3, <4>1 DEF Scan, Runnable, subscriptions, Version
    <3>2. ASSUME NEW e \in Effects, Live(e)',
                 NEW n \in resolved'[Owner[e]] + 1 .. Version'
          PROVE  n = Version' \/ HasHeard(e, n)'
      <4>1. CASE n = Version'
        BY <4>1
      <4>2. CASE n # Version'
        <5>1. n \in resolved[Owner[e]] + 1 .. Version
          BY <1>1, <2>1, <3>1, <4>2
        <5>2. HasHeard(e, n)
          BY <1>3, <2>1, <3>1, <3>2, <5>1
        <5>3. QED
          BY <2>1, <3>1, <5>2 DEF HasHeard
      <4>3. QED
        BY <4>1, <4>2
    <3>3. QED
      BY <1>3, <1>4, <3>1, <3>2
  <2>4. CASE ReducerThrows \/ ErrorNotification
    BY <1>6, <2>1, <2>4
    DEF ReducerThrows, ErrorNotification, flow, subscriptions
  <2>5. CASE NotifyObserver
    <3>1. /\ UNCHANGED <<phase, log, heard>> /\ phase = "state"
          /\ Version' = Version
      BY <2>5 DEF NotifyObserver, Version
    <3>2. cur' \notin Listeners
      <4>1. Contains(observers, cur') /\ observers \in Seq(Observers)
        BY <2>5 DEF NotifyObserver, TypeOK
      <4>2. cur' \in Observers
        BY <4>1, ContainsIsToSet
      <4>3. QED
        BY <1>2, <4>2
    <3>3. QED
      BY <1>3, <1>4, <2>1, <3>1, <3>2 DEF HasHeard
  <2>6. CASE NotifyListener
    <3> DEFINE l == Head(todo)
    <3>1. /\ phase = "scanned" /\ phase' = phase /\ cur' = l
          /\ todo # <<>> /\ todo' = Tail(todo)
          /\ heard' = [heard EXCEPT ![l] = Append(heard[l], Version)]
          /\ Version' = Version
          /\ todo \in Seq(Observers \cup Listeners)
      BY <2>6 DEF NotifyListener, Version, TypeOK
    <3>2. l \in Listeners
      BY <2>6, ContainsIsToSet DEF NotifyListener, TypeOK
    <3> HIDE DEF l
    <3>3. /\ heard'[l] = Append(heard[l], Version)
          /\ heard[l] \in Seq(Nat)
          /\ \A x \in Listeners \ {l} : heard'[x] = heard[x]
      BY <3>1, <3>2 DEF TypeOK
    <3>4. /\ Contains(heard'[l], Version)
          /\ \A x \in Listeners : \A n : Contains(heard[x], n) => Contains(heard'[x], n)
      <4> DEFINE before == heard[l]
                 after == heard'[l]
      <4>1. after = Append(before, Version) /\ before \in Seq(Nat)
        BY <3>3
      <4> HIDE DEF before, after
      <4>2. /\ Contains(after, Version)
            /\ \A n : Contains(before, n) => Contains(after, n)
        BY <1>1, <4>1, AppendContains
      <4>3. QED
        BY <3>3, <4>2 DEF before, after
    <3>5. ASSUME NEW e \in Effects, NEW n, HasHeard(e, n) PROVE HasHeard(e, n)'
      <4>1. PICK k \in 0 .. errors[e] : Contains(heard[<<e, k>>], n)
        BY <3>5 DEF HasHeard
      <4>2. Contains(heard'[<<e, k>>], n)
        BY <1>1, <3>4, <4>1
      <4>3. QED
        BY <2>1, <4>2 DEF HasHeard
    <3>6. ASSUME NEW e \in Effects, Live(e), resolved[Owner[e]] < Version
          PROVE  HasHeard(e, Version)' \/ Contains(todo', Subscription(e))
      <4>1. CASE HasHeard(e, Version)
        BY <3>1, <3>5, <4>1
      <4>2. CASE Subscription(e) = l
        <5>1. Contains(heard'[<<e, errors[e]>>], Version) /\ errors[e] \in 0 .. errors[e]
          BY <1>1, <3>4, <4>2 DEF Subscription
        <5>2. QED
          BY <2>1, <3>1, <5>1 DEF HasHeard
      <4>3. CASE Contains(todo, Subscription(e)) /\ Subscription(e) # l
        BY <3>1, <4>3, HeadOrTail DEF l
      <4>4. QED
        BY <1>3, <3>1, <3>6, <4>1, <4>2, <4>3
    <3>7. ASSUME NEW e \in Effects, Live(e)',
                 NEW n \in resolved'[Owner[e]] + 1 .. Version'
          PROVE  (n = Version' /\ phase' # "idle") \/ HasHeard(e, n)'
      BY <1>3, <2>1, <3>1, <3>5, <3>7
    <3>8. QED
      BY <1>4, <2>1, <3>1, <3>4, <3>6, <3>7
  <2>7. CASE SkipClosed
    <3>1. /\ UNCHANGED <<phase, cur, log, heard>> /\ Version' = Version
          /\ todo # <<>> /\ todo' = Tail(todo) /\ todo \in Seq(Observers \cup Listeners)
          /\ ~Contains(listeners, Head(todo))
      BY <2>7 DEF SkipClosed, subscriptions, Version, TypeOK
    <3>2. ASSUME NEW e \in Effects, Live(e), Contains(todo, Subscription(e))
          PROVE  Contains(todo', Subscription(e))
      <4>1. Subscription(e) # Head(todo)
        BY <2>2, <3>1, <3>2
      <4>2. QED
        BY <3>1, <3>2, <4>1, HeadOrTail
    <3>3. \A e \in Effects : \A n : HasHeard(e, n) => HasHeard(e, n)'
      BY <2>1, <3>1 DEF HasHeard
    <3>4. QED
      BY <1>3, <1>4, <2>1, <3>1, <3>2, <3>3
  <2>8. CASE CallbackReturns
    <3>1. UNCHANGED <<phase, todo, log, heard>> /\ cur' = Nobody /\ Version' = Version
      BY <2>8 DEF CallbackReturns, subscriptions, Version
    <3>2. \A e \in Effects : \A n : HasHeard(e, n) => HasHeard(e, n)'
      BY <2>1, <3>1 DEF HasHeard
    <3>3. QED
      BY <1>2, <1>3, <1>4, <2>1, <3>1, <3>2
  <2>9. CASE EmitScanned
    <3>1. /\ phase = "state" /\ phase' = "scanned" /\ todo' = listeners
          /\ UNCHANGED <<cur, log, heard>> /\ Version' = Version
      BY <2>9 DEF EmitScanned, subscriptions, Version
    <3>2. \A e \in Effects : \A n : HasHeard(e, n) => HasHeard(e, n)'
      BY <2>1, <3>1 DEF HasHeard
    <3>3. QED
      BY <1>3, <1>4, <2>1, <2>2, <3>1, <3>2
  <2>10. CASE Flushed
    <3>1. /\ phase = "scanned" /\ phase' = "idle" /\ todo = <<>> /\ cur = Nobody
          /\ UNCHANGED <<cur, log, heard>> /\ Version' = Version
      BY <2>10 DEF Flushed, CalledAll, subscriptions, Version
    <3>2. \A e \in Effects : \A n : HasHeard(e, n) => HasHeard(e, n)'
      BY <2>1, <3>1 DEF HasHeard
    <3>3. \A x : ~Contains(todo, x)
      BY <3>1 DEF Contains
    <3>4. ASSUME NEW e \in Effects, Live(e)',
                 NEW n \in resolved'[Owner[e]] + 1 .. Version'
          PROVE  HasHeard(e, n)'
      <4>1. Live(e) /\ n \in resolved[Owner[e]] + 1 .. Version
        BY <2>1, <3>1, <3>4
      <4>2. CASE n = Version
        <5>1. resolved[Owner[e]] < Version
          BY <1>1, <4>1, <4>2
        <5>2. HasHeard(e, Version)
          BY <1>3, <3>1, <3>3, <4>1, <5>1
        <5>3. QED
          BY <3>2, <4>2, <5>2
      <4>3. CASE n # Version
        BY <1>3, <3>2, <4>1, <4>3
      <4>4. QED
        BY <4>2, <4>3
    <3>5. QED
      BY <1>2, <1>4, <3>1, <3>4
  <2>11. QED
    BY <1>12, <2>3, <2>4, <2>5, <2>6, <2>7, <2>8, <2>9, <2>10 DEF Flush
<1>13. ASSUME NEW instances \in Calls, ProvideEffects(instances)
       PROVE  HeardInvariant'
  BY <1>6, <1>13 DEF ProvideEffects, vars
<1>14. CASE DispatchEffectsInit
  BY <1>6, <1>14 DEF DispatchEffectsInit
<1>15. ASSUME NEW action \in Types, AppDispatches(action)
       PROVE  HeardInvariant'
  BY <1>6, <1>15 DEF AppDispatches, Dispatch, subscriptions
<1>16. ASSUME NEW e \in Effects, Emits(e) PROVE HeardInvariant'
  BY <1>6, <1>16 DEF Emits
<1>17. ASSUME NEW e \in Effects, StartsWork(e) PROVE HeardInvariant'
  BY <1>6, <1>17 DEF StartsWork, vars
<1>18. CASE UNCHANGED allVars
  BY <1>6, <1>18 DEF allVars, vars
<1>19. QED
  BY <1>7, <1>8, <1>9, <1>10, <1>11, <1>12, <1>13, <1>14, <1>15, <1>16, <1>17, <1>18
  DEF EffectsNext, Completes, EndsByError, Unhandled

(* A dispatch adds to Inits at most its own position.                      *)
LEMMA InitsGrow ==
  ASSUME TypeOK, NEW action \in Actions, Next_(action)
  PROVE  /\ dispatched # <<>> => dispatched' # <<>>
         /\ Len(dispatched) <= Len(dispatched')
         /\ Inits \subseteq Inits'
         /\ action # ROOT_EFFECTS_INIT => Inits' = Inits
         /\ \A n \in Inits' \ Inits : accepting /\ n = Len(dispatched) + 1
<1>1. /\ Len(dispatched) \in Nat /\ DOMAIN dispatched = 1 .. Len(dispatched)
      /\ dispatched' \in Seq(Actions) /\ DOMAIN dispatched' = 1 .. Len(dispatched')
  BY NextGrows, LenProperties DEF TypeOK
<1>2. CASE dispatched' = dispatched
  BY <1>1, <1>2 DEF Inits
<1>3. CASE /\ accepting
           /\ Len(dispatched') = Len(dispatched) + 1
           /\ dispatched'[Len(dispatched) + 1] = action
           /\ \A n \in 1 .. Len(dispatched) : dispatched'[n] = dispatched[n]
  <2>1. DOMAIN dispatched' = 1 .. Len(dispatched) + 1
    BY <1>1, <1>3
  <2>2. dispatched' # <<>>
    BY <1>1, <1>3, EmptySeq
  <2>3. \A n \in DOMAIN dispatched' :
          n \in DOMAIN dispatched \/ n = Len(dispatched) + 1
    BY <1>1, <2>1
  <2>4. Inits \subseteq Inits'
    BY <1>1, <1>3, <2>1 DEF Inits
  <2>5. \A n \in Inits' \ Inits : n = Len(dispatched) + 1
    BY <1>1, <1>3, <2>1, <2>3 DEF Inits
  <2>6. ASSUME action # ROOT_EFFECTS_INIT PROVE Inits' \subseteq Inits
    BY <1>1, <1>3, <2>1, <2>3, <2>6 DEF Inits
  <2>7. Len(dispatched) <= Len(dispatched')
    BY <1>1, <1>3
  <2>8. action # ROOT_EFFECTS_INIT => Inits' = Inits
    BY <2>4, <2>6
  <2>9. QED
    BY <1>3, <2>2, <2>4, <2>5, <2>7, <2>8
<1>4. QED
  BY <1>2, <1>3, NextGrows

(* Every step keeps the order of the initializer.                          *)
LEMMA StepBoot ==
  /\ TypeOK
  /\ EffectsTypeOK
  /\ RunnerInvariant
  /\ BootInvariant
  /\ [EffectsNext]_allVars
  => BootInvariant'
<1> SUFFICES ASSUME TypeOK, EffectsTypeOK, RunnerInvariant, BootInvariant,
                    [EffectsNext]_allVars
             PROVE  BootInvariant'
  OBVIOUS
<1> USE DEF runner, effects, effectVars, Unchanged, status
<1>1. /\ Len(dispatched) \in Nat /\ Len(dispatched) >= 1
      /\ DOMAIN dispatched = 1 .. Len(dispatched)
      /\ started \in [Groups -> Nat]
      /\ \A i \in ToSet(rootCall) : i \in Instances /\ Group[i] \in Groups
  <2>1. Len(dispatched) \in Nat /\ DOMAIN dispatched = 1 .. Len(dispatched)
    BY LenProperties DEF TypeOK
  <2>2. Len(dispatched) # 0
    BY EmptySeq DEF TypeOK, BootInvariant
  <2>3. ToSet(rootCall) \subseteq Instances
    BY ContainsIsToSet DEF EffectsTypeOK
  <2>4. QED
    BY <2>1, <2>2, <2>3, EffectsOfFacts DEF EffectsTypeOK
<1>2. \A n \in Inits : n \in 1 .. Len(dispatched)
  BY <1>1 DEF Inits
<1>3. ASSUME UNCHANGED <<boot, rootCall, started, isStarted>>,
             destroyed => destroyed', accepting' => accepting,
             \/ UNCHANGED dispatched
             \/ \E action \in Actions \ {ROOT_EFFECTS_INIT} : Next_(action)
      PROVE  BootInvariant'
  <2>1. /\ dispatched' # <<>>
        /\ Len(dispatched) <= Len(dispatched')
        /\ Inits' = Inits
        /\ Len(dispatched') \in Nat
    <3>1. CASE UNCHANGED dispatched
      BY <1>1, <3>1 DEF Inits, BootInvariant
    <3>2. CASE \E action \in Actions \ {ROOT_EFFECTS_INIT} : Next_(action)
      <4>1. PICK action \in Actions \ {ROOT_EFFECTS_INIT} : Next_(action)
        BY <3>2
      <4>2. dispatched' \in Seq(Actions)
        BY <4>1, NextGrows
      <4>3. QED
        BY <4>1, <4>2, InitsGrow, LenProperties DEF BootInvariant
    <3>3. QED
      BY <1>3, <3>1, <3>2
  <2>2. \A g \in Groups : started'[g] <= Len(dispatched')
    BY <1>1, <1>3, <2>1 DEF BootInvariant
  <2>3. QED
    BY <1>3, <2>1, <2>2 DEF BootInvariant, InitPending
<1>4. ASSUME NEW instances \in Calls, ProvideEffects(instances)
      PROVE  BootInvariant'
  <2>1. /\ boot = <<>> /\ ~destroyed /\ isStarted'
        /\ boot' = Initializer(instances)
        /\ rootCall' = IF isStarted THEN rootCall ELSE instances
        /\ UNCHANGED <<dispatched, started, destroyed, accepting>>
    BY <1>4 DEF ProvideEffects, Task, vars
  <2>2. instances \in Seq(Instances) /\ Inits' = Inits
    BY <2>1, EffectsAssumption DEF Inits
  <2>3. /\ Len(instances) \in Nat /\ DOMAIN instances = 1 .. Len(instances)
        /\ \A j \in 1 .. Len(instances) :
             instances[j] \in Instances /\ instances[j] # ROOT_EFFECTS_INIT
    BY <2>2, LenProperties, ElementOfSeq, EffectsAssumption
  <2>4. CASE isStarted
    <3>1. boot' = instances
      BY <2>1, <2>2, <2>4, ConcatEmptySeq DEF Initializer
    <3>2. ~InitPending'
      BY <2>3, <3>1 DEF InitPending, Contains
    <3>3. \A j \in 1 .. Len(boot') - 1 : boot'[j] # ROOT_EFFECTS_INIT
      BY <2>3, <3>1
    <3>4. QED
      BY <2>1, <2>2, <2>4, <3>2, <3>3 DEF BootInvariant
  <2>5. CASE ~isStarted
    <3> DEFINE all == instances \o <<ROOT_EFFECTS_INIT>>
    <3>1. boot' = all
      BY <2>1, <2>5 DEF Initializer
    <3>2. /\ Len(all) = Len(instances) + 1
          /\ \A j \in 1 .. Len(instances) : all[j] = instances[j]
      <4> DEFINE S == Instances \cup {ROOT_EFFECTS_INIT}
      <4>1. instances \in Seq(S) /\ <<ROOT_EFFECTS_INIT>> \in Seq(S)
        BY <2>2, SeqMonotonic
      <4>2. Len(<<ROOT_EFFECTS_INIT>>) = 1
        OBVIOUS
      <4>3. /\ Len(all) = Len(instances) + 1
            /\ \A j \in 1 .. Len(instances) + 1 :
                 all[j] = IF j <= Len(instances) THEN instances[j]
                          ELSE <<ROOT_EFFECTS_INIT>>[j - Len(instances)]
        BY <4>1, <4>2, ConcatProperties
      <4> HIDE DEF all
      <4>4. QED
        BY <2>3, <4>3
    <3> HIDE DEF all
    <3>3. \A j \in 1 .. Len(boot') - 1 : boot'[j] # ROOT_EFFECTS_INIT
      BY <2>3, <3>1, <3>2
    <3>4. Inits = {}
      BY <2>1, <2>5 DEF BootInvariant
    <3>5. ASSUME NEW i \in ToSet(instances) PROVE Contains(boot', i)
      <4>1. PICK j \in 1 .. Len(instances) : instances[j] = i
        BY <2>3, <3>5 DEF ToSet
      <4>2. j \in 1 .. Len(boot') /\ boot'[j] = i
        BY <2>3, <3>1, <3>2, <4>1
      <4>3. QED
        BY <4>2 DEF Contains
    <3>6. QED
      BY <2>1, <2>2, <2>5, <3>3, <3>4, <3>5 DEF BootInvariant
  <2>6. QED
    BY <2>4, <2>5
<1>5. CASE AddEffects
  <2> DEFINE i == Head(boot)
             g == Group[i]
             first == FirstOfGroup(g)
  <2>1. /\ i \in Instances /\ g \in Groups
        /\ boot # <<>> /\ boot' = Tail(boot)
        /\ UNCHANGED <<isStarted, rootCall, accepting, destroyed>>
        /\ started' = IF first THEN [started EXCEPT ![g] = Len(dispatched)]
                               ELSE started
        /\ IF first /\ i \in WithInit THEN Next_(OnInit)
                                      ELSE UNCHANGED <<queue, dispatched>>
    BY <1>5, EffectsOfFacts DEF AddEffects
  <2>2. first <=> open /\ started[g] = 0
    BY DEF FirstOfGroup
  <2>3. /\ \A j \in 1 .. Len(boot) - 1 : Tail(boot)[j] = boot[j + 1]
        /\ Len(Tail(boot)) = Len(boot) - 1
        /\ Len(boot) \in Nat /\ Len(boot) >= 1
        /\ boot \in Seq(Instances \cup {ROOT_EFFECTS_INIT})
    <3>1. boot \in Seq(Instances \cup {ROOT_EFFECTS_INIT})
      BY DEF EffectsTypeOK
    <3>2. Len(boot) \in Nat /\ Len(boot) # 0
      BY <2>1, <3>1, LenProperties, EmptySeq
    <3>3. QED
      BY <2>1, <3>1, <3>2, HeadTailProperties
  <2>4. i # ROOT_EFFECTS_INIT
    BY <2>1, EffectsAssumption
  <2>5. \A x : Contains(boot', x) => Contains(boot, x)
    <3> SUFFICES ASSUME NEW x, NEW j \in 1 .. Len(boot'), boot'[j] = x
                 PROVE  Contains(boot, x)
      BY DEF Contains
    <3>1. j + 1 \in 1 .. Len(boot) /\ boot[j + 1] = x
      BY <2>1, <2>3
    <3>2. QED
      BY <3>1 DEF Contains
  <2>6. \A x : Contains(boot, x) /\ x # i => Contains(boot', x)
    BY <2>1, <2>3, HeadOrTail
  <2>7. /\ dispatched' # <<>>
        /\ Len(dispatched) <= Len(dispatched') /\ Len(dispatched') \in Nat
        /\ Inits' = Inits
    <3>1. CASE first /\ i \in WithInit
      <4>1. Next_(OnInit) /\ OnInit \in Actions /\ OnInit # ROOT_EFFECTS_INIT
        BY <2>1, <3>1, EffectActions, EffectsAssumption
      <4>2. dispatched' \in Seq(Actions)
        BY <4>1, NextGrows
      <4>3. QED
        BY <4>1, <4>2, InitsGrow, LenProperties DEF BootInvariant
    <3>2. CASE ~(first /\ i \in WithInit)
      BY <1>1, <2>1, <3>2 DEF Inits, BootInvariant
    <3>3. QED
      BY <3>1, <3>2
  <2> HIDE DEF i, g, first
  <2>8. \A h \in Groups : /\ started'[h] <= Len(dispatched')
                          /\ started[h] # 0 => started'[h] = started[h]
    BY <1>1, <2>1, <2>2, <2>7 DEF BootInvariant
  <2>9. accepting => started'[g] # 0
    <3>1. accepting => open
      BY <2>1 DEF RunnerInvariant, BootInvariant
    <3>2. QED
      BY <1>1, <2>1, <2>2, <3>1
  <2>10. \A j \in 1 .. Len(boot') - 1 : boot'[j] # ROOT_EFFECTS_INIT
    <3> SUFFICES ASSUME NEW j \in 1 .. Len(boot') - 1
                 PROVE  boot'[j] # ROOT_EFFECTS_INIT
      OBVIOUS
    <3>1. j + 1 \in 1 .. Len(boot) - 1 /\ boot'[j] = boot[j + 1]
      BY <2>1, <2>3
    <3>2. QED
      BY <3>1 DEF BootInvariant
  <2>11. InitPending' => InitPending
    BY <2>5 DEF InitPending
  <2>12. ASSUME InitPending', NEW x \in ToSet(rootCall'), ~Contains(boot', x), accepting'
         PROVE  started'[Group[x]] # 0
    <3>1. CASE x = i
      BY <2>1, <2>9, <2>12, <3>1 DEF g
    <3>2. CASE x # i
      <4>1. ~Contains(boot, x)
        BY <2>6, <2>12, <3>2
      <4>2. started[Group[x]] # 0 /\ Group[x] \in Groups
        BY <1>1, <2>1, <2>11, <2>12, <4>1 DEF BootInvariant
      <4>3. QED
        BY <2>8, <4>2
    <3>3. QED
      BY <3>1, <3>2
  <2>13. ASSUME NEW n \in Inits', NEW x \in ToSet(rootCall')
         PROVE  started'[Group[x]] \in 1 .. n - 1
    <3>1. started[Group[x]] \in 1 .. n - 1 /\ Group[x] \in Groups
      BY <1>1, <2>1, <2>7, <2>13 DEF BootInvariant
    <3>2. started[Group[x]] # 0
      BY <3>1
    <3>3. QED
      BY <2>8, <3>1, <3>2
  <2>14. QED
    BY <2>1, <2>7, <2>8, <2>10, <2>11, <2>12, <2>13 DEF BootInvariant
<1>6. CASE DispatchEffectsInit
  <2>1. /\ boot = <<ROOT_EFFECTS_INIT>> /\ boot' = <<>>
        /\ Next_(ROOT_EFFECTS_INIT)
        /\ UNCHANGED <<isStarted, rootCall, started, accepting, destroyed>>
    BY <1>6 DEF DispatchEffectsInit
  <2>2. /\ Len(boot) = 1 /\ boot[1] = ROOT_EFFECTS_INIT
        /\ Len(boot') = 0
    BY <2>1
  <2>3. InitPending /\ ~InitPending'
    BY <2>2 DEF InitPending, Contains
  <2>4. Inits = {}
    BY <2>3 DEF BootInvariant
  <2>5. ROOT_EFFECTS_INIT \in Actions
    BY EffectActions
  <2>6. /\ dispatched' # <<>>
        /\ Len(dispatched) <= Len(dispatched') /\ Len(dispatched') \in Nat
        /\ \A n \in Inits' : accepting /\ n = Len(dispatched) + 1
    <3>1. dispatched' \in Seq(Actions)
      BY <2>1, <2>5, NextGrows
    <3>2. QED
      BY <2>1, <2>4, <2>5, <3>1, InitsGrow, LenProperties DEF BootInvariant
  <2>7. isStarted \/ destroyed
    BY <2>1 DEF BootInvariant
  <2>8. ASSUME NEW x \in ToSet(rootCall) PROVE ~Contains(boot, x)
    <3>1. x # ROOT_EFFECTS_INIT
      BY <1>1, <2>8, EffectsAssumption
    <3>2. QED
      BY <2>2, <3>1 DEF Contains
  <2>9. ASSUME NEW n \in Inits', NEW x \in ToSet(rootCall)
        PROVE  started[Group[x]] \in 1 .. n - 1
    <3>1. started[Group[x]] # 0
      BY <2>3, <2>6, <2>8, <2>9 DEF BootInvariant
    <3>2. /\ Group[x] \in Groups /\ started[Group[x]] \in Nat
          /\ started[Group[x]] <= Len(dispatched) /\ n = Len(dispatched) + 1
      BY <1>1, <2>6, <2>9 DEF BootInvariant
    <3>3. QED
      BY <1>1, <3>1, <3>2
  <2>10. \A h \in Groups : started[h] <= Len(dispatched')
    BY <1>1, <2>6 DEF BootInvariant
  <2>11. \A j \in 1 .. Len(boot') - 1 : boot'[j] # ROOT_EFFECTS_INIT
    BY <2>2
  <2>12. QED
    BY <2>1, <2>3, <2>6, <2>7, <2>9, <2>10, <2>11 DEF BootInvariant
<1>7. ASSUME NEW action \in Types \ {Output, OnInit, ROOT_EFFECTS_INIT},
             AppDispatches(action)
      PROVE  BootInvariant'
  <2>1. action \in Actions \ {ROOT_EFFECTS_INIT}
    BY DEF Actions
  <2>2. QED
    BY <1>3, <1>7, <2>1 DEF AppDispatches, Dispatch
<1>8. ASSUME NEW e \in Effects, Emits(e) PROVE BootInvariant'
  <2>1. Output \in Actions \ {ROOT_EFFECTS_INIT}
    BY EffectActions, EffectsAssumption
  <2>2. QED
    BY <1>3, <1>8, <2>1 DEF Emits
<1>9. ASSUME NEW e \in Effects, StartsWork(e) PROVE BootInvariant'
  BY <1>3, <1>9 DEF StartsWork, vars
<1>10. ASSUME NEW e \in Effects, Resubscribes(e) PROVE BootInvariant'
  BY <1>3, <1>10 DEF Resubscribes
<1>11. ASSUME NEW e \in Effects, Over(e) PROVE BootInvariant'
  BY <1>3, <1>11 DEF Over
<1>12. ASSUME NEW e \in Effects, FailsRunner(e) PROVE BootInvariant'
  BY <1>3, <1>12 DEF FailsRunner
<1>13. CASE DestroyAll
  <2>1. /\ UNCHANGED <<boot, rootCall, started, dispatched>>
        /\ destroyed' /\ boot = <<>>
    BY <1>13 DEF DestroyAll, Destroy, Task
  <2>2. Inits' = Inits /\ ~InitPending' /\ boot' = <<>>
    BY <2>1 DEF Inits, InitPending, Contains
  <2>3. QED
    BY <2>1, <2>2 DEF BootInvariant
<1>14. CASE Flush /\ UNCHANGED effectVars
  BY <1>3, <1>14, FlushFrame
<1>15. CASE UNCHANGED allVars
  BY <1>3, <1>15 DEF allVars, vars
<1>16. QED
  BY <1>4, <1>5, <1>6, <1>7, <1>8, <1>9, <1>10, <1>11, <1>12, <1>13, <1>14, <1>15
  DEF EffectsNext, Completes, EndsByError

(* The invariant holds initially.                                          *)
LEMMA EffectsInitHolds == EffectsInit => EffectsInvariant
<1> SUFFICES ASSUME EffectsInit PROVE EffectsInvariant
  OBVIOUS
<1>1. TypeOK /\ EffectsTypeOK
  BY EffectsInitType
<1>2. \A e \in Effects : ~Live(e)
  BY EffectsOfFacts, EffectsAssumption DEF EffectsInit, Live
<1>3. RunnerInvariant
  BY DEF EffectsInit, Init, RunnerInvariant
<1>4. SubscriptionInvariant
  <2>1. listeners = <<>> /\ LiveSubscriptions = {}
    BY <1>2 DEF EffectsInit, Init, LiveSubscriptions
  <2>2. QED
    BY <2>1 DEF SubscriptionInvariant, IsInjective, ToSet
<1>5. HeardInvariant
  BY <1>2, StoreAssumption DEF EffectsInit, Init, HeardInvariant, NoActionMissed
<1>6. BootInvariant
  <2>1. /\ boot = <<>> /\ rootCall = <<>> /\ dispatched = <<INIT_TYPE>>
        /\ started = [g \in Groups |-> 0]
    BY DEF EffectsInit, Init
  <2>2. Inits = {} /\ Len(dispatched) = 1 /\ dispatched # <<>>
    BY <2>1, EffectsAssumption DEF Inits
  <2>3. ~InitPending /\ Len(boot) = 0
    BY <2>1 DEF InitPending, Contains
  <2>4. QED
    BY <2>1, <2>2, <2>3 DEF BootInvariant
<1>7. QED
  BY <1>1, <1>3, <1>4, <1>5, <1>6 DEF EffectsInvariant

(* The invariant holds always.                                             *)
LEMMA EffectsHold == EffectsSpec => []EffectsInvariant
<1>1. EffectsInvariant /\ [EffectsNext]_allVars => EffectsInvariant'
  BY EffectsStepType, StepRunner, StepSubscription, StepHeard, StepBoot
  DEF EffectsInvariant
<1>2. QED
  BY <1>1, EffectsInitHolds, PTL DEF EffectsSpec

(* A live effect has exactly one subscription to the actions and no other  *)
(* effect has any, however often defaultEffectsErrorHandler subscribed     *)
(* again and whichever instances EffectSources ignored, replaced or        *)
(* finished.                                                               *)
THEOREM OneSubscription == EffectsSpec => []OneSubscriptionPerEffect
<1>1. EffectsInvariant => OneSubscriptionPerEffect
  <2> SUFFICES ASSUME EffectsInvariant PROVE OneSubscriptionPerEffect
    OBVIOUS
  <2>1. /\ listeners \in Seq(Listeners)
        /\ IsInjective(listeners)
        /\ ToSet(listeners) = LiveSubscriptions
    BY DEF EffectsInvariant, TypeOK, SubscriptionInvariant
  <2>2. /\ Len(listeners) \in Nat /\ DOMAIN listeners = 1 .. Len(listeners)
        /\ listeners \in [1 .. Len(listeners) -> ToSet(listeners)]
    BY <2>1, LenProperties DEF ToSet
  <2>3. listeners \in Bijection(1 .. Len(listeners), ToSet(listeners))
    BY <2>1, <2>2 DEF Bijection, Injection, Surjection, IsInjective, ToSet
  <2>4. ExistsBijection(1 .. Len(listeners), ToSet(listeners))
    BY <2>3 DEF ExistsBijection
  <2>5. Len(listeners) = Cardinality(ToSet(listeners))
    BY <2>2, <2>4, FS_CountingElements
  <2>6. QED
    BY <2>1, <2>5 DEF OneSubscriptionPerEffect, LiveSubscriptions
<1>2. QED
  BY <1>1, EffectsHold, PTL

(* Every live effect heard every action since its instance was added: none *)
(* falls between an error and the resubscription that catchError makes     *)
(* inside the callback that failed.                                        *)
THEOREM NothingMissed == EffectsSpec => []NoActionMissed
<1>1. EffectsInvariant => NoActionMissed
  BY DEF EffectsInvariant, HeardInvariant
<1>2. QED
  BY <1>1, EffectsHold, PTL

(* The initializer of provideEffects dispatches ROOT_EFFECTS_INIT at most  *)
(* once, and after all instances of its call were added, whatever the      *)
(* effects do in the flushes in between.                                   *)
THEOREM InitComesLast == EffectsSpec => []RootEffectsInitLast
<1>1. EffectsInvariant => RootEffectsInitLast
  <2> SUFFICES ASSUME EffectsInvariant PROVE RootEffectsInitLast
    OBVIOUS
  <2>1. Cardinality(Inits) <= 1
    <3>1. CASE Inits = {}
      BY <3>1, FS_EmptySet
    <3>2. CASE Inits # {}
      <4>1. PICK n \in Inits : Inits = {n}
        BY <3>2 DEF EffectsInvariant, BootInvariant
      <4>2. QED
        BY <4>1, FS_Singleton
    <3>3. QED
      BY <3>1, <3>2
  <2>2. QED
    BY <2>1 DEF EffectsInvariant, BootInvariant, Inits, RootEffectsInitLast
<1>2. QED
  BY <1>1, EffectsHold, PTL

(* A store that nobody destroyed stops only through a { dispatch: false }  *)
(* effect that is not retried or has no retries left: EffectsRunner passes *)
(* such an error to store.error, the others are materialized.              *)
THEOREM StoreOutlives == EffectsSpec => []StoreOutlivesDispatchingEffects
<1>1. EffectsInvariant => StoreOutlivesDispatchingEffects
  BY DEF EffectsInvariant, RunnerInvariant, Blame, StoreOutlivesDispatchingEffects
<1>2. QED
  BY <1>1, EffectsHold, PTL
=============================================================================
