------------------------ MODULE ComponentStoreProofs ------------------------
(***************************************************************************)
(* Proofs that the subscribers of selectors have the state or are about to *)
(* be called with it, and that updates take effect in the order of their   *)
(* calls, for any number of subscribers and updates, wherever these are    *)
(* called from.                                                            *)
(***************************************************************************)
EXTENDS ComponentStore, FoldTheorems

(* The property is inductive together with the types of what it speaks of, *)
(* and with the fact that nobody is subscribed after the destruction: only *)
(* then does a task set isInitialized and call nobody.                     *)
SubscribersOK ==
  /\ live \in Seq(Subscribers) /\ notify \in Seq(Subscribers)
  /\ seen = [s \in Subscribers |-> seen[s]]
  /\ phase = "destroyed" => live = <<>>
SubscriberInv == SubscribersOK /\ SubscribersAreCurrent

(* Who subscribes is called last.                                          *)
LEMMA AppendedLast ==
  ASSUME NEW S, NEW q \in Seq(S), NEW e \in S
  PROVE  /\ Append(q, e) \in Seq(S)
         /\ ToSet(Append(q, e)) \subseteq ToSet(q) \cup {e}
<1> DEFINE t == Append(q, e)
<1>1. /\ Len(q) \in Nat /\ t \in Seq(S) /\ Len(t) = Len(q) + 1
      /\ \A i \in 1 .. Len(q) : t[i] = q[i]
      /\ t[Len(q) + 1] = e
      /\ DOMAIN q = 1 .. Len(q) /\ DOMAIN t = 1 .. Len(t)
  BY AppendProperties, LenProperties
<1> HIDE DEF t
<1>2. ToSet(t) \subseteq ToSet(q) \cup {e}
  BY <1>1 DEF ToSet
<1>3. QED
  BY <1>1, <1>2 DEF t

(* Who unsubscribes takes nobody else along, and nobody's place.           *)
LEMMA RemovedOnly ==
  ASSUME NEW S, NEW q \in Seq(S), NEW k \in DOMAIN q
  PROVE  /\ RemoveAt(q, k) \in Seq(S)
         /\ ToSet(RemoveAt(q, k)) \subseteq ToSet(q)
<1> DEFINE a == SubSeq(q, 1, k - 1)
           b == SubSeq(q, k + 1, Len(q))
           t == a \o b
           T == ToSet(q)
<1>1. /\ Len(q) \in Nat /\ DOMAIN q = 1 .. Len(q) /\ k \in 1 .. Len(q)
      /\ \A j \in 1 .. Len(q) : q[j] \in S /\ q[j] \in T
  BY LenProperties, ElementOfSeq DEF ToSet
<1> HIDE DEF T
<1>2. a \in Seq(S) /\ a \in Seq(T) /\ b \in Seq(S) /\ b \in Seq(T)
  BY <1>1, SubSeqProperties
<1> HIDE DEF a, b
<1>3. t \in Seq(S) /\ t \in Seq(T)
  BY <1>2, ConcatProperties
<1> HIDE DEF t
<1>4. ToSet(t) \subseteq T
  BY <1>3, LenProperties, ElementOfSeq DEF ToSet
<1>5. QED
  BY <1>3, <1>4 DEF t, a, b, T, RemoveAt

(* next() goes from one subscriber to the one behind it.                   *)
LEMMA CalledFirst ==
  ASSUME NEW S, NEW q \in Seq(S), q # <<>>
  PROVE  /\ Head(q) \in S /\ Tail(q) \in Seq(S)
         /\ ToSet(q) \subseteq ToSet(Tail(q)) \cup {Head(q)}
<1> DEFINE t == Tail(q)
<1>1. /\ Len(q) \in Nat \ {0} /\ DOMAIN q = 1 .. Len(q)
      /\ t \in Seq(S) /\ Len(t) = Len(q) - 1 /\ DOMAIN t = 1 .. Len(t)
      /\ \A i \in 1 .. Len(t) : t[i] = q[i + 1]
      /\ Head(q) = q[1] /\ Head(q) \in S
  BY HeadTailProperties, EmptySeq, LenProperties
<1> HIDE DEF t
<1>2. ASSUME NEW x \in ToSet(q), x # q[1] PROVE x \in ToSet(t)
  <2>1. PICK i \in 1 .. Len(q) : x = q[i]
    BY <1>1, <1>2 DEF ToSet
  <2>2. i - 1 \in 1 .. Len(t) /\ t[i - 1] = x
    BY <1>1, <1>2, <2>1
  <2>3. QED
    BY <1>1, <2>2 DEF ToSet
<1>3. QED
  BY <1>1, <1>2 DEF t

LEMMA NobodyIn == ToSet(<<>>) = {}
BY DEF ToSet
-----------------------------------------------------------------------------
(* A task calls everybody, unless there is no state or nobody.             *)
LEMMA RunTaskKeeps ==
  ASSUME SubscriberInv, RunTask
  PROVE  SubscriberInv'
<1>1. live' = live /\ seen' = seen /\ phase' = phase
  BY DEF RunTask, selectors
<1>2. CASE phase = "destroyed"
  <2>1. notify' = notify /\ live = <<>>
    BY <1>2 DEF RunTask, SubscriberInv, SubscribersOK
  <2>2. QED
    BY <1>1, <2>1, NobodyIn
    DEF SubscriberInv, SubscribersOK, SubscribersAreCurrent, Live
<1>3. CASE phase # "destroyed"
  <2>1. notify' = IF isInitialized' THEN live ELSE <<>>
    BY <1>3 DEF RunTask
  <2>2. SubscribersOK'
    BY <1>1, <2>1, EmptySeq DEF SubscriberInv, SubscribersOK
  <2>3. SubscribersAreCurrent'
    BY <1>1, <2>1 DEF SubscribersAreCurrent, Live
  <2>4. QED
    BY <2>2, <2>3 DEF SubscriberInv
<1>4. QED
  BY <1>2, <1>3

(* Who is called has the state that is current during the whole next().    *)
LEMMA NotifyNextKeeps ==
  ASSUME SubscriberInv, NotifyNext
  PROVE  SubscriberInv'
<1> DEFINE h == Head(notify)
<1>1. /\ notify # <<>> /\ notify' = Tail(notify)
      /\ seen' = [seen EXCEPT ![h] = IF h \in Plain \cap Live THEN state
                                     ELSE @]
      /\ UNCHANGED <<phase, isInitialized, state, live>>
  BY DEF NotifyNext
<1>2. /\ h \in Subscribers /\ Tail(notify) \in Seq(Subscribers)
      /\ ToSet(notify) \subseteq ToSet(Tail(notify)) \cup {h}
  BY <1>1, CalledFirst DEF SubscriberInv, SubscribersOK
<1> HIDE DEF h
<1>3. SubscribersOK'
  BY <1>1, <1>2 DEF SubscriberInv, SubscribersOK
<1>4. ASSUME NEW s \in Plain \cap Live, isInitialized
      PROVE  seen'[s] = state \/ s \in ToSet(Tail(notify))
  <2>1. seen[s] = state \/ s \in ToSet(notify)
    BY <1>4 DEF SubscriberInv, SubscribersAreCurrent
  <2>2. CASE s = h
    BY <1>1, <1>2, <1>4, <2>2 DEF SubscriberInv, SubscribersOK
  <2>3. CASE s # h
    <3>1. s \in Subscribers
      BY <1>4 DEF Subscribers
    <3>2. seen'[s] = seen[s]
      BY <1>1, <2>3, <3>1 DEF SubscriberInv, SubscribersOK
    <3>3. QED
      BY <1>2, <2>1, <2>3, <3>2
  <2>4. QED
    BY <2>2, <2>3
<1>5. QED
  BY <1>1, <1>3, <1>4 DEF SubscriberInv, SubscribersAreCurrent, Live

(* The replay makes a new subscriber current at once.                      *)
LEMMA SubscribeKeeps ==
  ASSUME SubscriberInv, NEW s \in Subscribers, Subscribe(s)
  PROVE  SubscriberInv'
<1>1. /\ live' = Append(live, s) /\ phase = "alive"
      /\ seen' = [seen EXCEPT ![s] = IF s \in Plain /\ isInitialized
                                     THEN state ELSE None]
      /\ UNCHANGED <<phase, isInitialized, state, notify>>
  BY DEF Subscribe, scheduler
<1>2. live' \in Seq(Subscribers) /\ Live' \subseteq Live \cup {s}
  BY <1>1, AppendedLast DEF SubscriberInv, SubscribersOK, Live
<1>3. SubscribersOK'
  BY <1>1, <1>2 DEF SubscriberInv, SubscribersOK
<1>4. ASSUME NEW t \in Plain \cap Live', isInitialized
      PROVE  seen'[t] = state \/ t \in ToSet(notify)
  BY <1>1, <1>2, <1>4
  DEF SubscriberInv, SubscribersOK, SubscribersAreCurrent, Subscribers
<1>5. QED
  BY <1>1, <1>3, <1>4 DEF SubscriberInv, SubscribersAreCurrent

LEMMA UnsubscribeKeeps ==
  ASSUME SubscriberInv, NEW s \in Subscribers, Unsubscribe(s)
  PROVE  SubscriberInv'
<1>1. UNCHANGED <<phase, isInitialized, state, notify, seen>>
  BY DEF Unsubscribe, scheduler
<1>2. PICK k \in DOMAIN live : live' = RemoveAt(live, k)
  BY DEF Unsubscribe
<1>3. live' \in Seq(Subscribers) /\ Live' \subseteq Live
  BY <1>2, RemovedOnly DEF SubscriberInv, SubscribersOK, Live
<1>4. phase # "destroyed"
  BY NobodyIn DEF SubscriberInv, SubscribersOK, Unsubscribe, Live
<1>5. QED
  BY <1>1, <1>3, <1>4 DEF SubscriberInv, SubscribersOK, SubscribersAreCurrent

(* A debounced subscriber is none of the others.                           *)
LEMMA RunAsapKeeps ==
  ASSUME SubscriberInv, NEW s \in Debounced, RunAsap(s)
  PROVE  SubscriberInv'
<1>1. /\ seen' = [seen EXCEPT ![s] = actionValue[s]]
      /\ UNCHANGED <<phase, isInitialized, state, notify, live>>
  BY DEF RunAsap
<1>2. s \notin Plain
  BY ComponentStoreAssumption
<1>3. QED
  BY <1>1, <1>2 DEF SubscriberInv, SubscribersOK, SubscribersAreCurrent,
                    Subscribers, Live

LEMMA DestroyKeeps ==
  ASSUME SubscriberInv, Destroy
  PROVE  SubscriberInv'
<1>1. /\ live' = <<>> /\ notify' = <<>>
      /\ seen' = [s \in Subscribers |-> IF s \in scheduled THEN actionValue[s]
                                        ELSE seen[s]]
  BY DEF Destroy
<1>2. SubscribersOK'
  BY <1>1, EmptySeq DEF SubscribersOK
<1>3. QED
  BY <1>1, <1>2, NobodyIn DEF SubscriberInv, SubscribersAreCurrent, Live

(* What touches neither the state nor the subscribers.                     *)
LEMMA OthersKeep ==
  ASSUME SubscriberInv,
         UNCHANGED <<isInitialized, state, notify, selectors>>,
         phase' = "destroyed" => phase = "destroyed"
  PROVE  SubscriberInv'
BY DEF SubscriberInv, SubscribersOK, SubscribersAreCurrent, selectors, Live

LEMMA SubscriberStep ==
  ASSUME SubscriberInv, [Next]_vars
  PROVE  SubscriberInv'
<1>1. CASE EndFlush \/ Return \/ AsapReturn \/ ForeignTask
  BY <1>1, OthersKeep
  DEF EndFlush, Return, AsapReturn, ForeignTask, selectors,
      SubscriberInv, SubscribersOK, SubscribersAreCurrent, Live
<1>2. ASSUME NEW withState \in BOOLEAN, Construct(withState)
      PROVE  SubscriberInv'
  BY <1>2, OthersKeep DEF Construct, Schedule, scheduler
<1>3. CASE Update \/ SetState \/ PatchState
  BY <1>3, OthersKeep DEF Update, SetState, PatchState, Calls, Schedule
<1>4. CASE UNCHANGED vars
  BY <1>4, OthersKeep DEF vars, scheduler
<1>5. QED
  BY <1>1, <1>2, <1>3, <1>4, RunTaskKeeps, NotifyNextKeeps, SubscribeKeeps,
     UnsubscribeKeeps, RunAsapKeeps, DestroyKeeps DEF Next, Proceed

(* A subscriber of a selector that is not debounced has the state, or the  *)
(* next() that is under way has still to call it: no nested update, no     *)
(* subscription inside a callback and no destruction leaves it behind.     *)
THEOREM SubscribersStayCurrent == Spec => []SubscribersAreCurrent
<1>1. Init => SubscriberInv
  BY EmptySeq, NobodyIn
  DEF Init, SubscriberInv, SubscribersOK, SubscribersAreCurrent, Live
<1>2. SubscriberInv /\ [Next]_vars => SubscriberInv'
  BY SubscriberStep
<1>3. SubscriberInv => SubscribersAreCurrent
  BY DEF SubscriberInv
<1>4. QED
  BY <1>1, <1>2, <1>3, PTL DEF Spec

(* What tasks are applied to: isInitialized and the state.                 *)
Stores == [isInitialized : BOOLEAN, state : Seq(Nat)]

(* What there is in the queue.                                             *)
Tasks == [kind : {"init", "patch"}, value : Seq(Nat), id : Nat]
           \cup [kind : {"update"}, value : {None}, id : Nat]

(* What a task does to the store.                                          *)
LEMMA ApplyType ==
  ASSUME NEW store \in Stores, NEW task \in Tasks
  PROVE  /\ Apply(store, task) \in Stores
         /\ Initializes(task) =>
              Apply(store, task) = [isInitialized |-> TRUE, state |-> task.value]
         /\ ~Initializes(task) =>
              Apply(store, task).isInitialized = store.isInitialized
<1>0. store.isInitialized \in BOOLEAN /\ store.state \in Seq(Nat)
  BY DEF Stores
<1>1. CASE task.kind = "init"
  <2>1. Apply(store, task) = [isInitialized |-> TRUE, state |-> task.value]
    BY <1>1 DEF Apply
  <2>2. task.value \in Seq(Nat)
    BY <1>1 DEF Tasks
  <2>3. QED
    BY <1>1, <2>1, <2>2 DEF Stores, Initializes
<1>2. CASE task.kind = "update"
  <2>1. Append(store.state, task.id) \in Seq(Nat)
    BY <1>0, AppendProperties DEF Tasks
  <2>2. Apply(store, task) =
          IF store.isInitialized
          THEN [store EXCEPT !.state = Append(store.state, task.id)] ELSE store
    BY <1>2 DEF Apply
  <2>3. QED
    BY <1>0, <1>2, <2>1, <2>2 DEF Stores, Initializes
<1>3. CASE task.kind = "patch"
  <2>1. Append(task.value, task.id) \in Seq(Nat)
    BY <1>3, AppendProperties DEF Tasks
  <2>2. Apply(store, task) =
          IF store.isInitialized
          THEN [store EXCEPT !.state = Append(task.value, task.id)] ELSE store
    BY <1>3 DEF Apply
  <2>3. QED
    BY <1>0, <1>3, <2>1, <2>2 DEF Stores, Initializes
<1>4. QED
  BY <1>1, <1>2, <1>3 DEF Tasks

(* r[k] is what the first k tasks make of the store.                       *)
IsApplyRun(r, store, tasks) ==
  /\ r[0] = store
  /\ \A k \in 1 .. Len(tasks) : r[k] = Apply(r[k - 1], tasks[k])

(* The tasks as functions on stores.                                       *)
Steps(tasks) ==
  [i \in 1 .. Len(tasks) |-> [store \in Stores |-> Apply(store, tasks[i])]]

(* The types of these functions.                                           *)
LEMMA StepsFacts ==
  ASSUME NEW tasks \in Seq(Tasks)
  PROVE  /\ Len(tasks) \in Nat /\ DOMAIN tasks = 1 .. Len(tasks)
         /\ Steps(tasks) \in [1 .. Len(tasks) -> [Stores -> Stores]]
         /\ \A i \in 1 .. Len(tasks) : \A store \in Stores :
              Steps(tasks)[i][store] = Apply(store, tasks[i])
<1>1. Len(tasks) \in Nat /\ DOMAIN tasks = 1 .. Len(tasks)
  BY LenProperties
<1>2. \A i \in 1 .. Len(tasks) : tasks[i] \in Tasks
  BY <1>1, ElementOfSeq
<1>3. \A i \in 1 .. Len(tasks) : \A store \in Stores :
        Apply(store, tasks[i]) \in Stores
  BY <1>2, ApplyType
<1>4. QED
  BY <1>1, <1>3 DEF Steps

(* Applying a queue is applying its tasks one after another.               *)
LEMMA ApplyRun ==
  ASSUME NEW store \in Stores, NEW tasks \in Seq(Tasks)
  PROVE  \E r : /\ IsApplyRun(r, store, tasks)
                /\ FoldLeft(Apply, store, tasks) = r[Len(tasks)]
<1> DEFINE n == Len(tasks)
           iter == CHOOSE f : f = [d \in SUBSET (1 .. n) |->
                     IF d = {} THEN store
                     ELSE Apply(f[d \ {Max(d)}], tasks[Max(d)])]
<1>1. n \in Nat /\ DOMAIN tasks = 1 .. n
  BY LenProperties
<1>2. FoldLeft(Apply, store, tasks) = iter[1 .. n]
  BY <1>1 DEF FoldLeft, MapThenFoldSet
<1>3. /\ Steps(tasks) \in [1 .. n -> [Stores -> Stores]]
      /\ \A i \in 1 .. n : \A v \in Stores :
           Steps(tasks)[i][v] = Apply(v, tasks[i])
  BY StepsFacts
<1> HIDE DEF iter, n
<1>4. \E f : f = [d \in SUBSET (1 .. n) |->
                 IF d = {} THEN store
                 ELSE Apply(f[d \ {Max(d)}], tasks[Max(d)])]
  <2>1. PICK f : IsRecursion(f, n, Stores, store, Steps(tasks))
    BY <1>1, <1>3, Recursion
  <2>2. /\ f \in [SUBSET (1 .. n) -> Stores]
        /\ f[{}] = store
        /\ \A d \in SUBSET (1 .. n) :
             d # {} => f[d] = Steps(tasks)[Max(d)][f[d \ {Max(d)}]]
    BY <2>1 DEF IsRecursion
  <2>3. ASSUME NEW d \in SUBSET (1 .. n), d # {}
        PROVE  f[d] = Apply(f[d \ {Max(d)}], tasks[Max(d)])
    <3>1. Max(d) \in 1 .. n /\ f[d \ {Max(d)}] \in Stores
      BY <1>1, <2>2, <2>3, MaxFacts
    <3>2. QED
      BY <1>3, <2>2, <2>3, <3>1
  <2>4. f = [d \in SUBSET (1 .. n) |->
               IF d = {} THEN store
               ELSE Apply(f[d \ {Max(d)}], tasks[Max(d)])]
    BY <2>2, <2>3
  <2>5. QED
    BY <2>4
<1>5. /\ iter[{}] = store
      /\ \A d \in SUBSET (1 .. n) :
           d # {} => iter[d] = Apply(iter[d \ {Max(d)}], tasks[Max(d)])
  BY <1>4 DEF iter
<1> DEFINE r == [k \in 0 .. n |-> iter[1 .. k]]
<1>6. r[0] = store /\ r[n] = iter[1 .. n]
  BY <1>1, <1>5, Intervals
<1>7. ASSUME NEW k \in 1 .. n
      PROVE  r[k] = Apply(r[k - 1], tasks[k])
  <2>1. /\ r[k] = iter[1 .. k] /\ r[k - 1] = iter[1 .. k - 1]
        /\ 1 .. k \in SUBSET (1 .. n) /\ 1 .. k # {}
        /\ Max(1 .. k) = k /\ (1 .. k) \ {k} = 1 .. k - 1
    BY <1>1, Intervals
  <2> HIDE DEF r
  <2>2. QED
    BY <1>5, <2>1
<1> HIDE DEF r
<1>8. IsApplyRun(r, store, tasks)
  BY <1>6, <1>7 DEF IsApplyRun, n
<1>9. QED
  BY <1>2, <1>6, <1>8 DEF n

(* There is one way only to do so, and it keeps to the stores.             *)
LEMMA ApplyRunTypes ==
  ASSUME NEW store \in Stores, NEW tasks \in Seq(Tasks), NEW r,
         IsApplyRun(r, store, tasks)
  PROVE  /\ \A k \in 0 .. Len(tasks) : r[k] \in Stores
         /\ FoldLeft(Apply, store, tasks) = r[Len(tasks)]
<1>1. Len(tasks) \in Nat /\ Len(tasks) \in 0 .. Len(tasks)
  BY StepsFacts
<1>2. ASSUME NEW q, IsApplyRun(q, store, tasks)
      PROVE  IsRun(q, Len(tasks), Stores, store, Steps(tasks))
  BY <1>2, StepsFacts DEF IsApplyRun, IsRun
<1>3. Steps(tasks) \in [1 .. Len(tasks) -> [Stores -> Stores]]
  BY StepsFacts
<1>4. \A k \in 0 .. Len(tasks) : r[k] \in Stores
  BY <1>1, <1>2, <1>3, RunType
<1>5. PICK q : /\ IsApplyRun(q, store, tasks)
               /\ FoldLeft(Apply, store, tasks) = q[Len(tasks)]
  BY ApplyRun
<1>6. \A k \in 0 .. Len(tasks) : q[k] = r[k]
  <2> DEFINE n == Len(tasks)
             g == Steps(tasks)
  <2>1. IsRun(q, n, Stores, store, g) /\ IsRun(r, n, Stores, store, g)
    BY <1>2, <1>5
  <2>2. n \in Nat /\ g \in [1 .. n -> [Stores -> Stores]]
    BY <1>1, <1>3
  <2>3. \A k \in 0 .. n : q[k] = r[k]
    <3> HIDE DEF n, g
    <3>1. QED
      BY ONLY <2>1, <2>2, store \in Stores, SameRun
  <2>4. QED
    BY <2>3
<1>7. QED
  BY <1>1, <1>4, <1>5, <1>6

(* An empty queue leaves the store.                                        *)
LEMMA ApplyNothing ==
  ASSUME NEW store \in Stores
  PROVE  FoldLeft(Apply, store, <<>>) = store
<1>1. <<>> \in Seq(Tasks) /\ Len(<<>>) = 0
  OBVIOUS
<1>2. IsApplyRun([k \in {0} |-> store], store, <<>>)
  BY <1>1 DEF IsApplyRun
<1>3. QED
  BY <1>1, <1>2, ApplyRunTypes

(* The task that was queued last is applied last.                          *)
LEMMA ApplyLast ==
  ASSUME NEW store \in Stores, NEW tasks \in Seq(Tasks), NEW task \in Tasks
  PROVE  /\ FoldLeft(Apply, store, tasks) \in Stores
         /\ FoldLeft(Apply, store, Append(tasks, task)) =
              Apply(FoldLeft(Apply, store, tasks), task)
<1> DEFINE n == Len(tasks)
           longer == Append(tasks, task)
<1>1. /\ n \in Nat /\ longer \in Seq(Tasks) /\ Len(longer) = n + 1
      /\ longer[n + 1] = task /\ \A k \in 1 .. n : longer[k] = tasks[k]
  BY AppendProperties, LenProperties
<1>2. PICK r : IsApplyRun(r, store, tasks)
  BY ApplyRun
<1>3. /\ \A k \in 0 .. n : r[k] \in Stores
      /\ FoldLeft(Apply, store, tasks) = r[n]
  BY <1>2, ApplyRunTypes
<1> DEFINE q == [k \in 0 .. n + 1 |-> IF k = n + 1 THEN Apply(r[n], task) ELSE r[k]]
<1>4. IsApplyRun(q, store, longer)
  <2>1. q[0] = store /\ q[n + 1] = Apply(r[n], task) /\ \A k \in 0 .. n : q[k] = r[k]
    BY <1>1, <1>2 DEF IsApplyRun
  <2>2. \A k \in 1 .. n : r[k] = Apply(r[k - 1], tasks[k])
    BY <1>2 DEF IsApplyRun
  <2> HIDE DEF q, longer
  <2>3. ASSUME NEW k \in 1 .. n + 1 PROVE q[k] = Apply(q[k - 1], longer[k])
    <3>1. CASE k = n + 1
      <4>1. k - 1 = n /\ n \in 0 .. n
        BY <1>1, <3>1
      <4>2. QED
        BY <1>1, <2>1, <3>1, <4>1
    <3>2. CASE k # n + 1
      <4>1. k \in 1 .. n /\ k \in 0 .. n /\ k - 1 \in 0 .. n
        BY <1>1, <3>2
      <4>2. QED
        BY <1>1, <2>1, <2>2, <4>1
    <3>3. QED
      BY <3>1, <3>2
  <2>4. QED
    BY <1>1, <2>1, <2>3 DEF IsApplyRun
<1>5. q[n + 1] = Apply(r[n], task)
  BY <1>1
<1> HIDE DEF q, longer
<1>6. FoldLeft(Apply, store, longer) = q[n + 1]
  BY <1>1, <1>4, ApplyRunTypes
<1>7. r[n] \in Stores
  BY <1>1, <1>3
<1>8. QED
  BY <1>3, <1>5, <1>6, <1>7 DEF longer

(* The task at the head is applied first.                                  *)
LEMMA ApplyFirst ==
  ASSUME NEW store \in Stores, NEW tasks \in Seq(Tasks), tasks # <<>>
  PROVE  FoldLeft(Apply, store, tasks) =
           FoldLeft(Apply, Apply(store, Head(tasks)), Tail(tasks))
<1> DEFINE n == Len(tasks)
           rest == Tail(tasks)
           next == Apply(store, Head(tasks))
<1>1. /\ n \in Nat /\ n # 0 /\ rest \in Seq(Tasks) /\ Len(rest) = n - 1
      /\ Head(tasks) = tasks[1] /\ Head(tasks) \in Tasks
      /\ \A k \in 1 .. n - 1 : rest[k] = tasks[k + 1]
  BY HeadTailProperties, LenProperties, EmptySeq
<1>2. next \in Stores
  BY <1>1, ApplyType
<1>3. PICK r : IsApplyRun(r, store, tasks)
  BY ApplyRun
<1>4. r[0] = store /\ \A k \in 1 .. n : r[k] = Apply(r[k - 1], tasks[k])
  BY <1>3 DEF IsApplyRun
<1>5. FoldLeft(Apply, store, tasks) = r[n]
  BY <1>3, ApplyRunTypes
<1> HIDE DEF n, rest, next
<1> DEFINE q == [k \in 0 .. n - 1 |-> r[k + 1]]
<1>6. q[0] = next /\ q[n - 1] = r[n]
  <2>1. 0 \in 0 .. n - 1 /\ n - 1 \in 0 .. n - 1 /\ 1 \in 1 .. n /\ (n - 1) + 1 = n
    BY <1>1
  <2>2. r[1] = Apply(r[0], tasks[1])
    BY <1>4, <2>1
  <2>3. QED
    BY <1>1, <1>4, <2>1, <2>2 DEF next
<1>7. \A k \in 1 .. n - 1 : q[k] = Apply(q[k - 1], rest[k])
  <2>1. ASSUME NEW k \in 1 .. n - 1 PROVE q[k] = Apply(q[k - 1], rest[k])
    <3>1. /\ k \in 0 .. n - 1 /\ k - 1 \in 0 .. n - 1
          /\ k + 1 \in 1 .. n /\ (k + 1) - 1 = k /\ (k - 1) + 1 = k
      BY <1>1
    <3>2. q[k] = r[k + 1] /\ q[k - 1] = r[k]
      BY <3>1
    <3>3. r[k + 1] = Apply(r[k], tasks[k + 1])
      BY <1>4, <3>1
    <3>4. QED
      BY <1>1, <3>2, <3>3
  <2>2. QED
    BY <2>1
<1> HIDE DEF q
<1>8. IsApplyRun(q, next, rest)
  BY <1>1, <1>6, <1>7 DEF IsApplyRun
<1>9. FoldLeft(Apply, next, rest) = q[n - 1]
  BY <1>1, <1>2, <1>8, ApplyRunTypes
<1>10. QED
  BY <1>5, <1>6, <1>9 DEF rest, next

(* The property, of isInitialized too, with the types of what it speaks    *)
(* of; before the construction there is nothing to apply.                  *)
SerialInv ==
  /\ phase \in {"none", "alive", "destroyed"} /\ count \in Nat
  /\ phase = "none" => queue = <<>> /\ state = <<>> /\ calls = <<>>
  /\ phase # "destroyed" =>
       /\ isInitialized \in BOOLEAN /\ state \in Seq(Nat)
       /\ queue \in Seq(Tasks) /\ calls \in Seq(Nat)
       /\ FoldLeft(Apply, Now, queue) =
            [isInitialized |-> Initialized, state |-> calls]

(* To queue a task keeps the invariant if the history accounts for it.     *)
LEMMA QueuedKeeps ==
  ASSUME SerialInv, phase # "destroyed", phase' = "alive", NEW task \in Tasks,
         queue' = Append(queue, task), UNCHANGED <<isInitialized, state>>,
         count' \in Nat, calls' \in Seq(Nat),
         Initializes(task) => calls' = task.value,
         ~Initializes(task) =>
           Apply([isInitialized |-> Initialized, state |-> calls], task).state
             = calls'
  PROVE  SerialInv'
<1> DEFINE all == [isInitialized |-> Initialized, state |-> calls]
<1>1. /\ isInitialized \in BOOLEAN /\ state \in Seq(Nat)
      /\ queue \in Seq(Tasks) /\ calls \in Seq(Nat)
      /\ FoldLeft(Apply, Now, queue) = all
  BY DEF SerialInv
<1>2. Now \in Stores /\ Now' = Now
  BY <1>1 DEF Now, Stores
<1>3. Initialized \in BOOLEAN
  BY <1>1 DEF Initialized, Initializes
<1>4. all \in Stores
  BY <1>1, <1>3 DEF Stores
<1>5. FoldLeft(Apply, Now, queue') = Apply(all, task)
  BY <1>1, <1>2, ApplyLast
<1>6. queue' \in Seq(Tasks)
  BY <1>1, AppendProperties
<1>7. Initialized' <=> Initialized \/ Initializes(task)
  <2>1. /\ Len(queue) \in Nat /\ DOMAIN queue = 1 .. Len(queue)
        /\ DOMAIN queue' = 1 .. Len(queue) + 1
        /\ queue'[Len(queue) + 1] = task
        /\ \A k \in 1 .. Len(queue) : queue'[k] = queue[k]
    BY <1>1, AppendProperties, LenProperties
  <2>2. ASSUME NEW k \in DOMAIN queue', Initializes(queue'[k])
        PROVE  Initializes(task) \/ \E j \in DOMAIN queue : Initializes(queue[j])
    <3>1. CASE k = Len(queue) + 1
      BY <2>1, <2>2, <3>1
    <3>2. CASE k # Len(queue) + 1
      <4>1. k \in DOMAIN queue
        BY <2>1, <3>2
      <4>2. QED
        BY <2>1, <2>2, <4>1
    <3>3. QED
      BY <3>1, <3>2
  <2>3. ASSUME NEW j \in DOMAIN queue, Initializes(queue[j])
        PROVE  \E k \in DOMAIN queue' : Initializes(queue'[k])
    <3>1. j \in DOMAIN queue' /\ queue'[j] = queue[j]
      BY <2>1
    <3>2. QED
      BY <2>3, <3>1
  <2>4. ASSUME Initializes(task)
        PROVE  \E k \in DOMAIN queue' : Initializes(queue'[k])
    <3>1. Len(queue) + 1 \in DOMAIN queue'
      BY <2>1
    <3>2. QED
      BY <2>1, <2>4, <3>1
  <2>5. QED
    BY <2>2, <2>3, <2>4 DEF Initialized
<1>8. Initialized' \in BOOLEAN
  BY DEF Initialized
<1> HIDE DEF all
<1>9. Apply(all, task) = [isInitialized |-> Initialized', state |-> calls']
  <2>1. CASE Initializes(task)
    BY <1>4, <1>7, <1>8, <2>1, ApplyType
  <2>2. CASE ~Initializes(task)
    <3>1. /\ Apply(all, task) \in Stores
          /\ Apply(all, task).isInitialized = all.isInitialized
      BY <1>4, <2>2, ApplyType
    <3>2. all.isInitialized = Initialized' /\ Apply(all, task).state = calls'
      BY <1>3, <1>7, <1>8, <2>2 DEF all
    <3>3. QED
      BY <3>1, <3>2 DEF Stores
  <2>3. QED
    BY <2>1, <2>2
<1>10. QED
  BY <1>1, <1>2, <1>5, <1>6, <1>9 DEF SerialInv

(* Every step keeps the invariant.                                         *)
LEMMA SerialStep ==
  ASSUME ~PatchBehindQueue, SerialInv, [Next]_vars
  PROVE  SerialInv'
<1> DEFINE all == [isInitialized |-> Initialized, state |-> calls]
<1>1. CASE RunTask
  <2>1. queue # <<>> /\ phase' = phase /\ count' = count /\ calls' = calls
    BY <1>1 DEF RunTask, history
  <2>2. CASE phase = "destroyed"
    BY <2>1, <2>2 DEF SerialInv
  <2>3. CASE phase = "none"
    BY <2>1, <2>3 DEF SerialInv
  <2>4. CASE phase = "alive"
    <3> DEFINE task == Head(queue)
               next == Apply(Now, task)
    <3>1. /\ isInitialized \in BOOLEAN /\ state \in Seq(Nat)
          /\ queue \in Seq(Tasks) /\ calls \in Seq(Nat)
          /\ FoldLeft(Apply, Now, queue) = all
      BY <2>4 DEF SerialInv
    <3>2. task \in Tasks /\ queue' \in Seq(Tasks) /\ queue' = Tail(queue)
      BY <1>1, <2>1, <3>1, HeadTailProperties DEF RunTask
    <3>3. Now \in Stores
      BY <3>1 DEF Now, Stores
    <3>4. next \in Stores
      BY <3>2, <3>3, ApplyType
    <3>5. isInitialized' = next.isInitialized /\ state' = next.state
      BY <1>1, <2>4 DEF RunTask
    <3>6. Now' = next
      <4> HIDE DEF next
      <4>1. QED
        BY <3>4, <3>5 DEF Now, Stores
    <3>7. FoldLeft(Apply, Now', queue') = all
      BY <2>1, <3>1, <3>2, <3>3, <3>6, ApplyFirst
    <3>8. Initialized' <=> Initialized
      <4>1. /\ Len(queue) \in Nat /\ Len(queue) # 0 /\ DOMAIN queue = 1 .. Len(queue)
            /\ DOMAIN queue' = 1 .. Len(queue) - 1 /\ task = queue[1]
            /\ \A k \in 1 .. Len(queue) - 1 : queue'[k] = queue[k + 1]
        BY <2>1, <3>1, <3>2, HeadTailProperties, LenProperties, EmptySeq
      <4>2. Initializes(task) => isInitialized'
        BY <3>2, <3>3, <3>5, ApplyType
      <4>3. ~Initializes(task) => isInitialized' = isInitialized
        BY <3>2, <3>3, <3>5, ApplyType DEF Now
      <4>4. ASSUME NEW k \in DOMAIN queue', Initializes(queue'[k])
            PROVE  \E j \in DOMAIN queue : Initializes(queue[j])
        <5>1. k + 1 \in DOMAIN queue
          BY <4>1
        <5>2. QED
          BY <4>1, <4>4, <5>1
      <4>5. ASSUME NEW j \in DOMAIN queue, Initializes(queue[j]), ~Initializes(task)
            PROVE  \E k \in DOMAIN queue' : Initializes(queue'[k])
        <5>1. j - 1 \in DOMAIN queue' /\ (j - 1) + 1 = j
          BY <4>1, <4>5
        <5>2. queue'[j - 1] = queue[j]
          BY <4>1, <5>1
        <5>3. QED
          BY <4>5, <5>1, <5>2
      <4>6. Initializes(task) => \E j \in DOMAIN queue : Initializes(queue[j])
        BY <4>1
      <4>7. QED
        BY <4>2, <4>3, <4>4, <4>5, <4>6 DEF Initialized
    <3>9. Initialized' = Initialized
      BY <3>8 DEF Initialized
    <3>10. isInitialized' \in BOOLEAN /\ state' \in Seq(Nat)
      BY <3>4, <3>5 DEF Stores
    <3> HIDE DEF next
    <3>11. QED
      BY <2>1, <2>4, <3>1, <3>2, <3>7, <3>9, <3>10 DEF SerialInv
  <2>5. QED
    BY <2>2, <2>3, <2>4 DEF SerialInv
<1>2. ASSUME UNCHANGED <<phase, isInitialized, state, queue, history>>
      PROVE  SerialInv'
  BY <1>2 DEF SerialInv, Now, Initialized, history
<1>3. ASSUME NEW withState \in BOOLEAN, Construct(withState)
      PROVE  SerialInv'
  <2>1. /\ phase = "none" /\ phase' = "alive" /\ UNCHANGED <<isInitialized, state, history>>
        /\ queue = <<>> /\ calls = <<>> /\ count \in Nat
    BY <1>3 DEF Construct, SerialInv
  <2>2. CASE withState
    <3>1. /\ queue' = Append(queue, Task("init", <<>>))
          /\ Task("init", <<>>) \in Tasks /\ Task("init", <<>>).value = <<>>
          /\ Initializes(Task("init", <<>>))
      BY <1>3, <2>1, <2>2 DEF Construct, Schedule, Task, Tasks, Initializes
    <3>2. QED
      BY <2>1, <3>1, QueuedKeeps DEF SerialInv, history
  <2>3. CASE ~withState
    <3>1. queue' = queue
      BY <1>3, <2>3 DEF Construct, scheduler
    <3>2. QED
      BY <2>1, <3>1 DEF SerialInv, Now, Initialized, history
  <2>4. QED
    BY <2>2, <2>3
<1>4. ASSUME MayUpdate, NEW task, NEW made, Calls(task, made)
      PROVE  /\ phase = "alive" /\ phase' = "alive" /\ count' \in Nat
             /\ queue' = Append(queue, task) /\ UNCHANGED <<isInitialized, state>>
             /\ calls' = made /\ calls \in Seq(Nat) /\ count + 1 \in Nat
  BY <1>4 DEF MayUpdate, Calls, Schedule, SerialInv
<1>5. CASE Update
  <2> DEFINE task == Task("update", None)
             made == IF Initialized THEN Append(calls, count + 1) ELSE calls
  <2>1. MayUpdate /\ Calls(task, made)
    BY <1>5 DEF Update
  <2>2. /\ task \in Tasks /\ ~Initializes(task) /\ task.kind = "update"
        /\ task.id = count + 1
    BY <1>4, <2>1 DEF Task, Tasks, Initializes
  <2> HIDE DEF task
  <2>3. Apply(all, task).state = made
    BY <2>2 DEF Apply
  <2>4. made \in Seq(Nat)
    BY <1>4, <2>1, AppendProperties
  <2> HIDE DEF made
  <2>5. QED
    BY <1>4, <2>1, <2>2, <2>3, <2>4, QueuedKeeps
<1>6. CASE SetState
  <2> DEFINE task == Task("init", <<count + 1>>)
  <2>1. MayUpdate /\ Calls(task, <<count + 1>>)
    BY <1>6 DEF SetState
  <2>2. <<count + 1>> \in Seq(Nat)
    BY <1>4, <2>1
  <2>3. task \in Tasks /\ Initializes(task) /\ task.value = <<count + 1>>
    BY <1>4, <2>1, <2>2 DEF Task, Tasks, Initializes
  <2> HIDE DEF task
  <2>4. QED
    BY <1>4, <2>1, <2>2, <2>3, QueuedKeeps
<1>7. CASE PatchState
  <2> DEFINE task == Task("patch", state)
             made == Append(calls, count + 1)
  <2>1. MayUpdate /\ Calls(task, made) /\ isInitialized /\ queue = <<>>
    BY <1>7 DEF PatchState
  <2>2. phase = "alive" /\ calls \in Seq(Nat) /\ count + 1 \in Nat
    BY <1>4, <2>1
  <2>3. state \in Seq(Nat) /\ FoldLeft(Apply, Now, queue) = all /\ Now \in Stores
    BY <2>2 DEF SerialInv, Now, Stores
  <2>4. calls = state
    <3>1. Now = all
      BY <2>1, <2>3, ApplyNothing
    <3>2. QED
      BY <3>1 DEF Now
  <2>5. /\ task \in Tasks /\ ~Initializes(task) /\ task.kind = "patch"
        /\ task.value = calls /\ task.id = count + 1
    BY <2>2, <2>3, <2>4 DEF Task, Tasks, Initializes
  <2>6. Initialized
    BY <2>1 DEF Initialized
  <2> HIDE DEF task
  <2>7. Apply(all, task).state = made
    BY <2>5, <2>6 DEF Apply
  <2>8. made \in Seq(Nat)
    BY <2>2, AppendProperties
  <2> HIDE DEF made
  <2>9. QED
    BY <1>4, <2>1, <2>5, <2>7, <2>8, QueuedKeeps
<1>8. CASE Destroy
  <2>1. phase' = "destroyed" /\ count' = count
    BY <1>8 DEF Destroy, history
  <2>2. QED
    BY <2>1 DEF SerialInv
<1>9. CASE EndFlush \/ NotifyNext \/ Return \/ AsapReturn \/ ForeignTask
  BY <1>2, <1>9 DEF EndFlush, NotifyNext, Return, AsapReturn, ForeignTask
<1>10. ASSUME NEW s \in Subscribers, Subscribe(s) \/ Unsubscribe(s)
       PROVE  SerialInv'
  BY <1>2, <1>10 DEF Subscribe, Unsubscribe, scheduler
<1>11. ASSUME NEW s \in Debounced, RunAsap(s) PROVE SerialInv'
  BY <1>2, <1>11 DEF RunAsap
<1>12. CASE UNCHANGED vars
  BY <1>2, <1>12 DEF vars, scheduler
<1>13. QED
  BY <1>1, <1>3, <1>5, <1>6, <1>7, <1>8, <1>9, <1>10, <1>11, <1>12
  DEF Next, Proceed

(* Updates, setState and patchState take effect in the order of their      *)
(* calls, wherever they are called from, as long as patchState is not      *)
(* given a function while updates are waiting. What it has read is stale   *)
(* then, and the code overwrites the updates between.                      *)
THEOREM UpdatesAreSerial ==
  ASSUME ~PatchBehindQueue
  PROVE  Spec => []SerialUpdates
<1>1. Init => SerialInv
  <2> SUFFICES ASSUME Init PROVE SerialInv
    OBVIOUS
  <2>1. Now = [isInitialized |-> FALSE, state |-> <<>>]
    BY DEF Init, Now
  <2>5. <<>> \in Seq(Nat) /\ <<>> \in Seq(Tasks)
    OBVIOUS
  <2>6. Now \in Stores
    BY <2>1, <2>5 DEF Stores
  <2>2. FoldLeft(Apply, Now, queue) = Now
    BY <2>6, ApplyNothing DEF Init
  <2>3. Initialized = FALSE
    BY DEF Init, Initialized
  <2>4. QED
    BY <2>1, <2>2, <2>3, <2>5 DEF Init, SerialInv
<1>2. SerialInv /\ [Next]_vars => SerialInv'
  BY SerialStep
<1>3. SerialInv => SerialUpdates
  BY DEF SerialInv, SerialUpdates
<1>4. QED
  BY <1>1, <1>2, <1>3, PTL DEF Spec
=============================================================================
