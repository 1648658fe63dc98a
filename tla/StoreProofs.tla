---------------------------- MODULE StoreProofs ----------------------------
(***************************************************************************)
(* What holds of the store for any set of types, features, subscribers and *)
(* any number of actions.                                                  *)
(***************************************************************************)
EXTENDS Store, SequenceTheorems, TLAPS

(* Dropping an element keeps the type of a sequence.                       *)
LEMMA RemoveAtType ==
  ASSUME NEW S, NEW s \in Seq(S), NEW i \in DOMAIN s
  PROVE  RemoveAt(s, i) \in Seq(S)
<1>1. i \in 1 .. Len(s) /\ Len(s) \in Nat
  BY LenProperties
<1>2. \A j \in 1 .. Len(s) : s[j] \in S
  BY ElementOfSeq
<1>3. SubSeq(s, 1, i - 1) \in Seq(S)
  BY <1>1, <1>2, SubSeqProperties
<1>4. SubSeq(s, i + 1, Len(s)) \in Seq(S)
  BY <1>1, <1>2, SubSeqProperties
<1>5. QED
  BY <1>3, <1>4, ConcatProperties DEF RemoveAt

(* The reducers keep slices sequences of positions of the log.             *)
LEMMA CombinationType ==
  ASSUME TypeOK, StoreAssumption, NEW action
  PROVE  /\ DOMAIN Combination(state, action) \subseteq Features
         /\ \A k \in DOMAIN Combination(state, action) :
              Combination(state, action)[k] \in Seq(Nat)
<1>1. Version \in Nat
  BY LenProperties DEF TypeOK, Version
<1>2. ASSUME NEW k \in Features, NEW slice \in Seq(Nat)
      PROVE  Reduce(k, slice, action) \in Seq(Nat)
  BY <1>1, AppendProperties DEF Reduce
<1>3. \A k \in Features : Slice(state, k) \in Seq(Nat)
  BY EmptySeq DEF TypeOK, Slice, Undefined
<1>4. QED
  BY <1>2, <1>3 DEF TypeOK, Combination

(* Submitting an action keeps the types of the queue and of the history.   *)
LEMMA NextType ==
  ASSUME TypeOK, NEW action \in Actions, Next_(action)
  PROVE  queue' \in Seq(Actions) /\ dispatched' \in Seq(Actions)
BY AppendProperties DEF TypeOK, Next_

(* The store is constructed with its types.                                *)
LEMMA InitType == StoreAssumption /\ Init => TypeOK
<1> SUFFICES ASSUME StoreAssumption, Init PROVE TypeOK
  OBVIOUS
<1>1. <<INIT_TYPE>> \in Seq(Actions) /\ <<>> \in Seq(Actions)
  BY DEF Actions
<1>2. DOMAIN state \subseteq Features /\ \A k \in DOMAIN state : state[k] \in Seq(Nat)
  BY EmptySeq DEF Init, Undefined, StoreAssumption
<1>3. seen \in [Observers -> Seq(Nat)] /\ heard \in [Listeners -> Seq(Nat)]
  BY EmptySeq DEF Init
<1>4. /\ todo \in Seq(Observers \cup Listeners)
      /\ observers \in Seq(Observers)
      /\ listeners \in Seq(Listeners)
  BY EmptySeq DEF Init
<1>5. since \in [Features -> Nat] /\ reducers \in SUBSET Features
  BY DEF Init, StoreAssumption
<1>6. QED
  BY <1>1, <1>2, <1>3, <1>4, <1>5 DEF Init, TypeOK

(* Each step keeps the types.                                              *)
LEMMA StepType == StoreAssumption /\ TypeOK /\ [Next]_vars => TypeOK'
<1> SUFFICES ASSUME StoreAssumption, TypeOK, [Next]_vars PROVE TypeOK'
  OBVIOUS
<1> USE DEF flow, config, subscriptions, status
<1>0. Version \in Nat
  BY LenProperties DEF TypeOK, Version
<1>1. ASSUME NEW action \in Types, Dispatch(action) PROVE TypeOK'
  <2>1. queue' \in Seq(Actions) /\ dispatched' \in Seq(Actions)
    BY <1>1, NextType DEF Dispatch, Actions
  <2>2. QED
    BY <1>1, <2>1 DEF Dispatch, TypeOK
<1>2. ASSUME NEW keys \in SUBSET Features, AddFeatures(keys) PROVE TypeOK'
  <2>1. queue' \in Seq(Actions) /\ dispatched' \in Seq(Actions)
    BY <1>2, NextType DEF AddFeatures, Actions
  <2>2. since' \in [Features -> Nat]
    BY <1>0, <1>2 DEF AddFeatures, TypeOK
  <2>3. QED
    BY <1>2, <2>1, <2>2 DEF AddFeatures, TypeOK
<1>3. ASSUME NEW keys \in SUBSET Features, RemoveFeatures(keys) PROVE TypeOK'
  <2>1. queue' \in Seq(Actions) /\ dispatched' \in Seq(Actions)
    BY <1>3, NextType DEF RemoveFeatures, Actions
  <2>2. QED
    BY <1>3, <2>1 DEF RemoveFeatures, TypeOK
<1>4. ASSUME NEW o \in Observers, Subscribe(o) PROVE TypeOK'
  <2>1. observers' \in Seq(Observers)
    BY <1>4, AppendProperties DEF Subscribe, TypeOK
  <2>2. seen' \in [Observers -> Seq(Nat)]
    BY <1>0, <1>4 DEF Subscribe, TypeOK
  <2>3. QED
    BY <1>4, <2>1, <2>2 DEF Subscribe, TypeOK
<1>5. ASSUME NEW o \in Observers, Unsubscribe(o) PROVE TypeOK'
  <2>1. observers' \in Seq(Observers)
    BY <1>5, RemoveAtType DEF Unsubscribe, TypeOK
  <2>2. QED
    BY <1>5, <2>1 DEF Unsubscribe, TypeOK
<1>6. ASSUME NEW l \in Listeners, Listen(l) PROVE TypeOK'
  <2>1. listeners' \in Seq(Listeners)
    BY <1>6, AppendProperties DEF Listen, TypeOK
  <2>2. QED
    BY <1>6, <2>1 DEF Listen, TypeOK
<1>7. ASSUME NEW l \in Listeners, Unlisten(l) PROVE TypeOK'
  <2>1. listeners' \in Seq(Listeners)
    BY <1>7, RemoveAtType DEF Unlisten, TypeOK
  <2>2. QED
    BY <1>7, <2>1 DEF Unlisten, TypeOK
<1>8. CASE Error
  BY <1>8 DEF Error, TypeOK
<1>9. CASE Destroy
  BY <1>9, EmptySeq DEF Destroy, TypeOK
<1>10. CASE Scan
  <2>1. /\ Head(queue) \in Actions
        /\ queue' \in Seq(Actions)
        /\ log' \in Seq(Actions)
    BY <1>10, HeadTailProperties, AppendProperties DEF Scan, Runnable, TypeOK
  <2>2. /\ DOMAIN state' \subseteq Features
        /\ \A k \in DOMAIN state' : state'[k] \in Seq(Nat)
    BY <1>10, CombinationType DEF Scan, Runnable
  <2>3. todo' \in Seq(Observers \cup Listeners)
    BY <1>10, SeqMonotonic DEF Scan, Runnable, TypeOK
  <2>4. QED
    BY <1>0, <1>10, <2>1, <2>2, <2>3 DEF Scan, Runnable, TypeOK
<1>11. CASE ReducerThrows
  BY <1>11, EmptySeq DEF ReducerThrows, Runnable, TypeOK
<1>12. CASE ErrorNotification
  BY <1>12 DEF ErrorNotification, TypeOK
<1>13. CASE NotifyObserver
  <2>1. Head(todo) \in Observers /\ todo' \in Seq(Observers \cup Listeners)
    <3>1. /\ observers \in Seq(Observers) /\ Contains(observers, Head(todo))
          /\ todo \in Seq(Observers \cup Listeners) /\ todo # <<>>
          /\ todo' = Tail(todo)
      BY <1>13 DEF NotifyObserver, TypeOK
    <3>2. Head(todo) \in Observers
      BY ONLY <3>1, ElementOfSeq DEF Contains
    <3>3. todo' \in Seq(Observers \cup Listeners)
      BY ONLY <3>1, HeadTailProperties
    <3>4. QED
      BY <3>2, <3>3
  <2>2. seen' \in [Observers -> Seq(Nat)]
    BY <1>0, <1>13, <2>1, AppendProperties DEF NotifyObserver, TypeOK
  <2>3. QED
    BY <1>13, <2>1, <2>2 DEF NotifyObserver, TypeOK
<1>14. CASE NotifyListener
  <2>1. Head(todo) \in Listeners /\ todo' \in Seq(Observers \cup Listeners)
    <3>1. /\ listeners \in Seq(Listeners) /\ Contains(listeners, Head(todo))
          /\ todo \in Seq(Observers \cup Listeners) /\ todo # <<>>
          /\ todo' = Tail(todo)
      BY <1>14 DEF NotifyListener, TypeOK
    <3>2. Head(todo) \in Listeners
      BY ONLY <3>1, ElementOfSeq DEF Contains
    <3>3. todo' \in Seq(Observers \cup Listeners)
      BY ONLY <3>1, HeadTailProperties
    <3>4. QED
      BY <3>2, <3>3
  <2>2. heard' \in [Listeners -> Seq(Nat)]
    BY <1>0, <1>14, <2>1, AppendProperties DEF NotifyListener, TypeOK
  <2>3. QED
    BY <1>14, <2>1, <2>2 DEF NotifyListener, TypeOK
<1>15. CASE SkipClosed
  <2>1. todo' \in Seq(Observers \cup Listeners)
    BY <1>15, HeadTailProperties DEF SkipClosed, TypeOK
  <2>2. QED
    BY <1>15, <2>1 DEF SkipClosed, TypeOK
<1>16. CASE CallbackReturns
  BY <1>16 DEF CallbackReturns, TypeOK
<1>17. CASE EmitScanned
  <2>1. todo' \in Seq(Observers \cup Listeners)
    BY <1>17, SeqMonotonic DEF EmitScanned, CalledAll, TypeOK
  <2>2. QED
    BY <1>17, <2>1 DEF EmitScanned, CalledAll, TypeOK
<1>18. CASE Flushed
  BY <1>18 DEF Flushed, CalledAll, TypeOK
<1>19. CASE UNCHANGED vars
  BY <1>19 DEF vars, TypeOK
<1>20. QED
  BY <1>1, <1>2, <1>3, <1>4, <1>5, <1>6, <1>7, <1>8, <1>9, <1>10, <1>11,
     <1>12, <1>13, <1>14, <1>15, <1>16, <1>17, <1>18, <1>19
  DEF Next, Application, Flush

(* Every variable keeps its type, and nothing is under way while the queue *)
(* of the scheduler is not being flushed.                                  *)
THEOREM TypeCorrect == Spec => []TypeOK
<1>1. Init => TypeOK
  BY InitType, StoreAssumption
<1>2. TypeOK /\ [Next]_vars => TypeOK'
  BY StepType, StoreAssumption
<1>3. QED
  BY <1>1, <1>2, PTL DEF Spec

(***************************************************************************)
(* The queue.                                                              *)
(***************************************************************************)

(* Submitting an action keeps the serial order.                            *)
LEMMA NextSerial ==
  ASSUME TypeOK, SerialOrder, NEW action \in Actions, Next_(action),
         log' = log, alive' = alive
  PROVE  SerialOrder'
<1>1. CASE accepting /\ alive
  <2>1. /\ Append(queue, action) \in Seq(Actions)
        /\ Append(queue, action) = queue \o <<action>>
        /\ Append(dispatched, action) = dispatched \o <<action>>
        /\ <<action>> \in Seq(Actions)
    BY AppendProperties, AppendIsConcat DEF TypeOK
  <2>2. log \o queue' = dispatched'
    <3>1. (log \o queue) \o <<action>> = log \o (queue \o <<action>>)
      <4>1. log \in Seq(Actions) /\ queue \in Seq(Actions)
        BY DEF TypeOK
      <4>2. QED
        BY <4>1, <2>1, ConcatAssociative
    <3>2. log \o queue = dispatched
      BY <1>1 DEF SerialOrder
    <3>3. queue' = queue \o <<action>> /\ dispatched' = dispatched \o <<action>>
      BY <1>1, <2>1 DEF Next_
    <3>4. QED
      BY <3>1, <3>2, <3>3
  <2>3. /\ Len(dispatched') = Len(dispatched) + 1
        /\ \A i \in 1 .. Len(dispatched) : dispatched'[i] = dispatched[i]
    BY <1>1, AppendProperties DEF TypeOK, Next_
  <2>4. Len(log) \in Nat /\ Len(dispatched) \in Nat
    BY LenProperties DEF TypeOK
  <2>5. QED
    BY <2>2, <2>3, <2>4 DEF SerialOrder
<1>2. CASE ~(accepting /\ alive)
  BY <1>2 DEF SerialOrder, Next_
<1>3. QED
  BY <1>1, <1>2

(* Reducing the head of the queue moves it to the log.                     *)
LEMMA ScanSerial ==
  ASSUME TypeOK, SerialOrder, alive, Scan
  PROVE  SerialOrder'
<1>1. queue # <<>> /\ queue' = Tail(queue) /\ log' = Append(log, Head(queue))
  BY DEF Scan, Runnable
<1>2. /\ Head(queue) \in Actions /\ Tail(queue) \in Seq(Actions)
      /\ <<Head(queue)>> \in Seq(Actions)
  BY <1>1, HeadTailProperties DEF TypeOK
<1>3. queue = <<Head(queue)>> \o Tail(queue)
  <2>1. Len(queue) \in Nat /\ 1 \in 1 .. Len(queue)
    BY <1>1, EmptySeq, LenProperties DEF TypeOK
  <2>2. SubSeq(queue, 1, Len(queue)) = <<queue[1]>> \o SubSeq(queue, 2, Len(queue))
    <3>1. Len(queue) \in 1 .. Len(queue)
      BY <2>1
    <3>2. SubSeq(queue, 1, Len(queue)) = <<queue[1]>> \o SubSeq(queue, 1 + 1, Len(queue))
      BY <2>1, <3>1, SubSeqRecursiveFirst DEF TypeOK
    <3>3. QED BY <3>2
  <2>3. Head(queue) = queue[1]
    BY <1>1
  <2>4. QED
    BY <1>1, <2>2, <2>3, TailIsSubSeq, SubSeqFull DEF TypeOK
<1>4. log' = log \o <<Head(queue)>>
  BY <1>1, <1>2, AppendIsConcat DEF TypeOK
<1>5. log' \o queue' = log \o queue
  <2>1. log \in Seq(Actions)
    BY DEF TypeOK
  <2>2. (log \o <<Head(queue)>>) \o Tail(queue)
          = log \o (<<Head(queue)>> \o Tail(queue))
    BY <1>2, <2>1, ConcatAssociative
  <2>3. QED
    BY ONLY <1>1, <1>3, <1>4, <2>2
<1>6. log' \o queue' = dispatched'
  BY <1>5 DEF SerialOrder, Scan, Runnable
<1>7. log' \in Seq(Actions) /\ queue' \in Seq(Actions)
  BY <1>1, <1>2, AppendProperties DEF TypeOK
<1>8. /\ Len(log') \in Nat /\ Len(queue') \in Nat
      /\ Len(dispatched') = Len(log') + Len(queue')
      /\ \A i \in 1 .. Len(log') : dispatched'[i] = log'[i]
  <2>1. /\ Len(log' \o queue') = Len(log') + Len(queue')
        /\ \A i \in 1 .. Len(log') + Len(queue') :
             (log' \o queue')[i] = IF i <= Len(log') THEN log'[i]
                                   ELSE queue'[i - Len(log')]
    BY <1>7, ConcatProperties
  <2>2. Len(log') \in Nat /\ Len(queue') \in Nat
    BY <1>7, LenProperties
  <2>3. QED
    BY <1>6, <2>1, <2>2
<1>9. QED
  BY <1>6, <1>8 DEF SerialOrder

(* The inductive invariant: the serial order, and a store that died has    *)
(* nothing queued that a scan could still take up.                         *)
QueueInvariant == SerialOrder /\ (~alive => queue = <<>>)

(* Each step keeps the serial order and a dead store's queue empty.        *)
LEMMA StepSerial ==
  ASSUME StoreAssumption, TypeOK, QueueInvariant, [Next]_vars
  PROVE  QueueInvariant'
<1> USE DEF flow, config, subscriptions, status
<1>1. ASSUME NEW action \in Actions, Next_(action), log' = log, alive' = alive
      PROVE  QueueInvariant'
  BY <1>1, NextSerial DEF QueueInvariant, Next_, TypeOK
<1>2. ASSUME NEW action \in Types, Dispatch(action) PROVE QueueInvariant'
  BY <1>1, <1>2 DEF Dispatch, Actions
<1>3. ASSUME NEW keys \in SUBSET Features, AddFeatures(keys) \/ RemoveFeatures(keys)
      PROVE  QueueInvariant'
  BY <1>1, <1>3 DEF AddFeatures, RemoveFeatures, Actions
<1>4. CASE Scan
  <2>1. alive
    BY <1>4 DEF Scan, Runnable, QueueInvariant, TypeOK
  <2>2. QED
    BY <1>4, <2>1, ScanSerial DEF QueueInvariant, Scan, Runnable
<1>5. CASE Destroy \/ ReducerThrows
  BY <1>5 DEF Destroy, ReducerThrows, Runnable, QueueInvariant, SerialOrder
<1>6. CASE ErrorNotification
  BY <1>6 DEF ErrorNotification, QueueInvariant, SerialOrder
<1>7. CASE UNCHANGED <<queue, log, dispatched, alive>>
  BY <1>7 DEF QueueInvariant, SerialOrder
<1>8. QED
  BY <1>2, <1>3, <1>4, <1>5, <1>6, <1>7
  DEF Next, Application, Flush, Subscribe, Unsubscribe, Listen, Unlisten, Error,
      NotifyObserver, NotifyListener, SkipClosed, CallbackReturns, EmitScanned, CalledAll,
      Flushed, vars

(* The inductive invariant of the queue holds throughout.                  *)
LEMMA QueueHolds == Spec => []QueueInvariant
<1>1. Init => QueueInvariant
  BY EmptySeq, ConcatEmptySeq DEF Init, QueueInvariant, SerialOrder, Actions
<1>2. TypeOK /\ QueueInvariant /\ [Next]_vars => QueueInvariant'
  BY StepSerial, StoreAssumption
<1>3. QED
  BY <1>1, <1>2, TypeCorrect, PTL DEF Spec

(* Every accepted action is reduced at most once, in dispatch order, and   *)
(* while the store lives none is lost between ActionsSubject and reducer.  *)
THEOREM ActionsAreSerial == Spec => []SerialOrder
BY QueueHolds, PTL DEF QueueInvariant

(***************************************************************************)
(* Subscribers.  First, what the operations on lists of subscribers and on *)
(* lists of versions do.                                                   *)
(***************************************************************************)

(* A subscriber is in a list when it is in the list's set.                 *)
LEMMA ContainsIsToSet ==
  ASSUME NEW S, NEW s \in Seq(S)
  PROVE  /\ \A e : Contains(s, e) <=> e \in ToSet(s)
         /\ ToSet(s) \subseteq S
BY LenProperties DEF Contains, ToSet

(* Adding a new subscriber.                                                *)
LEMMA AppendSubscriber ==
  ASSUME NEW S, NEW s \in Seq(S), NEW e \in S, ~Contains(s, e), IsInjective(s)
  PROVE  IsInjective(Append(s, e)) /\ ToSet(Append(s, e)) = ToSet(s) \cup {e}
<1> DEFINE t == Append(s, e)
<1>1. /\ Len(s) \in Nat /\ DOMAIN s = 1 .. Len(s)
      /\ t \in Seq(S) /\ Len(t) = Len(s) + 1 /\ DOMAIN t = 1 .. Len(t)
      /\ \A i \in 1 .. Len(s) : t[i] = s[i]
      /\ t[Len(s) + 1] = e
  BY LenProperties, AppendProperties
<1> HIDE DEF t
<1>2. IsInjective(t)
  BY <1>1 DEF IsInjective, Contains
<1>3. ToSet(t) = ToSet(s) \cup {e}
  <2>1. ToSet(t) \subseteq ToSet(s) \cup {e}
    BY <1>1 DEF ToSet
  <2>2. ASSUME NEW x \in ToSet(s) PROVE x \in ToSet(t)
    <3>1. PICK i \in 1 .. Len(s) : x = s[i]
      BY <1>1, <2>2 DEF ToSet
    <3>2. i \in 1 .. Len(t) /\ t[i] = x
      BY <1>1, <3>1
    <3>3. QED
      BY <1>1, <3>2 DEF ToSet
  <2>3. e \in ToSet(t)
    <3>1. Len(s) + 1 \in DOMAIN t
      BY <1>1
    <3>2. QED
      BY <1>1, <3>1 DEF ToSet
  <2>4. QED
    BY <2>1, <2>2, <2>3
<1>4. QED
  BY <1>2, <1>3 DEF t

(* Dropping a subscriber.                                                  *)
LEMMA RemoveSubscriber ==
  ASSUME NEW S, NEW s \in Seq(S), NEW k \in DOMAIN s, IsInjective(s)
  PROVE  /\ IsInjective(RemoveAt(s, k))
         /\ ToSet(RemoveAt(s, k)) = ToSet(s) \ {s[k]}
<1> DEFINE a == SubSeq(s, 1, k - 1)
           b == SubSeq(s, k + 1, Len(s))
           t == a \o b
           At(i) == IF i <= k - 1 THEN i ELSE i + 1
<1>1. /\ Len(s) \in Nat /\ DOMAIN s = 1 .. Len(s) /\ k \in 1 .. Len(s)
      /\ \A j \in 1 .. Len(s) : s[j] \in S
  BY LenProperties, ElementOfSeq
<1>2. /\ a \in Seq(S) /\ Len(a) = k - 1
      /\ \A i \in 1 .. k - 1 : a[i] = s[i]
  BY <1>1, SubSeqProperties
<1>3. /\ b \in Seq(S) /\ Len(b) = Len(s) - k
      /\ \A i \in 1 .. Len(s) - k : b[i] = s[k + i]
  <2>1. \A i \in k + 1 .. Len(s) : s[i] \in S
    BY <1>1
  <2>2. /\ b \in Seq(S)
        /\ Len(b) = IF k + 1 <= Len(s) THEN Len(s) - (k + 1) + 1 ELSE 0
        /\ \A i \in 1 .. Len(s) - (k + 1) + 1 : b[i] = s[(k + 1) + i - 1]
    BY <1>1, <2>1, SubSeqProperties
  <2>3. /\ Len(s) - (k + 1) + 1 = Len(s) - k
        /\ (IF k + 1 <= Len(s) THEN Len(s) - (k + 1) + 1 ELSE 0) = Len(s) - k
        /\ \A i \in 1 .. Len(s) - k : (k + 1) + i - 1 = k + i
    BY <1>1
  <2> HIDE DEF b
  <2>4. ASSUME NEW i \in 1 .. Len(s) - k PROVE b[i] = s[k + i]
    <3>1. b[i] = s[(k + 1) + i - 1]
      BY <2>2, <2>3
    <3>2. QED
      BY <3>1, <2>3
  <2>5. QED
    BY <2>2, <2>3, <2>4
<1>4. /\ t \in Seq(S) /\ Len(t) = Len(a) + Len(b)
      /\ \A i \in 1 .. Len(a) + Len(b) :
           t[i] = IF i <= Len(a) THEN a[i] ELSE b[i - Len(a)]
  BY <1>2, <1>3, ConcatProperties
<1> HIDE DEF a, b, t
<1>5. /\ DOMAIN t = 1 .. Len(s) - 1
      /\ \A i \in 1 .. Len(s) - 1 : At(i) \in 1 .. Len(s) /\ t[i] = s[At(i)]
  <2>1. DOMAIN t = 1 .. Len(s) - 1
    BY <1>1, <1>2, <1>3, <1>4, LenProperties
  <2>2. ASSUME NEW i \in 1 .. Len(s) - 1
        PROVE  At(i) \in 1 .. Len(s) /\ t[i] = s[At(i)]
    <3>1. CASE i <= k - 1
      <4>1. /\ i \in 1 .. k - 1 /\ At(i) = i /\ i \in 1 .. Len(s)
            /\ i \in 1 .. Len(a) + Len(b) /\ i <= Len(a)
        BY <1>1, <1>2, <1>3, <3>1
      <4>2. QED
        BY <1>2, <1>4, <4>1
    <3>2. CASE ~(i <= k - 1)
      <4>1. t[i] = b[i - (k - 1)]
        BY <1>1, <1>2, <1>3, <1>4, <3>2
      <4>2. i - (k - 1) \in 1 .. Len(s) - k
        BY <1>1, <3>2
      <4>3. b[i - (k - 1)] = s[k + (i - (k - 1))]
        BY <1>3, <4>2
      <4>4. k + (i - (k - 1)) = i + 1
        BY <1>1
      <4>5. QED
        BY <1>1, <3>2, <4>1, <4>3, <4>4
    <3>3. QED
      BY <3>1, <3>2
  <2>3. QED
    BY <2>1, <2>2
<1>6. /\ \A i, j \in 1 .. Len(s) - 1 : At(i) = At(j) => i = j
      /\ \A i \in 1 .. Len(s) - 1 : At(i) # k
      /\ \A j \in 1 .. Len(s) : j # k =>
           \E i \in 1 .. Len(s) - 1 : At(i) = j
  <2>1. ASSUME NEW j \in 1 .. Len(s), j # k
        PROVE  \E i \in 1 .. Len(s) - 1 : At(i) = j
    <3>1. CASE j < k
      <4>1. j \in 1 .. Len(s) - 1 /\ At(j) = j
        BY <1>1, <3>1
      <4>2. QED
        BY <4>1
    <3>2. CASE j > k
      <4>1. j - 1 \in 1 .. Len(s) - 1 /\ At(j - 1) = j
        BY <1>1, <3>2
      <4>2. QED
        BY <4>1
    <3>3. QED
      BY <1>1, <2>1, <3>1, <3>2
  <2>2. QED
    BY <1>1, <2>1
<1> HIDE DEF At
<1>7. IsInjective(t)
  BY <1>1, <1>5, <1>6 DEF IsInjective
<1>8. ToSet(t) = ToSet(s) \ {s[k]}
  <2>1. ToSet(t) \subseteq ToSet(s) \ {s[k]}
    BY <1>1, <1>5, <1>6 DEF ToSet, IsInjective
  <2>2. ASSUME NEW x \in ToSet(s) \ {s[k]} PROVE x \in ToSet(t)
    <3>1. PICK j \in 1 .. Len(s) : x = s[j] /\ j # k
      BY <1>1, <2>2 DEF ToSet
    <3>2. PICK i \in 1 .. Len(s) - 1 : At(i) = j
      BY <1>6, <3>1
    <3>3. i \in DOMAIN t /\ t[i] = x
      BY <1>5, <3>1, <3>2
    <3>4. QED
      BY <3>3 DEF ToSet
  <2>3. QED
    BY <2>1, <2>2
<1>9. QED
  BY <1>7, <1>8 DEF t, a, b, RemoveAt

(* Calling the first subscriber of a snapshot leaves the others.           *)
LEMMA NextSubscriber ==
  ASSUME NEW S, NEW s \in Seq(S), s # <<>>, IsInjective(s)
  PROVE  /\ Head(s) \in ToSet(s) /\ Tail(s) \in Seq(S)
         /\ IsInjective(Tail(s))
         /\ ToSet(Tail(s)) = ToSet(s) \ {Head(s)}
<1> DEFINE t == Tail(s)
<1>1. /\ Len(s) \in Nat \ {0} /\ DOMAIN s = 1 .. Len(s)
      /\ t \in Seq(S) /\ Len(t) = Len(s) - 1 /\ DOMAIN t = 1 .. Len(t)
      /\ \A i \in 1 .. Len(t) : t[i] = s[i + 1]
      /\ Head(s) = s[1]
  BY EmptySeq, LenProperties, HeadTailProperties
<1> HIDE DEF t
<1>2. Head(s) \in ToSet(s)
  BY <1>1 DEF ToSet
<1>3. IsInjective(t)
  <2> SUFFICES ASSUME NEW i \in DOMAIN t, NEW j \in DOMAIN t, t[i] = t[j]
               PROVE  i = j
    BY DEF IsInjective
  <2>1. i + 1 \in DOMAIN s /\ j + 1 \in DOMAIN s /\ s[i + 1] = s[j + 1]
    BY <1>1
  <2>2. QED
    BY <1>1, <2>1 DEF IsInjective
<1>4. ToSet(t) \subseteq ToSet(s) \ {Head(s)}
  <2> SUFFICES ASSUME NEW i \in DOMAIN t PROVE t[i] \in ToSet(s) /\ t[i] # s[1]
    BY <1>1 DEF ToSet
  <2>1. i + 1 \in DOMAIN s /\ 1 \in DOMAIN s /\ i + 1 # 1 /\ t[i] = s[i + 1]
    BY <1>1
  <2>2. QED
    BY <2>1 DEF IsInjective, ToSet
<1>5. ASSUME NEW x \in ToSet(s), x # Head(s) PROVE x \in ToSet(t)
  <2>1. PICK i \in DOMAIN s : x = s[i]
    BY DEF ToSet
  <2>2. i # 1
    BY <1>1, <1>5, <2>1
  <2>3. i - 1 \in 1 .. Len(t) /\ t[i - 1] = s[(i - 1) + 1] /\ (i - 1) + 1 = i
    BY <1>1, <2>1, <2>2
  <2>4. QED
    BY <1>1, <2>1, <2>3 DEF ToSet
<1>6. QED
  BY <1>1, <1>2, <1>3, <1>4, <1>5 DEF t

(* Showing the version that follows the last one shown leaves no gap.      *)
LEMMA ShowNext ==
  ASSUME NEW s \in Seq(Nat), NEW v \in Nat, Successive(s),
         s # <<>> => Last(s) = v - 1
  PROVE  /\ Successive(Append(s, v)) /\ Last(Append(s, v)) = v
         /\ Append(s, v) # <<>> /\ Append(s, v) \in Seq(Nat)
<1> DEFINE t == Append(s, v)
<1>1. /\ Len(s) \in Nat /\ t \in Seq(Nat) /\ t # <<>> /\ Len(t) = Len(s) + 1
      /\ \A i \in 1 .. Len(s) : t[i] = s[i]
      /\ t[Len(s) + 1] = v
      /\ s # <<>> => Len(s) # 0
  <2>1. Len(s) \in Nat /\ (s # <<>> => Len(s) # 0)
    BY LenProperties, EmptySeq
  <2>2. QED
    BY <2>1, AppendProperties
<1> HIDE DEF t
<1>2. ASSUME NEW i \in 1 .. Len(t) - 1 PROVE t[i + 1] = t[i] + 1
  <2>1. CASE i = Len(s)
    <3>1. s # <<>> /\ t[i] = Last(s)
      BY <1>1, <2>1, EmptySeq DEF Last
    <3>2. QED
      BY <1>1, <2>1, <3>1
  <2>2. CASE i # Len(s)
    <3>1. /\ i \in 1 .. Len(s) - 1 /\ i \in 1 .. Len(s)
          /\ i + 1 \in 1 .. Len(s)
      BY <1>1, <1>2, <2>2
    <3>2. t[i] = s[i] /\ t[i + 1] = s[i + 1]
      BY <1>1, <3>1
    <3>3. QED
      BY <3>1, <3>2 DEF Successive
  <2>3. QED
    BY <2>1, <2>2
<1>3. QED
  BY <1>1, <1>2 DEF t, Successive, Last

(***************************************************************************)
(* The inductive invariant on subscribers.  That views have no gap needs   *)
(* the discipline of the callbacks (a snapshot calls a subscriber once,    *)
(* and only the snapshot's subscribers are behind), and that the effects   *)
(* come after the state needs the views.                                   *)
(***************************************************************************)
ViewInvariant ==
  CallbackDiscipline /\ GaplessViews /\ GaplessHearing /\ EffectsAfterState

(* What the types and the lists' sets say of a state of the invariant.     *)
LEMMA ViewFacts ==
  ASSUME StoreAssumption, TypeOK
  PROVE  /\ Version \in Nat
         /\ \A o \in Observers : seen[o] \in Seq(Nat)
         /\ \A l \in Listeners : heard[l] \in Seq(Nat)
         /\ \A e : Contains(observers, e) <=> e \in ToSet(observers)
         /\ \A e : Contains(listeners, e) <=> e \in ToSet(listeners)
         /\ \A e : Contains(todo, e) <=> e \in ToSet(todo)
         /\ ToSet(observers) \subseteq Observers
         /\ ToSet(listeners) \subseteq Listeners
         /\ ToSet(todo) \subseteq Observers \cup Listeners
         /\ Observers \cap Listeners = {}
         /\ Nobody \notin Observers \cup Listeners
<1>1. Version \in Nat
  BY LenProperties DEF TypeOK, Version
<1>2. /\ \A e : Contains(observers, e) <=> e \in ToSet(observers)
      /\ ToSet(observers) \subseteq Observers
  BY ContainsIsToSet DEF TypeOK
<1>3. /\ \A e : Contains(listeners, e) <=> e \in ToSet(listeners)
      /\ ToSet(listeners) \subseteq Listeners
  BY ContainsIsToSet DEF TypeOK
<1>4. /\ \A e : Contains(todo, e) <=> e \in ToSet(todo)
      /\ ToSet(todo) \subseteq Observers \cup Listeners
  BY ContainsIsToSet DEF TypeOK
<1>5. QED
  BY <1>1, <1>2, <1>3, <1>4 DEF TypeOK, StoreAssumption

(* A step that changes neither subscribers nor versions nor callbacks.     *)
LEMMA UnchangedViews ==
  ASSUME ViewInvariant,
         UNCHANGED <<phase, todo, cur, observers, listeners, seen, heard, log,
                     signal>>,
         ~alive' => queue' = <<>>
  PROVE  ViewInvariant'
BY DEF ViewInvariant, CallbackDiscipline, GaplessViews, GaplessHearing,
       EffectsAfterState, Version

(* A new subscriber of the state starts with the current version.          *)
LEMMA SubscribeViews ==
  ASSUME StoreAssumption, TypeOK, ViewInvariant, NEW o \in Observers, Subscribe(o)
  PROVE  ViewInvariant'
<1> USE ViewFacts DEF flow, config, status
<1>1. /\ UNCHANGED <<queue, phase, todo, cur, signal, listeners, heard, alive, log>>
      /\ observers' = Append(observers, o)
      /\ seen' = [seen EXCEPT ![o] = <<Version>>]
      /\ seen[o] = <<>> /\ ~Contains(observers, o)
  BY DEF Subscribe
<1>2. IsInjective(observers') /\ ToSet(observers') = ToSet(observers) \cup {o}
  BY <1>1, AppendSubscriber DEF TypeOK, ViewInvariant, CallbackDiscipline
<1>3. /\ seen'[o] = <<Version>> /\ Last(<<Version>>) = Version
      /\ Successive(<<Version>>) /\ <<Version>> # <<>>
      /\ \A x \in Observers \ {o} : seen'[x] = seen[x]
  BY <1>1 DEF TypeOK, Last, Successive
<1>4. ~Contains(todo, o)
  BY <1>1 DEF ViewInvariant, CallbackDiscipline
<1>5. CallbackDiscipline'
  BY <1>1, <1>2, <1>3 DEF ViewInvariant, CallbackDiscipline
<1>6. GaplessViews'
  BY <1>1, <1>2, <1>3, <1>4 DEF ViewInvariant, GaplessViews, Version, Contains
<1>7. GaplessHearing'
  BY <1>1 DEF ViewInvariant, GaplessHearing, Version, Contains
<1>8. EffectsAfterState'
  BY <1>1, <1>2, <1>3 DEF ViewInvariant, EffectsAfterState, Version
<1>9. QED
  BY <1>5, <1>6, <1>7, <1>8 DEF ViewInvariant

(* Subscribers that leave take nothing from the others.                    *)
LEMMA LeaveViews ==
  ASSUME StoreAssumption, TypeOK, ViewInvariant,
         UNCHANGED <<phase, todo, cur, signal, seen, heard, log>>,
         ~alive' => queue' = <<>>,
         IsInjective(observers'), ToSet(observers') \subseteq ToSet(observers),
         IsInjective(listeners'), ToSet(listeners') \subseteq ToSet(listeners)
  PROVE  ViewInvariant'
<1>1. CallbackDiscipline'
  BY DEF ViewInvariant, CallbackDiscipline
<1>2. GaplessViews'
  BY DEF ViewInvariant, GaplessViews, Version
<1>3. GaplessHearing'
  BY DEF ViewInvariant, GaplessHearing, Version
<1>4. EffectsAfterState'
  BY DEF ViewInvariant, EffectsAfterState, Version
<1>5. QED
  BY <1>1, <1>2, <1>3, <1>4 DEF ViewInvariant

(* One subscriber leaves, or all of them when the store is destroyed.      *)
LEMMA UnsubscribeViews ==
  ASSUME StoreAssumption, TypeOK, ViewInvariant,
         \/ \E o \in Observers : Unsubscribe(o)
         \/ \E l \in Listeners : Unlisten(l)
         \/ Destroy
  PROVE  ViewInvariant'
<1> USE DEF flow, config, status
<1>1. CASE \E o \in Observers : Unsubscribe(o)
  <2>1. PICK i \in DOMAIN observers : observers' = RemoveAt(observers, i)
    BY <1>1 DEF Unsubscribe
  <2>2. IsInjective(observers') /\ ToSet(observers') \subseteq ToSet(observers)
    BY <2>1, RemoveSubscriber DEF TypeOK, ViewInvariant, CallbackDiscipline
  <2>3. QED
    BY <1>1, <2>2, LeaveViews DEF Unsubscribe, ViewInvariant, CallbackDiscipline
<1>2. CASE \E l \in Listeners : Unlisten(l)
  <2>1. PICK i \in DOMAIN listeners : listeners' = RemoveAt(listeners, i)
    BY <1>2 DEF Unlisten
  <2>2. IsInjective(listeners') /\ ToSet(listeners') \subseteq ToSet(listeners)
    BY <2>1, RemoveSubscriber DEF TypeOK, ViewInvariant, CallbackDiscipline
  <2>3. QED
    BY <1>2, <2>2, LeaveViews DEF Unlisten, ViewInvariant, CallbackDiscipline
<1>3. CASE Destroy
  <2>1. IsInjective(<<>>) /\ ToSet(<<>>) = {}
    BY DEF IsInjective, ToSet
  <2>2. QED
    BY <1>3, <2>1, LeaveViews DEF Destroy
<1>4. QED
  BY <1>1, <1>2, <1>3

(* A new listener has heard nothing yet.                                   *)
LEMMA ListenViews ==
  ASSUME StoreAssumption, TypeOK, ViewInvariant, NEW l \in Listeners, Listen(l)
  PROVE  ViewInvariant'
<1> USE ViewFacts DEF flow, config, status
<1>1. /\ UNCHANGED <<queue, phase, todo, cur, signal, observers, seen, heard, alive, log>>
      /\ listeners' = Append(listeners, l)
      /\ heard[l] = <<>> /\ ~Contains(listeners, l)
  BY DEF Listen
<1>2. IsInjective(listeners') /\ ToSet(listeners') = ToSet(listeners) \cup {l}
  BY <1>1, AppendSubscriber DEF TypeOK, ViewInvariant, CallbackDiscipline
<1>3. CallbackDiscipline'
  BY <1>1, <1>2 DEF ViewInvariant, CallbackDiscipline
<1>4. GaplessViews'
  BY <1>1 DEF ViewInvariant, GaplessViews, Version
<1>5. GaplessHearing'
  BY <1>1, <1>2 DEF ViewInvariant, GaplessHearing, Version
<1>6. EffectsAfterState'
  BY <1>1 DEF ViewInvariant, EffectsAfterState, Version
<1>7. QED
  BY <1>3, <1>4, <1>5, <1>6 DEF ViewInvariant

(* After a scan every subscriber of the state is behind by one, and in the *)
(* snapshot.                                                               *)
LEMMA ScanViews ==
  ASSUME StoreAssumption, TypeOK, ViewInvariant, Scan
  PROVE  ViewInvariant'
<1> USE ViewFacts DEF config, status, subscriptions
<1>1. /\ UNCHANGED <<cur, observers, listeners, seen, heard, alive>>
      /\ phase = "idle" /\ phase' = "state" /\ todo' = observers
      /\ signal' = Version + 1 /\ cur = Nobody
      /\ alive
  BY DEF Scan, Runnable, TypeOK, ViewInvariant, CallbackDiscipline
<1>2. Version' = Version + 1
  <2>1. Head(queue) \in Actions
    BY HeadTailProperties DEF Scan, Runnable, TypeOK
  <2>2. QED
    BY <2>1, AppendProperties DEF Scan, Runnable, TypeOK, Version
<1>3. CallbackDiscipline'
  BY <1>1 DEF ViewInvariant, CallbackDiscipline
<1>4. GaplessViews'
  BY <1>1, <1>2 DEF ViewInvariant, GaplessViews
<1>5. GaplessHearing'
  BY <1>1, <1>2 DEF ViewInvariant, GaplessHearing
<1>6. EffectsAfterState'
  BY <1>1, <1>2 DEF ViewInvariant, EffectsAfterState
<1>7. QED
  BY <1>3, <1>4, <1>5, <1>6 DEF ViewInvariant

(* The subscriber whose turn it is catches up.                             *)
LEMMA NotifyObserverViews ==
  ASSUME StoreAssumption, TypeOK, ViewInvariant, NotifyObserver
  PROVE  ViewInvariant'
<1> USE ViewFacts DEF config, status
<1> DEFINE o == Head(todo)
<1>1. /\ UNCHANGED <<queue, phase, signal, observers, listeners, heard, alive, log>>
      /\ phase = "state" /\ todo # <<>>
      /\ cur' = o /\ todo' = Tail(todo)
      /\ seen' = [seen EXCEPT ![o] = Append(@, Version)]
      /\ o \in ToSet(observers) /\ o \in Observers
  BY DEF NotifyObserver
<1>2. /\ o \in ToSet(todo) /\ IsInjective(todo')
      /\ todo' \in Seq(Observers \cup Listeners)
      /\ ToSet(todo') = ToSet(todo) \ {o}
  BY <1>1, NextSubscriber DEF TypeOK, ViewInvariant, CallbackDiscipline
<1>3. \A e : Contains(todo', e) <=> e \in ToSet(todo')
  BY <1>2, ContainsIsToSet
<1>4. /\ Successive(seen'[o]) /\ Last(seen'[o]) = Version /\ seen'[o] # <<>>
      /\ \A x \in Observers \ {o} : seen'[x] = seen[x]
  <2>1. seen'[o] = Append(seen[o], Version) /\ \A x \in Observers \ {o} : seen'[x] = seen[x]
    BY <1>1 DEF TypeOK
  <2>2. Successive(seen[o]) /\ Last(seen[o]) = Version - 1
    BY <1>1, <1>2 DEF ViewInvariant, GaplessViews
  <2>3. QED
    BY <1>1, <2>1, <2>2, ShowNext
<1> HIDE DEF o
<1>5. CallbackDiscipline'
  BY <1>1, <1>2, <1>3, <1>4 DEF ViewInvariant, CallbackDiscipline
<1>6. Version' = Version
  BY <1>1 DEF Version
<1>7. GaplessViews'
  BY <1>1, <1>2, <1>3, <1>4, <1>6 DEF ViewInvariant, GaplessViews
<1>8. GaplessHearing'
  BY <1>1, <1>6 DEF ViewInvariant, GaplessHearing
<1>9. EffectsAfterState'
  BY <1>1, <1>6 DEF ViewInvariant, EffectsAfterState
<1>10. QED
  BY <1>5, <1>7, <1>8, <1>9 DEF ViewInvariant

(* A listener hears the version after the last one it heard, when no       *)
(* subscriber of the state is behind any more.                             *)
LEMMA NotifyListenerViews ==
  ASSUME StoreAssumption, TypeOK, ViewInvariant, NotifyListener
  PROVE  ViewInvariant'
<1> USE ViewFacts DEF config, status
<1> DEFINE l == Head(todo)
<1>1. /\ UNCHANGED <<queue, phase, signal, observers, listeners, seen, alive, log>>
      /\ phase = "scanned" /\ todo # <<>>
      /\ cur' = l /\ todo' = Tail(todo)
      /\ heard' = [heard EXCEPT ![l] = Append(@, Version)]
      /\ l \in ToSet(listeners) /\ l \in Listeners
  BY DEF NotifyListener
<1>2. /\ l \in ToSet(todo) /\ IsInjective(todo')
      /\ todo' \in Seq(Observers \cup Listeners)
      /\ ToSet(todo') = ToSet(todo) \ {l}
  BY <1>1, NextSubscriber DEF TypeOK, ViewInvariant, CallbackDiscipline
<1>3. \A e : Contains(todo', e) <=> e \in ToSet(todo')
  BY <1>2, ContainsIsToSet
<1>4. /\ Successive(heard'[l]) /\ Last(heard'[l]) = Version
      /\ \A x \in Listeners \ {l} : heard'[x] = heard[x]
  <2>1. heard'[l] = Append(heard[l], Version) /\ \A x \in Listeners \ {l} : heard'[x] = heard[x]
    BY <1>1 DEF TypeOK
  <2>2. Successive(heard[l]) /\ (heard[l] # <<>> => Last(heard[l]) = Version - 1)
    BY <1>1, <1>2 DEF ViewInvariant, GaplessHearing
  <2>3. QED
    BY <1>1, <2>1, <2>2, ShowNext
<1> HIDE DEF l
<1>5. CallbackDiscipline'
  BY <1>1, <1>2, <1>3 DEF ViewInvariant, CallbackDiscipline
<1>6. Version' = Version
  BY <1>1 DEF Version
<1>7. GaplessViews'
  BY <1>1, <1>6 DEF ViewInvariant, GaplessViews
<1>8. GaplessHearing'
  BY <1>1, <1>2, <1>3, <1>4, <1>6 DEF ViewInvariant, GaplessHearing
<1>9. EffectsAfterState'
  BY <1>1, <1>4, <1>6 DEF ViewInvariant, EffectsAfterState, GaplessViews
<1>10. QED
  BY <1>5, <1>7, <1>8, <1>9 DEF ViewInvariant

(* A closed subscriber of the snapshot was not counted on.                 *)
LEMMA SkipClosedViews ==
  ASSUME StoreAssumption, TypeOK, ViewInvariant, SkipClosed
  PROVE  ViewInvariant'
<1> USE ViewFacts DEF config, status, subscriptions
<1> DEFINE e == Head(todo)
<1>1. /\ UNCHANGED <<queue, phase, cur, signal, observers, listeners, seen, heard, alive, log>>
      /\ todo # <<>> /\ todo' = Tail(todo)
      /\ e \notin ToSet(observers) /\ e \notin ToSet(listeners)
  BY DEF SkipClosed
<1>2. /\ e \in ToSet(todo) /\ IsInjective(todo')
      /\ todo' \in Seq(Observers \cup Listeners)
      /\ ToSet(todo') = ToSet(todo) \ {e}
  BY <1>1, NextSubscriber DEF TypeOK, ViewInvariant, CallbackDiscipline
<1>3. \A x : Contains(todo', x) <=> x \in ToSet(todo')
  BY <1>2, ContainsIsToSet
<1> HIDE DEF e
<1>4. CallbackDiscipline'
  BY <1>1, <1>2, <1>3 DEF ViewInvariant, CallbackDiscipline
<1>5. Version' = Version
  BY <1>1 DEF Version
<1>6. GaplessViews'
  BY <1>1, <1>2, <1>3, <1>5 DEF ViewInvariant, GaplessViews
<1>7. GaplessHearing'
  BY <1>1, <1>2, <1>3, <1>5 DEF ViewInvariant, GaplessHearing
<1>8. EffectsAfterState'
  BY <1>1, <1>5 DEF ViewInvariant, EffectsAfterState
<1>9. QED
  BY <1>4, <1>6, <1>7, <1>8 DEF ViewInvariant

(* The next() of the state is over, the one of the actions begins; when it *)
(* is over too, nobody is behind.                                          *)
LEMMA PhaseViews ==
  ASSUME StoreAssumption, TypeOK, ViewInvariant,
         CallbackReturns \/ EmitScanned \/ Flushed
  PROVE  ViewInvariant'
<1> USE ViewFacts DEF config, status, subscriptions
<1>1. CASE CallbackReturns
  <2>1. /\ UNCHANGED <<queue, phase, todo, signal, observers, listeners, seen, heard, alive, log>>
        /\ cur' = Nobody
    BY <1>1 DEF CallbackReturns
  <2>2. QED
    BY <2>1 DEF ViewInvariant, CallbackDiscipline, GaplessViews, GaplessHearing,
                EffectsAfterState, Version
<1>2. CASE EmitScanned
  <2>1. /\ UNCHANGED <<queue, cur, signal, observers, listeners, seen, heard, alive, log>>
        /\ cur = Nobody /\ phase = "state" /\ phase' = "scanned"
        /\ todo = <<>> /\ todo' = listeners
    BY <1>2 DEF EmitScanned, CalledAll
  <2>2. ToSet(todo) = {}
    BY <2>1 DEF ToSet
  <2>3. Version' = Version
    BY <2>1 DEF Version
  <2>4. CallbackDiscipline'
    BY <2>1 DEF ViewInvariant, CallbackDiscipline
  <2>5. GaplessViews'
    BY <2>1, <2>2, <2>3 DEF ViewInvariant, GaplessViews
  <2>6. GaplessHearing'
    BY <2>1, <2>2, <2>3 DEF ViewInvariant, GaplessHearing
  <2>7. EffectsAfterState'
    BY <2>1, <2>3 DEF ViewInvariant, EffectsAfterState
  <2>8. QED
    BY <2>4, <2>5, <2>6, <2>7 DEF ViewInvariant
<1>3. CASE Flushed
  <2>1. /\ UNCHANGED <<queue, todo, cur, signal, observers, listeners, seen, heard, alive, log>>
        /\ cur = Nobody /\ phase = "scanned" /\ phase' = "idle" /\ todo = <<>>
    BY <1>3 DEF Flushed, CalledAll
  <2>2. ToSet(todo) = {}
    BY <2>1 DEF ToSet
  <2>3. QED
    BY <2>1, <2>2 DEF ViewInvariant, CallbackDiscipline, GaplessViews,
                      GaplessHearing, EffectsAfterState, Version
<1>4. QED
  BY <1>1, <1>2, <1>3

(* Each step keeps the inductive invariant of the subscribers.             *)
LEMMA StepViews ==
  ASSUME StoreAssumption, TypeOK, ViewInvariant, [Next]_vars
  PROVE  ViewInvariant'
<1> USE DEF flow, config, subscriptions, status
<1>1. ASSUME NEW action \in Types, Dispatch(action) PROVE ViewInvariant'
  BY <1>1, UnchangedViews
  DEF Dispatch, Next_, TypeOK, ViewInvariant, CallbackDiscipline
<1>2. ASSUME NEW keys \in SUBSET Features, AddFeatures(keys) \/ RemoveFeatures(keys)
      PROVE  ViewInvariant'
  BY <1>2, UnchangedViews
  DEF AddFeatures, RemoveFeatures, Next_, TypeOK, ViewInvariant, CallbackDiscipline
<1>3. CASE Error \/ ReducerThrows \/ ErrorNotification \/ UNCHANGED vars
  BY <1>3, UnchangedViews
  DEF Error, ReducerThrows, Runnable, ErrorNotification, vars, ViewInvariant, CallbackDiscipline
<1>4. QED
  BY <1>1, <1>2, <1>3, SubscribeViews, UnsubscribeViews, ListenViews, ScanViews,
     NotifyObserverViews, NotifyListenerViews, SkipClosedViews, PhaseViews
  DEF Next, Application, Flush

(* Nobody has subscribed to a store that was just constructed.             *)
LEMMA InitViews == StoreAssumption /\ Init => ViewInvariant
<1> SUFFICES ASSUME StoreAssumption, Init PROVE ViewInvariant
  OBVIOUS
<1>1. IsInjective(<<>>) /\ ToSet(<<>>) = {} /\ Successive(<<>>) /\ Len(<<>>) = 0
  BY DEF IsInjective, ToSet, Successive
<1>2. CallbackDiscipline /\ GaplessViews /\ GaplessHearing
  BY <1>1 DEF Init, StoreAssumption, CallbackDiscipline, GaplessViews, GaplessHearing
<1>3. EffectsAfterState
  BY <1>1 DEF Init, StoreAssumption, EffectsAfterState, Version
<1>4. QED
  BY <1>2, <1>3 DEF ViewInvariant

(* The inductive invariant of the subscribers holds throughout.            *)
LEMMA ViewsHold == Spec => []ViewInvariant
<1>1. Init => ViewInvariant
  BY InitViews, StoreAssumption
<1>2. TypeOK /\ ViewInvariant /\ [Next]_vars => ViewInvariant'
  BY StepViews, StoreAssumption
<1>3. QED
  BY <1>1, <1>2, TypeCorrect, PTL DEF Spec

(* Subscribers run only in the next() of their subject, once in it.        *)
THEOREM CallbacksKeepDiscipline == Spec => []CallbackDiscipline
BY ViewsHold, PTL DEF ViewInvariant

(* A subscriber of the state misses no version, sees none twice, and is    *)
(* behind only while its turn is to come.                                  *)
THEOREM ViewsAreGapless == Spec => []GaplessViews
BY ViewsHold, PTL DEF ViewInvariant

(* A listener, an effect among them, hears the actions without a gap.      *)
THEOREM HearingIsGapless == Spec => []GaplessHearing
BY ViewsHold, PTL DEF ViewInvariant

(* No effect runs before every subscriber of the state, the signal         *)
(* included, was shown the state its action produced.                      *)
THEOREM EffectsRunAfterState == Spec => []EffectsAfterState
BY ViewsHold, PTL DEF ViewInvariant

(***************************************************************************)
(* The store implements AbstractStore: every step of the queue, of the     *)
(* snapshots and of the callbacks is a step of the serial store or leaves  *)
(* the serial store's state as it was.                                     *)
(***************************************************************************)
LEMMA InitRefines == StoreAssumption /\ Init => Abstract!Init
BY DEF Init, Abstract!Init, ToSet

(* Submitting refines Submit, or stutters when the subject has stopped.    *)
LEMMA NextRefines ==
  ASSUME TypeOK, NEW action \in Actions, Next_(action),
         UNCHANGED <<log, alive, observers, listeners, seen, heard>>
  PROVE  [Abstract!Next]_(Abstract!vars)
<1>1. CASE accepting /\ alive
  <2>1. Abstract!Submit(action)
    BY <1>1 DEF Next_, Abstract!Submit
  <2>2. QED
    BY <2>1 DEF Abstract!Next
<1>2. CASE ~(accepting /\ alive)
  BY <1>2 DEF Next_, Abstract!vars
<1>3. QED
  BY <1>1, <1>2

(* A scan applies the oldest action that is not applied yet, when nobody   *)
(* is behind.                                                              *)
LEMMA ScanRefines ==
  ASSUME StoreAssumption, TypeOK, QueueInvariant, ViewInvariant, Scan
  PROVE  Abstract!Apply
<1> USE ViewFacts DEF config, status, subscriptions
<1>1. /\ alive /\ phase = "idle" /\ queue # <<>>
      /\ log' = Append(log, Head(queue))
      /\ UNCHANGED <<dispatched, alive, observers, listeners, seen, heard>>
  BY DEF Scan, Runnable, QueueInvariant, TypeOK
<1>2. /\ log \in Seq(Actions) /\ queue \in Seq(Actions)
      /\ log \o queue = dispatched
  BY <1>1 DEF TypeOK, QueueInvariant, SerialOrder
<1>3. /\ Len(log) \in Nat /\ Len(queue) \in Nat \ {0}
  BY <1>1, <1>2, LenProperties, EmptySeq
<1>4. /\ Len(dispatched) = Len(log) + Len(queue)
      /\ dispatched[Len(log) + 1] = queue[1]
  <2>1. /\ Len(log \o queue) = Len(log) + Len(queue)
        /\ \A i \in 1 .. Len(log) + Len(queue) :
             (log \o queue)[i] = IF i <= Len(log) THEN log[i]
                                 ELSE queue[i - Len(log)]
    BY <1>2, ConcatProperties
  <2>2. /\ Len(log) + 1 \in 1 .. Len(log) + Len(queue)
        /\ ~(Len(log) + 1 <= Len(log))
        /\ (Len(log) + 1) - Len(log) = 1
    BY <1>3
  <2>3. QED
    BY <1>2, <2>1, <2>2
<1>5. Head(queue) = queue[1]
  BY <1>1
<1>6. Abstract!Now = Version
  BY DEF Abstract!Now, Version
<1>7. Abstract!AllShown
  BY <1>1, <1>6 DEF Abstract!AllShown, ViewInvariant, GaplessViews, Last, Abstract!Last
<1>8. Abstract!AllTold
  BY <1>1, <1>6 DEF Abstract!AllTold, ViewInvariant, GaplessHearing, Last, Abstract!Last
<1>9. QED
  BY <1>1, <1>3, <1>4, <1>5, <1>6, <1>7, <1>8 DEF Abstract!Apply, Abstract!Now, Version

(* A notification shows the state to, or tells, the subscriber whose turn  *)
(* it is.                                                                  *)
LEMMA NotifyRefines ==
  ASSUME StoreAssumption, TypeOK, ViewInvariant, NotifyObserver \/ NotifyListener
  PROVE  \/ \E o \in Observers : Abstract!Show(o)
         \/ \E l \in Listeners : Abstract!Tell(l)
<1> USE ViewFacts DEF config, status
<1>0. Abstract!Now = Version
  BY DEF Abstract!Now, Version
<1>1. CASE NotifyObserver
  <2> DEFINE o == Head(todo)
  <2>1. /\ UNCHANGED <<dispatched, log, alive, observers, listeners, heard>>
        /\ phase = "state" /\ todo # <<>>
        /\ seen' = [seen EXCEPT ![o] = Append(@, Version)]
        /\ o \in ToSet(observers) /\ o \in Observers
    BY <1>1 DEF NotifyObserver
  <2>2. o \in ToSet(todo)
    BY <2>1, NextSubscriber DEF TypeOK, ViewInvariant, CallbackDiscipline
  <2> HIDE DEF o
  <2>3. Last(seen[o]) = Version - 1
    BY <2>1, <2>2 DEF ViewInvariant, GaplessViews
  <2>4. (Version - 1) + 1 = Version
    OBVIOUS
  <2>5. Abstract!Show(o)
    BY <1>0, <2>1, <2>3, <2>4 DEF Abstract!Show, Last, Abstract!Last
  <2>6. QED
    BY <2>1, <2>5
<1>2. CASE NotifyListener
  <2> DEFINE l == Head(todo)
  <2>1. /\ UNCHANGED <<dispatched, log, alive, observers, listeners, seen>>
        /\ phase = "scanned" /\ todo # <<>>
        /\ heard' = [heard EXCEPT ![l] = Append(@, Version)]
        /\ l \in ToSet(listeners) /\ l \in Listeners
    BY <1>2 DEF NotifyListener
  <2>2. l \in ToSet(todo)
    BY <2>1, NextSubscriber DEF TypeOK, ViewInvariant, CallbackDiscipline
  <2> HIDE DEF l
  <2>3. heard[l] # <<>> => Last(heard[l]) = Version - 1
    BY <2>1, <2>2 DEF ViewInvariant, GaplessHearing
  <2>4. (Version - 1) + 1 = Version
    OBVIOUS
  <2>5. Abstract!AllShown
    BY <1>0, <2>1 DEF Abstract!AllShown, ViewInvariant, GaplessViews, Last, Abstract!Last
  <2>6. Abstract!Tell(l)
    BY <1>0, <2>1, <2>3, <2>4, <2>5 DEF Abstract!Tell, Last, Abstract!Last
  <2>7. QED
    BY <2>1, <2>6
<1>3. QED
  BY <1>1, <1>2

(* Coming and going of subscribers refines Watch, Listen and Leave.        *)
LEMMA SubscriptionRefines ==
  ASSUME StoreAssumption, TypeOK, ViewInvariant,
         \/ \E o \in Observers : Subscribe(o) \/ Unsubscribe(o)
         \/ \E l \in Listeners : Listen(l) \/ Unlisten(l)
  PROVE  Abstract!Next
<1> USE ViewFacts DEF flow, config, status
<1>1. ASSUME NEW o \in Observers, Subscribe(o) PROVE Abstract!Watch(o)
  <2>1. ToSet(observers') = ToSet(observers) \cup {o} /\ o \notin ToSet(observers)
    BY <1>1, AppendSubscriber DEF Subscribe, TypeOK, ViewInvariant, CallbackDiscipline
  <2>2. QED
    BY <1>1, <2>1 DEF Subscribe, Abstract!Watch, Abstract!Now, Version
<1>2. ASSUME NEW l \in Listeners, Listen(l) PROVE Abstract!Listen(l)
  <2>1. ToSet(listeners') = ToSet(listeners) \cup {l} /\ l \notin ToSet(listeners)
    BY <1>2, AppendSubscriber DEF Listen, TypeOK, ViewInvariant, CallbackDiscipline
  <2>2. QED
    BY <1>2, <2>1 DEF Listen, Abstract!Listen
<1>3. ASSUME NEW o \in Observers, Unsubscribe(o) PROVE Abstract!Leave
  <2>1. PICK i \in DOMAIN observers : observers' = RemoveAt(observers, i)
    BY <1>3 DEF Unsubscribe
  <2>2. ToSet(observers') \subseteq ToSet(observers)
    BY <2>1, RemoveSubscriber DEF TypeOK, ViewInvariant, CallbackDiscipline
  <2>3. QED
    BY <1>3, <2>2 DEF Unsubscribe, Abstract!Leave
<1>4. ASSUME NEW l \in Listeners, Unlisten(l) PROVE Abstract!Leave
  <2>1. PICK i \in DOMAIN listeners : listeners' = RemoveAt(listeners, i)
    BY <1>4 DEF Unlisten
  <2>2. ToSet(listeners') \subseteq ToSet(listeners)
    BY <2>1, RemoveSubscriber DEF TypeOK, ViewInvariant, CallbackDiscipline
  <2>3. QED
    BY <1>4, <2>2 DEF Unlisten, Abstract!Leave
<1>5. QED
  BY <1>1, <1>2, <1>3, <1>4 DEF Abstract!Next

(* The end of the store refines Halt.                                      *)
LEMMA EndRefines ==
  ASSUME Destroy \/ ReducerThrows \/ ErrorNotification
  PROVE  Abstract!Halt
BY DEF Destroy, ReducerThrows, Runnable, ErrorNotification, Abstract!Halt, ToSet,
       flow, config, status, subscriptions

(* Each step of the store is a step of AbstractStore, or a stutter.        *)
LEMMA StepRefines ==
  ASSUME StoreAssumption, TypeOK, QueueInvariant, ViewInvariant, [Next]_vars
  PROVE  [Abstract!Next]_(Abstract!vars)
<1> USE DEF flow, config, subscriptions, status
<1>1. ASSUME NEW action \in Types, Dispatch(action)
      PROVE  [Abstract!Next]_(Abstract!vars)
  BY <1>1, NextRefines DEF Dispatch, Actions
<1>2. ASSUME NEW keys \in SUBSET Features, AddFeatures(keys) \/ RemoveFeatures(keys)
      PROVE  [Abstract!Next]_(Abstract!vars)
  BY <1>2, NextRefines DEF AddFeatures, RemoveFeatures, Actions
<1>3. CASE Scan
  BY <1>3, ScanRefines DEF Abstract!Next
<1>4. CASE NotifyObserver \/ NotifyListener
  BY <1>4, NotifyRefines DEF Abstract!Next
<1>5. CASE \/ \E o \in Observers : Subscribe(o) \/ Unsubscribe(o)
           \/ \E l \in Listeners : Listen(l) \/ Unlisten(l)
  BY <1>5, SubscriptionRefines
<1>6. CASE Destroy \/ ReducerThrows \/ ErrorNotification
  BY <1>6, EndRefines DEF Abstract!Next
<1>7. CASE Error \/ SkipClosed \/ CallbackReturns \/ EmitScanned \/ Flushed
           \/ UNCHANGED vars
  BY <1>7 DEF Error, SkipClosed, CallbackReturns, EmitScanned, CalledAll, Flushed, vars,
              Abstract!vars
<1>8. QED
  BY <1>1, <1>2, <1>3, <1>4, <1>5, <1>6, <1>7 DEF Next, Application, Flush

(* ActionsSubject, queueScheduler, State and ScannedActionsSubject         *)
(* together are the serial store.                                          *)
THEOREM StoreImplementsAbstractStore == Spec => ImplementsAbstractStore
<1>1. Init => Abstract!Init
  BY InitRefines, StoreAssumption
<1>2. TypeOK /\ QueueInvariant /\ ViewInvariant /\ [Next]_vars
        => [Abstract!Next]_(Abstract!vars)
  BY StepRefines, StoreAssumption
<1>3. Spec => []QueueInvariant
  BY QueueHolds
<1>4. QED
  BY <1>1, <1>2, <1>3, TypeCorrect, ViewsHold, PTL
  DEF Spec, ImplementsAbstractStore, Abstract!Spec

(***************************************************************************)
(* Slices.  A registered feature without a slice was registered after the  *)
(* last action was reduced: combineReducers counts a missing slice as a    *)
(* change.                                                                 *)
(***************************************************************************)
SliceInvariant ==
  /\ SlicesReplayLog
  /\ \A k \in reducers \ DOMAIN state : since[k] = Version

(* A position that is not the last has a next one.                         *)
LEMMA NextPosition ==
  ASSUME NEW n \in Nat, NEW i \in 1 .. n, i # n
  PROVE  i \in 1 .. n - 1 /\ i + 1 \in 1 .. n
OBVIOUS

(* A slice that handles the next action grows by its position.             *)
LEMMA SliceGrows ==
  ASSUME NEW s \in Seq(Nat), NEW v \in Nat,
         \A n \in ToSet(s) : n <= v,
         \A i \in 1 .. Len(s) - 1 : s[i] < s[i + 1]
  PROVE  /\ ToSet(Append(s, v + 1)) = ToSet(s) \cup {v + 1}
         /\ \A i \in 1 .. Len(Append(s, v + 1)) - 1 :
              Append(s, v + 1)[i] < Append(s, v + 1)[i + 1]
<1> DEFINE t == Append(s, v + 1)
<1>1. /\ Len(s) \in Nat /\ DOMAIN s = 1 .. Len(s)
      /\ t \in Seq(Nat) /\ Len(t) = Len(s) + 1 /\ DOMAIN t = 1 .. Len(t)
      /\ \A i \in 1 .. Len(s) : t[i] = s[i]
      /\ t[Len(s) + 1] = v + 1
      /\ \A i \in 1 .. Len(s) : s[i] \in Nat
  <2>1. Len(s) \in Nat /\ DOMAIN s = 1 .. Len(s) /\ \A i \in 1 .. Len(s) : s[i] \in Nat
    BY LenProperties, ElementOfSeq
  <2>2. v + 1 \in Nat
    OBVIOUS
  <2>3. /\ t \in Seq(Nat) /\ Len(t) = Len(s) + 1
        /\ \A i \in 1 .. Len(s) : t[i] = s[i]
        /\ t[Len(s) + 1] = v + 1
    BY ONLY <2>2, s \in Seq(Nat), AppendProperties DEF t
  <2>4. DOMAIN t = 1 .. Len(t)
    BY ONLY <2>3, LenProperties
  <2>5. QED
    BY <2>1, <2>3, <2>4
<1> HIDE DEF t
<1>2. ToSet(t) = ToSet(s) \cup {v + 1}
  <2>1. ToSet(t) \subseteq ToSet(s) \cup {v + 1}
    BY <1>1 DEF ToSet
  <2>2. ASSUME NEW x \in ToSet(s) PROVE x \in ToSet(t)
    <3>1. PICK i \in 1 .. Len(s) : x = s[i]
      BY <1>1 DEF ToSet
    <3>2. i \in 1 .. Len(t) /\ t[i] = x
      BY <1>1, <3>1
    <3>3. QED
      BY <1>1, <3>2 DEF ToSet
  <2>3. Len(s) + 1 \in DOMAIN t
    BY <1>1
  <2>4. QED
    BY <1>1, <2>1, <2>2, <2>3 DEF ToSet
<1>3. ASSUME NEW i \in 1 .. Len(t) - 1 PROVE t[i] < t[i + 1]
  <2>1. i \in 1 .. Len(s) /\ t[i] = s[i] /\ s[i] \in Nat
    BY <1>1
  <2>2. CASE i = Len(s)
    <3>1. s[i] <= v
      BY <1>1, <2>1 DEF ToSet
    <3>2. QED
      BY <1>1, <2>1, <2>2, <3>1
  <2>3. CASE i # Len(s)
    <3>1. i \in 1 .. Len(s) - 1 /\ i + 1 \in 1 .. Len(s)
      <4>1. Len(s) \in Nat /\ i \in 1 .. Len(s) /\ i # Len(s)
        BY <1>1, <2>1, <2>3
      <4>2. QED
        BY ONLY <4>1, NextPosition
    <3>2. QED
      BY <1>1, <2>1, <3>1
  <2>4. QED
    BY <2>2, <2>3
<1>4. QED
  BY <1>2, <1>3 DEF t

(* What a scan does to the log and to each slice.                          *)
LEMMA ScanSlices ==
  ASSUME StoreAssumption, TypeOK, SliceInvariant, Scan
  PROVE  SliceInvariant'
<1> USE DEF config
<1> DEFINE a == Head(queue)
           handled(k) == {n \in 1 .. Version : log[n] \in Handles[k]}
<1>1. /\ Version \in Nat /\ Version' = Version + 1
      /\ \A n \in 1 .. Version : log'[n] = log[n]
      /\ log'[Version + 1] = a
      /\ UNCHANGED <<reducers, since>>
      /\ state' = Combination(state, a)
  <2>1. a \in Actions
    BY HeadTailProperties DEF Scan, Runnable, TypeOK
  <2>2. /\ log \in Seq(Actions) /\ log' = Append(log, a)
        /\ Version = Len(log) /\ Version' = Len(log')
        /\ UNCHANGED <<reducers, since>>
        /\ state' = Combination(state, a)
    BY DEF Scan, Runnable, TypeOK, Version
  <2> HIDE DEF a
  <2>3. /\ Len(log) \in Nat /\ Len(log') = Len(log) + 1
        /\ \A n \in 1 .. Len(log) : log'[n] = log[n]
        /\ log'[Len(log) + 1] = a
    BY ONLY <2>1, <2>2, LenProperties, AppendProperties
  <2>4. QED
    BY <2>2, <2>3
<1> HIDE DEF a
<1>2. ASSUME NEW k
      PROVE  {n \in 1 .. Version' : log'[n] \in Handles[k]}
               = handled(k) \cup (IF a \in Handles[k] THEN {Version + 1} ELSE {})
  BY <1>1
<1>3. CASE HasChanged(state, a)
  <2>1. state' = [k \in reducers |-> Reduce(k, Slice(state, k), a)]
    BY <1>1, <1>3 DEF Combination
  <2>2. ASSUME NEW k \in reducers
        PROVE  /\ Slice(state, k) \in Seq(Nat)
               /\ ToSet(Slice(state, k)) \subseteq handled(k)
               /\ \A i \in 1 .. Len(Slice(state, k)) - 1 :
                    Slice(state, k)[i] < Slice(state, k)[i + 1]
               /\ {n \in handled(k) : n > since[k]} \subseteq ToSet(Slice(state, k))
    <3>1. CASE k \in DOMAIN state
      BY <2>2, <3>1 DEF Slice, SliceInvariant, SlicesReplayLog, TypeOK
    <3>2. CASE k \notin DOMAIN state
      <4>1. Slice(state, k) = <<>> /\ ToSet(<<>>) = {} /\ Len(<<>>) = 0
        BY <3>2 DEF Slice, Undefined, ToSet
      <4>2. since[k] = Version
        BY <2>2, <3>2 DEF SliceInvariant
      <4>3. QED
        BY <1>1, <4>1, <4>2, EmptySeq
    <3>3. QED
      BY <3>1, <3>2
  <2>3. ASSUME NEW k \in reducers
        PROVE  /\ ToSet(state'[k]) = ToSet(Slice(state, k))
                    \cup (IF a \in Handles[k] THEN {Version + 1} ELSE {})
               /\ \A i \in 1 .. Len(state'[k]) - 1 : state'[k][i] < state'[k][i + 1]
    <3>1. \A n \in ToSet(Slice(state, k)) : n <= Version
      BY <1>1, <2>2
    <3>2. CASE a \in Handles[k]
      <4>1. state'[k] = Append(Slice(state, k), Version + 1)
        BY <2>1, <3>2 DEF Reduce
      <4>2. QED
        BY <1>1, <2>2, <3>1, <3>2, <4>1, SliceGrows
    <3>3. CASE a \notin Handles[k]
      BY <2>1, <2>2, <3>3 DEF Reduce
    <3>4. QED
      BY <3>2, <3>3
  <2>4. DOMAIN state' = reducers
    BY <2>1
  <2>5. SlicesReplayLog'
    <3> SUFFICES ASSUME NEW k \in reducers
                 PROVE  LET h == {n \in 1 .. Version' : log'[n] \in Handles[k]}
                        IN /\ ToSet(state'[k]) \subseteq h
                           /\ \A i \in 1 .. Len(state'[k]) - 1 :
                                state'[k][i] < state'[k][i + 1]
                           /\ {n \in h : n > since[k]} \subseteq ToSet(state'[k])
      BY <1>1, <2>4 DEF SlicesReplayLog
    <3>1. QED
      BY <1>2, <2>2, <2>3
  <2>6. QED
    BY <1>1, <2>4, <2>5 DEF SliceInvariant
<1>4. CASE ~HasChanged(state, a)
  <2>1. state' = state /\ reducers \subseteq DOMAIN state
    BY <1>1, <1>4 DEF Combination, HasChanged
  <2>2. ASSUME NEW k \in reducers PROVE a \notin Handles[k]
    <3>1. Reduce(k, state[k], a) = state[k] /\ state[k] \in Seq(Nat)
      BY <1>4, <2>1, <2>2 DEF HasChanged, TypeOK
    <3>2. Append(state[k], Version + 1) # state[k]
      BY <1>1, <3>1, AppendProperties, LenProperties
    <3>3. QED
      BY <3>1, <3>2 DEF Reduce
  <2>3. SlicesReplayLog'
    <3> SUFFICES ASSUME NEW k \in DOMAIN state
                 PROVE  LET h == {n \in 1 .. Version' : log'[n] \in Handles[k]}
                        IN /\ ToSet(state[k]) \subseteq h
                           /\ \A i \in 1 .. Len(state[k]) - 1 : state[k][i] < state[k][i + 1]
                           /\ k \in reducers =>
                                {n \in h : n > since[k]} \subseteq ToSet(state[k])
      BY <1>1, <2>1 DEF SlicesReplayLog
    <3>1. QED
      BY <1>2, <2>2 DEF SliceInvariant, SlicesReplayLog
  <2>4. QED
    BY <1>1, <2>1, <2>3 DEF SliceInvariant
<1>5. QED
  BY <1>3, <1>4

(* Each step keeps the inductive invariant of the slices.                  *)
LEMMA StepSlices ==
  ASSUME StoreAssumption, TypeOK, SliceInvariant, [Next]_vars
  PROVE  SliceInvariant'
<1> USE DEF flow, config, subscriptions, status
<1>1. CASE UNCHANGED <<state, log, reducers, since>>
  BY <1>1 DEF SliceInvariant, SlicesReplayLog, Version
<1>2. ASSUME NEW keys \in SUBSET Features, AddFeatures(keys) PROVE SliceInvariant'
  <2>1. /\ UNCHANGED <<state, log>> /\ reducers' = reducers \cup keys
        /\ \A k \in Features : since'[k] = IF k \in keys \ reducers THEN Version ELSE since[k]
        /\ Version' = Version /\ Version \in Nat
    BY <1>2, LenProperties DEF AddFeatures, TypeOK, Version
  <2>2. \A k \in reducers' : k \in Features
    BY <2>1 DEF TypeOK
  <2>3. SlicesReplayLog'
    <3> SUFFICES ASSUME NEW k \in DOMAIN state
                 PROVE  LET h == {n \in 1 .. Version : log[n] \in Handles[k]}
                        IN /\ ToSet(state[k]) \subseteq h
                           /\ \A i \in 1 .. Len(state[k]) - 1 : state[k][i] < state[k][i + 1]
                           /\ k \in reducers' =>
                                {n \in h : n > since'[k]} \subseteq ToSet(state[k])
      BY <2>1 DEF SlicesReplayLog
    <3>1. CASE k \in reducers' \ reducers
      BY <2>1, <2>2, <3>1 DEF SliceInvariant, SlicesReplayLog
    <3>2. CASE k \notin reducers' \ reducers
      BY <2>1, <2>2, <3>2 DEF SliceInvariant, SlicesReplayLog
    <3>3. QED
      BY <3>1, <3>2
  <2>4. QED
    BY <2>1, <2>2, <2>3 DEF SliceInvariant
<1>3. ASSUME NEW keys \in SUBSET Features, RemoveFeatures(keys) PROVE SliceInvariant'
  BY <1>3 DEF RemoveFeatures, SliceInvariant, SlicesReplayLog, Version
<1>4. CASE Scan
  BY <1>4, ScanSlices
<1>5. QED
  BY <1>1, <1>2, <1>3, <1>4
  DEF Next, Application, Flush, Dispatch, Subscribe, Unsubscribe, Listen, Unlisten,
      Error, Destroy, ReducerThrows, Runnable, ErrorNotification, NotifyObserver,
      NotifyListener, SkipClosed, CallbackReturns, EmitScanned, CalledAll, Flushed, vars

(* The slice of a registered feature holds the handled actions since its   *)
(* registration, each once and in order, through whatever sequence of      *)
(* registrations, removals and dispatches, nested or not.                  *)
THEOREM SlicesReplay == Spec => []SlicesReplayLog
<1>1. Init => SliceInvariant
  <2> SUFFICES ASSUME Init PROVE SliceInvariant
    OBVIOUS
  <2>1. Version = 0 /\ ToSet(<<>>) = {} /\ Len(<<>>) = 0
    BY DEF Init, Version, ToSet
  <2>2. SlicesReplayLog
    BY <2>1 DEF Init, SlicesReplayLog, Undefined
  <2>3. QED
    BY <2>1, <2>2, StoreAssumption DEF Init, SliceInvariant, StoreAssumption
<1>2. TypeOK /\ SliceInvariant /\ [Next]_vars => SliceInvariant'
  BY StepSlices, StoreAssumption
<1>3. SliceInvariant => SlicesReplayLog
  BY DEF SliceInvariant
<1>4. QED
  BY <1>1, <1>2, <1>3, TypeCorrect, PTL DEF Spec

(***************************************************************************)
(* Registration.  While the store lives, a feature without its slice has   *)
(* an action in the queue that will give it one, or the store is about to  *)
(* fail.                                                                   *)
(***************************************************************************)
RegistrationInvariant ==
  /\ alive /\ ~accepting => failing
  /\ alive => \A k \in reducers \ DOMAIN state : queue # <<>> \/ failing

(* Each step keeps the inductive invariant of the registrations.           *)
LEMMA StepRegistration ==
  ASSUME StoreAssumption, TypeOK, RegistrationInvariant, [Next]_vars
  PROVE  RegistrationInvariant'
<1> USE DEF flow, config, subscriptions, status
<1>1. ASSUME NEW action \in Actions, Next_(action),
             UNCHANGED <<alive, accepting, failing, state>>
      PROVE  RegistrationInvariant'
  <2>1. CASE accepting /\ alive
    <3>1. queue' # <<>>
      <4>1. queue \in Seq(Actions) /\ queue' = Append(queue, action)
        BY <1>1, <2>1 DEF Next_, TypeOK
      <4>2. QED
        BY <4>1, AppendProperties
    <3>2. QED
      BY <1>1, <2>1, <3>1 DEF RegistrationInvariant
  <2>2. CASE ~(accepting /\ alive)
    BY <1>1, <2>2 DEF RegistrationInvariant, Next_
  <2>3. QED
    BY <2>1, <2>2
<1>2. ASSUME NEW action \in Types, Dispatch(action) PROVE RegistrationInvariant'
  BY <1>1, <1>2 DEF Dispatch, Actions
<1>3. ASSUME NEW keys \in SUBSET Features, AddFeatures(keys) \/ RemoveFeatures(keys)
      PROVE  RegistrationInvariant'
  BY <1>1, <1>3 DEF AddFeatures, RemoveFeatures, Actions
<1>4. CASE Scan
  <2>1. reducers' \subseteq DOMAIN state'
    BY <1>4 DEF Scan, Runnable, Combination, HasChanged
  <2>2. QED
    BY <1>4, <2>1 DEF Scan, Runnable, RegistrationInvariant
<1>5. CASE Error \/ Destroy \/ ReducerThrows \/ ErrorNotification
  BY <1>5 DEF Error, Destroy, ReducerThrows, Runnable, ErrorNotification,
              RegistrationInvariant, TypeOK
<1>6. CASE UNCHANGED <<alive, accepting, failing, reducers, state, queue>>
  BY <1>6 DEF RegistrationInvariant
<1>7. QED
  BY <1>2, <1>3, <1>4, <1>5, <1>6
  DEF Next, Application, Flush, Subscribe, Unsubscribe, Listen, Unlisten,
      NotifyObserver, NotifyListener, SkipClosed, CallbackReturns, EmitScanned, CalledAll,
      Flushed, vars

(* When nothing is being flushed, a registered feature has its slice,      *)
(* wherever and in whatever order features were registered and removed.    *)
THEOREM RegisteredFeaturesGetState == Spec => []RegisteredFeaturesHaveState
<1>1. Init => RegistrationInvariant
  BY DEF Init, RegistrationInvariant
<1>2. TypeOK /\ RegistrationInvariant /\ [Next]_vars => RegistrationInvariant'
  BY StepRegistration, StoreAssumption
<1>3. RegistrationInvariant => RegisteredFeaturesHaveState
  BY DEF RegistrationInvariant, RegisteredFeaturesHaveState, Flushing
<1>4. QED
  BY <1>1, <1>2, <1>3, TypeCorrect, PTL DEF Spec
=============================================================================
