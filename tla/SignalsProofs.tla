--------------------------- MODULE SignalsProofs ----------------------------
(***************************************************************************)
(* Proofs that an rxMethod which was destroyed leaves nothing behind and   *)
(* that watchers see every state, for any number of watchers, instances,   *)
(* patches and nested calls.                                               *)
(***************************************************************************)
EXTENDS Signals, FoldTheorems

(* The property is inductive, once it is known that instances is a         *)
(* function of the instances to records.                                   *)
Stages == {"none", "live", "destroyed"}
InstanceRecords ==
  [stage : Stages, dirty : BOOLEAN, cleanup : BOOLEAN, processed : BOOLEAN]
InstancesOK == instances \in [Instances -> InstanceRecords]
RxInv == InstancesOK /\ RxLeavesNothing /\ rxOpen \in BOOLEAN

(* What is destroyed does not live, and nothing else comes to life.        *)
LEMMA GoneDies ==
  ASSUME NEW ids, InstancesOK, instances' = Gone(ids)
  PROVE  /\ InstancesOK'
         /\ \A i \in Instances :
              instances'[i].stage = "live" =>
                i \notin ids /\ instances[i].stage = "live"
BY DEF Gone, InstancesOK, InstanceRecords, Stages

(* What the steps write into a record leaves it one.                       *)
LEMMA Started ==
  ASSUME NEW f \in [Instances -> InstanceRecords], NEW i \in Instances,
         NEW stage \in Stages, NEW dirty \in BOOLEAN
  PROVE  [f EXCEPT ![i].stage = stage, ![i].dirty = dirty]
           \in [Instances -> InstanceRecords]
<1> DEFINE a == [f[i] EXCEPT !.stage = stage]
           b == [a EXCEPT !.dirty = dirty]
<1>1. a \in InstanceRecords
  BY DEF InstanceRecords
<1>2. b \in InstanceRecords
  <2> HIDE DEF a
  <2>1. QED
    BY <1>1 DEF InstanceRecords
<1>3. [f EXCEPT ![i].stage = stage, ![i].dirty = dirty] = [f EXCEPT ![i] = b]
  OBVIOUS
<1> HIDE DEF b
<1>4. QED
  BY <1>2, <1>3

LEMMA Ran ==
  ASSUME NEW f \in [Instances -> InstanceRecords], NEW i \in Instances
  PROVE  [f EXCEPT ![i].dirty = FALSE, ![i].cleanup = FALSE, ![i].processed = TRUE]
           \in [Instances -> InstanceRecords]
<1> DEFINE a == [f[i] EXCEPT !.dirty = FALSE]
           b == [a EXCEPT !.cleanup = FALSE]
           c == [b EXCEPT !.processed = TRUE]
<1>1. a \in InstanceRecords
  BY DEF InstanceRecords
<1>2. b \in InstanceRecords
  <2> HIDE DEF a
  <2>1. QED
    BY <1>1 DEF InstanceRecords
<1>3. c \in InstanceRecords
  <2> HIDE DEF a, b
  <2>1. QED
    BY <1>2 DEF InstanceRecords
<1>4. [f EXCEPT ![i].dirty = FALSE, ![i].cleanup = FALSE, ![i].processed = TRUE]
        = [f EXCEPT ![i] = c]
  OBVIOUS
<1> HIDE DEF c
<1>5. QED
  BY <1>3, <1>4

LEMMA CleanedUp ==
  ASSUME NEW f \in [Instances -> InstanceRecords], NEW i \in Instances,
         NEW cleanup \in BOOLEAN
  PROVE  [f EXCEPT ![i].cleanup = cleanup] \in [Instances -> InstanceRecords]
BY DEF InstanceRecords

(* What leaves every stage as it is keeps the invariant.                   *)
LEMMA StagesKept ==
  ASSUME RxInv, InstancesOK', rxOpen' = rxOpen,
         \A i \in Instances : instances'[i].stage = "live" =>
                                instances[i].stage = "live"
  PROVE  RxInv'
BY DEF RxInv, RxLeavesNothing, RxInstances, Instances

(* A closed rxMethod has lost all of its instances.                        *)
LEMMA CloseRxCloses ==
  ASSUME RxInv, CloseRx
  PROVE  RxInv'
BY GoneDies DEF CloseRx, RxInv, RxLeavesNothing, RxInstances, Instances

LEMMA StartKeeps ==
  ASSUME RxInv, NEW i \in Instances, Start(i)
  PROVE  RxInv'
<1>1. CASE i \in MethodSignals
  <2>1. i \notin RxInstances
    BY <1>1, SignalsAssumption
  <2>2. /\ instances' = [instances EXCEPT ![i].stage = "live",
                                          ![i].dirty = TRUE]
        /\ rxOpen' = rxOpen
    BY <1>1 DEF Start, ProcessSignal
  <2>3. QED
    <3>1. InstancesOK'
      BY <2>2, Started DEF RxInv, InstancesOK, Stages
    <3>2. \A j \in RxInstances : instances'[j] = instances[j]
      BY <2>1, <2>2 DEF RxInv, InstancesOK, Instances
    <3>3. QED
      BY <2>2, <3>1, <3>2 DEF RxInv, RxLeavesNothing
<1>2. CASE i \notin MethodSignals
  <2>1. /\ instances' = [instances EXCEPT
             ![i].stage = IF rxOpen THEN "live" ELSE "destroyed",
             ![i].dirty = rxOpen /\ i \in RxSignals]
        /\ rxOpen' = rxOpen
    BY <1>2 DEF Start, RxProcess
  <2>2. InstancesOK'
    <3> DEFINE stage == IF rxOpen THEN "live" ELSE "destroyed"
               dirty == rxOpen /\ i \in RxSignals
    <3>1. /\ instances \in [Instances -> InstanceRecords]
          /\ stage \in Stages /\ dirty \in BOOLEAN
      BY DEF RxInv, InstancesOK, Stages
    <3>2. instances' = [instances EXCEPT ![i].stage = stage, ![i].dirty = dirty]
      BY <2>1
    <3> HIDE DEF stage, dirty
    <3>3. QED
      BY <3>1, <3>2, Started DEF InstancesOK
  <2>3. RxLeavesNothing'
    BY <2>1 DEF RxInv, RxLeavesNothing, InstancesOK, Instances
  <2>4. QED
    BY <2>1, <2>2, <2>3 DEF RxInv
<1>3. QED
  BY <1>1, <1>2

LEMMA RxStep ==
  ASSUME RxInv, [Next]_vars
  PROVE  RxInv'
<1>1. CASE PatchState
  <2>1. /\ instances' = [i \in Instances |->
             IF i \in Effects /\ instances[i].stage = "live"
             THEN [instances[i] EXCEPT !.dirty = TRUE, !.processed = FALSE]
             ELSE instances[i]]
        /\ rxOpen' = rxOpen
    BY <1>1 DEF PatchState
  <2>2. InstancesOK'
    BY <2>1 DEF RxInv, InstancesOK, InstanceRecords
  <2>3. \A i \in Instances : instances'[i].stage = "live" =>
                               instances[i].stage = "live"
    BY <2>1 DEF RxInv, InstancesOK
  <2>4. QED
    BY <2>1, <2>2, <2>3, StagesKept
<1>2. ASSUME NEW i \in Instances, DestroyInstance(i)
      PROVE  RxInv'
  BY <1>2, GoneDies, StagesKept DEF DestroyInstance, RxInv
<1>3. ASSUME NEW i \in Effects, RunEffect(i)
      PROVE  RxInv'
  <2>1. /\ instances' = [instances EXCEPT ![i].dirty = FALSE,
                                          ![i].cleanup = FALSE,
                                          ![i].processed = TRUE]
        /\ rxOpen' = rxOpen
    BY <1>3 DEF RunEffect
  <2>2. InstancesOK'
    BY <2>1, Ran DEF RxInv, InstancesOK, Instances
  <2>3. \A j \in Instances : instances'[j].stage = "live" =>
                               instances[j].stage = "live"
    BY <2>1 DEF RxInv, InstancesOK
  <2>4. QED
    BY <2>1, <2>2, <2>3, StagesKept
<1>4. CASE Return
  <2> DEFINE who == Top.who
  <2>1. /\ instances' = IF who \in MethodSignals
                        THEN [instances EXCEPT ![who].cleanup =
                                instances[who].stage = "live"]
                        ELSE instances
        /\ rxOpen' = rxOpen
    BY <1>4 DEF Return
  <2> HIDE DEF who
  <2>2. InstancesOK'
    <3>1. CASE who \in MethodSignals
      <4> DEFINE cleanup == instances[who].stage = "live"
      <4>1. cleanup \in BOOLEAN /\ who \in Instances
        BY <3>1 DEF Instances
      <4>2. instances' = [instances EXCEPT ![who].cleanup = cleanup]
        BY <2>1, <3>1
      <4> HIDE DEF cleanup
      <4>3. QED
        BY <4>1, <4>2, CleanedUp DEF RxInv, InstancesOK
    <3>2. CASE who \notin MethodSignals
      BY <2>1, <3>2 DEF RxInv, InstancesOK
    <3>3. QED
      BY <3>1, <3>2
  <2>3. \A i \in Instances : instances'[i].stage = "live" =>
                               instances[i].stage = "live"
    BY <2>1 DEF RxInv, InstancesOK
  <2>4. QED
    BY <2>1, <2>2, <2>3, StagesKept
<1>5. CASE Throw
  <2>1. \/ UNCHANGED <<instances, rxOpen>>
        \/ CloseRx
    BY <1>5 DEF Throw
  <2>2. CASE UNCHANGED <<instances, rxOpen>>
    BY <2>2 DEF RxInv, InstancesOK, RxLeavesNothing
  <2>3. QED
    BY <2>1, <2>2, CloseRxCloses
<1>6. CASE DestroyRx
  BY <1>6, CloseRxCloses DEF DestroyRx
<1>7. CASE DestroySignalMethod
  <2>1. PICK ids : instances' = Gone(ids)
    BY <1>7 DEF DestroySignalMethod
  <2>2. rxOpen' = rxOpen
    BY <1>7 DEF DestroySignalMethod
  <2>3. QED
    BY <2>1, <2>2, GoneDies, StagesKept DEF RxInv
<1>8. ASSUME NEW injector \in Injectors, DestroyInjector(injector)
      PROVE  RxInv'
  <2> DEFINE closes == injector = "source" /\ rxOpen
             gone == {i \in Instances : Home[i] = injector}
                       \cup IF closes THEN RxInstances ELSE {}
  <2>1. instances' = Gone(gone) /\ rxOpen' = (rxOpen /\ ~closes)
    BY <1>8 DEF DestroyInjector
  <2>2. /\ InstancesOK'
        /\ \A i \in Instances :
             instances'[i].stage = "live" =>
               i \notin gone /\ instances[i].stage = "live"
    <3> HIDE DEF gone, closes
    <3>1. QED
      BY <2>1, GoneDies DEF RxInv
  <2>3. RxInstances \subseteq Instances
    BY DEF Instances
  <2>4. QED
    BY <2>1, <2>2, <2>3 DEF RxInv, RxLeavesNothing
<1>9. CASE UNCHANGED methods
  BY <1>9 DEF methods, RxInv, InstancesOK, RxLeavesNothing
<1>10. ASSUME NEW w \in Watchers, WatchState(w) \/ DestroyWatcher(w)
       PROVE  UNCHANGED methods
  BY <1>10 DEF WatchState, DestroyWatcher, methods
<1>11. CASE NotifyNext \/ CallWithValue \/ (\E i \in RxObservables : Emit(i))
  BY <1>9, <1>11 DEF NotifyNext, CallWithValue, Emit, methods
<1>12. QED
  BY <1>1, <1>2, <1>3, <1>4, <1>5, <1>6, <1>7, <1>8, <1>9, <1>10, <1>11,
     StartKeeps DEF Next, vars

(* An rxMethod that was destroyed, in whatever way and however its         *)
(* instances, their injectors and their errors interleave, keeps no effect *)
(* and no subscription, and gets none any more.                            *)
THEOREM RxIsClean == Spec => []RxLeavesNothing
<1>1. Init => RxInv
  BY DEF Init, RxInv, InstancesOK, InstanceRecords, Stages, RxLeavesNothing
<1>2. RxInv /\ [Next]_vars => RxInv'
  BY RxStep
<1>3. RxInv => RxLeavesNothing
  BY DEF RxInv
<1>4. QED
  BY <1>1, <1>2, <1>3, PTL DEF Spec

(* What is left of a list of watchers is a list of watchers.               *)
LEMMA WithoutType ==
  ASSUME NEW S, NEW s \in Seq(S), NEW gone
  PROVE  Without(s, gone) \in Seq(S)
<1> DEFINE n == Len(s)
           V == Seq(S)
           g == [i \in 1 .. n |->
                  [v \in V |-> IF s[i] \in gone THEN v ELSE Append(v, s[i])]]
           iter == CHOOSE f : f = [d \in SUBSET (1 .. n) |->
                     IF d = {} THEN <<>>
                     ELSE IF s[Max(d)] \in gone THEN f[d \ {Max(d)}]
                          ELSE Append(f[d \ {Max(d)}], s[Max(d)])]
<1>1. n \in Nat /\ DOMAIN s = 1 .. n
  BY LenProperties
<1>2. Without(s, gone) = iter[1 .. n]
  BY <1>1 DEF Without, FoldLeft, MapThenFoldSet
<1>3. g \in [1 .. n -> [V -> V]] /\ <<>> \in V
  BY <1>1, AppendProperties
<1>0. ASSUME NEW i \in 1 .. n, NEW v \in V
      PROVE  g[i][v] = IF s[i] \in gone THEN v ELSE Append(v, s[i])
  OBVIOUS
<1> HIDE DEF iter, g, V, n
<1>4. \E f : f = [d \in SUBSET (1 .. n) |->
                 IF d = {} THEN <<>>
                 ELSE IF s[Max(d)] \in gone THEN f[d \ {Max(d)}]
                      ELSE Append(f[d \ {Max(d)}], s[Max(d)])]
  <2>0. PICK f : IsRecursion(f, n, V, <<>>, g)
    BY <1>1, <1>3, Recursion
  <2>1. /\ f \in [SUBSET (1 .. n) -> V]
        /\ f[{}] = <<>>
        /\ \A d \in SUBSET (1 .. n) : d # {} => f[d] = g[Max(d)][f[d \ {Max(d)}]]
    BY <2>0 DEF IsRecursion
  <2>2. ASSUME NEW d \in SUBSET (1 .. n), d # {}
        PROVE  f[d] = IF s[Max(d)] \in gone THEN f[d \ {Max(d)}]
                      ELSE Append(f[d \ {Max(d)}], s[Max(d)])
    <3>1. Max(d) \in 1 .. n /\ f[d \ {Max(d)}] \in V
      BY <1>1, <2>1, <2>2, MaxFacts
    <3>2. QED
      BY <1>0, <2>1, <2>2, <3>1
  <2>3. f = [d \in SUBSET (1 .. n) |->
                 IF d = {} THEN <<>>
                 ELSE IF s[Max(d)] \in gone THEN f[d \ {Max(d)}]
                      ELSE Append(f[d \ {Max(d)}], s[Max(d)])]
    BY <2>1, <2>2
  <2>4. QED
    BY <2>3
<1>5. /\ iter[{}] = <<>>
      /\ \A d \in SUBSET (1 .. n) : d # {} =>
           iter[d] = IF s[Max(d)] \in gone THEN iter[d \ {Max(d)}]
                     ELSE Append(iter[d \ {Max(d)}], s[Max(d)])
  BY <1>4 DEF iter
<1> DEFINE r == [k \in 0 .. n |-> iter[1 .. k]]
<1>6. /\ r[0] = <<>>
      /\ \A k \in 1 .. n : r[k] = IF s[k] \in gone THEN r[k - 1]
                                   ELSE Append(r[k - 1], s[k])
  <2>1. r[0] = <<>>
    BY <1>1, <1>5, Intervals
  <2>2. ASSUME NEW k \in 1 .. n
        PROVE  r[k] = IF s[k] \in gone THEN r[k - 1] ELSE Append(r[k - 1], s[k])
    <3>1. /\ r[k] = iter[1 .. k] /\ r[k - 1] = iter[1 .. k - 1]
          /\ 1 .. k \in SUBSET (1 .. n) /\ 1 .. k # {}
          /\ Max(1 .. k) = k /\ (1 .. k) \ {k} = 1 .. k - 1
      BY <1>1, Intervals
    <3> HIDE DEF r
    <3>2. QED
      BY <1>5, <3>1
  <2>3. QED
    BY <2>1, <2>2
<1>7. r[n] \in V
  <2> HIDE DEF r
  <2>1. IsRun(r, n, V, <<>>, g)
    BY <1>0, <1>3, <1>6 DEF IsRun
  <2>2. \A k \in 0 .. n : r[k] \in V
    BY <1>1, <1>3, <2>1, RunType
  <2>3. QED
    BY <1>1, <2>2
<1>8. r[n] = iter[1 .. n]
  BY <1>1
<1>9. QED
  BY <1>2, <1>7, <1>8 DEF V

(* The frames of the call stack.                                           *)
Frames == [kind : {"notify", "watch", "process"}, rest : Seq(Watchers),
           who : Watchers \cup Instances \cup {RxMethod, None}]

(* The property and the types of what it speaks of.                        *)
CurrentInv ==
  /\ watchers \in Seq(Watchers)
  /\ stack \in Seq(Frames)
  /\ WatchersAreCurrent

(* What is in a list and not its head is in its tail.                      *)
LEMMA InTail ==
  ASSUME NEW S, NEW s \in Seq(S), s # <<>>, NEW x \in ToSet(s), x # Head(s)
  PROVE  x \in ToSet(Tail(s))
<1>1. /\ Len(s) \in Nat /\ Len(s) # 0 /\ DOMAIN s = 1 .. Len(s)
      /\ Head(s) = s[1] /\ Tail(s) \in Seq(S) /\ Len(Tail(s)) = Len(s) - 1
      /\ \A i \in 1 .. Len(s) - 1 : Tail(s)[i] = s[i + 1]
  BY HeadTailProperties, LenProperties, EmptySeq
<1>2. PICK k \in 1 .. Len(s) : s[k] = x
  BY <1>1 DEF ToSet
<1>3. k - 1 \in 1 .. Len(s) - 1 /\ (k - 1) + 1 = k
  BY <1>1, <1>2
<1>4. k - 1 \in DOMAIN Tail(s) /\ Tail(s)[k - 1] = x
  BY <1>1, <1>2, <1>3, LenProperties
<1>5. QED
  BY <1>4 DEF ToSet

(* A call keeps the promises of the frames below it, and makes those of    *)
(* its own.                                                                *)
LEMMA CalledKeeps ==
  ASSUME stack \in Seq(Frames), WatchersAreCurrent, NEW frame \in Frames,
         stack' = Append(stack, frame),
         behind' \ missed' \subseteq (behind \ missed) \cup ToSet(frame.rest)
  PROVE  stack' \in Seq(Frames) /\ WatchersAreCurrent'
<1>1. /\ Len(stack) \in Nat /\ DOMAIN stack = 1 .. Len(stack)
      /\ stack' \in Seq(Frames) /\ DOMAIN stack' = 1 .. Len(stack) + 1
      /\ stack'[Len(stack) + 1] = frame
      /\ \A k \in 1 .. Len(stack) : stack'[k] = stack[k]
  BY AppendProperties, LenProperties
<1>2. ASSUME NEW w \in behind' \ missed'
      PROVE  \E k \in DOMAIN stack' : w \in ToSet(stack'[k].rest)
  <2>1. CASE w \in ToSet(frame.rest)
    BY <1>1, <2>1
  <2>2. CASE w \in behind \ missed
    <3>1. PICK k \in DOMAIN stack : w \in ToSet(stack[k].rest)
      BY <2>2 DEF WatchersAreCurrent
    <3>2. k \in DOMAIN stack' /\ stack'[k] = stack[k]
      BY <1>1
    <3>3. QED
      BY <3>1, <3>2
  <2>3. QED
    BY <2>1, <2>2
<1>3. QED
  BY <1>1, <1>2 DEF WatchersAreCurrent

(* Every step keeps the invariant. A frame that returns has nobody left to *)
(* call, one that is unwound leaves those it had to missed.                *)
LEMMA CurrentStep ==
  ASSUME CurrentInv, [Next]_vars
  PROVE  CurrentInv'
<1>0. /\ watchers \in Seq(Watchers)
      /\ stack \in Seq(Frames)
      /\ WatchersAreCurrent
      /\ Len(stack) \in Nat /\ DOMAIN stack = 1 .. Len(stack)
  BY LenProperties DEF CurrentInv
<1>1. CASE PatchState
  <2>1. /\ Notification(watchers) \in Frames
        /\ Notification(watchers).rest = watchers
    BY <1>0 DEF Notification, Frames
  <2>2. /\ stack' = Append(stack, Notification(watchers))
        /\ behind' = ToSet(watchers) /\ watchers' = watchers
    BY <1>1 DEF PatchState, Calls
  <2>3. QED
    BY <1>0, <2>1, <2>2, CalledKeeps DEF CurrentInv
<1>2. ASSUME NEW w \in Watchers, WatchState(w) PROVE CurrentInv'
  <2> DEFINE frame == [Notification(<<w>>) EXCEPT !.kind = "watch"]
  <2>1. frame = [kind |-> "watch", rest |-> <<w>>, who |-> None]
    BY DEF Notification
  <2>7. <<w>> \in Seq(Watchers)
    OBVIOUS
  <2>5. frame \in Frames /\ frame.rest = <<w>>
    <3> HIDE DEF frame
    <3>1. QED
      BY <2>1, <2>7 DEF Frames
  <2>6. ToSet(<<w>>) = {w}
    BY DEF ToSet
  <2>2. /\ stack' = Append(stack, frame) /\ watchers' = Append(watchers, w)
        /\ behind' = behind \cup {w} /\ missed' = missed
    BY <1>2 DEF WatchState, Calls
  <2> HIDE DEF frame
  <2>3. watchers' \in Seq(Watchers)
    BY <1>0, <2>2, AppendProperties
  <2>4. QED
    BY <1>0, <2>2, <2>3, <2>5, <2>6, CalledKeeps DEF CurrentInv
<1>3. CASE NotifyNext
  <2> DEFINE n == Len(stack)
             top == stack[n]
             next == [top EXCEPT !.rest = Tail(@), !.who = Head(top.rest)]
  <2>1. n \in 1 .. Len(stack) /\ Top = top /\ top.rest # <<>> /\ top \in Frames
    BY <1>0, <1>3, EmptySeq DEF NotifyNext, Idle, Top, Last
  <2>2. /\ stack' = [stack EXCEPT ![n] = next]
        /\ behind' = behind \ {Head(top.rest)} /\ missed' = missed \ {Head(top.rest)}
        /\ watchers' = watchers
    BY <1>3, <2>1 DEF NotifyNext
  <2>3. /\ top.rest \in Seq(Watchers)
        /\ Head(top.rest) \in Watchers /\ Tail(top.rest) \in Seq(Watchers)
    BY <2>1, HeadTailProperties DEF Frames
  <2>4. next \in Frames /\ next.rest = Tail(top.rest)
    BY <2>1, <2>3 DEF Frames
  <2> HIDE DEF next
  <2>5. stack' \in Seq(Frames) /\ DOMAIN stack' = DOMAIN stack
    BY <1>0, <2>1, <2>2, <2>4
  <2>6. ASSUME NEW w \in behind' \ missed'
        PROVE  \E k \in DOMAIN stack' : w \in ToSet(stack'[k].rest)
    <3>1. w \in behind \ missed /\ w # Head(top.rest)
      BY <2>2
    <3>2. PICK k \in DOMAIN stack : w \in ToSet(stack[k].rest)
      BY <1>0, <3>1 DEF WatchersAreCurrent
    <3>3. CASE k # n
      <4>1. stack'[k] = stack[k]
        BY <1>0, <2>2, <3>3
      <4>2. QED
        BY <2>5, <3>2, <4>1
    <3>4. CASE k = n
      <4>1. w \in ToSet(Tail(top.rest))
        BY <2>1, <2>3, <3>1, <3>2, <3>4, InTail
      <4>2. stack'[n] = next
        BY <1>0, <2>1, <2>2
      <4>3. QED
        BY <2>1, <2>4, <2>5, <1>0, <4>1, <4>2
    <3>5. QED
      BY <3>3, <3>4
  <2>7. QED
    BY <1>0, <2>2, <2>5, <2>6 DEF CurrentInv, WatchersAreCurrent
<1>4. CASE Return
  <2>1. /\ Len(stack) # 0 /\ stack[Len(stack)].rest = <<>>
        /\ stack' = Front(stack) /\ UNCHANGED <<watchers, behind, missed>>
    BY <1>0, <1>4, EmptySeq DEF Return, Idle, Top, Last
  <2>2. stack' = SubSeq(stack, 1, Len(stack) - 1)
    BY <2>1 DEF Front
  <2>3. /\ stack' \in Seq(Frames) /\ DOMAIN stack' = 1 .. Len(stack) - 1
        /\ \A k \in 1 .. Len(stack) - 1 : stack'[k] = stack[k]
    BY <1>0, <2>1, <2>2, SubSeqProperties, LenProperties
  <2>4. ASSUME NEW w \in behind' \ missed'
        PROVE  \E k \in DOMAIN stack' : w \in ToSet(stack'[k].rest)
    <3>1. PICK k \in DOMAIN stack : w \in ToSet(stack[k].rest)
      BY <1>0, <2>1 DEF WatchersAreCurrent
    <3>2. k # Len(stack)
      BY <2>1, <3>1 DEF ToSet
    <3>3. k \in 1 .. Len(stack) - 1
      BY <1>0, <3>2
    <3>4. QED
      BY <2>3, <3>1, <3>3
  <2>5. QED
    BY <1>0, <2>1, <2>3, <2>4 DEF CurrentInv, WatchersAreCurrent
<1>5. CASE Throw
  <2>1. PICK bottom \in 1 .. Len(stack) : Unwinds(bottom)
    <3>1. 1 \in 1 .. Len(stack)
      BY <1>0, <1>5, EmptySeq DEF Throw, Idle
    <3>2. QED
      BY <1>0, <1>5, <3>1 DEF Throw
  <2> DEFINE unwound == SubSeq(stack, bottom, Len(stack))
  <2>2. /\ stack' = SubSeq(stack, 1, bottom - 1)
        /\ missed' = missed \cup (behind \cap
             UNION {ToSet(unwound[k].rest) : k \in DOMAIN unwound})
        /\ UNCHANGED <<watchers, behind>>
    BY <1>5, <2>1 DEF Unwinds, Throw
  <2>3. /\ stack' \in Seq(Frames) /\ DOMAIN stack' = 1 .. bottom - 1
        /\ \A k \in 1 .. bottom - 1 : stack'[k] = stack[k]
    BY <1>0, <2>2, SubSeqProperties, LenProperties
  <2>4. \A k \in bottom .. Len(stack) :
          k - bottom + 1 \in DOMAIN unwound
            /\ unwound[k - bottom + 1] = stack[k]
    BY <1>0, SubSeqProperties, LenProperties
  <2> HIDE DEF unwound
  <2>5. ASSUME NEW w \in behind' \ missed'
        PROVE  \E k \in DOMAIN stack' : w \in ToSet(stack'[k].rest)
    <3>1. w \in behind \ missed
      BY <2>2
    <3>2. PICK k \in DOMAIN stack : w \in ToSet(stack[k].rest)
      BY <1>0, <3>1 DEF WatchersAreCurrent
    <3>3. ~(k \in bottom .. Len(stack))
      <4>1. SUFFICES ASSUME k \in bottom .. Len(stack) PROVE FALSE
        OBVIOUS
      <4>2. /\ k - bottom + 1 \in DOMAIN unwound
            /\ w \in ToSet(unwound[k - bottom + 1].rest)
        BY <2>4, <3>2, <4>1
      <4>3. w \in missed'
        BY <2>2, <3>1, <4>2
      <4>4. QED
        BY <2>5, <4>3
    <3>4. k \in 1 .. bottom - 1
      BY <1>0, <3>3
    <3>5. QED
      BY <2>3, <3>2, <3>4
  <2>6. QED
    BY <1>0, <2>2, <2>3, <2>5 DEF CurrentInv, WatchersAreCurrent
<1>6. ASSUME UNCHANGED stack, NEW gone, RemoveWatchers(gone)
      PROVE  CurrentInv'
  <2>1. watchers' \in Seq(Watchers)
    BY <1>0, <1>6, WithoutType DEF RemoveWatchers
  <2>2. behind' \ missed' \subseteq behind \ missed
    BY <1>6 DEF RemoveWatchers
  <2>3. QED
    BY <1>0, <1>6, <2>1, <2>2 DEF CurrentInv, WatchersAreCurrent
<1>7. ASSUME NEW who \in Instances \cup {RxMethod}, Calls(Processing(who)),
             UNCHANGED source
      PROVE  CurrentInv'
  <2>1. Processing(who) \in Frames
    BY DEF Processing, Frames
  <2>2. QED
    BY <1>0, <1>7, <2>1, CalledKeeps DEF CurrentInv, Calls, source
<1>8. CASE UNCHANGED <<stack, source>>
  BY <1>8 DEF CurrentInv, WatchersAreCurrent, source
<1>9. ASSUME NEW w \in Watchers, DestroyWatcher(w)
      PROVE  CurrentInv'
  BY <1>6, <1>9 DEF DestroyWatcher
<1>10. ASSUME NEW injector \in Injectors, DestroyInjector(injector)
       PROVE  CurrentInv'
  BY <1>6, <1>10 DEF DestroyInjector
<1>11. CASE \/ \E i \in Effects : RunEffect(i)
            \/ \E i \in RxObservables : Emit(i)
            \/ CallWithValue
  BY <1>7, <1>11 DEF RunEffect, Emit, CallWithValue, Effects, Instances, RxInstances
<1>12. CASE \/ \E i \in Instances : Start(i) \/ DestroyInstance(i)
            \/ DestroyRx
            \/ DestroySignalMethod
  BY <1>8, <1>12 DEF Start, DestroyInstance, DestroyRx, DestroySignalMethod
<1>13. CASE UNCHANGED vars
  BY <1>8, <1>13 DEF vars
<1>14. QED
  BY <1>1, <1>2, <1>3, <1>4, <1>5, <1>9, <1>10, <1>11, <1>12, <1>13 DEF Next

(* After patchState, every watcher that has not seen the state is still to *)
(* be called by a notification on the call stack, however watchers patch,  *)
(* watch and destroy inside each other, or was passed over because another *)
(* one threw.                                                              *)
THEOREM WatchersStayCurrent == Spec => []WatchersAreCurrent
<1>1. Init => CurrentInv
  BY DEF Init, CurrentInv, WatchersAreCurrent
<1>2. CurrentInv /\ [Next]_vars => CurrentInv'
  BY CurrentStep
<1>3. CurrentInv => WatchersAreCurrent
  BY DEF CurrentInv
<1>4. QED
  BY <1>1, <1>2, <1>3, PTL DEF Spec
=============================================================================
