------------------------- MODULE RouterStoreProofs -------------------------
(***************************************************************************)
(* Proof of three safety properties of @ngrx/router-store, for any URLs,   *)
(* features, subscribers, effects' reactions and numbers of navigations.   *)
(*                                                                         *)
(* The first part is about the service's control: which handler is at work *)
(* inside which flush, which events may be emitted, and which state was    *)
(* recorded for which navigation.  FailuresCarryOwnState follows from it.  *)
(* The second part adds what the slice shows once everything is reduced    *)
(* that is queued or that a handler has yet to dispatch; SliceMirrorsUrl   *)
(* follows.  The third part adds which actions of each navigation have     *)
(* been dispatched or are about to be; ActionsInDocumentedOrder follows.   *)
(***************************************************************************)
EXTENDS RouterStore, SequenceTheorems, TLAPS

(* The actions of a navigation that fails: canceled, or with an error.     *)
Failures == {ROUTER_CANCEL, ROUTER_ERROR}

(* The router events that the service reacts to.                           *)
Kinds == {"start", "recognized", "end"} \cup Failures

(* A router event: its kind, and the id and URL of its navigation.         *)
Events == [kind : Kinds, id : Nat, url : Urls]

(* The actions of the service and the application's jumps, with the state  *)
(* they carry.                                                             *)
Payloads == [type : RouterActions \cup {"jump"}, id : Nat,
             url : Urls \cup {Null}, store : Nat \cup {Null}]

(* The fields of the service.                                              *)
Services == [lastEvent : Kinds \cup {Null}, routerState : Urls \cup {Null},
             storeState : Nat \cup {Null}, trigger : {"NONE", "ROUTER", "STORE"},
             recognized : Urls \cup {Null}]

(* The payloads of which a failure carries its own navigation's state.     *)
Own(s) == {a \in Payloads : a.type \in Failures =>
             a.id \in DOMAIN s /\ a.store \in {Null, s[a.id]}}

(* An entry of the agenda: a dispatch of one of P, its return, or reset(). *)
Entries(P) == [do : {"dispatch"}, action : P] \cup [do : {"release", "reset"}]

(* The entries whose failures carry their own navigation's state.          *)
Todo(s) == Entries(Own(s))

(* The types of the variables.  An action of a failure, queued, reduced or *)
(* still on the agenda, carries the store's state of its own navigation.   *)
RouterTypeOK ==
  /\ queue \in Seq(Own(startedAt) \cup {INIT_TYPE})
  /\ log \in Seq(Own(startedAt) \cup {INIT_TYPE})
  /\ url \in Urls
  /\ navigation \in Navigations \cup {Null}
  /\ navigations \in Nat
  /\ events \in Seq(Events)
  /\ service \in Services
  /\ agenda \in Seq(Todo(startedAt))
  /\ startedAt \in Seq(Nat)
  /\ RouterSlice \in Seq(Nat)
  /\ RouterSlice # <<>> =>
       /\ Last(RouterSlice) \in DOMAIN log
       /\ log[Last(RouterSlice)] \in Own(startedAt)

(* What the model of the store adds nothing to here: the features stay,    *)
(* nothing errors by itself, and a dead store reduces nothing more.        *)
FlushInvariant ==
  /\ reducers = RootFeatures
  /\ phase = "idle" => cur = Nobody
  /\ ~alive => queue = <<>> /\ phase = "idle"
  /\ accepting /\ ~failing

(* The actions that come without a handler of the service: INIT, and a     *)
(* change of the slice by the application.                                 *)
Quiet(a) == a = INIT_TYPE \/ a.type = "jump"

(* While a handler has something left to do, a flush under way is the one  *)
(* that its own dispatch started, or one inside which a navigation has     *)
(* started.  With no handler at work, all that is being reduced came from  *)
(* elsewhere.                                                              *)
AgendaInvariant ==
  IF agenda # <<>>
  THEN /\ Last(agenda).do # "dispatch"
       /\ ~Idle => \/ service.trigger = "ROUTER"
                   \/ service.trigger = "NONE" /\ service.lastEvent = "start"
       /\ events # <<>> => events[1].kind = "start"
  ELSE /\ service.trigger # "ROUTER"
       /\ ~Idle => events = <<>> /\ (navigation = Null \/ service.lastEvent = "start")
       /\ phase = "idle" => queue = <<>> \/ (Len(queue) = 1 /\ Quiet(queue[1]))
       /\ phase # "idle" => queue = <<>> /\ log # <<>> /\ Quiet(Last(log))

(* One event is being emitted, of navigation n.                            *)
Pending(kinds, n) == Len(events) = 1 /\ events[1].kind \in kinds /\ events[1].id = n

(* The events that may be emitted at a time, and the state recorded for    *)
(* each navigation: the one whose start is still to be handled has none    *)
(* yet.                                                                    *)
EventsInvariant ==
  \/ /\ events = <<>>
     /\ Len(startedAt) = navigations
     /\ navigation = Null => service.lastEvent # "start"
     /\ service.trigger = "STORE" => IF agenda = <<>> THEN navigation # Null ELSE navigation = Null
  \/ /\ Pending({"recognized"}, navigations)
     /\ Len(startedAt) = navigations
     /\ navigation # Null
  \/ /\ Pending({"end"} \cup Failures, navigations)
     /\ Len(startedAt) = navigations
     /\ navigation = Null
  \/ /\ Pending({"start"}, navigations)
     /\ Len(startedAt) = navigations - 1
     /\ navigation # Null
     /\ agenda = <<>> => service.trigger # "STORE"
  \/ /\ Len(events) = 2
     /\ events[1].kind = ROUTER_CANCEL /\ events[1].id = navigations - 1
     /\ events[2].kind = "start" /\ events[2].id = navigations
     /\ Len(startedAt) = navigations - 1
     /\ navigation # Null /\ navigations > 1

(* The navigation in flight is the latest, and the state that the service  *)
(* keeps is the one of the latest that it has heard of.                    *)
NavigationInvariant ==
  /\ navigation # Null => navigation.id = navigations
  /\ navigation # Null \/ events # <<>> => navigations > 0
  /\ service.storeState # Null => startedAt # <<>> /\ service.storeState = Last(startedAt)

(* The invariant of the service's control.                                 *)
RouterInvariant ==
  /\ RouterTypeOK
  /\ FlushInvariant
  /\ AgendaInvariant
  /\ EventsInvariant
  /\ NavigationInvariant

(* Nothing waits and no callback runs, in terms of the variables.          *)
LEMMA IdleFacts == FlushInvariant => (Idle <=> phase = "idle" /\ queue = <<>>)
BY DEF FlushInvariant, Idle, Flushing

(* The same of the next state.                                             *)
LEMMA IdleFactsNext ==
  FlushInvariant' => (Idle' <=> phase' = "idle" /\ queue' = <<>>)
BY DEF FlushInvariant, Idle, Flushing

(* Recording the state of one more navigation keeps every payload that was *)
(* in order in order.                                                      *)
LEMMA OwnGrows ==
  ASSUME NEW s \in Seq(Nat), NEW v \in Nat
  PROVE  LET t == Append(s, v) IN
         /\ t \in Seq(Nat) /\ Len(t) = Len(s) + 1 /\ t # <<>> /\ Last(t) = v
         /\ Own(s) \subseteq Own(t)
         /\ \A q \in Seq(Own(s) \cup {INIT_TYPE}) : q \in Seq(Own(t) \cup {INIT_TYPE})
         /\ \A q \in Seq(Todo(s)) : q \in Seq(Todo(t))
<1> DEFINE t == Append(s, v)
<1>1. /\ t \in Seq(Nat) /\ Len(t) = Len(s) + 1 /\ t[Len(s) + 1] = v
      /\ \A i \in 1 .. Len(s) : t[i] = s[i]
      /\ DOMAIN s = 1 .. Len(s) /\ DOMAIN t = 1 .. Len(t) /\ Len(s) \in Nat
  BY AppendProperties, LenProperties
<1> HIDE DEF t
<1>2. Own(s) \subseteq Own(t)
  BY <1>1 DEF Own
<1>3. Todo(s) \subseteq Todo(t)
  BY <1>2 DEF Todo, Entries
<1>4. \A q \in Seq(Own(s) \cup {INIT_TYPE}) : q \in Seq(Own(t) \cup {INIT_TYPE})
  BY <1>2, SeqMonotonic
<1>5. \A q \in Seq(Todo(s)) : q \in Seq(Todo(t))
  BY <1>3, SeqMonotonic
<1>6. t # <<>> /\ Last(t) = v
  BY <1>1 DEF Last
<1>7. QED
  BY <1>1, <1>2, <1>4, <1>5, <1>6 DEF t

(* The agenda of a handler: its dispatches in order, each with its return, *)
(* and reset() at the end.                                                 *)
LEMMA StepsFacts ==
  ASSUME NEW P, NEW out \in Seq(P), NEW reset \in BOOLEAN, NEW s,
         NEW b, b = Steps(Handler(s, out, reset))
  PROVE  /\ b \in Seq(Entries(P))
         /\ b # <<>> => Last(b).do # "dispatch"
         /\ b = <<>> <=> out = <<>> /\ ~reset
         /\ \A i \in DOMAIN b : b[i].do = "dispatch" =>
              \E j \in DOMAIN out :
                /\ b[i].action = out[j]
                /\ i = 2 * j - 1 /\ (j = 1 => i = 1)
         /\ \A j \in DOMAIN out : \E i \in DOMAIN b :
              i = 2 * j - 1 /\ b[i] = [do |-> "dispatch", action |-> out[j]]
<1> DEFINE T == Entries(P)
           d == [i \in 1 .. 2 * Len(out) |->
                   IF i % 2 = 1 THEN [do |-> "dispatch", action |-> out[(i + 1) \div 2]]
                                ELSE [do |-> "release"]]
           r == IF reset THEN <<[do |-> "reset"]>> ELSE <<>>
           a == d \o r
<1>1. Len(out) \in Nat /\ DOMAIN out = 1 .. Len(out) /\ \A j \in 1 .. Len(out) : out[j] \in P
  BY LenProperties, ElementOfSeq
<1>2. b = a
  BY DEF Steps, Handler
<1>3. \A i \in 1 .. 2 * Len(out) :
        \E j \in 1 .. Len(out) : i = 2 * j - 1 \/ i = 2 * j
  <2>1. ASSUME NEW i \in 1 .. 2 * Len(out)
        PROVE  \E j \in 1 .. Len(out) : i = 2 * j - 1 \/ i = 2 * j
    <3>1. CASE i % 2 = 1
      <4>1. (i + 1) \div 2 \in 1 .. Len(out) /\ i = 2 * ((i + 1) \div 2) - 1
        BY <1>1, <3>1
      <4>2. QED
        BY <4>1
    <3>2. CASE i % 2 # 1
      <4>1. i \div 2 \in 1 .. Len(out) /\ i = 2 * (i \div 2)
        BY <1>1, <3>2
      <4>2. QED
        BY <4>1
    <3>3. QED
      BY <3>1, <3>2
  <2>2. QED
    BY <2>1
<1>4. \A j \in 1 .. Len(out) :
        /\ 2 * j - 1 \in 1 .. 2 * Len(out) /\ 2 * j \in 1 .. 2 * Len(out)
        /\ (2 * j - 1) % 2 = 1 /\ (2 * j) % 2 # 1
        /\ ((2 * j - 1) + 1) \div 2 = j
  BY <1>1
<1>7. \A j \in 1 .. Len(out) :
        /\ d[2 * j - 1] = [do |-> "dispatch", action |-> out[j]]
        /\ d[2 * j] = [do |-> "release"]
  <2>1. ASSUME NEW i \in 1 .. 2 * Len(out)
        PROVE  d[i] = IF i % 2 = 1 THEN [do |-> "dispatch", action |-> out[(i + 1) \div 2]]
                                   ELSE [do |-> "release"]
    OBVIOUS
  <2> HIDE DEF d
  <2>2. QED
    BY <1>4, <2>1
<1>5. d \in Seq(T) /\ Len(d) = 2 * Len(out) /\ DOMAIN d = 1 .. 2 * Len(out)
  <2>1. DOMAIN d = 1 .. 2 * Len(out) /\ d = [i \in 1 .. 2 * Len(out) |-> d[i]]
    OBVIOUS
  <2>2. \A j \in 1 .. Len(out) : d[2 * j - 1] \in T /\ d[2 * j] \in T
    BY <1>1, <1>7 DEF Entries
  <2> HIDE DEF d, T
  <2>3. \A i \in 1 .. 2 * Len(out) : d[i] \in T
    BY <1>3, <2>2
  <2>4. d \in [1 .. 2 * Len(out) -> T] /\ 2 * Len(out) \in Nat
    BY <1>1, <2>1, <2>3
  <2>5. QED
    BY <2>4, SeqDef, LenProperties
<1>6. r \in Seq(T) /\ Len(r) = (IF reset THEN 1 ELSE 0) /\ (reset => r[1] = [do |-> "reset"])
  <2>1. <<>> \in Seq(T)
    OBVIOUS
  <2>2. <<[do |-> "reset"]>> \in Seq(T)
    BY DEF Entries
  <2>3. QED
    BY <2>1, <2>2
<1> HIDE DEF d, r, T
<1>8. /\ a \in Seq(T) /\ Len(a) = 2 * Len(out) + Len(r) /\ DOMAIN a = 1 .. Len(a)
      /\ \A i \in 1 .. Len(a) : a[i] = IF i <= 2 * Len(out) THEN d[i] ELSE r[i - 2 * Len(out)]
  <2>1. /\ a \in Seq(T) /\ Len(a) = Len(d) + Len(r)
        /\ \A i \in 1 .. Len(d) + Len(r) :
             a[i] = IF i <= Len(d) THEN d[i] ELSE r[i - Len(d)]
    BY <1>5, <1>6, ConcatProperties
  <2>2. DOMAIN a = 1 .. Len(a)
    BY <2>1, LenProperties
  <2>3. QED
    BY <1>5, <2>1, <2>2
<1> HIDE DEF a
<1>9. \A i \in 1 .. 2 * Len(out) : i \in DOMAIN a /\ a[i] = d[i]
  BY <1>1, <1>6, <1>8
<1>10. reset => Len(a) = 2 * Len(out) + 1 /\ a[Len(a)] = [do |-> "reset"]
  <2> DEFINE n == 2 * Len(out)
  <2>1. n \in Nat /\ (\A i \in 1 .. Len(a) : a[i] = IF i <= n THEN d[i] ELSE r[i - n])
        /\ Len(a) = n + Len(r)
    BY <1>1, <1>8
  <2> HIDE DEF n
  <2>2. reset => Len(a) = n + 1 /\ n + 1 \in 1 .. Len(a) /\ ~(n + 1 <= n) /\ (n + 1) - n = 1
    BY <1>6, <2>1
  <2>3. reset => Len(a) = n + 1 /\ a[Len(a)] = r[1]
    BY <2>1, <2>2
  <2>4. QED
    BY <1>6, <2>3 DEF n
<1>11. ~reset => Len(a) = 2 * Len(out)
  BY <1>1, <1>6, <1>8
<1>12. ~reset /\ Len(a) # 0 => a[Len(a)] = [do |-> "release"]
  <2>1. ASSUME ~reset, Len(a) # 0 PROVE a[Len(a)] = [do |-> "release"]
    <3>1. Len(out) \in 1 .. Len(out) /\ 2 * Len(out) \in 1 .. 2 * Len(out)
      BY <1>1, <1>11, <2>1
    <3>2. a[2 * Len(out)] = d[2 * Len(out)]
      BY <1>9, <3>1
    <3>3. QED
      BY <1>7, <1>11, <2>1, <3>1, <3>2
  <2>2. QED
    BY <2>1
<1>13. a # <<>> => Last(a).do # "dispatch"
  BY <1>8, <1>10, <1>12 DEF Last
<1>14. a = <<>> <=> out = <<>> /\ ~reset
  <2>1. a = <<>> <=> Len(a) = 0
    BY <1>8
  <2>2. out = <<>> <=> Len(out) = 0
    OBVIOUS
  <2>3. QED
    BY <1>1, <1>10, <1>11, <2>1, <2>2
<1>15. ASSUME NEW i \in DOMAIN a, a[i].do = "dispatch"
       PROVE  \E j \in DOMAIN out :
                a[i].action = out[j] /\ i = 2 * j - 1 /\ (j = 1 => i = 1)
  <2>1. i \in 1 .. 2 * Len(out)
    BY <1>1, <1>8, <1>10, <1>11, <1>15
  <2>2. PICK j \in 1 .. Len(out) : i = 2 * j - 1 \/ i = 2 * j
    BY <1>3, <2>1
  <2>3. i # 2 * j
    <3>1. ASSUME i = 2 * j PROVE FALSE
      <4>1. a[i] = [do |-> "release"]
        BY <1>7, <1>9, <2>1, <3>1
      <4>2. QED
        BY <1>15, <4>1
    <3>2. QED
      BY <3>1
  <2>4. a[i].action = out[j]
    <3>1. a[i] = [do |-> "dispatch", action |-> out[j]]
      BY <1>7, <1>9, <2>1, <2>2, <2>3
    <3>2. QED
      BY <3>1
  <2>5. QED
    BY <1>1, <2>2, <2>3, <2>4
<1>16. ASSUME NEW j \in DOMAIN out
       PROVE  \E i \in DOMAIN a :
                i = 2 * j - 1 /\ a[i] = [do |-> "dispatch", action |-> out[j]]
  BY <1>1, <1>4, <1>7, <1>9
<1>17. QED
  BY <1>2, <1>8, <1>13, <1>14, <1>15, <1>16 DEF T

(* What the handler of NavigationStart leaves.                             *)
LEMMA StartFacts ==
  ASSUME NEW s \in Services, NEW e \in Events, e.kind = "start", url \in Urls,
         s.trigger # "STORE" => LatestStore \in Nat
  PROVE  LET h == Handle(s, e) IN
         /\ h = Handler(h.service, h.out, FALSE) /\ h.reset = FALSE
         /\ h.service \in Services
         /\ h.service.lastEvent = "start"
         /\ h.service.trigger = s.trigger
         /\ h.service.routerState = url
         /\ h.service.recognized = s.recognized
         /\ h.service.storeState = IF s.trigger = "STORE" THEN s.storeState ELSE LatestStore
         /\ h.out = IF s.trigger = "STORE" THEN <<>>
                    ELSE <<Action(ROUTER_REQUEST, e.id, url, Null)>>
BY DEF Handle, OnStart, Handler, Services, Events, Kinds, Failures, ROUTER_CANCEL, ROUTER_ERROR

(* What the handler of RoutesRecognized leaves.                            *)
LEMMA RecognizedFacts ==
  ASSUME NEW s \in Services, NEW e \in Events, e.kind = "recognized"
  PROVE  LET h == Handle(s, e) IN
         /\ h = Handler(h.service, h.out, FALSE) /\ h.reset = FALSE
         /\ h.service \in Services
         /\ h.service.lastEvent = "recognized"
         /\ h.service.trigger = s.trigger
         /\ h.service.routerState = s.routerState
         /\ h.service.storeState = s.storeState
         /\ h.service.recognized = e.url
         /\ h.out = IF ~late /\ s.trigger # "STORE"
                    THEN <<Action(ROUTER_NAVIGATION, e.id, e.url, Null)>> ELSE <<>>
BY DEF Handle, OnRecognized, Handler, Services, Events, Kinds, Failures, ROUTER_CANCEL, ROUTER_ERROR

(* What the handler of NavigationCancel and NavigationError leaves.        *)
LEMMA FailureFacts ==
  ASSUME NEW s \in Services, NEW e \in Events, e.kind \in Failures
  PROVE  LET h == Handle(s, e) IN
         /\ h = Handler(h.service, h.out, TRUE) /\ h.reset = TRUE
         /\ h.service \in Services
         /\ h.service.lastEvent = e.kind
         /\ h.service.trigger = s.trigger
         /\ h.service.routerState = s.routerState
         /\ h.service.storeState = s.storeState
         /\ h.service.recognized = s.recognized
         /\ h.out = <<Action(e.kind, e.id, s.routerState, s.storeState)>>
BY DEF Handle, OnFailure, Handler, Services, Events, Kinds, Failures, ROUTER_CANCEL, ROUTER_ERROR

(* What the handler of NavigationEnd leaves.                               *)
LEMMA EndFacts ==
  ASSUME NEW s \in Services, NEW e \in Events, e.kind = "end"
  PROVE  LET h == Handle(s, e)
             navigated == Action(ROUTER_NAVIGATED, e.id, url, Null)
         IN
         /\ h = Handler(h.service, h.out, TRUE) /\ h.reset = TRUE
         /\ h.service \in Services
         /\ h.service.lastEvent = "end"
         /\ h.service.trigger = s.trigger
         /\ h.service.routerState = s.routerState
         /\ h.service.storeState = s.storeState
         /\ h.service.recognized = s.recognized
         /\ h.out = IF s.trigger = "STORE" THEN <<>>
                    ELSE IF late
                    THEN <<Action(ROUTER_NAVIGATION, e.id, s.recognized, Null)>> \o <<navigated>>
                    ELSE <<navigated>>
BY DEF Handle, OnEnd, Handler, Services, Events, Kinds, Failures, ROUTER_CANCEL, ROUTER_ERROR

(* What a handler leaves that runs through inside a flush: dispatch and    *)
(* reset() each end with trigger NONE.                                     *)
LEMMA FinishFacts ==
  ASSUME NEW h, h.service \in Services, h.reset \in BOOLEAN
  PROVE  LET f == Finish(h) IN
         /\ f \in Services
         /\ f.lastEvent = h.service.lastEvent
         /\ f.recognized = h.service.recognized
         /\ f.trigger = IF h.out # <<>> \/ h.reset THEN "NONE" ELSE h.service.trigger
         /\ f.storeState = IF h.reset THEN Null ELSE h.service.storeState
         /\ f.routerState = IF h.reset THEN Null ELSE h.service.routerState
BY DEF Finish, Reset, Services

(* A queue of one action.                                                  *)
LEMMA OneFacts ==
  ASSUME NEW S, NEW a \in S
  PROVE  /\ Append(<<>>, a) \in Seq(S) /\ Len(Append(<<>>, a)) = 1
         /\ Append(<<>>, a)[1] = a
<1>1. <<>> \in Seq(S) /\ Len(<<>>) = 0
  OBVIOUS
<1>2. QED
  BY <1>1, AppendProperties

(* A handler that dispatches twice.                                        *)
LEMMA TwoFacts ==
  ASSUME NEW S, NEW a \in S, NEW b \in S
  PROVE  /\ <<a>> \o <<b>> \in Seq(S) /\ Len(<<a>> \o <<b>>) = 2
         /\ (<<a>> \o <<b>>)[1] = a /\ (<<a>> \o <<b>>)[2] = b
<1>1. <<a>> \in Seq(S) /\ <<b>> \in Seq(S) /\ Len(<<a>>) = 1 /\ Len(<<b>>) = 1
  OBVIOUS
<1>2. QED
  BY <1>1, ConcatProperties

(* It holds when the application starts.                                   *)
LEMMA RouterInitInvariant == RouterInit => RouterInvariant
<1> SUFFICES ASSUME RouterInit PROVE RouterInvariant
  OBVIOUS
<1>1. /\ <<INIT_TYPE>> \in Seq(Own(startedAt) \cup {INIT_TYPE})
      /\ Len(<<INIT_TYPE>>) = 1 /\ <<INIT_TYPE>>[1] = INIT_TYPE
  OBVIOUS
<1>2. RouterSlice = <<>>
  BY DEF RouterInit, Init, RouterSlice, Slice, Undefined
<1>3. service \in Services
  BY DEF RouterInit, Services
<1>4. RouterTypeOK
  BY <1>1, <1>2, <1>3, EmptySeq, RouterAssumption DEF RouterInit, Init, RouterTypeOK
<1>5. FlushInvariant
  BY DEF RouterInit, Init, FlushInvariant
<1>6. AgendaInvariant
  BY <1>1 DEF RouterInit, Init, AgendaInvariant, Quiet
<1>7. EventsInvariant /\ NavigationInvariant
  BY RouterAssumption DEF RouterInit, Init, EventsInvariant, NavigationInvariant
<1>8. QED
  BY <1>4, <1>5, <1>6, <1>7 DEF RouterInvariant

(* The variables that the invariant is about.                              *)
controlVars == <<queue, log, url, navigation, navigations, events, service,
                 agenda, startedAt, state, reducers, phase, cur, alive,
                 accepting, failing>>

(* It holds on while its variables stay.                                   *)
LEMMA ControlFrame ==
  ASSUME RouterInvariant, UNCHANGED controlVars
  PROVE  RouterInvariant'
BY DEF RouterInvariant, controlVars, RouterTypeOK, FlushInvariant,
       AgendaInvariant, EventsInvariant, NavigationInvariant, RouterSlice,
       Slice, Idle, Flushing, Pending

(* The events that navigateByUrl() emits: the start, after a cancellation  *)
(* of the navigation that it supersedes.                                   *)
LEMMA EmittedFacts ==
  ASSUME NEW target \in Urls, navigation \in Navigations \cup {Null}, navigations \in Nat
  PROVE  LET e == Emitted(target) IN
         /\ e \in Seq(Events) /\ Head(e) = e[1] /\ Last(e) = e[Len(e)]
         /\ navigation = Null =>
              /\ Len(e) = 1
              /\ e[1] = [kind |-> "start", id |-> navigations + 1, url |-> target]
         /\ navigation # Null =>
              /\ Len(e) = 2
              /\ e[1] = [kind |-> ROUTER_CANCEL, id |-> navigation.id, url |-> navigation.url]
              /\ e[2] = [kind |-> "start", id |-> navigations + 1, url |-> target]
<1> DEFINE c == [kind |-> ROUTER_CANCEL, id |-> navigation.id, url |-> navigation.url]
           s == [kind |-> "start", id |-> navigations + 1, url |-> target]
<1>1. s \in Events
  BY DEF Events, Kinds
<1>2. CASE navigation = Null
  <2>1. Emitted(target) = <<>> \o <<s>>
    BY <1>2 DEF Emitted
  <2>2. <<s>> \in Seq(Events) /\ Len(<<s>>) = 1 /\ <<s>>[1] = s /\ Head(<<s>>) = s
    BY <1>1
  <2>3. Emitted(target) = <<s>>
    BY <2>1, <2>2, ConcatEmptySeq
  <2>4. QED
    BY <1>2, <2>2, <2>3 DEF Last
<1>3. CASE navigation # Null
  <2>1. Emitted(target) = <<c>> \o <<s>>
    BY <1>3 DEF Emitted
  <2>2. c \in Events
    BY <1>3 DEF Navigations, Events, Kinds, Failures
  <2> HIDE DEF c, s
  <2>3. /\ Emitted(target) \in Seq(Events) /\ Len(Emitted(target)) = 2
        /\ Emitted(target)[1] = c /\ Emitted(target)[2] = s
    BY <1>1, <2>1, <2>2, TwoFacts
  <2>4. Head(Emitted(target)) = Emitted(target)[1]
    BY <2>3
  <2>5. QED
    BY <1>3, <2>3, <2>4 DEF Last, c, s
<1>4. QED
  BY <1>2, <1>3

(* navigateByUrl() starts one navigation, with the next id.                *)
LEMMA NavigationFacts ==
  ASSUME NEW target \in Urls, navigations \in Nat, NavigateByUrl(target)
  PROVE  /\ navigation' \in Navigations /\ navigation' # Null
         /\ navigation'.id = navigations' /\ navigation'.url = target
         /\ navigation'.stage = "started"
         /\ navigations' \in Nat /\ navigations' = navigations + 1
BY RouterAssumption DEF NavigateByUrl, Navigations

(* Application code navigates, in a task of its own.                       *)
LEMMA AppNavigatesStep ==
  ASSUME RouterInvariant, NEW target \in Urls, AppNavigates(target)
  PROVE  RouterInvariant'
<1> USE DEF RouterInvariant
<1>1. /\ events = <<>> /\ agenda = <<>> /\ Idle
      /\ events' = Emitted(target)
      /\ UNCHANGED <<vars, late, url, service, selected, agenda, startedAt>>
  BY DEF AppNavigates, Task
<1>2. UNCHANGED <<queue, phase, cur, alive, failing, accepting, reducers, state, log>>
  BY <1>1 DEF vars
<1>3. /\ navigation' \in Navigations /\ navigation' # Null
      /\ navigation'.id = navigations' /\ navigation'.url = target
      /\ navigations' \in Nat /\ navigations' = navigations + 1
  BY NavigationFacts DEF AppNavigates, RouterTypeOK
<1>4. Emitted(target) \in Seq(Events)
  BY EmittedFacts DEF RouterTypeOK
<1>5. RouterTypeOK'
  BY <1>1, <1>2, <1>3, <1>4 DEF RouterTypeOK, RouterSlice, Slice
<1>6. FlushInvariant' /\ Idle'
  BY <1>1, <1>2 DEF FlushInvariant, Idle, Flushing
<1>7. AgendaInvariant'
  BY <1>1, <1>2, <1>6 DEF AgendaInvariant
<1>8. NavigationInvariant'
  BY <1>1, <1>3 DEF NavigationInvariant, RouterTypeOK
<1>9. /\ Len(startedAt) = navigations
      /\ service.trigger = "STORE" => navigation # Null
  BY <1>1 DEF EventsInvariant, Pending
<1>10. EventsInvariant'
  <2>1. CASE navigation = Null
    <3>1. /\ Len(Emitted(target)) = 1
          /\ Emitted(target)[1] = [kind |-> "start", id |-> navigations + 1, url |-> target]
      BY <2>1, EmittedFacts DEF RouterTypeOK
    <3>2. QED
      BY <1>1, <1>3, <1>9, <2>1, <3>1 DEF EventsInvariant, Pending, RouterTypeOK
  <2>2. CASE navigation # Null
    <3>1. /\ Len(Emitted(target)) = 2
          /\ Emitted(target)[1] = [kind |-> ROUTER_CANCEL, id |-> navigation.id, url |-> navigation.url]
          /\ Emitted(target)[2] = [kind |-> "start", id |-> navigations + 1, url |-> target]
      BY <2>2, EmittedFacts DEF RouterTypeOK
    <3>2. navigation.id = navigations /\ navigations > 0
      BY <2>2 DEF NavigationInvariant
    <3>3. QED
      BY <1>1, <1>3, <1>9, <3>1, <3>2 DEF EventsInvariant, RouterTypeOK
  <2>3. QED
    BY <2>1, <2>2
<1>11. QED
  BY <1>5, <1>6, <1>7, <1>8, <1>10

(* The router goes on with its navigation and emits one event.             *)
LEMMA EmitsStep ==
  ASSUME RouterInvariant, NEW kind \in {"recognized", "end"} \cup Failures,
         Emits(kind), navigations' = navigations,
         IF kind = "recognized" THEN navigation' \in Navigations /\ navigation'.id = navigation.id
         ELSE navigation' = Null,
         url' \in Urls
  PROVE  RouterInvariant'
<1> USE DEF RouterInvariant
<1> DEFINE e == [kind |-> kind, id |-> navigation.id, url |-> navigation.url]
<1>1. /\ events = <<>> /\ agenda = <<>> /\ Idle /\ navigation # Null
      /\ events' = <<e>>
      /\ UNCHANGED <<vars, late, navigations, service, selected, agenda, startedAt>>
  BY DEF Emits, Task
<1>2. UNCHANGED <<queue, phase, cur, alive, failing, accepting, reducers, state, log>>
  BY <1>1 DEF vars
<1>3. navigation \in Navigations /\ navigation.id = navigations /\ navigations > 0
  BY <1>1 DEF RouterTypeOK, NavigationInvariant
<1>4. e \in Events
  BY <1>3 DEF Events, Kinds, Navigations
<1>5. <<e>> \in Seq(Events) /\ Len(<<e>>) = 1 /\ <<e>>[1] = e
  BY <1>4
<1>6. RouterTypeOK'
  BY <1>1, <1>2, <1>5 DEF RouterTypeOK, RouterSlice, Slice
<1>7. FlushInvariant' /\ Idle'
  BY <1>1, <1>2 DEF FlushInvariant, Idle, Flushing
<1>8. AgendaInvariant'
  BY <1>1, <1>2, <1>7 DEF AgendaInvariant
<1>9. NavigationInvariant'
  BY <1>1, <1>3 DEF NavigationInvariant
<1>10. Len(startedAt) = navigations
  BY <1>1 DEF EventsInvariant, Pending
<1>11. kind = "recognized" => navigation' # Null
  BY RouterAssumption
<1>12. EventsInvariant'
  <2>1. e.kind = kind /\ e.id = navigations
    BY <1>3
  <2>2. CASE kind = "recognized"
    BY <1>1, <1>5, <1>10, <1>11, <2>1, <2>2 DEF EventsInvariant, Pending
  <2>3. CASE kind # "recognized"
    BY <1>1, <1>5, <1>10, <2>1, <2>3 DEF EventsInvariant, Pending
  <2>4. QED
    BY <2>2, <2>3
<1>13. QED
  BY <1>6, <1>7, <1>8, <1>9, <1>12

(* The router recognizes, ends or fails.                                   *)
LEMMA RouterStepsKeep ==
  ASSUME RouterInvariant,
         \/ RouterSteps
         \/ \E kind \in {ROUTER_CANCEL, ROUTER_ERROR} : RouterFails(kind)
  PROVE  RouterInvariant'
<1> USE DEF RouterInvariant, Failures
<1>1. ASSUME RouterRecognizes PROVE RouterInvariant'
  <2>1. navigation \in Navigations
    BY <1>1 DEF RouterRecognizes, Emits, RouterTypeOK
  <2>2. navigation' \in Navigations /\ navigation'.id = navigation.id /\ url' \in Urls
    BY <1>1, <2>1 DEF RouterRecognizes, Navigations, RouterTypeOK
  <2>3. Emits("recognized") /\ navigations' = navigations
    BY <1>1 DEF RouterRecognizes, Emits
  <2>4. QED
    BY <2>2, <2>3, EmitsStep
<1>2. ASSUME RouterEnds PROVE RouterInvariant'
  <2>1. navigation \in Navigations
    BY <1>2 DEF RouterEnds, Emits, RouterTypeOK
  <2>2. navigation' = Null /\ url' \in Urls
    BY <1>2, <2>1 DEF RouterEnds, Navigations
  <2>3. Emits("end") /\ navigations' = navigations
    BY <1>2 DEF RouterEnds, Emits
  <2>4. QED
    BY <2>2, <2>3, EmitsStep
<1>3. ASSUME NEW kind \in {ROUTER_CANCEL, ROUTER_ERROR}, RouterFails(kind)
      PROVE  RouterInvariant'
  <2>1. navigation' = Null /\ url' \in Urls /\ Emits(kind) /\ navigations' = navigations
    BY <1>3 DEF RouterFails, Emits, RouterTypeOK
  <2>2. kind # "recognized"
    BY DEF ROUTER_CANCEL, ROUTER_ERROR
  <2>3. QED
    BY <2>1, <2>2, EmitsStep
<1>4. QED
  BY <1>1, <1>2, <1>3 DEF RouterSteps

(* Application code changes the slice, in a task of its own.               *)
LEMMA AppJumpsStep ==
  ASSUME RouterInvariant, ~JumpsInFlight, NEW target \in Urls, AppJumps(target)
  PROVE  RouterInvariant'
<1> USE DEF RouterInvariant
<1> DEFINE a == Jump(target)
<1>1. /\ events = <<>> /\ agenda = <<>> /\ Idle /\ navigation = Null
      /\ Next_(a)
      /\ UNCHANGED routerVars
      /\ UNCHANGED <<phase, cur, reducers, state, accepting, failing, alive, log, observers, todo>>
  BY DEF AppJumps, Task, Dispatch, subscriptions, status, config
<1>2. phase = "idle" /\ queue = <<>>
  BY <1>1, IdleFacts
<1>3. a \in Own(startedAt) /\ a.type = "jump"
  BY DEF Jump, Action, Own, Payloads, Failures, ROUTER_CANCEL, ROUTER_ERROR
<1> HIDE DEF a
<1>4. queue' = (IF alive THEN Append(<<>>, a) ELSE <<>>)
  BY <1>1, <1>2 DEF Next_, FlushInvariant
<1>5. /\ queue' \in Seq(Own(startedAt) \cup {INIT_TYPE})
      /\ queue' = <<>> \/ (Len(queue') = 1 /\ queue'[1] = a)
  BY <1>3, <1>4, OneFacts, EmptySeq
<1>6. RouterTypeOK'
  BY <1>1, <1>5 DEF RouterTypeOK, RouterSlice, Slice, routerVars
<1>7. FlushInvariant'
  BY <1>1, <1>2, <1>4 DEF FlushInvariant
<1>8. AgendaInvariant'
  BY <1>1, <1>2, <1>3, <1>5 DEF AgendaInvariant, routerVars, Quiet
<1>9. EventsInvariant' /\ NavigationInvariant'
  BY <1>1 DEF EventsInvariant, NavigationInvariant, routerVars, Pending
<1>10. QED
  BY <1>6, <1>7, <1>8, <1>9

(* The agenda of a handler holds payloads in order when the handler's      *)
(* actions are.                                                            *)
LEMMA OwnSteps ==
  ASSUME NEW h, NEW s, h.out \in Seq(Own(s)), h.reset \in BOOLEAN,
         h = Handler(h.service, h.out, h.reset)
  PROVE  /\ Steps(h) \in Seq(Todo(s))
         /\ Steps(h) # <<>> => Last(Steps(h)).do # "dispatch"
         /\ Steps(h) = <<>> <=> h.out = <<>> /\ ~h.reset
<1> DEFINE out == h.out
           reset == h.reset
           v == h.service
           P == Own(s)
<1>1. out \in Seq(P) /\ reset \in BOOLEAN /\ Steps(h) = Steps(Handler(v, out, reset))
  OBVIOUS
<1>2. Todo(s) = Entries(P)
  BY DEF Todo
<1> HIDE DEF out, reset, v, P
<1>3. /\ Steps(h) \in Seq(Todo(s))
      /\ Steps(h) # <<>> => Last(Steps(h)).do # "dispatch"
      /\ Steps(h) = <<>> <=> out = <<>> /\ ~reset
  BY <1>1, <1>2, StepsFacts
<1>4. QED
  BY <1>3 DEF out, reset

(* The listener takes up the first event that is being emitted: what it    *)
(* leaves alone, and the shape of what it changes.                         *)
LEMMA HandleEventFrame ==
  ASSUME RouterInvariant, HandleEvent
  PROVE  /\ UNCHANGED <<queue, log, url, navigation, navigations, state, reducers,
                        phase, cur, alive, accepting, failing, observers, todo, selected, late>>
         /\ Idle /\ Idle' /\ phase = "idle" /\ queue = <<>> /\ cur = Nobody
         /\ agenda = <<>> /\ events \in Seq(Events) /\ events # <<>>
         /\ Head(events) = events[1]
         /\ events[1] \in Events /\ service \in Services /\ service.trigger # "ROUTER"
         /\ service' = Handle(service, events[1]).service
         /\ agenda' = Steps(Handle(service, events[1]))
         /\ events' = Tail(events) /\ events' \in Seq(Events)
         /\ Len(events) \in Nat /\ Len(events') = Len(events) - 1
         /\ \A i \in 1 .. Len(events') : events'[i] = events[i + 1]
         /\ startedAt' = IF events[1].kind = "start" THEN Append(startedAt, Version) ELSE startedAt
         /\ LatestStore = Version /\ Version \in Nat
         /\ FlushInvariant'
<1> USE DEF RouterInvariant
<1>1. /\ UNCHANGED vars /\ UNCHANGED <<late, url, navigation, navigations, selected>>
      /\ Idle /\ agenda = <<>> /\ events # <<>>
      /\ service' = Handle(service, Head(events)).service
      /\ agenda' = Steps(Handle(service, Head(events)))
      /\ events' = Tail(events)
      /\ startedAt' = IF Head(events).kind = "start" THEN Append(startedAt, Version) ELSE startedAt
  BY DEF HandleEvent
<1>2. UNCHANGED <<queue, log, state, reducers, phase, cur, alive, accepting, failing, observers, todo>>
  BY <1>1 DEF vars
<1>3. /\ events \in Seq(Events) /\ service \in Services /\ service.trigger # "ROUTER"
      /\ log \in Seq(Own(startedAt) \cup {INIT_TYPE})
  BY <1>1 DEF RouterTypeOK, AgendaInvariant
<1>4. /\ Head(events) = events[1] /\ events[1] \in Events /\ Tail(events) \in Seq(Events)
      /\ Len(events) \in Nat /\ Len(Tail(events)) = Len(events) - 1
      /\ \A i \in 1 .. Len(Tail(events)) : Tail(events)[i] = events[i + 1]
  <2>1. Head(events) = events[1]
    BY <1>1, <1>3
  <2>2. Head(events) \in Events
    BY <1>1, <1>3, HeadTailProperties
  <2>3. QED
    BY <1>1, <1>3, <2>1, <2>2, HeadTailProperties, LenProperties
<1>5. Idle' /\ FlushInvariant'
  BY <1>1, <1>2 DEF FlushInvariant, Idle, Flushing
<1>6. phase = "idle" /\ queue = <<>> /\ cur = Nobody
  BY <1>1, IdleFacts DEF FlushInvariant
<1>7. cur # Service /\ Version \in Nat
  BY <1>3, <1>6, StoreAssumption, RouterAssumption, LenProperties DEF Version
<1>8. LatestStore = Version
  BY <1>7 DEF LatestStore
<1>9. QED
  BY <1>1, <1>2, <1>3, <1>4, <1>5, <1>6, <1>7, <1>8

(* Its types, with the service's and the agenda's given.                   *)
LEMMA HandleEventTypes ==
  ASSUME RouterInvariant, HandleEvent,
         service' \in Services, agenda' \in Seq(Todo(startedAt'))
  PROVE  RouterTypeOK'
<1> USE DEF RouterInvariant
<1>1. /\ UNCHANGED <<queue, log, url, navigation, navigations, state>>
      /\ events' \in Seq(Events) /\ Version \in Nat
      /\ startedAt' = IF events[1].kind = "start" THEN Append(startedAt, Version) ELSE startedAt
  BY HandleEventFrame
<1>2. RouterSlice' = RouterSlice
  BY <1>1 DEF RouterSlice, Slice
<1>3. CASE events[1].kind = "start"
  <2>1. startedAt' = Append(startedAt, Version) /\ startedAt \in Seq(Nat)
    BY <1>1, <1>3 DEF RouterTypeOK
  <2>2. /\ startedAt' \in Seq(Nat) /\ Own(startedAt) \subseteq Own(startedAt')
        /\ \A q \in Seq(Own(startedAt) \cup {INIT_TYPE}) : q \in Seq(Own(startedAt') \cup {INIT_TYPE})
    BY <1>1, <2>1, OwnGrows
  <2>3. QED
    BY <1>1, <1>2, <2>2 DEF RouterTypeOK
<1>4. CASE events[1].kind # "start"
  BY <1>1, <1>2, <1>4 DEF RouterTypeOK
<1>5. QED
  BY <1>3, <1>4

(* A handler that dispatches one action that is in order.                  *)
LEMMA OneOwn ==
  ASSUME NEW s, NEW a \in Own(s)
  PROVE  <<a>> \in Seq(Own(s)) /\ <<a>> # <<>>
OBVIOUS

(* What remains to be shown of each of the router's events.                *)
LEMMA HandledKeeps ==
  ASSUME RouterInvariant, HandleEvent,
         LET h == Handle(service, events[1]) IN
           /\ h = Handler(h.service, h.out, h.reset) /\ h.reset \in BOOLEAN
           /\ h.out \in Seq(Own(startedAt'))
           /\ h.service \in Services
           /\ h.service.trigger = service.trigger,
         events' # <<>> => events'[1].kind = "start",
         EventsInvariant', NavigationInvariant'
  PROVE  RouterInvariant'
<1> DEFINE h == Handle(service, events[1])
<1>1. /\ agenda' = Steps(h) /\ service' = h.service /\ Idle'
      /\ phase' = "idle" /\ queue' = <<>> /\ FlushInvariant' /\ service.trigger # "ROUTER"
  BY HandleEventFrame
<1>2. /\ h = Handler(h.service, h.out, h.reset) /\ h.reset \in BOOLEAN
      /\ h.out \in Seq(Own(startedAt'))
      /\ h.service \in Services
      /\ h.service.trigger = service.trigger
  OBVIOUS
<1> HIDE DEF h
<1>3. /\ agenda' \in Seq(Todo(startedAt'))
      /\ agenda' # <<>> => Last(agenda').do # "dispatch"
  BY <1>1, <1>2, OwnSteps
<1>4. RouterTypeOK'
  BY <1>1, <1>2, <1>3, HandleEventTypes
<1>5. AgendaInvariant'
  BY <1>1, <1>2, <1>3 DEF AgendaInvariant
<1>6. QED
  BY <1>1, <1>4, <1>5 DEF RouterInvariant

(* NavigationStart: the state is recorded for the new navigation.          *)
LEMMA HandleStart ==
  ASSUME RouterInvariant, HandleEvent, events[1].kind = "start"
  PROVE  /\ RouterInvariant'
         /\ service.trigger # "STORE" /\ events' = <<>>
         /\ navigation # Null
<1> USE DEF RouterInvariant
<1> DEFINE h == Handle(service, events[1])
<1>1. /\ UNCHANGED <<navigation, navigations>>
      /\ events[1] \in Events /\ service \in Services
      /\ agenda = <<>> /\ events \in Seq(Events) /\ events # <<>>
      /\ service' = h.service /\ agenda' = Steps(h)
      /\ Len(events) \in Nat /\ Len(events') = Len(events) - 1 /\ events' \in Seq(Events)
      /\ startedAt' = Append(startedAt, Version)
      /\ LatestStore = Version /\ Version \in Nat
  BY HandleEventFrame
<1>2. /\ Pending({"start"}, navigations)
      /\ Len(startedAt) = navigations - 1
      /\ navigation # Null
      /\ service.trigger # "STORE"
  BY <1>1 DEF EventsInvariant, Pending, Failures, ROUTER_CANCEL, ROUTER_ERROR
<1>3. events' = <<>>
  BY <1>1, <1>2 DEF Pending
<1>4. /\ h = Handler(h.service, h.out, FALSE) /\ h.reset = FALSE
      /\ h.service \in Services
      /\ h.service.lastEvent = "start"
      /\ h.service.trigger = service.trigger
      /\ h.service.storeState = Version
      /\ h.out = <<Action(ROUTER_REQUEST, events[1].id, url, Null)>>
  BY <1>1, <1>2, StartFacts DEF RouterTypeOK
<1>5. Action(ROUTER_REQUEST, events[1].id, url, Null) \in Own(startedAt')
  BY <1>1 DEF Action, Own, Payloads, RouterActions, Failures, ROUTER_CANCEL,
       ROUTER_ERROR, ROUTER_REQUEST, Events, RouterTypeOK
<1>6. h.out \in Seq(Own(startedAt')) /\ h.out # <<>>
  BY <1>4, <1>5, OneOwn
<1>7. h.reset = FALSE
  BY <1>4 DEF Handler
<1> HIDE DEF h
<1>8. startedAt \in Seq(Nat) /\ navigations \in Nat
  BY DEF RouterTypeOK
<1>9. /\ Len(startedAt') = Len(startedAt) + 1 /\ startedAt' # <<>>
      /\ Last(startedAt') = Version
  BY <1>1, <1>8, OwnGrows
<1>10. EventsInvariant'
  BY <1>1, <1>2, <1>3, <1>4, <1>8, <1>9 DEF EventsInvariant
<1>11. NavigationInvariant'
  BY <1>1, <1>2, <1>3, <1>4, <1>9 DEF NavigationInvariant
<1>12. QED
  BY <1>1, <1>2, <1>3, <1>4, <1>6, <1>7, <1>10, <1>11, HandledKeeps DEF h

(* RoutesRecognized.                                                       *)
LEMMA HandleRecognized ==
  ASSUME RouterInvariant, HandleEvent, events[1].kind = "recognized"
  PROVE  /\ RouterInvariant'
         /\ events' = <<>> /\ navigation # Null
<1> USE DEF RouterInvariant
<1> DEFINE h == Handle(service, events[1])
<1>1. /\ UNCHANGED <<navigation, navigations>>
      /\ events[1] \in Events /\ service \in Services
      /\ agenda = <<>> /\ events \in Seq(Events) /\ events # <<>>
      /\ service' = h.service /\ agenda' = Steps(h)
      /\ Len(events) \in Nat /\ Len(events') = Len(events) - 1 /\ events' \in Seq(Events)
      /\ startedAt' = startedAt
  BY HandleEventFrame
<1>2. /\ Pending({"recognized"}, navigations)
      /\ Len(startedAt) = navigations
      /\ navigation # Null
  BY <1>1 DEF EventsInvariant, Pending, Failures, ROUTER_CANCEL, ROUTER_ERROR
<1>3. events' = <<>>
  BY <1>1, <1>2 DEF Pending
<1>4. /\ h = Handler(h.service, h.out, FALSE) /\ h.reset = FALSE
      /\ h.service \in Services
      /\ h.service.trigger = service.trigger
      /\ h.service.storeState = service.storeState
      /\ h.out = IF ~late /\ service.trigger # "STORE"
                 THEN <<Action(ROUTER_NAVIGATION, events[1].id, events[1].url, Null)>> ELSE <<>>
  BY <1>1, RecognizedFacts
<1>5. Action(ROUTER_NAVIGATION, events[1].id, events[1].url, Null) \in Own(startedAt')
  BY <1>1 DEF Action, Own, Payloads, RouterActions, Failures, ROUTER_CANCEL,
       ROUTER_ERROR, ROUTER_NAVIGATION, Events
<1>6. h.out \in Seq(Own(startedAt'))
  BY <1>4, <1>5, OneOwn, EmptySeq
<1>7. h.reset = FALSE
  BY <1>4 DEF Handler
<1>8. service.trigger = "STORE" => agenda' = <<>>
  BY <1>1, <1>4, <1>6, <1>7, OwnSteps
<1> HIDE DEF h
<1>9. EventsInvariant'
  BY <1>1, <1>2, <1>3, <1>4, <1>8 DEF EventsInvariant
<1>10. NavigationInvariant'
  BY <1>1, <1>3, <1>4 DEF NavigationInvariant
<1>11. QED
  BY <1>1, <1>2, <1>3, <1>4, <1>6, <1>7, <1>9, <1>10, HandledKeeps DEF h

(* NavigationEnd.                                                          *)
LEMMA HandleEnd ==
  ASSUME RouterInvariant, HandleEvent, events[1].kind = "end"
  PROVE  /\ RouterInvariant'
         /\ events' = <<>> /\ navigation = Null
<1> USE DEF RouterInvariant
<1> DEFINE h == Handle(service, events[1])
           shown == Action(ROUTER_NAVIGATION, events[1].id, service.recognized, Null)
           navigated == Action(ROUTER_NAVIGATED, events[1].id, url, Null)
<1>1. /\ UNCHANGED <<navigation, navigations>>
      /\ events[1] \in Events /\ service \in Services
      /\ agenda = <<>> /\ events \in Seq(Events) /\ events # <<>>
      /\ service' = h.service /\ agenda' = Steps(h)
      /\ Len(events) \in Nat /\ Len(events') = Len(events) - 1 /\ events' \in Seq(Events)
      /\ startedAt' = startedAt
  BY HandleEventFrame
<1>2. /\ Pending({"end"} \cup Failures, navigations)
      /\ Len(startedAt) = navigations
      /\ navigation = Null
  BY <1>1 DEF EventsInvariant, Pending, Failures, ROUTER_CANCEL, ROUTER_ERROR
<1>3. events' = <<>>
  BY <1>1, <1>2 DEF Pending
<1>4. /\ h = Handler(h.service, h.out, TRUE) /\ h.reset = TRUE
      /\ h.service \in Services
      /\ h.service.lastEvent = "end"
      /\ h.service.trigger = service.trigger
      /\ h.service.storeState = service.storeState
      /\ h.out = IF service.trigger = "STORE" THEN <<>>
                 ELSE IF late THEN <<shown>> \o <<navigated>> ELSE <<navigated>>
  BY <1>1, EndFacts
<1>5. shown \in Own(startedAt') /\ navigated \in Own(startedAt')
  BY <1>1 DEF Action, Own, Payloads, RouterActions, Failures, ROUTER_CANCEL,
       ROUTER_ERROR, ROUTER_NAVIGATION, ROUTER_NAVIGATED, Events, RouterTypeOK, Services
<1> HIDE DEF shown, navigated
<1>6. h.out \in Seq(Own(startedAt'))
  BY <1>4, <1>5, OneOwn, TwoFacts, EmptySeq
<1>7. h.reset = TRUE
  BY <1>4 DEF Handler
<1>8. agenda' # <<>>
  BY <1>1, <1>4, <1>6, <1>7, OwnSteps
<1> HIDE DEF h
<1>9. EventsInvariant'
  BY <1>1, <1>2, <1>3, <1>4, <1>8 DEF EventsInvariant
<1>10. NavigationInvariant'
  BY <1>1, <1>2, <1>3, <1>4 DEF NavigationInvariant
<1>11. QED
  BY <1>1, <1>2, <1>3, <1>4, <1>6, <1>7, <1>9, <1>10, HandledKeeps DEF h

(* NavigationCancel and NavigationError: the action carries the state that *)
(* was recorded when its own navigation started.                           *)
LEMMA HandleFailure ==
  ASSUME RouterInvariant, HandleEvent, events[1].kind \in Failures
  PROVE  /\ RouterInvariant'
         /\ IF Len(events) = 1 THEN events' = <<>> /\ navigation = Null
            ELSE Len(events') = 1 /\ events'[1].kind = "start" /\ navigation # Null
<1> USE DEF RouterInvariant
<1> DEFINE h == Handle(service, events[1])
           failure == Action(events[1].kind, events[1].id, service.routerState, service.storeState)
<1>1. /\ UNCHANGED <<navigation, navigations>>
      /\ events[1] \in Events /\ service \in Services
      /\ agenda = <<>> /\ events \in Seq(Events) /\ events # <<>>
      /\ service' = h.service /\ agenda' = Steps(h)
      /\ Len(events) \in Nat /\ Len(events') = Len(events) - 1 /\ events' \in Seq(Events)
      /\ \A i \in 1 .. Len(events') : events'[i] = events[i + 1]
      /\ startedAt' = startedAt
  BY HandleEventFrame DEF Failures, ROUTER_CANCEL, ROUTER_ERROR
<1>2. /\ Len(events) \in {1, 2}
      /\ Len(events) = 1 => /\ Len(startedAt) = navigations
                            /\ navigation = Null
                            /\ events[1].id = navigations
      /\ Len(events) = 2 => /\ events[1].id = navigations - 1
                            /\ events[2].kind = "start" /\ events[2].id = navigations
                            /\ Len(startedAt) = navigations - 1
                            /\ navigation # Null /\ navigations > 1
  BY <1>1 DEF EventsInvariant, Pending, Failures, ROUTER_CANCEL, ROUTER_ERROR
<1>3. /\ Len(events) = 1 => events' = <<>>
      /\ Len(events) = 2 => Len(events') = 1 /\ events'[1] = events[2]
  BY <1>1, <1>2
<1>4. /\ h = Handler(h.service, h.out, TRUE) /\ h.reset = TRUE
      /\ h.service \in Services
      /\ h.service.lastEvent = events[1].kind
      /\ h.service.trigger = service.trigger
      /\ h.service.storeState = service.storeState
      /\ h.out = <<failure>>
  BY <1>1, FailureFacts
<1>5. failure \in Own(startedAt')
  <2>1. /\ startedAt \in Seq(Nat) /\ DOMAIN startedAt = 1 .. Len(startedAt)
        /\ Len(startedAt) \in Nat /\ navigations \in Nat /\ navigations > 0
    BY <1>1, LenProperties DEF RouterTypeOK, NavigationInvariant
  <2>2. events[1].id = Len(startedAt) /\ Len(startedAt) \in DOMAIN startedAt
    BY <1>2, <2>1
  <2>3. service.storeState \in {Null, startedAt[events[1].id]}
    BY <2>2 DEF NavigationInvariant, Last
  <2>4. failure \in Payloads
    BY <1>1 DEF Action, Payloads, Events, Services, RouterActions, Failures
  <2>5. QED
    BY <1>1, <2>2, <2>3, <2>4 DEF Own, Action
<1> HIDE DEF failure
<1>6. h.out \in Seq(Own(startedAt'))
  BY <1>4, <1>5, OneOwn
<1>7. h.reset = TRUE
  BY <1>4 DEF Handler
<1>8. agenda' # <<>>
  BY <1>1, <1>4, <1>6, <1>7, OwnSteps
<1> HIDE DEF h
<1>9. EventsInvariant'
  <2>1. service'.lastEvent # "start"
    BY <1>1, <1>4 DEF Failures, ROUTER_CANCEL, ROUTER_ERROR
  <2>2. CASE Len(events) = 1
    BY <1>1, <1>2, <1>3, <1>8, <2>1, <2>2 DEF EventsInvariant
  <2>3. CASE Len(events) = 2
    BY <1>1, <1>2, <1>3, <1>8, <2>3 DEF EventsInvariant, Pending
  <2>4. QED
    BY <1>2, <2>2, <2>3
<1>10. NavigationInvariant'
  BY <1>1, <1>2, <1>4 DEF NavigationInvariant
<1>11. events' # <<>> => events'[1].kind = "start"
  BY <1>2, <1>3
<1>12. RouterInvariant'
  BY <1>1, <1>4, <1>6, <1>7, <1>9, <1>10, <1>11, HandledKeeps DEF h
<1>13. QED
  BY <1>1, <1>2, <1>3, <1>12

(* The listener of router events, whichever the event is.                  *)
LEMMA HandleEventStep ==
  ASSUME RouterInvariant, HandleEvent
  PROVE  RouterInvariant'
<1>1. events[1].kind \in {"start", "recognized", "end"} \cup Failures
  BY HandleEventFrame DEF Events, Kinds
<1>2. QED
  BY <1>1, HandleStart, HandleRecognized, HandleEnd, HandleFailure

(* What the next entry of the agenda does.                                 *)
LEMMA HandlerStepFacts ==
  ASSUME RouterInvariant, HandlerStep
  PROVE  /\ UNCHANGED <<log, url, navigation, navigations, state, reducers, events, startedAt,
                        phase, cur, alive, accepting, failing, observers, todo, selected, late>>
         /\ Idle /\ phase = "idle" /\ queue = <<>> /\ cur = Nobody
         /\ agenda \in Seq(Todo(startedAt)) /\ agenda # <<>> /\ agenda' = Tail(agenda)
         /\ Len(agenda) \in Nat /\ agenda' \in Seq(Todo(startedAt))
         /\ Len(agenda') = Len(agenda) - 1
         /\ \A i \in 1 .. Len(agenda') : agenda'[i] = agenda[i + 1]
         /\ agenda' # <<>> => Last(agenda') = Last(agenda)
         /\ agenda[1].do = "dispatch" => agenda' # <<>>
         /\ agenda[1] \in Todo(startedAt)
         /\ service \in Services
         /\ \/ /\ agenda[1].do = "dispatch"
               /\ agenda[1].action \in Own(startedAt)
               /\ service' = [service EXCEPT !.trigger = "ROUTER"]
               /\ queue' = IF alive THEN Append(<<>>, agenda[1].action) ELSE <<>>
            \/ /\ agenda[1].do # "dispatch"
               /\ \/ service' = [service EXCEPT !.trigger = "NONE"]
                  \/ service' = Reset(service)
               /\ queue' = <<>>
<1> USE DEF RouterInvariant
<1>1. /\ Idle /\ agenda # <<>> /\ agenda' = Tail(agenda)
      /\ UNCHANGED <<log, url, navigation, navigations, state, reducers, events, startedAt,
                     phase, cur, alive, accepting, failing, observers, todo, selected, late>>
  BY DEF HandlerStep, StoreUnchanged, config, subscriptions, status
<1>2. phase = "idle" /\ queue = <<>> /\ cur = Nobody
  BY <1>1, IdleFacts DEF FlushInvariant
<1>3. agenda \in Seq(Todo(startedAt)) /\ service \in Services
  BY DEF RouterTypeOK
<1>4. /\ Head(agenda) = agenda[1] /\ agenda[1] \in Todo(startedAt)
      /\ Tail(agenda) \in Seq(Todo(startedAt))
      /\ Len(agenda) \in Nat /\ Len(Tail(agenda)) = Len(agenda) - 1
      /\ \A i \in 1 .. Len(Tail(agenda)) : Tail(agenda)[i] = agenda[i + 1]
  <2>1. Head(agenda) = agenda[1]
    BY <1>1, <1>3
  <2>2. Head(agenda) \in Todo(startedAt)
    BY <1>1, <1>3, HeadTailProperties
  <2>3. QED
    BY <1>1, <1>3, <2>1, <2>2, HeadTailProperties, LenProperties
<1>5. agenda' # <<>> => Last(agenda') = Last(agenda)
  <2>1. ASSUME agenda' # <<>> PROVE Last(agenda') = Last(agenda)
    <3>1. Len(agenda') \in Nat /\ Len(agenda') # 0
      BY <1>1, <1>4, <2>1, LenProperties
    <3>2. agenda'[Len(agenda')] = agenda[Len(agenda)]
      BY <1>1, <1>4, <3>1
    <3>3. QED
      BY <3>2 DEF Last
  <2>2. QED
    BY <2>1
<1>6. agenda[1].do = "dispatch" => agenda' # <<>>
  <2>1. Last(agenda).do # "dispatch"
    BY <1>1 DEF AgendaInvariant
  <2>2. Len(agenda) = 1 => Last(agenda) = agenda[1]
    BY DEF Last
  <2>3. Len(agenda) = 1 => agenda[1].do # "dispatch"
    BY <2>1, <2>2
  <2>4. Len(agenda) # 0
    BY <1>1, <1>3
  <2>5. agenda' = <<>> => Len(agenda') = 0
    OBVIOUS
  <2>6. agenda' = <<>> => Len(agenda) = 1
    BY <1>1, <1>4, <2>4, <2>5
  <2>7. QED
    BY <2>3, <2>6
<1>7. agenda[1].do = "dispatch" => agenda[1].action \in Own(startedAt)
  BY <1>4 DEF Todo, Entries
<1>8. agenda[1].do \in {"dispatch", "release", "reset"}
  BY <1>4 DEF Todo, Entries
<1>9. CASE agenda[1].do = "dispatch"
  <2>1. service' = [service EXCEPT !.trigger = "ROUTER"] /\ Next_(agenda[1].action)
    BY <1>4, <1>9 DEF HandlerStep
  <2>2. queue' = IF alive THEN Append(<<>>, agenda[1].action) ELSE <<>>
    BY <1>2, <2>1 DEF Next_, FlushInvariant
  <2>3. QED
    BY <1>1, <1>2, <1>3, <1>4, <1>5, <1>6, <1>7, <1>9, <2>1, <2>2
<1>10. CASE agenda[1].do = "release"
  <2>1. service' = [service EXCEPT !.trigger = "NONE"] /\ queue' = queue
    BY <1>4, <1>10 DEF HandlerStep
  <2>2. QED
    BY <1>1, <1>2, <1>3, <1>4, <1>5, <1>6, <1>7, <1>10, <2>1
<1>11. CASE agenda[1].do = "reset"
  <2>1. service' = Reset(service) /\ queue' = queue
    BY <1>4, <1>11 DEF HandlerStep
  <2>2. QED
    BY <1>1, <1>2, <1>3, <1>4, <1>5, <1>6, <1>7, <1>11, <2>1
<1>12. QED
  BY <1>8, <1>9, <1>10, <1>11

(* The handler dispatches its next action, goes on after it, or resets.    *)
LEMMA HandlerStepKeeps ==
  ASSUME RouterInvariant, HandlerStep
  PROVE  RouterInvariant'
<1> USE DEF RouterInvariant
<1>1. /\ UNCHANGED <<log, url, navigation, navigations, state, reducers, events, startedAt,
                     phase, cur, alive, accepting, failing>>
      /\ Idle /\ phase = "idle" /\ queue = <<>> /\ cur = Nobody
      /\ agenda # <<>> /\ agenda' \in Seq(Todo(startedAt))
      /\ agenda' # <<>> => Last(agenda') = Last(agenda)
      /\ agenda[1].do = "dispatch" => agenda' # <<>>
      /\ service \in Services
      /\ \/ /\ agenda[1].do = "dispatch"
            /\ agenda[1].action \in Own(startedAt)
            /\ service' = [service EXCEPT !.trigger = "ROUTER"]
            /\ queue' = IF alive THEN Append(<<>>, agenda[1].action) ELSE <<>>
         \/ /\ agenda[1].do # "dispatch"
            /\ \/ service' = [service EXCEPT !.trigger = "NONE"]
               \/ service' = Reset(service)
            /\ queue' = <<>>
  BY HandlerStepFacts
<1>2. /\ service' \in Services
      /\ service'.lastEvent = service.lastEvent
      /\ service'.storeState \in {service.storeState, Null}
      /\ service'.trigger = IF agenda[1].do = "dispatch" THEN "ROUTER" ELSE "NONE"
  BY <1>1 DEF Services, Reset
<1>3. queue' \in Seq(Own(startedAt) \cup {INIT_TYPE})
  <2>1. CASE queue' = <<>>
    BY <2>1, EmptySeq
  <2>2. CASE agenda[1].action \in Own(startedAt) /\ queue' = Append(<<>>, agenda[1].action)
    <3>1. agenda[1].action \in Own(startedAt) \cup {INIT_TYPE}
      BY <2>2
    <3>2. QED
      BY <2>2, <3>1, OneFacts
  <2>3. QED
    BY <1>1, <2>1, <2>2
<1>4. RouterTypeOK'
  BY <1>1, <1>2, <1>3 DEF RouterTypeOK, RouterSlice, Slice
<1>5. FlushInvariant'
  BY <1>1 DEF FlushInvariant
<1>6. Last(agenda).do # "dispatch" /\ (events # <<>> => events[1].kind = "start")
  BY <1>1 DEF AgendaInvariant
<1>7. AgendaInvariant'
  <2>1. CASE agenda[1].do = "dispatch"
    BY <1>1, <1>2, <1>6, <2>1 DEF AgendaInvariant
  <2>2. CASE agenda[1].do # "dispatch"
    <3>1. Idle'
      BY <1>1, <1>5, <2>2, IdleFactsNext
    <3>2. QED
      BY <1>1, <1>2, <1>6, <2>2, <3>1 DEF AgendaInvariant
  <2>3. QED
    BY <2>1, <2>2
<1>8. EventsInvariant'
  BY <1>1, <1>2 DEF EventsInvariant, Pending
<1>9. NavigationInvariant'
  BY <1>1, <1>2 DEF NavigationInvariant
<1>10. QED
  BY <1>4, <1>5, <1>7, <1>8, <1>9

(* What a navigation of the effect leaves.                                 *)
LEMMA EffectNavigatesFacts ==
  ASSUME RouterInvariant, NEW target \in Urls, EffectNavigates(target)
  PROVE  /\ UNCHANGED <<log, url, events, state, reducers, phase, cur, alive, accepting,
                        failing, observers, todo, selected, late, agenda>>
         /\ cur = Effect /\ phase # "idle" /\ ~Idle /\ agenda # <<>> /\ events = <<>>
         /\ service \in Services /\ service.trigger # "STORE"
         /\ Len(startedAt) = navigations
         /\ navigation' \in Navigations /\ navigation' # Null
         /\ navigation'.id = navigations' /\ navigation'.url = target
         /\ navigation'.stage = "started"
         /\ navigations' \in Nat /\ navigations' = navigations + 1
         /\ startedAt' = Append(startedAt, Version) /\ Version \in Nat
         /\ service' \in Services /\ service'.lastEvent = "start"
         /\ service'.trigger = "NONE"
         /\ service'.storeState = Version /\ service'.routerState = url
         /\ \E a, c \in Own(startedAt) :
              /\ a.type = ROUTER_REQUEST /\ a.id = navigations + 1
              /\ IF navigation = Null THEN queue' = queue \o <<a>>
                 ELSE /\ queue' = (queue \o <<c>>) \o <<a>>
                      /\ c.type = ROUTER_CANCEL /\ c.id = navigations
         /\ \E added \in Seq(Own(startedAt)) :
              /\ queue' = queue \o added
              /\ \A i \in DOMAIN added :
                   \/ added[i].type = ROUTER_REQUEST
                   \/ added[i].type = ROUTER_CANCEL /\ added[i].url = service.routerState /\ navigation # Null
              /\ navigation # Null => added # <<>> /\ added[1].type = ROUTER_CANCEL
<1> USE DEF RouterInvariant
<1> DEFINE emitted == Emitted(target)
           first == Handle(service, Head(emitted))
           second == Handle(Finish(first), Last(emitted))
           request == Action(ROUTER_REQUEST, navigations + 1, url, Null)
           cancel == Action(ROUTER_CANCEL, navigations, service.routerState, service.storeState)
<1>1. /\ UNCHANGED <<log, url, events, state, reducers, phase, cur, alive, accepting,
                     failing, observers, todo, selected, late, agenda>>
      /\ cur = Effect /\ events = <<>>
      /\ Last(log) # INIT_TYPE /\ Last(log).type \in ReactsTo
      /\ NavigateByUrl(target)
      /\ startedAt' = Append(startedAt, Version)
      /\ IF Len(emitted) = 1
         THEN /\ service' = Finish(first)
              /\ queue' = queue \o first.out
         ELSE /\ service' = Finish(second)
              /\ queue' = (queue \o first.out) \o second.out
  BY DEF EffectNavigates, NavigateInFlush, StoreUnchanged, config, subscriptions, status
<1>2. cur # Nobody /\ cur # Service /\ phase # "idle" /\ ~Idle
  BY <1>1, StoreAssumption, RouterAssumption DEF FlushInvariant, Idle
<1>3. agenda # <<>>
  <2>1. ~Quiet(Last(log))
    BY <1>1, RouterAssumption DEF Quiet, RouterActions, ROUTER_REQUEST, ROUTER_NAVIGATION,
         ROUTER_NAVIGATED, ROUTER_CANCEL, ROUTER_ERROR
  <2>2. QED
    BY <1>2, <2>1 DEF AgendaInvariant
<1>4. service \in Services /\ service.trigger # "STORE"
  BY <1>2, <1>3 DEF AgendaInvariant, RouterTypeOK
<1>5. Len(startedAt) = navigations
  BY <1>1 DEF EventsInvariant, Pending
<1>6. /\ navigation' \in Navigations /\ navigation' # Null
      /\ navigation'.id = navigations' /\ navigation'.url = target
      /\ navigation'.stage = "started"
      /\ navigations' \in Nat /\ navigations' = navigations + 1
      /\ navigations \in Nat
  BY <1>1, NavigationFacts DEF RouterTypeOK
<1>7. Version \in Nat /\ LatestStore = Version
  BY <1>2, LenProperties DEF Version, LatestStore, RouterTypeOK
<1>8. /\ emitted \in Seq(Events) /\ Head(emitted) = emitted[1]
      /\ Last(emitted) = emitted[Len(emitted)]
      /\ navigation = Null =>
           /\ Len(emitted) = 1
           /\ emitted[1] = [kind |-> "start", id |-> navigations + 1, url |-> target]
      /\ navigation # Null =>
           /\ Len(emitted) = 2
           /\ emitted[1] = [kind |-> ROUTER_CANCEL, id |-> navigation.id, url |-> navigation.url]
           /\ emitted[2] = [kind |-> "start", id |-> navigations + 1, url |-> target]
  BY EmittedFacts DEF RouterTypeOK
<1>9. /\ queue \in Seq(Own(startedAt) \cup {INIT_TYPE}) /\ url \in Urls
      /\ navigation \in Navigations \cup {Null}
  BY DEF RouterTypeOK
<1>10. /\ request \in Own(startedAt) /\ request.type = ROUTER_REQUEST
       /\ request.id = navigations + 1
  BY <1>6, <1>9 DEF Action, Own, Payloads, RouterActions, Failures, ROUTER_CANCEL,
       ROUTER_ERROR, ROUTER_REQUEST
<1> DEFINE start == [kind |-> "start", id |-> navigations + 1, url |-> target]
<1>11. start \in Events /\ start.kind = "start" /\ start.id = navigations + 1
  BY <1>6 DEF Events, Kinds
<1> HIDE DEF emitted, request, start
<1>12. CASE navigation = Null
  <2>1. first = Handle(service, start) /\ Len(emitted) = 1
    BY <1>8, <1>12 DEF start
  <2> HIDE DEF first
  <2>2. /\ first.reset = FALSE
        /\ first.service \in Services
        /\ first.service.lastEvent = "start"
        /\ first.service.routerState = url
        /\ first.service.storeState = Version
        /\ first.out = <<request>>
    <3> DEFINE h == Handle(service, start)
    <3>1. /\ h.reset = FALSE
          /\ h.service \in Services
          /\ h.service.lastEvent = "start"
          /\ h.service.routerState = url
          /\ h.service.storeState = Version
          /\ h.out = <<Action(ROUTER_REQUEST, start.id, url, Null)>>
      BY <1>4, <1>7, <1>9, <1>11, StartFacts
    <3>2. QED
      BY <1>11, <2>1, <3>1 DEF request
  <2>3. /\ <<request>> \in Seq(Own(startedAt)) /\ <<request>> # <<>>
        /\ DOMAIN <<request>> = {1} /\ <<request>>[1] = request
    BY <1>10
  <2>4. /\ service' \in Services /\ service'.lastEvent = "start"
        /\ service'.trigger = "NONE"
        /\ service'.storeState = Version /\ service'.routerState = url
    BY <1>1, <2>1, <2>2, <2>3, FinishFacts
  <2>5. queue' = queue \o <<request>>
    BY <1>1, <2>1, <2>2
  <2>6. \E added \in Seq(Own(startedAt)) :
              /\ queue' = queue \o added
              /\ \A i \in DOMAIN added : added[i].type = ROUTER_REQUEST
    BY <1>10, <2>3, <2>5
  <2>7. \E a, c \in Own(startedAt) :
          /\ a.type = ROUTER_REQUEST /\ a.id = navigations + 1
          /\ IF navigation = Null THEN queue' = queue \o <<a>>
             ELSE /\ queue' = (queue \o <<c>>) \o <<a>>
                  /\ c.type = ROUTER_CANCEL /\ c.id = navigations
    BY <1>10, <1>12, <2>5
  <2>8. QED
    BY <1>1, <1>2, <1>3, <1>4, <1>5, <1>6, <1>7, <1>12, <2>4, <2>6, <2>7
<1>13. CASE navigation # Null
  <2> DEFINE canceled == [kind |-> ROUTER_CANCEL, id |-> navigation.id, url |-> navigation.url]
  <2>1. navigation.id = navigations /\ navigations > 0 /\ navigation \in Navigations
    BY <1>9, <1>13 DEF NavigationInvariant
  <2>2. /\ canceled \in Events /\ canceled.kind \in Failures
        /\ canceled.kind = ROUTER_CANCEL /\ canceled.id = navigations
    BY <2>1 DEF Navigations, Events, Kinds, Failures
  <2>3. /\ first = Handle(service, canceled) /\ second = Handle(Finish(first), start)
        /\ Len(emitted) = 2
    BY <1>8, <1>13 DEF start
  <2> HIDE DEF first, second, canceled
  <2>4. /\ first.reset = TRUE
        /\ first.service \in Services
        /\ first.out = <<cancel>>
    <3> DEFINE h == Handle(service, canceled)
    <3>1. /\ h.reset = TRUE
          /\ h.service \in Services
          /\ h.out = <<Action(canceled.kind, canceled.id, service.routerState, service.storeState)>>
      BY <1>4, <2>2, FailureFacts
    <3>2. QED
      BY <2>2, <2>3, <3>1
  <2> DEFINE f == Finish(first)
  <2>5. f \in Services /\ f.trigger = "NONE"
    BY <2>4, FinishFacts
  <2> HIDE DEF f
  <2>6. second = Handle(f, start)
    BY <2>3 DEF f
  <2>7. /\ second.reset = FALSE
        /\ second.service \in Services
        /\ second.service.lastEvent = "start"
        /\ second.service.routerState = url
        /\ second.service.storeState = Version
        /\ second.out = <<request>>
    <3> DEFINE h == Handle(f, start)
    <3>1. /\ h.reset = FALSE
          /\ h.service \in Services
          /\ h.service.lastEvent = "start"
          /\ h.service.routerState = url
          /\ h.service.storeState = Version
          /\ h.out = <<Action(ROUTER_REQUEST, start.id, url, Null)>>
      BY <1>7, <1>9, <1>11, <2>5, StartFacts
    <3>2. QED
      BY <1>11, <2>6, <3>1 DEF request
  <2>8. <<request>> # <<>>
    OBVIOUS
  <2>9. /\ service' \in Services /\ service'.lastEvent = "start"
        /\ service'.trigger = "NONE"
        /\ service'.storeState = Version /\ service'.routerState = url
    <3>1. service' = Finish(second) /\ second.out # <<>>
      BY <1>1, <2>3, <2>7, <2>8
    <3>2. QED
      BY <2>7, <3>1, FinishFacts
  <2>10. /\ cancel \in Own(startedAt) /\ cancel.type = ROUTER_CANCEL
         /\ cancel.id = navigations /\ cancel.url = service.routerState
    <3>1. /\ startedAt \in Seq(Nat) /\ DOMAIN startedAt = 1 .. Len(startedAt)
      BY LenProperties DEF RouterTypeOK
    <3>2. navigations \in DOMAIN startedAt
      BY <1>5, <1>6, <2>1, <3>1
    <3>3. service.storeState \in {Null, startedAt[navigations]}
      BY <1>5 DEF NavigationInvariant, Last
    <3>4. cancel \in Payloads
      BY <1>4, <1>6 DEF Action, Payloads, Services, RouterActions
    <3>5. QED
      BY <3>2, <3>3, <3>4 DEF Own, Action
  <2>11. queue' = (queue \o <<cancel>>) \o <<request>>
    BY <1>1, <2>3, <2>4, <2>7
  <2> HIDE DEF cancel
  <2>12. /\ <<cancel>> \o <<request>> \in Seq(Own(startedAt))
         /\ Len(<<cancel>> \o <<request>>) = 2
         /\ (<<cancel>> \o <<request>>)[1] = cancel
         /\ (<<cancel>> \o <<request>>)[2] = request
    BY <1>10, <2>10, TwoFacts
  <2>13. queue' = queue \o (<<cancel>> \o <<request>>)
    <3>1. /\ <<cancel>> \in Seq(Own(startedAt) \cup {INIT_TYPE})
          /\ <<request>> \in Seq(Own(startedAt) \cup {INIT_TYPE})
      BY <1>10, <2>10
    <3>2. QED
      BY <1>9, <2>11, <3>1, ConcatAssociative
  <2> DEFINE added == <<cancel>> \o <<request>>
  <2>14. added \in Seq(Own(startedAt)) /\ queue' = queue \o added /\ Len(added) = 2
         /\ added[1] = cancel /\ added[2] = request
    BY <2>12, <2>13
  <2> HIDE DEF added
  <2>15. /\ \A i \in DOMAIN added :
                   \/ added[i].type = ROUTER_REQUEST
                   \/ added[i].type = ROUTER_CANCEL /\ added[i].url = service.routerState
         /\ added # <<>> /\ added[1].type = ROUTER_CANCEL
    <3>1. DOMAIN added = 1 .. 2
      BY <2>14, LenProperties
    <3>2. \A i \in DOMAIN added : i = 1 \/ i = 2
      BY <3>1
    <3>3. added # <<>>
      BY <3>1
    <3>4. QED
      BY <1>10, <2>10, <2>14, <3>2, <3>3
  <2>16. \E a, c \in Own(startedAt) :
          /\ a.type = ROUTER_REQUEST /\ a.id = navigations + 1
          /\ IF navigation = Null THEN queue' = queue \o <<a>>
             ELSE /\ queue' = (queue \o <<c>>) \o <<a>>
                  /\ c.type = ROUTER_CANCEL /\ c.id = navigations
    BY <1>10, <1>13, <2>10, <2>11
  <2>17. QED
    BY <1>1, <1>2, <1>3, <1>4, <1>5, <1>6, <1>7, <1>13, <2>9, <2>14, <2>15, <2>16
<1>14. QED
  BY <1>12, <1>13

(* The application's effect navigates inside the flush: the events'        *)
(* handlers run inside the callback.                                       *)
LEMMA EffectNavigatesStep ==
  ASSUME RouterInvariant, NEW target \in Urls, EffectNavigates(target)
  PROVE  RouterInvariant'
<1> USE DEF RouterInvariant
<1>1. /\ UNCHANGED <<log, url, events, state, reducers, phase, cur, alive, accepting,
                     failing, agenda>>
      /\ phase # "idle" /\ agenda # <<>> /\ events = <<>>
      /\ Len(startedAt) = navigations
      /\ navigation' \in Navigations /\ navigation' # Null
      /\ navigation'.id = navigations'
      /\ navigations' \in Nat /\ navigations' = navigations + 1
      /\ startedAt' = Append(startedAt, Version) /\ Version \in Nat
      /\ service' \in Services /\ service'.lastEvent = "start" /\ service'.trigger = "NONE"
      /\ service'.storeState = Version
  BY EffectNavigatesFacts
<1>2. PICK added \in Seq(Own(startedAt)) : queue' = queue \o added
  BY EffectNavigatesFacts
<1>3. startedAt \in Seq(Nat) /\ navigations \in Nat /\ agenda \in Seq(Todo(startedAt))
  BY DEF RouterTypeOK
<1>4. /\ startedAt' \in Seq(Nat) /\ Len(startedAt') = Len(startedAt) + 1
      /\ startedAt' # <<>> /\ Last(startedAt') = Version
      /\ Own(startedAt) \subseteq Own(startedAt')
      /\ \A q \in Seq(Own(startedAt) \cup {INIT_TYPE}) : q \in Seq(Own(startedAt') \cup {INIT_TYPE})
      /\ \A q \in Seq(Todo(startedAt)) : q \in Seq(Todo(startedAt'))
  BY <1>1, <1>3, OwnGrows
<1>5. queue' \in Seq(Own(startedAt) \cup {INIT_TYPE})
  <2>1. added \in Seq(Own(startedAt) \cup {INIT_TYPE})
    BY SeqMonotonic
  <2>2. QED
    BY <1>2, <2>1, ConcatProperties DEF RouterTypeOK
<1>6. RouterTypeOK'
  BY <1>1, <1>3, <1>4, <1>5 DEF RouterTypeOK, RouterSlice, Slice
<1>7. FlushInvariant'
  BY <1>1 DEF FlushInvariant
<1>8. AgendaInvariant'
  BY <1>1 DEF AgendaInvariant
<1>9. EventsInvariant'
  BY <1>1, <1>3, <1>4 DEF EventsInvariant
<1>10. NavigationInvariant'
  BY <1>1, <1>3, <1>4 DEF NavigationInvariant
<1>11. QED
  BY <1>6, <1>7, <1>8, <1>9, <1>10

(* The listener finds the router where the slice says, or asks for a       *)
(* navigation; then none is under way.                                     *)
LEMMA StateListenerFacts ==
  ASSUME RouterInvariant, StateListener
  PROVE  /\ UNCHANGED <<queue, log, url, events, state, reducers, phase, cur, alive, accepting,
                        failing, observers, todo, late, agenda>>
         /\ cur = Service /\ phase # "idle" /\ ~Idle
         /\ selected # RouterSlice /\ selected' = RouterSlice
         /\ \/ ~Needed /\ UNCHANGED <<navigation, navigations, startedAt, service>>
            \/ /\ Needed
               /\ agenda = <<>> /\ events = <<>> /\ navigation = Null /\ queue = <<>>
               /\ Len(startedAt) = navigations
               /\ RouterSlice # <<>>
               /\ navigation' \in Navigations /\ navigation' # Null
               /\ navigation'.id = navigations' /\ navigation'.url = UrlOf(RouterSlice)
               /\ navigation'.stage = "started"
               /\ navigations' \in Nat /\ navigations' = navigations + 1
               /\ startedAt' = Append(startedAt, Version) /\ Version \in Nat
               /\ service' \in Services /\ service'.lastEvent = "start"
               /\ service'.trigger = "STORE"
               /\ service'.storeState = Version /\ service'.routerState = url
<1> USE DEF RouterInvariant
<1>1. /\ UNCHANGED <<log, url, events, state, reducers, phase, cur, alive, accepting,
                     failing, observers, todo, late, agenda>>
      /\ cur = Service /\ selected # RouterSlice /\ selected' = RouterSlice
      /\ IF Needed
         THEN NavigateInFlush([service EXCEPT !.storeState = Version, !.trigger = "STORE"],
                              UrlOf(RouterSlice))
         ELSE UNCHANGED <<queue, navigation, navigations, startedAt, service>>
  BY DEF StateListener, StoreUnchanged, config, subscriptions, status
<1>2. cur # Nobody /\ phase # "idle" /\ ~Idle
  BY <1>1, StoreAssumption, RouterAssumption DEF FlushInvariant, Idle
<1>3. CASE ~Needed
  BY <1>1, <1>2, <1>3
<1>4. CASE Needed
  <2> DEFINE target == UrlOf(RouterSlice)
             s == [service EXCEPT !.storeState = Version, !.trigger = "STORE"]
             emitted == Emitted(target)
             start == [kind |-> "start", id |-> navigations + 1, url |-> target]
             first == Handle(s, Head(emitted))
  <2>1. /\ UrlOf(RouterSlice) # Null /\ service.trigger # "ROUTER"
        /\ service.lastEvent # "start"
    BY <1>4 DEF Needed
  <2>2. agenda = <<>>
    BY <1>2, <2>1 DEF AgendaInvariant
  <2>3. events = <<>> /\ navigation = Null /\ queue = <<>>
    BY <1>2, <2>1, <2>2 DEF AgendaInvariant
  <2>4. Len(startedAt) = navigations
    BY <2>3 DEF EventsInvariant, Pending
  <2>5. RouterSlice # <<>> /\ log[Last(RouterSlice)] \in Own(startedAt)
    BY <2>1 DEF UrlOf, RouterTypeOK
  <2>6. target \in Urls
    BY <2>1, <2>5 DEF UrlOf, Own, Payloads
  <2>7. Version \in Nat /\ service \in Services /\ url \in Urls
    BY LenProperties DEF Version, RouterTypeOK
  <2>8. s \in Services /\ s.trigger = "STORE" /\ s.storeState = Version
    BY <2>7 DEF Services
  <2>9. /\ NavigateByUrl(target)
        /\ startedAt' = Append(startedAt, Version)
        /\ Len(emitted) = 1 => service' = Finish(first) /\ queue' = queue \o first.out
    BY <1>1, <1>4 DEF NavigateInFlush
  <2>10. /\ navigation' \in Navigations /\ navigation' # Null
         /\ navigation'.id = navigations' /\ navigation'.url = target
         /\ navigation'.stage = "started"
         /\ navigations' \in Nat /\ navigations' = navigations + 1
         /\ navigations \in Nat
    BY <2>6, <2>9, NavigationFacts DEF RouterTypeOK
  <2>11. Len(emitted) = 1 /\ Head(emitted) = start
    BY <2>3, <2>6, <2>10, EmittedFacts DEF RouterTypeOK
  <2>12. start \in Events /\ start.kind = "start"
    BY <2>6, <2>10 DEF Events, Kinds
  <2> HIDE DEF emitted, start, s, target
  <2>13. /\ first.reset = FALSE
         /\ first.service \in Services
         /\ first.service.lastEvent = "start"
         /\ first.service.trigger = "STORE"
         /\ first.service.routerState = url
         /\ first.service.storeState = Version
         /\ first.out = <<>>
    BY <2>7, <2>8, <2>11, <2>12, StartFacts
  <2> HIDE DEF first
  <2>14. /\ service' \in Services /\ service'.lastEvent = "start"
         /\ service'.trigger = "STORE"
         /\ service'.storeState = Version /\ service'.routerState = url
    <3>1. service' = Finish(first)
      BY <2>9, <2>11
    <3>2. QED
      BY <2>13, <3>1, FinishFacts
  <2>15. queue' = queue
    <3>1. queue' = queue \o <<>>
      BY <2>9, <2>11, <2>13
    <3>2. QED
      BY <3>1, ConcatEmptySeq DEF RouterTypeOK
  <2>16. QED
    BY <1>1, <1>2, <1>4, <2>2, <2>3, <2>4, <2>5, <2>7, <2>9, <2>10, <2>14, <2>15 DEF target
<1>5. QED
  BY <1>3, <1>4

(* The listener of the state finds the router in place, or navigates.      *)
LEMMA StateListenerStep ==
  ASSUME RouterInvariant, StateListener
  PROVE  RouterInvariant'
<1> USE DEF RouterInvariant
<1>1. UNCHANGED <<queue, log, url, events, state, reducers, phase, cur, alive, accepting,
                  failing, agenda>>
  BY StateListenerFacts
<1>2. CASE UNCHANGED <<navigation, navigations, startedAt, service>>
  BY <1>1, <1>2, ControlFrame DEF controlVars
<1>3. CASE /\ agenda = <<>> /\ events = <<>> /\ navigation = Null /\ queue = <<>>
           /\ Len(startedAt) = navigations
           /\ navigation' \in Navigations /\ navigation' # Null
           /\ navigation'.id = navigations'
           /\ navigations' \in Nat /\ navigations' = navigations + 1
           /\ startedAt' = Append(startedAt, Version) /\ Version \in Nat
           /\ service' \in Services /\ service'.lastEvent = "start"
           /\ service'.trigger = "STORE"
           /\ service'.storeState = Version
  <2>1. startedAt \in Seq(Nat) /\ navigations \in Nat
    BY DEF RouterTypeOK
  <2>2. /\ startedAt' \in Seq(Nat) /\ Len(startedAt') = Len(startedAt) + 1
        /\ startedAt' # <<>> /\ Last(startedAt') = Version
        /\ Own(startedAt) \subseteq Own(startedAt')
        /\ \A q \in Seq(Own(startedAt) \cup {INIT_TYPE}) : q \in Seq(Own(startedAt') \cup {INIT_TYPE})
        /\ \A q \in Seq(Todo(startedAt)) : q \in Seq(Todo(startedAt'))
    BY <1>3, <2>1, OwnGrows
  <2>3. RouterTypeOK'
    BY <1>1, <1>3, <2>1, <2>2 DEF RouterTypeOK, RouterSlice, Slice
  <2>4. FlushInvariant'
    BY <1>1 DEF FlushInvariant
  <2>5. AgendaInvariant'
    BY <1>1, <1>3 DEF AgendaInvariant
  <2>6. EventsInvariant'
    BY <1>1, <1>3, <2>1, <2>2 DEF EventsInvariant
  <2>7. NavigationInvariant'
    BY <1>3, <2>1, <2>2 DEF NavigationInvariant
  <2>8. QED
    BY <2>3, <2>4, <2>5, <2>6, <2>7
<1>4. QED
  BY <1>2, <1>3, StateListenerFacts

(* The reducer of the router's slice is among those combined.              *)
LEMMA SliceAfter ==
  ASSUME reducers = RootFeatures, NEW action, state' = Combination(state, action)
  PROVE  RouterSlice' = Reduce(RouterKey, RouterSlice, action)
<1>1. RouterKey \in reducers
  BY RouterAssumption
<1>2. CASE HasChanged(state, action)
  <2>1. state' = [k \in reducers |-> Reduce(k, Slice(state, k), action)]
    BY <1>2 DEF Combination
  <2>2. QED
    BY <1>1, <2>1 DEF RouterSlice, Slice
<1>3. CASE ~HasChanged(state, action)
  <2>1. /\ RouterKey \in DOMAIN state
        /\ Reduce(RouterKey, state[RouterKey], action) = state[RouterKey]
    BY <1>1, <1>3 DEF HasChanged
  <2>2. state' = state
    BY <1>3 DEF Combination
  <2>3. QED
    BY <2>1, <2>2 DEF RouterSlice, Slice
<1>4. QED
  BY <1>2, <1>3

(* A step of the flush takes up the next action, ends because a reducer    *)
(* throws, or goes on calling subscribers.                                 *)
LEMMA FlushFacts ==
  ASSUME FlushInvariant, Flush
  PROVE  /\ UNCHANGED <<reducers, accepting, observers>>
         /\ \/ /\ phase = "idle" /\ phase' = "state" /\ queue # <<>> /\ alive
               /\ queue' = Tail(queue) /\ log' = Append(log, Head(queue))
               /\ RouterSlice' = Reduce(RouterKey, RouterSlice, Head(queue))
               /\ todo' = observers
               /\ UNCHANGED <<cur, alive, failing>>
            \/ /\ phase = "idle" /\ queue # <<>> /\ Head(queue) \in Throwing
               /\ queue' = <<>> /\ ~alive' /\ ~failing'
               /\ UNCHANGED <<phase, cur, log, state, todo>>
            \/ /\ UNCHANGED <<queue, log, state, alive, failing>>
               /\ \/ /\ phase \in {"state", "scanned"} /\ phase' = phase /\ cur = Nobody
                     /\ todo # <<>> /\ cur' = Head(todo) /\ todo' = Tail(todo)
                     /\ IF phase = "state" THEN Contains(observers, Head(todo)) ELSE Contains(listeners, Head(todo))
                  \/ /\ todo # <<>> /\ todo' = Tail(todo) /\ UNCHANGED <<phase, cur>>
                     /\ ~Contains(observers, Head(todo))
                  \/ /\ cur # Nobody /\ cur' = Nobody /\ UNCHANGED <<phase, todo>>
                  \/ /\ phase \in {"state", "scanned"} /\ CalledAll /\ cur' = Nobody
                     /\ IF phase = "state" THEN phase' = "scanned" ELSE phase' = "idle"
<1>1. CASE Scan
  <2>1. phase = "idle" /\ queue # <<>> /\ alive
    BY <1>1 DEF Scan, Runnable, FlushInvariant
  <2>2. RouterSlice' = Reduce(RouterKey, RouterSlice, Head(queue))
    BY <1>1, SliceAfter DEF Scan, FlushInvariant
  <2>3. QED
    BY <1>1, <2>1, <2>2 DEF Scan, config, subscriptions, status
<1>2. CASE ReducerThrows
  BY <1>2 DEF ReducerThrows, Runnable, config, subscriptions
<1>3. CASE ErrorNotification
  BY <1>3 DEF ErrorNotification, FlushInvariant
<1>4. CASE NotifyObserver
  BY <1>4 DEF NotifyObserver, config, status
<1>5. CASE NotifyListener
  BY <1>5 DEF NotifyListener, config, status
<1>6. CASE SkipClosed
  BY <1>6 DEF SkipClosed, config, status, subscriptions
<1>7. CASE CallbackReturns
  BY <1>7 DEF CallbackReturns, config, status, subscriptions
<1>8. CASE EmitScanned
  BY <1>8 DEF EmitScanned, CalledAll, config, status, subscriptions
<1>9. CASE Flushed
  BY <1>9 DEF Flushed, CalledAll, config, status, subscriptions
<1>10. QED
  BY <1>1, <1>2, <1>3, <1>4, <1>5, <1>6, <1>7, <1>8, <1>9 DEF Flush

(* An action reduced leaves the slice with its types.                      *)
LEMMA ReducedType ==
  ASSUME RouterTypeOK, NEW a \in Own(startedAt) \cup {INIT_TYPE},
         log' = Append(log, a), RouterSlice' = Reduce(RouterKey, RouterSlice, a)
  PROVE  /\ log' \in Seq(Own(startedAt) \cup {INIT_TYPE})
         /\ Len(log') = Len(log) + 1 /\ log'[Len(log')] = a
         /\ \A i \in DOMAIN log : i \in DOMAIN log' /\ log'[i] = log[i]
         /\ DOMAIN log = 1 .. Len(log) /\ DOMAIN log' = 1 .. Len(log') /\ Len(log) \in Nat
         /\ RouterSlice' \in Seq(Nat)
         /\ RouterSlice' # <<>> =>
              /\ Last(RouterSlice') \in DOMAIN log'
              /\ log'[Last(RouterSlice')] \in Own(startedAt)
         /\ IF a \in Handles[RouterKey]
            THEN /\ RouterSlice' = Append(RouterSlice, Version + 1) /\ RouterSlice' # <<>>
                 /\ Last(RouterSlice') = Version + 1 /\ UrlOf(RouterSlice)' = a.url
            ELSE RouterSlice' = RouterSlice /\ UrlOf(RouterSlice)' = UrlOf(RouterSlice)
<1>1. /\ log \in Seq(Own(startedAt) \cup {INIT_TYPE}) /\ RouterSlice \in Seq(Nat)
      /\ RouterSlice # <<>> =>
           /\ Last(RouterSlice) \in DOMAIN log
           /\ log[Last(RouterSlice)] \in Own(startedAt)
  BY DEF RouterTypeOK
<1>2. /\ log' \in Seq(Own(startedAt) \cup {INIT_TYPE}) /\ Len(log) \in Nat
      /\ Len(log') = Len(log) + 1 /\ log'[Len(log) + 1] = a
      /\ \A i \in 1 .. Len(log) : log'[i] = log[i]
      /\ DOMAIN log = 1 .. Len(log) /\ DOMAIN log' = 1 .. Len(log')
  BY <1>1, AppendProperties, LenProperties
<1>3. CASE a \in Handles[RouterKey]
  <2>1. RouterSlice' = Append(RouterSlice, Len(log) + 1)
    BY <1>3 DEF Reduce, Version
  <2>2. /\ RouterSlice' \in Seq(Nat) /\ RouterSlice' # <<>>
        /\ Last(RouterSlice') = Len(log) + 1
    BY <1>1, <1>2, <2>1, AppendProperties, LenProperties DEF Last
  <2>3. a # INIT_TYPE /\ a \in Own(startedAt)
    BY <1>3, RouterAssumption
  <2>4. UrlOf(RouterSlice)' = a.url
    BY <1>2, <2>2 DEF UrlOf
  <2>5. QED
    BY <1>2, <1>3, <2>1, <2>2, <2>3, <2>4 DEF Version
<1>4. CASE a \notin Handles[RouterKey]
  <2>1. RouterSlice' = RouterSlice
    BY <1>4 DEF Reduce
  <2>2. UrlOf(RouterSlice)' = UrlOf(RouterSlice)
    BY <1>1, <1>2, <2>1 DEF UrlOf
  <2>3. QED
    BY <1>1, <1>2, <1>4, <2>1, <2>2
<1>5. QED
  BY <1>3, <1>4

(* The flush of the store goes on.                                         *)
LEMMA RouterFlushStep ==
  ASSUME RouterInvariant, RouterFlush
  PROVE  RouterInvariant'
<1> USE DEF RouterInvariant
<1>1. Flush /\ UNCHANGED routerVars
  BY DEF RouterFlush
<1>2. CASE /\ phase = "idle" /\ phase' = "state" /\ queue # <<>> /\ alive
           /\ queue' = Tail(queue) /\ log' = Append(log, Head(queue))
           /\ RouterSlice' = Reduce(RouterKey, RouterSlice, Head(queue))
           /\ UNCHANGED <<cur, alive, failing, reducers, accepting>>
  <2>1. /\ queue \in Seq(Own(startedAt) \cup {INIT_TYPE})
        /\ Head(queue) \in Own(startedAt) \cup {INIT_TYPE} /\ Head(queue) = queue[1]
        /\ queue' \in Seq(Own(startedAt) \cup {INIT_TYPE}) /\ Len(queue') = Len(queue) - 1
    BY <1>2, HeadTailProperties DEF RouterTypeOK
  <2>2. /\ log' \in Seq(Own(startedAt) \cup {INIT_TYPE})
        /\ Len(log') = Len(log) + 1 /\ log'[Len(log')] = Head(queue) /\ Len(log) \in Nat
        /\ RouterSlice' \in Seq(Nat)
        /\ RouterSlice' # <<>> =>
             /\ Last(RouterSlice') \in DOMAIN log'
             /\ log'[Last(RouterSlice')] \in Own(startedAt)
    BY <1>2, <2>1, ReducedType
  <2>3. RouterTypeOK'
    BY <1>1, <2>1, <2>2 DEF RouterTypeOK, routerVars
  <2>4. FlushInvariant'
    BY <1>2 DEF FlushInvariant
  <2>5. ~Idle
    BY <1>2, IdleFacts
  <2>6. AgendaInvariant'
    <3>1. CASE agenda # <<>>
      BY <1>1, <2>5, <3>1 DEF AgendaInvariant, routerVars
    <3>2. CASE agenda = <<>>
      <4>1. Len(queue) = 1 /\ Quiet(queue[1]) /\ events = <<>> /\ (navigation = Null \/ service.lastEvent = "start")
            /\ service.trigger # "ROUTER"
        BY <1>2, <2>5, <3>2 DEF AgendaInvariant
      <4>2. queue' = <<>>
        BY <2>1, <4>1
      <4>3. log' # <<>> /\ Quiet(Last(log'))
        <5>1. log' # <<>>
          BY <2>2, LenProperties
        <5>2. QED
          BY <2>1, <2>2, <4>1, <5>1 DEF Last
      <4>4. QED
        BY <1>1, <1>2, <3>2, <4>1, <4>2, <4>3 DEF AgendaInvariant, routerVars, Quiet
    <3>3. QED
      BY <3>1, <3>2
  <2>7. EventsInvariant' /\ NavigationInvariant'
    BY <1>1 DEF EventsInvariant, NavigationInvariant, routerVars, Pending
  <2>8. QED
    BY <2>3, <2>4, <2>6, <2>7
<1>3. CASE /\ phase = "idle" /\ queue' = <<>> /\ ~alive' /\ ~failing'
           /\ UNCHANGED <<phase, cur, log, state, reducers, accepting>>
  <2>1. RouterTypeOK'
    BY <1>1, <1>3, EmptySeq DEF RouterTypeOK, routerVars, RouterSlice, Slice
  <2>2. FlushInvariant'
    BY <1>3 DEF FlushInvariant
  <2>3. Idle'
    BY <1>3, <2>2, IdleFactsNext
  <2>4. AgendaInvariant'
    BY <1>1, <1>3, <2>3 DEF AgendaInvariant, routerVars
  <2>5. EventsInvariant' /\ NavigationInvariant'
    BY <1>1 DEF EventsInvariant, NavigationInvariant, routerVars, Pending
  <2>6. QED
    BY <2>1, <2>2, <2>4, <2>5
<1>4. CASE /\ UNCHANGED <<queue, log, state, alive, failing, reducers, accepting>>
           /\ \/ phase # "idle" /\ phase' = phase
              \/ UNCHANGED <<phase, cur>>
              \/ cur # Nobody /\ cur' = Nobody /\ UNCHANGED phase
              \/ phase # "idle" /\ cur' = Nobody /\ phase' \in {"scanned", "idle"}
  <2>1. RouterTypeOK'
    BY <1>1, <1>4 DEF RouterTypeOK, routerVars, RouterSlice, Slice
  <2>2. FlushInvariant'
    BY <1>4 DEF FlushInvariant
  <2>3. ~Idle' => ~Idle
    BY <1>4, <2>2, IdleFacts, IdleFactsNext DEF FlushInvariant
  <2>4. phase = "idle" => phase' = "idle"
    BY <1>4
  <2>5. AgendaInvariant'
    BY <1>1, <1>4, <2>3, <2>4 DEF AgendaInvariant, routerVars
  <2>6. EventsInvariant' /\ NavigationInvariant'
    BY <1>1 DEF EventsInvariant, NavigationInvariant, routerVars, Pending
  <2>7. QED
    BY <2>1, <2>2, <2>5, <2>6
<1>5. QED
  BY <1>1, <1>2, <1>3, <1>4, FlushFacts

(* The service or the effect subscribes.                                   *)
LEMMA SubscribingStep ==
  ASSUME RouterInvariant, Construct \/ EffectStarts
  PROVE  RouterInvariant'
BY ControlFrame DEF Construct, EffectStarts, Subscribe, Listen, controlVars, flow,
   config, status, routerVars

(* Every step keeps the invariant.                                         *)
LEMMA RouterStepInvariant ==
  ~JumpsInFlight /\ RouterInvariant /\ [RouterNext]_routerAllVars => RouterInvariant'
<1> SUFFICES ASSUME ~JumpsInFlight, RouterInvariant, [RouterNext]_routerAllVars
             PROVE  RouterInvariant'
  OBVIOUS
<1>1. CASE UNCHANGED routerAllVars
  BY <1>1, ControlFrame DEF routerAllVars, vars, routerVars, controlVars
<1>2. CASE RouterNext
  BY <1>2, SubscribingStep, AppNavigatesStep, AppJumpsStep, EffectNavigatesStep,
     StateListenerStep, RouterStepsKeep, HandleEventStep, HandlerStepKeeps,
     RouterFlushStep DEF RouterNext
<1>3. QED
  BY <1>1, <1>2

(* The action of a canceled or failed navigation carries the state that    *)
(* the store had when that navigation started, or none: never the state of *)
(* another navigation, however dispatches, flushes and navigations nest.   *)
(* The application changes the slice in tasks of their own only.           *)
THEOREM FailuresCarryOwnState ==
  ASSUME ~JumpsInFlight
  PROVE  RouterSpec => []FailureCarriesOwnState
<1>1. RouterInit => RouterInvariant
  BY RouterInitInvariant
<1>2. RouterInvariant /\ [RouterNext]_routerAllVars => RouterInvariant'
  BY RouterStepInvariant
<1>3. RouterInvariant => FailureCarriesOwnState
  <2> SUFFICES ASSUME RouterInvariant, NEW n \in DOMAIN log, log[n] # INIT_TYPE,
                      log[n].type \in {ROUTER_CANCEL, ROUTER_ERROR}
               PROVE  log[n].store \in {Null, startedAt[log[n].id]}
    BY DEF FailureCarriesOwnState
  <2>1. log[n] \in Own(startedAt) \cup {INIT_TYPE}
    BY ElementOfSeq, LenProperties DEF RouterInvariant, RouterTypeOK
  <2>2. QED
    BY <2>1 DEF Own, Failures
<1>4. QED
  BY <1>1, <1>2, <1>3, PTL DEF RouterSpec

-----------------------------------------------------------------------------
(* The URLs that the slice may show while the router stays where it is.    *)
Here == {Null, url}

(* The router's reducer answers with a new slice.                          *)
IsReduced(a) == a # INIT_TYPE /\ a.type \in Reduced

(* An entry of the agenda by which the slice changes.                      *)
Dispatches(t) == t.do = "dispatch" /\ t.action.type \in Reduced

(* With the actions of q queued, the entries t of an agenda to come and a  *)
(* slice that shows u: what it shows once all of it is reduced is in U.    *)
ShownAfter(q, t, u, U) ==
  /\ \A i \in DOMAIN q : IsReduced(q[i]) => q[i].url \in U
  /\ \A i \in DOMAIN t : Dispatches(t[i]) => t[i].action.url \in U
  /\ \/ u \in U
     \/ \E i \in DOMAIN q : IsReduced(q[i])
     \/ \E i \in DOMAIN t : Dispatches(t[i])

(* What the slice shows once all that is queued and on the agenda is       *)
(* reduced is in U.                                                        *)
Shows(U) == ShownAfter(queue, agenda, UrlOf(RouterSlice), U)

(* The service is constructed.                                             *)
Connected == Contains(observers, Service)

(* The service has seen the slice, or is about to be called; before it is  *)
(* constructed the slice shows nothing.                                    *)
ViewInvariant ==
  /\ alive
  /\ observers \in Seq(Observers) /\ listeners \in Seq(Listeners)
  /\ todo \in Seq(Observers \cup Listeners)
  /\ phase = "scanned" => todo \in Seq(Listeners)
  /\ cur = Service => Connected
  /\ IF Connected
     THEN selected # RouterSlice =>
            phase = "state" /\ (Contains(todo, Service) \/ cur = Service)
     ELSE /\ selected = <<>> /\ RouterSlice = <<>>
          /\ navigation = Null /\ events = <<>> /\ agenda = <<>>
          /\ \A n \in DOMAIN queue : queue[n] = INIT_TYPE

(* Inside a flush all that waits takes the slice back to the router's URL, *)
(* and a handler dispatches what changes the slice first.                  *)
OrderInvariant ==
  /\ \A i \in DOMAIN queue :
       IsReduced(queue[i]) /\ (i > 1 \/ phase # "idle") => queue[i].url \in Here
  /\ \A i \in DOMAIN agenda : Dispatches(agenda[i]) => i = 1 /\ Idle

(* A change by the application that the service has yet to hear of.        *)
Awaiting ==
  /\ agenda = <<>> /\ service.lastEvent # "start" /\ Connected
  /\ \/ phase = "idle" /\ queue # <<>> /\ queue[1] # INIT_TYPE
     \/ phase = "state" /\ queue = <<>> /\ selected # RouterSlice

(* The navigation under way comes from the slice.                          *)
ByStore == service.trigger = "STORE"

(* What the slice is to show during a navigation: the target, once the     *)
(* slice has it.                                                           *)
Goal ==
  IF ByStore \/ (navigation.stage = "recognized" /\ ~late)
  THEN {navigation.url} ELSE Here

(* What the slice is to show between the steps of a navigation.            *)
MirrorInvariant ==
  /\ navigation = Null /\ events = <<>> => Shows(Here) \/ Awaiting
  /\ navigation # Null /\ events = <<>> =>
       /\ service.routerState \in Here
       /\ Shows(Goal)
       /\ navigation.stage = "recognized" => service.recognized = navigation.url
  /\ events # <<>> =>
       /\ events[1].kind = "end" =>
            IF late /\ ~ByStore THEN service.recognized = url ELSE Shows(Here)
       /\ events[1].kind \in Failures =>
            /\ service.routerState \in Here
            /\ navigation # Null => navigation.stage = "started"
       /\ events[1].kind = "recognized" =>
            /\ service.routerState \in Here
            /\ navigation.stage = "recognized"
            /\ events[1].url = navigation.url
            /\ Shows(IF ByStore THEN {navigation.url} ELSE Here)
       /\ events[1].kind = "start" => navigation.stage = "started" /\ Shows(Here)

(* The invariant of the two directions between slice and URL.              *)
WholeInvariant ==
  RouterInvariant /\ ViewInvariant /\ OrderInvariant /\ MirrorInvariant

(* Nothing but the slice itself decides when nothing waits.                *)
LEMMA NothingWaits ==
  ASSUME NEW u, NEW U
  PROVE  ShownAfter(<<>>, <<>>, u, U) <=> u \in U
BY DEF ShownAfter

(* What a handler of a router event shows by its dispatches.               *)
LEMMA OutShows ==
  ASSUME NEW P, NEW out \in Seq(P), NEW reset \in BOOLEAN, NEW v,
         NEW b, b = Steps(Handler(v, out, reset)), NEW u, NEW U,
         \A j \in DOMAIN out : out[j].type \in Reduced => out[j].url \in U /\ j = 1,
         u \in U \/ \E j \in DOMAIN out : out[j].type \in Reduced
  PROVE  /\ ShownAfter(<<>>, b, u, U)
         /\ \A i \in DOMAIN b : Dispatches(b[i]) => i = 1
<1>1. /\ \A i \in DOMAIN b : b[i].do = "dispatch" =>
           \E j \in DOMAIN out : b[i].action = out[j] /\ (j = 1 => i = 1)
      /\ \A j \in DOMAIN out : \E i \in DOMAIN b :
           b[i] = [do |-> "dispatch", action |-> out[j]]
  BY StepsFacts
<1>2. \A i \in DOMAIN b : Dispatches(b[i]) => i = 1 /\ b[i].action.url \in U
  BY <1>1 DEF Dispatches
<1>3. u \in U \/ \E i \in DOMAIN b : Dispatches(b[i])
  BY <1>1 DEF Dispatches
<1>4. ShownAfter(<<>>, b, u, U)
  BY <1>2, <1>3 DEF ShownAfter
<1>5. QED
  BY <1>2, <1>4

(* An entry of the agenda that is gone through shows the same.             *)
LEMMA EntryShows ==
  ASSUME NEW s, NEW t \in Seq(Todo(s)), t # <<>>, NEW q, NEW u, NEW U,
         INIT_TYPE \notin Own(s),
         q = IF t[1].do = "dispatch" THEN Append(<<>>, t[1].action) ELSE <<>>,
         ShownAfter(<<>>, t, u, U)
  PROVE  ShownAfter(q, Tail(t), u, U)
<1>1. /\ Tail(t) \in Seq(Todo(s)) /\ Len(t) \in Nat /\ Len(Tail(t)) = Len(t) - 1
      /\ DOMAIN t = 1 .. Len(t) /\ DOMAIN Tail(t) = 1 .. Len(Tail(t)) /\ 1 \in DOMAIN t
      /\ \A i \in 1 .. Len(Tail(t)) : Tail(t)[i] = t[i + 1]
  BY HeadTailProperties, LenProperties
<1>2. t[1] \in Todo(s)
  BY <1>1, ElementOfSeq
<1>3. /\ \A i \in DOMAIN t : Dispatches(t[i]) => t[i].action.url \in U
      /\ u \in U \/ \E i \in DOMAIN t : Dispatches(t[i])
  BY DEF ShownAfter
<1>4. \A i \in DOMAIN Tail(t) : i + 1 \in DOMAIN t /\ Tail(t)[i] = t[i + 1]
  BY <1>1
<1>5. \A i \in DOMAIN t : i = 1 \/ (i - 1 \in DOMAIN Tail(t) /\ Tail(t)[i - 1] = t[i])
  BY <1>1
<1>6. CASE t[1].do = "dispatch"
  <2>1. t[1].action \in Own(s) /\ t[1].action # INIT_TYPE
    BY <1>2, <1>6 DEF Todo, Entries
  <2>2. Len(q) = 1 /\ q[1] = t[1].action /\ q \in Seq(Own(s))
    BY <1>6, <2>1, OneFacts
  <2>3. DOMAIN q = 1 .. 1
    BY <2>2, LenProperties
  <2>4. \A i \in DOMAIN q : i = 1
    BY <2>3
  <2>5. IsReduced(q[1]) <=> Dispatches(t[1])
    BY <1>6, <2>1, <2>2 DEF IsReduced, Dispatches
  <2>6. \A i \in DOMAIN q : IsReduced(q[i]) => q[i].url \in U
    BY <1>1, <1>3, <2>2, <2>4, <2>5
  <2>7. \A i \in DOMAIN Tail(t) : Dispatches(Tail(t)[i]) => Tail(t)[i].action.url \in U
    BY <1>3, <1>4
  <2>8. \/ u \in U
        \/ \E i \in DOMAIN q : IsReduced(q[i])
        \/ \E i \in DOMAIN Tail(t) : Dispatches(Tail(t)[i])
    <3>1. 1 \in DOMAIN q
      BY <2>3
    <3>2. QED
      BY <1>3, <1>5, <2>5, <3>1
  <2>9. QED
    BY <2>6, <2>7, <2>8 DEF ShownAfter
<1>7. CASE t[1].do # "dispatch"
  <2>1. q = <<>> /\ ~Dispatches(t[1]) /\ \A i : i \notin DOMAIN <<>>
    BY <1>7 DEF Dispatches
  <2>2. \A i \in DOMAIN q : FALSE
    BY <2>1
  <2>3. \A i \in DOMAIN Tail(t) : Dispatches(Tail(t)[i]) => Tail(t)[i].action.url \in U
    BY <1>3, <1>4
  <2>4. u \in U \/ \E i \in DOMAIN Tail(t) : Dispatches(Tail(t)[i])
    BY <1>3, <1>5, <2>1
  <2>5. QED
    BY <2>2, <2>3, <2>4 DEF ShownAfter
<1>8. QED
  BY <1>6, <1>7

(* Reducing the action at the head shows the same.                         *)
LEMMA ScanShows ==
  ASSUME NEW S, NEW q \in Seq(S), q # <<>>, NEW t, NEW u, NEW v, NEW U,
         v = IF IsReduced(Head(q)) THEN Head(q).url ELSE u,
         ShownAfter(q, t, u, U)
  PROVE  ShownAfter(Tail(q), t, v, U)
<1>1. /\ Tail(q) \in Seq(S) /\ Len(q) \in Nat /\ Len(Tail(q)) = Len(q) - 1
      /\ DOMAIN q = 1 .. Len(q) /\ DOMAIN Tail(q) = 1 .. Len(Tail(q)) /\ 1 \in DOMAIN q
      /\ \A i \in 1 .. Len(Tail(q)) : Tail(q)[i] = q[i + 1]
  BY HeadTailProperties, LenProperties
<1>2. Head(q) = q[1]
  OBVIOUS
<1>4. \A i \in DOMAIN Tail(q) : i + 1 \in DOMAIN q /\ Tail(q)[i] = q[i + 1]
  BY <1>1
<1>5. \A i \in DOMAIN q : i = 1 \/ (i - 1 \in DOMAIN Tail(q) /\ Tail(q)[i - 1] = q[i])
  BY <1>1
<1>6. \A i \in DOMAIN Tail(q) : IsReduced(Tail(q)[i]) => Tail(q)[i].url \in U
  BY <1>4 DEF ShownAfter
<1>7. \A i \in DOMAIN t : Dispatches(t[i]) => t[i].action.url \in U
  BY DEF ShownAfter
<1>8. \/ v \in U
      \/ \E i \in DOMAIN Tail(q) : IsReduced(Tail(q)[i])
      \/ \E i \in DOMAIN t : Dispatches(t[i])
  <2>1. CASE IsReduced(q[1])
    BY <1>1, <1>2, <2>1 DEF ShownAfter
  <2>2. CASE ~IsReduced(q[1])
    BY <1>2, <1>5, <2>2 DEF ShownAfter
  <2>3. QED
    BY <2>1, <2>2
<1>9. QED
  BY <1>6, <1>7, <1>8 DEF ShownAfter

(* The slice stays while its variables stay.                               *)
LEMMA SliceSame ==
  ASSUME UNCHANGED <<log, state>>
  PROVE  /\ RouterSlice' = RouterSlice
         /\ UrlOf(RouterSlice)' = UrlOf(RouterSlice)
BY DEF RouterSlice, Slice, UrlOf

(* What it shows stays too.                                                *)
LEMMA MirrorFrame ==
  ASSUME MirrorInvariant, Awaiting => Awaiting',
         UNCHANGED <<queue, agenda, log, state, url, navigation, events, service, late>>
  PROVE  MirrorInvariant'
<1>1. UrlOf(RouterSlice)' = UrlOf(RouterSlice)
  BY SliceSame
<1>2. /\ Shows(Here)' <=> Shows(Here)
      /\ Shows(Goal)' <=> Shows(Goal)
      /\ Shows(IF ByStore THEN {navigation.url} ELSE Here)'
           <=> Shows(IF ByStore THEN {navigation.url} ELSE Here)
  BY <1>1 DEF Shows, Here, Goal, ByStore
<1>3. QED
  BY <1>2 DEF MirrorInvariant, Here, ByStore

(* The invariant holds when the application starts.                        *)
LEMMA WholeInit == RouterInit => WholeInvariant
<1> SUFFICES ASSUME RouterInit PROVE WholeInvariant
  OBVIOUS
<1>1. RouterInvariant
  BY RouterInitInvariant
<1>2. /\ queue = <<INIT_TYPE>> /\ observers = <<>> /\ listeners = <<>> /\ todo = <<>>
      /\ phase = "idle" /\ cur = Nobody /\ alive
      /\ selected = <<>> /\ navigation = Null /\ events = <<>> /\ agenda = <<>>
      /\ log = <<>>
  BY DEF RouterInit, Init
<1>3. RouterSlice = <<>> /\ UrlOf(RouterSlice) = Null
  BY DEF RouterInit, Init, RouterSlice, Slice, Undefined, UrlOf
<1>4. ~Connected
  BY <1>2 DEF Connected, Contains
<1>5. \A n \in DOMAIN queue : queue[n] = INIT_TYPE
  BY <1>2
<1>6. ViewInvariant
  BY <1>2, <1>3, <1>4, <1>5, EmptySeq, StoreAssumption, RouterAssumption DEF ViewInvariant
<1>7. OrderInvariant
  BY <1>2, <1>5 DEF OrderInvariant, IsReduced
<1>8. Shows(Here)
  BY <1>2, <1>3, <1>5 DEF Shows, ShownAfter, Here, IsReduced
<1>9. MirrorInvariant
  BY <1>2, <1>8 DEF MirrorInvariant
<1>10. QED
  BY <1>1, <1>6, <1>7, <1>9 DEF WholeInvariant

(* In a task nothing waits.                                                *)
LEMMA TaskFacts ==
  ASSUME WholeInvariant, Task
  PROVE  /\ phase = "idle" /\ queue = <<>> /\ cur = Nobody
         /\ agenda = <<>> /\ events = <<>> /\ ~Awaiting
         /\ \A U : Shows(U) <=> UrlOf(RouterSlice) \in U
<1>1. phase = "idle" /\ queue = <<>> /\ cur = Nobody /\ agenda = <<>> /\ events = <<>>
  BY IdleFacts DEF WholeInvariant, RouterInvariant, FlushInvariant, Task
<1>2. ~Awaiting
  BY <1>1 DEF Awaiting
<1>3. \A U : Shows(U) <=> UrlOf(RouterSlice) \in U
  BY <1>1, NothingWaits DEF Shows
<1>4. QED
  BY <1>1, <1>2, <1>3

(* The service or the effect subscribes: the slice shows nothing yet when  *)
(* the service does.                                                       *)
LEMMA ConnectingView ==
  ASSUME WholeInvariant, Construct \/ EffectStarts
  PROVE  WholeInvariant'
<1> USE DEF WholeInvariant
<1>1. /\ UNCHANGED <<queue, phase, todo, cur, state, log, alive>> /\ UNCHANGED routerVars
      /\ \/ observers' = Append(observers, Service) /\ listeners' = listeners
         \/ listeners' = Append(listeners, Effect) /\ observers' = observers
  BY DEF Construct, EffectStarts, Subscribe, Listen, flow, status
<1>2. RouterInvariant'
  BY SubscribingStep
<1>3. /\ Service \in Observers /\ Effect \in Listeners
      /\ observers \in Seq(Observers) /\ listeners \in Seq(Listeners)
  BY RouterAssumption DEF ViewInvariant
<1>4. /\ observers' \in Seq(Observers) /\ listeners' \in Seq(Listeners)
      /\ Connected => Connected'
      /\ observers' # observers => Connected'
  <2>1. /\ Append(observers, Service) \in Seq(Observers)
        /\ Append(listeners, Effect) \in Seq(Listeners)
    BY <1>3
  <2>2. /\ Len(observers) \in Nat /\ DOMAIN observers = 1 .. Len(observers)
        /\ DOMAIN Append(observers, Service) = 1 .. Len(observers) + 1
        /\ Append(observers, Service)[Len(observers) + 1] = Service
        /\ \A i \in 1 .. Len(observers) : Append(observers, Service)[i] = observers[i]
    BY <1>3, AppendProperties, LenProperties
  <2>3. Contains(Append(observers, Service), Service)
    BY <2>2 DEF Contains
  <2>4. QED
    BY <1>1, <1>3, <2>1, <2>3 DEF Connected
<1>5. RouterSlice' = RouterSlice
  BY <1>1, SliceSame
<1>6. ViewInvariant'
  BY <1>1, <1>4, <1>5 DEF ViewInvariant, routerVars, Connected
<1>7. Idle' <=> Idle
  <2>1. RouterInvariant => FlushInvariant
    BY DEF RouterInvariant
  <2>2. FlushInvariant /\ FlushInvariant'
    BY <1>2 DEF RouterInvariant
  <2>3. QED
    BY <1>1, <2>2, IdleFacts, IdleFactsNext
<1>8. OrderInvariant'
  BY <1>1, <1>7 DEF OrderInvariant, routerVars, Here
<1>9. MirrorInvariant'
  <2>1. Awaiting => Awaiting'
    BY <1>1, <1>4, <1>5 DEF Awaiting, routerVars
  <2>2. QED
    BY <1>1, <2>1, MirrorFrame DEF routerVars
<1>10. QED
  BY <1>2, <1>6, <1>8, <1>9

(* A step that leaves the store, its subscribers and the slice alone.      *)
LEMMA RouterOnly ==
  ASSUME WholeInvariant, RouterInvariant', Task, Connected,
         UNCHANGED <<vars, agenda, selected>>
  PROVE  ViewInvariant' /\ OrderInvariant'
<1>1. /\ queue = <<>> /\ agenda = <<>>
      /\ UNCHANGED <<queue, phase, todo, cur, state, log, alive, observers, listeners>>
  BY TaskFacts DEF vars
<1>2. RouterSlice' = RouterSlice
  BY <1>1, SliceSame
<1>3. ViewInvariant'
  BY <1>1, <1>2 DEF WholeInvariant, ViewInvariant, Connected
<1>4. OrderInvariant'
  BY <1>1 DEF OrderInvariant
<1>5. QED
  BY <1>3, <1>4

(* Application code navigates: the URL and the slice wait for the router.  *)
LEMMA AppNavigatesMirrors ==
  ASSUME WholeInvariant, NEW target \in Urls, AppNavigates(target)
  PROVE  WholeInvariant'
<1> USE DEF WholeInvariant
<1>1. /\ Task /\ Connected /\ events' = Emitted(target)
      /\ UNCHANGED <<vars, late, url, service, selected, agenda, startedAt>>
  BY DEF AppNavigates, Connected
<1>2. RouterInvariant'
  BY AppNavigatesStep
<1>3. ViewInvariant' /\ OrderInvariant'
  BY <1>1, <1>2, RouterOnly
<1>4. navigation' # Null /\ navigation'.stage = "started"
  BY NavigationFacts DEF AppNavigates, RouterInvariant, RouterTypeOK
<1>5. UNCHANGED <<queue, log, state>>
  BY <1>1 DEF vars
<1>6. MirrorInvariant'
  <2>1. CASE navigation = Null
    <3>1. Len(events') = 1 /\ events'[1].kind = "start"
      <4>1. /\ Len(Emitted(target)) = 1
            /\ Emitted(target)[1]
                 = [kind |-> "start", id |-> navigations + 1, url |-> target]
        BY <2>1, EmittedFacts DEF RouterInvariant, RouterTypeOK
      <4>2. QED
        BY <1>1, <4>1
    <3>2. events' # <<>>
      BY <3>1
    <3>3. Shows(Here)
      BY <1>1, <2>1, TaskFacts DEF MirrorInvariant
    <3>4. Shows(Here)'
      BY <1>1, <1>5, <3>3, SliceSame DEF Shows, Here
    <3>5. QED
      BY <1>4, <3>1, <3>2, <3>4 DEF MirrorInvariant, Failures, ROUTER_CANCEL, ROUTER_ERROR
  <2>2. CASE navigation # Null
    <3>1. Len(events') = 2 /\ events'[1].kind = ROUTER_CANCEL
      <4>1. /\ Len(Emitted(target)) = 2
            /\ Emitted(target)[1]
                 = [kind |-> ROUTER_CANCEL, id |-> navigation.id, url |-> navigation.url]
        BY <2>2, EmittedFacts DEF RouterInvariant, RouterTypeOK
      <4>2. QED
        BY <1>1, <4>1
    <3>2. events' # <<>>
      BY <3>1
    <3>3. service.routerState \in Here
      BY <1>1, <2>2, TaskFacts DEF MirrorInvariant
    <3>4. (service.routerState \in Here)'
      BY <1>1, <3>3 DEF Here
    <3>5. QED
      BY <1>4, <3>1, <3>2, <3>4 DEF MirrorInvariant, Failures, ROUTER_CANCEL, ROUTER_ERROR
  <2>3. QED
    BY <2>1, <2>2
<1>7. QED
  BY <1>2, <1>3, <1>6

(* The router goes on: a recognized navigation is the service's to show,   *)
(* the end moves the URL to it, a failure leaves the URL.                  *)
LEMMA RouterGoesOnMirrors ==
  ASSUME WholeInvariant,
         \/ RouterSteps
         \/ \E kind \in {ROUTER_CANCEL, ROUTER_ERROR} : RouterFails(kind)
  PROVE  WholeInvariant'
<1> USE DEF WholeInvariant
<1>1. RouterInvariant'
  BY RouterStepsKeep
<1>2. /\ Task /\ navigation # Null
      /\ UNCHANGED <<vars, late, navigations, service, selected, agenda, startedAt>>
  BY DEF RouterSteps, RouterRecognizes, RouterEnds, RouterFails, Emits
<1>3. Connected
  BY <1>2 DEF ViewInvariant
<1>4. ViewInvariant' /\ OrderInvariant'
  BY <1>1, <1>2, <1>3, RouterOnly
<1>5. UNCHANGED <<queue, log, state>>
  BY <1>2 DEF vars
<1>6. /\ service.routerState \in Here /\ Shows(Goal)
      /\ navigation.stage = "recognized" => service.recognized = navigation.url
  BY <1>2, TaskFacts DEF MirrorInvariant
<1>7. CASE RouterRecognizes
  <2>1. /\ events' = <<[kind |-> "recognized", id |-> navigation.id, url |-> navigation.url]>>
        /\ navigation.stage = "started" /\ url' = url
        /\ navigation' = [navigation EXCEPT !.stage = "recognized"]
        /\ navigation \in Navigations
    BY <1>2, <1>7 DEF RouterRecognizes, Emits, RouterInvariant, RouterTypeOK
  <2>2. navigation'.stage = "recognized" /\ navigation'.url = navigation.url
    BY <2>1 DEF Navigations
  <2>3. events'[1].kind = "recognized" /\ events'[1].url = navigation.url /\ events' # <<>>
    BY <2>1
  <2>4. Shows(IF ByStore THEN {navigation.url} ELSE Here)
    BY <1>6, <2>1 DEF Goal
  <2>5. Shows(IF ByStore THEN {navigation.url} ELSE Here)'
    BY <1>2, <1>5, <2>1, <2>2, <2>4, SliceSame DEF Shows, Here, ByStore
  <2>6. (service.routerState \in Here)'
    BY <1>2, <1>6, <2>1 DEF Here
  <2>7. MirrorInvariant'
    BY <2>2, <2>3, <2>5, <2>6 DEF MirrorInvariant, Failures, ROUTER_CANCEL, ROUTER_ERROR
  <2>8. QED
    BY <1>1, <1>4, <2>7
<1>8. CASE RouterEnds
  <2>1. /\ events' = <<[kind |-> "end", id |-> navigation.id, url |-> navigation.url]>>
        /\ navigation.stage = "recognized" /\ url' = navigation.url
        /\ navigation' = Null
    BY <1>2, <1>8 DEF RouterEnds, Emits
  <2>2. events'[1].kind = "end" /\ events' # <<>>
    BY <2>1
  <2>3. CASE late /\ ~ByStore
    <3>1. (late /\ ~ByStore /\ service.recognized = url)'
      BY <1>2, <1>6, <2>1, <2>3 DEF ByStore
    <3>2. QED
      BY <1>1, <1>4, <2>2, <3>1 DEF MirrorInvariant, Failures, ROUTER_CANCEL, ROUTER_ERROR
  <2>4. CASE ~(late /\ ~ByStore)
    <3>1. UrlOf(RouterSlice) \in {navigation.url}
      BY <1>2, <1>6, <2>1, <2>4, TaskFacts DEF Goal
    <3>2. (UrlOf(RouterSlice) \in Here)'
      BY <1>5, <2>1, <3>1, SliceSame DEF Here
    <3>3. queue' = <<>> /\ agenda' = <<>>
      BY <1>2, <1>5, TaskFacts
    <3>4. Shows(Here)'
      BY <3>2, <3>3, NothingWaits DEF Shows
    <3>5. (~(late /\ ~ByStore))'
      BY <1>2, <2>4 DEF ByStore
    <3>6. QED
      BY <1>1, <1>4, <2>2, <3>4, <3>5
         DEF MirrorInvariant, Failures, ROUTER_CANCEL, ROUTER_ERROR
  <2>5. QED
    BY <2>3, <2>4
<1>9. CASE \E kind \in {ROUTER_CANCEL, ROUTER_ERROR} : RouterFails(kind)
  <2>1. PICK kind \in {ROUTER_CANCEL, ROUTER_ERROR} : RouterFails(kind)
    BY <1>9
  <2>2. /\ events' = <<[kind |-> kind, id |-> navigation.id, url |-> navigation.url]>>
        /\ url' = url /\ navigation' = Null
    BY <1>2, <2>1 DEF RouterFails, Emits
  <2>3. events'[1].kind = kind /\ events' # <<>>
    BY <2>2
  <2>4. (service.routerState \in Here)'
    BY <1>2, <1>6, <2>2 DEF Here
  <2>5. MirrorInvariant'
    BY <2>2, <2>3, <2>4 DEF MirrorInvariant, Failures, ROUTER_CANCEL, ROUTER_ERROR
  <2>6. QED
    BY <1>1, <1>4, <2>5
<1>10. QED
  BY <1>7, <1>8, <1>9 DEF RouterSteps

(* The application dispatches none but its types: the router's actions and *)
(* its own jumps are reduced by the slice when they are for it.            *)
LEMMA OwnTypes ==
  ASSUME Payloads \subseteq Types, NEW s, NEW a \in Own(s) \cup {INIT_TYPE}
  PROVE  /\ a # INIT_TYPE <=> a \in Own(s)
         /\ a \in Handles[RouterKey] <=> IsReduced(a)
BY RouterAssumption DEF Own, IsReduced

(* Application code changes the slice while the router rests: the service  *)
(* has yet to hear of it.                                                  *)
LEMMA AppJumpsMirrors ==
  ASSUME WholeInvariant, ~JumpsInFlight, Payloads \subseteq Types,
         NEW target \in Urls, AppJumps(target)
  PROVE  WholeInvariant'
<1> USE DEF WholeInvariant
<1> DEFINE a == Jump(target)
<1>1. /\ Task /\ navigation = Null /\ Connected
      /\ Next_(a)
      /\ UNCHANGED routerVars
      /\ UNCHANGED <<phase, cur, state, alive, log, observers, listeners, todo>>
  BY DEF AppJumps, Dispatch, subscriptions, status, config, Connected
<1>2. phase = "idle" /\ queue = <<>> /\ agenda = <<>> /\ events = <<>>
  BY <1>1, TaskFacts
<1>3. a \in Payloads
  BY DEF Jump, Action, Payloads
<1>4. a # INIT_TYPE
  BY <1>3, RouterAssumption
<1> HIDE DEF a
<1>5. queue' = Append(<<>>, a)
  BY <1>1, <1>2 DEF Next_, RouterInvariant, FlushInvariant, ViewInvariant
<1>6. Len(queue') = 1 /\ queue'[1] = a /\ queue' \in Seq(Payloads)
  BY <1>3, <1>5, OneFacts
<1>7. \A i \in DOMAIN queue' : i = 1
  <2>1. DOMAIN queue' = 1 .. 1
    BY <1>6, LenProperties
  <2>2. QED
    BY <2>1
<1>8. RouterInvariant'
  BY AppJumpsStep
<1>9. RouterSlice' = RouterSlice
  BY <1>1, SliceSame
<1>10. ViewInvariant'
  BY <1>1, <1>9 DEF ViewInvariant, Connected, routerVars
<1>11. OrderInvariant'
  BY <1>1, <1>2, <1>7 DEF OrderInvariant, routerVars
<1>12. service.lastEvent # "start"
  BY <1>1, <1>2 DEF RouterInvariant, EventsInvariant, Pending
<1>13. Awaiting'
  <2>1. queue' # <<>>
    BY <1>6
  <2>2. QED
    BY <1>1, <1>2, <1>4, <1>6, <1>12, <2>1 DEF Awaiting, Connected, routerVars
<1>14. MirrorInvariant'
  BY <1>1, <1>2, <1>13 DEF MirrorInvariant, routerVars
<1>15. QED
  BY <1>8, <1>10, <1>11, <1>14

(* What is left to show of each of the router's events: what the handler's *)
(* actions do to the slice.                                                *)
LEMMA HandledShows ==
  ASSUME WholeInvariant, HandleEvent, NEW P, NEW out \in Seq(P),
         NEW reset \in BOOLEAN, NEW v,
         Handle(service, events[1]) = Handler(v, out, reset), NEW U,
         \A j \in DOMAIN out : out[j].type \in Reduced => out[j].url \in U /\ j = 1,
         UrlOf(RouterSlice) \in U \/ \E j \in DOMAIN out : out[j].type \in Reduced
  PROVE  /\ RouterInvariant' /\ ViewInvariant' /\ OrderInvariant'
         /\ ShownAfter(queue, agenda, UrlOf(RouterSlice), U)'
<1> USE DEF WholeInvariant
<1>1. /\ UNCHANGED <<queue, log, url, navigation, state, phase, cur, alive,
                     observers, listeners, todo, selected>>
      /\ Idle' /\ phase = "idle" /\ queue = <<>>
      /\ events # <<>>
      /\ agenda' = Steps(Handler(v, out, reset))
  BY HandleEventFrame DEF HandleEvent, vars
<1>2. /\ ShownAfter(<<>>, agenda', UrlOf(RouterSlice), U)
      /\ \A i \in DOMAIN agenda' : Dispatches(agenda'[i]) => i = 1
  BY <1>1, OutShows
<1>3. UrlOf(RouterSlice)' = UrlOf(RouterSlice) /\ RouterSlice' = RouterSlice
  BY <1>1, SliceSame
<1>4. RouterInvariant'
  BY HandleEventStep
<1>5. Connected /\ Connected'
  BY <1>1 DEF ViewInvariant, Connected
<1>6. ViewInvariant'
  BY <1>1, <1>3, <1>5 DEF ViewInvariant
<1>7. OrderInvariant'
  BY <1>1, <1>2 DEF OrderInvariant
<1>8. QED
  BY <1>1, <1>2, <1>3, <1>4, <1>6, <1>7

(* NavigationStart changes no slice.                                       *)
LEMMA StartMirrors ==
  ASSUME WholeInvariant, HandleEvent, events[1].kind = "start"
  PROVE  WholeInvariant'
<1> USE DEF WholeInvariant
<1> DEFINE h == Handle(service, events[1])
           request == Action(ROUTER_REQUEST, events[1].id, url, Null)
<1>1. /\ UNCHANGED <<url, navigation, late>>
      /\ events[1] \in Events /\ service \in Services /\ events # <<>>
      /\ queue = <<>> /\ agenda = <<>>
      /\ service' = h.service /\ LatestStore = Version /\ Version \in Nat
  BY HandleEventFrame
<1>2. service.trigger # "STORE" /\ events' = <<>> /\ navigation # Null
  BY HandleStart
<1>3. url \in Urls
  BY DEF RouterInvariant, RouterTypeOK
<1>4. /\ h = Handler(h.service, h.out, FALSE)
      /\ h.service.trigger = service.trigger
      /\ h.service.routerState = url
      /\ h.out = <<request>>
  BY <1>1, <1>2, <1>3, StartFacts
<1>5. request.type \notin Reduced
  BY DEF Action, Reduced, ROUTER_REQUEST, ROUTER_NAVIGATION, ROUTER_CANCEL, ROUTER_ERROR
<1> HIDE DEF request
<1>6. /\ <<request>> \in Seq({request})
      /\ \A j \in DOMAIN <<request>> : <<request>>[j].type \notin Reduced
  BY <1>5
<1>7. navigation.stage = "started" /\ UrlOf(RouterSlice) \in Here
  BY <1>1, NothingWaits DEF MirrorInvariant, Shows
<1> DEFINE v == h.service
           out == <<request>>
<1>8. h = Handler(v, out, FALSE)
  BY <1>4
<1> HIDE DEF h, v, out
<1>9. /\ RouterInvariant' /\ ViewInvariant' /\ OrderInvariant'
      /\ ShownAfter(queue, agenda, UrlOf(RouterSlice), Here)'
  <2>1. out \in Seq({request}) /\ \A j \in DOMAIN out : out[j].type \notin Reduced
    BY <1>6 DEF out
  <2>2. Here' = Here
    BY <1>1 DEF Here
  <2>3. Handle(service, events[1]) = Handler(v, out, FALSE)
    BY <1>8 DEF h
  <2> DEFINE U == Here
  <2>4. UrlOf(RouterSlice) \in U
    BY <1>7
  <2> HIDE DEF U
  <2>5. /\ RouterInvariant' /\ ViewInvariant' /\ OrderInvariant'
        /\ ShownAfter(queue', agenda', UrlOf(RouterSlice)', U)
    BY <2>1, <2>3, <2>4, HandledShows
  <2>6. QED
    BY <2>2, <2>5 DEF U
<1>10. (service.trigger # "STORE" /\ service.routerState = url)'
  BY <1>1, <1>2, <1>4
<1>11. QED
  BY <1>1, <1>2, <1>7, <1>9, <1>10 DEF MirrorInvariant, Goal, ByStore, Shows, Here

(* RoutesRecognized: the slice takes the target, unless the timing or the  *)
(* trigger says otherwise.                                                 *)
LEMMA RecognizedMirrors ==
  ASSUME WholeInvariant, HandleEvent, events[1].kind = "recognized"
  PROVE  WholeInvariant'
<1> USE DEF WholeInvariant
<1> DEFINE h == Handle(service, events[1])
           shown == Action(ROUTER_NAVIGATION, events[1].id, events[1].url, Null)
           U == IF ByStore \/ ~late THEN {navigation.url} ELSE Here
           v == h.service
           out == IF ~late /\ ~ByStore THEN <<shown>> ELSE <<>>
<1>1. /\ UNCHANGED <<url, navigation, late>>
      /\ events[1] \in Events /\ service \in Services /\ events # <<>>
      /\ queue = <<>> /\ agenda = <<>>
      /\ service' = h.service
  BY HandleEventFrame
<1>2. events' = <<>> /\ navigation # Null
  BY HandleRecognized
<1>13. /\ h = Handler(h.service, h.out, FALSE)
       /\ h.service.trigger = service.trigger
       /\ h.service.routerState = service.routerState
       /\ h.service.recognized = events[1].url
       /\ h.out = IF ~late /\ service.trigger # "STORE" THEN <<shown>> ELSE <<>>
  BY <1>1, RecognizedFacts
<1>3. /\ h = Handler(v, out, FALSE)
      /\ h.service.trigger = service.trigger
      /\ h.service.routerState = service.routerState
      /\ h.service.recognized = events[1].url
  BY <1>13 DEF ByStore
<1>4. /\ service.routerState \in Here
      /\ navigation.stage = "recognized"
      /\ events[1].url = navigation.url
      /\ UrlOf(RouterSlice) \in IF ByStore THEN {navigation.url} ELSE Here
  BY <1>1, NothingWaits DEF MirrorInvariant, Shows, Failures, ROUTER_CANCEL, ROUTER_ERROR
<1>5. shown.type \in Reduced /\ shown.url = navigation.url
  BY <1>4 DEF Action, Reduced
<1> HIDE DEF shown
<1>6. /\ out \in Seq({shown})
      /\ \A j \in DOMAIN out : out[j].type \in Reduced => out[j].url \in U /\ j = 1
      /\ UrlOf(RouterSlice) \in U \/ \E j \in DOMAIN out : out[j].type \in Reduced
  <2>1. /\ <<shown>> \in Seq({shown}) /\ <<>> \in Seq({shown})
        /\ DOMAIN <<shown>> = {1} /\ <<shown>>[1] = shown
        /\ DOMAIN <<>> = {}
    OBVIOUS
  <2>2. CASE ~late /\ ~ByStore
    <3>1. out = <<shown>> /\ U = {navigation.url}
      BY <2>2
    <3> HIDE DEF out, U
    <3>2. QED
      BY <1>5, <2>1, <3>1
  <2>3. CASE ~(~late /\ ~ByStore)
    <3>1. out = <<>> /\ UrlOf(RouterSlice) \in U
      BY <1>4, <2>3
    <3> HIDE DEF out, U
    <3>2. QED
      BY <2>1, <3>1
  <2>4. QED
    BY <2>2, <2>3
<1>7. Goal' = U
  BY <1>1, <1>3, <1>4 DEF Goal, ByStore, Here
<1>8. (service.routerState \in Here)' /\ (service.recognized = navigation.url)'
  BY <1>1, <1>3, <1>4 DEF Here
<1> HIDE DEF h, v, out, U
<1>9. Handle(service, events[1]) = Handler(v, out, FALSE)
  BY <1>3 DEF h
<1>10. /\ RouterInvariant' /\ ViewInvariant' /\ OrderInvariant'
       /\ ShownAfter(queue', agenda', UrlOf(RouterSlice)', U)
  BY <1>6, <1>9, HandledShows
<1>11. Shows(Goal)'
  BY <1>7, <1>10 DEF Shows
<1>12. QED
  BY <1>1, <1>2, <1>8, <1>10, <1>11 DEF MirrorInvariant

(* NavigationEnd: with the late timing the slice takes the target now,     *)
(* which the URL has reached.                                              *)
LEMMA EndMirrors ==
  ASSUME WholeInvariant, HandleEvent, events[1].kind = "end"
  PROVE  WholeInvariant'
<1> USE DEF WholeInvariant
<1> DEFINE h == Handle(service, events[1])
           shown == Action(ROUTER_NAVIGATION, events[1].id, service.recognized, Null)
           navigated == Action(ROUTER_NAVIGATED, events[1].id, url, Null)
           U == Here
           v == h.service
           out == IF ByStore THEN <<>>
                  ELSE IF late THEN <<shown>> \o <<navigated>> ELSE <<navigated>>
<1>1. /\ UNCHANGED <<url, navigation, late>>
      /\ events[1] \in Events /\ service \in Services /\ events # <<>>
      /\ queue = <<>> /\ agenda = <<>>
      /\ service' = h.service
  BY HandleEventFrame
<1>2. events' = <<>> /\ navigation' = Null
  BY <1>1, HandleEnd
<1>3. h = Handler(v, out, TRUE)
  <2>1. h = Handler(v, h.out, TRUE)
    BY <1>1, EndFacts
  <2>2. h.out = IF service.trigger = "STORE" THEN <<>>
                ELSE IF late THEN <<shown>> \o <<navigated>> ELSE <<navigated>>
    BY <1>1, EndFacts
  <2>3. h.out = out
    <3> HIDE DEF h, shown, navigated
    <3>1. QED
      BY <2>2 DEF ByStore
  <2> HIDE DEF h, out
  <2>4. QED
    BY <2>1, <2>3
<1>4. IF late /\ ~ByStore THEN service.recognized = url ELSE UrlOf(RouterSlice) \in Here
  BY <1>1, NothingWaits DEF MirrorInvariant, Shows
<1>5. /\ shown.type \in Reduced /\ shown.url = service.recognized
      /\ navigated.type \notin Reduced
  BY DEF Action, Reduced, ROUTER_NAVIGATED, ROUTER_NAVIGATION, ROUTER_CANCEL, ROUTER_ERROR
<1> HIDE DEF shown, navigated
<1>6. /\ out \in Seq({shown, navigated})
      /\ \A j \in DOMAIN out : out[j].type \in Reduced => out[j].url \in U /\ j = 1
      /\ UrlOf(RouterSlice) \in U \/ \E j \in DOMAIN out : out[j].type \in Reduced
  <2>1. /\ <<navigated>> \in Seq({shown, navigated}) /\ <<>> \in Seq({shown, navigated})
        /\ DOMAIN <<navigated>> = {1} /\ <<navigated>>[1] = navigated
        /\ DOMAIN <<>> = {}
    OBVIOUS
  <2>2. CASE late /\ ~ByStore
    <3>1. out = <<shown>> \o <<navigated>> /\ service.recognized \in U
      BY <1>4, <2>2 DEF Here
    <3>2. /\ out \in Seq({shown, navigated}) /\ Len(out) = 2
          /\ out[1] = shown /\ out[2] = navigated
      <4>1. shown \in {shown, navigated} /\ navigated \in {shown, navigated}
        OBVIOUS
      <4> HIDE DEF out
      <4>2. QED
        BY <3>1, <4>1, TwoFacts
    <3> HIDE DEF out, U
    <3>3. DOMAIN out = 1 .. 2
      BY <3>2, LenProperties
    <3>4. 1 \in DOMAIN out /\ \A j \in DOMAIN out : j = 1 \/ j = 2
      BY <3>3
    <3>5. QED
      BY <1>5, <3>1, <3>2, <3>4
  <2>3. CASE ~late /\ ~ByStore
    <3>1. out = <<navigated>> /\ UrlOf(RouterSlice) \in U
      BY <1>4, <2>3
    <3> HIDE DEF out, U
    <3>2. QED
      BY <1>5, <2>1, <3>1
  <2>4. CASE ByStore
    <3>1. out = <<>> /\ UrlOf(RouterSlice) \in U
      BY <1>4, <2>4
    <3> HIDE DEF out, U
    <3>2. QED
      BY <2>1, <3>1
  <2>5. QED
    BY <2>2, <2>3, <2>4
<1>7. Here' = U
  BY <1>1 DEF Here
<1> HIDE DEF h, v, out, U
<1>8. Handle(service, events[1]) = Handler(v, out, TRUE)
  BY <1>3 DEF h
<1>9. /\ RouterInvariant' /\ ViewInvariant' /\ OrderInvariant'
      /\ ShownAfter(queue', agenda', UrlOf(RouterSlice)', U)
  BY <1>6, <1>8, HandledShows
<1>10. Shows(Here)'
  BY <1>7, <1>9 DEF Shows
<1>11. QED
  BY <1>2, <1>9, <1>10 DEF MirrorInvariant

(* A failure: the slice takes the URL back that the service kept at the    *)
(* start.                                                                  *)
LEMMA FailureMirrors ==
  ASSUME WholeInvariant, HandleEvent, events[1].kind \in Failures
  PROVE  WholeInvariant'
<1> USE DEF WholeInvariant
<1> DEFINE h == Handle(service, events[1])
           failure == Action(events[1].kind, events[1].id, service.routerState, service.storeState)
           U == Here
           v == h.service
           out == <<failure>>
<1>1. /\ UNCHANGED <<url, navigation, late>>
      /\ events[1] \in Events /\ service \in Services /\ events # <<>>
      /\ queue = <<>> /\ agenda = <<>>
      /\ service' = h.service
  BY HandleEventFrame
<1>2. IF Len(events) = 1 THEN events' = <<>> /\ navigation' = Null
      ELSE events' # <<>> /\ events'[1].kind = "start" /\ navigation' # Null
  <2>1. CASE Len(events) = 1
    BY <1>1, <2>1, HandleFailure
  <2>2. CASE Len(events) # 1
    <3>1. Len(events') = 1 /\ events'[1].kind = "start" /\ navigation # Null
      BY <2>2, HandleFailure
    <3>2. events' # <<>>
      BY <3>1
    <3>3. QED
      BY <1>1, <2>2, <3>1, <3>2
  <2>3. QED
    BY <2>1, <2>2
<1>13. /\ h = Handler(h.service, h.out, TRUE)
       /\ h.out = <<failure>>
  BY <1>1, FailureFacts
<1>3. h = Handler(v, out, TRUE)
  BY <1>13
<1>4. /\ service.routerState \in Here
      /\ navigation # Null => navigation.stage = "started"
  BY <1>1 DEF MirrorInvariant
<1>5. failure.type \in Reduced /\ failure.url \in U
  BY <1>4 DEF Action, Reduced, Failures
<1> HIDE DEF failure
<1>6. /\ out \in Seq({failure})
      /\ \A j \in DOMAIN out : out[j].type \in Reduced => out[j].url \in U /\ j = 1
      /\ UrlOf(RouterSlice) \in U \/ \E j \in DOMAIN out : out[j].type \in Reduced
  <2>1. out \in Seq({failure}) /\ DOMAIN out = {1} /\ out[1] = failure
    OBVIOUS
  <2> HIDE DEF out, U
  <2>2. QED
    BY <1>5, <2>1
<1>7. Here' = U
  BY <1>1 DEF Here
<1> HIDE DEF h, v, out, U
<1>8. Handle(service, events[1]) = Handler(v, out, TRUE)
  BY <1>3 DEF h
<1>9. /\ RouterInvariant' /\ ViewInvariant' /\ OrderInvariant'
      /\ ShownAfter(queue', agenda', UrlOf(RouterSlice)', U)
  BY <1>6, <1>8, HandledShows
<1>10. Shows(Here)'
  BY <1>7, <1>9 DEF Shows
<1>11. MirrorInvariant'
  BY <1>1, <1>2, <1>4, <1>10 DEF MirrorInvariant, Failures, ROUTER_CANCEL, ROUTER_ERROR
<1>12. QED
  BY <1>9, <1>11

(* The listener of router events, whichever the event is.                  *)
LEMMA HandleEventMirrors ==
  ASSUME WholeInvariant, HandleEvent
  PROVE  WholeInvariant'
<1>1. RouterInvariant
  BY DEF WholeInvariant
<1>2. events[1].kind \in {"start", "recognized", "end"} \cup Failures
  BY <1>1, HandleEventFrame DEF Events, Kinds
<1>3. QED
  BY <1>2, StartMirrors, RecognizedMirrors, EndMirrors, FailureMirrors

(* The handler's next step: a dispatch moves an action from the agenda to  *)
(* the queue.                                                              *)
LEMMA HandlerStepMirrors ==
  ASSUME WholeInvariant, Payloads \subseteq Types, HandlerStep
  PROVE  WholeInvariant'
<1> USE DEF WholeInvariant
<1>1. /\ UNCHANGED <<log, url, navigation, navigations, state, events,
                     phase, cur, alive, observers, todo, selected, late>>
      /\ Idle /\ phase = "idle" /\ queue = <<>> /\ cur = Nobody
      /\ agenda \in Seq(Todo(startedAt)) /\ agenda # <<>> /\ agenda' = Tail(agenda)
      /\ Len(agenda) \in Nat /\ agenda' \in Seq(Todo(startedAt))
      /\ Len(agenda') = Len(agenda) - 1
      /\ \A i \in 1 .. Len(agenda') : agenda'[i] = agenda[i + 1]
      /\ service \in Services
      /\ \/ /\ agenda[1].do = "dispatch"
            /\ agenda[1].action \in Own(startedAt)
            /\ service' = [service EXCEPT !.trigger = "ROUTER"]
            /\ queue' = IF alive THEN Append(<<>>, agenda[1].action) ELSE <<>>
         \/ /\ agenda[1].do # "dispatch"
            /\ \/ service' = [service EXCEPT !.trigger = "NONE"]
               \/ service' = Reset(service)
            /\ queue' = <<>>
  BY HandlerStepFacts
<1>2. alive /\ Connected /\ Connected'
  BY <1>1 DEF ViewInvariant, Connected
<1>3. queue' = IF agenda[1].do = "dispatch" THEN Append(<<>>, agenda[1].action) ELSE <<>>
  BY <1>1, <1>2
<1>4. INIT_TYPE \notin Own(startedAt)
  BY RouterAssumption DEF Own
<1>5. \A U : Shows(U) => ShownAfter(queue', agenda', UrlOf(RouterSlice)', U)
  <2> SUFFICES ASSUME NEW U, Shows(U) PROVE ShownAfter(queue', agenda', UrlOf(RouterSlice)', U)
    OBVIOUS
  <2>1. ShownAfter(<<>>, agenda, UrlOf(RouterSlice), U)
    BY <1>1 DEF Shows
  <2>2. ShownAfter(queue', Tail(agenda), UrlOf(RouterSlice), U)
    BY <1>1, <1>3, <1>4, <2>1, EntryShows
  <2>3. QED
    BY <1>1, <2>2, SliceSame
<1>6. /\ service'.routerState \in {service.routerState, Null}
      /\ service'.recognized = service.recognized
      /\ service'.trigger \in {"NONE", "ROUTER"}
  BY <1>1 DEF Services, Reset
<1>7. RouterInvariant'
  BY HandlerStepKeeps
<1>8. ViewInvariant'
  <2>1. listeners' = listeners
    BY DEF HandlerStep, StoreUnchanged, subscriptions
  <2>2. RouterSlice' = RouterSlice
    BY <1>1, SliceSame
  <2>3. QED
    BY <1>1, <1>2, <2>1, <2>2 DEF ViewInvariant
<1>9. OrderInvariant'
  <2>1. \A i \in DOMAIN queue' : i = 1
    <3>1. CASE queue' = <<>>
      BY <3>1
    <3>2. CASE queue' = Append(<<>>, agenda[1].action)
      <4>1. Len(queue') = 1 /\ queue' \in Seq({agenda[1].action})
        BY <3>2, OneFacts
      <4>2. DOMAIN queue' = 1 .. 1
        BY <4>1, LenProperties
      <4>3. QED
        BY <4>2
    <3>3. QED
      BY <1>3, <3>1, <3>2
  <2>2. \A i \in DOMAIN agenda' : i + 1 \in DOMAIN agenda /\ i + 1 # 1 /\ agenda'[i] = agenda[i + 1]
    BY <1>1, LenProperties
  <2>3. \A i \in DOMAIN agenda' : ~Dispatches(agenda'[i])
    BY <2>2 DEF OrderInvariant
  <2>4. QED
    BY <1>1, <2>1, <2>3 DEF OrderInvariant
<1>10. Here' = Here /\ ~ByStore'
  BY <1>1, <1>6 DEF Here, ByStore
<1>11. ~Awaiting
  BY <1>1 DEF Awaiting
<1>12. CASE navigation = Null /\ events = <<>>
  <2>1. Shows(Here)
    BY <1>11, <1>12 DEF MirrorInvariant
  <2>2. Shows(Here)'
    BY <1>5, <1>10, <2>1 DEF Shows
  <2>3. QED
    BY <1>1, <1>7, <1>8, <1>9, <1>12, <2>2 DEF MirrorInvariant
<1>13. CASE navigation # Null /\ events = <<>>
  <2>1. ~ByStore
    BY <1>1, <1>13 DEF RouterInvariant, EventsInvariant, ByStore, Pending
  <2>2. Goal' = Goal
    BY <1>1, <1>10, <2>1 DEF Goal
  <2>3. /\ service.routerState \in Here /\ Shows(Goal)
        /\ navigation.stage = "recognized" => service.recognized = navigation.url
    BY <1>13 DEF MirrorInvariant
  <2>4. Shows(Goal)'
    BY <1>5, <2>2, <2>3 DEF Shows
  <2>5. (service.routerState \in Here)'
    BY <1>6, <1>10, <2>3 DEF Here
  <2>6. QED
    BY <1>1, <1>6, <1>7, <1>8, <1>9, <1>13, <2>3, <2>4, <2>5 DEF MirrorInvariant
<1>14. CASE events # <<>>
  <2>1. events[1].kind = "start"
    BY <1>1, <1>14 DEF RouterInvariant, AgendaInvariant
  <2>2. navigation.stage = "started" /\ Shows(Here)
    BY <1>14, <2>1 DEF MirrorInvariant
  <2>3. Shows(Here)'
    BY <1>5, <1>10, <2>2 DEF Shows
  <2>4. QED
    BY <1>1, <1>7, <1>8, <1>9, <1>14, <2>1, <2>2, <2>3 DEF MirrorInvariant, Failures,
       ROUTER_CANCEL, ROUTER_ERROR
<1>15. QED
  BY <1>12, <1>13, <1>14

(* The effect navigates inside a flush: a cancellation takes the slice     *)
(* back before the new navigation starts.                                  *)
LEMMA EffectNavigatesMirrors ==
  ASSUME WholeInvariant, Payloads \subseteq Types, NEW target \in Urls,
         EffectNavigates(target)
  PROVE  WholeInvariant'
<1> USE DEF WholeInvariant
<1>1. /\ UNCHANGED <<log, url, events, state, phase, cur, alive, observers, todo,
                     selected, late, agenda>>
      /\ phase # "idle" /\ ~Idle /\ agenda # <<>> /\ events = <<>>
      /\ navigation' # Null /\ navigation'.stage = "started"
      /\ service'.trigger = "NONE" /\ service'.routerState = url
  BY EffectNavigatesFacts
<1>2. PICK added \in Seq(Own(startedAt)) :
         /\ queue' = queue \o added
         /\ \A i \in DOMAIN added :
              \/ added[i].type = ROUTER_REQUEST
              \/ added[i].type = ROUTER_CANCEL /\ added[i].url = service.routerState /\ navigation # Null
         /\ navigation # Null => added # <<>> /\ added[1].type = ROUTER_CANCEL
  BY EffectNavigatesFacts
<1>3. navigation # Null => service.routerState \in Here
  BY <1>1 DEF MirrorInvariant
<1>4. queue \in Seq(Own(startedAt) \cup {INIT_TYPE})
  BY DEF RouterInvariant, RouterTypeOK
<1>5. /\ Len(queue) \in Nat /\ Len(added) \in Nat
      /\ DOMAIN queue = 1 .. Len(queue) /\ DOMAIN added = 1 .. Len(added)
      /\ DOMAIN queue' = 1 .. Len(queue) + Len(added)
      /\ \A i \in 1 .. Len(queue) : queue'[i] = queue[i]
      /\ \A i \in 1 .. Len(added) : queue'[Len(queue) + i] = added[i]
  <2>1. added \in Seq(Own(startedAt) \cup {INIT_TYPE})
    BY SeqMonotonic
  <2>2. /\ queue' \in Seq(Own(startedAt) \cup {INIT_TYPE})
        /\ Len(queue') = Len(queue) + Len(added)
        /\ \A i \in 1 .. Len(queue) + Len(added) :
             queue'[i] = IF i <= Len(queue) THEN queue[i] ELSE added[i - Len(queue)]
    BY <1>2, <1>4, <2>1, ConcatProperties
  <2>3. /\ Len(queue) \in Nat /\ Len(added) \in Nat
        /\ DOMAIN queue = 1 .. Len(queue) /\ DOMAIN added = 1 .. Len(added)
        /\ DOMAIN queue' = 1 .. Len(queue')
    BY <1>4, <2>1, <2>2, LenProperties
  <2>4. \A i \in 1 .. Len(queue) : queue'[i] = queue[i]
    BY <2>2, <2>3
  <2>5. ASSUME NEW i \in 1 .. Len(added) PROVE queue'[Len(queue) + i] = added[i]
    <3>1. /\ Len(queue) + i \in 1 .. Len(queue) + Len(added)
          /\ ~(Len(queue) + i <= Len(queue)) /\ (Len(queue) + i) - Len(queue) = i
      BY <2>3
    <3>2. QED
      BY <2>2, <3>1
  <2>6. QED
    BY <2>2, <2>3, <2>4, <2>5
<1>6. \A i \in DOMAIN queue' :
         \/ i \in DOMAIN queue /\ queue'[i] = queue[i]
         \/ \E j \in DOMAIN added : queue'[i] = added[j]
  <2> SUFFICES ASSUME NEW i \in DOMAIN queue'
               PROVE  \/ i \in DOMAIN queue /\ queue'[i] = queue[i]
                      \/ \E j \in DOMAIN added : queue'[i] = added[j]
    OBVIOUS
  <2>1. CASE i <= Len(queue)
    BY <1>5, <2>1
  <2>2. CASE ~(i <= Len(queue))
    <3>1. i - Len(queue) \in 1 .. Len(added) /\ Len(queue) + (i - Len(queue)) = i
      BY <1>5, <2>2
    <3>2. queue'[i] = added[i - Len(queue)]
      BY <1>5, <3>1
    <3>3. QED
      BY <1>5, <3>1, <3>2
  <2>3. QED
    BY <2>1, <2>2
<1>7. \A j \in DOMAIN added : IsReduced(added[j]) => added[j].url \in Here
  BY <1>2, <1>3 DEF IsReduced, Reduced, ROUTER_REQUEST, ROUTER_NAVIGATION, ROUTER_CANCEL,
     ROUTER_ERROR
<1>8. \A i \in DOMAIN queue : IsReduced(queue[i]) => queue[i].url \in Here
  BY <1>1 DEF OrderInvariant
<1>9. \A i \in DOMAIN queue' : IsReduced(queue'[i]) => queue'[i].url \in Here
  BY <1>6, <1>7, <1>8
<1>10. Here' = Here
  BY <1>1 DEF Here
<1>11. \A i \in DOMAIN agenda : ~Dispatches(agenda[i])
  BY <1>1 DEF OrderInvariant
<1>12. UrlOf(RouterSlice) \in Here \/ \E i \in DOMAIN queue' : IsReduced(queue'[i])
  <2>1. CASE navigation # Null
    <3>1. 1 \in DOMAIN added
      BY <1>2, <1>5, <2>1
    <3>2. added[1] # INIT_TYPE
      <4>1. added[1] \in Own(startedAt)
        BY <1>5, <3>1, ElementOfSeq
      <4>2. QED
        BY <4>1, RouterAssumption DEF Own
    <3>3. IsReduced(added[1])
      BY <1>2, <2>1, <3>2 DEF IsReduced, Reduced
    <3>4. Len(queue) + 1 \in DOMAIN queue' /\ queue'[Len(queue) + 1] = added[1]
      BY <1>5, <3>1
    <3>5. QED
      BY <3>3, <3>4
  <2>2. CASE navigation = Null
    <3>1. Shows(Here)
      BY <1>1, <2>2 DEF MirrorInvariant, Awaiting
    <3>2. UrlOf(RouterSlice) \in Here \/ \E i \in DOMAIN queue : IsReduced(queue[i])
      BY <1>11, <3>1 DEF Shows, ShownAfter
    <3>3. \A i \in DOMAIN queue : i \in DOMAIN queue' /\ queue'[i] = queue[i]
      BY <1>5
    <3>4. QED
      BY <3>2, <3>3
  <2>3. QED
    BY <2>1, <2>2
<1>13. Shows(Here)'
  <2>1. ShownAfter(queue', agenda, UrlOf(RouterSlice), Here)
    BY <1>9, <1>11, <1>12 DEF ShownAfter
  <2>2. QED
    BY <1>1, <1>10, <2>1, SliceSame DEF Shows
<1>14. RouterInvariant'
  BY EffectNavigatesStep
<1>15. ViewInvariant'
  <2>1. RouterSlice' = RouterSlice /\ Connected
    BY <1>1, SliceSame DEF ViewInvariant
  <2>2. listeners' = listeners
    BY DEF EffectNavigates, StoreUnchanged, subscriptions
  <2>3. QED
    BY <1>1, <2>1, <2>2 DEF ViewInvariant, Connected
<1>16. OrderInvariant'
  BY <1>1, <1>9, <1>10, <1>11 DEF OrderInvariant
<1>17. MirrorInvariant'
  BY <1>1, <1>13 DEF MirrorInvariant, Goal, ByStore, Here
<1>18. QED
  BY <1>14, <1>15, <1>16, <1>17

(* The listener of the state: where the slice left the router's URL it     *)
(* navigates to what the slice shows.                                      *)
LEMMA StateListenerMirrors ==
  ASSUME WholeInvariant, StateListener
  PROVE  WholeInvariant'
<1> USE DEF WholeInvariant
<1>1. /\ UNCHANGED <<queue, log, url, events, state, phase, cur, alive, observers, todo,
                     late, agenda>>
      /\ cur = Service /\ phase # "idle" /\ ~Idle
      /\ selected # RouterSlice /\ selected' = RouterSlice
      /\ \/ ~Needed /\ UNCHANGED <<navigation, navigations, startedAt, service>>
         \/ /\ Needed
            /\ agenda = <<>> /\ events = <<>> /\ navigation = Null /\ queue = <<>>
            /\ navigation' \in Navigations /\ navigation' # Null
            /\ navigation'.url = UrlOf(RouterSlice)
            /\ navigation'.stage = "started"
            /\ service'.trigger = "STORE"
            /\ service'.routerState = url
  BY StateListenerFacts
<1>2. RouterInvariant'
  BY StateListenerStep
<1>3. RouterSlice' = RouterSlice /\ UrlOf(RouterSlice)' = UrlOf(RouterSlice) /\ Connected
  BY <1>1, SliceSame DEF ViewInvariant
<1>4. ViewInvariant'
  <2>1. listeners' = listeners
    BY DEF StateListener, StoreUnchanged, subscriptions
  <2>2. QED
    BY <1>1, <1>3, <2>1 DEF ViewInvariant, Connected
<1>5. Idle' = Idle
  BY <1>1 DEF Idle, StateListener, StoreUnchanged, status, Flushing
<1>6. OrderInvariant'
  BY <1>1, <1>5 DEF OrderInvariant, Here
<1>7. CASE ~Needed /\ UNCHANGED <<navigation, navigations, startedAt, service>>
  <2>1. ASSUME navigation = Null, events = <<>> PROVE Shows(Here)
    <3>1. CASE Awaiting
      <4>1. /\ agenda = <<>> /\ queue = <<>> /\ service.lastEvent # "start"
        BY <1>1, <3>1 DEF Awaiting
      <4>2. service.trigger # "ROUTER"
        BY <4>1 DEF RouterInvariant, AgendaInvariant
      <4>3. UrlOf(RouterSlice) \in Here
        BY <1>7, <4>1, <4>2 DEF Needed, Here
      <4>4. QED
        BY <4>1, <4>3, NothingWaits DEF Shows
    <3>2. CASE ~Awaiting
      BY <2>1, <3>2 DEF MirrorInvariant
    <3>3. QED
      BY <3>1, <3>2
  <2>2. /\ Shows(Here)' <=> Shows(Here)
        /\ Shows(Goal)' <=> Shows(Goal)
        /\ Shows(IF ByStore THEN {navigation.url} ELSE Here)'
             <=> Shows(IF ByStore THEN {navigation.url} ELSE Here)
    BY <1>1, <1>3, <1>7 DEF Shows, Here, Goal, ByStore
  <2>3. MirrorInvariant'
    BY <1>1, <1>7, <2>1, <2>2 DEF MirrorInvariant, Here, ByStore
  <2>4. QED
    BY <1>2, <1>4, <1>6, <2>3
<1>8. CASE /\ agenda = <<>> /\ events = <<>> /\ queue = <<>>
           /\ navigation' # Null
           /\ navigation'.url = UrlOf(RouterSlice)
           /\ navigation'.stage = "started"
           /\ service'.trigger = "STORE"
           /\ service'.routerState = url
  <2>1. Shows(Goal)'
    BY <1>1, <1>3, <1>8, NothingWaits DEF Shows, Goal, ByStore
  <2>2. MirrorInvariant'
    BY <1>1, <1>8, <2>1 DEF MirrorInvariant, Here
  <2>3. QED
    BY <1>2, <1>4, <1>6, <2>2
<1>9. QED
  BY <1>1, <1>7, <1>8

(* Nothing is flushed when nothing waits and no callback runs.             *)
LEMMA IdleStays ==
  ASSUME RouterInvariant, RouterFlush, Idle
  PROVE  Idle' /\ UNCHANGED <<queue, log, state, phase>>
<1>1. FlushInvariant /\ FlushInvariant' /\ Flush
  BY RouterFlushStep DEF RouterInvariant, RouterFlush
<1>2. phase = "idle" /\ queue = <<>> /\ cur = Nobody
  BY <1>1, IdleFacts DEF FlushInvariant
<1>3. UNCHANGED <<queue, log, state, phase>>
  BY <1>1, <1>2, FlushFacts
<1>4. QED
  BY <1>1, <1>2, <1>3, IdleFactsNext

(* The reducers answer to the action at the head of the queue.             *)
LEMMA ScanMirrors ==
  ASSUME WholeInvariant, Payloads \subseteq Types, RouterFlush,
         phase = "idle", phase' = "state", queue # <<>>,
         queue' = Tail(queue), log' = Append(log, Head(queue)),
         RouterSlice' = Reduce(RouterKey, RouterSlice, Head(queue)),
         todo' = observers,
         UNCHANGED <<cur, alive, observers, listeners>>
  PROVE  WholeInvariant'
<1> USE DEF WholeInvariant
<1>1. RouterInvariant' /\ UNCHANGED routerVars
  BY RouterFlushStep DEF RouterFlush
<1>2. queue \in Seq(Own(startedAt) \cup {INIT_TYPE})
  BY DEF RouterInvariant, RouterTypeOK
<1>3. /\ Head(queue) = queue[1] /\ Head(queue) \in Own(startedAt) \cup {INIT_TYPE}
      /\ Len(queue) \in Nat /\ Len(queue') = Len(queue) - 1
      /\ DOMAIN queue = 1 .. Len(queue) /\ DOMAIN queue' = 1 .. Len(queue')
      /\ \A i \in 1 .. Len(queue') : queue'[i] = queue[i + 1]
  <2>1. Head(queue) = queue[1]
    BY <1>2
  <2>2. /\ Head(queue) \in Own(startedAt) \cup {INIT_TYPE}
        /\ queue' \in Seq(Own(startedAt) \cup {INIT_TYPE})
    BY <1>2, HeadTailProperties
  <2>3. QED
    BY <1>2, <2>1, <2>2, HeadTailProperties, LenProperties
<1> DEFINE a == Head(queue)
<1>4. a \in Handles[RouterKey] <=> IsReduced(a)
  BY <1>3, OwnTypes
<1>5. IF IsReduced(a)
      THEN RouterSlice' = Append(RouterSlice, Version + 1) /\ UrlOf(RouterSlice)' = a.url
      ELSE RouterSlice' = RouterSlice /\ UrlOf(RouterSlice)' = UrlOf(RouterSlice)
  <2>1. RouterTypeOK
    BY DEF RouterInvariant
  <2> HIDE DEF a
  <2>2. a \in Own(startedAt) \cup {INIT_TYPE} /\ log' = Append(log, a)
        /\ RouterSlice' = Reduce(RouterKey, RouterSlice, a)
    BY <1>3 DEF a
  <2>3. QED
    BY <1>4, <2>1, <2>2, ReducedType
<1>6. \A i \in DOMAIN queue' : i + 1 \in DOMAIN queue /\ i + 1 > 1 /\ queue'[i] = queue[i + 1]
  BY <1>3
<1>7. ViewInvariant'
  <2>1. /\ observers \in Seq(Observers) /\ cur # Service
    BY StoreAssumption, RouterAssumption DEF ViewInvariant, RouterInvariant, FlushInvariant
  <2>2. todo' \in Seq(Observers \cup Listeners)
    BY <2>1, SeqMonotonic
  <2>3. CASE Connected
    <3>1. Contains(todo', Service) /\ Connected'
      BY <2>3 DEF Connected
    <3>2. QED
      BY <1>1, <2>1, <2>2, <3>1 DEF ViewInvariant, Connected
  <2>4. CASE ~Connected
    <3>1. \A n \in DOMAIN queue : queue[n] = INIT_TYPE
      BY <2>4 DEF ViewInvariant
    <3>2. \A n \in DOMAIN queue' : queue'[n] = INIT_TYPE
      BY <1>6, <3>1
    <3>3. a = INIT_TYPE
      BY <1>3, <3>1
    <3>4. RouterSlice' = RouterSlice
      BY <1>5, <3>3 DEF IsReduced
    <3>5. QED
      BY <1>1, <2>1, <2>2, <2>4, <3>2, <3>4 DEF ViewInvariant, Connected, routerVars
  <2>5. QED
    BY <2>3, <2>4
<1>8. ~Idle
  BY IdleFacts DEF RouterInvariant
<1>9. Here' = Here
  BY <1>1 DEF Here, routerVars
<1>10. OrderInvariant'
  BY <1>1, <1>6, <1>8, <1>9 DEF OrderInvariant, routerVars
<1>11. \A U : Shows(U) => ShownAfter(queue', agenda', UrlOf(RouterSlice)', U)
  <2> SUFFICES ASSUME NEW U, Shows(U)
               PROVE  ShownAfter(queue', agenda', UrlOf(RouterSlice)', U)
    OBVIOUS
  <2>1. UrlOf(RouterSlice)' = IF IsReduced(Head(queue)) THEN Head(queue).url ELSE UrlOf(RouterSlice)
    BY <1>5
  <2>2. ShownAfter(Tail(queue), agenda, UrlOf(RouterSlice)', U)
    BY <1>2, <2>1, ScanShows DEF Shows
  <2>3. QED
    BY <1>1, <2>2 DEF routerVars
<1>12. Awaiting => Awaiting'
  <2> SUFFICES ASSUME Awaiting PROVE Awaiting'
    OBVIOUS
  <2>1. /\ agenda = <<>> /\ service.lastEvent # "start" /\ Connected
        /\ queue[1] # INIT_TYPE
    BY DEF Awaiting
  <2>2. Len(queue) = 1 /\ queue[1].type = "jump"
    BY <2>1 DEF RouterInvariant, AgendaInvariant, Quiet
  <2>3. IsReduced(a)
    BY <1>3, <2>1, <2>2 DEF IsReduced, Reduced
  <2>4. selected = RouterSlice
    BY <2>1 DEF ViewInvariant
  <2>5. RouterSlice' # RouterSlice
    <3>1. RouterSlice \in Seq(Nat) /\ Version \in Nat
      BY LenProperties DEF RouterInvariant, RouterTypeOK, Version
    <3>2. Len(RouterSlice') = Len(RouterSlice) + 1 /\ Len(RouterSlice) \in Nat
      BY <1>5, <2>3, <3>1, AppendProperties, LenProperties
    <3>3. QED
      BY <3>2
  <2>6. queue' = <<>>
    <3>1. Len(queue') = 0
      BY <1>3, <2>2
    <3>2. queue' \in Seq(Own(startedAt) \cup {INIT_TYPE})
      BY <1>2, HeadTailProperties
    <3>3. QED
      BY <3>1, <3>2, EmptySeq
  <2>7. QED
    BY <1>1, <2>1, <2>4, <2>5, <2>6 DEF Awaiting, routerVars, Connected
<1>13. MirrorInvariant'
  <2>1. /\ Goal' = Goal /\ ByStore' = ByStore
    BY <1>1, <1>9 DEF Goal, ByStore, routerVars
  <2>2. /\ Shows(Here) => Shows(Here)'
        /\ Shows(Goal) => Shows(Goal)'
        /\ Shows(IF ByStore THEN {navigation.url} ELSE Here)
             => Shows(IF ByStore THEN {navigation.url} ELSE Here)'
    <3>1. Shows(Here) => Shows(Here)'
      BY <1>9, <1>11 DEF Shows
    <3>2. Shows(Goal) => Shows(Goal)'
      BY <1>11, <2>1 DEF Shows
    <3> DEFINE U == IF ByStore THEN {navigation.url} ELSE Here
    <3>3. U' = U
      BY <1>1, <1>9, <2>1 DEF routerVars
    <3>4. Shows(U) => ShownAfter(queue', agenda', UrlOf(RouterSlice)', U)
      BY <1>11
    <3> HIDE DEF U
    <3>5. Shows(U) => Shows(U)'
      BY <3>3, <3>4 DEF Shows
    <3>6. QED
      BY <3>1, <3>2, <3>5 DEF U
  <2>3. QED
    BY <1>1, <1>9, <1>12, <2>1, <2>2 DEF MirrorInvariant, routerVars
<1>14. QED
  BY <1>1, <1>7, <1>10, <1>13

(* Calling subscribers and their return: the service is called before the  *)
(* state's next() is over, and does not return before it has looked.       *)
LEMMA CallMirrors ==
  ASSUME WholeInvariant, RouterFlush,
         UNCHANGED <<queue, log, state, alive, observers, listeners>>,
         \/ /\ phase \in {"state", "scanned"} /\ phase' = phase /\ cur = Nobody
            /\ todo # <<>> /\ cur' = Head(todo) /\ todo' = Tail(todo)
            /\ IF phase = "state" THEN Contains(observers, Head(todo))
                                  ELSE Contains(listeners, Head(todo))
         \/ /\ todo # <<>> /\ todo' = Tail(todo) /\ UNCHANGED <<phase, cur>>
            /\ ~Contains(observers, Head(todo))
         \/ /\ cur # Nobody /\ cur' = Nobody /\ UNCHANGED <<phase, todo>>
         \/ /\ phase \in {"state", "scanned"} /\ CalledAll /\ cur' = Nobody
            /\ IF phase = "state" THEN phase' = "scanned" /\ todo' = listeners
                                  ELSE phase' = "idle" /\ todo' = todo
  PROVE  WholeInvariant'
<1> USE DEF WholeInvariant
<1>1. RouterInvariant' /\ UNCHANGED routerVars /\ (cur = Service => selected = RouterSlice)
  BY RouterFlushStep DEF RouterFlush
<1>2. RouterSlice' = RouterSlice /\ (Connected' <=> Connected)
  BY SliceSame DEF Connected
<1>3. Service \notin Listeners /\ Service # Nobody /\ Service \in Observers
  BY StoreAssumption, RouterAssumption
<1>4. /\ todo \in Seq(Observers \cup Listeners)
      /\ phase = "scanned" => todo \in Seq(Listeners)
      /\ observers \in Seq(Observers) /\ listeners \in Seq(Listeners)
      /\ phase = "idle" => cur = Nobody
  BY DEF ViewInvariant, RouterInvariant, FlushInvariant
<1>5. todo # <<>> =>
        /\ Tail(todo) \in Seq(Observers \cup Listeners)
        /\ phase = "scanned" => Tail(todo) \in Seq(Listeners) /\ Head(todo) # Service
        /\ Contains(todo, Service) => Head(todo) = Service \/ Contains(Tail(todo), Service)
  <2> SUFFICES ASSUME todo # <<>>
               PROVE  /\ Tail(todo) \in Seq(Observers \cup Listeners)
                      /\ phase = "scanned" => Tail(todo) \in Seq(Listeners) /\ Head(todo) # Service
                      /\ Contains(todo, Service) => Head(todo) = Service \/ Contains(Tail(todo), Service)
    OBVIOUS
  <2>1. /\ Tail(todo) \in Seq(Observers \cup Listeners)
        /\ Head(todo) = todo[1]
        /\ Len(todo) \in Nat /\ Len(Tail(todo)) = Len(todo) - 1
        /\ \A i \in 1 .. Len(Tail(todo)) : Tail(todo)[i] = todo[i + 1]
    BY <1>4, HeadTailProperties, LenProperties
  <2>2. phase = "scanned" => Tail(todo) \in Seq(Listeners) /\ Head(todo) # Service
    BY <1>3, <1>4, HeadTailProperties
  <2>3. ASSUME Contains(todo, Service), todo[1] # Service PROVE Contains(Tail(todo), Service)
    <3>1. PICK i \in 1 .. Len(todo) : todo[i] = Service
      BY <2>3 DEF Contains
    <3>2. i - 1 \in 1 .. Len(Tail(todo)) /\ (i - 1) + 1 = i
      BY <2>1, <2>3, <3>1
    <3>3. Tail(todo)[i - 1] = Service
      BY <2>1, <3>1, <3>2
    <3>4. QED
      BY <3>2, <3>3 DEF Contains
  <2>4. QED
    BY <2>1, <2>2, <2>3
<1>6. ~Contains(<<>>, Service)
  BY DEF Contains
<1>7. ViewInvariant'
  <2>1. /\ todo' \in Seq(Observers \cup Listeners)
        /\ phase' = "scanned" => todo' \in Seq(Listeners)
    <3>1. listeners \in Seq(Observers \cup Listeners)
      BY <1>4, SeqMonotonic
    <3>2. QED
      BY <1>4, <1>5, <3>1
  <2>2. cur' = Service => Connected
    BY <1>3, <1>5 DEF ViewInvariant, Connected
  <2>3. ASSUME Connected, selected # RouterSlice
        PROVE  phase' = "state" /\ (Contains(todo', Service) \/ cur' = Service)
    <3>1. phase = "state" /\ (Contains(todo, Service) \/ cur = Service) /\ cur # Service
      BY <1>1, <2>3 DEF ViewInvariant
    <3>2. Contains(observers, Service)
      BY <2>3 DEF Connected
    <3>3. todo # <<>>
      BY <1>6, <3>1
    <3>4. QED
      BY <1>5, <3>1, <3>2, <3>3 DEF CalledAll
  <2>4. QED
    BY <1>1, <1>2, <1>4, <2>1, <2>2, <2>3 DEF ViewInvariant, routerVars
<1>8. Here' = Here
  BY <1>1 DEF Here, routerVars
<1>9. phase = "idle" => phase' = "idle"
  BY DEF CalledAll
<1>10. OrderInvariant'
  BY <1>1, <1>8, <1>9, IdleStays DEF OrderInvariant, routerVars
<1>11. Awaiting => Awaiting'
  <2> SUFFICES ASSUME Awaiting PROVE Awaiting'
    OBVIOUS
  <2>1. phase' = phase
    <3>1. CASE phase = "idle"
      BY <1>9, <3>1
    <3>2. CASE phase = "state"
      <4>1. selected # RouterSlice /\ Connected
        BY <3>2 DEF Awaiting
      <4>2. phase' = "state"
        BY <1>1, <1>2, <4>1, <1>7 DEF ViewInvariant, routerVars
      <4>3. QED
        BY <3>2, <4>2
    <3>3. QED
      BY <3>1, <3>2 DEF Awaiting
  <2>2. QED
    BY <1>1, <1>2, <2>1 DEF Awaiting, routerVars
<1>12. MirrorInvariant'
  BY <1>1, <1>11, MirrorFrame DEF routerVars
<1>13. QED
  BY <1>1, <1>7, <1>10, <1>12

(* The flush of the store goes on.                                         *)
LEMMA RouterFlushMirrors ==
  ASSUME WholeInvariant, Payloads \subseteq Types, Throwing = {}, RouterFlush
  PROVE  WholeInvariant'
<1>1. FlushInvariant /\ Flush
  BY DEF WholeInvariant, RouterInvariant, RouterFlush
<1>2. /\ listeners' = listeners
      /\ phase = "state" /\ phase' = "scanned" => todo' = listeners
      /\ phase = "scanned" /\ phase' = "idle" => todo' = todo
  BY <1>1 DEF Flush, Scan, ReducerThrows, ErrorNotification, NotifyObserver, NotifyListener,
     SkipClosed, CallbackReturns, EmitScanned, Flushed, flow, subscriptions, Runnable
<1>3. /\ observers' = observers
      /\ \/ /\ phase = "idle" /\ phase' = "state" /\ queue # <<>>
            /\ queue' = Tail(queue) /\ log' = Append(log, Head(queue))
            /\ RouterSlice' = Reduce(RouterKey, RouterSlice, Head(queue))
            /\ todo' = observers
            /\ UNCHANGED <<cur, alive>>
         \/ /\ UNCHANGED <<queue, log, state, alive>>
            /\ \/ /\ phase \in {"state", "scanned"} /\ phase' = phase /\ cur = Nobody
                  /\ todo # <<>> /\ cur' = Head(todo) /\ todo' = Tail(todo)
                  /\ IF phase = "state" THEN Contains(observers, Head(todo))
                                        ELSE Contains(listeners, Head(todo))
               \/ /\ todo # <<>> /\ todo' = Tail(todo) /\ UNCHANGED <<phase, cur>>
                  /\ ~Contains(observers, Head(todo))
               \/ /\ cur # Nobody /\ cur' = Nobody /\ UNCHANGED <<phase, todo>>
               \/ /\ phase \in {"state", "scanned"} /\ CalledAll /\ cur' = Nobody
                  /\ IF phase = "state" THEN phase' = "scanned" ELSE phase' = "idle"
  BY <1>1, FlushFacts
<1>4. QED
  BY <1>2, <1>3, ScanMirrors, CallMirrors

(* The invariant holds on while nothing changes.                           *)
LEMMA WholeFrame ==
  ASSUME WholeInvariant, UNCHANGED routerAllVars
  PROVE  WholeInvariant'
<1> USE DEF WholeInvariant
<1>1. /\ UNCHANGED <<queue, phase, todo, cur, state, log, alive, failing, observers, listeners>>
      /\ UNCHANGED routerVars
  BY DEF routerAllVars, vars
<1>2. RouterInvariant'
  BY ControlFrame DEF routerAllVars, vars, routerVars, controlVars
<1>3. RouterSlice' = RouterSlice
  BY <1>1, SliceSame
<1>4. ViewInvariant'
  BY <1>1, <1>3 DEF ViewInvariant, routerVars, Connected
<1>5. OrderInvariant'
  BY <1>1 DEF OrderInvariant, routerVars, Here, Idle, Flushing
<1>6. Awaiting => Awaiting'
  BY <1>1, <1>3 DEF Awaiting, Connected, routerVars
<1>7. MirrorInvariant'
  BY <1>1, <1>6, MirrorFrame DEF routerVars
<1>8. QED
  BY <1>2, <1>4, <1>5, <1>7

(* Every step keeps it.                                                    *)
LEMMA WholeStep ==
  ASSUME ~JumpsInFlight, Throwing = {}, Payloads \subseteq Types,
         WholeInvariant, [RouterNext]_routerAllVars
  PROVE  WholeInvariant'
<1>1. CASE UNCHANGED routerAllVars
  BY <1>1, WholeFrame
<1>2. CASE RouterNext
  BY <1>2, ConnectingView, AppNavigatesMirrors, AppJumpsMirrors, EffectNavigatesMirrors,
     StateListenerMirrors, RouterGoesOnMirrors, HandleEventMirrors, HandlerStepMirrors,
     RouterFlushMirrors DEF RouterNext
<1>3. QED
  BY <1>1, <1>2

(* Whenever nothing is under way, the router slice shows the URL of the    *)
(* router or nothing yet, whichever of the two changed first, whatever     *)
(* failed or was superseded in between, with either timing.  No reducer    *)
(* throws (the store dies of it), every payload is an action of the store, *)
(* and the application changes the slice in tasks of their own only.       *)
THEOREM SliceMirrorsUrl ==
  ASSUME ~JumpsInFlight, Throwing = {}, Payloads \subseteq Types
  PROVE  RouterSpec => []StoreMirrorsRouter
<1>1. RouterInit => WholeInvariant
  BY WholeInit
<1>2. WholeInvariant /\ [RouterNext]_routerAllVars => WholeInvariant'
  BY WholeStep
<1>3. WholeInvariant => StoreMirrorsRouter
  <2> SUFFICES ASSUME WholeInvariant, Task, navigation = Null
               PROVE  UrlOf(RouterSlice) \in {Null, url}
    BY DEF StoreMirrorsRouter, Diverged
  <2>1. Shows(Here)
    BY TaskFacts DEF WholeInvariant, MirrorInvariant
  <2>2. QED
    BY <2>1, TaskFacts DEF Here
<1>4. QED
  BY <1>1, <1>2, <1>3, PTL DEF RouterSpec

-----------------------------------------------------------------------------
(* The actions reduced and to be reduced, in their order.                  *)
Issued == log \o queue

(* The types of one navigation's actions among those, and among the        *)
(* dispatches in the first n entries of an agenda.                         *)
Already(id) == TypesIn(Issued, Len(Issued), id)

Coming(t, n, id) ==
  {t[m].action.type :
     m \in {m \in 1 .. n : t[m].do = "dispatch" /\ t[m].action.id = id}}

(* Both together: what will have been dispatched of a navigation.          *)
Done(id) == Already(id) \cup Coming(agenda, Len(agenda), id)

(* What a navigation has dispatched while it is under way.                 *)
Dispatched(recognized) ==
  IF ByStore THEN {}
  ELSE {ROUTER_REQUEST} \cup (IF recognized /\ ~late THEN {ROUTER_NAVIGATION} ELSE {})

(* What may come before a failure.                                         *)
Unfinished == {{}, {ROUTER_REQUEST}, {ROUTER_REQUEST, ROUTER_NAVIGATION}}

(* The navigation is over, or was superseded.                              *)
Ended(id) == id < navigations \/ (id = navigations /\ navigation = Null)

(* What a handler has yet to dispatch comes in order too.  After the first *)
(* flush that is at most the end of a navigation.                          *)
ComingInOrder ==
  \A i \in DOMAIN agenda : agenda[i].do = "dispatch" =>
    /\ Routed(agenda[i].action)
    /\ Already(agenda[i].action.id) \cup Coming(agenda, i - 1, agenda[i].action.id)
         \in Before(agenda[i].action.type)
    /\ \/ i = 1 /\ Idle
       \/ agenda[i].action.type = ROUTER_NAVIGATED /\ Ended(agenda[i].action.id)

(* What the navigations have dispatched so far.                            *)
DispatchedInvariant ==
  /\ \A id \in Nat : id > Len(startedAt) => Done(id) = {}
  /\ Len(startedAt) # navigations => navigation # Null /\ navigation.stage = "started"
  /\ navigation # Null /\ Len(startedAt) = navigations =>
       Done(navigations) = Dispatched(navigation.stage = "recognized" /\ events = <<>>)
  /\ events # <<>> /\ events[1].kind = "recognized" => navigation.stage = "recognized"
  /\ events # <<>> /\ events[1].kind = "end" => Done(navigations) = Dispatched(TRUE)
  /\ events # <<>> /\ events[1].kind \in Failures => Done(events[1].id) \in Unfinished

OrdersInvariant ==
  InOrder(Issued) /\ (alive => ComingInOrder /\ DispatchedInvariant)

(* The types of a navigation's actions with one action more.               *)
With(T, a, id) == IF Routed(a) /\ a.id = id THEN T \cup {a.type} ELSE T

(* One action more, at the end.                                            *)
LEMMA TypesAppend ==
  ASSUME NEW S, NEW s \in Seq(S), NEW a \in S, NEW t, t = Append(s, a)
  PROVE  /\ t \in Seq(S) /\ Len(t) = Len(s) + 1 /\ Len(s) \in Nat
         /\ \A n \in 0 .. Len(s) : \A id : TypesIn(t, n, id) = TypesIn(s, n, id)
         /\ InOrder(s) /\ (Routed(a) => TypesIn(s, Len(s), a.id) \in Before(a.type)) => InOrder(t)
         /\ InOrder(t) => InOrder(s)
<1>1. /\ t \in Seq(S) /\ Len(t) = Len(s) + 1 /\ Len(s) \in Nat
      /\ \A i \in 1 .. Len(s) : t[i] = s[i]
      /\ t[Len(s) + 1] = a
      /\ DOMAIN s = 1 .. Len(s) /\ DOMAIN t = 1 .. Len(t)
  BY AppendProperties, LenProperties
<1>2. ASSUME NEW n \in 0 .. Len(s), NEW id PROVE TypesIn(t, n, id) = TypesIn(s, n, id)
  <2>1. \A m \in 1 .. n : t[m] = s[m]
    BY <1>1
  <2>2. QED
    BY <2>1 DEF TypesIn
<1>4. \A n \in DOMAIN s : n \in DOMAIN t /\ t[n] = s[n] /\ n - 1 \in 0 .. Len(s)
  BY <1>1
<1>5. \A n \in DOMAIN t : n \in DOMAIN s \/ (n - 1 = Len(s) /\ t[n] = a)
  BY <1>1
<1>6. ASSUME InOrder(s), Routed(a) => TypesIn(s, Len(s), a.id) \in Before(a.type)
      PROVE  InOrder(t)
  <2> SUFFICES ASSUME NEW n \in DOMAIN t, Routed(t[n])
               PROVE  TypesIn(t, n - 1, t[n].id) \in Before(t[n].type)
    BY DEF InOrder
  <2>1. CASE n \in DOMAIN s
    <3>1. TypesIn(t, n - 1, t[n].id) = TypesIn(s, n - 1, s[n].id) /\ t[n] = s[n]
      BY <1>2, <1>4, <2>1
    <3>2. QED
      BY <1>6, <2>1, <3>1 DEF InOrder
  <2>2. CASE n - 1 = Len(s) /\ t[n] = a
    <3>1. TypesIn(t, n - 1, t[n].id) = TypesIn(s, Len(s), a.id)
      BY <1>1, <1>2, <2>2
    <3>2. QED
      BY <1>6, <2>2, <3>1
  <2>3. QED
    BY <1>5, <2>1, <2>2
<1>7. ASSUME InOrder(t) PROVE InOrder(s)
  <2> SUFFICES ASSUME NEW n \in DOMAIN s, Routed(s[n])
               PROVE  TypesIn(s, n - 1, s[n].id) \in Before(s[n].type)
    BY DEF InOrder
  <2>1. n \in DOMAIN t /\ t[n] = s[n] /\ TypesIn(t, n - 1, t[n].id) = TypesIn(s, n - 1, s[n].id)
    BY <1>2, <1>4
  <2>2. QED
    BY <1>7, <2>1 DEF InOrder
<1>8. QED
  BY <1>1, <1>2, <1>6, <1>7

(* All the actions of one navigation then.                                 *)
OneMore(s, a, t) ==
  \A id : TypesIn(t, Len(t), id) = With(TypesIn(s, Len(s), id), a, id)

LEMMA AllAppend ==
  ASSUME NEW S, NEW s \in Seq(S), NEW a \in S, NEW t, t = Append(s, a)
  PROVE  OneMore(s, a, t)
<1>1. /\ Len(t) = Len(s) + 1 /\ Len(s) \in Nat /\ t[Len(s) + 1] = a
      /\ \A i \in 1 .. Len(s) : t[i] = s[i]
  BY AppendProperties, LenProperties
<1>2. 1 .. Len(t) = (1 .. Len(s)) \cup {Len(s) + 1}
  BY <1>1
<1>3. QED
  BY <1>1, <1>2 DEF TypesIn, With, OneMore

(* What comes first is in order when the whole is.                         *)
LEMMA PrefixInOrder ==
  ASSUME NEW S, NEW s \in Seq(S), NEW q \in Seq(S), InOrder(s \o q)
  PROVE  InOrder(s)
<1> DEFINE t == s \o q
<1>1. /\ Len(s) \in Nat /\ Len(q) \in Nat /\ Len(t) = Len(s) + Len(q)
      /\ DOMAIN s = 1 .. Len(s) /\ DOMAIN t = 1 .. Len(t)
      /\ \A i \in 1 .. Len(s) + Len(q) : i <= Len(s) => t[i] = s[i]
  BY ConcatProperties, LenProperties
<1>2. InOrder(t)
  OBVIOUS
<1> HIDE DEF t
<1>3. \A i \in DOMAIN s : i \in DOMAIN t /\ t[i] = s[i]
  BY <1>1
<1> SUFFICES ASSUME NEW n \in DOMAIN s, Routed(s[n])
             PROVE  TypesIn(s, n - 1, s[n].id) \in Before(s[n].type)
  BY DEF InOrder
<1>4. \A m \in 1 .. n - 1 : m \in DOMAIN s
  BY <1>1
<1>5. TypesIn(t, n - 1, s[n].id) = TypesIn(s, n - 1, s[n].id)
  BY <1>3, <1>4 DEF TypesIn
<1>6. QED
  BY <1>2, <1>3, <1>5 DEF InOrder

(* The types of the sequences.                                             *)
LEMMA IssuedType ==
  ASSUME RouterTypeOK
  PROVE  /\ log \in Seq(Own(startedAt) \cup {INIT_TYPE})
         /\ queue \in Seq(Own(startedAt) \cup {INIT_TYPE})
         /\ Issued \in Seq(Own(startedAt) \cup {INIT_TYPE})
         /\ Len(Issued) \in Nat
         /\ queue = <<>> => Issued = log
         /\ InOrder(Issued) => InOrder(log)
         /\ startedAt \in Seq(Nat) /\ Len(startedAt) \in Nat /\ navigations \in Nat
<1>1. /\ log \in Seq(Own(startedAt) \cup {INIT_TYPE})
      /\ queue \in Seq(Own(startedAt) \cup {INIT_TYPE})
      /\ startedAt \in Seq(Nat) /\ navigations \in Nat
  BY DEF RouterTypeOK
<1>2. /\ Issued \in Seq(Own(startedAt) \cup {INIT_TYPE})
      /\ queue = <<>> => Issued = log
  BY <1>1, ConcatProperties, ConcatEmptySeq DEF Issued
<1>3. InOrder(Issued) => InOrder(log)
  BY <1>1, PrefixInOrder DEF Issued
<1>4. QED
  BY <1>1, <1>2, <1>3, LenProperties

(* Dispatching an action.                                                  *)
LEMMA EnqueueFacts ==
  ASSUME RouterTypeOK, NEW a \in Own(startedAt) \cup {INIT_TYPE},
         log' = log, queue' = queue \o <<a>>
  PROVE  /\ Issued' = Append(Issued, a)
         /\ \A id : Already(id)' =
              With(Already(id), a, id)
         /\ InOrder(Issued) /\ (Routed(a) => Already(a.id) \in Before(a.type))
              => InOrder(Issued)'
<1> DEFINE S == Own(startedAt) \cup {INIT_TYPE}
<1>1. log \in Seq(S) /\ queue \in Seq(S) /\ Issued \in Seq(S)
  BY IssuedType
<1>2. a \in S
  OBVIOUS
<1> HIDE DEF S
<1>3. <<a>> \in Seq(S)
  BY <1>2
<1>4. Issued' = Issued \o <<a>>
  BY <1>1, <1>3, ConcatAssociative DEF Issued
<1>5. Issued' = Append(Issued, a)
  BY <1>1, <1>2, <1>4, AppendIsConcat
<1> DEFINE s == Issued
           t == Issued'
<1>6. s \in Seq(S) /\ t = Append(s, a)
  BY <1>1, <1>5
<1>7. /\ \A id : Already(id) = TypesIn(s, Len(s), id)
      /\ \A id : Already(id)' = TypesIn(t, Len(t), id)
      /\ InOrder(Issued)' <=> InOrder(t)
      /\ InOrder(Issued) <=> InOrder(s)
  BY DEF Already, TypesIn, InOrder, Routed, Before
<1>8. Issued' = Append(Issued, a)
  BY <1>5
<1> HIDE DEF s, t
<1>9. \A id : TypesIn(t, Len(t), id) =
        With(TypesIn(s, Len(s), id), a, id)
  <2>1. OneMore(s, a, t)
    BY ONLY <1>2, <1>6, AllAppend
  <2>2. QED
    BY <2>1 DEF OneMore
<1>10. InOrder(s) /\ (Routed(a) => TypesIn(s, Len(s), a.id) \in Before(a.type)) => InOrder(t)
  BY <1>2, <1>6, TypesAppend
<1>11. QED
  BY <1>7, <1>8, <1>9, <1>10

(* What an agenda has to come, with and without its first entry.           *)
ComingFirst(t, r) ==
  \A n \in 0 .. Len(r) : \A id : \A x : x \in Coming(t, n + 1, id) <=>
    \/ t[1].do = "dispatch" /\ t[1].action.id = id /\ x = t[1].action.type
    \/ x \in Coming(r, n, id)

LEMMA ComingTail ==
  ASSUME NEW S, NEW t \in Seq(S), t # <<>>, NEW r, r = Tail(t)
  PROVE  /\ \A id : Coming(t, 0, id) = {}
         /\ ComingFirst(t, r)
         /\ Len(r) \in Nat /\ Len(t) = Len(r) + 1
         /\ DOMAIN r = 1 .. Len(r) /\ DOMAIN t = 1 .. Len(t)
         /\ \A i \in DOMAIN r : i + 1 \in DOMAIN t /\ r[i] = t[i + 1] /\ i - 1 \in 0 .. Len(r)
<1>1. /\ Len(r) \in Nat /\ Len(t) = Len(r) + 1
      /\ DOMAIN r = 1 .. Len(r) /\ DOMAIN t = 1 .. Len(t)
      /\ \A i \in 1 .. Len(r) : r[i] = t[i + 1]
  BY HeadTailProperties, LenProperties
<1>2. \A id : Coming(t, 0, id) = {}
  BY DEF Coming
<1>3. ASSUME NEW n \in 0 .. Len(r), NEW id, NEW x
      PROVE  x \in Coming(t, n + 1, id) <=>
              \/ t[1].do = "dispatch" /\ t[1].action.id = id /\ x = t[1].action.type
              \/ x \in Coming(r, n, id)
  <2>1. \A m \in 1 .. n : m + 1 \in 1 .. n + 1 /\ r[m] = t[m + 1]
    BY <1>1
  <2>2. \A m \in 1 .. n + 1 : m = 1 \/ (m - 1 \in 1 .. n /\ r[m - 1] = t[m])
    BY <1>1
  <2>3. 1 \in 1 .. n + 1
    OBVIOUS
  <2>4. ASSUME x \in Coming(t, n + 1, id)
        PROVE  \/ t[1].do = "dispatch" /\ t[1].action.id = id /\ x = t[1].action.type
               \/ x \in Coming(r, n, id)
    <3>1. PICK m \in 1 .. n + 1 : t[m].do = "dispatch" /\ t[m].action.id = id /\ x = t[m].action.type
      BY <2>4 DEF Coming
    <3>2. QED
      BY <2>2, <3>1 DEF Coming
  <2>5. ASSUME x \in Coming(r, n, id) PROVE x \in Coming(t, n + 1, id)
    <3>1. PICK m \in 1 .. n : r[m].do = "dispatch" /\ r[m].action.id = id /\ x = r[m].action.type
      BY <2>5 DEF Coming
    <3>2. QED
      BY <2>1, <3>1 DEF Coming
  <2>6. t[1].do = "dispatch" /\ t[1].action.id = id => t[1].action.type \in Coming(t, n + 1, id)
    BY <2>3 DEF Coming
  <2>7. QED
    BY <2>4, <2>5, <2>6
<1>4. \A i \in DOMAIN r : i + 1 \in DOMAIN t /\ r[i] = t[i + 1] /\ i - 1 \in 0 .. Len(r)
  BY <1>1
<1>5. ComingFirst(t, r)
  BY <1>3 DEF ComingFirst
<1>6. QED
  BY <1>1, <1>2, <1>4, <1>5

(* What the agenda of a handler has to come.                               *)
LEMMA ComingSteps ==
  ASSUME NEW P, NEW out \in Seq(P), NEW reset \in BOOLEAN, NEW v,
         NEW b, b = Steps(Handler(v, out, reset))
  PROVE  /\ b \in Seq(Entries(P)) /\ DOMAIN b = 1 .. Len(b) /\ Len(b) \in Nat
         /\ \A id : \A x : x \in Coming(b, Len(b), id) <=>
              \E j \in DOMAIN out : out[j].id = id /\ x = out[j].type
         /\ \A n \in 0 .. Len(b) : \A id : \A x : x \in Coming(b, n, id) <=>
              \E j \in DOMAIN out : 2 * j - 1 <= n /\ out[j].id = id /\ x = out[j].type
         /\ \A i \in DOMAIN b : b[i].do = "dispatch" =>
              \E j \in DOMAIN out : b[i].action = out[j] /\ i = 2 * j - 1
         /\ \A j \in DOMAIN out : 2 * j - 1 <= Len(b)
<1>1. /\ b \in Seq(Entries(P))
      /\ \A i \in DOMAIN b : b[i].do = "dispatch" =>
           \E j \in DOMAIN out : b[i].action = out[j] /\ i = 2 * j - 1
      /\ \A j \in DOMAIN out : \E i \in DOMAIN b :
           i = 2 * j - 1 /\ b[i] = [do |-> "dispatch", action |-> out[j]]
  BY StepsFacts
<1>2. DOMAIN b = 1 .. Len(b) /\ Len(b) \in Nat /\ DOMAIN out \subseteq Nat
  BY <1>1, LenProperties
<1>3. ASSUME NEW n \in 0 .. Len(b), NEW id, NEW x
      PROVE  x \in Coming(b, n, id) <=>
              \E j \in DOMAIN out : 2 * j - 1 <= n /\ out[j].id = id /\ x = out[j].type
  <2>1. ASSUME x \in Coming(b, n, id)
        PROVE  \E j \in DOMAIN out : 2 * j - 1 <= n /\ out[j].id = id /\ x = out[j].type
    <3>1. PICK i \in 1 .. n : b[i].do = "dispatch" /\ b[i].action.id = id /\ x = b[i].action.type
      BY <2>1 DEF Coming
    <3>2. i \in DOMAIN b
      BY <1>2, <3>1
    <3>3. PICK j \in DOMAIN out : b[i].action = out[j] /\ i = 2 * j - 1
      BY <1>1, <3>1, <3>2
    <3>4. QED
      BY <3>1, <3>3
  <2>2. ASSUME NEW j \in DOMAIN out, 2 * j - 1 <= n, out[j].id = id
        PROVE  out[j].type \in Coming(b, n, id)
    <3>1. PICK i \in DOMAIN b : i = 2 * j - 1 /\ b[i] = [do |-> "dispatch", action |-> out[j]]
      BY <1>1
    <3>2. i \in 1 .. n
      BY <1>2, <2>2, <3>1
    <3>3. b[i].do = "dispatch" /\ b[i].action = out[j]
      BY <3>1
    <3>4. QED
      BY <2>2, <3>2, <3>3 DEF Coming
  <2>3. QED
    BY <2>1, <2>2
<1>4. ASSUME NEW j \in DOMAIN out PROVE 2 * j - 1 <= Len(b)
  <2>1. PICK i \in DOMAIN b : i = 2 * j - 1
    BY <1>1
  <2>2. QED
    BY <1>2, <2>1
<1>5. \A id : \A x : x \in Coming(b, Len(b), id) <=>
        \E j \in DOMAIN out : out[j].id = id /\ x = out[j].type
  <2>1. Len(b) \in 0 .. Len(b)
    BY <1>2
  <2>2. \A id : \A x : x \in Coming(b, Len(b), id) <=>
          \E j \in DOMAIN out : 2 * j - 1 <= Len(b) /\ out[j].id = id /\ x = out[j].type
    BY <1>3, <2>1
  <2>3. QED
    BY <1>4, <2>2
<1>6. QED
  BY <1>1, <1>2, <1>3, <1>4, <1>5

(* No action more, nor one fewer.                                          *)
LEMMA IssuedFrame ==
  ASSUME Issued' = Issued
  PROVE  /\ \A id : Already(id)' = Already(id)
         /\ InOrder(Issued)' <=> InOrder(Issued)
         /\ UNCHANGED agenda => \A id : Done(id)' = Done(id)
BY DEF Already, TypesIn, InOrder, Routed, Before, Done, Coming

(* Nothing is dispatched.                                                  *)
LEMMA SameIssued ==
  ASSUME UNCHANGED <<log, queue>>
  PROVE  /\ Issued' = Issued
         /\ \A id : Already(id)' = Already(id)
         /\ InOrder(Issued)' <=> InOrder(Issued)
         /\ UNCHANGED agenda => \A id : Done(id)' = Done(id)
<1>1. Issued' = Issued
  BY DEF Issued
<1>2. QED
  BY <1>1, IssuedFrame

(* With no handler at work nothing is to come.                             *)
LEMMA NothingComes ==
  /\ agenda = <<>> => ComingInOrder /\ \A id : Done(id) = Already(id)
  /\ agenda' = <<>> => ComingInOrder' /\ \A id : Done(id)' = Already(id)'
BY DEF ComingInOrder, Done, Coming

(* The invariant holds on while a step leaves what it is about alone.      *)
LEMMA OrdersFrame ==
  ASSUME OrdersInvariant, Issued' = Issued,
         UNCHANGED <<agenda, alive, startedAt, late, navigation,
                     navigations, events>>,
         ByStore' <=> ByStore, agenda # <<>> /\ Idle => Idle'
  PROVE  OrdersInvariant'
<1>1. /\ \A id : Already(id)' = Already(id) /\ Done(id)' = Done(id)
      /\ InOrder(Issued)'
  BY IssuedFrame DEF OrdersInvariant
<1>2. ASSUME ComingInOrder PROVE ComingInOrder'
  <2>1. \A id : Ended(id)' <=> Ended(id)
    BY DEF Ended
  <2>2. \A n : \A id : Coming(agenda, n, id)' = Coming(agenda, n, id)
    BY DEF Coming
  <2>3. \A i \in DOMAIN agenda : agenda # <<>>
    OBVIOUS
  <2>5. agenda' = agenda
    OBVIOUS
  <2> SUFFICES ASSUME NEW i \in DOMAIN agenda', (agenda[i].do = "dispatch")'
               PROVE  (/\ Routed(agenda[i].action)
                       /\ Already(agenda[i].action.id) \cup Coming(agenda, i - 1, agenda[i].action.id)
                           \in Before(agenda[i].action.type)
                       /\ \/ i = 1 /\ Idle
                          \/ agenda[i].action.type = ROUTER_NAVIGATED /\ Ended(agenda[i].action.id))'
    BY DEF ComingInOrder
  <2>4. /\ Routed(agenda[i].action)
        /\ Already(agenda[i].action.id) \cup Coming(agenda, i - 1, agenda[i].action.id)
             \in Before(agenda[i].action.type)
        /\ \/ i = 1 /\ Idle
           \/ agenda[i].action.type = ROUTER_NAVIGATED /\ Ended(agenda[i].action.id)
    BY <1>2, <2>5 DEF ComingInOrder
  <2>6. QED
    BY <1>1, <2>1, <2>3, <2>4, <2>5
<1>3. ASSUME DispatchedInvariant PROVE DispatchedInvariant'
  BY <1>1, <1>3 DEF DispatchedInvariant, Dispatched
<1>4. QED
  BY <1>1, <1>2, <1>3 DEF OrdersInvariant

(* The invariant holds when the application starts.                        *)
LEMMA OrdersInit == RouterInit => OrdersInvariant
<1> SUFFICES ASSUME RouterInit PROVE OrdersInvariant
  OBVIOUS
<1>1. /\ log = <<>> /\ queue = <<INIT_TYPE>> /\ agenda = <<>> /\ events = <<>>
      /\ navigation = Null /\ navigations = 0 /\ startedAt = <<>>
  BY DEF RouterInit, Init
<1>2. Issued = <<INIT_TYPE>> /\ Len(Issued) = 1 /\ Issued[1] = INIT_TYPE
  <2>1. <<INIT_TYPE>> \in Seq({INIT_TYPE})
    OBVIOUS
  <2>2. QED
    BY <1>1, <2>1, ConcatEmptySeq DEF Issued
<1>3. InOrder(Issued) /\ \A id : Already(id) = {}
  BY <1>2 DEF InOrder, Already, TypesIn, Routed
<1>4. Len(startedAt) = 0
  BY <1>1
<1>5. QED
  BY <1>1, <1>3, <1>4, NothingComes DEF OrdersInvariant, DispatchedInvariant

(* The router and the application navigate or go on: nothing is dispatched *)

(* in that very step.                                                      *)
LEMMA AppNavigatesOrders ==
  ASSUME RouterInvariant, OrdersInvariant, NEW target \in Urls, AppNavigates(target)
  PROVE  OrdersInvariant'
<1>1. /\ Task /\ NavigateByUrl(target)
      /\ events' = Emitted(target)
      /\ UNCHANGED <<vars, late, url, service, selected, agenda, startedAt>>
  BY DEF AppNavigates
<1>2. UNCHANGED <<log, queue, alive>> /\ agenda = <<>> /\ agenda' = <<>> /\ events = <<>>
  BY <1>1 DEF vars, Task
<1>3. /\ navigation' # Null /\ navigation'.stage = "started"
      /\ navigations' = navigations + 1 /\ navigations \in Nat
      /\ navigation \in Navigations \cup {Null}
  BY <1>1, NavigationFacts DEF RouterInvariant, RouterTypeOK
<1>4. Len(startedAt) = navigations /\ (navigation # Null => navigation.id = navigations)
  BY <1>2 DEF RouterInvariant, EventsInvariant, NavigationInvariant, Pending
<1>5. /\ navigation = Null => events'[1].kind = "start"
      /\ navigation # Null => events'[1].kind = ROUTER_CANCEL /\ events'[1].id = navigations
  <2>1. /\ navigation = Null => Emitted(target)[1] = [kind |-> "start", id |-> navigations + 1, url |-> target]
        /\ navigation # Null =>
             Emitted(target)[1] = [kind |-> ROUTER_CANCEL, id |-> navigation.id, url |-> navigation.url]
    BY <1>3, EmittedFacts
  <2>2. events' = Emitted(target)
    BY <1>1
  <2>3. CASE navigation = Null
    BY <2>1, <2>2, <2>3
  <2>4. CASE navigation # Null
    BY <1>4, <2>1, <2>2, <2>4
  <2>5. QED
    BY <2>3, <2>4
<1>6. \A id : Done(id)' = Done(id)
  BY <1>1, <1>2, SameIssued
<1>7. ASSUME DispatchedInvariant PROVE DispatchedInvariant'
  <2>1. navigation # Null => Done(navigations) \in Unfinished
    BY <1>4, <1>7 DEF DispatchedInvariant, Dispatched, Unfinished
  <2>2. Len(startedAt') # navigations'
    BY <1>1, <1>3, <1>4
  <2>3. \A id \in Nat : id > Len(startedAt') => Done(id)' = {}
    BY <1>1, <1>6, <1>7 DEF DispatchedInvariant
  <2>4. QED
    BY <1>3, <1>5, <1>6, <2>1, <2>2, <2>3
    DEF DispatchedInvariant, Failures, ROUTER_CANCEL, ROUTER_ERROR
<1>8. QED
  BY <1>2, <1>7, SameIssued, NothingComes DEF OrdersInvariant

(* The router goes on with its navigation, which has dispatched what its     *)
(* stage calls for.                                                        *)
LEMMA RouterGoesOnOrders ==
  ASSUME RouterInvariant, OrdersInvariant,
         \/ RouterSteps
         \/ \E kind \in {ROUTER_CANCEL, ROUTER_ERROR} : RouterFails(kind)
  PROVE  OrdersInvariant'
<1>1. PICK kind : Emits(kind) /\
        \/ /\ kind = "recognized" /\ navigation.stage = "started"
           /\ navigation' = [navigation EXCEPT !.stage = "recognized"]
        \/ kind = "end" /\ navigation.stage = "recognized" /\ navigation' = Null
        \/ kind \in Failures /\ navigation' = Null
  BY DEF RouterSteps, RouterRecognizes, RouterEnds, RouterFails, Failures
<1>2. /\ Task /\ navigation # Null
      /\ events' = <<[kind |-> kind, id |-> navigation.id, url |-> navigation.url]>>
      /\ UNCHANGED <<vars, late, navigations, service, selected, agenda, startedAt>>
  BY <1>1 DEF Emits
<1>3. UNCHANGED <<log, queue, alive>> /\ agenda = <<>> /\ agenda' = <<>> /\ events = <<>>
  BY <1>2 DEF vars, Task
<1>4. Len(startedAt) = navigations /\ navigation.id = navigations /\ navigation \in Navigations
  BY <1>2, <1>3 DEF RouterInvariant, EventsInvariant, NavigationInvariant, Pending, RouterTypeOK
<1>5. events' # <<>> /\ events'[1].kind = kind /\ events'[1].id = navigations
  BY <1>2, <1>4
<1>6. \A id : Done(id)' = Done(id)
  BY <1>2, <1>3, SameIssued
<1>7. kind = "recognized" => navigation'.stage = "recognized"
  BY <1>1, <1>4 DEF Navigations, Failures, ROUTER_CANCEL, ROUTER_ERROR
<1>8. ASSUME DispatchedInvariant PROVE DispatchedInvariant'
  <2>1. Done(navigations) = Dispatched(navigation.stage = "recognized")
    BY <1>2, <1>3, <1>4, <1>8 DEF DispatchedInvariant, Dispatched
  <2>2. Done(navigations) \in Unfinished
    BY <2>1 DEF Dispatched, Unfinished
  <2>3. \A x : Dispatched(x)' = Dispatched(x)
    BY <1>2 DEF Dispatched, ByStore
  <2>4. \A id \in Nat : id > Len(startedAt') => Done(id)' = {}
    BY <1>2, <1>6, <1>8 DEF DispatchedInvariant
  <2>5. Len(startedAt') = navigations'
    BY <1>2, <1>4
  <2>6. /\ navigation' # Null => Done(navigations) = Dispatched(FALSE)
        /\ kind = "end" => Done(navigations) = Dispatched(TRUE)
    BY <1>1, <2>1 DEF Dispatched, Failures, ROUTER_CANCEL, ROUTER_ERROR
  <2>7. QED
    <3>1. Done(navigations)' = Done(navigations) /\ navigations' = navigations
      BY <1>2, <1>6
    <3>2. navigation' # Null => Done(navigations)' = Dispatched(FALSE)'
      BY <2>3, <2>6, <3>1
    <3>3. QED
      BY <1>5, <1>7, <2>2, <2>3, <2>4, <2>5, <2>6, <3>1, <3>2 DEF DispatchedInvariant, Dispatched
<1>9. QED
  BY <1>3, <1>8, SameIssued, NothingComes DEF OrdersInvariant

(* The application changes the slice: its action is none of the router's.  *)
LEMMA AppJumpsOrders ==
  ASSUME RouterInvariant, OrdersInvariant, NEW target \in Urls, AppJumps(target)
  PROVE  OrdersInvariant'
<1> DEFINE a == Jump(target)
<1>1. /\ Task /\ Next_(a)
      /\ UNCHANGED routerVars
      /\ UNCHANGED <<phase, cur, accepting, failing, alive, log>>
  BY DEF AppJumps, Dispatch, subscriptions, status, config
<1>2. /\ agenda = <<>> /\ agenda' = <<>> /\ events = <<>> /\ phase = "idle" /\ queue = <<>>
      /\ UNCHANGED <<startedAt, late, navigation, navigations, events, service>>
  BY <1>1, IdleFacts DEF Task, RouterInvariant, routerVars
<1>3. a \in Own(startedAt) /\ ~Routed(a)
  BY DEF Jump, Action, Own, Payloads, Failures, ROUTER_CANCEL, ROUTER_ERROR, Routed,
     RouterActions, ROUTER_REQUEST, ROUTER_NAVIGATION, ROUTER_NAVIGATED
<1> HIDE DEF a
<1>4. queue' = (IF alive THEN Append(queue, a) ELSE queue)
  BY <1>1, <1>2 DEF Next_, RouterInvariant, FlushInvariant
<1>5. \A id : Already(id)' = Already(id) /\ InOrder(Issued)'
  <2>1. CASE ~alive
    BY <1>1, <1>4, <2>1, SameIssued DEF OrdersInvariant
  <2>2. CASE alive
    <3>1. queue' = queue \o <<a>>
      BY <1>3, <1>4, <2>2, AppendIsConcat DEF RouterInvariant, RouterTypeOK
    <3>2. /\ \A id : Already(id)' = With(Already(id), a, id)
          /\ InOrder(Issued) => InOrder(Issued)'
      BY <1>1, <1>3, <3>1, EnqueueFacts DEF RouterInvariant
    <3>3. QED
      BY <1>3, <3>2 DEF OrdersInvariant, With
  <2>3. QED
    BY <2>1, <2>2
<1>6. \A id : Done(id)' = Done(id)
  BY <1>2, <1>5, NothingComes
<1>7. ASSUME DispatchedInvariant PROVE DispatchedInvariant'
  <2>1. \A x : Dispatched(x)' = Dispatched(x)
    BY <1>2 DEF Dispatched, ByStore
  <2>2. Done(navigations)' = Done(navigations)
    BY <1>2, <1>6
  <2>3. \A id \in Nat : id > Len(startedAt') => Done(id)' = {}
    BY <1>2, <1>6, <1>7 DEF DispatchedInvariant
  <2>4. navigation # Null /\ Len(startedAt) = navigations =>
          Done(navigations)' = Dispatched(navigation.stage = "recognized" /\ events = <<>>)'
    BY <1>2, <1>7, <2>1, <2>2 DEF DispatchedInvariant, Dispatched, ByStore
  <2>5. QED
    BY <1>2, <1>7, <2>3, <2>4 DEF DispatchedInvariant
<1>8. QED
  BY <1>1, <1>2, <1>5, <1>7, NothingComes DEF OrdersInvariant

(* A handler that dispatches nothing, one action, or two.                  *)
LEMMA OutComes ==
  ASSUME NEW P, NEW out \in Seq(P), NEW reset \in BOOLEAN, NEW v,
         NEW b, b = Steps(Handler(v, out, reset))
  PROVE  /\ \A id : Coming(b, 0, id) = {}
         /\ DOMAIN out = {} =>
              /\ \A id : Coming(b, Len(b), id) = {}
              /\ \A i \in DOMAIN b : b[i].do # "dispatch"
         /\ DOMAIN out = {1} /\ Routed(out[1]) =>
              /\ \A id : Coming(b, Len(b), id) = With({}, out[1], id)
              /\ \A i \in DOMAIN b : b[i].do = "dispatch" => i = 1 /\ b[i].action = out[1]
         /\ DOMAIN out = {1, 2} /\ Routed(out[1]) /\ Routed(out[2]) =>
              /\ \A id : Coming(b, Len(b), id) = With(With({}, out[1], id), out[2], id)
              /\ \A id : Coming(b, 2, id) = With({}, out[1], id)
              /\ \A i \in DOMAIN b : b[i].do = "dispatch" =>
                   (i = 1 /\ b[i].action = out[1]) \/ (i = 3 /\ b[i].action = out[2])
<1>1. Len(b) \in Nat
  BY ComingSteps
<1>2. \A id : \A x : x \in Coming(b, Len(b), id) <=>
        \E j \in DOMAIN out : out[j].id = id /\ x = out[j].type
  BY ComingSteps
<1>3. \A n \in 0 .. Len(b) : \A id : \A x : x \in Coming(b, n, id) <=>
        \E j \in DOMAIN out : 2 * j - 1 <= n /\ out[j].id = id /\ x = out[j].type
  BY ComingSteps
<1>4. \A i \in DOMAIN b : b[i].do = "dispatch" =>
        \E j \in DOMAIN out : b[i].action = out[j] /\ i = 2 * j - 1
  BY ComingSteps
<1>5. \A j \in DOMAIN out : 2 * j - 1 <= Len(b)
  BY ComingSteps
<1>6. ASSUME DOMAIN out = {}
      PROVE  /\ \A id : Coming(b, Len(b), id) = {}
             /\ \A i \in DOMAIN b : b[i].do # "dispatch"
  BY <1>2, <1>4, <1>6
<1>7. ASSUME DOMAIN out = {1}, Routed(out[1])
      PROVE  /\ \A id : Coming(b, Len(b), id) = With({}, out[1], id)
             /\ \A i \in DOMAIN b : b[i].do = "dispatch" => i = 1 /\ b[i].action = out[1]
  <2>1. \A i \in DOMAIN b : b[i].do = "dispatch" => i = 1 /\ b[i].action = out[1]
    BY <1>4, <1>7
  <2>2. \A id : \A x : x \in Coming(b, Len(b), id) <=> x \in With({}, out[1], id)
    BY <1>2, <1>7 DEF With
  <2>3. ASSUME NEW id PROVE Coming(b, Len(b), id) = With({}, out[1], id)
    <3> DEFINE C == Coming(b, Len(b), id)
               W == With({}, out[1], id)
    <3>1. \A x : x \in C <=> x \in W
      BY <2>2
    <3> HIDE DEF C, W
    <3>2. C = W
      BY <3>1
    <3>3. QED
      BY <3>2 DEF C, W
  <2>4. QED
    BY <2>1, <2>3
<1>8. ASSUME DOMAIN out = {1, 2}, Routed(out[1]), Routed(out[2])
      PROVE  /\ \A id : Coming(b, Len(b), id) = With(With({}, out[1], id), out[2], id)
             /\ \A id : Coming(b, 2, id) = With({}, out[1], id)
             /\ \A i \in DOMAIN b : b[i].do = "dispatch" =>
                  (i = 1 /\ b[i].action = out[1]) \/ (i = 3 /\ b[i].action = out[2])
  <2>1. \A i \in DOMAIN b : b[i].do = "dispatch" =>
          (i = 1 /\ b[i].action = out[1]) \/ (i = 3 /\ b[i].action = out[2])
    BY <1>4, <1>8
  <2>2. 2 * 2 - 1 <= Len(b)
    BY <1>5, <1>8
  <2>3. 2 \in 0 .. Len(b)
    BY <1>1, <2>2
  <2>4. ASSUME NEW id, NEW x
        PROVE  x \in Coming(b, 2, id) <=> x \in With({}, out[1], id)
    <3>1. x \in Coming(b, 2, id) <=>
            \E j \in DOMAIN out : 2 * j - 1 <= 2 /\ out[j].id = id /\ x = out[j].type
      BY <1>3, <2>3
    <3>2. \A j \in DOMAIN out : 2 * j - 1 <= 2 <=> j = 1
      BY <1>8
    <3>3. x \in Coming(b, 2, id) <=> out[1].id = id /\ x = out[1].type
      BY <1>8, <3>1, <3>2
    <3>4. QED
      BY <1>8, <3>3 DEF With
  <2>5. ASSUME NEW id, NEW x
        PROVE  x \in Coming(b, Len(b), id) <=> x \in With(With({}, out[1], id), out[2], id)
    <3>1. x \in Coming(b, Len(b), id) <=> \E j \in DOMAIN out : out[j].id = id /\ x = out[j].type
      BY <1>2
    <3>2. x \in Coming(b, Len(b), id) <=>
            (out[1].id = id /\ x = out[1].type) \/ (out[2].id = id /\ x = out[2].type)
      BY <1>8, <3>1
    <3>3. QED
      BY <1>8, <3>2 DEF With
  <2>6. ASSUME NEW id PROVE Coming(b, Len(b), id) = With(With({}, out[1], id), out[2], id)
    <3> DEFINE C == Coming(b, Len(b), id)
               W == With(With({}, out[1], id), out[2], id)
    <3>1. \A x : x \in C <=> x \in W
      BY <2>5
    <3> HIDE DEF C, W
    <3>2. C = W
      BY <3>1
    <3>3. QED
      BY <3>2 DEF C, W
  <2>7. ASSUME NEW id PROVE Coming(b, 2, id) = With({}, out[1], id)
    <3> DEFINE C == Coming(b, 2, id)
               W == With({}, out[1], id)
    <3>1. \A x : x \in C <=> x \in W
      BY <2>4
    <3> HIDE DEF C, W
    <3>2. C = W
      BY <3>1
    <3>3. QED
      BY <3>2 DEF C, W
  <2>8. QED
    BY <2>1, <2>6, <2>7
<1>9. \A id : Coming(b, 0, id) = {}
  BY DEF Coming
<1>10. QED
  BY <1>6, <1>7, <1>8, <1>9

(* What comes in order, in the next state.                                 *)
LEMMA ComingNext ==
  ASSUME \A i \in DOMAIN agenda' : agenda'[i].do = "dispatch" =>
           (/\ Routed(agenda[i].action)
            /\ Already(agenda[i].action.id) \cup Coming(agenda, i - 1, agenda[i].action.id)
                 \in Before(agenda[i].action.type)
            /\ \/ i = 1 /\ Idle
               \/ agenda[i].action.type = ROUTER_NAVIGATED /\ Ended(agenda[i].action.id))'
  PROVE  ComingInOrder'
BY DEF ComingInOrder

(* What a handler outside a flush brings about.                            *)
LEMMA HandledOrders ==
  ASSUME RouterInvariant, OrdersInvariant, HandleEvent,
         NEW P, NEW v, NEW out \in Seq(P), NEW reset \in BOOLEAN,
         Handle(service, events[1]) = Handler(v, out, reset)
  PROVE  /\ InOrder(Issued)' /\ UNCHANGED alive
         /\ DOMAIN out = {} => ComingInOrder' /\ \A id : Done(id)' = Done(id)
         /\ /\ DOMAIN out = {1} /\ Routed(out[1])
            /\ Done(out[1].id) \in Before(out[1].type)
            => ComingInOrder' /\ \A id : Done(id)' = With(Done(id), out[1], id)
         /\ /\ DOMAIN out = {1, 2} /\ Routed(out[1]) /\ Routed(out[2])
            /\ Done(out[1].id) \in Before(out[1].type)
            /\ With(Done(out[2].id), out[1], out[2].id) \in Before(out[2].type)
            /\ out[2].type = ROUTER_NAVIGATED /\ Ended(out[2].id)
            => ComingInOrder' /\ \A id : Done(id)' = With(With(Done(id), out[1], id), out[2], id)
<1> DEFINE b == agenda'
<1>1. /\ UNCHANGED <<queue, log, alive>> /\ Idle' /\ agenda = <<>>
      /\ b = Steps(Handle(service, events[1]))
  BY HandleEventFrame
<1>2. InOrder(Issued)' /\ \A id : Already(id)' = Already(id)
  BY <1>1, SameIssued DEF OrdersInvariant
<1>3. \A id : Done(id) = Already(id)
  BY <1>1, NothingComes
<1>4. b = Steps(Handler(v, out, reset))
  BY <1>1
<1>5. \A id : Done(id)' = Already(id) \cup Coming(b, Len(b), id)
  BY <1>2 DEF Done
<1>6. ASSUME \A i \in DOMAIN b : b[i].do = "dispatch" =>
               /\ Routed(b[i].action)
               /\ Already(b[i].action.id) \cup Coming(b, i - 1, b[i].action.id)
                    \in Before(b[i].action.type)
               /\ i = 1 \/ (b[i].action.type = ROUTER_NAVIGATED /\ Ended(b[i].action.id))
      PROVE  ComingInOrder'
  <2>1. \A id : Ended(id)' <=> Ended(id)
    BY HandleEventFrame DEF Ended
  <2>2. ASSUME NEW i \in DOMAIN agenda', agenda'[i].do = "dispatch"
        PROVE  (/\ Routed(agenda[i].action)
                /\ Already(agenda[i].action.id) \cup Coming(agenda, i - 1, agenda[i].action.id)
                     \in Before(agenda[i].action.type)
                /\ \/ i = 1 /\ Idle
                   \/ agenda[i].action.type = ROUTER_NAVIGATED /\ Ended(agenda[i].action.id))'
    <3> DEFINE id == agenda'[i].action.id
    <3>1. /\ Routed(b[i].action)
          /\ Already(id) \cup Coming(b, i - 1, id) \in Before(b[i].action.type)
          /\ i = 1 \/ (b[i].action.type = ROUTER_NAVIGATED /\ Ended(id))
      BY <1>6, <2>2
    <3>2. \A x : x = id => (Already(x)' = Already(x) /\ (Ended(x)' <=> Ended(x)))
      BY <1>2, <2>1
    <3>3. QED
      BY <1>1, <3>1, <3>2
  <2>3. QED
    BY <2>2, ComingNext
<1> HIDE DEF b
<1>7. /\ \A id : Coming(b, 0, id) = {}
      /\ DOMAIN out = {} =>
           /\ \A id : Coming(b, Len(b), id) = {}
           /\ \A i \in DOMAIN b : b[i].do # "dispatch"
      /\ DOMAIN out = {1} /\ Routed(out[1]) =>
           /\ \A id : Coming(b, Len(b), id) = With({}, out[1], id)
           /\ \A i \in DOMAIN b : b[i].do = "dispatch" => i = 1 /\ b[i].action = out[1]
      /\ DOMAIN out = {1, 2} /\ Routed(out[1]) /\ Routed(out[2]) =>
           /\ \A id : Coming(b, Len(b), id) = With(With({}, out[1], id), out[2], id)
           /\ \A id : Coming(b, 2, id) = With({}, out[1], id)
           /\ \A i \in DOMAIN b : b[i].do = "dispatch" =>
                (i = 1 /\ b[i].action = out[1]) \/ (i = 3 /\ b[i].action = out[2])
  BY <1>4, OutComes
<1>8. ASSUME DOMAIN out = {} PROVE ComingInOrder' /\ \A id : Done(id)' = Done(id)
  BY <1>3, <1>5, <1>6, <1>7, <1>8
<1>9. ASSUME DOMAIN out = {1}, Routed(out[1]), Done(out[1].id) \in Before(out[1].type)
      PROVE  ComingInOrder' /\ \A id : Done(id)' = With(Done(id), out[1], id)
  <2>1. \A i \in DOMAIN b : b[i].do = "dispatch" => i = 1 /\ b[i].action = out[1]
    BY <1>7, <1>9
  <2>2. Already(out[1].id) \cup Coming(b, 1 - 1, out[1].id) \in Before(out[1].type)
    <3>1. Coming(b, 1 - 1, out[1].id) = {} /\ Already(out[1].id) = Done(out[1].id)
      BY <1>3, <1>7
    <3>2. QED
      BY <1>9, <3>1
  <2>3. ComingInOrder'
    BY <1>6, <1>9, <2>1, <2>2
  <2>4. ASSUME NEW id PROVE Done(id)' = With(Done(id), out[1], id)
    <3>1. Done(id)' = Done(id) \cup Coming(b, Len(b), id)
      BY <1>3, <1>5
    <3>2. Coming(b, Len(b), id) = With({}, out[1], id)
      BY <1>7, <1>9
    <3>3. QED
      BY <3>1, <3>2 DEF With
  <2>5. QED
    BY <2>3, <2>4
<1>10. ASSUME DOMAIN out = {1, 2}, Routed(out[1]), Routed(out[2]),
              Done(out[1].id) \in Before(out[1].type),
              With(Done(out[2].id), out[1], out[2].id) \in Before(out[2].type),
              out[2].type = ROUTER_NAVIGATED, Ended(out[2].id)
       PROVE  ComingInOrder' /\ \A id : Done(id)' = With(With(Done(id), out[1], id), out[2], id)
  <2>1. \A i \in DOMAIN b : b[i].do = "dispatch" =>
          (i = 1 /\ b[i].action = out[1]) \/ (i = 3 /\ b[i].action = out[2])
    BY <1>7, <1>10
  <2>2. Already(out[1].id) \cup Coming(b, 1 - 1, out[1].id) \in Before(out[1].type)
    <3>1. Coming(b, 1 - 1, out[1].id) = {} /\ Already(out[1].id) = Done(out[1].id)
      BY <1>3, <1>7
    <3>2. QED
      BY <1>10, <3>1
  <2>3. Already(out[2].id) \cup Coming(b, 3 - 1, out[2].id) \in Before(out[2].type)
    <3>1. Coming(b, 2, out[2].id) = With({}, out[1], out[2].id)
      BY <1>7, <1>10
    <3>2. Coming(b, 3 - 1, out[2].id) = With({}, out[1], out[2].id) /\ Already(out[2].id) = Done(out[2].id)
      BY <1>3, <3>1
    <3>3. QED
      BY <1>10, <3>2 DEF With
  <2>4. \A i \in DOMAIN b : b[i].do = "dispatch" =>
               /\ Routed(b[i].action)
               /\ Already(b[i].action.id) \cup Coming(b, i - 1, b[i].action.id)
                    \in Before(b[i].action.type)
               /\ i = 1 \/ (b[i].action.type = ROUTER_NAVIGATED /\ Ended(b[i].action.id))
    BY <1>10, <2>1, <2>2, <2>3
  <2>5. ComingInOrder'
    BY <1>6, <2>4
  <2>6. ASSUME NEW id PROVE Done(id)' = With(With(Done(id), out[1], id), out[2], id)
    <3>1. Done(id)' = Done(id) \cup Coming(b, Len(b), id)
      BY <1>3, <1>5
    <3>2. Coming(b, Len(b), id) = With(With({}, out[1], id), out[2], id)
      BY <1>7, <1>10
    <3>3. QED
      BY <3>1, <3>2 DEF With
  <2>7. QED
    BY <2>5, <2>6
<1>11. QED
  BY <1>1, <1>2, <1>8, <1>9, <1>10

(* The same for a handler that dispatches one action.                      *)
LEMMA HandledOne ==
  ASSUME RouterInvariant, OrdersInvariant, HandleEvent,
         NEW P, NEW v, NEW a, NEW out \in Seq(P), NEW reset \in BOOLEAN,
         DOMAIN out = {1}, out[1] = a, Routed(a),
         Handle(service, events[1]) = Handler(v, out, reset)
  PROVE  /\ InOrder(Issued)' /\ UNCHANGED alive
         /\ Done(a.id) \in Before(a.type) =>
              ComingInOrder' /\ \A id : Done(id)' = With(Done(id), a, id)
BY HandledOrders

(* The types of the router's actions are different.                        *)
LEMMA BeforeFacts ==
  /\ \A T : T \in Before(ROUTER_REQUEST) <=> T = {}
  /\ \A T : T \in Before(ROUTER_NAVIGATION) <=> T = {ROUTER_REQUEST}
  /\ \A T : T \in Before(ROUTER_NAVIGATED) <=> T = {ROUTER_REQUEST, ROUTER_NAVIGATION}
  /\ \A type \in Failures : Before(type) = Unfinished
  /\ {} \in Unfinished /\ {ROUTER_REQUEST} \in Unfinished
  /\ {ROUTER_REQUEST, ROUTER_NAVIGATION} \in Unfinished
BY DEF Before, Failures, Unfinished, ROUTER_REQUEST, ROUTER_NAVIGATION, ROUTER_NAVIGATED,
   ROUTER_CANCEL, ROUTER_ERROR

(* NavigationStart.                                                        *)
LEMMA StartOrders ==
  ASSUME RouterInvariant, OrdersInvariant, INIT_TYPE \notin Payloads,
         HandleEvent, events[1].kind = "start"
  PROVE  OrdersInvariant'
<1> DEFINE h == Handle(service, events[1])
           a == Action(ROUTER_REQUEST, events[1].id, url, Null)
           out == <<a>>
<1>1. /\ UNCHANGED <<navigation, navigations, late, alive>>
      /\ events[1] \in Events /\ service \in Services /\ events # <<>>
      /\ service' = h.service
      /\ startedAt' = Append(startedAt, Version)
      /\ LatestStore = Version /\ Version \in Nat
  BY HandleEventFrame
<1>2. /\ Pending({"start"}, navigations)
      /\ Len(startedAt) = navigations - 1
      /\ navigation # Null
  BY <1>1 DEF RouterInvariant, EventsInvariant, Pending, Failures, ROUTER_CANCEL, ROUTER_ERROR
<1>3. events' = <<>> /\ service.trigger # "STORE"
  BY HandleStart
<1>4. startedAt \in Seq(Nat) /\ navigations \in Nat /\ url \in Urls
  BY DEF RouterInvariant, RouterTypeOK
<1>5. Len(startedAt') = navigations
  BY <1>1, <1>2, <1>4, AppendProperties
<1>6. /\ h = Handler(h.service, h.out, FALSE)
      /\ h.service.trigger = service.trigger
      /\ h.out = <<Action(ROUTER_REQUEST, events[1].id, url, Null)>>
  BY <1>1, <1>3, <1>4, StartFacts
<1>7. a.type = ROUTER_REQUEST /\ a.id = navigations /\ a \in Payloads
  BY <1>1, <1>2, <1>4 DEF Action, Pending, Payloads, Events, RouterActions
<1>8. Routed(a)
  BY <1>7 DEF Routed, RouterActions
<1>9. out \in Seq(Payloads) /\ DOMAIN out = {1} /\ out[1] = a
  BY <1>7
<1> DEFINE v == h.service
<1>10. Handle(service, events[1]) = Handler(v, out, FALSE)
  BY <1>6
<1> HIDE DEF h, a, out, v
<1>11. /\ InOrder(Issued)' /\ UNCHANGED alive
       /\ Done(a.id) \in Before(a.type) =>
            ComingInOrder' /\ \A id : Done(id)' = With(Done(id), a, id)
  BY ONLY RouterInvariant, OrdersInvariant, HandleEvent, <1>8, <1>9, <1>10, HandledOne
<1>12. ASSUME alive PROVE ComingInOrder' /\ DispatchedInvariant'
  <2>1. DispatchedInvariant
    BY <1>12 DEF OrdersInvariant
  <2>2. \A id \in Nat : id > Len(startedAt) => Done(id) = {}
    BY <2>1 DEF DispatchedInvariant
  <2>3. Done(navigations) = {} /\ navigation.stage = "started"
    BY <1>2, <1>4, <2>1, <2>2 DEF DispatchedInvariant
  <2>4. ComingInOrder' /\ \A id : Done(id)' = With(Done(id), a, id)
    BY <1>7, <1>11, <2>3, BeforeFacts
  <2>5. \A id \in Nat : id > Len(startedAt') => Done(id)' = {}
    <3> SUFFICES ASSUME NEW id \in Nat, id > navigations PROVE Done(id)' = {}
      BY <1>5
    <3>1. Done(id) = {} /\ id # a.id
      BY <1>2, <1>4, <1>7, <2>2
    <3>2. QED
      BY <2>4, <3>1 DEF With
  <2>6. Done(navigations)' = {ROUTER_REQUEST}
    <3>1. \A id : id = navigations => Done(id)' = {ROUTER_REQUEST}
      BY <1>7, <1>8, <2>3, <2>4 DEF With
    <3>2. QED
      BY <1>1, <3>1
  <2>7. Dispatched(FALSE)' = {ROUTER_REQUEST}
    BY <1>1, <1>3, <1>6 DEF Dispatched, ByStore, v
  <2>8. (navigation.stage = "recognized")' = FALSE /\ events' = <<>>
    BY <1>1, <1>3, <2>3
  <2>9. Done(navigations)' = Dispatched(navigation.stage = "recognized" /\ events = <<>>)'
    BY <2>6, <2>7, <2>8 DEF Dispatched
  <2>10. QED
    BY <1>1, <1>2, <1>3, <1>5, <2>4, <2>5, <2>9 DEF DispatchedInvariant
<1>13. QED
  BY <1>11, <1>12 DEF OrdersInvariant

(* RoutesRecognized.                                                       *)
LEMMA RecognizedOrders ==
  ASSUME RouterInvariant, OrdersInvariant, INIT_TYPE \notin Payloads,
         HandleEvent, events[1].kind = "recognized"
  PROVE  OrdersInvariant'
<1> DEFINE h == Handle(service, events[1])
           a == Action(ROUTER_NAVIGATION, events[1].id, events[1].url, Null)
           out == IF ~late /\ service.trigger # "STORE" THEN <<a>> ELSE <<>>
<1>1. /\ UNCHANGED <<navigation, navigations, late, alive>>
      /\ events[1] \in Events /\ service \in Services /\ events # <<>>
      /\ service' = h.service
      /\ startedAt' = startedAt
  BY HandleEventFrame
<1>2. /\ Pending({"recognized"}, navigations)
      /\ Len(startedAt) = navigations
      /\ navigation # Null
  BY <1>1 DEF RouterInvariant, EventsInvariant, Pending, Failures, ROUTER_CANCEL, ROUTER_ERROR
<1>3. events' = <<>>
  BY HandleRecognized
<1>4. startedAt \in Seq(Nat) /\ navigations \in Nat
  BY DEF RouterInvariant, RouterTypeOK
<1>5. /\ h = Handler(h.service, h.out, FALSE)
      /\ h.service.trigger = service.trigger
      /\ h.out = IF ~late /\ service.trigger # "STORE"
                 THEN <<Action(ROUTER_NAVIGATION, events[1].id, events[1].url, Null)>> ELSE <<>>
  BY <1>1, RecognizedFacts
<1>6. a.type = ROUTER_NAVIGATION /\ a.id = navigations /\ a \in Payloads
  BY <1>1, <1>2 DEF Action, Pending, Payloads, Events, RouterActions
<1>7. Routed(a)
  BY <1>6 DEF Routed, RouterActions
<1>8. /\ out \in Seq(Payloads)
      /\ ~late /\ ~ByStore => DOMAIN out = {1} /\ out[1] = a
      /\ late \/ ByStore => DOMAIN out = {}
  <2>1. CASE ~late /\ ~ByStore
    BY <1>6, <2>1 DEF ByStore
  <2>2. CASE late \/ ByStore
    BY <2>2 DEF ByStore
  <2>3. QED
    BY <2>1, <2>2
<1> DEFINE v == h.service
<1>9. Handle(service, events[1]) = Handler(v, out, FALSE)
  BY <1>5
<1>10. ByStore' <=> ByStore
  BY <1>1, <1>5 DEF ByStore
<1> HIDE DEF h, a, out, v
<1>11. /\ InOrder(Issued)' /\ UNCHANGED alive
       /\ DOMAIN out = {} => ComingInOrder' /\ \A id : Done(id)' = Done(id)
       /\ DOMAIN out = {1} /\ Routed(out[1]) /\ Done(out[1].id) \in Before(out[1].type) =>
            ComingInOrder' /\ \A id : Done(id)' = With(Done(id), out[1], id)
  BY ONLY RouterInvariant, OrdersInvariant, HandleEvent, <1>8, <1>9, HandledOrders
<1>12. ASSUME alive PROVE ComingInOrder' /\ DispatchedInvariant'
  <2>1. DispatchedInvariant
    BY <1>12 DEF OrdersInvariant
  <2>2. \A id \in Nat : id > Len(startedAt) => Done(id) = {}
    BY <2>1 DEF DispatchedInvariant
  <2>3. Done(navigations) = Dispatched(FALSE) /\ navigation.stage = "recognized"
    BY <1>1, <1>2, <2>1 DEF DispatchedInvariant, Dispatched
  <2>4. /\ ComingInOrder'
        /\ \A id : id # navigations => Done(id)' = Done(id)
        /\ \A id : id = navigations => Done(id)' = Dispatched(TRUE)
    <3>1. CASE late \/ ByStore
      <4>1. ComingInOrder' /\ \A id : Done(id)' = Done(id)
        BY <1>8, <1>11, <3>1
      <4>2. Dispatched(TRUE) = Dispatched(FALSE)
        BY <3>1 DEF Dispatched
      <4>3. QED
        BY <2>3, <4>1, <4>2
    <3>2. CASE ~late /\ ~ByStore
      <4>1. Done(navigations) = {ROUTER_REQUEST}
        BY <2>3, <3>2 DEF Dispatched
      <4>2. ComingInOrder' /\ \A id : Done(id)' = With(Done(id), a, id)
        BY <1>6, <1>7, <1>8, <1>11, <3>2, <4>1, BeforeFacts
      <4>3. Dispatched(TRUE) = {ROUTER_REQUEST} \cup {ROUTER_NAVIGATION}
        BY <3>2 DEF Dispatched
      <4>4. \A id : id = navigations => Done(id)' = Dispatched(TRUE)
        BY <1>6, <1>7, <4>1, <4>2, <4>3 DEF With
      <4>5. \A id : id # navigations => Done(id)' = Done(id)
        BY <1>6, <4>2 DEF With
      <4>6. QED
        BY <4>2, <4>4, <4>5
    <3>3. QED
      BY <3>1, <3>2
  <2>5. \A id \in Nat : id > Len(startedAt') => Done(id)' = {}
    BY <1>1, <1>2, <1>4, <2>2, <2>4
  <2>6. Done(navigations)' = Dispatched(navigation.stage = "recognized" /\ events = <<>>)'
    <3>1. Done(navigations)' = Dispatched(TRUE)
      BY <1>1, <2>4
    <3>2. Dispatched(TRUE) = Dispatched(TRUE)'
      BY <1>1, <1>10 DEF Dispatched
    <3>3. (navigation.stage = "recognized")' = TRUE /\ events' = <<>>
      BY <1>1, <1>3, <2>3
    <3>4. QED
      BY <3>1, <3>2, <3>3 DEF Dispatched
  <2>7. QED
    BY <1>1, <1>2, <1>3, <2>4, <2>5, <2>6 DEF DispatchedInvariant
<1>13. QED
  BY <1>11, <1>12 DEF OrdersInvariant

(* NavigationEnd.                                                          *)
LEMMA EndOrders ==
  ASSUME RouterInvariant, OrdersInvariant, INIT_TYPE \notin Payloads,
         HandleEvent, events[1].kind = "end"
  PROVE  OrdersInvariant'
<1> DEFINE h == Handle(service, events[1])
           a == Action(ROUTER_NAVIGATION, events[1].id, service.recognized, Null)
           c == Action(ROUTER_NAVIGATED, events[1].id, url, Null)
           out == IF service.trigger = "STORE" THEN <<>>
                  ELSE IF late THEN <<a>> \o <<c>> ELSE <<c>>
<1>1. /\ UNCHANGED <<navigation, navigations, late, alive>>
      /\ events[1] \in Events /\ service \in Services /\ events # <<>>
      /\ startedAt' = startedAt
  BY HandleEventFrame
<1>2. /\ Pending({"end"} \cup Failures, navigations)
      /\ Len(startedAt) = navigations
      /\ navigation = Null
  BY <1>1 DEF RouterInvariant, EventsInvariant, Pending, Failures, ROUTER_CANCEL, ROUTER_ERROR
<1>3. events' = <<>>
  BY HandleEnd
<1>4. startedAt \in Seq(Nat) /\ navigations \in Nat /\ url \in Urls
  BY DEF RouterInvariant, RouterTypeOK
<1>5. /\ h = Handler(h.service, h.out, TRUE)
      /\ h.out = IF service.trigger = "STORE" THEN <<>>
                 ELSE IF late THEN <<a>> \o <<c>> ELSE <<c>>
  BY <1>1, EndFacts
<1>6. /\ a.type = ROUTER_NAVIGATION /\ a.id = navigations /\ a \in Payloads
      /\ c.type = ROUTER_NAVIGATED /\ c.id = navigations /\ c \in Payloads
  BY <1>1, <1>2, <1>4 DEF Action, Pending, Payloads, Events, RouterActions, Services
<1>7. Routed(a) /\ Routed(c)
  BY <1>6 DEF Routed, RouterActions
<1> DEFINE v == h.service
<1>8. Handle(service, events[1]) = Handler(v, out, TRUE)
  BY <1>5
<1> HIDE DEF h, a, c, v
<1>9. /\ out \in Seq(Payloads)
      /\ ByStore => DOMAIN out = {}
      /\ late /\ ~ByStore => DOMAIN out = {1, 2} /\ out[1] = a /\ out[2] = c
      /\ ~late /\ ~ByStore => DOMAIN out = {1} /\ out[1] = c
  <2>1. CASE ByStore
    BY <2>1 DEF ByStore
  <2>2. CASE late /\ ~ByStore
    <3>1. <<a>> \o <<c>> \in Seq(Payloads) /\ Len(<<a>> \o <<c>>) = 2
          /\ (<<a>> \o <<c>>)[1] = a /\ (<<a>> \o <<c>>)[2] = c
      BY <1>6, TwoFacts
    <3>2. out = <<a>> \o <<c>>
      BY <2>2 DEF ByStore
    <3> HIDE DEF out
    <3>3. out \in Seq(Payloads) /\ Len(out) = 2 /\ out[1] = a /\ out[2] = c
      BY <3>1, <3>2
    <3>4. DOMAIN out = 1 .. 2
      BY <3>3, LenProperties
    <3>5. QED
      BY <2>2, <3>3, <3>4
  <2>3. CASE ~late /\ ~ByStore
    BY <1>6, <2>3 DEF ByStore
  <2>4. QED
    BY <2>1, <2>2, <2>3
<1> HIDE DEF out
<1>10. /\ InOrder(Issued)' /\ UNCHANGED alive
       /\ DOMAIN out = {} => ComingInOrder' /\ \A id : Done(id)' = Done(id)
       /\ DOMAIN out = {1} /\ Routed(out[1]) /\ Done(out[1].id) \in Before(out[1].type) =>
            ComingInOrder' /\ \A id : Done(id)' = With(Done(id), out[1], id)
       /\ /\ DOMAIN out = {1, 2} /\ Routed(out[1]) /\ Routed(out[2])
          /\ Done(out[1].id) \in Before(out[1].type)
          /\ With(Done(out[2].id), out[1], out[2].id) \in Before(out[2].type)
          /\ out[2].type = ROUTER_NAVIGATED /\ Ended(out[2].id)
          => ComingInOrder' /\ \A id : Done(id)' = With(With(Done(id), out[1], id), out[2], id)
  BY <1>8, <1>9, HandledOrders
<1>11. ASSUME alive PROVE ComingInOrder' /\ DispatchedInvariant'
  <2>1. DispatchedInvariant
    BY <1>11 DEF OrdersInvariant
  <2>2. \A id \in Nat : id > Len(startedAt) => Done(id) = {}
    BY <2>1 DEF DispatchedInvariant
  <2>3. Done(navigations) = Dispatched(TRUE)
    BY <1>1, <2>1 DEF DispatchedInvariant
  <2>4. ComingInOrder' /\ \A id : id # navigations => Done(id)' = Done(id)
    <3>1. CASE ByStore
      BY <1>9, <1>10, <3>1
    <3>2. CASE late /\ ~ByStore
      <4>1. Done(navigations) = {ROUTER_REQUEST}
        BY <2>3, <3>2 DEF Dispatched
      <4>2. With(Done(navigations), a, navigations) = {ROUTER_REQUEST, ROUTER_NAVIGATION}
        BY <1>6, <1>7, <4>1 DEF With
      <4>3. Ended(navigations)
        BY <1>2 DEF Ended
      <4>4. ComingInOrder' /\ \A id : Done(id)' = With(With(Done(id), a, id), c, id)
        BY <1>6, <1>7, <1>9, <1>10, <3>2, <4>1, <4>2, <4>3, BeforeFacts
      <4>5. QED
        BY <1>6, <4>4 DEF With
    <3>3. CASE ~late /\ ~ByStore
      <4>1. Done(navigations) = {ROUTER_REQUEST, ROUTER_NAVIGATION}
        BY <2>3, <3>3 DEF Dispatched
      <4>2. ComingInOrder' /\ \A id : Done(id)' = With(Done(id), c, id)
        BY <1>6, <1>7, <1>9, <1>10, <3>3, <4>1, BeforeFacts
      <4>3. QED
        BY <1>6, <4>2 DEF With
    <3>4. QED
      BY <3>1, <3>2, <3>3
  <2>5. \A id \in Nat : id > Len(startedAt') => Done(id)' = {}
    BY <1>1, <1>2, <1>4, <2>2, <2>4
  <2>6. QED
    BY <1>1, <1>2, <1>3, <2>4, <2>5 DEF DispatchedInvariant
<1>12. QED
  BY <1>10, <1>11 DEF OrdersInvariant

(* NavigationCancel and NavigationError.                                   *)
LEMMA FailureOrders ==
  ASSUME RouterInvariant, OrdersInvariant, INIT_TYPE \notin Payloads,
         HandleEvent, events[1].kind \in Failures
  PROVE  OrdersInvariant'
<1> DEFINE h == Handle(service, events[1])
           a == Action(events[1].kind, events[1].id, service.routerState, service.storeState)
           out == <<a>>
<1>1. /\ UNCHANGED <<navigation, navigations, late, alive>>
      /\ events[1] \in Events /\ service \in Services /\ events # <<>>
      /\ events \in Seq(Events) /\ Len(events) \in Nat
      /\ startedAt' = startedAt
  BY HandleEventFrame DEF Failures, ROUTER_CANCEL, ROUTER_ERROR
<1>2. /\ Len(events) \in {1, 2}
      /\ Len(events) = 1 => Len(startedAt) = navigations /\ events[1].id = navigations
      /\ Len(events) = 2 => /\ events[1].id = navigations - 1
                            /\ Len(startedAt) = navigations - 1
                            /\ navigation # Null
  BY <1>1 DEF RouterInvariant, EventsInvariant, Pending, Failures, ROUTER_CANCEL, ROUTER_ERROR
<1>3. IF Len(events) = 1 THEN events' = <<>> /\ navigation = Null
      ELSE Len(events') = 1 /\ events'[1].kind = "start" /\ navigation # Null
  BY HandleFailure
<1>4. startedAt \in Seq(Nat) /\ navigations \in Nat
  BY DEF RouterInvariant, RouterTypeOK
<1>5. /\ h = Handler(h.service, h.out, TRUE)
      /\ h.out = <<a>>
  BY <1>1, FailureFacts
<1>6. a.type = events[1].kind /\ a.id = Len(startedAt) /\ a \in Payloads
  BY <1>1, <1>2 DEF Action, Payloads, Events, Services, RouterActions, Failures
<1>7. Routed(a)
  BY <1>6 DEF Routed, RouterActions, Failures
<1>8. out \in Seq(Payloads) /\ DOMAIN out = {1} /\ out[1] = a
  BY <1>6
<1> DEFINE v == h.service
<1>9. Handle(service, events[1]) = Handler(v, out, TRUE)
  BY <1>5
<1> HIDE DEF h, a, out, v
<1>10. /\ InOrder(Issued)' /\ UNCHANGED alive
       /\ Done(a.id) \in Before(a.type) =>
            ComingInOrder' /\ \A id : Done(id)' = With(Done(id), a, id)
  BY ONLY RouterInvariant, OrdersInvariant, HandleEvent, <1>7, <1>8, <1>9, HandledOne
<1>11. ASSUME alive PROVE ComingInOrder' /\ DispatchedInvariant'
  <2>1. DispatchedInvariant
    BY <1>11 DEF OrdersInvariant
  <2>2. \A id \in Nat : id > Len(startedAt) => Done(id) = {}
    BY <2>1 DEF DispatchedInvariant
  <2>3. Done(a.id) \in Unfinished
    BY <1>1, <1>2, <1>6, <2>1 DEF DispatchedInvariant
  <2>4. ComingInOrder' /\ \A id : Done(id)' = With(Done(id), a, id)
    BY <1>6, <1>10, <2>3, BeforeFacts
  <2>5. \A id \in Nat : id > Len(startedAt') => Done(id)' = {}
    <3> SUFFICES ASSUME NEW id \in Nat, id > Len(startedAt) PROVE Done(id)' = {}
      BY <1>1
    <3>1. Done(id) = {} /\ id # a.id
      BY <1>2, <1>4, <1>6, <2>2
    <3>2. QED
      BY <2>4, <3>1 DEF With
  <2>6. Len(startedAt) # navigations => navigation # Null /\ navigation.stage = "started"
    BY <2>1 DEF DispatchedInvariant
  <2>7. CASE Len(events) = 1
    BY <1>1, <1>2, <1>3, <2>4, <2>5, <2>7 DEF DispatchedInvariant
  <2>8. CASE Len(events) = 2
    <3>1. Len(startedAt) # navigations /\ events'[1].kind = "start" /\ events'[1].kind \notin Failures
      BY <1>2, <1>3, <1>4, <2>8 DEF Failures, ROUTER_CANCEL, ROUTER_ERROR
    <3>2. QED
      BY <1>1, <2>4, <2>5, <2>6, <3>1 DEF DispatchedInvariant
  <2>9. QED
    BY <1>2, <2>7, <2>8
<1>12. QED
  BY <1>10, <1>11 DEF OrdersInvariant

(* The listener of router events, whichever the event is.                  *)
LEMMA HandleEventOrders ==
  ASSUME RouterInvariant, OrdersInvariant, INIT_TYPE \notin Payloads, HandleEvent
  PROVE  OrdersInvariant'
<1>1. events[1].kind \in {"start", "recognized", "end"} \cup Failures
  BY HandleEventFrame DEF Events, Kinds
<1>2. QED
  BY <1>1, StartOrders, RecognizedOrders, EndOrders, FailureOrders

(* A handler goes on outside a flush.                                      *)
LEMMA HandlerStepOrders ==
  ASSUME RouterInvariant, OrdersInvariant, HandlerStep
  PROVE  OrdersInvariant'
<1> DEFINE a == agenda[1].action
<1>1. /\ UNCHANGED <<log, navigation, navigations, events, startedAt, alive, late>>
      /\ Idle /\ queue = <<>>
      /\ agenda \in Seq(Todo(startedAt)) /\ agenda # <<>> /\ agenda' = Tail(agenda)
      /\ service \in Services
      /\ \/ /\ agenda[1].do = "dispatch"
            /\ a \in Own(startedAt)
            /\ service' = [service EXCEPT !.trigger = "ROUTER"]
            /\ queue' = IF alive THEN Append(<<>>, a) ELSE <<>>
         \/ /\ agenda[1].do # "dispatch"
            /\ \/ service' = [service EXCEPT !.trigger = "NONE"]
               \/ service' = Reset(service)
            /\ queue' = <<>>
  BY HandlerStepFacts
<1>2. RouterTypeOK /\ startedAt \in Seq(Nat) /\ Len(startedAt) \in Nat /\ navigations \in Nat
  BY IssuedType DEF RouterInvariant
<1>3. ~ByStore'
  BY <1>1 DEF ByStore, Services, Reset
<1> DEFINE t == agenda
           r == agenda'
<1>4. /\ \A id : Coming(t, 0, id) = {}
      /\ \A n \in 0 .. Len(r) : \A id : \A x : x \in Coming(t, n + 1, id) <=>
           \/ t[1].do = "dispatch" /\ t[1].action.id = id /\ x = t[1].action.type
           \/ x \in Coming(r, n, id)
      /\ Len(r) \in Nat /\ Len(t) = Len(r) + 1
      /\ DOMAIN r = 1 .. Len(r) /\ DOMAIN t = 1 .. Len(t)
      /\ \A i \in DOMAIN r : i + 1 \in DOMAIN t /\ r[i] = t[i + 1] /\ i - 1 \in 0 .. Len(r)
  <2> DEFINE S == Todo(startedAt)
  <2>1. t \in Seq(S) /\ t # <<>> /\ r = Tail(t)
    BY <1>1
  <2> HIDE DEF t, r, S
  <2>2. \A id : Coming(t, 0, id) = {}
    BY <2>1, ComingTail
  <2>3. \A n \in 0 .. Len(r) : \A id : \A x : x \in Coming(t, n + 1, id) <=>
           \/ t[1].do = "dispatch" /\ t[1].action.id = id /\ x = t[1].action.type
           \/ x \in Coming(r, n, id)
    <3>1. ComingFirst(t, r)
      BY <2>1, ComingTail
    <3>2. QED
      BY <3>1 DEF ComingFirst
  <2>4. /\ Len(r) \in Nat /\ Len(t) = Len(r) + 1
        /\ DOMAIN r = 1 .. Len(r) /\ DOMAIN t = 1 .. Len(t)
        /\ \A i \in DOMAIN r : i + 1 \in DOMAIN t /\ r[i] = t[i + 1] /\ i - 1 \in 0 .. Len(r)
    BY <2>1, ComingTail
  <2>5. QED
    BY <2>2, <2>3, <2>4
<1>5. CASE ~alive
  <2>1. UNCHANGED <<log, queue>>
    BY <1>1, <1>5
  <2>2. QED
    BY <1>1, <1>5, <2>1, SameIssued DEF OrdersInvariant
<1>6. CASE alive
  <2>1. ComingInOrder /\ DispatchedInvariant /\ InOrder(Issued)
    BY <1>6 DEF OrdersInvariant
  <2>2. /\ \A id : Already(id)' = Already(id) \cup
             (IF t[1].do = "dispatch" /\ t[1].action.id = id THEN {t[1].action.type} ELSE {})
        /\ InOrder(Issued)'
    <3>1. CASE agenda[1].do = "dispatch"
      <4>1. queue' = queue \o <<a>>
        <5>1. queue' = Append(queue, a) /\ queue \in Seq(Own(startedAt) \cup {INIT_TYPE})
              /\ a \in Own(startedAt) \cup {INIT_TYPE}
          BY <1>1, <1>2, <1>6, <3>1 DEF RouterTypeOK
        <5> HIDE DEF a
        <5>2. QED
          BY <5>1, AppendIsConcat
      <4>2. 1 \in DOMAIN agenda
        BY <1>4
      <4>3. Routed(a) /\ Already(a.id) \cup Coming(agenda, 1 - 1, a.id) \in Before(a.type)
        BY <2>1, <3>1, <4>2 DEF ComingInOrder
      <4>4. Coming(agenda, 1 - 1, a.id) = {}
        BY <1>4
      <4>5. Already(a.id) \in Before(a.type)
        BY <4>3, <4>4
      <4>6. a \in Own(startedAt) \cup {INIT_TYPE}
        BY <1>1, <3>1
      <4> DEFINE b == a
      <4>7. /\ b \in Own(startedAt) \cup {INIT_TYPE} /\ queue' = queue \o <<b>>
            /\ Routed(b) /\ Already(b.id) \in Before(b.type)
        BY <4>1, <4>3, <4>5, <4>6
      <4> HIDE DEF b
      <4>8. /\ \A id : Already(id)' = With(Already(id), b, id)
            /\ InOrder(Issued) /\ (Routed(b) => Already(b.id) \in Before(b.type)) => InOrder(Issued)'
        BY <1>1, <1>2, <4>7, EnqueueFacts
      <4>9. ASSUME NEW id
            PROVE  Already(id)' = Already(id) \cup (IF b.id = id THEN {b.type} ELSE {})
        BY <4>7, <4>8 DEF With
      <4>10. InOrder(Issued)'
        BY <2>1, <4>7, <4>8
      <4>11. QED
        BY <3>1, <4>9, <4>10 DEF b
    <3>2. CASE agenda[1].do # "dispatch"
      <4>1. UNCHANGED <<log, queue>>
        BY <1>1, <3>2
      <4>2. QED
        BY <2>1, <3>2, <4>1, SameIssued
    <3>3. QED
      BY <3>1, <3>2
  <2>3. ASSUME NEW n \in 0 .. Len(r), NEW id
        PROVE  Already(id)' \cup Coming(r, n, id) = Already(id) \cup Coming(t, n + 1, id)
    <3> DEFINE here == IF t[1].do = "dispatch" /\ t[1].action.id = id THEN {t[1].action.type} ELSE {}
    <3>1. \A x : x \in Coming(t, n + 1, id) <=> x \in here \/ x \in Coming(r, n, id)
      BY <1>4
    <3>2. Already(id)' = Already(id) \cup here
      BY <2>2
    <3> HIDE DEF here, t, r
    <3>3. QED
      BY <3>1, <3>2
  <2>4. \A id : Done(id)' = Done(id)
    <3>1. Len(r) \in 0 .. Len(r) /\ Len(r) + 1 = Len(t)
      BY <1>4
    <3>2. QED
      BY <2>3, <3>1 DEF Done
  <2>5. ComingInOrder'
    <3>1. \A id : Ended(id)' <=> Ended(id)
      BY <1>1 DEF Ended
    <3>2. ASSUME NEW i \in DOMAIN agenda', agenda'[i].do = "dispatch"
          PROVE  (/\ Routed(agenda[i].action)
                  /\ Already(agenda[i].action.id) \cup Coming(agenda, i - 1, agenda[i].action.id)
                       \in Before(agenda[i].action.type)
                  /\ \/ i = 1 /\ Idle
                     \/ agenda[i].action.type = ROUTER_NAVIGATED /\ Ended(agenda[i].action.id))'
      <4> DEFINE id == agenda'[i].action.id
                 type == agenda'[i].action.type
      <4>1. /\ i + 1 \in DOMAIN agenda /\ agenda'[i] = agenda[i + 1]
            /\ i - 1 \in 0 .. Len(r) /\ (i - 1) + 1 = (i + 1) - 1 /\ i + 1 # 1
        BY <1>4
      <4>2. /\ Routed(agenda'[i].action)
            /\ Already(id) \cup Coming(agenda, (i + 1) - 1, id) \in Before(type)
            /\ type = ROUTER_NAVIGATED /\ Ended(id)
        BY <2>1, <3>2, <4>1 DEF ComingInOrder
      <4>3. \A x : x = id =>
              /\ Already(x)' \cup Coming(r, i - 1, x) = Already(x) \cup Coming(t, (i + 1) - 1, x)
              /\ Ended(x)' <=> Ended(x)
        BY <2>3, <3>1, <4>1
      <4>4. QED
        BY <4>2, <4>3
    <3>3. QED
      BY <3>2, ComingNext
  <2>6. /\ events # <<>> => events[1].kind = "start"
        /\ navigation # Null /\ Len(startedAt) = navigations => ~ByStore
    BY <1>1, <1>2 DEF RouterInvariant, AgendaInvariant, EventsInvariant, Pending, ByStore,
       Failures, ROUTER_CANCEL, ROUTER_ERROR
  <2>7. \A x : ~ByStore => Dispatched(x)' = Dispatched(x)
    BY <1>1, <1>3 DEF Dispatched
  <2>8. Done(navigations)' = Done(navigations)
    BY <1>1, <2>4
  <2>9. navigation # Null /\ Len(startedAt) = navigations =>
          Done(navigations)' = Dispatched(navigation.stage = "recognized" /\ events = <<>>)'
    BY <1>1, <1>3, <2>1, <2>6, <2>8 DEF DispatchedInvariant, Dispatched
  <2>10. \A id \in Nat : id > Len(startedAt') => Done(id)' = {}
    BY <1>1, <2>1, <2>4 DEF DispatchedInvariant
  <2>11. DispatchedInvariant'
    BY <1>1, <2>1, <2>6, <2>9, <2>10
    DEF DispatchedInvariant, Failures, ROUTER_CANCEL, ROUTER_ERROR
  <2>12. QED
    BY <2>2, <2>5, <2>11 DEF OrdersInvariant
<1>7. QED
  BY <1>5, <1>6

(* Dispatching two actions in a row.                                       *)
LEMMA EnqueueTwo ==
  ASSUME RouterTypeOK, NEW c \in Own(startedAt) \cup {INIT_TYPE},
         NEW a \in Own(startedAt) \cup {INIT_TYPE},
         log' = log, queue' = (queue \o <<c>>) \o <<a>>
  PROVE  /\ \A id : Already(id)' = With(With(Already(id), c, id), a, id)
         /\ /\ InOrder(Issued)
            /\ Routed(c) => Already(c.id) \in Before(c.type)
            /\ Routed(a) => With(Already(a.id), c, a.id) \in Before(a.type)
            => InOrder(Issued)'
<1> DEFINE S == Own(startedAt) \cup {INIT_TYPE}
<1>1. log \in Seq(S) /\ queue \in Seq(S) /\ Issued \in Seq(S) /\ a \in S /\ c \in S
  BY IssuedType
<1> HIDE DEF S
<1>2. <<a>> \in Seq(S) /\ <<c>> \in Seq(S)
  BY <1>1
<1>3. queue \o <<c>> \in Seq(S)
  BY <1>1, <1>2, ConcatProperties
<1>4. Issued' = (log \o (queue \o <<c>>)) \o <<a>>
  BY <1>1, <1>2, <1>3, ConcatAssociative DEF Issued
<1>5. log \o (queue \o <<c>>) = Issued \o <<c>>
  BY <1>1, <1>2, ConcatAssociative DEF Issued
<1>6. Issued \o <<c>> = Append(Issued, c) /\ Append(Issued, c) \in Seq(S)
  BY <1>1, AppendIsConcat, AppendProperties
<1>7. Issued' = Append(Append(Issued, c), a)
  <2>1. Issued' = Append(Issued, c) \o <<a>>
    BY <1>4, <1>5, <1>6
  <2> DEFINE u == Append(Issued, c)
  <2>2. u \in Seq(S) /\ Issued' = u \o <<a>>
    BY <1>6, <2>1
  <2> HIDE DEF u
  <2>3. Append(u, a) = u \o <<a>>
    BY ONLY <1>1, <2>2, AppendIsConcat
  <2>4. QED
    BY <2>2, <2>3 DEF u
<1> DEFINE s == Issued
           u == Append(Issued, c)
           t == Issued'
<1>8. s \in Seq(S) /\ u \in Seq(S) /\ u = Append(s, c) /\ t = Append(u, a)
  BY <1>1, <1>6, <1>7
<1>9. /\ \A id : Already(id) = TypesIn(s, Len(s), id)
      /\ \A id : Already(id)' = TypesIn(t, Len(t), id)
      /\ InOrder(Issued)' <=> InOrder(t)
      /\ InOrder(Issued) <=> InOrder(s)
  BY DEF Already, TypesIn, InOrder, Routed, Before
<1> HIDE DEF s, t, u
<1>10. \A id : TypesIn(u, Len(u), id) = With(TypesIn(s, Len(s), id), c, id)
  <2>1. s \in Seq(S) /\ u = Append(s, c) /\ c \in S
    BY <1>1, <1>8
  <2>2. OneMore(s, c, u)
    BY ONLY <2>1, AllAppend
  <2>3. QED
    BY <2>2 DEF OneMore
<1>11. \A id : TypesIn(t, Len(t), id) = With(TypesIn(u, Len(u), id), a, id)
  <2>1. u \in Seq(S) /\ t = Append(u, a) /\ a \in S
    BY <1>1, <1>8
  <2>2. OneMore(u, a, t)
    BY ONLY <2>1, AllAppend
  <2>3. QED
    BY <2>2 DEF OneMore
<1>12. InOrder(s) /\ (Routed(c) => TypesIn(s, Len(s), c.id) \in Before(c.type)) => InOrder(u)
  BY <1>1, <1>8, TypesAppend
<1>13. InOrder(u) /\ (Routed(a) => TypesIn(u, Len(u), a.id) \in Before(a.type)) => InOrder(t)
  BY <1>1, <1>8, TypesAppend
<1>14. \A id : Already(id)' = With(With(Already(id), c, id), a, id)
  BY <1>9, <1>10, <1>11
<1>15. ASSUME InOrder(Issued), Routed(c) => Already(c.id) \in Before(c.type),
              Routed(a) => With(Already(a.id), c, a.id) \in Before(a.type)
       PROVE  InOrder(Issued)'
  BY <1>9, <1>10, <1>12, <1>13, <1>15
<1>16. QED
  BY <1>14, <1>15

(* While a flush is under way the store lives, and a handler that waits    *)

(* for it has the ends of older navigations to dispatch only.              *)
LEMMA FlushOrders ==
  ASSUME RouterInvariant, OrdersInvariant, ~Idle
  PROVE  /\ alive /\ InOrder(Issued) /\ ComingInOrder /\ DispatchedInvariant
         /\ \A i \in DOMAIN agenda : agenda[i].do = "dispatch" =>
              /\ Routed(agenda[i].action)
              /\ agenda[i].action.id \in Nat
              /\ agenda[i].action.type = ROUTER_NAVIGATED /\ Ended(agenda[i].action.id)
              /\ Already(agenda[i].action.id) \cup Coming(agenda, i - 1, agenda[i].action.id)
                   \in Before(ROUTER_NAVIGATED)
         /\ \A id : ~Ended(id) => Done(id) = Already(id)
<1>1. alive
  BY IdleFacts DEF RouterInvariant, FlushInvariant
<1>2. InOrder(Issued) /\ ComingInOrder /\ DispatchedInvariant
  BY <1>1 DEF OrdersInvariant
<1>3. ASSUME NEW i \in DOMAIN agenda, agenda[i].do = "dispatch"
      PROVE  /\ Routed(agenda[i].action)
             /\ agenda[i].action.id \in Nat
             /\ agenda[i].action.type = ROUTER_NAVIGATED /\ Ended(agenda[i].action.id)
             /\ Already(agenda[i].action.id) \cup Coming(agenda, i - 1, agenda[i].action.id)
                  \in Before(ROUTER_NAVIGATED)
  <2>1. agenda[i] \in Todo(startedAt)
    BY ElementOfSeq, LenProperties DEF RouterInvariant, RouterTypeOK
  <2>2. agenda[i].action \in Payloads
    BY <1>3, <2>1 DEF Todo, Entries, Own
  <2>3. agenda[i].action.id \in Nat
    BY <2>2 DEF Payloads
  <2>4. QED
    BY <1>2, <1>3, <2>3 DEF ComingInOrder
<1>4. ASSUME NEW id, ~Ended(id) PROVE Done(id) = Already(id)
  <2>1. 1 .. Len(agenda) = DOMAIN agenda
    BY LenProperties DEF RouterInvariant, RouterTypeOK
  <2>2. Coming(agenda, Len(agenda), id) = {}
    BY <1>3, <1>4, <2>1 DEF Coming
  <2>3. QED
    BY <2>2 DEF Done
<1>5. QED
  BY <1>1, <1>2, <1>3, <1>4

(* The application's effect navigates inside a flush.                      *)
LEMMA EffectNavigatesOrders ==
  ASSUME RouterInvariant, OrdersInvariant, INIT_TYPE \notin Payloads,
         NEW target \in Urls, EffectNavigates(target)
  PROVE  OrdersInvariant'
<1>1. /\ UNCHANGED <<log, events, alive, late, agenda>>
      /\ ~Idle /\ events = <<>> /\ service.trigger # "STORE"
      /\ Len(startedAt) = navigations
      /\ navigation' # Null /\ navigation'.stage = "started"
      /\ navigations' = navigations + 1
      /\ startedAt' = Append(startedAt, Version) /\ Version \in Nat
      /\ service'.trigger = "NONE"
  BY EffectNavigatesFacts
<1>2. PICK a, c \in Own(startedAt) :
         /\ a.type = ROUTER_REQUEST /\ a.id = navigations + 1
         /\ IF navigation = Null THEN queue' = queue \o <<a>>
            ELSE /\ queue' = (queue \o <<c>>) \o <<a>>
                 /\ c.type = ROUTER_CANCEL /\ c.id = navigations
  BY EffectNavigatesFacts
<1>3. RouterTypeOK /\ startedAt \in Seq(Nat) /\ navigations \in Nat
  BY IssuedType DEF RouterInvariant
<1>4. Len(startedAt') = navigations + 1
  BY <1>1, <1>3, AppendProperties
<1>5. /\ alive /\ InOrder(Issued) /\ ComingInOrder /\ DispatchedInvariant
      /\ \A i \in DOMAIN agenda : agenda[i].do = "dispatch" =>
              /\ Routed(agenda[i].action)
              /\ agenda[i].action.id \in Nat
              /\ agenda[i].action.type = ROUTER_NAVIGATED /\ Ended(agenda[i].action.id)
              /\ Already(agenda[i].action.id) \cup Coming(agenda, i - 1, agenda[i].action.id)
                   \in Before(ROUTER_NAVIGATED)
      /\ \A id : ~Ended(id) => Done(id) = Already(id)
  BY <1>1, FlushOrders
<1>6. /\ \A id \in Nat : id > navigations => ~Ended(id) /\ Already(id) = {}
      /\ navigation # Null => ~Ended(navigations)
  BY <1>1, <1>3, <1>5 DEF Ended, DispatchedInvariant
<1>7. navigation # Null => Already(navigations) \in Unfinished
  <2>1. navigation # Null => Done(navigations) = Dispatched(navigation.stage = "recognized")
    BY <1>1, <1>5 DEF DispatchedInvariant, Dispatched
  <2>2. QED
    BY <1>5, <1>6, <2>1 DEF Dispatched, Unfinished
<1>8. /\ Routed(a) /\ a # INIT_TYPE
      /\ a \in Own(startedAt) \cup {INIT_TYPE} /\ c \in Own(startedAt) \cup {INIT_TYPE}
  BY <1>2 DEF Routed, RouterActions, Own
<1>9. /\ InOrder(Issued)'
      /\ \A id \in Nat : id = navigations + 1 => Already(id)' = {ROUTER_REQUEST}
      /\ \A id \in Nat : id > navigations + 1 => Already(id)' = {}
      /\ \A id \in Nat : Ended(id) => Already(id)' = Already(id)
  <2>1. /\ \A id \in Nat : Ended(id) => id # navigations + 1 /\ (navigation # Null => id # navigations)
        /\ \A id \in Nat : id > navigations + 1 => id > navigations /\ id # navigations
        /\ navigations + 1 \in Nat /\ navigations + 1 > navigations
    BY <1>3 DEF Ended
  <2>2. Already(a.id) = {} /\ Already(a.id) \in Before(a.type)
    BY <1>2, <1>6, <2>1, BeforeFacts
  <2>3. CASE navigation = Null
    <3>1. /\ \A id : Already(id)' = With(Already(id), a, id)
          /\ InOrder(Issued)'
      BY <1>1, <1>2, <1>3, <1>5, <1>8, <2>2, <2>3, EnqueueFacts
    <3>2. \A id \in Nat : id = navigations + 1 => Already(id)' = {ROUTER_REQUEST}
      BY <1>2, <1>6, <1>8, <2>1, <3>1 DEF With
    <3>3. \A id \in Nat : id # navigations + 1 => Already(id)' = Already(id)
      BY <1>2, <3>1 DEF With
    <3>4. \A id \in Nat : id > navigations + 1 => Already(id)' = {}
      BY <1>3, <1>6, <3>3
    <3>5. QED
      BY <2>1, <3>1, <3>2, <3>3, <3>4
  <2>4. CASE navigation # Null
    <3>1. Already(c.id) \in Before(c.type)
      BY <1>2, <1>7, <2>4, BeforeFacts DEF Failures
    <3>2. c.id # a.id
      BY <1>2, <1>3, <2>4
    <3>3. With(Already(a.id), c, a.id) \in Before(a.type)
      BY <2>2, <3>2 DEF With
    <3>4. /\ \A id : Already(id)' = With(With(Already(id), c, id), a, id)
          /\ InOrder(Issued)'
      BY <1>1, <1>2, <1>3, <1>5, <1>8, <2>4, <3>1, <3>3, EnqueueTwo
    <3>5. \A id \in Nat : id = navigations + 1 => Already(id)' = {ROUTER_REQUEST}
      BY <1>2, <1>6, <1>8, <2>1, <2>4, <3>2, <3>4 DEF With
    <3>6. \A id \in Nat : id # navigations + 1 /\ id # navigations => Already(id)' = Already(id)
      BY <1>2, <2>4, <3>4 DEF With
    <3>7. \A id \in Nat : id > navigations + 1 => Already(id)' = {}
      BY <1>3, <1>6, <3>6
    <3>8. QED
      BY <2>1, <2>4, <3>4, <3>5, <3>6, <3>7
  <2>5. QED
    BY <2>3, <2>4
<1>10. \A id \in Nat : Ended(id) => Ended(id)'
  BY <1>1, <1>3 DEF Ended
<1>11. ComingInOrder'
  <2>1. ASSUME NEW i \in DOMAIN agenda', agenda'[i].do = "dispatch"
        PROVE  (/\ Routed(agenda[i].action)
                /\ Already(agenda[i].action.id) \cup Coming(agenda, i - 1, agenda[i].action.id)
                     \in Before(agenda[i].action.type)
                /\ \/ i = 1 /\ Idle
                   \/ agenda[i].action.type = ROUTER_NAVIGATED /\ Ended(agenda[i].action.id))'
    <3> DEFINE id == agenda[i].action.id
    <3>1. agenda' = agenda
      BY <1>1
    <3>2. /\ Routed(agenda[i].action) /\ id \in Nat
          /\ agenda[i].action.type = ROUTER_NAVIGATED /\ Ended(id)
          /\ Already(id) \cup Coming(agenda, i - 1, id) \in Before(ROUTER_NAVIGATED)
      BY <1>5, <2>1, <3>1
    <3>3. \A x : x = id => Already(x)' = Already(x) /\ Ended(x)'
      BY <1>9, <1>10, <3>2
    <3>4. QED
      BY <3>1, <3>2, <3>3
  <2>2. QED
    BY <2>1, ComingNext
<1>12. \A id : \A x : x \in Coming(agenda, Len(agenda), id) => id \in Nat /\ Ended(id)
  <2>1. 1 .. Len(agenda) = DOMAIN agenda
    BY LenProperties DEF RouterInvariant, RouterTypeOK
  <2>2. QED
    BY <1>5, <2>1 DEF Coming
<1>13. \A id \in Nat : ~Ended(id) => Done(id)' = Already(id)'
  <2> SUFFICES ASSUME NEW id \in Nat, ~Ended(id) PROVE Done(id)' = Already(id)'
    OBVIOUS
  <2>1. Coming(agenda, Len(agenda), id) = {}
    BY <1>12
  <2>2. QED
    BY <1>1, <2>1 DEF Done
<1>14. DispatchedInvariant'
  <2>1. \A id \in Nat : id > Len(startedAt') => Done(id)' = {}
    BY <1>3, <1>4, <1>6, <1>9, <1>13
  <2>2. \A id \in Nat : id = navigations + 1 => Done(id)' = {ROUTER_REQUEST}
    BY <1>3, <1>6, <1>9, <1>13
  <2>3. Done(navigations)' = {ROUTER_REQUEST}
    BY <1>1, <1>3, <2>2
  <2>4. Dispatched(FALSE)' = {ROUTER_REQUEST}
    BY <1>1 DEF Dispatched, ByStore
  <2>5. (navigation.stage = "recognized")' = FALSE /\ events' = <<>>
    BY <1>1
  <2>6. Done(navigations)' = Dispatched(navigation.stage = "recognized" /\ events = <<>>)'
    BY <2>3, <2>4, <2>5 DEF Dispatched
  <2>7. QED
    BY <1>1, <1>4, <2>1, <2>6 DEF DispatchedInvariant
<1>15. QED
  BY <1>9, <1>11, <1>14 DEF OrdersInvariant

(* The listener of the state: the navigation it asks for dispatches        *)

(* nothing when it starts.                                                 *)
LEMMA StateListenerOrders ==
  ASSUME RouterInvariant, OrdersInvariant, StateListener
  PROVE  OrdersInvariant'
<1>1. /\ UNCHANGED <<queue, log, events, alive, late, agenda>>
      /\ ~Idle
      /\ \/ UNCHANGED <<navigation, navigations, startedAt, service>>
         \/ /\ agenda = <<>> /\ events = <<>> /\ navigation = Null
            /\ Len(startedAt) = navigations
            /\ navigation' # Null /\ navigation'.stage = "started"
            /\ navigations' = navigations + 1
            /\ startedAt' = Append(startedAt, Version) /\ Version \in Nat
            /\ service'.trigger = "STORE"
  BY StateListenerFacts
<1>2. CASE UNCHANGED <<navigation, navigations, startedAt, service>>
  <2>1. Issued' = Issued /\ (ByStore' <=> ByStore)
    BY <1>1, <1>2, SameIssued DEF ByStore
  <2>2. QED
    BY <1>1, <1>2, <2>1, OrdersFrame
<1>3. CASE /\ agenda = <<>> /\ events = <<>> /\ navigation = Null
           /\ Len(startedAt) = navigations
           /\ navigation' # Null /\ navigation'.stage = "started"
           /\ navigations' = navigations + 1
           /\ startedAt' = Append(startedAt, Version) /\ Version \in Nat
           /\ service'.trigger = "STORE"
  <2>1. startedAt \in Seq(Nat) /\ navigations \in Nat
    BY IssuedType DEF RouterInvariant
  <2>2. Len(startedAt') = navigations + 1
    BY <1>3, <2>1, AppendProperties
  <2>3. DispatchedInvariant /\ InOrder(Issued)
    BY <1>1, FlushOrders
  <2>4. InOrder(Issued)' /\ \A id : Done(id)' = Done(id)
    BY <1>1, <2>3, SameIssued
  <2>5. \A id \in Nat : id > navigations => Done(id)' = {}
    BY <1>3, <2>3, <2>4 DEF DispatchedInvariant
  <2>6. \A id \in Nat : id > Len(startedAt') => Done(id)' = {}
    BY <2>1, <2>2, <2>5
  <2>7. \A id \in Nat : id = navigations + 1 => Done(id)' = {}
    BY <2>1, <2>5
  <2>8. Done(navigations)' = {}
    BY <1>3, <2>1, <2>7
  <2>9. Dispatched(FALSE)' = {}
    BY <1>3 DEF Dispatched, ByStore
  <2>10. (navigation.stage = "recognized")' = FALSE /\ events' = <<>>
    BY <1>1, <1>3
  <2>11. Done(navigations)' = Dispatched(navigation.stage = "recognized" /\ events = <<>>)'
    BY <2>8, <2>9, <2>10 DEF Dispatched
  <2>12. DispatchedInvariant'
    BY <1>1, <1>3, <2>2, <2>6, <2>11 DEF DispatchedInvariant
  <2>13. ComingInOrder'
    BY <1>1, <1>3, NothingComes
  <2>14. QED
    BY <2>4, <2>12, <2>13 DEF OrdersInvariant
<1>4. QED
  BY <1>1, <1>2, <1>3

(* The flush of the store goes on: an action that is reduced leaves the    *)

(* queue for the log.                                                      *)
LEMMA RouterFlushOrders ==
  ASSUME RouterInvariant, OrdersInvariant, RouterFlush
  PROVE  OrdersInvariant'
<1>1. Flush /\ UNCHANGED routerVars
  BY DEF RouterFlush
<1>2. /\ UNCHANGED <<agenda, startedAt, late, navigation, navigations, events>>
      /\ ByStore' <=> ByStore
      /\ Idle => Idle'
  BY <1>1, IdleStays DEF routerVars, ByStore
<1>3. FlushInvariant
  BY DEF RouterInvariant
<1>4. \/ alive' = alive /\ Issued' = Issued
      \/ ~alive' /\ queue' = <<>> /\ log' = log
  <2>1. \/ queue # <<>> /\ alive /\ alive' = alive
           /\ queue' = Tail(queue) /\ log' = Append(log, Head(queue))
        \/ queue' = <<>> /\ ~alive' /\ log' = log
        \/ UNCHANGED <<queue, log, alive>>
    BY <1>1, <1>3, FlushFacts
  <2>2. CASE queue # <<>> /\ alive' = alive /\ queue' = Tail(queue) /\ log' = Append(log, Head(queue))
    <3> DEFINE S == Own(startedAt) \cup {INIT_TYPE}
    <3>1. log \in Seq(S) /\ queue \in Seq(S)
      BY IssuedType DEF RouterInvariant
    <3> HIDE DEF S
    <3>2. Head(queue) \in S /\ Tail(queue) \in Seq(S) /\ queue = <<Head(queue)>> \o Tail(queue)
      BY <2>2, <3>1, HeadTailProperties
    <3>3. <<Head(queue)>> \in Seq(S)
      BY <3>2
    <3>4. log' = log \o <<Head(queue)>>
      BY <2>2, <3>1, <3>2, AppendIsConcat
    <3>5. (log \o <<Head(queue)>>) \o Tail(queue) = log \o (<<Head(queue)>> \o Tail(queue))
      BY <3>1, <3>2, <3>3, ConcatAssociative
    <3>6. QED
      BY <2>2, <3>2, <3>4, <3>5 DEF Issued
  <2>3. CASE UNCHANGED <<queue, log, alive>>
    BY <2>3, SameIssued
  <2>4. QED
    BY <2>1, <2>2, <2>3
<1>5. CASE alive' = alive /\ Issued' = Issued
  BY <1>2, <1>5, OrdersFrame
<1>6. CASE ~alive' /\ queue' = <<>> /\ log' = log
  <2>1. InOrder(log)
    BY IssuedType DEF RouterInvariant, OrdersInvariant
  <2>2. Issued' = log
    BY <1>6, IssuedType, ConcatEmptySeq DEF Issued, RouterInvariant
  <2>3. InOrder(Issued)'
    <3> DEFINE t == Issued'
    <3>1. InOrder(Issued)' <=> InOrder(t)
      BY DEF InOrder, TypesIn, Routed, Before
    <3>2. t = log
      BY <2>2
    <3> HIDE DEF t
    <3>3. QED
      BY <2>1, <3>1, <3>2
  <2>4. QED
    BY <1>6, <2>3 DEF OrdersInvariant
<1>7. QED
  BY <1>4, <1>5, <1>6

(* The service or the effect subscribes, or nothing changes.               *)
LEMMA SubscribingOrders ==
  ASSUME OrdersInvariant, Construct \/ EffectStarts \/ UNCHANGED routerAllVars
  PROVE  OrdersInvariant'
<1>1. /\ UNCHANGED <<log, queue, agenda, alive, startedAt, late, navigation,
                     navigations, events, service, phase, cur, accepting, failing>>
  BY DEF Construct, EffectStarts, Subscribe, Listen, flow, config, status, routerVars,
     routerAllVars, vars
<1>2. Issued' = Issued /\ (ByStore' <=> ByStore) /\ (Idle' <=> Idle)
  BY <1>1, SameIssued DEF ByStore, Idle, Flushing, Runnable
<1>3. QED
  BY <1>1, <1>2, OrdersFrame

(* Every step keeps the order.                                             *)
LEMMA OrdersStep ==
  ASSUME INIT_TYPE \notin Payloads, RouterInvariant, OrdersInvariant,
         [RouterNext]_routerAllVars
  PROVE  OrdersInvariant'
<1>1. CASE UNCHANGED routerAllVars
  BY <1>1, SubscribingOrders
<1>2. CASE RouterNext
  BY <1>2, SubscribingOrders, AppNavigatesOrders, AppJumpsOrders, EffectNavigatesOrders,
     StateListenerOrders, RouterGoesOnOrders, HandleEventOrders, HandlerStepOrders,
     RouterFlushOrders DEF RouterNext
<1>3. QED
  BY <1>1, <1>2

(* The actions of each navigation are reduced in an order that the         *)
(* documentation lists, from whatever callback the navigation was started, *)
(* whatever superseded it and whatever was in the queue: a request first,  *)
(* then its navigation, then either the end or the failure.  The           *)
(* application changes the slice in tasks of their own only.               *)
THEOREM ActionsInDocumentedOrder ==
  ASSUME ~JumpsInFlight, INIT_TYPE \notin Payloads
  PROVE  RouterSpec => []DocumentedOrder
<1>1. RouterInit => RouterInvariant /\ OrdersInvariant
  BY RouterInitInvariant, OrdersInit
<1>2. (RouterInvariant /\ OrdersInvariant) /\ [RouterNext]_routerAllVars
        => (RouterInvariant /\ OrdersInvariant)'
  BY RouterStepInvariant, OrdersStep
<1>3. RouterInvariant /\ OrdersInvariant => DocumentedOrder
  BY IssuedType DEF RouterInvariant, OrdersInvariant, DocumentedOrder
<1>4. QED
  BY <1>1, <1>2, <1>3, PTL DEF RouterSpec
=============================================================================
