--------------------------- MODULE DevtoolsProofs ---------------------------
(***************************************************************************)
(* Proofs about the lifted reducer of @ngrx/store-devtools: however little *)
(* each handler recomputes, the history is what replaying it gives, an     *)
(* exported history shows when it is imported what it showed, and, without *)
(* maxAge, the application always has a state and a commit keeps it.  And  *)
(* recording, with pauses, filters and maxAge, never changes what the      *)
(* application's actions did.  For any number of actions, updates and      *)
(* messages.                                                               *)
(***************************************************************************)
EXTENDS Devtools, FoldTheorems

(* What the variables hold.                                                *)
States == Seq(Nat)
Actions == [kind : Kinds \cup {"init", "pause", "update"}, n : Nat]
Entries == [state : States, error : BOOLEAN]
ActionMaps == UNION {[ids -> Actions] : ids \in SUBSET Nat}
LiftedStates ==
  [actionsById : ActionMaps, nextActionId : Nat, stagedActionIds : Seq(Nat),
   skippedActionIds : SUBSET Nat, committedState : States,
   currentStateIndex : Nat, computedStates : Seq(Entries),
   isLocked : BOOLEAN, isPaused : BOOLEAN]
Messages == [type : Commands, id : Nat, end : Nat, status : BOOLEAN]

(* undefined is none of the values it stands in for.                       *)
UndefinedIsNoValue ==
  Undefined \notin LiftedStates \cup Entries \cup States \cup Messages

(* The theorems about replaying and about the application's state are for  *)
(* a devtools that neither filters nor pauses: an action that is not       *)
(* recorded cannot be replayed.  The setting Recording is further down.    *)
Recorded == ~Filters /\ "PAUSE_RECORDING" \notin Commands

(* The staged actions are numbered in the order they were performed, INIT  *)
(* is the first of them and is not skipped.                                *)
Staged(l) ==
  /\ Len(l.stagedActionIds) >= 1
  /\ l.stagedActionIds[1] = 0
  /\ \A i, j \in 1 .. Len(l.stagedActionIds) :
       i < j => l.stagedActionIds[i] < l.stagedActionIds[j]
  /\ \A i \in 1 .. Len(l.stagedActionIds) :
       /\ l.stagedActionIds[i] < l.nextActionId
       /\ l.stagedActionIds[i] \in DOMAIN l.actionsById
  /\ l.actionsById[0] = INIT
  /\ 0 \notin l.skippedActionIds

(* The entry that an action leads to under a reducer that is broken or not.*)
NextEntry(b, entry, action) ==
  IF entry.error \/ (action.kind = "bad" /\ b) THEN Entry(entry.state, TRUE)
  ELSE Entry(Reducer(entry.state, action), FALSE)

(* The i-th entry is what the i-th staged action makes of the one before.  *)
EntryReplays(b, l, i) ==
  l.computedStates[i] =
    IF i = 1 THEN Entry(l.committedState, FALSE)
    ELSE IF l.stagedActionIds[i] \in l.skippedActionIds
    THEN l.computedStates[i - 1]
    ELSE NextEntry(b, l.computedStates[i - 1],
                   l.actionsById[l.stagedActionIds[i]])

Replays(b, l) == \A i \in 1 .. Len(l.stagedActionIds) : EntryReplays(b, l, i)

HasError(l) == \E i \in 1 .. Len(l.computedStates) : l.computedStates[i].error

(* A history that is complete.  While it is not paused it can be replayed. *)
Complete(l) ==
  /\ l \in LiftedStates
  /\ Staged(l)
  /\ Len(l.computedStates) = Len(l.stagedActionIds)
  /\ ~l.computedStates[1].error

WellFormed(l) == Complete(l) /\ ~l.isPaused

MessageOK ==
  message # Undefined =>
    /\ message \in Messages
    /\ message.type \in {"TOGGLE_ACTION", "SET_ACTIONS_ACTIVE"} => message.id # 0
    /\ message.type = "IMPORT_STATE" => exported # Undefined

(* While an update is queued a history with an error may still show what   *)
(* the broken reducer made of it.                                          *)
HistoryInvariant ==
  /\ broken \in BOOLEAN /\ performed \in Nat
  /\ WellFormed(lifted)
  /\ Replays(broken, lifted) \/ (pending /\ HasError(lifted))
  /\ exported # Undefined =>
       /\ WellFormed(exported)
       /\ Replays(broken, exported) \/ HasError(exported)
  /\ MessageOK

(* Without maxAge a history only loses actions to the monitor, which has   *)
(* one message under way.                                                  *)
InRange(l) == l.currentStateIndex < Len(l.stagedActionIds)
MessageInRange ==
  message # Undefined =>
    /\ message.type \in {"TOGGLE_ACTION", "SET_ACTIONS_ACTIVE"} =>
         \E i \in 1 .. Len(lifted.stagedActionIds) :
           lifted.stagedActionIds[i] = message.id
    /\ message.type = "JUMP_TO_STATE" => message.id < Len(lifted.stagedActionIds)
ViewInvariant ==
  /\ alive
  /\ InRange(lifted)
  /\ exported # Undefined => InRange(exported)
  /\ MessageInRange
-----------------------------------------------------------------------------
(* What a LiftedState holds.                                               *)
LEMMA LiftedFields ==
  ASSUME NEW l \in LiftedStates
  PROVE  /\ l.actionsById \in ActionMaps /\ l.nextActionId \in Nat
         /\ l.stagedActionIds \in Seq(Nat) /\ l.skippedActionIds \in SUBSET Nat
         /\ l.committedState \in States /\ l.currentStateIndex \in Nat
         /\ l.computedStates \in Seq(Entries)
         /\ l.isLocked \in BOOLEAN /\ l.isPaused \in BOOLEAN
BY DEF LiftedStates

LEMMA MapFacts ==
  ASSUME NEW f \in ActionMaps
  PROVE  /\ f \in [DOMAIN f -> Actions] /\ DOMAIN f \subseteq Nat
         /\ \A id \in DOMAIN f : f[id] \in Actions
BY DEF ActionMaps

LEMMA IsMap ==
  ASSUME NEW ids \in SUBSET Nat, NEW f \in [ids -> Actions]
  PROVE  f \in ActionMaps
<1> DEFINE maps == {[d -> Actions] : d \in SUBSET Nat}
           here == [ids -> Actions]
<1>1. f \in here /\ here \in maps
  OBVIOUS
<1>2. UNION maps = ActionMaps
  BY DEF ActionMaps
<1> HIDE DEF maps, here
<1>3. f \in UNION maps
  BY <1>1
<1>4. QED
  BY <1>2, <1>3

(* INIT is an action and changes nothing.                                  *)
LEMMA InitFacts ==
  /\ INIT \in Actions /\ PAUSE \in Actions /\ UPDATE \in Actions
  /\ \A id \in Nat : [x \in {id} |-> INIT] \in ActionMaps
  /\ INIT.kind # "bad"
  /\ \A s : Reducer(s, INIT) = s
<1>1. INIT \in Actions /\ PAUSE \in Actions /\ UPDATE \in Actions
  BY DEF INIT, PAUSE, UPDATE, Action, Actions
<1>2. ASSUME NEW id \in Nat PROVE [x \in {id} |-> INIT] \in ActionMaps
  <2>1. [x \in {id} |-> INIT] \in [{id} -> Actions] /\ {id} \in SUBSET Nat
    BY <1>1
  <2>2. QED
    BY <2>1, IsMap
<1>3. INIT.kind # "bad" /\ INIT.kind \notin Kinds
  BY DevtoolsAssumption DEF INIT, Action
<1>4. QED
  BY <1>1, <1>2, <1>3 DEF Reducer

(* Entries.                                                                *)
LEMMA EntryFacts ==
  /\ \A s \in States : \A e \in BOOLEAN :
       /\ Entry(s, e) \in Entries
       /\ Entry(s, e).state = s /\ Entry(s, e).error = e
  /\ \A entry \in Entries :
       /\ entry.state \in States /\ entry.error \in BOOLEAN
       /\ entry = Entry(entry.state, entry.error)
BY DEF Entry, Entries

LEMMA NextEntryFacts ==
  ASSUME NEW b \in BOOLEAN, NEW entry \in Entries, NEW action \in Actions
  PROVE  /\ NextEntry(b, entry, action) \in Entries
         /\ entry.error => NextEntry(b, entry, action).error
         /\ ~NextEntry(b, entry, action).error =>
              NextEntry(b, entry, action) = NextEntry(FALSE, entry, action)
         /\ NextEntry(b, entry, action) = computeNextEntry(entry, action) <=>
              NextEntry(b, entry, action) = NextEntry(broken, entry, action)
<1>1. action.n \in Nat
  BY DEF Actions
<1>2. entry.state \in States /\ entry.error \in BOOLEAN
  BY EntryFacts
<1>3. Reducer(entry.state, action) \in States
  BY <1>1, <1>2, AppendProperties DEF Reducer, States
<1>4. /\ Entry(entry.state, TRUE) \in Entries /\ Entry(entry.state, TRUE).error
      /\ Entry(Reducer(entry.state, action), FALSE) \in Entries
      /\ ~Entry(Reducer(entry.state, action), FALSE).error
  BY <1>2, <1>3, EntryFacts
<1>5. computeNextEntry(entry, action) = NextEntry(broken, entry, action)
  BY DEF computeNextEntry, NextEntry, Throws
<1>6. QED
  BY <1>2, <1>4, <1>5 DEF NextEntry

LEMMA NextEntryIs ==
  \A entry, action : computeNextEntry(entry, action) = NextEntry(broken, entry, action)
BY DEF computeNextEntry, NextEntry, Throws
-----------------------------------------------------------------------------
(* The staged actions of a history.                                        *)
LEMMA StagedFacts ==
  ASSUME NEW l \in LiftedStates, Staged(l)
  PROVE  /\ Len(l.stagedActionIds) \in Nat \ {0}
         /\ \A i \in 1 .. Len(l.stagedActionIds) :
              /\ l.stagedActionIds[i] \in Nat
              /\ l.actionsById[l.stagedActionIds[i]] \in Actions
<1>1. l.stagedActionIds \in Seq(Nat) /\ l.actionsById \in ActionMaps
  BY LiftedFields
<1>2. Len(l.stagedActionIds) \in Nat
  BY <1>1, LenProperties
<1>3. \A i \in 1 .. Len(l.stagedActionIds) : l.stagedActionIds[i] \in Nat
  BY <1>1, ElementOfSeq
<1>4. \A id \in DOMAIN l.actionsById : l.actionsById[id] \in Actions
  BY <1>1, MapFacts
<1>5. QED
  BY <1>2, <1>3, <1>4 DEF Staged

(* The k-th entry, from the one before.                                    *)
Stepped(l, kept, k, v) ==
  IF k <= kept THEN l.computedStates[k]
  ELSE IF k = 1 THEN Entry(l.committedState, FALSE)
  ELSE IF l.stagedActionIds[k] \in l.skippedActionIds THEN v
  ELSE NextEntry(broken, v, l.actionsById[l.stagedActionIds[k]])

LEMMA SteppedType ==
  ASSUME broken \in BOOLEAN, NEW l \in LiftedStates, Staged(l),
         NEW kept \in Nat, kept <= Len(l.computedStates),
         NEW k \in 1 .. Len(l.stagedActionIds), NEW v \in Entries
  PROVE  Stepped(l, kept, k, v) \in Entries
<1>1. l.computedStates \in Seq(Entries) /\ l.committedState \in States
  BY LiftedFields
<1>2. Len(l.computedStates) \in Nat
  BY <1>1, LenProperties
<1>3. CASE k <= kept
  <2>1. k \in 1 .. Len(l.computedStates)
    BY <1>2, <1>3
  <2>2. l.computedStates[k] \in Entries
    BY <1>1, <2>1, ElementOfSeq
  <2>3. QED
    BY <1>3, <2>2 DEF Stepped
<1>4. Entry(l.committedState, FALSE) \in Entries
  BY <1>1, EntryFacts
<1>5. NextEntry(broken, v, l.actionsById[l.stagedActionIds[k]]) \in Entries
  BY StagedFacts, NextEntryFacts
<1>6. QED
  BY <1>3, <1>4, <1>5 DEF Stepped

(* It is what the loop of recomputeStates pushes.                          *)
LEMMA FollowingIs ==
  ASSUME UndefinedIsNoValue, NEW l \in LiftedStates, Staged(l),
         NEW kept \in Nat, NEW k \in 1 .. Len(l.stagedActionIds), ~(k <= kept)
  PROVE  /\ k = 1 => \A w : Following(l, l.stagedActionIds[k], Undefined) =
                              Stepped(l, kept, k, w)
         /\ k # 1 => \A v \in Entries : Following(l, l.stagedActionIds[k], v) =
                                          Stepped(l, kept, k, v)
<1>1. Undefined \notin Entries
  BY DEF UndefinedIsNoValue
<1>2. CASE k = 1
  <2>1. l.stagedActionIds[k] = 0 /\ 0 \notin l.skippedActionIds /\ l.actionsById[0] = INIT
    BY <1>2 DEF Staged
  <2>2. Following(l, l.stagedActionIds[k], Undefined) =
          computeNextEntry(Entry(l.committedState, FALSE), INIT)
    BY <2>1 DEF Following
  <2>3. l.committedState \in States
    BY LiftedFields
  <2>4. /\ Entry(l.committedState, FALSE).state = l.committedState
        /\ Entry(l.committedState, FALSE).error = FALSE
    BY <2>3, EntryFacts
  <2>5. computeNextEntry(Entry(l.committedState, FALSE), INIT) =
          Entry(l.committedState, FALSE)
    BY <2>4, InitFacts DEF computeNextEntry, Throws
  <2>6. QED
    BY <1>2, <2>2, <2>5 DEF Stepped
<1>3. CASE k # 1
  <2>1. ASSUME NEW v \in Entries
        PROVE  Following(l, l.stagedActionIds[k], v) = Stepped(l, kept, k, v)
    <3>1. v # Undefined
      BY <1>1
    <3>2. QED
      BY <1>3, <3>1, NextEntryIs DEF Following, Stepped
  <2>2. QED
    BY <1>3, <2>1
<1>4. QED
  BY <1>2, <1>3

(* The entries that recomputeStates defines recursively.                   *)
IsEntry(e, l, kept) ==
  e = [i \in 0 .. Len(l.stagedActionIds) |->
         IF i <= kept THEN IF i = 0 THEN Undefined ELSE l.computedStates[i]
         ELSE Following(l, l.stagedActionIds[i], e[i - 1])]

(* There are such entries.                                                 *)
LEMMA EntryExists ==
  ASSUME UndefinedIsNoValue, broken \in BOOLEAN, NEW l \in LiftedStates, Staged(l),
         NEW kept \in Nat, kept <= Len(l.computedStates)
  PROVE  \E e : IsEntry(e, l, kept)
<1> DEFINE n == Len(l.stagedActionIds)
           b == Entry(l.committedState, FALSE)
           g == [k \in 1 .. n |-> [v \in Entries |-> Stepped(l, kept, k, v)]]
<1>1. n \in Nat /\ b \in Entries
  BY StagedFacts, LiftedFields, EntryFacts
<1>2. g \in [1 .. n -> [Entries -> Entries]]
  BY SteppedType
<1> HIDE DEF b, n
<1>3. PICK r : IsTypedRun(r, n, Entries, b, g)
  <2> HIDE DEF g
  <2>1. QED
    BY <1>1, <1>2, RunExists
<1> USE DEF IsTypedRun
<1> DEFINE e == [k \in 0 .. n |-> IF k = 0 THEN Undefined ELSE r[k]]
<1>4. ASSUME NEW i \in 0 .. n
      PROVE  e[i] = IF i <= kept THEN IF i = 0 THEN Undefined ELSE l.computedStates[i]
                    ELSE Following(l, l.stagedActionIds[i], e[i - 1])
  <2>1. CASE i = 0
    <3>1. e[0] = Undefined /\ 0 <= kept
      BY <1>1
    <3> HIDE DEF e
    <3>2. QED
      BY <2>1, <3>1
  <2>2. CASE i # 0
    <3>1. i \in 1 .. n /\ i - 1 \in 0 .. n
      BY <1>1, <2>2
    <3>2. r[i - 1] \in Entries /\ e[i] = r[i]
      BY <1>3, <2>2, <3>1
    <3>3. e[i] = Stepped(l, kept, i, r[i - 1])
      BY <1>3, <3>1, <3>2
    <3>4. CASE i <= kept
      BY <2>2, <3>3, <3>4 DEF Stepped
    <3>5. CASE ~(i <= kept)
      <4>1. e[i - 1] = IF i = 1 THEN Undefined ELSE r[i - 1]
        BY <3>1
      <4> HIDE DEF e, g
      <4>2. Following(l, l.stagedActionIds[i], e[i - 1]) = Stepped(l, kept, i, r[i - 1])
        BY <3>1, <3>2, <3>5, <4>1, FollowingIs DEF n
      <4>3. QED
        BY <3>3, <3>5, <4>2
    <3>6. QED
      BY <3>4, <3>5
  <2>3. QED
    BY <2>1, <2>2
<1>5. e = [i \in 0 .. n |->
             IF i <= kept THEN IF i = 0 THEN Undefined ELSE l.computedStates[i]
             ELSE Following(l, l.stagedActionIds[i], e[i - 1])]
  <2>1. \A i \in 0 .. n : e[i] = IF i = 0 THEN Undefined ELSE r[i]
    OBVIOUS
  <2>2. e = [i \in 0 .. n |-> IF i = 0 THEN Undefined ELSE r[i]]
    OBVIOUS
  <2> HIDE DEF e
  <2>3. \A i \in 0 .. n :
          (IF i = 0 THEN Undefined ELSE r[i]) =
             IF i <= kept THEN IF i = 0 THEN Undefined ELSE l.computedStates[i]
             ELSE Following(l, l.stagedActionIds[i], e[i - 1])
    BY <1>4, <2>1
  <2>4. QED
    BY <2>2, <2>3
<1> HIDE DEF e
<1>6. IsEntry(e, l, kept)
  BY <1>5 DEF IsEntry, n
<1>7. QED
  BY <1>6

(* All of them are entries of the history.                                 *)
LEMMA EntryTypes ==
  ASSUME UndefinedIsNoValue, broken \in BOOLEAN, NEW l \in LiftedStates, Staged(l),
         NEW kept \in Nat, kept <= Len(l.computedStates), NEW e, IsEntry(e, l, kept)
  PROVE  \A k \in 1 .. Len(l.stagedActionIds) :
           /\ e[k] \in Entries
           /\ k = 1 => \A v : e[k] = Stepped(l, kept, k, v)
           /\ k # 1 => e[k] = Stepped(l, kept, k, e[k - 1])
<1> DEFINE n == Len(l.stagedActionIds)
           b == Entry(l.committedState, FALSE)
           g == [k \in 1 .. n |-> [v \in Entries |-> Stepped(l, kept, k, v)]]
           q == [k \in 0 .. n |-> IF k = 0 THEN b ELSE e[k]]
<1>1. n \in Nat /\ b \in Entries
  BY StagedFacts, LiftedFields, EntryFacts
<1>2. g \in [1 .. n -> [Entries -> Entries]]
  BY SteppedType
<1> HIDE DEF b, n
<1>3. /\ e[0] = Undefined
      /\ \A i \in 1 .. n :
           e[i] = IF i <= kept THEN l.computedStates[i]
                  ELSE Following(l, l.stagedActionIds[i], e[i - 1])
  <2> DEFINE F(i) == IF i <= kept THEN IF i = 0 THEN Undefined ELSE l.computedStates[i]
                     ELSE Following(l, l.stagedActionIds[i], e[i - 1])
  <2>1. e = [i \in 0 .. n |-> F(i)]
    BY DEF IsEntry, n
  <2> HIDE DEF F
  <2>2. \A i \in 0 .. n : e[i] = F(i)
    BY <2>1
  <2>3. 0 \in 0 .. n /\ 0 <= kept /\ \A i \in 1 .. n : i \in 0 .. n /\ i # 0
    BY <1>1
  <2>4. QED
    BY <2>2, <2>3 DEF F
<1>4. ASSUME NEW k \in 1 .. n
      PROVE  /\ k = 1 => \A v : e[k] = Stepped(l, kept, k, v)
             /\ k # 1 /\ e[k - 1] \in Entries => e[k] = Stepped(l, kept, k, e[k - 1])
  <2>1. CASE k <= kept
    BY <1>3, <2>1 DEF Stepped
  <2>2. CASE ~(k <= kept)
    <3>1. e[k] = Following(l, l.stagedActionIds[k], e[k - 1])
      BY <1>3, <2>2
    <3>2. k = 1 => e[k - 1] = Undefined
      BY <1>3
    <3>3. QED
      BY <2>2, <3>1, <3>2, FollowingIs DEF n
  <2>3. QED
    BY <2>1, <2>2
<1>5. q[0] = b /\ \A k \in 1 .. n : q[k] = e[k] /\ (k # 1 => q[k - 1] = e[k - 1])
  BY <1>1
<1>6. ASSUME NEW k \in 1 .. n, q[k - 1] \in Entries PROVE q[k] = g[k][q[k - 1]]
  <2>1. g[k][q[k - 1]] = Stepped(l, kept, k, q[k - 1])
    BY <1>6
  <2> HIDE DEF q, g
  <2>2. QED
    BY <1>4, <1>5, <1>6, <2>1
<1> HIDE DEF q, g
<1>7. IsRun(q, n, Entries, b, g)
  BY <1>5, <1>6 DEF IsRun
<1>8. \A k \in 0 .. n : q[k] \in Entries
  BY <1>1, <1>2, <1>7, RunType
<1>9. \A k \in 1 .. n : e[k] \in Entries /\ (k # 1 => e[k - 1] \in Entries)
  <2>1. \A k \in 1 .. n : k \in 0 .. n /\ k - 1 \in 0 .. n
    BY <1>1
  <2>2. QED
    BY <1>5, <1>8, <2>1
<1>10. QED
  BY <1>4, <1>9 DEF n
-----------------------------------------------------------------------------
(* From l to r, everything but the computed states stays.                  *)
SameButComputed(l, r) ==
  /\ r \in LiftedStates
  /\ r.actionsById = l.actionsById /\ r.nextActionId = l.nextActionId
  /\ r.stagedActionIds = l.stagedActionIds
  /\ r.skippedActionIds = l.skippedActionIds
  /\ r.committedState = l.committedState
  /\ r.currentStateIndex = l.currentStateIndex
  /\ r.isLocked = l.isLocked /\ r.isPaused = l.isPaused

LEMMA Computed ==
  ASSUME NEW l \in LiftedStates, NEW c \in Seq(Entries)
  PROVE  /\ SameButComputed(l, [l EXCEPT !.computedStates = c])
         /\ [l EXCEPT !.computedStates = c].computedStates = c
BY DEF SameButComputed, LiftedStates

(* What the function of the first n entries is as a sequence.              *)
LEMMA AsSequence ==
  ASSUME NEW n \in Nat, NEW e, \A k \in 1 .. n : e[k] \in Entries
  PROVE  /\ [k \in 1 .. n |-> e[k]] \o <<>> \in Seq(Entries)
         /\ Len([k \in 1 .. n |-> e[k]] \o <<>>) = n
         /\ \A k \in 1 .. n : ([i \in 1 .. n |-> e[i]] \o <<>>)[k] = e[k]
<1> DEFINE s == [k \in 1 .. n |-> e[k]]
<1>1. s \in [1 .. n -> Entries] /\ \A k \in 1 .. n : s[k] = e[k]
  OBVIOUS
<1> HIDE DEF s
<1>2. s \in Seq(Entries) /\ Len(s) = n
  <2>1. s \in Seq(Entries)
    BY <1>1
  <2>2. DOMAIN s = 1 .. n /\ DOMAIN s = 1 .. Len(s) /\ Len(s) \in Nat
    BY <1>1, <2>1, LenProperties
  <2>3. QED
    BY <2>1, <2>2
<1>3. s \o <<>> = s
  BY <1>2, ConcatEmptySeq
<1> DEFINE t == s \o <<>>
<1>4. t \in Seq(Entries) /\ Len(t) = n /\ \A k \in 1 .. n : t[k] = e[k]
  BY <1>1, <1>2, <1>3
<1>5. QED
  BY <1>4 DEF s

(* recomputeStates keeps the first entries and computes the others.        *)
IsRecomputed(r, l, kept) ==
  /\ SameButComputed(l, r)
  /\ Len(r.computedStates) = Len(l.stagedActionIds)
  /\ \A i \in 1 .. kept : r.computedStates[i] = l.computedStates[i]
  /\ \A i \in 1 .. Len(l.stagedActionIds) : i > kept => EntryReplays(broken, r, i)

LEMMA Recompute ==
  ASSUME UndefinedIsNoValue, broken \in BOOLEAN,
         NEW l \in LiftedStates, ~l.isPaused, Staged(l),
         NEW kept \in Nat, kept <= Len(l.computedStates),
         kept <= Len(l.stagedActionIds)
  PROVE  IsRecomputed(recomputeStates(l, kept), l, kept)
<1> DEFINE n == Len(l.stagedActionIds)
           r == recomputeStates(l, kept)
<1>1. n \in Nat \ {0} /\ l.computedStates \in Seq(Entries)
      /\ Len(l.computedStates) \in Nat /\ n - 0 = n
  BY StagedFacts, LiftedFields, LenProperties
<1>2. CASE kept >= Len(l.computedStates) /\ Len(l.computedStates) = n
  <2>1. r = l
    BY <1>2 DEF recomputeStates
  <2>2. \A i \in 1 .. n : ~(i > kept)
    BY <1>1, <1>2
  <2>3. SameButComputed(l, l)
    BY DEF SameButComputed
  <2> HIDE DEF r
  <2>4. QED
    BY <1>2, <2>1, <2>2, <2>3 DEF IsRecomputed, r
<1>3. CASE ~(kept >= Len(l.computedStates) /\ Len(l.computedStates) = n)
  <2> DEFINE e == CHOOSE f : f = [i \in 0 .. n - 0 |->
                    IF i <= kept THEN IF i = 0 THEN Undefined ELSE l.computedStates[i]
                    ELSE Following(l, l.stagedActionIds[i], f[i - 1])]
             c == [i \in 1 .. n - 0 |-> e[i]] \o <<>>
  <2>1. r = [l EXCEPT !.computedStates = c]
    BY <1>3 DEF recomputeStates
  <2>2. IsEntry(e, l, kept)
    <3>1. \E f : f = [i \in 0 .. n |->
                    IF i <= kept THEN IF i = 0 THEN Undefined ELSE l.computedStates[i]
                    ELSE Following(l, l.stagedActionIds[i], f[i - 1])]
      BY EntryExists DEF IsEntry
    <3>2. QED
      BY <1>1, <3>1 DEF IsEntry
  <2> HIDE DEF e
  <2>3. \A k \in 1 .. n :
           /\ e[k] \in Entries
           /\ k = 1 => \A v : e[k] = Stepped(l, kept, k, v)
           /\ k # 1 => e[k] = Stepped(l, kept, k, e[k - 1])
    BY <2>2, EntryTypes
  <2>4. c = [i \in 1 .. n |-> e[i]] \o <<>>
    BY <1>1
  <2> HIDE DEF c, r, n
  <2>5. c \in Seq(Entries) /\ Len(c) = n /\ \A k \in 1 .. n : c[k] = e[k]
    BY <1>1, <2>3, <2>4, AsSequence
  <2>6. SameButComputed(l, r) /\ r.computedStates = c
    BY <2>1, <2>5, Computed
  <2>7. \A i \in 1 .. kept : c[i] = l.computedStates[i]
    <3>1. \A i \in 1 .. kept : i \in 1 .. n /\ i <= kept
      BY <1>1 DEF n
    <3>2. \A i \in 1 .. kept : e[i] = l.computedStates[i]
      BY <2>3, <3>1 DEF Stepped
    <3>3. QED
      BY <2>5, <3>1, <3>2
  <2>8. ASSUME NEW i \in 1 .. n, i > kept PROVE EntryReplays(broken, r, i)
    <3>1. ~(i <= kept) /\ (i # 1 => i - 1 \in 1 .. n)
      BY <1>1, <2>8
    <3>2. CASE i = 1
      <4>1. c[i] = Stepped(l, kept, i, c)
        BY <2>3, <2>5, <3>2
      <4>2. c[i] = Entry(l.committedState, FALSE)
        BY <3>1, <3>2, <4>1 DEF Stepped
      <4>3. QED
        BY <2>6, <3>2, <4>2 DEF EntryReplays, SameButComputed
    <3>3. CASE i # 1
      <4>1. c[i] = Stepped(l, kept, i, c[i - 1])
        BY <2>3, <2>5, <3>1, <3>3
      <4>2. QED
        BY <2>6, <3>1, <3>3, <4>1 DEF EntryReplays, SameButComputed, Stepped
    <3>4. QED
      BY <3>2, <3>3
  <2>9. QED
    BY <2>5, <2>6, <2>7, <2>8 DEF IsRecomputed, n, r
<1>4. QED
  BY <1>2, <1>3

(* Two histories that differ at most in their computed states and both     *)
(* replay do not differ in these.                                          *)
LEMMA ReplayIsUnique ==
  ASSUME NEW b, NEW l \in LiftedStates, NEW r, SameButComputed(l, r),
         Len(l.computedStates) = Len(l.stagedActionIds),
         Len(r.computedStates) = Len(l.stagedActionIds),
         Replays(b, l), Replays(b, r)
  PROVE  r.computedStates = l.computedStates
<1> DEFINE n == Len(l.stagedActionIds)
           c == l.computedStates
           d == r.computedStates
           Same == {k \in Nat : k \in 1 .. n => c[k] = d[k]}
<1>1. c \in Seq(Entries) /\ d \in Seq(Entries) /\ Len(c) = n /\ Len(d) = n /\ n \in Nat
  BY LiftedFields, LenProperties DEF SameButComputed
<1>2. \A k \in 1 .. n :
        /\ c[k] = IF k = 1 THEN Entry(l.committedState, FALSE)
                  ELSE IF l.stagedActionIds[k] \in l.skippedActionIds THEN c[k - 1]
                  ELSE NextEntry(b, c[k - 1], l.actionsById[l.stagedActionIds[k]])
        /\ d[k] = IF k = 1 THEN Entry(l.committedState, FALSE)
                  ELSE IF l.stagedActionIds[k] \in l.skippedActionIds THEN d[k - 1]
                  ELSE NextEntry(b, d[k - 1], l.actionsById[l.stagedActionIds[k]])
  BY DEF Replays, EntryReplays, SameButComputed
<1> HIDE DEF c, d, n
<1>3. 0 \in Same
  BY <1>1
<1>4. ASSUME NEW k \in Nat, k \in Same PROVE k + 1 \in Same
  <2>1. SUFFICES ASSUME k + 1 \in 1 .. n PROVE c[k + 1] = d[k + 1]
    OBVIOUS
  <2> DEFINE m == k + 1
  <2>2. CASE k = 0
    <3>1. m = 1 /\ 1 \in 1 .. n
      BY <1>1, <2>1, <2>2
    <3>2. c[1] = d[1]
      BY ONLY <1>2, <3>1
    <3>3. QED
      BY <3>1, <3>2
  <2>3. CASE k # 0
    <3>1. k \in 1 .. n /\ m \in 1 .. n /\ m - 1 = k /\ m # 1
      BY <1>1, <2>1, <2>3
    <3>2. c[k] = d[k]
      BY <1>4, <3>1
    <3> HIDE DEF m
    <3> DEFINE After(x) == IF l.stagedActionIds[m] \in l.skippedActionIds THEN x
                          ELSE NextEntry(b, x, l.actionsById[l.stagedActionIds[m]])
    <3>3. c[m] = d[m]
      <4>1. c[m] = After(c[m - 1]) /\ d[m] = After(d[m - 1])
        BY ONLY <1>2, <3>1
      <4> HIDE DEF Next
      <4>2. QED
        BY <3>1, <3>2, <4>1
    <3>4. QED
      BY <3>3 DEF m
  <2>4. QED
    BY <2>2, <2>3
<1>5. Nat \subseteq Same
  <2> HIDE DEF Same
  <2>1. QED
    BY <1>3, <1>4, Induction
<1>6. \A k \in 1 .. n : d[k] = c[k]
  BY <1>5
<1>7. QED
  BY <1>1, <1>6, SeqEqual DEF c, d
-----------------------------------------------------------------------------
(* The first n actions and entries of two histories are the same.          *)
Agree(l, r, n) ==
  /\ r.committedState = l.committedState
  /\ \A i \in 1 .. n :
       /\ r.stagedActionIds[i] = l.stagedActionIds[i]
       /\ r.actionsById[l.stagedActionIds[i]] = l.actionsById[l.stagedActionIds[i]]
       /\ l.stagedActionIds[i] \in r.skippedActionIds <=>
            l.stagedActionIds[i] \in l.skippedActionIds
       /\ r.computedStates[i] = l.computedStates[i]

LEMMA AgreeReplays ==
  ASSUME NEW b, NEW l, NEW r, NEW n \in Nat, Agree(l, r, n), NEW i \in 1 .. n
  PROVE  EntryReplays(b, r, i) <=> EntryReplays(b, l, i)
<1>1. i # 1 => i - 1 \in 1 .. n
  OBVIOUS
<1>2. /\ r.computedStates[i] = l.computedStates[i]
      /\ i # 1 => r.computedStates[i - 1] = l.computedStates[i - 1]
      /\ r.stagedActionIds[i] = l.stagedActionIds[i]
      /\ r.actionsById[l.stagedActionIds[i]] = l.actionsById[l.stagedActionIds[i]]
      /\ l.stagedActionIds[i] \in r.skippedActionIds <=>
           l.stagedActionIds[i] \in l.skippedActionIds
      /\ r.committedState = l.committedState
  BY <1>1 DEF Agree
<1>3. QED
  BY <1>2 DEF EntryReplays

LEMMA SameStaged ==
  ASSUME NEW l, NEW r, SameButComputed(l, r)
  PROVE  /\ Staged(r) <=> Staged(l)
         /\ InRange(r) <=> InRange(l)
BY DEF SameButComputed, Staged, InRange

(* An entry that follows the committed state has no error.                 *)
LEMMA FirstEntry ==
  ASSUME NEW b, NEW l \in LiftedStates, EntryReplays(b, l, 1)
  PROVE  /\ l.computedStates[1] = Entry(l.committedState, FALSE)
         /\ ~l.computedStates[1].error
<1>1. l.computedStates[1] = Entry(l.committedState, FALSE)
  BY DEF EntryReplays
<1>2. l.committedState \in States
  BY LiftedFields
<1>3. Entry(l.committedState, FALSE).error = FALSE
  BY <1>2, EntryFacts
<1>4. QED
  BY <1>1, <1>3

(* What is recomputed behind entries that replay replays.                  *)
Sound(l) == WellFormed(l) /\ Replays(broken, l)

LEMMA RecomputedSound ==
  ASSUME broken \in BOOLEAN, NEW l \in LiftedStates, ~l.isPaused, Staged(l),
         NEW kept \in Nat, kept <= Len(l.stagedActionIds),
         \A i \in 1 .. kept : EntryReplays(broken, l, i),
         NEW r, IsRecomputed(r, l, kept)
  PROVE  Sound(r)
<1> DEFINE n == Len(l.stagedActionIds)
<1>1. n \in Nat \ {0}
  BY StagedFacts
<1>2. SameButComputed(l, r) /\ r \in LiftedStates /\ Len(r.stagedActionIds) = n
      /\ Len(r.computedStates) = n /\ ~r.isPaused
  BY DEF IsRecomputed, SameButComputed
<1>3. Agree(l, r, kept)
  BY DEF IsRecomputed, SameButComputed, Agree
<1>4. ASSUME NEW i \in 1 .. n PROVE EntryReplays(broken, r, i)
  <2>1. CASE i <= kept
    <3>1. i \in 1 .. kept
      BY <1>1, <2>1
    <3>2. QED
      BY <1>3, <3>1, AgreeReplays
  <2>2. CASE ~(i <= kept)
    BY <1>1, <2>2 DEF IsRecomputed
  <2>3. QED
    BY <2>1, <2>2
<1>5. Replays(broken, r)
  BY <1>2, <1>4 DEF Replays
<1>6. ~r.computedStates[1].error
  <2>1. EntryReplays(broken, r, 1)
    BY <1>1, <1>4
  <2>2. QED
    BY ONLY <1>2, <2>1, FirstEntry
<1>7. Staged(r)
  BY <1>2, SameStaged
<1>8. QED
  BY <1>2, <1>5, <1>6, <1>7 DEF Sound, WellFormed, Complete

(* When everything is computed again it replays.                           *)
LEMMA RecomputeAll ==
  ASSUME UndefinedIsNoValue, broken \in BOOLEAN,
         NEW l \in LiftedStates, ~l.isPaused, Staged(l)
  PROVE  /\ Sound(recomputeStates(l, 0))
         /\ SameButComputed(l, recomputeStates(l, 0))
<1>1. 0 <= Len(l.computedStates) /\ 0 <= Len(l.stagedActionIds)
  BY LiftedFields, LenProperties
<1>2. IsRecomputed(recomputeStates(l, 0), l, 0)
  BY <1>1, Recompute
<1>3. \A i \in 1 .. 0 : EntryReplays(broken, l, i)
  OBVIOUS
<1> DEFINE r == recomputeStates(l, 0)
<1> HIDE DEF r
<1>4. Sound(r)
  BY <1>1, <1>2, <1>3, RecomputedSound DEF r
<1>5. QED
  BY <1>2, <1>4 DEF r, IsRecomputed

(* A history that starts anew.                                             *)
LEMMA StartFacts ==
  ASSUME NEW l \in LiftedStates, NEW s \in States
  PROVE  /\ Start(l, s) \in LiftedStates /\ Staged(Start(l, s))
         /\ Start(l, s).isPaused = l.isPaused /\ Start(l, s).committedState = s
         /\ Start(l, s).currentStateIndex = 0 /\ InRange(Start(l, s))
         /\ Start(l, s).stagedActionIds = <<0>> /\ Start(l, s).skippedActionIds = {}
<1> DEFINE m == [id \in {0} |-> INIT]
           k == Start(l, s)
<1>1. m \in ActionMaps /\ DOMAIN m = {0} /\ m[0] = INIT
  BY InitFacts
<1>2. <<0>> \in Seq(Nat) /\ <<>> \in Seq(Entries) /\ Len(<<0>>) = 1 /\ <<0>>[1] = 0
  OBVIOUS
<1> HIDE DEF m
<1>3. /\ k.actionsById = m /\ k.nextActionId = 1 /\ k.stagedActionIds = <<0>>
      /\ k.skippedActionIds = {} /\ k.committedState = s /\ k.currentStateIndex = 0
      /\ k.computedStates = <<>> /\ k.isLocked = l.isLocked /\ k.isPaused = l.isPaused
      /\ k \in LiftedStates
  BY <1>1, <1>2 DEF Start, LiftedStates, m
<1> HIDE DEF k
<1>4. Staged(k)
  <2>1. \A i, j \in 1 .. 1 : ~(i < j)
    OBVIOUS
  <2>2. Len(k.stagedActionIds) = 1 /\ k.stagedActionIds[1] = 0 /\ k.nextActionId = 1
        /\ 0 \in DOMAIN k.actionsById /\ k.actionsById[0] = INIT
        /\ 0 \notin k.skippedActionIds
    BY <1>1, <1>2, <1>3
  <2>3. QED
    BY ONLY <2>1, <2>2 DEF Staged
<1>5. InRange(k)
  BY <1>2, <1>3 DEF InRange
<1>6. QED
  BY <1>3, <1>4, <1>5 DEF k
-----------------------------------------------------------------------------
(* Staging an action.                                                      *)
LEMMA StageFields ==
  ASSUME NEW l \in LiftedStates, NEW action \in Actions
  PROVE  LET k == Stage(l, action)
             n == Len(l.stagedActionIds)
         IN /\ k \in LiftedStates
            /\ k.stagedActionIds = Append(l.stagedActionIds, l.nextActionId)
            /\ k.nextActionId = l.nextActionId + 1
            /\ k.actionsById = [id \in DOMAIN l.actionsById \cup {l.nextActionId} |->
                   IF id = l.nextActionId THEN action ELSE l.actionsById[id]]
            /\ k.skippedActionIds = l.skippedActionIds
            /\ k.committedState = l.committedState
            /\ k.computedStates = l.computedStates
            /\ k.currentStateIndex = IF l.currentStateIndex = n - 1
                                     THEN l.currentStateIndex + 1
                                     ELSE l.currentStateIndex
            /\ k.isLocked = l.isLocked /\ k.isPaused = l.isPaused
<1> DEFINE next == l.nextActionId
           ids == DOMAIN l.actionsById \cup {next}
           m == [id \in ids |-> IF id = next THEN action ELSE l.actionsById[id]]
           s == Append(l.stagedActionIds, next)
           c == IF l.currentStateIndex = Len(l.stagedActionIds) - 1
                THEN l.currentStateIndex + 1 ELSE l.currentStateIndex
           k == [l EXCEPT !.currentStateIndex = c, !.actionsById = m,
                          !.nextActionId = next + 1, !.stagedActionIds = s]
<1>1. /\ l.actionsById \in ActionMaps /\ next \in Nat /\ l.stagedActionIds \in Seq(Nat)
      /\ l.skippedActionIds \in SUBSET Nat /\ l.committedState \in States
      /\ l.currentStateIndex \in Nat /\ l.computedStates \in Seq(Entries)
      /\ l.isLocked \in BOOLEAN /\ l.isPaused \in BOOLEAN
  BY LiftedFields
<1>2. m \in ActionMaps
  <2>1. ids \in SUBSET Nat /\ \A id \in DOMAIN l.actionsById : l.actionsById[id] \in Actions
    BY <1>1, MapFacts
  <2> HIDE DEF ids, next
  <2>2. m \in [ids -> Actions]
    BY <2>1 DEF ids
  <2>3. QED
    BY <2>1, <2>2, IsMap
<1>3. s \in Seq(Nat) /\ c \in Nat /\ next + 1 \in Nat
  BY <1>1, AppendProperties
<1>4. Stage(l, action) = k
  BY DEF Stage
<1> HIDE DEF m, s, c, next
<1>5. /\ k \in LiftedStates
      /\ k.stagedActionIds = s /\ k.nextActionId = next + 1 /\ k.actionsById = m
      /\ k.skippedActionIds = l.skippedActionIds
      /\ k.committedState = l.committedState
      /\ k.computedStates = l.computedStates
      /\ k.currentStateIndex = c
      /\ k.isLocked = l.isLocked /\ k.isPaused = l.isPaused
  BY <1>1, <1>2, <1>3 DEF LiftedStates
<1> HIDE DEF k
<1>6. QED
  BY <1>4, <1>5 DEF m, s, c, next

(* The new action comes last, all others stay as they are.                 *)
LEMMA StageFacts ==
  ASSUME NEW l \in LiftedStates, Staged(l), NEW action \in Actions,
         NEW k, k = Stage(l, action)
  PROVE  /\ k \in LiftedStates /\ Staged(k)
         /\ Len(k.stagedActionIds) = Len(l.stagedActionIds) + 1
         /\ Agree(l, k, Len(l.stagedActionIds))
         /\ k.computedStates = l.computedStates
         /\ k.isPaused = l.isPaused
         /\ InRange(l) => InRange(k)
         /\ InPast(l) => k.currentStateIndex = l.currentStateIndex
<1> DEFINE n == Len(l.stagedActionIds)
           next == l.nextActionId
<1>1. /\ l.stagedActionIds \in Seq(Nat) /\ next \in Nat /\ n \in Nat
      /\ l.currentStateIndex \in Nat
  BY LiftedFields, LenProperties
<1>2. /\ k \in LiftedStates
      /\ k.stagedActionIds = Append(l.stagedActionIds, next)
      /\ k.nextActionId = next + 1
      /\ k.actionsById = [id \in DOMAIN l.actionsById \cup {next} |->
             IF id = next THEN action ELSE l.actionsById[id]]
      /\ k.skippedActionIds = l.skippedActionIds
      /\ k.committedState = l.committedState
      /\ k.computedStates = l.computedStates
      /\ k.currentStateIndex = IF l.currentStateIndex = n - 1
                               THEN l.currentStateIndex + 1
                               ELSE l.currentStateIndex
      /\ k.isLocked = l.isLocked /\ k.isPaused = l.isPaused
  BY StageFields
<1>3. /\ Len(k.stagedActionIds) = n + 1
      /\ \A i \in 1 .. n : k.stagedActionIds[i] = l.stagedActionIds[i]
      /\ k.stagedActionIds[n + 1] = next
  BY <1>1, <1>2, AppendProperties
<1>4. /\ n >= 1 /\ l.stagedActionIds[1] = 0
      /\ \A i, j \in 1 .. n : i < j => l.stagedActionIds[i] < l.stagedActionIds[j]
      /\ \A i \in 1 .. n : /\ l.stagedActionIds[i] \in Nat
                           /\ l.stagedActionIds[i] < next
                           /\ l.stagedActionIds[i] \in DOMAIN l.actionsById
      /\ l.actionsById[0] = INIT /\ 0 \notin l.skippedActionIds
  BY StagedFacts DEF Staged
<1>5. /\ \A id \in DOMAIN l.actionsById : id # next => k.actionsById[id] = l.actionsById[id]
      /\ \A id : id \in DOMAIN k.actionsById <=> id \in DOMAIN l.actionsById \/ id = next
  BY <1>2
<1>6. \A i \in 1 .. n : k.actionsById[l.stagedActionIds[i]] =
                          l.actionsById[l.stagedActionIds[i]]
  BY <1>1, <1>4, <1>5
<1> HIDE DEF n, next
<1>7. Agree(l, k, n)
  BY <1>2, <1>3, <1>6 DEF Agree
<1>8. Staged(k)
  <2>1. 1 \in 1 .. n /\ n + 1 >= 1 /\ k.stagedActionIds[1] = 0
    <3>1. 1 \in 1 .. n /\ n + 1 >= 1
      BY ONLY <1>1, <1>4
    <3>2. QED
      BY ONLY <1>3, <1>4, <3>1
  <2>2. ASSUME NEW i \in 1 .. n + 1
        PROVE  /\ k.stagedActionIds[i] < next + 1
               /\ k.stagedActionIds[i] \in DOMAIN k.actionsById
    <3>1. CASE i = n + 1
      BY <1>1, <1>3, <1>5, <3>1
    <3>2. CASE i # n + 1
      <4>1. i \in 1 .. n
        BY <1>1, <3>2
      <4>2. k.stagedActionIds[i] = l.stagedActionIds[i] /\ l.stagedActionIds[i] \in Nat
            /\ l.stagedActionIds[i] < next
            /\ l.stagedActionIds[i] \in DOMAIN l.actionsById
        BY <1>3, <1>4, <4>1
      <4>3. QED
        BY <1>1, <1>5, <4>2
    <3>3. QED
      BY <3>1, <3>2
  <2>3. ASSUME NEW i \in 1 .. n + 1, NEW j \in 1 .. n + 1, i < j
        PROVE  k.stagedActionIds[i] < k.stagedActionIds[j]
    <3>1. i \in 1 .. n /\ k.stagedActionIds[i] = l.stagedActionIds[i]
      BY <1>1, <1>3, <2>3
    <3>2. CASE j = n + 1
      BY <1>3, <1>4, <3>1, <3>2
    <3>3. CASE j # n + 1
      <4>1. j \in 1 .. n /\ k.stagedActionIds[j] = l.stagedActionIds[j]
        BY <1>1, <1>3, <3>3
      <4>2. QED
        BY <1>4, <2>3, <3>1, <4>1
    <3>4. QED
      BY <3>2, <3>3
  <2>4. k.actionsById[0] = INIT /\ 0 \notin k.skippedActionIds
    <3>1. k.actionsById[l.stagedActionIds[1]] = l.actionsById[l.stagedActionIds[1]]
      BY <1>6, <2>1
    <3>2. QED
      BY <1>2, <1>4, <3>1
  <2>5. k.nextActionId = next + 1 /\ Len(k.stagedActionIds) = n + 1
    BY <1>2, <1>3
  <2>6. QED
    BY ONLY <2>1, <2>2, <2>3, <2>4, <2>5 DEF Staged
<1>9. InRange(l) => InRange(k)
  BY <1>1, <1>2, <1>3 DEF InRange, n
<1>10. InPast(l) => k.currentStateIndex = l.currentStateIndex
  BY <1>1, <1>2 DEF InPast, n
<1>11. QED
  BY <1>2, <1>3, <1>7, <1>8, <1>9, <1>10 DEF n
-----------------------------------------------------------------------------
(* How many of the oldest n actions are committed.                         *)
Errors(l, n) == {i \in 0 .. n - 1 : l.computedStates[i + 2].error}
Excess(l, n) == IF Errors(l, n) = {} THEN n ELSE Min(Errors(l, n))
Gone(l, n) == ToSet(SubSeq(l.stagedActionIds, 2, Excess(l, n) + 1))

LEMMA ExcessIs ==
  ASSUME NEW l \in LiftedStates, NEW n \in Nat
  PROVE  commitExcessActions(l, n) =
           [l EXCEPT
             !.actionsById = Restrict(l.actionsById, DOMAIN l.actionsById \ Gone(l, n)),
             !.skippedActionIds = l.skippedActionIds \ Gone(l, n),
             !.stagedActionIds =
               <<0>> \o SubSeq(l.stagedActionIds, Excess(l, n) + 2, Len(l.stagedActionIds)),
             !.committedState = l.computedStates[Excess(l, n) + 1].state,
             !.computedStates =
               SubSeq(l.computedStates, Excess(l, n) + 1, Len(l.computedStates)),
             !.currentStateIndex = Shifted(l.currentStateIndex, Excess(l, n))]
BY DEF commitExcessActions, Errors, Excess, Gone

(* Only actions before the first error are.                                *)
LEMMA ExcessFacts ==
  ASSUME NEW l, Complete(l), NEW n \in 1 .. Len(l.stagedActionIds) - 1
  PROVE  /\ Excess(l, n) \in 0 .. n
         /\ \A i \in 1 .. Excess(l, n) + 1 : ~l.computedStates[i].error
<1> DEFINE E == Errors(l, n)
           x == Excess(l, n)
<1>1. n \in Nat \ {0} /\ E \subseteq 0 .. n - 1 /\ E \subseteq Nat
  BY LiftedFields, LenProperties DEF Complete, Errors
<1>2. E # {} => Min(E) \in E /\ \A i \in E : Min(E) <= i
  <2> HIDE DEF E
  <2>1. SUFFICES ASSUME E # {} PROVE Min(E) \in E /\ \A i \in E : Min(E) <= i
    OBVIOUS
  <2>2. \E i \in E : \A j \in E : i <= j
    BY <1>1, <2>1, LeastNumber
  <2>3. QED
    BY <2>2 DEF Min
<1>3. /\ E = {} => x = n
      /\ E # {} => x \in E /\ \A i \in E : x <= i
  BY <1>2 DEF Excess
<1>4. x \in 0 .. n
  <2> HIDE DEF x, E
  <2>1. CASE E = {}
    BY <1>1, <1>3, <2>1
  <2>2. CASE E # {}
    <3>1. x \in 0 .. n - 1
      BY <1>1, <1>3, <2>2
    <3>2. QED
      BY <1>1, <3>1
  <2>3. QED
    BY <2>1, <2>2
<1>5. ASSUME NEW i \in 1 .. x + 1 PROVE ~l.computedStates[i].error
  <2>1. CASE i = 1
    BY <2>1 DEF Complete
  <2>2. CASE i # 1
    <3> DEFINE j == i - 2
    <3>1. j \in 0 .. n - 1 /\ ~(x <= j) /\ j + 2 = i
      <4> HIDE DEF x
      <4>1. QED
        BY <1>1, <1>4, <2>2
    <3>2. j \notin E
      <4> HIDE DEF x, E, j
      <4>1. QED
        BY <1>1, <1>3, <3>1
    <3> HIDE DEF j
    <3>3. QED
      BY <3>1, <3>2 DEF Errors
  <2>3. QED
    BY <2>1, <2>2
<1>6. QED
  BY <1>4, <1>5

(* Sequences without their first x elements, without the x after the       *)
(* first, and these.                                                       *)
Shorter(t, s, x, first) ==
  /\ Len(t) = Len(s) - x
  /\ \A i \in first .. Len(s) - x : t[i] = s[i + x]

Rest(s, x) == SubSeq(s, x + 1, Len(s))
Behind(h, s, x) == h \o Rest(s, x + 1)

LEMMA Dropped ==
  ASSUME NEW S, NEW s \in Seq(S), NEW x \in Nat, x <= Len(s)
  PROVE  Rest(s, x) \in Seq(S) /\ Shorter(Rest(s, x), s, x, 1)
<1> DEFINE N == Len(s)
           y == x + 1
           c == Rest(s, x)
<1>1. N \in Nat /\ N \in Int /\ y \in Int
  BY LenProperties
<1>2. \A i \in y .. N : s[i] \in S
  <2>1. \A i \in y .. N : i \in 1 .. Len(s)
    BY <1>1
  <2>2. QED
    BY <2>1, ElementOfSeq
<1>3. x <= N /\ y = x + 1 /\ c = SubSeq(s, y, N)
  BY DEF Rest
<1> HIDE DEF N, y, c
<1>4. /\ c \in Seq(S)
      /\ Len(c) = IF y <= N THEN N - y + 1 ELSE 0
      /\ \A i \in 1 .. N - y + 1 : c[i] = s[y + i - 1]
  BY <1>1, <1>2, <1>3, SubSeqProperties
<1>5. N - y + 1 = N - x /\ (~(y <= N) => N - x = 0)
      /\ \A i \in 1 .. N - x : y + i - 1 = i + x
  BY <1>1, <1>3
<1>6. c \in Seq(S) /\ Len(c) = N - x /\ \A i \in 1 .. N - x : c[i] = s[i + x]
  BY <1>4, <1>5
<1>7. QED
  BY <1>6 DEF c, N, Shorter

LEMMA DroppedBehind ==
  ASSUME NEW S, NEW s \in Seq(S), NEW x \in Nat, x + 1 <= Len(s),
         NEW h \in Seq(S), Len(h) = 1
  PROVE  /\ Behind(h, s, x) \in Seq(S) /\ Behind(h, s, x)[1] = h[1]
         /\ Shorter(Behind(h, s, x), s, x, 2)
<1> DEFINE N == Len(s)
           y == x + 1
           r == Rest(s, y)
           t == Behind(h, s, x)
<1>1. N \in Nat /\ y \in Nat /\ y <= N
  BY LenProperties
<1>2. /\ r \in Seq(S) /\ Len(r) = N - y
      /\ \A i \in 1 .. N - y : r[i] = s[i + y]
  <2>1. r \in Seq(S) /\ Shorter(r, s, y, 1)
    <3> HIDE DEF y
    <3>1. QED
      BY <1>1, Dropped
  <2>2. QED
    BY <2>1 DEF Shorter
<1>3. t = h \o r
  BY DEF Behind
<1>4. y = x + 1
  OBVIOUS
<1> HIDE DEF r, N, y, t
<1>5. Len(r) \in Nat /\ 1 + Len(r) = N - x
  BY <1>1, <1>2, <1>4
<1>6. /\ t \in Seq(S) /\ Len(t) = 1 + Len(r)
      /\ \A i \in 1 .. 1 + Len(r) : t[i] = IF i <= 1 THEN h[i] ELSE r[i - 1]
  <2>1. r \in Seq(S) /\ h \in Seq(S)
    BY <1>2
  <2>2. /\ t \in Seq(S) /\ Len(t) = Len(h) + Len(r)
        /\ \A i \in 1 .. Len(h) + Len(r) :
             t[i] = IF i <= Len(h) THEN h[i] ELSE r[i - Len(h)]
    BY ONLY <1>3, <2>1, ConcatProperties
  <2>3. QED
    BY <2>2
<1>7. t[1] = h[1]
  <2>1. 1 \in 1 .. 1 + Len(r)
    BY <1>5
  <2>2. QED
    BY <1>6, <2>1
<1>8. ASSUME NEW i \in 2 .. N - x PROVE t[i] = s[i + x]
  <2> DEFINE j == i - 1
  <2>1. i \in 1 .. 1 + Len(r) /\ ~(i <= 1) /\ j \in 1 .. N - y /\ j + y = i + x
    BY <1>1, <1>4, <1>5
  <2>2. t[i] = r[j]
    BY <1>6, <2>1
  <2> HIDE DEF j
  <2>3. r[j] = s[j + y]
    BY <1>2, <2>1
  <2>4. QED
    BY <2>1, <2>2, <2>3
<1>9. Shorter(t, s, x, 2)
  <2>1. Len(t) = N - x
    BY <1>5, <1>6
  <2>2. QED
    BY <2>1, <1>8 DEF N, Shorter
<1>10. QED
  BY <1>6, <1>7, <1>9 DEF t

LEMMA DroppedOnes ==
  ASSUME NEW S, NEW s \in Seq(S), NEW x \in Nat, x + 1 <= Len(s)
  PROVE  \A id : id \in ToSet(SubSeq(s, 2, x + 1)) <=> \E i \in 2 .. x + 1 : s[i] = id
<1> DEFINE y == x + 1
           t == SubSeq(s, 2, y)
<1>1. \A i \in 2 .. y : s[i] \in S
  <2>1. \A i \in 2 .. y : i \in 1 .. Len(s)
    BY LenProperties
  <2>2. QED
    BY <2>1, ElementOfSeq
<1>2. y \in Int /\ 2 \in Int /\ y - 2 + 1 = x /\ (~(2 <= y) => x = 0)
      /\ \A i \in 1 .. x : 2 + i - 1 = i + 1
  OBVIOUS
<1>3. /\ \A i \in 1 .. x : i + 1 \in 2 .. y
      /\ \A i \in 2 .. y : i - 1 \in 1 .. x /\ (i - 1) + 1 = i
  OBVIOUS
<1> HIDE DEF y
<1>4. /\ t \in Seq(S)
      /\ Len(t) = IF 2 <= y THEN y - 2 + 1 ELSE 0
      /\ \A i \in 1 .. y - 2 + 1 : t[i] = s[2 + i - 1]
  BY <1>1, <1>2, SubSeqProperties
<1> HIDE DEF t
<1>5. DOMAIN t = 1 .. x /\ \A i \in 1 .. x : t[i] = s[i + 1]
  BY <1>2, <1>4, LenProperties
<1>6. \A id : id \in ToSet(t) <=> \E i \in 1 .. x : s[i + 1] = id
  BY <1>5 DEF ToSet
<1>7. \A id : (\E i \in 1 .. x : s[i + 1] = id) <=> \E i \in 2 .. y : s[i] = id
  BY <1>3
<1>8. QED
  BY <1>6, <1>7 DEF t, y

(* What is left after a commit of the oldest actions.                      *)
Trimmed(l, k, n, x) ==
  /\ k \in LiftedStates /\ k.isPaused = l.isPaused
  /\ x \in 0 .. n /\ \A i \in 1 .. x + 1 : ~l.computedStates[i].error
  /\ Len(l.stagedActionIds) - x \in Nat \ {0}
  /\ Len(k.stagedActionIds) = Len(l.stagedActionIds) - x
  /\ Len(k.computedStates) = Len(l.stagedActionIds) - x
  /\ k.stagedActionIds[1] = 0
  /\ \A i \in 2 .. Len(l.stagedActionIds) - x :
       k.stagedActionIds[i] = l.stagedActionIds[i + x]
  /\ \A i \in 1 .. Len(l.stagedActionIds) - x :
       k.computedStates[i] = l.computedStates[i + x]
  /\ k.committedState = l.computedStates[x + 1].state
  /\ k.nextActionId = l.nextActionId
  /\ k.currentStateIndex = Shifted(l.currentStateIndex, x)
  /\ \A id : id \in DOMAIN k.actionsById <=>
               id \in DOMAIN l.actionsById /\ id \notin Gone(l, n)
  /\ \A id \in DOMAIN k.actionsById : k.actionsById[id] = l.actionsById[id]
  /\ \A id : id \in k.skippedActionIds <=>
               id \in l.skippedActionIds /\ id \notin Gone(l, n)
  /\ \A id : id \in Gone(l, n) <=>
               \E i \in 2 .. x + 1 : l.stagedActionIds[i] = id

LEMMA ExcessFields ==
  ASSUME NEW l, Complete(l), NEW n \in 1 .. Len(l.stagedActionIds) - 1,
         NEW k, k = commitExcessActions(l, n), NEW x, x = Excess(l, n)
  PROVE  Trimmed(l, k, n, x)
<1> DEFINE N == Len(l.stagedActionIds)
           gone == Gone(l, n)
           m == Restrict(l.actionsById, DOMAIN l.actionsById \ gone)
           s == <<0>> \o SubSeq(l.stagedActionIds, x + 2, N)
           c == SubSeq(l.computedStates, x + 1, N)
           cur == Shifted(l.currentStateIndex, x)
<1>1. /\ l \in LiftedStates /\ Len(l.computedStates) = N
      /\ l.stagedActionIds \in Seq(Nat) /\ N \in Nat /\ l.actionsById \in ActionMaps
      /\ l.skippedActionIds \in SUBSET Nat /\ l.computedStates \in Seq(Entries)
      /\ l.currentStateIndex \in Nat /\ l.nextActionId \in Nat
      /\ l.isLocked \in BOOLEAN /\ l.isPaused \in BOOLEAN
  BY LiftedFields, LenProperties DEF Complete
<1>2. x \in 0 .. n /\ \A i \in 1 .. x + 1 : ~l.computedStates[i].error
  BY ExcessFacts
<1>3. x \in Nat /\ N - x \in Nat \ {0} /\ x + 1 <= N /\ x + 1 \in 1 .. N /\ x <= N
  <2>1. N \in Nat /\ x \in 0 .. n /\ n \in 1 .. N - 1
    BY <1>1, <1>2
  <2> HIDE DEF N
  <2>2. QED
    BY ONLY <2>1
<1>4. /\ m \in ActionMaps
      /\ \A id : id \in DOMAIN m <=> id \in DOMAIN l.actionsById /\ id \notin gone
      /\ \A id \in DOMAIN m : m[id] = l.actionsById[id]
  <2> DEFINE ids == DOMAIN l.actionsById \ gone
  <2>1. ids \in SUBSET Nat /\ \A id \in ids : l.actionsById[id] \in Actions
    BY <1>1, MapFacts
  <2>2. m = [id \in ids |-> l.actionsById[id]]
    BY DEF Restrict
  <2>3. m \in [ids -> Actions]
    BY <2>1, <2>2
  <2>4. m \in ActionMaps
    BY <2>1, <2>3, IsMap
  <2> HIDE DEF gone
  <2>5. QED
    BY <2>2, <2>4
<1> HIDE DEF m
<1>6. /\ s \in Seq(Nat) /\ Len(s) = N - x /\ s[1] = 0
      /\ \A i \in 2 .. N - x : s[i] = l.stagedActionIds[i + x]
  <2> DEFINE old == l.stagedActionIds
             h == <<0>>
  <2>0. h \in Seq(Nat) /\ Len(h) = 1 /\ h[1] = 0
    OBVIOUS
  <2>1. /\ x \in Nat /\ old \in Seq(Nat) /\ N = Len(old) /\ x + 1 <= Len(old)
        /\ (x + 1) + 1 = x + 2
    BY <1>1, <1>3
  <2>3. s = Behind(h, old, x)
    BY <2>1 DEF Behind, Rest
  <2> HIDE DEF s, old, h, N
  <2>2. /\ s \in Seq(Nat) /\ Len(s) = Len(old) - x /\ s[1] = 0
        /\ \A i \in 2 .. Len(old) - x : s[i] = old[i + x]
    <3>1. s \in Seq(Nat) /\ s[1] = h[1] /\ Shorter(s, old, x, 2)
      BY ONLY <2>0, <2>1, <2>3, DroppedBehind
    <3>2. QED
      BY <2>0, <3>1 DEF Shorter
  <2>4. QED
    BY <2>1, <2>2 DEF old
<1>7. /\ c \in Seq(Entries) /\ Len(c) = N - x
      /\ \A i \in 1 .. N - x : c[i] = l.computedStates[i + x]
  <2> DEFINE old == l.computedStates
  <2>1. /\ x \in Nat /\ old \in Seq(Entries) /\ x <= Len(old) /\ N = Len(old)
        /\ c = Rest(old, x)
    BY <1>1, <1>3 DEF Rest
  <2> HIDE DEF c, old, N
  <2>2. /\ c \in Seq(Entries) /\ Len(c) = Len(old) - x
        /\ \A i \in 1 .. Len(old) - x : c[i] = old[i + x]
    <3>1. c \in Seq(Entries) /\ Shorter(c, old, x, 1)
      BY ONLY <2>1, Dropped
    <3>2. QED
      BY <3>1 DEF Shorter
  <2>3. QED
    BY <2>1, <2>2 DEF old
<1>8. l.computedStates[x + 1].state \in States
  BY <1>1, <1>3, ElementOfSeq, EntryFacts
<1>9. cur \in Nat
  <2>1. l.currentStateIndex \in Nat /\ x \in Nat
    BY <1>1, <1>3
  <2>2. QED
    BY ONLY <2>1 DEF Shifted
<1>10. l.skippedActionIds \ gone \in SUBSET Nat
  BY <1>1
<1>11. k = [l EXCEPT !.actionsById = m, !.skippedActionIds = l.skippedActionIds \ gone,
                     !.stagedActionIds = s,
                     !.committedState = l.computedStates[x + 1].state,
                     !.computedStates = c, !.currentStateIndex = cur]
  <2>1. n \in Nat
    BY <1>1
  <2>2. k = commitExcessActions(l, n) /\ x = Excess(l, n)
    OBVIOUS
  <2>3. QED
    BY <1>1, <2>1, <2>2, ExcessIs DEF m
<1>12. \A id : id \in gone <=> \E i \in 2 .. x + 1 : l.stagedActionIds[i] = id
  <2> DEFINE old == l.stagedActionIds
  <2>1. /\ gone = ToSet(SubSeq(old, 2, x + 1)) /\ x + 1 <= Len(old) /\ x \in Nat
        /\ old \in Seq(Nat)
    BY <1>1, <1>3 DEF Gone
  <2> HIDE DEF gone, old
  <2>2. \A id : id \in gone <=> \E i \in 2 .. x + 1 : old[i] = id
    BY ONLY <2>1, DroppedOnes
  <2>3. QED
    BY <2>2 DEF old
<1> HIDE DEF s, c, cur, gone
<1> DEFINE sk == l.skippedActionIds \ gone
           co == l.computedStates[x + 1].state
<1>13. \A id : id \in sk <=> id \in l.skippedActionIds /\ id \notin gone
  OBVIOUS
<1> HIDE DEF sk, co
<1>14. /\ k \in LiftedStates
       /\ k.actionsById = m /\ k.skippedActionIds = sk /\ k.stagedActionIds = s
       /\ k.committedState = co /\ k.computedStates = c
       /\ k.nextActionId = l.nextActionId /\ k.isPaused = l.isPaused
       /\ k.currentStateIndex = cur
  <2>1. m \in ActionMaps /\ s \in Seq(Nat) /\ c \in Seq(Entries) /\ cur \in Nat
        /\ sk \in SUBSET Nat /\ co \in States
    BY <1>4, <1>6, <1>7, <1>8, <1>9, <1>10 DEF sk, co
  <2>2. k = [l EXCEPT !.actionsById = m, !.skippedActionIds = sk,
                      !.stagedActionIds = s, !.committedState = co,
                      !.computedStates = c, !.currentStateIndex = cur]
    BY <1>11 DEF sk, co
  <2>3. l \in LiftedStates
    BY <1>1
  <2>4. QED
    BY ONLY <2>1, <2>2, <2>3 DEF LiftedStates
<1>15. QED
  BY <1>1, <1>2, <1>3, <1>4, <1>6, <1>7, <1>12, <1>13, <1>14
  DEF gone, co, cur, Trimmed

(* What stays staged is not gone.                                          *)
LEMMA ExcessStaged ==
  ASSUME NEW l, Complete(l), NEW n \in 1 .. Len(l.stagedActionIds) - 1,
         NEW k, k = commitExcessActions(l, n), NEW x, x = Excess(l, n)
  PROVE  /\ Staged(k)
         /\ \A i \in 2 .. Len(l.stagedActionIds) - x :
              /\ i + x \in 2 .. Len(l.stagedActionIds)
              /\ k.stagedActionIds[i] = l.stagedActionIds[i + x]
              /\ k.actionsById[k.stagedActionIds[i]] =
                   l.actionsById[l.stagedActionIds[i + x]]
              /\ k.stagedActionIds[i] \in k.skippedActionIds <=>
                   l.stagedActionIds[i + x] \in l.skippedActionIds
<1> DEFINE N == Len(l.stagedActionIds)
           M == N - x
           old == l.stagedActionIds
           new == k.stagedActionIds
           gone == Gone(l, n)
<1>14. /\ Complete(l) /\ n \in 1 .. Len(l.stagedActionIds) - 1
       /\ k = commitExcessActions(l, n) /\ x = Excess(l, n)
  OBVIOUS
<1>15. Trimmed(l, k, n, x)
  BY ONLY <1>14, ExcessFields
<1>11. /\ Len(new) = M /\ new[1] = 0 /\ \A i \in 2 .. M : new[i] = old[i + x]
       /\ k.nextActionId = l.nextActionId
       /\ x \in 0 .. n /\ M \in Nat \ {0}
  BY ONLY <1>15 DEF Trimmed
<1>12. /\ \A id : id \in DOMAIN k.actionsById <=>
                    id \in DOMAIN l.actionsById /\ id \notin gone
       /\ \A id \in DOMAIN k.actionsById : k.actionsById[id] = l.actionsById[id]
  BY ONLY <1>15 DEF Trimmed
<1>13. /\ \A id : id \in k.skippedActionIds <=>
                    id \in l.skippedActionIds /\ id \notin gone
       /\ \A id : id \in gone <=> \E i \in 2 .. x + 1 : old[i] = id
  BY ONLY <1>15 DEF Trimmed
<1>1. /\ Len(new) = M /\ new[1] = 0 /\ \A i \in 2 .. M : new[i] = old[i + x]
      /\ k.nextActionId = l.nextActionId
      /\ \A id : id \in DOMAIN k.actionsById <=>
                   id \in DOMAIN l.actionsById /\ id \notin gone
      /\ \A id \in DOMAIN k.actionsById : k.actionsById[id] = l.actionsById[id]
      /\ \A id : id \in k.skippedActionIds <=>
                   id \in l.skippedActionIds /\ id \notin gone
      /\ \A id : id \in gone <=> \E i \in 2 .. x + 1 : old[i] = id
      /\ x \in 0 .. n /\ M \in Nat \ {0}
  BY ONLY <1>11, <1>12, <1>13
<1>2. /\ l \in LiftedStates /\ Staged(l) /\ N \in Nat
      /\ \A i \in 1 .. N : old[i] \in Nat
  BY StagedFacts DEF Complete
<1>3. /\ old[1] = 0 /\ l.actionsById[0] = INIT /\ 0 \notin l.skippedActionIds
      /\ \A i, j \in 1 .. N : i < j => old[i] < old[j]
      /\ \A i \in 1 .. N : old[i] < l.nextActionId /\ old[i] \in DOMAIN l.actionsById
  BY <1>2 DEF Staged
<1>4. x \in Nat /\ x + 1 <= N /\ n \in Nat
  BY <1>1, <1>2
<1> HIDE DEF gone, old, new, N
<1>5. ASSUME NEW i \in 1 .. N, i = 1 \/ i > x + 1 PROVE old[i] \notin gone
  <2>1. SUFFICES ASSUME NEW g \in 2 .. x + 1, old[g] = old[i] PROVE FALSE
    BY <1>1
  <2>2. g \in 1 .. N /\ (i < g \/ g < i)
    BY <1>2, <1>4, <1>5
  <2>3. old[g] \in Nat /\ old[i] \in Nat /\ (old[i] < old[g] \/ old[g] < old[i])
    BY <1>2, <1>3, <2>2
  <2>4. QED
    BY <2>1, <2>3
<1>6. 0 \notin gone /\ 0 \in DOMAIN l.actionsById
  <2>1. 1 \in 1 .. N
    BY <1>2, <1>4
  <2>2. QED
    BY <1>3, <1>5, <2>1
<1>7. ASSUME NEW i \in 2 .. M
      PROVE  /\ i + x \in 2 .. N /\ i + x \in 1 .. N
             /\ new[i] = old[i + x] /\ old[i + x] \notin gone
  <2>1. i + x \in 2 .. N /\ i + x \in 1 .. N /\ i + x > x + 1
    BY <1>2, <1>4
  <2>2. QED
    BY <1>1, <1>5, <2>1
<1>8. Staged(k)
  <2>1. M >= 1
    BY <1>1
  <2>2. ASSUME NEW i \in 1 .. M, NEW j \in 1 .. M, i < j PROVE new[i] < new[j]
    <3>1. j \in 2 .. M
      BY <1>1, <2>2
    <3>2. CASE i = 1
      <4>1. 1 \in 1 .. N /\ 1 < j + x
        BY <1>2, <1>4, <3>1
      <4>2. old[1] < old[j + x]
        BY <1>3, <1>7, <3>1, <4>1
      <4>3. QED
        BY <1>1, <1>3, <1>7, <3>1, <3>2, <4>2
    <3>3. CASE i # 1
      <4>1. i \in 2 .. M /\ i + x < j + x
        BY <1>1, <1>4, <2>2, <3>1, <3>3
      <4>2. QED
        BY <1>3, <1>7, <3>1, <4>1
    <3>4. QED
      BY <3>2, <3>3
  <2>3. ASSUME NEW i \in 1 .. M
        PROVE  new[i] < k.nextActionId /\ new[i] \in DOMAIN k.actionsById
    <3>1. CASE i = 1
      <4>1. 1 \in 1 .. N
        BY <1>2, <1>4
      <4>2. 0 < l.nextActionId
        BY <1>3, <4>1
      <4>3. QED
        BY <1>1, <1>6, <3>1, <4>2
    <3>2. CASE i # 1
      <4>1. i \in 2 .. M
        BY <1>1, <3>2
      <4>2. QED
        BY <1>1, <1>3, <1>7, <4>1
    <3>3. QED
      BY <3>1, <3>2
  <2>4. k.actionsById[0] = INIT /\ 0 \notin k.skippedActionIds
    BY <1>1, <1>3, <1>6
  <2>5. Len(new) = M /\ new[1] = 0
    BY <1>1
  <2>6. QED
    BY ONLY <2>1, <2>2, <2>3, <2>4, <2>5 DEF Staged, new
<1>9. ASSUME NEW i \in 2 .. M
      PROVE  /\ i + x \in 2 .. N
             /\ new[i] = old[i + x]
             /\ k.actionsById[new[i]] = l.actionsById[old[i + x]]
             /\ new[i] \in k.skippedActionIds <=> old[i + x] \in l.skippedActionIds
  <2>1. new[i] \in DOMAIN k.actionsById
    BY <1>1, <1>3, <1>7
  <2>2. QED
    BY <1>1, <1>7, <2>1
<1>10. QED
  BY <1>8, <1>9 DEF old, new, N

(* Committing the oldest actions keeps the rest of the history, its errors *)
(* and that it replays.                                                    *)
LEMMA CommitExcess ==
  ASSUME NEW l, Complete(l), NEW n \in 1 .. Len(l.stagedActionIds) - 1,
         NEW k, k = commitExcessActions(l, n)
  PROVE  /\ Complete(k) /\ k.isPaused = l.isPaused
         /\ HasError(l) => HasError(k)
         /\ \A b \in BOOLEAN : Replays(b, l) => Replays(b, k)
<1> DEFINE N == Len(l.stagedActionIds)
           x == Excess(l, n)
           M == N - x
           old == l.computedStates
           new == k.computedStates
<1>1. /\ k \in LiftedStates /\ k.isPaused = l.isPaused
      /\ x \in 0 .. n /\ \A i \in 1 .. x + 1 : ~old[i].error
      /\ M \in Nat \ {0}
      /\ Len(k.stagedActionIds) = M /\ Len(new) = M
      /\ \A i \in 1 .. M : new[i] = old[i + x]
      /\ k.committedState = old[x + 1].state
  BY ExcessFields DEF Trimmed
<1>2. /\ Staged(k)
      /\ \A i \in 2 .. M :
           /\ i + x \in 2 .. N
           /\ k.stagedActionIds[i] = l.stagedActionIds[i + x]
           /\ k.actionsById[k.stagedActionIds[i]] = l.actionsById[l.stagedActionIds[i + x]]
           /\ k.stagedActionIds[i] \in k.skippedActionIds <=>
                l.stagedActionIds[i + x] \in l.skippedActionIds
  BY ExcessStaged
<1>3. N \in Nat /\ old \in Seq(Entries) /\ Len(old) = N
  BY LiftedFields, LenProperties DEF Complete
<1> HIDE DEF x, old, new, N
<1>4. x \in Nat /\ x + 1 \in 1 .. N /\ x + 1 \in 1 .. x + 1 /\ 1 + x = x + 1 /\ 1 \in 1 .. M
  BY <1>1, <1>3
<1>5. new[1] = old[x + 1] /\ ~new[1].error /\ old[x + 1] \in Entries
  BY <1>1, <1>3, <1>4, ElementOfSeq
<1>6. Complete(k)
  BY <1>1, <1>2, <1>5 DEF Complete, new
<1>7. ASSUME HasError(l) PROVE HasError(k)
  <2>1. PICK i \in 1 .. N : old[i].error
    BY <1>3, <1>7 DEF HasError, old
  <2>2. ~(i <= x + 1)
    BY <1>1, <2>1
  <2>3. i - x \in 1 .. M /\ (i - x) + x = i
    BY <1>3, <1>4, <2>2
  <2>4. new[i - x].error
    BY <1>1, <2>1, <2>3
  <2>5. QED
    BY <1>1, <2>3, <2>4 DEF HasError, new
<1>8. ASSUME NEW b \in BOOLEAN, Replays(b, l) PROVE Replays(b, k)
  <2>1. ASSUME NEW i \in 1 .. M PROVE EntryReplays(b, k, i)
    <3>1. CASE i = 1
      <4>1. old[x + 1] = Entry(old[x + 1].state, FALSE)
        BY <1>1, <1>4, <1>5, EntryFacts
      <4>2. QED
        BY <1>1, <1>5, <3>1, <4>1 DEF EntryReplays, new
    <3>2. CASE i # 1
      <4> DEFINE j == i + x
      <4>1. i \in 2 .. M /\ i - 1 \in 1 .. M /\ (i - 1) + x = j - 1 /\ j # 1
        BY <1>1, <1>4, <3>2
      <4>2. j \in 1 .. N /\ new[i] = old[j] /\ new[i - 1] = old[j - 1]
        BY <1>1, <1>2, <1>3, <4>1
      <4> HIDE DEF j
      <4>3. EntryReplays(b, l, j)
        BY <1>8, <4>2 DEF Replays, N
      <4>4. /\ k.stagedActionIds[i] = l.stagedActionIds[j]
            /\ k.actionsById[k.stagedActionIds[i]] = l.actionsById[l.stagedActionIds[j]]
            /\ k.stagedActionIds[i] \in k.skippedActionIds <=>
                 l.stagedActionIds[j] \in l.skippedActionIds
        BY <1>2, <4>1 DEF j
      <4>5. QED
        BY <3>2, <4>1, <4>2, <4>3, <4>4 DEF EntryReplays, new, old
    <3>3. QED
      BY <3>1, <3>2
  <2>2. QED
    BY <1>1, <2>1 DEF Replays
<1>9. QED
  BY <1>1, <1>6, <1>7, <1>8
-----------------------------------------------------------------------------
(* The staged actions of l are the first of k.                             *)
Keeps(l, k) ==
  /\ Len(l.stagedActionIds) <= Len(k.stagedActionIds)
  /\ \A i \in 1 .. Len(l.stagedActionIds) :
       k.stagedActionIds[i] = l.stagedActionIds[i]

(* Locking and moving the pointer leave the history alone.                 *)
SameHistory(l, k) ==
  /\ k \in LiftedStates
  /\ k.actionsById = l.actionsById /\ k.nextActionId = l.nextActionId
  /\ k.stagedActionIds = l.stagedActionIds
  /\ k.skippedActionIds = l.skippedActionIds
  /\ k.committedState = l.committedState
  /\ k.computedStates = l.computedStates
  /\ k.isPaused = l.isPaused

LEMMA SameHistoryFacts ==
  ASSUME NEW l, WellFormed(l), NEW k, SameHistory(l, k)
  PROVE  /\ WellFormed(k) /\ Keeps(l, k)
         /\ Replays(broken, l) => Replays(broken, k)
         /\ HasError(l) => HasError(k)
<1>1. WellFormed(k)
  BY DEF WellFormed, Complete, SameHistory, Staged
<1>2. Replays(broken, l) => Replays(broken, k)
  BY DEF SameHistory, Replays, EntryReplays
<1>3. HasError(l) => HasError(k)
  BY DEF SameHistory, HasError
<1>4. Keeps(l, k)
  <2>1. Len(l.stagedActionIds) \in Nat
    BY LiftedFields, LenProperties DEF WellFormed, Complete
  <2>2. QED
    BY <2>1 DEF SameHistory, Keeps
<1>5. QED
  BY <1>1, <1>2, <1>3, <1>4

LEMMA Moved ==
  ASSUME NEW l \in LiftedStates, NEW i \in Nat
  PROVE  /\ SameHistory(l, [l EXCEPT !.currentStateIndex = i])
         /\ [l EXCEPT !.currentStateIndex = i].currentStateIndex = i
BY DEF SameHistory, LiftedStates

LEMMA LockSet ==
  ASSUME NEW l \in LiftedStates, NEW b \in BOOLEAN
  PROVE  /\ SameHistory(l, [l EXCEPT !.isLocked = b])
         /\ [l EXCEPT !.isLocked = b].currentStateIndex = l.currentStateIndex
BY DEF SameHistory, LiftedStates

(* An action that is recorded.                                             *)
LEMMA Record ==
  ASSUME UndefinedIsNoValue, broken \in BOOLEAN, NEW l, WellFormed(l),
         NEW action \in Actions,
         NEW r, r = recomputeStates(Stage(l, action), Len(l.stagedActionIds))
  PROVE  /\ WellFormed(r) /\ Keeps(l, r)
         /\ Replays(broken, l) => Replays(broken, r)
         /\ HasError(l) => HasError(r)
         /\ InRange(l) => InRange(r)
         /\ \A i \in 1 .. Len(l.stagedActionIds) :
              r.computedStates[i] = l.computedStates[i]
         /\ InPast(l) => r.currentStateIndex = l.currentStateIndex
<1> DEFINE N == Len(l.stagedActionIds)
           k == Stage(l, action)
<1>1. /\ l \in LiftedStates /\ Staged(l) /\ ~l.isPaused
      /\ Len(l.computedStates) = N /\ ~l.computedStates[1].error
  BY DEF WellFormed, Complete
<1>2. N \in Nat \ {0}
  BY <1>1, StagedFacts
<1>3. /\ k \in LiftedStates /\ Staged(k) /\ Len(k.stagedActionIds) = N + 1
      /\ Agree(l, k, N) /\ k.computedStates = l.computedStates /\ ~k.isPaused
      /\ InRange(l) => InRange(k)
      /\ InPast(l) => k.currentStateIndex = l.currentStateIndex
  BY <1>1, StageFacts
<1> HIDE DEF k, N
<1>4. N \in Nat /\ N <= Len(k.computedStates) /\ N <= Len(k.stagedActionIds)
  BY <1>1, <1>2, <1>3 DEF N
<1>5. r = recomputeStates(k, N)
  BY DEF k, N
<1>6. IsRecomputed(r, k, N)
  BY <1>3, <1>4, <1>5, Recompute
<1>7. /\ SameButComputed(k, r) /\ Len(r.computedStates) = N + 1
      /\ \A i \in 1 .. N : r.computedStates[i] = l.computedStates[i]
      /\ r.stagedActionIds = k.stagedActionIds /\ r \in LiftedStates /\ ~r.isPaused
      /\ r.currentStateIndex = k.currentStateIndex
  BY <1>3, <1>6 DEF IsRecomputed, SameButComputed
<1>8. Staged(r) /\ (InRange(k) => InRange(r))
  BY <1>3, <1>7, SameStaged
<1>9. WellFormed(r)
  <2>1. 1 \in 1 .. N
    BY <1>2
  <2>2. QED
    BY <1>1, <1>3, <1>7, <1>8, <2>1 DEF WellFormed, Complete
<1>10. Keeps(l, r)
  BY <1>2, <1>3, <1>7 DEF Keeps, Agree, N
<1>11. ASSUME Replays(broken, l) PROVE Replays(broken, r)
  <2>1. \A i \in 1 .. N : EntryReplays(broken, l, i)
    BY <1>11 DEF Replays, N
  <2>2. \A i \in 1 .. N : EntryReplays(broken, k, i)
    BY <1>3, <1>4, <2>1, AgreeReplays
  <2>3. Sound(r)
    BY <1>3, <1>4, <1>6, <2>2, RecomputedSound
  <2>4. QED
    BY <2>3 DEF Sound
<1>12. ASSUME HasError(l) PROVE HasError(r)
  <2>1. PICK i \in 1 .. N : l.computedStates[i].error
    BY <1>1, <1>12 DEF HasError
  <2>2. i \in 1 .. N + 1
    BY <1>2
  <2>3. QED
    BY <1>7, <2>1, <2>2 DEF HasError
<1>13. QED
  BY <1>3, <1>7, <1>8, <1>9, <1>10, <1>11, <1>12 DEF N

(* PERFORM_ACTION.                                                         *)
LEMMA PerformKeeps ==
  ASSUME UndefinedIsNoValue, Recorded, broken \in BOOLEAN, NEW l, WellFormed(l),
         NEW kind \in Kinds, NEW m \in Nat,
         NEW k, k = Perform(l, Action(kind, m))
  PROVE  /\ WellFormed(k)
         /\ Replays(broken, l) => Replays(broken, k)
         /\ HasError(l) => HasError(k)
         /\ MaxAge = 0 => Keeps(l, k) /\ (InRange(l) => InRange(k))
<1> DEFINE action == Action(kind, m)
<1>1. action \in Actions /\ action.kind = kind
  BY DEF Action, Actions
<1>2. ~l.isPaused /\ ~isActionFiltered(action)
  BY <1>1 DEF WellFormed, Complete, Recorded, Filters, isActionFiltered
<1> HIDE DEF action
<1>3. CASE l.isLocked
  <2>1. k = l
    BY <1>3 DEF Perform
  <2>2. Len(l.stagedActionIds) \in Nat
    BY LiftedFields, LenProperties DEF WellFormed, Complete
  <2>3. QED
    BY <2>1, <2>2 DEF Keeps
<1>4. CASE ~l.isLocked
  <2> DEFINE room == IF Full(l) THEN commitExcessActions(l, 1) ELSE l
  <2>1. k = recomputeStates(Stage(room, action), Len(room.stagedActionIds))
    BY <1>2, <1>4 DEF Perform, action
  <2>2. /\ WellFormed(room)
        /\ Replays(broken, l) => Replays(broken, room)
        /\ HasError(l) => HasError(room)
    <3>1. CASE Full(l)
      <4>1. 1 \in 1 .. Len(l.stagedActionIds) - 1
        BY <3>1, DevtoolsAssumption DEF Full
      <4>2. QED
        BY <3>1, <4>1, CommitExcess DEF WellFormed
    <3>2. CASE ~Full(l)
      BY <3>2
    <3>3. QED
      BY <3>1, <3>2
  <2>3. MaxAge = 0 => room = l
    BY DEF Full
  <2> HIDE DEF room
  <2>4. /\ WellFormed(k) /\ Keeps(room, k)
        /\ Replays(broken, room) => Replays(broken, k)
        /\ HasError(room) => HasError(k)
        /\ InRange(room) => InRange(k)
    BY <1>1, <2>1, <2>2, Record
  <2>5. QED
    BY <2>2, <2>3, <2>4
<1>5. QED
  BY <1>3, <1>4
-----------------------------------------------------------------------------
(* Without a filter every history stays as it is.                          *)
LEMMA Unfiltered ==
  ASSUME Recorded
  PROVE  \A l : filterLiftedState(l) = l
BY DEF Recorded, filterLiftedState

LEMMA Defined ==
  ASSUME UndefinedIsNoValue
  PROVE  /\ \A l : WellFormed(l) => l # Undefined
         /\ \A l : Sound(l) => WellFormed(l) /\ l # Undefined
BY DEF UndefinedIsNoValue, WellFormed, Complete, Sound

LEMMA EntriesDefined ==
  ASSUME UndefinedIsNoValue, NEW l, Complete(l)
  PROVE  /\ Undefined \notin ToSet(l.computedStates)
         /\ (\E entry \in ToSet(l.computedStates) : entry.error) <=> HasError(l)
<1>1. l.computedStates \in Seq(Entries)
  BY LiftedFields DEF Complete
<1>2. \A i \in 1 .. Len(l.computedStates) : l.computedStates[i] \in Entries
  BY <1>1, ElementOfSeq
<1>3. DOMAIN l.computedStates = 1 .. Len(l.computedStates)
  BY <1>1, LenProperties
<1>4. Undefined \notin Entries
  BY DEF UndefinedIsNoValue
<1>5. QED
  BY <1>2, <1>3, <1>4 DEF ToSet, HasError

LEMMA KeepsTrans ==
  ASSUME NEW l, NEW k, Keeps(l, k), NEW r, Keeps(k, r),
         Len(l.stagedActionIds) \in Nat, Len(k.stagedActionIds) \in Nat,
         Len(r.stagedActionIds) \in Nat
  PROVE  Keeps(l, r)
BY DEF Keeps

(* The end of the history comes in view.                                   *)
LEMMA LatestKeeps ==
  ASSUME NEW l, Sound(l),
         NEW k, k = [l EXCEPT !.currentStateIndex = Len(l.stagedActionIds) - 1]
  PROVE  Sound(k) /\ Keeps(l, k) /\ InRange(k)
<1>1. l \in LiftedStates /\ Staged(l)
  BY DEF Sound, WellFormed, Complete
<1>2. Len(l.stagedActionIds) \in Nat \ {0}
  BY <1>1, StagedFacts
<1>3. Len(l.stagedActionIds) - 1 \in Nat
  BY <1>2
<1>4. SameHistory(l, k) /\ k.currentStateIndex = Len(l.stagedActionIds) - 1
  BY <1>1, <1>3, Moved
<1>5. WellFormed(k) /\ Keeps(l, k) /\ Replays(broken, k)
  BY <1>4, SameHistoryFacts DEF Sound
<1>6. InRange(k)
  BY <1>2, <1>4 DEF InRange, SameHistory
<1>7. QED
  BY <1>5, <1>6 DEF Sound

(* UPDATE leaves a history that replays under the new reducer.             *)
LEMMA UpdateKeeps ==
  ASSUME UndefinedIsNoValue, Recorded, broken \in BOOLEAN, NEW l, WellFormed(l),
         Replays(broken, l) \/ HasError(l),
         NEW k, k = filterLiftedState(Update(l))
  PROVE  /\ Sound(k)
         /\ MaxAge = 0 => Keeps(l, k) /\ (InRange(l) => InRange(k))
<1> DEFINE Fitted(h) ==
             IF MaxAge # 0 /\ Len(h.stagedActionIds) > MaxAge
             THEN commitExcessActions(h, Len(h.stagedActionIds) - MaxAge) ELSE h
           Latest(h) == [h EXCEPT !.currentStateIndex = Len(h.stagedActionIds) - 1]
           r == IF HasError(l) THEN recomputeStates(l, 0)
                ELSE IF l.isLocked THEN Latest(l)
                ELSE Latest(recomputeStates(Stage(l, UPDATE), Len(l.stagedActionIds)))
<1>1. k = Fitted(r)
  <2>1. /\ Undefined \notin ToSet(l.computedStates)
        /\ (\E entry \in ToSet(l.computedStates) : entry.error) <=> HasError(l)
    BY EntriesDefined DEF WellFormed
  <2>0. ~l.isPaused
    BY DEF WellFormed, Complete
  <2>2. k = Update(l)
    BY Unfiltered
  <2>3. QED
    BY <2>0, <2>1, <2>2 DEF Update
<1>2. l \in LiftedStates /\ Staged(l) /\ ~l.isPaused
  BY DEF WellFormed, Complete
<1>3. Len(l.stagedActionIds) \in Nat
  BY <1>2, StagedFacts
<1>4. Sound(r) /\ Keeps(l, r) /\ (InRange(l) => InRange(r))
  <2>1. CASE HasError(l)
    <3>1. Sound(r) /\ SameButComputed(l, r)
      BY <1>2, <2>1, RecomputeAll
    <3> HIDE DEF r
    <3>2. InRange(l) => InRange(r)
      BY <3>1, SameStaged
    <3>3. QED
      BY <1>3, <3>1, <3>2 DEF SameButComputed, Keeps
  <2>2. CASE ~HasError(l) /\ l.isLocked
    <3>1. Sound(l) /\ r = Latest(l)
      BY <2>2 DEF Sound
    <3> HIDE DEF r
    <3>2. QED
      BY <3>1, LatestKeeps
  <2>3. CASE ~HasError(l) /\ ~l.isLocked
    <3> DEFINE h == recomputeStates(Stage(l, UPDATE), Len(l.stagedActionIds))
    <3>1. UPDATE \in Actions /\ Replays(broken, l) /\ r = Latest(h)
      BY <2>3, InitFacts
    <3> HIDE DEF r
    <3>2. WellFormed(h) /\ Keeps(l, h) /\ Replays(broken, h)
      BY <3>1, Record
    <3> HIDE DEF h
    <3>3. Sound(h)
      BY <3>2 DEF Sound
    <3>4. Sound(r) /\ Keeps(h, r) /\ InRange(r)
      BY <3>1, <3>3, LatestKeeps
    <3>5. Len(h.stagedActionIds) \in Nat /\ Len(r.stagedActionIds) \in Nat
      BY <3>2, <3>4, StagedFacts DEF Sound, WellFormed, Complete
    <3>6. QED
      BY <1>3, <3>2, <3>4, <3>5, KeepsTrans
  <2>4. QED
    BY <2>1, <2>2, <2>3
<1> HIDE DEF r
<1>5. Len(r.stagedActionIds) \in Nat /\ WellFormed(r) /\ Replays(broken, r)
  BY <1>4, StagedFacts DEF Sound, WellFormed, Complete
<1>6. CASE MaxAge # 0 /\ Len(r.stagedActionIds) > MaxAge
  <2> DEFINE n == Len(r.stagedActionIds) - MaxAge
  <2>1. n \in 1 .. Len(r.stagedActionIds) - 1
    BY <1>5, <1>6, DevtoolsAssumption
  <2>2. k = commitExcessActions(r, n)
    BY <1>1, <1>6
  <2> HIDE DEF n
  <2>3. WellFormed(k) /\ Replays(broken, k)
    BY <1>5, <2>1, <2>2, CommitExcess DEF WellFormed
  <2>4. QED
    BY <1>6, <2>3 DEF Sound
<1>7. CASE ~(MaxAge # 0 /\ Len(r.stagedActionIds) > MaxAge)
  BY <1>1, <1>4, <1>7
<1>8. QED
  BY <1>6, <1>7

(* A reducer that is mended does not change what has no error.             *)
LEMMA NoErrorReplays ==
  ASSUME NEW b \in BOOLEAN, NEW l, WellFormed(l), Replays(b, l), ~HasError(l)
  PROVE  Replays(FALSE, l)
<1> DEFINE N == Len(l.stagedActionIds)
<1>1. /\ l \in LiftedStates /\ Staged(l) /\ Len(l.computedStates) = N
      /\ l.computedStates \in Seq(Entries)
  BY LiftedFields DEF WellFormed, Complete
<1>2. N \in Nat
  BY <1>1, StagedFacts
<1>3. ASSUME NEW i \in 1 .. N PROVE EntryReplays(FALSE, l, i)
  <2>1. EntryReplays(b, l, i) /\ ~l.computedStates[i].error
    BY <1>1, <1>3 DEF Replays, HasError
  <2>2. CASE i = 1
    BY <2>1, <2>2 DEF EntryReplays
  <2>3. CASE i # 1
    <3> DEFINE entry == l.computedStates[i - 1]
               action == l.actionsById[l.stagedActionIds[i]]
    <3>1. i - 1 \in 1 .. N
      BY <1>2, <2>3
    <3>2. entry \in Entries /\ action \in Actions
      BY <1>1, <3>1, ElementOfSeq, StagedFacts
    <3> HIDE DEF entry, action
    <3>3. ~NextEntry(b, entry, action).error =>
            NextEntry(b, entry, action) = NextEntry(FALSE, entry, action)
      BY <3>2, NextEntryFacts
    <3>4. QED
      BY <2>1, <2>3, <3>3 DEF EntryReplays, entry, action
  <2>4. QED
    BY <2>2, <2>3
<1>4. QED
  BY <1>3 DEF Replays
-----------------------------------------------------------------------------
(* What starts anew replays.                                               *)
LEMMA Restarted ==
  ASSUME UndefinedIsNoValue, broken \in BOOLEAN,
         NEW l \in LiftedStates, ~l.isPaused, NEW s \in States,
         NEW k, k = recomputeStates(Start(l, s), 0)
  PROVE  /\ Sound(k) /\ InRange(k)
         /\ k.currentStateIndex = 0 /\ Len(k.computedStates) = 1
         /\ k.computedStates[1] = Entry(s, FALSE)
         /\ k.skippedActionIds = {}
<1>1. l \in LiftedStates /\ ~l.isPaused
  OBVIOUS
<1> DEFINE h == Start(l, s)
<1>2. /\ h \in LiftedStates /\ Staged(h) /\ ~h.isPaused /\ h.committedState = s
      /\ h.currentStateIndex = 0 /\ InRange(h) /\ h.stagedActionIds = <<0>>
      /\ h.skippedActionIds = {}
  BY <1>1, StartFacts
<1> HIDE DEF h
<1>3. k = recomputeStates(h, 0)
  BY DEF h
<1>4. Sound(k) /\ SameButComputed(h, k)
  BY <1>2, <1>3, RecomputeAll
<1>5. InRange(k)
  BY <1>2, <1>4, SameStaged
<1>6. /\ k.currentStateIndex = 0 /\ k.committedState = s /\ k.skippedActionIds = {}
      /\ k.stagedActionIds = <<0>> /\ Len(k.computedStates) = Len(k.stagedActionIds)
      /\ k \in LiftedStates /\ Replays(broken, k)
  BY <1>2, <1>4 DEF SameButComputed, Sound, WellFormed, Complete
<1>7. Len(k.stagedActionIds) = 1 /\ 1 \in 1 .. Len(k.stagedActionIds)
  <2>1. Len(<<0>>) = 1 /\ 1 \in 1 .. 1
    OBVIOUS
  <2>2. QED
    BY ONLY <1>6, <2>1
<1>8. EntryReplays(broken, k, 1)
  BY <1>6, <1>7 DEF Replays
<1>9. k.computedStates[1] = Entry(s, FALSE)
  BY ONLY <1>6, <1>8, FirstEntry
<1>10. QED
  BY <1>4, <1>5, <1>6, <1>7, <1>9

LEMMA Renewed ==
  ASSUME UndefinedIsNoValue, broken \in BOOLEAN, NEW l, Sound(l), NEW s \in States,
         NEW k, k = recomputeStates(Start(l, s), 0)
  PROVE  /\ Sound(k) /\ InRange(k)
         /\ k.currentStateIndex = 0 /\ Len(k.computedStates) = 1
         /\ k.computedStates[1] = Entry(s, FALSE)
<1>1. l \in LiftedStates /\ ~l.isPaused
  BY DEF Sound, WellFormed, Complete
<1>2. QED
  BY <1>1, Restarted

(* What the application is shown.                                          *)
LEMMA EntryInView ==
  ASSUME NEW l, Complete(l), InRange(l), UndefinedIsNoValue
  PROVE  /\ At(l.computedStates, l.currentStateIndex) =
              l.computedStates[l.currentStateIndex + 1]
         /\ l.computedStates[l.currentStateIndex + 1] \in Entries
         /\ unliftState(l) = l.computedStates[l.currentStateIndex + 1].state
         /\ unliftState(l) \in States /\ unliftState(l) # Undefined
<1> DEFINE c == l.computedStates
           i == l.currentStateIndex
<1>1. c \in Seq(Entries) /\ i \in Nat /\ Len(c) \in Nat /\ i < Len(c)
  BY LiftedFields, LenProperties DEF Complete, InRange
<1>2. i + 1 \in 1 .. Len(c) /\ ~(i >= Len(c))
  BY <1>1
<1>3. c[i + 1] \in Entries /\ c[i + 1].state \in States
  BY <1>1, <1>2, ElementOfSeq, EntryFacts
<1>4. c[i + 1] # Undefined /\ c[i + 1].state # Undefined
  BY <1>3 DEF UndefinedIsNoValue
<1>5. At(c, i) = c[i + 1]
  BY <1>1 DEF At
<1>6. unliftState(l) = c[i + 1].state
  BY <1>2, <1>4 DEF unliftState
<1>7. QED
  BY <1>3, <1>4, <1>5, <1>6

LEMMA InView ==
  ASSUME NEW l, WellFormed(l), InRange(l), UndefinedIsNoValue
  PROVE  /\ At(l.computedStates, l.currentStateIndex) =
              l.computedStates[l.currentStateIndex + 1]
         /\ l.computedStates[l.currentStateIndex + 1] \in Entries
         /\ unliftState(l) = l.computedStates[l.currentStateIndex + 1].state
         /\ unliftState(l) \in States /\ unliftState(l) # Undefined
BY EntryInView DEF WellFormed

(* COMMIT starts anew from the state in view, if there is one.             *)
LEMMA CommitSound ==
  ASSUME UndefinedIsNoValue, broken \in BOOLEAN, NEW l, Sound(l),
         NEW k, k = Recommit(commitChanges(l))
  PROVE  /\ k # Undefined => Sound(k)
         /\ InRange(l) => /\ k # Undefined /\ InRange(k)
                          /\ unliftState(k) = unliftState(l)
<1> DEFINE entry == At(l.computedStates, l.currentStateIndex)
<1>1. /\ WellFormed(l) /\ l \in LiftedStates /\ l.computedStates \in Seq(Entries)
      /\ l.currentStateIndex \in Nat /\ Len(l.computedStates) \in Nat
  BY LiftedFields, LenProperties DEF Sound, WellFormed, Complete
<1>2. entry # Undefined => entry \in Entries
  <2>1. SUFFICES ASSUME l.currentStateIndex < Len(l.computedStates)
                 PROVE  l.computedStates[l.currentStateIndex + 1] \in Entries
    BY DEF At
  <2>2. l.currentStateIndex + 1 \in 1 .. Len(l.computedStates)
    BY <1>1, <2>1
  <2>3. QED
    BY <1>1, <2>2, ElementOfSeq
<1>3. InRange(l) => entry \in Entries /\ unliftState(l) = entry.state
  BY <1>1, InView
<1>4. Undefined \notin Entries /\ Undefined \notin LiftedStates
  BY DEF UndefinedIsNoValue
<1>5. k = IF entry = Undefined THEN Undefined
          ELSE Recommit(Start(l, entry.state))
  BY DEF Recommit, commitChanges
<1> HIDE DEF entry
<1>6. CASE entry = Undefined
  BY <1>3, <1>4, <1>5, <1>6
<1>7. CASE entry # Undefined
  <2> DEFINE s == entry.state
             h == Start(l, s)
  <2>1. s \in States
    BY <1>2, <1>7, EntryFacts
  <2>2. h \in LiftedStates
    BY <1>1, <2>1, StartFacts
  <2> HIDE DEF h, s
  <2>3. k = recomputeStates(h, 0)
    BY <1>4, <1>5, <1>7, <2>2 DEF Recommit, h, s
  <2>4. /\ Sound(k) /\ InRange(k) /\ k.currentStateIndex = 0
        /\ k.computedStates[1] = Entry(s, FALSE)
    BY <2>1, <2>3, Renewed DEF h
  <2>5. unliftState(k) = k.computedStates[1].state
    <3>1. unliftState(k) = k.computedStates[k.currentStateIndex + 1].state
      BY <2>4, InView DEF Sound
    <3>2. k.currentStateIndex + 1 = 1
      BY <2>4
    <3>3. QED
      BY ONLY <3>1, <3>2
  <2>6. unliftState(k) = s
    <3>1. Entry(s, FALSE).state = s
      BY <2>1, EntryFacts
    <3>2. QED
      BY ONLY <2>4, <2>5, <3>1
  <2>7. k # Undefined
    BY <2>4, Defined
  <2>8. QED
    BY <1>3, <2>4, <2>6, <2>7 DEF s
<1>8. QED
  BY <1>6, <1>7
-----------------------------------------------------------------------------
(* Where a staged action is.                                               *)
LEMMA Position ==
  ASSUME NEW l \in LiftedStates, Staged(l), NEW id, Contains(l.stagedActionIds, id),
         NEW p, p = IndexOf(l, id) + 1
  PROVE  /\ p \in 1 .. Len(l.stagedActionIds) /\ l.stagedActionIds[p] = id
         /\ IndexOf(l, id) = p - 1
<1> DEFINE I == {i \in 1 .. Len(l.stagedActionIds) : l.stagedActionIds[i] = id}
           q == IF I # {} THEN Min(I) ELSE 0
<1>1. IndexOf(l, id) = q - 1
  BY DEF IndexOf, SelectInSeq
<1>2. I # {}
  BY DEF Contains
<1>3. I \subseteq Nat
  OBVIOUS
<1>4. q \in I
  <2> HIDE DEF I
  <2>1. \E i \in I : \A j \in I : i <= j
    BY <1>2, <1>3, LeastNumber
  <2>2. QED
    BY <1>2, <2>1 DEF Min
<1> HIDE DEF q
<1>5. q \in 1 .. Len(l.stagedActionIds) /\ l.stagedActionIds[q] = id
  BY <1>4
<1>6. p = q
  BY <1>1, <1>5
<1>7. QED
  BY <1>1, <1>5, <1>6

(* From l to k other actions than before are skipped.                      *)
Reskipped(l, k) ==
  /\ k \in LiftedStates
  /\ k.actionsById = l.actionsById /\ k.nextActionId = l.nextActionId
  /\ k.stagedActionIds = l.stagedActionIds
  /\ k.committedState = l.committedState
  /\ k.currentStateIndex = l.currentStateIndex
  /\ k.computedStates = l.computedStates
  /\ k.isPaused = l.isPaused

LEMMA Skipping ==
  ASSUME NEW l \in LiftedStates, NEW ids \in SUBSET Nat
  PROVE  /\ Reskipped(l, [l EXCEPT !.skippedActionIds = ids])
         /\ [l EXCEPT !.skippedActionIds = ids].skippedActionIds = ids
BY DEF Reskipped, LiftedStates

(* Computing from the first action that is skipped now and was not, or the *)
(* other way round, is enough.                                             *)
LEMMA FromActionSound ==
  ASSUME UndefinedIsNoValue, broken \in BOOLEAN, NEW l, Sound(l),
         NEW k, Reskipped(l, k), NEW id \in Nat, id # 0,
         \A other \in Nat : other < id =>
           (other \in k.skippedActionIds <=> other \in l.skippedActionIds),
         NEW r, r = FromAction(k, id)
  PROVE  /\ r # Undefined => Sound(r) /\ (InRange(l) => InRange(r)) /\ Keeps(l, r)
         /\ (\E i \in 1 .. Len(l.stagedActionIds) : l.stagedActionIds[i] = id) =>
              r # Undefined
<1> DEFINE N == Len(l.stagedActionIds)
<1>1. /\ l \in LiftedStates /\ Staged(l) /\ ~l.isPaused /\ Replays(broken, l)
      /\ Len(l.computedStates) = N
  BY DEF Sound, WellFormed, Complete
<1>2. N \in Nat \ {0} /\ \A i \in 1 .. N : l.stagedActionIds[i] \in Nat
  BY <1>1, StagedFacts
<1>3. /\ k \in LiftedStates /\ ~k.isPaused
      /\ k.stagedActionIds = l.stagedActionIds /\ k.computedStates = l.computedStates
      /\ k.actionsById = l.actionsById /\ k.committedState = l.committedState
      /\ k.nextActionId = l.nextActionId /\ k.currentStateIndex = l.currentStateIndex
  BY <1>1 DEF Reskipped
<1>4. 0 \in k.skippedActionIds <=> 0 \in l.skippedActionIds
  OBVIOUS
<1>5. Staged(k)
  BY <1>1, <1>3, <1>4 DEF Staged
<1>6. CASE Contains(k.stagedActionIds, id)
  <2> DEFINE p == IndexOf(k, id) + 1
  <2>1. p \in 1 .. Len(k.stagedActionIds) /\ k.stagedActionIds[p] = id
    BY <1>3, <1>5, <1>6, Position
  <2>2. r = recomputeStates(k, IndexOf(k, id))
    BY <1>6 DEF FromAction
  <2>11. IndexOf(k, id) = p - 1
    BY <1>3, <1>5, <1>6, Position
  <2> HIDE DEF p, N
  <2>3. /\ p \in 1 .. N /\ p - 1 \in Nat /\ p - 1 <= N /\ Len(k.stagedActionIds) = N
        /\ p - 1 <= Len(k.stagedActionIds) /\ p - 1 <= Len(k.computedStates)
    BY <1>1, <1>2, <1>3, <2>1 DEF N
  <2>4. Agree(l, k, p - 1)
    <3>1. ASSUME NEW i \in 1 .. p - 1
          PROVE  l.stagedActionIds[i] \in k.skippedActionIds <=>
                   l.stagedActionIds[i] \in l.skippedActionIds
      <4>1. i \in 1 .. N /\ i < p
        BY <1>2, <2>3
      <4>2. l.stagedActionIds[i] < l.stagedActionIds[p]
        BY <1>1, <2>3, <4>1 DEF Staged, N
      <4>3. l.stagedActionIds[i] \in Nat /\ l.stagedActionIds[i] < id
        BY <1>2, <1>3, <2>1, <4>1, <4>2
      <4>4. QED
        BY <4>3
    <3>2. QED
      BY <1>3, <3>1 DEF Agree
  <2>5. \A i \in 1 .. p - 1 : EntryReplays(broken, k, i)
    <3>1. ASSUME NEW i \in 1 .. p - 1 PROVE EntryReplays(broken, l, i)
      <4>1. i \in 1 .. N
        BY <1>2, <2>3
      <4>2. QED
        BY <1>1, <4>1 DEF Replays, N
    <3>2. QED
      BY <2>3, <2>4, <3>1, AgreeReplays
  <2> DEFINE kept == p - 1
  <2> HIDE DEF kept
  <2>6. IsRecomputed(r, k, kept)
    <3>1. kept \in Nat /\ kept <= Len(k.computedStates) /\ kept <= Len(k.stagedActionIds)
          /\ r = recomputeStates(k, kept)
      BY <2>2, <2>3, <2>11 DEF kept
    <3>2. QED
      BY <1>3, <1>5, <3>1, Recompute
  <2>7. Sound(r)
    <3>1. kept \in Nat /\ kept <= Len(k.stagedActionIds)
          /\ \A i \in 1 .. kept : EntryReplays(broken, k, i)
      BY <2>3, <2>5 DEF kept
    <3>2. QED
      BY <1>3, <1>5, <2>6, <3>1, RecomputedSound
  <2>8. Keeps(l, r) /\ (InRange(l) => InRange(r))
    <3>1. r.stagedActionIds = l.stagedActionIds
          /\ r.currentStateIndex = l.currentStateIndex
      BY <1>3, <2>6 DEF IsRecomputed, SameButComputed
    <3>2. QED
      BY <1>2, <3>1 DEF Keeps, InRange, N
  <2>9. r # Undefined
    BY <2>7, Defined
  <2>10. QED
    BY <2>7, <2>8, <2>9
<1>7. CASE ~Contains(k.stagedActionIds, id)
  <2>1. r = Undefined
    BY <1>7 DEF FromAction
  <2>2. ~\E i \in 1 .. N : l.stagedActionIds[i] = id
    BY <1>3, <1>7 DEF Contains
  <2>3. QED
    BY <2>1, <2>2
<1>8. QED
  BY <1>6, <1>7

LEMMA ToggleSound ==
  ASSUME UndefinedIsNoValue, broken \in BOOLEAN, NEW l, Sound(l),
         NEW id \in Nat, id # 0, NEW r, r = Toggle(l, id)
  PROVE  /\ r # Undefined => Sound(r) /\ (InRange(l) => InRange(r)) /\ Keeps(l, r)
         /\ (\E i \in 1 .. Len(l.stagedActionIds) : l.stagedActionIds[i] = id) =>
              r # Undefined
<1> DEFINE ids == IF id \in l.skippedActionIds THEN l.skippedActionIds \ {id}
                  ELSE l.skippedActionIds \cup {id}
           k == [l EXCEPT !.skippedActionIds = ids]
<1>1. l \in LiftedStates /\ l.skippedActionIds \in SUBSET Nat
  BY LiftedFields DEF Sound, WellFormed, Complete
<1>2. /\ ids \in SUBSET Nat
      /\ \A other \in Nat : other < id =>
           (other \in ids <=> other \in l.skippedActionIds)
  BY <1>1
<1>3. r = FromAction(k, id)
  BY DEF Toggle
<1> HIDE DEF ids
<1>4. Reskipped(l, k) /\ k.skippedActionIds = ids
  BY <1>1, <1>2, Skipping
<1> HIDE DEF k
<1>5. QED
  BY <1>2, <1>3, <1>4, FromActionSound

LEMMA SetActionsActiveSound ==
  ASSUME UndefinedIsNoValue, broken \in BOOLEAN, NEW l, Sound(l),
         NEW start \in Nat, start # 0, NEW end \in Nat, NEW active \in BOOLEAN,
         NEW r, r = SetActionsActive(l, start, end, active)
  PROVE  /\ r # Undefined => Sound(r) /\ (InRange(l) => InRange(r)) /\ Keeps(l, r)
         /\ (\E i \in 1 .. Len(l.stagedActionIds) : l.stagedActionIds[i] = start) =>
              r # Undefined
<1> DEFINE ids == IF active THEN l.skippedActionIds \ (start .. end - 1)
                  ELSE l.skippedActionIds \cup (start .. end - 1)
           k == [l EXCEPT !.skippedActionIds = ids]
<1>1. l \in LiftedStates /\ l.skippedActionIds \in SUBSET Nat
  BY LiftedFields DEF Sound, WellFormed, Complete
<1>2. /\ ids \in SUBSET Nat
      /\ \A other \in Nat : other < start =>
           (other \in ids <=> other \in l.skippedActionIds)
  BY <1>1
<1>3. r = FromAction(k, start)
  BY DEF SetActionsActive
<1> HIDE DEF ids
<1>4. Reskipped(l, k) /\ k.skippedActionIds = ids
  BY <1>1, <1>2, Skipping
<1> HIDE DEF k
<1>5. QED
  BY <1>2, <1>3, <1>4, FromActionSound

(* Travelling.                                                             *)
LEMMA JumpSound ==
  ASSUME UndefinedIsNoValue, NEW l, Sound(l), NEW id
  PROVE  /\ Sound(JumpToAction(l, id)) /\ Keeps(l, JumpToAction(l, id))
         /\ InRange(l) => InRange(JumpToAction(l, id))
<1> DEFINE r == JumpToAction(l, id)
           i == IndexOf(l, id)
           p == i + 1
<1>1. /\ WellFormed(l) /\ l \in LiftedStates /\ Staged(l) /\ Replays(broken, l)
      /\ Len(l.stagedActionIds) \in Nat
  BY StagedFacts DEF Sound, WellFormed, Complete
<1>2. CASE Contains(l.stagedActionIds, id)
  <2>1. r = [l EXCEPT !.currentStateIndex = i]
    BY <1>2 DEF JumpToAction
  <2>2. p \in 1 .. Len(l.stagedActionIds)
    BY <1>1, <1>2, Position
  <2>7. i = p - 1
    BY <1>1, <1>2, Position
  <2> HIDE DEF i, p, r
  <2>3. i \in Nat /\ i < Len(l.stagedActionIds)
    BY <1>1, <2>2, <2>7
  <2>4. SameHistory(l, r) /\ r.currentStateIndex = i
    BY <1>1, <2>1, <2>3, Moved
  <2>5. WellFormed(r) /\ Keeps(l, r) /\ Replays(broken, r)
    BY <1>1, <2>4, SameHistoryFacts
  <2>6. QED
    BY <2>3, <2>4, <2>5 DEF r, Sound, InRange, SameHistory
<1>3. CASE ~Contains(l.stagedActionIds, id)
  <2>1. r = l
    BY <1>3 DEF JumpToAction
  <2>2. QED
    BY <1>1, <2>1 DEF Keeps
<1>4. QED
  BY <1>2, <1>3
-----------------------------------------------------------------------------
(* One more staged action behind those that are not skipped.               *)
Unskip(l, ids, id) == IF id \in l.skippedActionIds THEN ids ELSE Append(ids, id)

IsUnskipRun(r, l) ==
  /\ r[0] = <<>>
  /\ \A k \in 1 .. Len(l.stagedActionIds) :
       r[k] = Unskip(l, r[k - 1], l.stagedActionIds[k])

(* The steps as functions on sequences of numbers.                         *)
UnskipSteps(l) ==
  [i \in 1 .. Len(l.stagedActionIds) |->
     [ids \in Seq(Nat) |-> Unskip(l, ids, l.stagedActionIds[i])]]

LEMMA UnskipStepsFacts ==
  ASSUME NEW l \in LiftedStates, Staged(l)
  PROVE  /\ UnskipSteps(l) \in [1 .. Len(l.stagedActionIds) -> [Seq(Nat) -> Seq(Nat)]]
         /\ \A i \in 1 .. Len(l.stagedActionIds) : \A ids \in Seq(Nat) :
              UnskipSteps(l)[i][ids] = Unskip(l, ids, l.stagedActionIds[i])
<1>1. \A i \in 1 .. Len(l.stagedActionIds) : \A ids \in Seq(Nat) :
        Unskip(l, ids, l.stagedActionIds[i]) \in Seq(Nat)
  <2>1. ASSUME NEW id \in Nat, NEW ids \in Seq(Nat) PROVE Unskip(l, ids, id) \in Seq(Nat)
    BY AppendProperties DEF Unskip
  <2>2. QED
    BY <2>1, StagedFacts
<1>2. QED
  BY <1>1 DEF UnskipSteps

(* Sweeping takes the staged actions one after another.                    *)
LEMMA UnskipRun ==
  ASSUME NEW l \in LiftedStates, Staged(l)
  PROVE  \E r : IsUnskipRun(r, l) /\ Unskipped(l) = r[Len(l.stagedActionIds)]
<1> DEFINE n == Len(l.stagedActionIds)
           ids == l.stagedActionIds
           iter == CHOOSE f : f = [d \in SUBSET (1 .. n) |->
                     IF d = {} THEN <<>>
                     ELSE Unskip(l, f[d \ {Max(d)}], ids[Max(d)])]
<1>1. n \in Nat /\ DOMAIN ids = 1 .. n
  BY LiftedFields, LenProperties
<1>2. Unskipped(l) = iter[1 .. n]
  BY <1>1 DEF Unskipped, FoldLeft, MapThenFoldSet, Unskip
<1>3. /\ UnskipSteps(l) \in [1 .. n -> [Seq(Nat) -> Seq(Nat)]]
      /\ \A i \in 1 .. n : \A v \in Seq(Nat) : UnskipSteps(l)[i][v] = Unskip(l, v, ids[i])
  BY UnskipStepsFacts
<1> HIDE DEF iter, n, ids
<1>4. \E f : f = [d \in SUBSET (1 .. n) |->
                 IF d = {} THEN <<>>
                 ELSE Unskip(l, f[d \ {Max(d)}], ids[Max(d)])]
  <2>0. <<>> \in Seq(Nat)
    OBVIOUS
  <2>1. PICK f : IsRecursion(f, n, Seq(Nat), <<>>, UnskipSteps(l))
    BY <1>1, <1>3, <2>0, Recursion
  <2>2. /\ f \in [SUBSET (1 .. n) -> Seq(Nat)]
        /\ f[{}] = <<>>
        /\ \A d \in SUBSET (1 .. n) :
             d # {} => f[d] = UnskipSteps(l)[Max(d)][f[d \ {Max(d)}]]
    BY <2>1 DEF IsRecursion
  <2>3. ASSUME NEW d \in SUBSET (1 .. n), d # {}
        PROVE  f[d] = Unskip(l, f[d \ {Max(d)}], ids[Max(d)])
    <3>1. Max(d) \in 1 .. n /\ f[d \ {Max(d)}] \in Seq(Nat)
      BY <1>1, <2>2, <2>3, MaxFacts
    <3>2. QED
      BY <1>3, <2>2, <2>3, <3>1
  <2>4. f = [d \in SUBSET (1 .. n) |->
               IF d = {} THEN <<>>
               ELSE Unskip(l, f[d \ {Max(d)}], ids[Max(d)])]
    BY <2>2, <2>3
  <2>5. QED
    BY <2>4
<1>5. /\ iter[{}] = <<>>
      /\ \A d \in SUBSET (1 .. n) :
           d # {} => iter[d] = Unskip(l, iter[d \ {Max(d)}], ids[Max(d)])
  BY <1>4 DEF iter
<1> DEFINE r == [k \in 0 .. n |-> iter[1 .. k]]
<1>6. r[0] = <<>> /\ r[n] = iter[1 .. n]
  BY <1>1, <1>5, Intervals
<1>7. ASSUME NEW k \in 1 .. n PROVE r[k] = Unskip(l, r[k - 1], ids[k])
  <2>1. /\ r[k] = iter[1 .. k] /\ r[k - 1] = iter[1 .. k - 1]
        /\ 1 .. k \in SUBSET (1 .. n) /\ 1 .. k # {}
        /\ Max(1 .. k) = k /\ (1 .. k) \ {k} = 1 .. k - 1
    BY <1>1, Intervals
  <2> HIDE DEF r
  <2>2. QED
    BY <1>5, <2>1
<1> HIDE DEF r
<1>8. IsUnskipRun(r, l)
  BY <1>6, <1>7 DEF IsUnskipRun, n, ids
<1>9. QED
  BY <1>2, <1>6, <1>8 DEF n

(* s holds some of the first n staged actions, in their order, INIT first. *)
Ordered(s, l, n) ==
  /\ s \in Seq(Nat) /\ Len(s) >= 1 /\ s[1] = 0
  /\ \A i, j \in 1 .. Len(s) : i < j => s[i] < s[j]
  /\ \A i \in 1 .. Len(s) : \E k \in 1 .. n : s[i] = l.stagedActionIds[k]

LEMMA OrderedStep ==
  ASSUME NEW l \in LiftedStates, Staged(l), NEW s, NEW n \in Nat, n >= 1,
         n + 1 <= Len(l.stagedActionIds), Ordered(s, l, n),
         NEW t, t = Unskip(l, s, l.stagedActionIds[n + 1])
  PROVE  Ordered(t, l, n + 1)
<1> DEFINE m == n + 1
           N == Len(l.stagedActionIds)
           staged == l.stagedActionIds
           id == staged[m]
           L == Len(s)
<1>1. N \in Nat /\ \A i \in 1 .. N : staged[i] \in Nat
  BY StagedFacts
<1>2. /\ m \in 1 .. N /\ m \in 1 .. m /\ \A k \in 1 .. n : k \in 1 .. m /\ k \in 1 .. N /\ k < m
  BY <1>1
<1>3. \A i, j \in 1 .. N : i < j => staged[i] < staged[j]
  BY DEF Staged
<1>4. /\ s \in Seq(Nat) /\ L >= 1 /\ s[1] = 0 /\ L \in Nat
      /\ \A i, j \in 1 .. L : i < j => s[i] < s[j]
      /\ \A i \in 1 .. L : \E k \in 1 .. n : s[i] = staged[k]
  BY LenProperties DEF Ordered
<1>5. CASE id \in l.skippedActionIds
  <2>1. t = s
    BY <1>5 DEF Unskip
  <2>2. \A i \in 1 .. L : \E k \in 1 .. m : s[i] = staged[k]
    BY <1>2, <1>4
  <2>3. QED
    BY <1>4, <2>1, <2>2 DEF Ordered
<1>6. CASE id \notin l.skippedActionIds
  <2>1. t = Append(s, id) /\ id \in Nat
    BY <1>1, <1>2, <1>6 DEF Unskip
  <2> HIDE DEF id, m, N, staged, L
  <2>2. /\ t \in Seq(Nat) /\ Len(t) = L + 1 /\ t[L + 1] = id
        /\ \A i \in 1 .. L : t[i] = s[i]
    BY <1>4, <2>1, AppendProperties DEF L
  <2>3. \A i \in 1 .. L : s[i] < id
    <3>1. ASSUME NEW i \in 1 .. L PROVE s[i] < id
      <4>1. PICK k \in 1 .. n : s[i] = staged[k]
        BY <1>4
      <4>2. k \in 1 .. N /\ k < m /\ m \in 1 .. N
        BY <1>2
      <4>3. staged[k] < staged[m]
        BY <1>3, <4>2
      <4>4. QED
        BY <4>1, <4>3 DEF id
    <3>2. QED
      BY <3>1
  <2>4. Len(t) >= 1 /\ 1 \in 1 .. L /\ t[1] = 0
    <3>1. L \in Nat /\ L >= 1 /\ s[1] = 0
      BY <1>4
    <3>2. 1 \in 1 .. L /\ L + 1 >= 1
      BY ONLY <3>1
    <3>3. Len(t) = L + 1 /\ t[1] = s[1]
      BY <2>2, <3>2
    <3>4. QED
      BY ONLY <3>1, <3>2, <3>3
  <2>5. ASSUME NEW i \in 1 .. L + 1, NEW j \in 1 .. L + 1, i < j PROVE t[i] < t[j]
    <3>0. L \in Nat
      BY <1>4
    <3>1. i \in 1 .. L /\ t[i] = s[i]
      <4>1. i \in 1 .. L
        BY ONLY <2>5, <3>0
      <4>2. QED
        BY <2>2, <4>1
    <3>2. CASE j = L + 1
      BY <2>2, <2>3, <3>1, <3>2
    <3>3. CASE j # L + 1
      <4>1. j \in 1 .. L
        BY <1>4, <3>3
      <4>2. QED
        BY <1>4, <2>2, <2>5, <3>1, <4>1
    <3>4. QED
      BY <3>2, <3>3
  <2>6. ASSUME NEW i \in 1 .. L + 1 PROVE \E k \in 1 .. m : t[i] = staged[k]
    <3>1. CASE i = L + 1
      BY <1>2, <2>2, <3>1 DEF id
    <3>2. CASE i # L + 1
      <4>1. i \in 1 .. L
        BY <1>4, <3>2
      <4>2. QED
        BY <1>2, <1>4, <2>2, <4>1
    <3>3. QED
      BY <3>1, <3>2
  <2>7. Ordered(t, l, m)
    BY <2>2, <2>4, <2>5, <2>6 DEF Ordered, staged
  <2>8. QED
    BY <2>7 DEF m
<1>7. QED
  BY <1>5, <1>6

(* What is not skipped stays in its order.                                 *)
LEMMA UnskippedOrdered ==
  ASSUME NEW l \in LiftedStates, Staged(l)
  PROVE  Ordered(Unskipped(l), l, Len(l.stagedActionIds))
<1> DEFINE N == Len(l.stagedActionIds)
<1>1. PICK r : IsUnskipRun(r, l) /\ Unskipped(l) = r[N]
  BY UnskipRun
<1>2. N \in Nat \ {0}
  BY StagedFacts
<1> DEFINE Reached == {k \in Nat : k + 1 \in 1 .. N => Ordered(r[k + 1], l, k + 1)}
<1>3. 0 \in Reached
  <2>1. 1 \in 1 .. N /\ 1 - 1 = 0
    BY <1>2
  <2>2. r[0] = <<>> /\ r[1] = Unskip(l, r[0], l.stagedActionIds[1])
    BY <1>1, <2>1 DEF IsUnskipRun
  <2>3. l.stagedActionIds[1] = 0 /\ 0 \notin l.skippedActionIds
    BY DEF Staged
  <2>4. r[1] = Append(<<>>, 0)
    BY <2>2, <2>3 DEF Unskip
  <2>5. <<>> \in Seq(Nat) /\ Len(<<>>) = 0 /\ 0 \in Nat
    OBVIOUS
  <2>6. r[1] \in Seq(Nat) /\ Len(r[1]) = 1 /\ r[1][1] = 0
    BY <2>4, <2>5, AppendProperties
  <2>7. /\ \A i, j \in 1 .. 1 : ~(i < j)
        /\ \A i \in 1 .. 1 : i = 1 /\ 1 \in 1 .. 1
    OBVIOUS
  <2>8. Ordered(r[1], l, 1)
    BY ONLY <2>3, <2>6, <2>7 DEF Ordered
  <2>9. QED
    BY <2>8
<1>4. ASSUME NEW k \in Nat, k \in Reached PROVE k + 1 \in Reached
  <2> DEFINE m == k + 1
  <2>1. SUFFICES ASSUME m + 1 \in 1 .. N PROVE Ordered(r[m + 1], l, m + 1)
    OBVIOUS
  <2>2. m \in 1 .. N /\ m \in Nat /\ m >= 1 /\ m + 1 <= N /\ (m + 1) - 1 = m
    BY <1>2, <2>1
  <2>3. Ordered(r[m], l, m)
    BY <1>4, <2>2
  <2> HIDE DEF m
  <2>4. r[m + 1] = Unskip(l, r[m], l.stagedActionIds[m + 1])
    <3>1. r[m + 1] = Unskip(l, r[(m + 1) - 1], l.stagedActionIds[m + 1])
      BY <1>1, <2>1 DEF IsUnskipRun
    <3>2. QED
      BY <2>2, <3>1
  <2>5. QED
    BY <2>2, <2>3, <2>4, OrderedStep
<1>5. Nat \subseteq Reached
  <2> HIDE DEF Reached
  <2>1. QED
    BY <1>3, <1>4, Induction
<1>6. N - 1 \in Nat /\ (N - 1) + 1 = N /\ N \in 1 .. N
  BY <1>2
<1>7. Ordered(r[N], l, N)
  <2>1. N - 1 \in Reached
    BY <1>5, <1>6
  <2> DEFINE k == N - 1
  <2>2. k + 1 \in 1 .. N => Ordered(r[k + 1], l, k + 1)
    BY <2>1
  <2> HIDE DEF N
  <2>3. QED
    BY ONLY <1>6, <2>2
<1>8. QED
  BY <1>1, <1>7

(* SWEEP.                                                                  *)
LEMMA SweepSound ==
  ASSUME UndefinedIsNoValue, broken \in BOOLEAN, NEW l, Sound(l),
         NEW r, r = Sweep(l)
  PROVE  Sound(r) /\ InRange(r)
<1> DEFINE staged == Unskipped(l)
           cur == Clamped(l.currentStateIndex, staged)
           k == [l EXCEPT !.stagedActionIds = staged, !.skippedActionIds = {},
                          !.currentStateIndex = cur]
<1>1. /\ l \in LiftedStates /\ Staged(l) /\ ~l.isPaused /\ l.currentStateIndex \in Nat
      /\ Len(l.stagedActionIds) \in Nat
  BY LiftedFields, StagedFacts DEF Sound, WellFormed, Complete
<1>2. Ordered(staged, l, Len(l.stagedActionIds))
  BY <1>1, UnskippedOrdered
<1>3. r = recomputeStates(k, 0)
  BY DEF Sweep
<1> HIDE DEF staged
<1>4. staged \in Seq(Nat) /\ Len(staged) \in Nat /\ Len(staged) >= 1
  BY <1>2, LenProperties DEF Ordered
<1>5. cur \in Nat /\ cur < Len(staged)
  BY <1>1, <1>4 DEF Clamped
<1> HIDE DEF cur
<1>6. /\ k \in LiftedStates
      /\ k.stagedActionIds = staged /\ k.skippedActionIds = {}
      /\ k.currentStateIndex = cur /\ k.actionsById = l.actionsById
      /\ k.nextActionId = l.nextActionId /\ k.isPaused = l.isPaused
  BY <1>1, <1>4, <1>5 DEF LiftedStates
<1> HIDE DEF k
<1>7. Staged(k)
  <2>1. /\ Len(staged) >= 1 /\ staged[1] = 0
        /\ \A i, j \in 1 .. Len(staged) : i < j => staged[i] < staged[j]
        /\ \A i \in 1 .. Len(staged) :
             \E n \in 1 .. Len(l.stagedActionIds) : staged[i] = l.stagedActionIds[n]
    BY <1>2 DEF Ordered
  <2>2. /\ l.actionsById[0] = INIT
        /\ \A i \in 1 .. Len(l.stagedActionIds) :
             /\ l.stagedActionIds[i] < l.nextActionId
             /\ l.stagedActionIds[i] \in DOMAIN l.actionsById
    BY <1>1 DEF Staged
  <2>3. \A i \in 1 .. Len(staged) :
          staged[i] < l.nextActionId /\ staged[i] \in DOMAIN l.actionsById
    BY <2>1, <2>2
  <2>4. QED
    BY ONLY <1>6, <2>1, <2>2, <2>3 DEF Staged
<1>8. Sound(r) /\ SameButComputed(k, r)
  BY <1>1, <1>3, <1>6, <1>7, RecomputeAll
<1>9. InRange(r)
  BY <1>5, <1>6, <1>8, SameStaged DEF InRange
<1>10. QED
  BY <1>8, <1>9

(* IMPORT_STATE.                                                           *)
LEMMA ImportSound ==
  ASSUME UndefinedIsNoValue, broken \in BOOLEAN, NEW l, WellFormed(l),
         NEW r, r = recomputeStates(l, 0)
  PROVE  /\ Sound(r) /\ r.currentStateIndex = l.currentStateIndex
         /\ InRange(l) => InRange(r)
         /\ Replays(broken, l) => r.computedStates = l.computedStates
<1>1. /\ l \in LiftedStates /\ Staged(l) /\ ~l.isPaused
      /\ Len(l.computedStates) = Len(l.stagedActionIds)
  BY DEF WellFormed, Complete
<1>2. Sound(r) /\ SameButComputed(l, r)
  BY <1>1, RecomputeAll
<1>3. r.currentStateIndex = l.currentStateIndex /\ (InRange(l) => InRange(r))
  BY <1>2, SameStaged DEF SameButComputed
<1>4. ASSUME Replays(broken, l) PROVE r.computedStates = l.computedStates
  <2>1. Len(r.computedStates) = Len(l.stagedActionIds) /\ Replays(broken, r)
    BY <1>2 DEF Sound, WellFormed, Complete, SameButComputed
  <2>2. QED
    BY <1>1, <1>2, <1>4, <2>1, ReplayIsUnique
<1>5. QED
  BY <1>2, <1>3, <1>4

(* The history computed anew is the one that replays.                      *)
LEMMA ReplayedIs ==
  ASSUME UndefinedIsNoValue, broken \in BOOLEAN, NEW l, Sound(l)
  PROVE  l.computedStates = Replayed(l)
<1> DEFINE c == [l EXCEPT !.computedStates = <<>>]
           r == recomputeStates(c, 0)
<1>1. /\ l \in LiftedStates /\ Staged(l) /\ ~l.isPaused /\ Replays(broken, l)
      /\ Len(l.computedStates) = Len(l.stagedActionIds)
  BY DEF Sound, WellFormed, Complete
<1>2. <<>> \in Seq(Entries)
  OBVIOUS
<1>3. SameButComputed(l, c)
  BY <1>1, <1>2, Computed
<1>4. Replayed(l) = r.computedStates
  BY DEF Replayed
<1> HIDE DEF c
<1>5. c \in LiftedStates /\ ~c.isPaused /\ Staged(c)
  <2>1. c \in LiftedStates /\ ~c.isPaused
    BY <1>1, <1>3 DEF SameButComputed
  <2>2. Staged(c)
    BY <1>1, <1>3, SameStaged
  <2>3. QED
    BY <2>1, <2>2
<1>6. Sound(r) /\ SameButComputed(c, r)
  BY <1>5, RecomputeAll
<1> HIDE DEF r
<1>7. SameButComputed(l, r)
  BY <1>3, <1>6 DEF SameButComputed
<1>8. Replays(broken, r) /\ Len(r.computedStates) = Len(l.stagedActionIds)
  BY <1>6, <1>7 DEF Sound, WellFormed, Complete, SameButComputed
<1>9. r.computedStates = l.computedStates
  BY <1>1, <1>7, <1>8, ReplayIsUnique
<1>10. QED
  BY <1>4, <1>9
-----------------------------------------------------------------------------
(* What the monitor asks for.                                              *)
LEMMA CommandFacts ==
  \A type, id, end, status :
    /\ Command(type, id, end, status).type = type
    /\ Command(type, id, end, status).id = id
    /\ Command(type, id, end, status).end = end
    /\ Command(type, id, end, status).status = status
BY DEF Command

Asked(c) ==
  /\ c = Command(c.type, c.id, c.end, c.status)
  /\ c.id \in Nat /\ c.end \in Nat /\ c.status \in BOOLEAN
  /\ c.type \in {"TOGGLE_ACTION", "SET_ACTIONS_ACTIVE"} =>
       /\ c.id # 0
       /\ \E i \in 1 .. Len(lifted.stagedActionIds) : lifted.stagedActionIds[i] = c.id
  /\ c.type = "JUMP_TO_STATE" => c.id < Len(lifted.stagedActionIds)
  /\ c.type = "IMPORT_STATE" => exported # Undefined
  /\ c.type = "PAUSE_RECORDING" => c.status = ~lifted.isPaused

LEMMA StepFacts ==
  ASSUME Complete(lifted), NEW id \in Steps
  PROVE  /\ id \in Nat /\ id # 0
         /\ \E i \in 1 .. Len(lifted.stagedActionIds) : lifted.stagedActionIds[i] = id
<1>1. lifted.stagedActionIds \in Seq(Nat)
  BY LiftedFields DEF Complete
<1>2. DOMAIN lifted.stagedActionIds = 1 .. Len(lifted.stagedActionIds)
  BY <1>1, LenProperties
<1>3. PICK i \in 1 .. Len(lifted.stagedActionIds) : lifted.stagedActionIds[i] = id
  BY <1>2 DEF Steps, ToSet
<1>4. lifted.stagedActionIds[i] \in Nat
  BY <1>1, ElementOfSeq
<1>5. QED
  BY <1>3, <1>4 DEF Steps

LEMMA CommandAsked ==
  ASSUME NEW type, NEW id \in Nat, NEW end \in Nat, NEW status \in BOOLEAN,
         type \in {"TOGGLE_ACTION", "SET_ACTIONS_ACTIVE"} =>
           /\ id # 0
           /\ \E i \in 1 .. Len(lifted.stagedActionIds) :
                lifted.stagedActionIds[i] = id,
         type = "JUMP_TO_STATE" => id < Len(lifted.stagedActionIds),
         type = "IMPORT_STATE" => exported # Undefined,
         type = "PAUSE_RECORDING" => status = ~lifted.isPaused
  PROVE  Asked(Command(type, id, end, status))
<1> DEFINE c == Command(type, id, end, status)
<1>1. c.type = type /\ c.id = id /\ c.end = end /\ c.status = status
  BY CommandFacts
<1>2. c = Command(type, id, end, status)
  OBVIOUS
<1> HIDE DEF c
<1>3. Asked(c)
  BY <1>1, <1>2 DEF Asked
<1>4. QED
  BY <1>3 DEF c

LEMMA AskFacts ==
  ASSUME Complete(lifted), NEW command \in Requests
  PROVE  Asked(command)
<1> DEFINE Settings == {Command("LOCK_CHANGES", 0, 0, ~lifted.isLocked),
                        Command("PAUSE_RECORDING", 0, 0, ~lifted.isPaused)}
           plain == {"RESET", "COMMIT", "ROLLBACK", "SWEEP"}
           R1 == {Command(type, 0, 0, TRUE) : type \in plain}
           on == TRUE
           R2 == {Command(type, id, 0, on) : type \in {"TOGGLE_ACTION", "JUMP_TO_ACTION"}, id \in Steps}
           R3 == {Command("JUMP_TO_STATE", i, 0, TRUE) :
                    i \in 0 .. Len(lifted.stagedActionIds) - 1}
           R4 == {Command("SET_ACTIONS_ACTIVE", id, end + 1, active) :
                    id \in Steps, end \in Steps, active \in BOOLEAN}
           R5 == {Command("IMPORT_STATE", 0, 0, TRUE) : l \in {exported} \ {Undefined}}
<1>1. /\ Len(lifted.stagedActionIds) \in Nat
      /\ lifted.isLocked \in BOOLEAN /\ lifted.isPaused \in BOOLEAN
  BY LiftedFields, LenProperties DEF Complete
<1>2. Requests = Settings \cup R1 \cup R2 \cup R3 \cup R4 \cup R5
  BY DEF Requests
<1> HIDE DEF Settings, R1, R2, R3, R4, R5
<1>3. CASE command \in Settings
  <2>1. PICK type \in {"LOCK_CHANGES", "PAUSE_RECORDING"}, b \in BOOLEAN :
          /\ command = Command(type, 0, 0, b)
          /\ type = "PAUSE_RECORDING" => b = ~lifted.isPaused
    BY <1>1, <1>3 DEF Settings
  <2>2. QED
    BY <2>1, CommandAsked
<1>4. CASE command \in R1
  <2>1. PICK type \in plain : command = Command(type, 0, 0, TRUE)
    BY <1>4 DEF R1
  <2>2. QED
    BY <2>1, CommandAsked
<1>5. CASE command \in R2
  <2> HIDE DEF on
  <2>4. PICK type \in {"TOGGLE_ACTION", "JUMP_TO_ACTION"}, id \in Steps :
          command = Command(type, id, 0, on)
    BY <1>5 DEF R2
  <2>1. on \in BOOLEAN
    BY DEF on
  <2>2. QED
    BY <2>1, <2>4, StepFacts, CommandAsked
<1>6. CASE command \in R3
  <2>1. PICK i \in 0 .. Len(lifted.stagedActionIds) - 1 :
          command = Command("JUMP_TO_STATE", i, 0, TRUE)
    BY <1>6 DEF R3
  <2>2. i \in Nat /\ i < Len(lifted.stagedActionIds)
    BY <1>1
  <2>3. QED
    BY <2>1, <2>2, CommandAsked
<1>7. CASE command \in R4
  <2>1. PICK id \in Steps, end \in Steps, active \in BOOLEAN :
          command = Command("SET_ACTIONS_ACTIVE", id, end + 1, active)
    BY <1>7 DEF R4
  <2>2. end + 1 \in Nat
    BY StepFacts
  <2>3. QED
    BY <2>1, <2>2, StepFacts, CommandAsked
<1>8. CASE command \in R5
  <2>1. exported # Undefined /\ command = Command("IMPORT_STATE", 0, 0, TRUE)
    BY <1>8 DEF R5
  <2>2. QED
    BY <2>1, CommandAsked
<1>9. QED
  BY <1>2, <1>3, <1>4, <1>5, <1>6, <1>7, <1>8

(* What the reducer makes of the history when a message arrives.           *)
Arrived(k) ==
  /\ ~pending /\ message # Undefined /\ message' = Undefined
  /\ broken' = broken /\ exported' = exported /\ performed' = performed
  /\ pending' = pending
  /\ Scan(k)

Changed(l) ==
  CASE message.type = "LOCK_CHANGES" -> [l EXCEPT !.isLocked = message.status]
    [] message.type = "RESET" -> recomputeStates(Start(l, <<>>), 0)
    [] message.type = "COMMIT" -> Recommit(commitChanges(l))
    [] message.type = "ROLLBACK" -> recomputeStates(Start(l, l.committedState), 0)
    [] message.type = "TOGGLE_ACTION" -> Toggle(l, message.id)
    [] message.type = "SET_ACTIONS_ACTIVE" ->
         SetActionsActive(l, message.id, message.end, message.status)
    [] message.type = "JUMP_TO_STATE" -> [l EXCEPT !.currentStateIndex = message.id]
    [] message.type = "JUMP_TO_ACTION" -> JumpToAction(l, message.id)
    [] message.type = "SWEEP" -> Sweep(l)
    [] message.type = "IMPORT_STATE" -> recomputeStates(exported, 0)

LEMMA MonitorArrives ==
  ASSUME Recorded, MessageOK, Monitor
  PROVE  /\ Arrived(Changed(lifted))
         /\ message.type \in {"LOCK_CHANGES", "RESET", "COMMIT", "ROLLBACK",
              "TOGGLE_ACTION", "SET_ACTIONS_ACTIVE", "JUMP_TO_STATE",
              "JUMP_TO_ACTION", "SWEEP", "IMPORT_STATE"}
<1>1. message # Undefined => message.type # "PAUSE_RECORDING"
  BY DEF Recorded, MessageOK, Messages
<1>2. CASE PauseRecording
  BY <1>1, <1>2 DEF PauseRecording, Arrives
<1>3. CASE LockChanges
  <2>1. /\ Arrived([lifted EXCEPT !.isLocked = message.status])
        /\ message.type = "LOCK_CHANGES"
    BY <1>3, Unfiltered DEF LockChanges, Arrives, Arrived, counters
  <2>2. QED
    BY <2>1 DEF Changed
<1>4. CASE Reset
  <2>1. Arrived(recomputeStates(Start(lifted, <<>>), 0)) /\ message.type = "RESET"
    BY <1>4, Unfiltered DEF Reset, Arrives, Arrived, counters
  <2>2. QED
    BY <2>1 DEF Changed
<1>5. CASE Commit
  <2>1. Arrived(Recommit(commitChanges(lifted))) /\ message.type = "COMMIT"
    BY <1>5, Unfiltered DEF Commit, Arrives, Arrived, counters
  <2>2. QED
    BY <2>1 DEF Changed
<1>6. CASE Rollback
  <2>1. /\ Arrived(recomputeStates(Start(lifted, lifted.committedState), 0))
        /\ message.type = "ROLLBACK"
    BY <1>6, Unfiltered DEF Rollback, Arrives, Arrived, counters
  <2>2. QED
    BY <2>1 DEF Changed
<1>7. CASE ToggleAction
  <2>1. Arrived(Toggle(lifted, message.id)) /\ message.type = "TOGGLE_ACTION"
    BY <1>7, Unfiltered DEF ToggleAction, Arrives, Arrived, counters
  <2>2. QED
    BY <2>1 DEF Changed
<1>8. CASE SetActive
  <2>1. /\ Arrived(SetActionsActive(lifted, message.id, message.end, message.status))
        /\ message.type = "SET_ACTIONS_ACTIVE"
    BY <1>8, Unfiltered DEF SetActive, Arrives, Arrived, counters
  <2>2. QED
    BY <2>1 DEF Changed
<1>9. CASE JumpToState
  <2>1. /\ Arrived([lifted EXCEPT !.currentStateIndex = message.id])
        /\ message.type = "JUMP_TO_STATE"
    BY <1>9, Unfiltered DEF JumpToState, Arrives, Arrived, counters
  <2>2. QED
    BY <2>1 DEF Changed
<1>10. CASE JumpsToAction
  <2>1. Arrived(JumpToAction(lifted, message.id)) /\ message.type = "JUMP_TO_ACTION"
    BY <1>10, Unfiltered DEF JumpsToAction, Arrives, Arrived, counters
  <2>2. QED
    BY <2>1 DEF Changed
<1>11. CASE SweepSkipped
  <2>1. Arrived(Sweep(lifted)) /\ message.type = "SWEEP"
    BY <1>11, Unfiltered DEF SweepSkipped, Arrives, Arrived, counters
  <2>2. QED
    BY <2>1 DEF Changed
<1>12. CASE ImportState
  <2>1. Arrived(recomputeStates(exported, 0)) /\ message.type = "IMPORT_STATE"
    BY <1>12, Unfiltered DEF ImportState, Arrives, Arrived, counters
  <2>2. QED
    BY <2>1 DEF Changed
<1>13. QED
  BY <1>2, <1>3, <1>4, <1>5, <1>6, <1>7, <1>8, <1>9, <1>10, <1>11, <1>12 DEF Monitor

(* All of it keeps a history that replays.  The TypeError of a toggled     *)
(* action that is not staged, or of a commit of no state, leaves it as it  *)
(* was; neither happens while the messages and the pointer are in range.   *)
LEMMA ChangedSound ==
  ASSUME UndefinedIsNoValue, Recorded, HistoryInvariant, Monitor
  PROVE  /\ Changed(lifted) # Undefined => Sound(Changed(lifted))
         /\ ViewInvariant => Changed(lifted) # Undefined /\ InRange(Changed(lifted))
<1> DEFINE l == lifted
           k == Changed(l)
<1>1. /\ ~pending /\ message # Undefined
      /\ message.type \in {"LOCK_CHANGES", "RESET", "COMMIT", "ROLLBACK",
              "TOGGLE_ACTION", "SET_ACTIONS_ACTIVE", "JUMP_TO_STATE",
              "JUMP_TO_ACTION", "SWEEP", "IMPORT_STATE"}
  BY MonitorArrives DEF HistoryInvariant, Arrived
<1>2. /\ broken \in BOOLEAN /\ Sound(l) /\ WellFormed(l) /\ l \in LiftedStates
      /\ Replays(broken, l) /\ l.committedState \in States
      /\ exported # Undefined => WellFormed(exported)
  BY <1>1, LiftedFields DEF HistoryInvariant, Sound, WellFormed, Complete
<1>3. /\ message.id \in Nat /\ message.end \in Nat /\ message.status \in BOOLEAN
      /\ message.type \in {"TOGGLE_ACTION", "SET_ACTIONS_ACTIVE"} => message.id # 0
      /\ message.type = "IMPORT_STATE" => exported # Undefined
  BY <1>1 DEF HistoryInvariant, MessageOK, Messages
<1>4. ViewInvariant =>
        /\ InRange(l) /\ (exported # Undefined => InRange(exported))
        /\ message.type \in {"TOGGLE_ACTION", "SET_ACTIONS_ACTIVE"} =>
             \E i \in 1 .. Len(l.stagedActionIds) : l.stagedActionIds[i] = message.id
        /\ message.type = "JUMP_TO_STATE" => message.id < Len(l.stagedActionIds)
  BY <1>1 DEF ViewInvariant, MessageInRange
<1>5. \A r : Sound(r) => r # Undefined
  BY Defined
<1> DEFINE Good(r) == /\ r # Undefined => Sound(r)
                      /\ ViewInvariant => r # Undefined /\ InRange(r)
<1>6. CASE message.type = "LOCK_CHANGES"
  <2> DEFINE r == [l EXCEPT !.isLocked = message.status]
  <2>1. k = r
    BY <1>6 DEF Changed
  <2>2. SameHistory(l, r) /\ r.currentStateIndex = l.currentStateIndex
    BY <1>2, <1>3, LockSet
  <2> HIDE DEF r, k, l
  <2>3. WellFormed(r) /\ Replays(broken, r)
    BY <1>2, <2>2, SameHistoryFacts
  <2>4. Sound(r) /\ (InRange(l) => InRange(r))
    BY <2>2, <2>3 DEF Sound, InRange, SameHistory
  <2>5. Good(k)
    BY <1>4, <1>5, <2>1, <2>4
  <2>6. QED
    BY <2>5 DEF k, l
<1>7. CASE message.type = "RESET"
  <2>1. <<>> \in States
    BY DEF States
  <2>2. k = recomputeStates(Start(l, <<>>), 0)
    BY <1>7 DEF Changed
  <2> HIDE DEF k, l
  <2>3. Sound(k) /\ InRange(k)
    BY <1>2, <2>1, <2>2, Renewed
  <2>4. QED
    BY <1>5, <2>3 DEF k, l
<1>8. CASE message.type = "COMMIT"
  <2>1. k = Recommit(commitChanges(l))
    BY <1>8 DEF Changed
  <2> HIDE DEF k, l
  <2>2. /\ k # Undefined => Sound(k)
        /\ InRange(l) => k # Undefined /\ InRange(k)
    BY <1>2, <2>1, CommitSound
  <2>3. QED
    BY <1>4, <2>2 DEF k, l
<1>9. CASE message.type = "ROLLBACK"
  <2>1. k = recomputeStates(Start(l, l.committedState), 0)
    BY <1>9 DEF Changed
  <2> HIDE DEF k, l
  <2>2. Sound(k) /\ InRange(k)
    BY <1>2, <2>1, Renewed
  <2>3. QED
    BY <1>5, <2>2 DEF k, l
<1>10. CASE message.type = "TOGGLE_ACTION"
  <2>1. k = Toggle(l, message.id)
    BY <1>10 DEF Changed
  <2> HIDE DEF k, l
  <2>2. /\ k # Undefined => Sound(k) /\ (InRange(l) => InRange(k))
        /\ (\E i \in 1 .. Len(l.stagedActionIds) : l.stagedActionIds[i] = message.id) =>
             k # Undefined
    BY <1>2, <1>3, <1>10, <2>1, ToggleSound
  <2>3. QED
    BY <1>4, <1>10, <2>2 DEF k, l
<1>11. CASE message.type = "SET_ACTIONS_ACTIVE"
  <2>1. k = SetActionsActive(l, message.id, message.end, message.status)
    BY <1>11 DEF Changed
  <2> HIDE DEF k, l
  <2>2. /\ k # Undefined => Sound(k) /\ (InRange(l) => InRange(k))
        /\ (\E i \in 1 .. Len(l.stagedActionIds) : l.stagedActionIds[i] = message.id) =>
             k # Undefined
    BY <1>2, <1>3, <1>11, <2>1, SetActionsActiveSound
  <2>3. QED
    BY <1>4, <1>11, <2>2 DEF k, l
<1>12. CASE message.type = "JUMP_TO_STATE"
  <2> DEFINE r == [l EXCEPT !.currentStateIndex = message.id]
  <2>1. k = r
    BY <1>12 DEF Changed
  <2>2. SameHistory(l, r) /\ r.currentStateIndex = message.id
    BY <1>2, <1>3, Moved
  <2> HIDE DEF r, k, l
  <2>3. WellFormed(r) /\ Replays(broken, r)
    BY <1>2, <2>2, SameHistoryFacts
  <2>4. Sound(r) /\ (message.id < Len(l.stagedActionIds) => InRange(r))
    BY <2>2, <2>3 DEF Sound, InRange, SameHistory
  <2>5. Good(k)
    BY <1>4, <1>5, <1>12, <2>1, <2>4
  <2>6. QED
    BY <2>5 DEF k, l
<1>13. CASE message.type = "JUMP_TO_ACTION"
  <2>1. k = JumpToAction(l, message.id)
    BY <1>13 DEF Changed
  <2> HIDE DEF k, l
  <2>2. Sound(k) /\ (InRange(l) => InRange(k))
    BY <1>2, <2>1, JumpSound
  <2>3. QED
    BY <1>4, <1>5, <2>2 DEF k, l
<1>14. CASE message.type = "SWEEP"
  <2>1. k = Sweep(l)
    BY <1>14 DEF Changed
  <2> HIDE DEF k, l
  <2>2. Sound(k) /\ InRange(k)
    BY <1>2, <2>1, SweepSound
  <2>3. QED
    BY <1>5, <2>2 DEF k, l
<1>15. CASE message.type = "IMPORT_STATE"
  <2>1. k = recomputeStates(exported, 0)
    BY <1>15 DEF Changed
  <2> HIDE DEF k, l
  <2>2. WellFormed(exported) /\ exported # Undefined
    BY <1>2, <1>3, <1>15
  <2>3. Sound(k) /\ (InRange(exported) => InRange(k))
    BY <1>2, <2>1, <2>2, ImportSound
  <2>4. QED
    BY <1>4, <1>5, <2>2, <2>3 DEF k, l
<1>16. QED
  BY <1>1, <1>6, <1>7, <1>8, <1>9, <1>10, <1>11, <1>12, <1>13, <1>14, <1>15
-----------------------------------------------------------------------------
(* The history the application starts with.                                *)
LEMMA InitHistory ==
  ASSUME UndefinedIsNoValue, Init
  PROVE  HistoryInvariant /\ ViewInvariant
<1> DEFINE l == liftInitialState
           m == [id \in {0} |-> INIT]
<1>1. m \in ActionMaps /\ DOMAIN m = {0} /\ m[0] = INIT
  BY InitFacts
<1>2. /\ <<0>> \in Seq(Nat) /\ <<>> \in Seq(Entries) /\ <<>> \in States
      /\ Len(<<0>>) = 1 /\ <<0>>[1] = 0
  BY DEF States
<1> HIDE DEF m
<1>3. /\ l.actionsById = m /\ l.nextActionId = 1 /\ l.stagedActionIds = <<0>>
      /\ l.skippedActionIds = {} /\ l.currentStateIndex = 0 /\ ~l.isPaused
      /\ l \in LiftedStates
  BY <1>1, <1>2 DEF liftInitialState, LiftedStates, m
<1>4. lifted = recomputeStates(l, 0)
  BY DEF Init
<1> HIDE DEF l
<1>5. Staged(l) /\ InRange(l)
  <2>1. \A i, j \in 1 .. 1 : ~(i < j)
    OBVIOUS
  <2>2. Len(l.stagedActionIds) = 1 /\ l.stagedActionIds[1] = 0
        /\ 0 \in DOMAIN l.actionsById /\ l.actionsById[0] = INIT
        /\ 0 \notin l.skippedActionIds
    BY <1>1, <1>2, <1>3
  <2>3. Staged(l)
    BY ONLY <1>3, <2>1, <2>2 DEF Staged
  <2>4. InRange(l)
    BY <1>3, <2>2 DEF InRange
  <2>5. QED
    BY <2>3, <2>4
<1>6. /\ broken \in BOOLEAN /\ performed \in Nat /\ alive
      /\ exported = Undefined /\ message = Undefined
  BY DevtoolsAssumption DEF Init
<1>7. Sound(lifted) /\ SameButComputed(l, lifted)
  BY <1>3, <1>4, <1>5, <1>6, RecomputeAll
<1>8. InRange(lifted)
  BY <1>5, <1>7, SameStaged
<1>9. QED
  BY <1>6, <1>7, <1>8 DEF HistoryInvariant, ViewInvariant, MessageOK, MessageInRange, Sound

(* A message under way stays in range of a history that loses nothing.     *)
LEMMA MessageKept ==
  ASSUME WellFormed(lifted), WellFormed(lifted'), Keeps(lifted, lifted'),
         MessageOK, MessageInRange, message' = message
  PROVE  MessageInRange'
<1>1. SUFFICES ASSUME message # Undefined PROVE MessageInRange'
  BY DEF MessageInRange
<1> DEFINE k == lifted'
<1>2. /\ message.type \in {"TOGGLE_ACTION", "SET_ACTIONS_ACTIVE"} =>
           \E i \in 1 .. Len(lifted.stagedActionIds) :
             lifted.stagedActionIds[i] = message.id
      /\ message.type = "JUMP_TO_STATE" => message.id < Len(lifted.stagedActionIds)
  BY <1>1 DEF MessageInRange
<1>3. /\ Len(lifted.stagedActionIds) \in Nat /\ Len(k.stagedActionIds) \in Nat
      /\ message.id \in Nat
  BY <1>1, StagedFacts DEF WellFormed, Complete, MessageOK, Messages
<1>4. /\ Len(lifted.stagedActionIds) <= Len(k.stagedActionIds)
      /\ \A i \in 1 .. Len(lifted.stagedActionIds) :
           /\ i \in 1 .. Len(k.stagedActionIds)
           /\ k.stagedActionIds[i] = lifted.stagedActionIds[i]
  BY <1>3 DEF Keeps
<1>5. message.type \in {"TOGGLE_ACTION", "SET_ACTIONS_ACTIVE"} =>
        \E i \in 1 .. Len(k.stagedActionIds) : k.stagedActionIds[i] = message.id
  BY <1>2, <1>4
<1>6. message.type = "JUMP_TO_STATE" => message.id < Len(k.stagedActionIds)
  BY <1>2, <1>3, <1>4
<1>7. QED
  BY <1>5, <1>6 DEF MessageInRange

(* An action is performed.                                                 *)
LEMMA PerformStep ==
  ASSUME UndefinedIsNoValue, Recorded, HistoryInvariant,
         NEW kind \in Kinds, PerformAction(kind)
  PROVE  /\ HistoryInvariant'
         /\ MaxAge = 0 /\ ViewInvariant => ViewInvariant'
<1> DEFINE n == performed + 1
           k == Perform(lifted, Action(kind, n))
<1>1. /\ broken \in BOOLEAN /\ n \in Nat /\ WellFormed(lifted)
      /\ Replays(broken, lifted) \/ (pending /\ HasError(lifted))
  BY DEF HistoryInvariant
<1>2. /\ alive' = (k # Undefined) /\ lifted' = IF k = Undefined THEN lifted ELSE k
      /\ performed' = n /\ broken' = broken /\ message' = message
      /\ exported' = exported /\ pending' = pending
  BY DEF PerformAction, Scan
<1> HIDE DEF n
<1>3. /\ WellFormed(k)
      /\ Replays(broken, lifted) => Replays(broken, k)
      /\ HasError(lifted) => HasError(k)
      /\ MaxAge = 0 => Keeps(lifted, k) /\ (InRange(lifted) => InRange(k))
  BY <1>1, PerformKeeps
<1> HIDE DEF k
<1>4. k # Undefined
  BY <1>3, Defined
<1>5. lifted' = k /\ alive'
  BY <1>2, <1>4
<1>6. HistoryInvariant'
  BY <1>1, <1>2, <1>3, <1>5 DEF HistoryInvariant, MessageOK
<1>7. ASSUME MaxAge = 0, ViewInvariant PROVE ViewInvariant'
  <2>1. Keeps(lifted, k) /\ InRange(k)
    BY <1>3, <1>7 DEF ViewInvariant
  <2>2. MessageInRange'
    BY <1>1, <1>2, <1>3, <1>5, <1>7, <2>1, MessageKept DEF HistoryInvariant, ViewInvariant
  <2>3. QED
    BY <1>2, <1>5, <1>7, <2>1, <2>2 DEF ViewInvariant
<1>8. QED
  BY <1>6, <1>7

(* The reducer is replaced: a mended one does not change what has no error.*)
LEMMA UpdateReducerStep ==
  ASSUME UndefinedIsNoValue, Recorded, HistoryInvariant, UpdateReducer
  PROVE  HistoryInvariant' /\ (ViewInvariant => ViewInvariant')
<1>1. /\ ~pending /\ pending' /\ broken' \in {broken, FALSE}
      /\ lifted' = lifted /\ alive' = alive /\ message' = message
      /\ exported' = exported /\ performed' = performed
  BY DEF UpdateReducer
<1>2. /\ broken \in BOOLEAN /\ performed \in Nat /\ WellFormed(lifted)
      /\ Replays(broken, lifted)
      /\ exported # Undefined =>
           WellFormed(exported) /\ (Replays(broken, exported) \/ HasError(exported))
      /\ MessageOK
  BY <1>1 DEF HistoryInvariant
<1>3. ASSUME NEW l, WellFormed(l), Replays(broken, l) \/ HasError(l)
      PROVE  Replays(broken', l) \/ HasError(l)
  <2>1. CASE broken' = broken
    BY <1>3, <2>1
  <2>2. CASE broken' = FALSE
    BY <1>2, <1>3, <2>2, NoErrorReplays
  <2>3. QED
    BY <1>1, <2>1, <2>2
<1>4. Replays(broken', lifted) \/ HasError(lifted)
  BY <1>2, <1>3
<1>5. exported # Undefined =>
        WellFormed(exported) /\ (Replays(broken', exported) \/ HasError(exported))
  BY <1>2, <1>3
<1>6. broken' \in BOOLEAN
  BY <1>1, <1>2
<1>7. HistoryInvariant'
  BY <1>1, <1>2, <1>4, <1>5, <1>6 DEF HistoryInvariant, MessageOK
<1>8. ViewInvariant => ViewInvariant'
  BY <1>1 DEF ViewInvariant, MessageInRange
<1>9. QED
  BY <1>7, <1>8

(* The update reaches the reducer.                                         *)
LEMMA PerformUpdateStep ==
  ASSUME UndefinedIsNoValue, Recorded, HistoryInvariant, PerformUpdate
  PROVE  /\ HistoryInvariant'
         /\ MaxAge = 0 /\ ViewInvariant => ViewInvariant'
<1> DEFINE k == filterLiftedState(Update(lifted))
<1>1. /\ broken \in BOOLEAN /\ performed \in Nat /\ WellFormed(lifted)
      /\ Replays(broken, lifted) \/ HasError(lifted)
  BY DEF HistoryInvariant
<1>2. /\ alive' = (k # Undefined) /\ lifted' = IF k = Undefined THEN lifted ELSE k
      /\ performed' = performed /\ broken' = broken /\ message' = message
      /\ exported' = exported /\ ~pending'
  BY DEF PerformUpdate, Scan, counters
<1>3. /\ Sound(k)
      /\ MaxAge = 0 => Keeps(lifted, k) /\ (InRange(lifted) => InRange(k))
  BY <1>1, UpdateKeeps
<1> HIDE DEF k
<1>4. k # Undefined /\ WellFormed(k) /\ Replays(broken, k)
  BY <1>3, Defined DEF Sound
<1>5. lifted' = k /\ alive'
  BY <1>2, <1>4
<1>6. HistoryInvariant'
  BY <1>1, <1>2, <1>4, <1>5 DEF HistoryInvariant, MessageOK
<1>7. ASSUME MaxAge = 0, ViewInvariant PROVE ViewInvariant'
  <2>1. Keeps(lifted, k) /\ InRange(k)
    BY <1>3, <1>7 DEF ViewInvariant
  <2>2. MessageInRange'
    BY <1>1, <1>2, <1>4, <1>5, <1>7, <2>1, MessageKept DEF HistoryInvariant, ViewInvariant
  <2>3. QED
    BY <1>2, <1>5, <1>7, <2>1, <2>2 DEF ViewInvariant
<1>8. QED
  BY <1>6, <1>7

(* The monitor sends a message.                                            *)
LEMMA AskStep ==
  ASSUME HistoryInvariant, NEW command \in Requests, Ask(command)
  PROVE  HistoryInvariant' /\ (ViewInvariant => ViewInvariant')
<1>1. /\ message' = command /\ command.type \in Commands
      /\ lifted' = lifted /\ alive' = alive /\ broken' = broken
      /\ exported' = exported /\ performed' = performed /\ pending' = pending
  BY DEF Ask
<1>2. Asked(command)
  BY AskFacts DEF HistoryInvariant, WellFormed
<1>3. command \in Messages
  <2>1. Command(command.type, command.id, command.end, command.status) \in Messages
    BY <1>1, <1>2 DEF Command, Messages, Asked
  <2>2. QED
    BY <1>2, <2>1 DEF Asked
<1>4. MessageOK'
  BY <1>1, <1>2, <1>3 DEF MessageOK, Asked
<1>5. HistoryInvariant'
  BY <1>1, <1>4 DEF HistoryInvariant
<1>6. MessageInRange'
  BY <1>1, <1>2 DEF MessageInRange, Asked
<1>7. QED
  BY <1>1, <1>5, <1>6 DEF ViewInvariant

(* The monitor keeps the history.                                          *)
LEMMA ExportStep ==
  ASSUME HistoryInvariant, Export
  PROVE  HistoryInvariant' /\ (ViewInvariant => ViewInvariant')
<1>1. /\ exported' = lifted /\ ~pending /\ message' = message
      /\ lifted' = lifted /\ alive' = alive /\ broken' = broken
      /\ performed' = performed /\ pending' = pending
  BY DEF Export, counters
<1>2. exported = Undefined
  BY DEF Export
<1>3. /\ broken \in BOOLEAN /\ performed \in Nat
      /\ WellFormed(lifted) /\ Replays(broken, lifted) /\ MessageOK
  BY <1>1 DEF HistoryInvariant
<1>4. MessageOK'
  BY <1>1, <1>2, <1>3 DEF MessageOK
<1>5. HistoryInvariant'
  BY <1>1, <1>3, <1>4 DEF HistoryInvariant
<1>6. ViewInvariant => ViewInvariant'
  BY <1>1 DEF ViewInvariant, MessageInRange
<1>7. QED
  BY <1>5, <1>6

(* A message arrives.                                                      *)
LEMMA MonitorStep ==
  ASSUME UndefinedIsNoValue, Recorded, HistoryInvariant, Monitor
  PROVE  HistoryInvariant' /\ (ViewInvariant => ViewInvariant')
<1> DEFINE k == Changed(lifted)
<1>1. Arrived(k)
  BY MonitorArrives DEF HistoryInvariant
<1>2. /\ k # Undefined => Sound(k)
      /\ ViewInvariant => k # Undefined /\ InRange(k)
  BY ChangedSound
<1> HIDE DEF k
<1>3. /\ ~pending /\ message' = Undefined /\ broken' = broken
      /\ exported' = exported /\ performed' = performed /\ pending' = pending
      /\ alive' = (k # Undefined) /\ lifted' = IF k = Undefined THEN lifted ELSE k
  BY <1>1 DEF Arrived, Scan
<1>4. Sound(lifted) /\ broken \in BOOLEAN /\ performed \in Nat
  BY <1>3 DEF HistoryInvariant, Sound
<1>5. WellFormed(lifted') /\ Replays(broken, lifted')
  BY <1>2, <1>3, <1>4 DEF Sound
<1>6. HistoryInvariant'
  BY <1>3, <1>4, <1>5 DEF HistoryInvariant, MessageOK
<1>7. ViewInvariant => ViewInvariant'
  <2>1. SUFFICES ASSUME ViewInvariant PROVE ViewInvariant'
    OBVIOUS
  <2>2. lifted' = k /\ alive' /\ InRange(k)
    BY <1>2, <1>3, <2>1
  <2>3. QED
    BY <1>3, <2>1, <2>2 DEF ViewInvariant, MessageInRange
<1>8. QED
  BY <1>6, <1>7

LEMMA NextKeeps ==
  ASSUME UndefinedIsNoValue, Recorded, HistoryInvariant, [Next]_vars
  PROVE  /\ HistoryInvariant'
         /\ MaxAge = 0 /\ ViewInvariant => ViewInvariant'
<1>1. CASE UNCHANGED vars
  BY <1>1 DEF vars, counters, HistoryInvariant, MessageOK, ViewInvariant, MessageInRange
<1>2. ASSUME NEW kind \in Kinds, PerformAction(kind)
      PROVE  HistoryInvariant' /\ (MaxAge = 0 /\ ViewInvariant => ViewInvariant')
  BY <1>2, PerformStep
<1>3. CASE UpdateReducer
  BY <1>3, UpdateReducerStep
<1>4. CASE PerformUpdate
  BY <1>4, PerformUpdateStep
<1>5. ASSUME NEW command \in Requests, Ask(command)
      PROVE  HistoryInvariant' /\ (ViewInvariant => ViewInvariant')
  BY <1>5, AskStep
<1>6. CASE Export
  BY <1>6, ExportStep
<1>7. CASE Monitor
  BY <1>7, MonitorStep
<1>8. QED
  BY <1>1, <1>2, <1>3, <1>4, <1>5, <1>6, <1>7 DEF Next

LEMMA Invariance ==
  ASSUME UndefinedIsNoValue, Recorded
  PROVE  Spec => []HistoryInvariant
<1>1. Init => HistoryInvariant
  BY InitHistory
<1>2. HistoryInvariant /\ [Next]_vars => HistoryInvariant'
  BY NextKeeps
<1>3. QED
  BY <1>1, <1>2, PTL DEF Spec

LEMMA ViewInvariance ==
  ASSUME UndefinedIsNoValue, Recorded, MaxAge = 0
  PROVE  Spec => [](HistoryInvariant /\ ViewInvariant)
<1>1. Init => HistoryInvariant /\ ViewInvariant
  BY InitHistory
<1>2. HistoryInvariant /\ ViewInvariant /\ [Next]_vars
        => (HistoryInvariant /\ ViewInvariant)'
  BY NextKeeps
<1>3. QED
  BY <1>1, <1>2, PTL DEF Spec
-----------------------------------------------------------------------------
(* Without a filter and without pausing, and while no update is queued,    *)
(* the history is what the staged actions that are not skipped make of the *)
(* committed state, whatever maxAge commits and whatever the monitor       *)
(* toggles, sweeps, commits, imports or travels to (reducer.ts,            *)
(* recomputeStates and its minInvalidatedStateIndex).                      *)
THEOREM ReplayTheorem ==
  ASSUME UndefinedIsNoValue, Recorded
  PROVE  Spec => []HistoryReplays
<1>1. HistoryInvariant => HistoryReplays
  <2>1. SUFFICES ASSUME HistoryInvariant, ~pending
                 PROVE  lifted.computedStates = Replayed(lifted)
    BY DEF HistoryReplays
  <2>2. broken \in BOOLEAN /\ Sound(lifted)
    BY <2>1 DEF HistoryInvariant, Sound
  <2>3. QED
    BY <2>2, ReplayedIs
<1>2. QED
  BY <1>1, Invariance, PTL

(* An exported history without an error shows what it showed when it is    *)
(* imported again (IMPORT_STATE in reducer.ts).                            *)
THEOREM ImportTheorem ==
  ASSUME UndefinedIsNoValue, Recorded
  PROVE  Spec => ImportRestores
<1> DEFINE A == ImportState /\ (\A entry \in ToSet(exported.computedStates) : ~entry.error)
                => unliftState(lifted') = unliftState(exported)
<1>1. HistoryInvariant /\ [Next]_vars => [A]_vars
  <2>1. SUFFICES ASSUME HistoryInvariant, ImportState,
                        \A entry \in ToSet(exported.computedStates) : ~entry.error
                 PROVE  unliftState(lifted') = unliftState(exported)
    OBVIOUS
  <2> DEFINE k == recomputeStates(exported, 0)
  <2>2. /\ message # Undefined /\ message.type = "IMPORT_STATE"
        /\ lifted' = IF k = Undefined THEN lifted ELSE k
    BY <2>1, Unfiltered DEF ImportState, Arrives, Scan
  <2>3. broken \in BOOLEAN /\ exported # Undefined /\ WellFormed(exported)
        /\ (Replays(broken, exported) \/ HasError(exported))
    BY <2>1, <2>2 DEF HistoryInvariant, MessageOK
  <2>4. ~HasError(exported)
    BY <2>1, <2>3, EntriesDefined DEF WellFormed
  <2> HIDE DEF k
  <2>5. /\ Sound(k) /\ k.currentStateIndex = exported.currentStateIndex
        /\ k.computedStates = exported.computedStates
    BY <2>3, <2>4, ImportSound DEF k
  <2>6. lifted' = k
    BY <2>2, <2>5, Defined
  <2>7. unliftState(k) = unliftState(exported)
    BY <2>5 DEF unliftState
  <2>8. QED
    BY <2>6, <2>7
<1>2. QED
  BY <1>1, Invariance, PTL DEF Spec, ImportRestores

(* Without maxAge as well, no message fails and the application always has *)
(* a state to read (lift and unliftState).                                 *)
THEOREM AppStateTheorem ==
  ASSUME UndefinedIsNoValue, Recorded, MaxAge = 0
  PROVE  Spec => []AppHasState
<1>1. HistoryInvariant /\ ViewInvariant => AppHasState
  BY InView DEF HistoryInvariant, ViewInvariant, AppHasState
<1>2. QED
  BY <1>1, ViewInvariance, PTL

(* And a commit keeps the state in view (commitChanges).                   *)
THEOREM CommitTheorem ==
  ASSUME UndefinedIsNoValue, Recorded, MaxAge = 0
  PROVE  Spec => CommitKeepsState
<1> DEFINE A == Commit => alive' /\ unliftState(lifted') = unliftState(lifted)
<1>1. HistoryInvariant /\ ViewInvariant /\ [Next]_vars => [A]_vars
  <2>1. SUFFICES ASSUME HistoryInvariant, ViewInvariant, Commit
                 PROVE  alive' /\ unliftState(lifted') = unliftState(lifted)
    OBVIOUS
  <2> DEFINE k == Recommit(commitChanges(lifted))
  <2>4. /\ ~pending /\ alive' = (k # Undefined)
        /\ lifted' = IF k = Undefined THEN lifted ELSE k
    BY <2>1, Unfiltered DEF Commit, Arrives, Scan
  <2>5. broken \in BOOLEAN /\ Sound(lifted) /\ InRange(lifted)
    BY <2>1, <2>4 DEF HistoryInvariant, ViewInvariant, Sound
  <2> HIDE DEF k
  <2>6. k # Undefined /\ unliftState(k) = unliftState(lifted)
    BY <2>5, CommitSound DEF k
  <2>7. QED
    BY <2>4, <2>6
<1>2. QED
  BY <1>1, ViewInvariance, PTL DEF Spec, CommitKeepsState

(* What making room for an action leaves, with x actions committed.        *)
Roomy(l, room, x) ==
  /\ x \in 0 .. 1 /\ Len(l.stagedActionIds) - x \in Nat \ {0}
  /\ Len(room.stagedActionIds) = Len(l.stagedActionIds) - x
  /\ \A i \in 2 .. Len(l.stagedActionIds) - x :
       room.stagedActionIds[i] = l.stagedActionIds[i + x]
  /\ \A i \in 1 .. Len(l.stagedActionIds) - x :
       room.computedStates[i] = l.computedStates[i + x]
  /\ room.nextActionId = l.nextActionId
  /\ room.currentStateIndex = Shifted(l.currentStateIndex, x)

LEMMA RoomFields ==
  ASSUME NEW l, Complete(l), InPast(l),
         NEW room, room = IF Full(l) THEN commitExcessActions(l, 1) ELSE l
  PROVE  \E x \in 0 .. 1 : Roomy(l, room, x)
<1> DEFINE N == Len(l.stagedActionIds)
<1>1. N \in Nat \ {0} /\ l.currentStateIndex \in Nat
  BY LiftedFields, LenProperties DEF Complete, Staged
<1>2. CASE Full(l)
  <2> DEFINE x == Excess(l, 1)
  <2>1. 1 \in 1 .. N - 1
    BY <1>2, DevtoolsAssumption DEF Full
  <2>2. Trimmed(l, room, 1, x)
    BY <1>2, <2>1, ExcessFields
  <2> HIDE DEF x
  <2>3. Roomy(l, room, x) /\ x \in 0 .. 1
    BY ONLY <2>2 DEF Trimmed, Roomy
  <2>4. QED
    BY <2>3
<1>3. CASE ~Full(l)
  <2>1. 0 \in 0 .. 1 /\ N - 0 = N /\ \A i \in 1 .. N : i + 0 = i
        /\ \A j \in 2 .. N : j + 0 = j
    BY <1>1
  <2>2. Shifted(l.currentStateIndex, 0) = l.currentStateIndex
    BY <1>1 DEF Shifted
  <2>3. Roomy(l, room, 0)
    BY <1>1, <1>3, <2>1, <2>2 DEF Roomy
  <2>4. QED
    BY <2>1, <2>3
<1>4. QED
  BY <1>2, <1>3

(* Where an action that is recorded is staged, and where the pointer is.   *)
LEMMA RecordFields ==
  ASSUME UndefinedIsNoValue, broken \in BOOLEAN, NEW l, WellFormed(l),
         NEW action \in Actions,
         NEW k, k = recomputeStates(Stage(l, action), Len(l.stagedActionIds))
  PROVE  /\ l.stagedActionIds \in Seq(Nat)
         /\ k.stagedActionIds = Append(l.stagedActionIds, l.nextActionId)
         /\ k.currentStateIndex =
              IF l.currentStateIndex = Len(l.stagedActionIds) - 1
              THEN l.currentStateIndex + 1 ELSE l.currentStateIndex
<1> DEFINE n == Len(l.stagedActionIds)
           h == Stage(l, action)
<1>1. /\ l \in LiftedStates /\ Staged(l) /\ ~l.isPaused
      /\ Len(l.computedStates) = n /\ l.stagedActionIds \in Seq(Nat)
  BY LiftedFields DEF WellFormed, Complete
<1>2. n \in Nat
  BY <1>1, LenProperties
<1>3. /\ h.stagedActionIds = Append(l.stagedActionIds, l.nextActionId)
      /\ h.currentStateIndex = IF l.currentStateIndex = n - 1
                               THEN l.currentStateIndex + 1
                               ELSE l.currentStateIndex
  BY <1>1, StageFields
<1>4. /\ h \in LiftedStates /\ Staged(h) /\ ~h.isPaused
      /\ h.computedStates = l.computedStates /\ Len(h.stagedActionIds) = n + 1
  BY <1>1, StageFacts
<1> HIDE DEF h, n
<1>5. n <= Len(h.computedStates) /\ n <= Len(h.stagedActionIds)
  BY <1>1, <1>2, <1>4
<1>6. k = recomputeStates(h, n)
  BY DEF h, n
<1>7. IsRecomputed(k, h, n)
  BY <1>2, <1>4, <1>5, <1>6, Recompute
<1>8. k.stagedActionIds = h.stagedActionIds
      /\ k.currentStateIndex = h.currentStateIndex
  BY <1>7 DEF IsRecomputed, SameButComputed
<1>9. QED
  BY <1>1, <1>3, <1>8 DEF n

(* An action that is recorded keeps the view (commitExcessActions and the  *)
(* pointer that follows the end of the history).                           *)
LEMMA RecordPast ==
  ASSUME UndefinedIsNoValue, broken \in BOOLEAN, NEW l, WellFormed(l), InPast(l),
         NEW action \in Actions,
         NEW room, room = IF Full(l) THEN commitExcessActions(l, 1) ELSE l,
         WellFormed(room),
         NEW k, k = recomputeStates(Stage(room, action), Len(room.stagedActionIds))
  PROVE  KeepsView(l, k)
<1> DEFINE N == Len(l.stagedActionIds)
           i == l.currentStateIndex
           j == room.currentStateIndex
           old == l.stagedActionIds
           mid == room.stagedActionIds
           new == k.stagedActionIds
<1>1. /\ l \in LiftedStates /\ Staged(l) /\ Complete(l) /\ N \in Nat \ {0}
      /\ i \in Nat /\ i < N - 1 /\ InRange(l)
  BY LiftedFields, LenProperties DEF WellFormed, Complete, Staged, InPast, InRange
<1>2. PICK x \in 0 .. 1 : Roomy(l, room, x)
  BY <1>1, RoomFields
<1>3. /\ x \in 0 .. 1 /\ Len(mid) = N - x /\ N - x \in Nat \ {0}
      /\ \A p \in 2 .. N - x : mid[p] = old[p + x]
      /\ \A p \in 1 .. N - x : room.computedStates[p] = l.computedStates[p + x]
      /\ room.nextActionId = l.nextActionId /\ j = Shifted(i, x)
  BY <1>2 DEF Roomy
<1>4. /\ WellFormed(k) /\ (InRange(room) => InRange(k))
      /\ \A p \in 1 .. N - x : k.computedStates[p] = room.computedStates[p]
  <2>1. /\ WellFormed(k) /\ (InRange(room) => InRange(k))
        /\ \A p \in 1 .. Len(mid) : k.computedStates[p] = room.computedStates[p]
    BY Record, SMTT(30)
  <2>2. QED
    BY ONLY <1>3, <2>1
<1>5. /\ new = Append(mid, l.nextActionId) /\ mid \in Seq(Nat)
      /\ k.currentStateIndex = IF j = (N - x) - 1 THEN j + 1 ELSE j
  <2>1. /\ room.stagedActionIds \in Seq(Nat)
        /\ k.stagedActionIds = Append(room.stagedActionIds, room.nextActionId)
        /\ k.currentStateIndex =
             IF room.currentStateIndex = Len(room.stagedActionIds) - 1
             THEN room.currentStateIndex + 1 ELSE room.currentStateIndex
    BY RecordFields, SMTT(30)
  <2>2. QED
    BY ONLY <1>3, <2>1
<1>6. /\ Len(new) = (N - x) + 1 /\ new[(N - x) + 1] = l.nextActionId
      /\ \A p \in 1 .. N - x : new[p] = mid[p]
  <2>1. /\ Len(new) = Len(mid) + 1 /\ new[Len(mid) + 1] = l.nextActionId
        /\ \A p \in 1 .. Len(mid) : new[p] = mid[p]
    <3> HIDE DEF new, mid, N, i, j
    <3>1. QED
      BY ONLY <1>5
  <2>2. QED
    BY ONLY <1>3, <2>1
<1>7. unliftState(l) = l.computedStates[i + 1].state
  BY <1>1, EntryInView
<1> HIDE DEF N, i, j, old, mid, new
<1>8. CASE i # 0 \/ x = 0
  <2>1. j = i - x /\ j \in Nat /\ j < (N - x) - 1
    BY <1>1, <1>3, <1>8 DEF Shifted
  <2>2. k.currentStateIndex = j /\ j + 1 \in 1 .. N - x /\ (j + 1) + x = i + 1
    <3>1. j # (N - x) - 1 /\ x \in Nat
      BY <1>1, <1>3, <2>1
    <3>2. k.currentStateIndex = j
      BY ONLY <1>5, <3>1
    <3>3. N \in Nat /\ i \in Nat /\ N - x \in Nat
      BY <1>1, <1>3
    <3>4. j + 1 \in 1 .. N - x /\ (j + 1) + x = i + 1
      BY ONLY <2>1, <3>1, <3>3
    <3>5. QED
      BY <3>2, <3>4
  <2>3. InRange(k)
    BY <1>3, <1>4, <2>1 DEF InRange, j, mid
  <2>4. unliftState(k) = k.computedStates[j + 1].state
    BY <1>4, <2>2, <2>3, InView
  <2>5. k.computedStates[j + 1] = l.computedStates[i + 1]
    BY <1>3, <1>4, <2>2
  <2>6. ~(i = 0 /\ new[2] # old[2])
    <3>1. SUFFICES ASSUME i = 0 PROVE new[2] = old[2]
      OBVIOUS
    <3>2. x = 0 /\ 2 \in 1 .. N - x /\ 2 \in 2 .. N - x /\ 2 + x = 2
      BY <1>1, <1>3, <1>8, <3>1
    <3>3. QED
      BY <1>3, <1>6, <3>2
  <2>7. QED
    BY <1>7, <2>4, <2>5, <2>6 DEF KeepsView, i, new, old
<1>9. CASE i = 0 /\ x = 1
  <2>1. j = 0 /\ N >= 2
    BY <1>1, <1>3, <1>9 DEF Shifted
  <2>2. \A p, q \in 1 .. N : p < q => old[p] < old[q]
    BY <1>1 DEF Staged, old, N
  <2>3. \A p \in 1 .. N : old[p] < l.nextActionId /\ old[p] \in Nat
    BY <1>1, StagedFacts DEF Staged, old, N
  <2>4. l.nextActionId \in Nat
    BY <1>1, LiftedFields
  <2>5. CASE N = 2
    <3>1. new[2] = l.nextActionId /\ Len(new) = 2
      BY <1>6, <1>9, <2>5
    <3>2. 2 \in 1 .. N
      BY <2>5
    <3>3. new[2] # old[2]
      BY <2>3, <2>4, <3>1, <3>2
    <3>4. k.currentStateIndex = 1
      BY <1>5, <1>9, <2>1, <2>5
    <3>5. ~InPast(k)
      <4>1. Len(k.stagedActionIds) = 2
        BY <3>1 DEF new
      <4>2. QED
        BY ONLY <3>4, <4>1 DEF InPast
    <3>6. QED
      BY <1>9, <3>3, <3>5 DEF KeepsView, i, new, old
  <2>6. CASE N > 2
    <3>1. /\ 2 \in 1 .. N - x /\ 2 \in 2 .. N - x /\ 2 + x = 3
          /\ 2 \in 1 .. N /\ 3 \in 1 .. N /\ 2 < 3
          /\ 1 \in 1 .. N - x /\ 1 + x = 2 /\ 0 # (N - x) - 1 /\ 0 < N - x
      BY <1>1, <1>9, <2>6
    <3>2. new[2] = old[3]
      BY <1>3, <1>6, <3>1
    <3>3. old[2] < old[3] /\ old[2] \in Nat /\ old[3] \in Nat
      BY <2>2, <2>3, <3>1
    <3>4. new[2] # old[2]
      BY <3>2, <3>3
    <3>5. k.currentStateIndex = 0
      BY <1>5, <2>1, <3>1
    <3>6. InRange(k)
      BY <1>3, <1>4, <2>1, <3>1 DEF InRange, j, mid
    <3>7. unliftState(k) = k.computedStates[k.currentStateIndex + 1].state
      BY <1>4, <3>6, InView
    <3>8. k.currentStateIndex + 1 = 1
      BY <3>5
    <3>9. k.computedStates[1] = l.computedStates[2]
      BY <1>3, <1>4, <3>1
    <3>10. unliftState(k) = l.computedStates[2].state
      BY ONLY <3>7, <3>8, <3>9
    <3>11. QED
      BY <1>9, <3>4, <3>10 DEF KeepsView, i, new, old
  <2>7. QED
    BY <1>1, <2>1, <2>5, <2>6
<1>10. QED
  BY <1>3, <1>8, <1>9

LEMMA PerformPast ==
  ASSUME UndefinedIsNoValue, Recorded, broken \in BOOLEAN, NEW l, WellFormed(l),
         InPast(l),
         NEW kind \in Kinds, NEW m \in Nat,
         NEW k, k = Perform(l, Action(kind, m))
  PROVE  KeepsView(l, k)
<1> DEFINE action == Action(kind, m)
<1>1. action \in Actions /\ action.kind = kind
  BY DEF Action, Actions
<1>2. ~l.isPaused /\ ~isActionFiltered(action)
  BY <1>1 DEF WellFormed, Complete, Recorded, Filters, isActionFiltered
<1> HIDE DEF action
<1>3. CASE l.isLocked
  BY <1>3 DEF Perform, KeepsView
<1>4. CASE ~l.isLocked
  <2> DEFINE room == IF Full(l) THEN commitExcessActions(l, 1) ELSE l
  <2>1. k = recomputeStates(Stage(room, action), Len(room.stagedActionIds))
    BY <1>2, <1>4 DEF Perform, action
  <2>2. WellFormed(room)
    <3>1. CASE Full(l)
      <4>1. 1 \in 1 .. Len(l.stagedActionIds) - 1
        BY <3>1, DevtoolsAssumption DEF Full
      <4>2. QED
        BY <3>1, <4>1, CommitExcess DEF WellFormed
    <3>2. QED
      BY <3>1
  <2>3. room = IF Full(l) THEN commitExcessActions(l, 1) ELSE l
    OBVIOUS
  <2> HIDE DEF room
  <2>4. QED
    BY <1>1, <2>1, <2>2, <2>3, RecordPast
<1>5. QED
  BY <1>3, <1>4

(* So it keeps the view of the current history.                            *)
LEMMA RecordedPast ==
  ASSUME UndefinedIsNoValue, Recorded, HistoryInvariant, Next,
         performed' # performed, InPast(lifted)
  PROVE  KeepsView(lifted, lifted')
<1>1. PICK kind \in Kinds : PerformAction(kind)
  <2>1. ~UpdateReducer /\ ~PerformUpdate /\ ~Export
        /\ ~\E command \in Requests : Ask(command)
    BY DEF UpdateReducer, PerformUpdate, Export, Ask, counters
  <2>2. ~Monitor
    BY MonitorArrives DEF HistoryInvariant, Arrived
  <2>3. QED
    BY <2>1, <2>2 DEF Next
<1> DEFINE n == performed + 1
           k == Perform(lifted, Action(kind, n))
<1>2. /\ broken \in BOOLEAN /\ n \in Nat /\ WellFormed(lifted)
  BY DEF HistoryInvariant
<1>3. lifted' = IF k = Undefined THEN lifted ELSE k
  BY <1>1 DEF PerformAction, Scan
<1> HIDE DEF n
<1>4. KeepsView(lifted, k)
  BY <1>2, PerformPast
<1>5. k # Undefined
  <2>1. WellFormed(k)
    BY <1>2, PerformKeeps
  <2>2. QED
    BY <2>1 DEF WellFormed, Complete, UndefinedIsNoValue
<1> HIDE DEF k
<1>6. QED
  BY <1>3, <1>4, <1>5
-----------------------------------------------------------------------------
(* While the monitor only locks, pauses and travels, no action is skipped; *)
(* "bad" actions are none of this setting and safelists are excluded, as   *)
(* they filter the devtools' own actions.                                  *)
Recording ==
  /\ ~Safelist /\ "bad" \notin Kinds
  /\ Commands \subseteq {"LOCK_CHANGES", "PAUSE_RECORDING", "JUMP_TO_STATE",
                         "JUMP_TO_ACTION"}

(* A history without errors that ends with the state seen.                 *)
Shown(l, seen) ==
  /\ Complete(l) /\ l.skippedActionIds = {} /\ ~HasError(l)
  /\ \A i \in 2 .. Len(l.stagedActionIds) :
       l.actionsById[l.stagedActionIds[i]].kind # "blocked"
  /\ l.computedStates[Len(l.stagedActionIds)].state = seen

(* The action that stands for the pause comes on top of maxAge.            *)
Within(l) ==
  MaxAge # 0 => Len(l.stagedActionIds) <= MaxAge + (IF l.isPaused THEN 1 ELSE 0)

PauseOK ==
  message # Undefined =>
    /\ message \in Messages
    /\ message.type = "PAUSE_RECORDING" => message.status = ~lifted.isPaused

RecordingInvariant ==
  /\ broken \in BOOLEAN /\ performed \in Nat
  /\ Shown(lifted, accepted) /\ Within(lifted) /\ PauseOK

LEMMA ShownFacts ==
  ASSUME NEW l, NEW seen, Shown(l, seen),
         NEW n, n = Len(l.stagedActionIds)
  PROVE  /\ l \in LiftedStates /\ Staged(l) /\ Complete(l) /\ n \in Nat \ {0}
         /\ l.stagedActionIds \in Seq(Nat)
         /\ l.computedStates \in Seq(Entries) /\ Len(l.computedStates) = n
         /\ l.currentStateIndex \in Nat /\ l.skippedActionIds = {}
         /\ \A i \in 1 .. n : l.computedStates[i] \in Entries
                              /\ ~l.computedStates[i].error
         /\ l.computedStates[n].state = seen /\ seen \in States
<1>1. l \in LiftedStates /\ Staged(l) /\ Complete(l) /\ Len(l.computedStates) = n
  BY DEF Shown, Complete
<1>2. n \in Nat \ {0} /\ l.computedStates \in Seq(Entries)
      /\ l.currentStateIndex \in Nat /\ l.stagedActionIds \in Seq(Nat)
  BY <1>1, StagedFacts, LiftedFields
<1>3. \A i \in 1 .. n : l.computedStates[i] \in Entries /\ ~l.computedStates[i].error
  BY <1>1, <1>2, ElementOfSeq DEF Shown, HasError
<1>4. n \in 1 .. n
  BY <1>2
<1>5. l.computedStates[n].state \in States
  BY <1>3, <1>4, EntryFacts
<1>6. QED
  BY <1>1, <1>2, <1>3, <1>5 DEF Shown
-----------------------------------------------------------------------------
(* One more position behind those that stay.                               *)
Keep(l, kept, i) == IF Stays(l, i) THEN Append(kept, i) ELSE kept

KeepSteps(l) ==
  [i \in 1 .. Len(l.stagedActionIds) |-> [kept \in Seq(Nat) |-> Keep(l, kept, i)]]

LEMMA KeepStepsFacts ==
  ASSUME NEW l, Len(l.stagedActionIds) \in Nat
  PROVE  /\ KeepSteps(l) \in [1 .. Len(l.stagedActionIds) -> [Seq(Nat) -> Seq(Nat)]]
         /\ \A i \in 1 .. Len(l.stagedActionIds) : \A kept \in Seq(Nat) :
              KeepSteps(l)[i][kept] = Keep(l, kept, i)
<1>1. ASSUME NEW i \in Nat, NEW kept \in Seq(Nat) PROVE Keep(l, kept, i) \in Seq(Nat)
  BY AppendProperties DEF Keep
<1>2. QED
  BY <1>1 DEF KeepSteps

IsKeepRun(r, l, n) ==
  /\ r[0] = <<>>
  /\ \A k \in 1 .. n : r[k] = Keep(l, r[k - 1], k)

(* Filtering takes the positions one after another.                        *)
LEMMA KeepRun ==
  ASSUME NEW l \in LiftedStates, NEW n, n = Len(l.stagedActionIds)
  PROVE  \E r : IsKeepRun(r, l, n) /\ Staying(l) = r[n]
<1> DEFINE pos == [i \in DOMAIN l.stagedActionIds |-> i]
           step(kept, i) == Keep(l, kept, i)
           iter == CHOOSE f : f = [d \in SUBSET (1 .. n) |->
                     IF d = {} THEN <<>>
                     ELSE Keep(l, f[d \ {Max(d)}], pos[Max(d)])]
<1>1. n \in Nat /\ DOMAIN l.stagedActionIds = 1 .. n
  BY LiftedFields, LenProperties
<1>0. DOMAIN pos = 1 .. n /\ \A i \in 1 .. n : pos[i] = i
  BY <1>1
<1>2. Staying(l) = iter[1 .. n]
  BY <1>0 DEF Staying, FoldLeft, MapThenFoldSet, Keep
<1>3. /\ KeepSteps(l) \in [1 .. n -> [Seq(Nat) -> Seq(Nat)]]
      /\ \A i \in 1 .. n : \A v \in Seq(Nat) : KeepSteps(l)[i][v] = Keep(l, v, i)
  BY <1>1, KeepStepsFacts
<1> HIDE DEF iter, pos
<1>4. \E f : f = [d \in SUBSET (1 .. n) |->
                 IF d = {} THEN <<>>
                 ELSE Keep(l, f[d \ {Max(d)}], pos[Max(d)])]
  <2>0. <<>> \in Seq(Nat)
    OBVIOUS
  <2>1. PICK f : IsRecursion(f, n, Seq(Nat), <<>>, KeepSteps(l))
    BY <1>1, <1>3, <2>0, Recursion
  <2>2. /\ f \in [SUBSET (1 .. n) -> Seq(Nat)]
        /\ f[{}] = <<>>
        /\ \A d \in SUBSET (1 .. n) :
             d # {} => f[d] = KeepSteps(l)[Max(d)][f[d \ {Max(d)}]]
    BY <2>1 DEF IsRecursion
  <2>3. ASSUME NEW d \in SUBSET (1 .. n), d # {}
        PROVE  f[d] = Keep(l, f[d \ {Max(d)}], pos[Max(d)])
    <3>1. Max(d) \in 1 .. n /\ f[d \ {Max(d)}] \in Seq(Nat)
      BY <1>1, <2>2, <2>3, MaxFacts
    <3>2. pos[Max(d)] = Max(d)
      BY <1>0, <3>1
    <3>3. QED
      BY <1>3, <2>2, <2>3, <3>1, <3>2
  <2>4. f = [d \in SUBSET (1 .. n) |->
               IF d = {} THEN <<>>
               ELSE Keep(l, f[d \ {Max(d)}], pos[Max(d)])]
    BY <2>2, <2>3
  <2>5. QED
    BY <2>4
<1>5. /\ iter[{}] = <<>>
      /\ \A d \in SUBSET (1 .. n) :
           d # {} => iter[d] = Keep(l, iter[d \ {Max(d)}], pos[Max(d)])
  BY <1>4 DEF iter
<1> DEFINE r == [k \in 0 .. n |-> iter[1 .. k]]
<1>6. r[0] = <<>> /\ r[n] = iter[1 .. n]
  BY <1>1, <1>5, Intervals
<1>7. ASSUME NEW k \in 1 .. n PROVE r[k] = Keep(l, r[k - 1], k)
  <2>1. /\ r[k] = iter[1 .. k] /\ r[k - 1] = iter[1 .. k - 1]
        /\ 1 .. k \in SUBSET (1 .. n) /\ 1 .. k # {}
        /\ Max(1 .. k) = k /\ (1 .. k) \ {k} = 1 .. k - 1
    BY <1>1, Intervals
  <2> HIDE DEF r
  <2>2. pos[k] = k
    BY <1>0
  <2>3. QED
    BY <1>5, <2>1, <2>2
<1> HIDE DEF r
<1>8. IsKeepRun(r, l, n)
  BY <1>6, <1>7 DEF IsKeepRun
<1>9. QED
  BY <1>2, <1>6, <1>8

(* When every action passes all positions stay.                            *)
LEMMA AllStay ==
  ASSUME NEW l \in LiftedStates, NEW n, n = Len(l.stagedActionIds),
         \A i \in 1 .. n : Stays(l, i)
  PROVE  Staying(l) = [i \in 1 .. n |-> i]
<1>1. n \in Nat
  BY LiftedFields, LenProperties
<1>2. PICK r : IsKeepRun(r, l, n) /\ Staying(l) = r[n]
  BY KeepRun
<1> DEFINE first(k) == [i \in 1 .. k |-> i]
           Whole == {k \in Nat : k \in 0 .. n => r[k] = first(k)}
<1>3. 0 \in Whole
  <2>1. first(0) = <<>>
    OBVIOUS
  <2>2. QED
    BY <1>2, <2>1 DEF IsKeepRun
<1>4. ASSUME NEW k \in Nat, k \in Whole PROVE k + 1 \in Whole
  <2>1. SUFFICES ASSUME k + 1 \in 0 .. n PROVE r[k + 1] = first(k + 1)
    OBVIOUS
  <2>2. k \in 0 .. n /\ k + 1 \in 1 .. n /\ (k + 1) - 1 = k
    BY <1>1, <2>1
  <2>3. r[k] = first(k)
    BY <1>4, <2>2
  <2> HIDE DEF Whole, first
  <2>4. r[k + 1] = Append(first(k), k + 1)
    BY <1>2, <2>2, <2>3 DEF IsKeepRun, Keep
  <2>5. Append(first(k), k + 1) = first(k + 1)
    BY DEF first
  <2>6. QED
    BY <2>4, <2>5
<1>5. n \in Whole
  <2> HIDE DEF Whole
  <2>1. QED
    BY <1>1, <1>3, <1>4, Induction
<1>6. r[n] = first(n)
  BY <1>1, <1>5
<1>7. QED
  BY <1>2, <1>6

(* Picking all elements of a sequence.                                     *)
LEMMA PickAll ==
  ASSUME NEW S, NEW s \in Seq(S), NEW kept, kept = [i \in 1 .. Len(s) |-> i],
         NEW t, t = [j \in DOMAIN kept |-> s[kept[j]]]
  PROVE  t = s
<1>1. DOMAIN kept = 1 .. Len(s) /\ \A j \in 1 .. Len(s) : kept[j] = j
  OBVIOUS
<1>2. s = [j \in 1 .. Len(s) |-> s[j]]
  OBVIOUS
<1>3. t = [j \in 1 .. Len(s) |-> s[j]]
  BY <1>1
<1>4. QED
  BY <1>2, <1>3

(* The history is the same but for actions that are no longer needed.      *)
SameRecord(l, k) ==
  /\ k \in LiftedStates
  /\ k.stagedActionIds = l.stagedActionIds /\ k.nextActionId = l.nextActionId
  /\ \A i \in 1 .. Len(l.stagedActionIds) :
       /\ l.stagedActionIds[i] \in DOMAIN k.actionsById
       /\ k.actionsById[l.stagedActionIds[i]] = l.actionsById[l.stagedActionIds[i]]
  /\ k.skippedActionIds = l.skippedActionIds
  /\ k.computedStates = l.computedStates
  /\ k.currentStateIndex = l.currentStateIndex
  /\ k.isPaused = l.isPaused

LEMMA SameRecordFacts ==
  ASSUME NEW l, NEW seen, Shown(l, seen), NEW k, SameRecord(l, k)
  PROVE  /\ Shown(k, seen) /\ k.isPaused = l.isPaused
         /\ Len(k.stagedActionIds) = Len(l.stagedActionIds)
         /\ Within(l) => Within(k)
<1> DEFINE n == Len(l.stagedActionIds)
<1>1. /\ l \in LiftedStates /\ Staged(l) /\ n \in Nat \ {0}
      /\ Len(l.computedStates) = n /\ ~l.computedStates[1].error
  BY ShownFacts DEF Shown, Complete
<1>2. /\ k \in LiftedStates
      /\ k.stagedActionIds = l.stagedActionIds /\ k.nextActionId = l.nextActionId
      /\ \A i \in 1 .. n :
           /\ l.stagedActionIds[i] \in DOMAIN k.actionsById
           /\ k.actionsById[l.stagedActionIds[i]] = l.actionsById[l.stagedActionIds[i]]
      /\ k.skippedActionIds = l.skippedActionIds
      /\ k.computedStates = l.computedStates /\ k.isPaused = l.isPaused
  BY DEF SameRecord
<1>3. Staged(k)
  <2>1. 1 \in 1 .. n /\ l.stagedActionIds[1] = 0
    BY <1>1 DEF Staged
  <2>2. k.actionsById[0] = l.actionsById[0]
    BY <1>2, <2>1
  <2>3. QED
    BY <1>1, <1>2, <2>2 DEF Staged
<1>4. Complete(k) /\ ~HasError(k)
  BY <1>1, <1>2, <1>3 DEF Complete, Shown, HasError
<1>5. \A i \in 2 .. n : k.actionsById[k.stagedActionIds[i]].kind # "blocked"
  <2>1. \A i \in 2 .. n : i \in 1 .. n
    BY <1>1
  <2>2. QED
    BY <1>2, <2>1 DEF Shown
<1>6. QED
  BY <1>2, <1>4, <1>5 DEF Shown, Within

(* Nothing that is recorded is dropped by the filter.                      *)
LEMMA FilterKeeps ==
  ASSUME UndefinedIsNoValue, Recording, NEW l, NEW seen, Shown(l, seen),
         NEW k, k = filterLiftedState(l)
  PROVE  SameRecord(l, k)
<1> DEFINE n == Len(l.stagedActionIds)
           ids == l.stagedActionIds
           picked == [j \in DOMAIN Staying(l) |-> ids[Staying(l)[j]]]
           entries == [j \in DOMAIN Staying(l) |-> l.computedStates[Staying(l)[j]]]
           m == Restrict(l.actionsById, ToSet(picked))
<1>1. /\ l \in LiftedStates /\ n \in Nat \ {0} /\ ids \in Seq(Nat)
      /\ l.computedStates \in Seq(Entries) /\ Len(l.computedStates) = n
      /\ l.actionsById \in ActionMaps
      /\ \A i \in 1 .. n : ids[i] \in DOMAIN l.actionsById
  BY ShownFacts, LiftedFields DEF Staged
<1>2. CASE ~Filters
  <2>1. k = l
    BY <1>2 DEF filterLiftedState
  <2>2. QED
    BY <1>1, <2>1 DEF SameRecord
<1>3. CASE Filters
  <2>1. \A i \in 1 .. n : Stays(l, i)
    <3>1. ASSUME NEW i \in 1 .. n, i # 1
          PROVE  ~isActionFiltered(l.actionsById[ids[i]])
      <4>1. i \in 2 .. n
        BY <1>1, <3>1
      <4>2. QED
        BY <4>1 DEF Shown, isActionFiltered, Recording
    <3>2. QED
      BY <3>1 DEF Stays
  <2>2. Staying(l) = [i \in 1 .. n |-> i]
    BY <1>1, <2>1, AllStay
  <2>3. picked = ids /\ entries = l.computedStates
    <3> DEFINE kept == Staying(l)
    <3>1. /\ picked = [j \in DOMAIN kept |-> ids[kept[j]]]
          /\ entries = [j \in DOMAIN kept |-> l.computedStates[kept[j]]]
      OBVIOUS
    <3> DEFINE c == l.computedStates
    <3>2. kept = [i \in 1 .. Len(ids) |-> i] /\ kept = [i \in 1 .. Len(c) |-> i]
      BY <1>1, <2>2
    <3>3. ids \in Seq(Nat) /\ c \in Seq(Entries)
      BY <1>1
    <3> HIDE DEF kept, picked, entries, ids, c
    <3>4. picked = [j \in DOMAIN kept |-> ids[kept[j]]]
      BY <3>1
    <3>5. entries = [j \in DOMAIN kept |-> c[kept[j]]]
      BY <3>1 DEF c
    <3>6. picked = ids
      BY ONLY <3>2, <3>3, <3>4, PickAll
    <3>7. entries = c
      BY ONLY <3>2, <3>3, <3>5, PickAll
    <3>8. QED
      BY <3>6, <3>7 DEF c
  <2>4. k = [l EXCEPT !.stagedActionIds = picked, !.computedStates = entries,
                      !.actionsById = m]
    <3>1. l # Undefined
      BY <1>1 DEF UndefinedIsNoValue
    <3>2. QED
      BY <1>3, <3>1 DEF filterLiftedState
  <2>5. m \in ActionMaps /\ \A i \in 1 .. n :
          ids[i] \in DOMAIN m /\ m[ids[i]] = l.actionsById[ids[i]]
    <3>1. DOMAIN ids = 1 .. n
      BY <1>1, LenProperties
    <3>2. \A i \in 1 .. n : ids[i] \in ToSet(picked)
      <4>1. \A i \in 1 .. n : ids[i] \in ToSet(ids)
        BY <3>1 DEF ToSet
      <4>2. QED
        BY <2>3, <4>1
    <3>3. ToSet(picked) \in SUBSET DOMAIN l.actionsById
      <4>1. ToSet(ids) \in SUBSET DOMAIN l.actionsById
        BY <1>1, <3>1 DEF ToSet
      <4>2. QED
        BY <2>3, <4>1
    <3>4. DOMAIN l.actionsById \in SUBSET Nat
          /\ \A id \in DOMAIN l.actionsById : l.actionsById[id] \in Actions
      BY <1>1, MapFacts
    <3> DEFINE t == ToSet(picked)
    <3> HIDE DEF t, picked, ids, n
    <3>5. m = [id \in t |-> l.actionsById[id]]
      BY <3>3 DEF Restrict, t
    <3>6. t \in SUBSET DOMAIN l.actionsById /\ \A i \in 1 .. n : ids[i] \in t
      BY <3>2, <3>3 DEF t
    <3> HIDE DEF m
    <3>7. m \in [t -> Actions] /\ t \in SUBSET Nat
      BY <3>4, <3>5, <3>6
    <3>8. m \in ActionMaps
      BY <3>7, IsMap
    <3>9. QED
      BY <3>5, <3>6, <3>8
  <2> HIDE DEF m
  <2>6. k = [l EXCEPT !.stagedActionIds = ids, !.computedStates = l.computedStates,
                      !.actionsById = m]
    BY <2>3, <2>4
  <2>7. /\ k \in LiftedStates /\ k.actionsById = m
        /\ k.stagedActionIds = l.stagedActionIds /\ k.nextActionId = l.nextActionId
        /\ k.skippedActionIds = l.skippedActionIds
        /\ k.computedStates = l.computedStates
        /\ k.currentStateIndex = l.currentStateIndex /\ k.isPaused = l.isPaused
    <3> HIDE DEF picked, entries
    <3>1. QED
      BY <1>1, <2>5, <2>6 DEF LiftedStates
  <2>8. QED
    BY <2>5, <2>7 DEF SameRecord
<1>4. QED
  BY <1>2, <1>3

(* Moving the pointer changes nothing else, and locking nothing at all.    *)
LEMMA MovedShown ==
  ASSUME NEW l, NEW seen, Shown(l, seen), NEW i \in Nat,
         NEW k, k = [l EXCEPT !.currentStateIndex = i]
  PROVE  /\ Shown(k, seen) /\ k.isPaused = l.isPaused
         /\ Within(l) => Within(k)
<1>1. l \in LiftedStates /\ Complete(l)
  BY ShownFacts
<1>2. SameHistory(l, k)
  BY <1>1, Moved
<1>3. Complete(k)
  BY <1>1, <1>2 DEF Complete, SameHistory, Staged
<1>4. QED
  BY <1>2, <1>3 DEF Shown, Within, HasError, SameHistory

LEMMA LockShown ==
  ASSUME NEW l, NEW seen, Shown(l, seen), NEW b \in BOOLEAN,
         NEW k, k = [l EXCEPT !.isLocked = b]
  PROVE  /\ Shown(k, seen) /\ k.isPaused = l.isPaused
         /\ Within(l) => Within(k)
<1>1. l \in LiftedStates /\ Complete(l)
  BY ShownFacts
<1>2. SameHistory(l, k)
  BY <1>1, LockSet
<1>3. Complete(k)
  BY <1>1, <1>2 DEF Complete, SameHistory, Staged
<1>4. QED
  BY <1>2, <1>3 DEF Shown, Within, HasError, SameHistory
-----------------------------------------------------------------------------
(* No action throws.                                                       *)
LEMMA NoThrow ==
  ASSUME Recording, NEW entry \in Entries, ~entry.error, NEW action \in Actions
  PROVE  /\ computeNextEntry(entry, action) =
              Entry(Reducer(entry.state, action), FALSE)
         /\ Reducer(entry.state, action) \in States
         /\ computeNextEntry(entry, action) \in Entries
         /\ computeNextEntry(entry, action).state = Reducer(entry.state, action)
         /\ ~computeNextEntry(entry, action).error
<1>1. action.kind # "bad" /\ action.n \in Nat
  BY DEF Recording, Actions
<1>2. entry.state \in States
  BY EntryFacts
<1>3. Reducer(entry.state, action) \in States
  BY <1>1, <1>2, AppendProperties DEF Reducer, States
<1>4. computeNextEntry(entry, action) = Entry(Reducer(entry.state, action), FALSE)
  BY <1>1 DEF computeNextEntry, Throws
<1>5. QED
  BY <1>3, <1>4, EntryFacts

(* A recorded action adds to what is shown.                                *)
LEMMA RecordShown ==
  ASSUME UndefinedIsNoValue, Recording, broken \in BOOLEAN,
         NEW l, NEW seen, Shown(l, seen), ~l.isPaused,
         NEW action \in Actions, action.kind # "blocked",
         NEW r, r = recomputeStates(Stage(l, action), Len(l.stagedActionIds))
  PROVE  /\ Shown(r, Reducer(seen, action)) /\ ~r.isPaused
         /\ Len(r.stagedActionIds) = Len(l.stagedActionIds) + 1
<1> DEFINE n == Len(l.stagedActionIds)
           k == Stage(l, action)
<1>1. /\ l \in LiftedStates /\ Staged(l) /\ Complete(l) /\ n \in Nat \ {0}
      /\ Len(l.computedStates) = n /\ l.skippedActionIds = {}
      /\ l.stagedActionIds \in Seq(Nat) /\ l.nextActionId \in Nat
      /\ \A i \in 1 .. n : l.computedStates[i] \in Entries
                           /\ ~l.computedStates[i].error
      /\ l.computedStates[n].state = seen
  BY ShownFacts, LiftedFields
<1>2. WellFormed(r)
  BY <1>1, Record DEF WellFormed
<1>3. /\ k \in LiftedStates /\ Staged(k) /\ Len(k.stagedActionIds) = n + 1
      /\ Agree(l, k, n) /\ k.computedStates = l.computedStates /\ ~k.isPaused
  BY <1>1, StageFacts
<1>4. /\ k.stagedActionIds = Append(l.stagedActionIds, l.nextActionId)
      /\ k.skippedActionIds = {}
      /\ k.actionsById = [id \in DOMAIN l.actionsById \cup {l.nextActionId} |->
             IF id = l.nextActionId THEN action ELSE l.actionsById[id]]
  BY <1>1, StageFields
<1> HIDE DEF k, n
<1>5. k.stagedActionIds[n + 1] = l.nextActionId /\ k.actionsById[l.nextActionId] = action
  BY <1>1, <1>4, AppendProperties DEF n
<1>6. IsRecomputed(r, k, n)
  <2>1. n \in Nat /\ n <= Len(k.computedStates) /\ n <= Len(k.stagedActionIds)
    BY <1>1, <1>3
  <2>2. r = recomputeStates(k, n)
    BY DEF k, n
  <2>3. QED
    BY <1>3, <2>1, <2>2, Recompute
<1>7. /\ r.stagedActionIds = k.stagedActionIds /\ r.actionsById = k.actionsById
      /\ r.skippedActionIds = {} /\ ~r.isPaused
      /\ Len(r.computedStates) = n + 1
      /\ \A i \in 1 .. n : r.computedStates[i] = l.computedStates[i]
      /\ \A i \in 1 .. n + 1 : i > n => EntryReplays(broken, r, i)
  BY <1>3, <1>4, <1>6 DEF IsRecomputed, SameButComputed
<1>8. /\ r.computedStates[n + 1].state = Reducer(seen, action)
      /\ ~r.computedStates[n + 1].error
  <2> DEFINE last == r.computedStates[n]
  <2>1. n \in 1 .. n /\ n + 1 \in 1 .. n + 1 /\ n + 1 > n /\ n + 1 # 1 /\ (n + 1) - 1 = n
    BY <1>1
  <2>2. EntryReplays(broken, r, n + 1)
    BY <1>7, <2>1
  <2>3. last \in Entries /\ ~last.error /\ last.state = seen
    BY <1>1, <1>7, <2>1
  <2>4. r.computedStates[n + 1] = NextEntry(broken, last, action)
    BY <1>4, <1>5, <1>7, <2>1, <2>2 DEF EntryReplays
  <2> HIDE DEF last
  <2>5. r.computedStates[n + 1] = computeNextEntry(last, action)
    BY <2>4, NextEntryIs
  <2>6. QED
    BY <2>3, <2>5, NoThrow
<1>9. ~HasError(r)
  <2>1. ASSUME NEW i \in 1 .. n + 1 PROVE ~r.computedStates[i].error
    <3>1. CASE i = n + 1
      BY <1>8, <3>1
    <3>2. CASE i # n + 1
      <4>1. i \in 1 .. n
        BY <1>1, <3>2
      <4>2. QED
        BY <1>1, <1>7, <4>1
    <3>3. QED
      BY <3>1, <3>2
  <2>2. QED
    BY <1>7, <2>1 DEF HasError
<1>10. \A i \in 2 .. n + 1 : r.actionsById[r.stagedActionIds[i]].kind # "blocked"
  <2>1. ASSUME NEW i \in 2 .. n + 1
        PROVE  r.actionsById[r.stagedActionIds[i]].kind # "blocked"
    <3>1. CASE i = n + 1
      BY <1>5, <1>7, <3>1
    <3>2. CASE i # n + 1
      <4>1. i \in 1 .. n /\ i \in 2 .. n
        BY <1>1, <3>2
      <4>2. r.actionsById[r.stagedActionIds[i]] = l.actionsById[l.stagedActionIds[i]]
        BY <1>3, <1>7, <4>1 DEF Agree
      <4>3. QED
        BY <4>1, <4>2 DEF Shown, n
    <3>3. QED
      BY <3>1, <3>2
  <2>2. QED
    BY <2>1
<1>11. Len(r.stagedActionIds) = n + 1
  BY <1>3, <1>7
<1>12. QED
  BY <1>2, <1>7, <1>8, <1>9, <1>10, <1>11 DEF Shown, WellFormed, n

(* Committing the oldest actions takes nothing from what is shown.         *)
LEMMA ExcessShown ==
  ASSUME NEW l, NEW seen, Shown(l, seen), NEW n \in 1 .. Len(l.stagedActionIds) - 1,
         NEW k, k = commitExcessActions(l, n)
  PROVE  /\ Shown(k, seen) /\ k.isPaused = l.isPaused
         /\ Len(k.stagedActionIds) = Len(l.stagedActionIds) - n
<1> DEFINE N == Len(l.stagedActionIds)
           x == Excess(l, n)
<1>1. /\ Complete(l) /\ N \in Nat \ {0} /\ l.skippedActionIds = {}
      /\ Len(l.computedStates) = N
      /\ \A i \in 1 .. N : ~l.computedStates[i].error
      /\ l.computedStates[N].state = seen
  BY ShownFacts
<1>2. x = n
  <2>1. ASSUME NEW i \in 0 .. n - 1 PROVE ~l.computedStates[i + 2].error
    <3>1. i + 2 \in 1 .. N
      BY <1>1
    <3>2. QED
      BY <1>1, <3>1
  <2>2. Errors(l, n) = {}
    BY <2>1 DEF Errors
  <2>3. QED
    BY <2>2 DEF Excess
<1>0. Complete(l)
  BY <1>1
<1>3. Complete(k) /\ k.isPaused = l.isPaused
  BY <1>0, CommitExcess
<1>10. /\ Len(k.stagedActionIds) = N - x /\ Len(k.computedStates) = N - x
      /\ N - x \in Nat \ {0}
      /\ \A i \in 1 .. N - x : k.computedStates[i] = l.computedStates[i + x]
      /\ \A id : id \in k.skippedActionIds <=>
                   id \in l.skippedActionIds /\ id \notin Gone(l, n)
  <2>1. Trimmed(l, k, n, x)
    BY <1>0, ExcessFields
  <2>2. QED
    BY ONLY <2>1 DEF Trimmed
<1>11. \A i \in 2 .. N - x :
        /\ i + x \in 2 .. N
        /\ k.actionsById[k.stagedActionIds[i]] = l.actionsById[l.stagedActionIds[i + x]]
  BY <1>0, ExcessStaged
<1> HIDE DEF x
<1>4. /\ Len(k.stagedActionIds) = N - n /\ Len(k.computedStates) = N - n
      /\ N - n \in Nat \ {0}
      /\ \A i \in 1 .. N - n : k.computedStates[i] = l.computedStates[i + n]
  BY <1>2, <1>10
<1>5. \A i \in 2 .. N - n :
        /\ i + n \in 2 .. N
        /\ k.actionsById[k.stagedActionIds[i]] = l.actionsById[l.stagedActionIds[i + n]]
  BY <1>2, <1>11
<1>6. k.skippedActionIds = {}
  BY <1>1, <1>10
<1>7. /\ \A i \in 1 .. N - n : ~k.computedStates[i].error
      /\ k.computedStates[N - n].state = seen
  <2>1. \A i \in 1 .. N - n : i + n \in 1 .. N
    BY <1>1
  <2>2. N - n \in 1 .. N - n /\ (N - n) + n = N
    BY <1>1, <1>4
  <2>3. QED
    BY <1>1, <1>4, <2>1, <2>2
<1>8. \A i \in 2 .. N - n : k.actionsById[k.stagedActionIds[i]].kind # "blocked"
  BY <1>5 DEF Shown
<1>9. QED
  BY <1>3, <1>4, <1>6, <1>7, <1>8 DEF Shown, HasError

(* An action that is not recorded adds to what is shown as well.           *)
LEMMA OverwriteShown ==
  ASSUME UndefinedIsNoValue, Recording, NEW l, NEW seen, Shown(l, seen),
         NEW action \in Actions, NEW k, k = Overwrite(l, action)
  PROVE  /\ Shown(k, Reducer(seen, action)) /\ k.isPaused = l.isPaused
         /\ Len(k.stagedActionIds) = Len(l.stagedActionIds)
         /\ k.currentStateIndex = l.currentStateIndex
         /\ \A i \in 1 .. Len(l.stagedActionIds) - 1 :
              k.computedStates[i] = l.computedStates[i]
<1> DEFINE n == Len(l.stagedActionIds)
           c == l.computedStates
           last == c[n]
           entry == computeNextEntry(last, action)
           front == Front(c)
           d == Append(front, entry)
<1>1. /\ l \in LiftedStates /\ Staged(l) /\ Complete(l) /\ n \in Nat \ {0}
      /\ c \in Seq(Entries) /\ Len(c) = n
      /\ \A i \in 1 .. n : c[i] \in Entries /\ ~c[i].error
      /\ last.state = seen
  BY ShownFacts
<1>2. n \in 1 .. n
  BY <1>1
<1>3. last \in Entries /\ ~last.error
  BY <1>1, <1>2
<1>4. last # Undefined
  BY <1>3 DEF UndefinedIsNoValue
<1>5. LastOf(c) = last
  <2>1. c # <<>>
    BY <1>1
  <2>2. QED
    BY <1>1, <2>1 DEF LastOf, Last
<1> HIDE DEF last
<1>6. k = [l EXCEPT !.computedStates = d]
  BY <1>4, <1>5 DEF Overwrite
<1>7. entry \in Entries /\ entry.state = Reducer(seen, action) /\ ~entry.error
  BY <1>1, <1>3, NoThrow
<1>8. /\ front \in Seq(Entries) /\ Len(front) = n - 1
      /\ \A i \in 1 .. n - 1 : front[i] = c[i]
  <2>1. front = SubSeq(c, 1, n - 1) /\ 1 \in 1 .. n + 1 /\ n - 1 \in 0 .. n
    BY <1>1 DEF Front
  <2> HIDE DEF front, c
  <2>2. /\ front \in Seq(Entries)
        /\ Len(front) = IF 1 <= n - 1 THEN (n - 1) - 1 + 1 ELSE 0
        /\ \A i \in 1 .. (n - 1) - 1 + 1 : front[i] = c[1 + i - 1]
    BY <1>1, <2>1, SubSeqProperties
  <2>0. n \in Nat \ {0}
    BY <1>1
  <2> HIDE DEF n
  <2>3. (n - 1) - 1 + 1 = n - 1 /\ (~(1 <= n - 1) => n - 1 = 0)
        /\ \A i \in 1 .. n - 1 : 1 + i - 1 = i
    BY <2>0
  <2>4. QED
    BY <2>2, <2>3
<1> HIDE DEF entry, front
<1>9. /\ d \in Seq(Entries) /\ Len(d) = n /\ d[n] = entry
      /\ \A i \in 1 .. n - 1 : d[i] = c[i]
  <2>1. (n - 1) + 1 = n
    BY <1>1
  <2>2. QED
    BY <1>7, <1>8, <2>1, AppendProperties
<1> HIDE DEF d
<1>10. SameButComputed(l, k) /\ k.computedStates = d
  BY <1>1, <1>6, <1>9, Computed
<1>11. /\ k \in LiftedStates /\ k.stagedActionIds = l.stagedActionIds
       /\ k.actionsById = l.actionsById /\ k.skippedActionIds = l.skippedActionIds
       /\ k.isPaused = l.isPaused /\ k.currentStateIndex = l.currentStateIndex
  BY <1>10 DEF SameButComputed
<1>12. \A i \in 1 .. n : ~d[i].error
  <2>1. ASSUME NEW i \in 1 .. n PROVE ~d[i].error
    <3>1. CASE i = n
      BY <1>7, <1>9, <3>1
    <3>2. CASE i # n
      <4>1. i \in 1 .. n - 1
        BY <1>1, <3>2
      <4>2. QED
        BY <1>1, <1>9, <4>1
    <3>3. QED
      BY <3>1, <3>2
  <2>2. QED
    BY <2>1
<1>13. Complete(k) /\ ~HasError(k)
  <2>1. Staged(k)
    BY <1>1, <1>10, SameStaged
  <2>2. 1 \in 1 .. n
    BY <1>1
  <2>3. QED
    BY <1>9, <1>10, <1>11, <1>12, <2>1, <2>2 DEF Complete, HasError
<1>14. QED
  BY <1>7, <1>9, <1>10, <1>11, <1>13 DEF Shown

(* PERFORM_ACTION: the action is shown unless the history is locked, and a *)
(* view of the past moves only with the committed state.                   *)
LEMMA PerformShown ==
  ASSUME UndefinedIsNoValue, Recording, broken \in BOOLEAN,
         NEW l, NEW seen, Shown(l, seen), Within(l),
         NEW kind \in Kinds, NEW m \in Nat,
         NEW k, k = Perform(l, Action(kind, m))
  PROVE  /\ Shown(k, IF l.isLocked THEN seen ELSE Append(seen, m))
         /\ k.isPaused = l.isPaused /\ Within(k)
         /\ InPast(l) => KeepsView(l, k)
<1> DEFINE n == Len(l.stagedActionIds)
           action == Action(kind, m)
           i == l.currentStateIndex
<1>1. /\ l \in LiftedStates /\ Complete(l) /\ n \in Nat \ {0} /\ i \in Nat
      /\ l.isPaused \in BOOLEAN
  BY ShownFacts, LiftedFields
<1>2. action \in Actions /\ action.kind = kind /\ Reducer(seen, action) = Append(seen, m)
  BY DEF Action, Actions, Reducer
<1>3. InPast(l) => InRange(l) /\ i + 1 \in 1 .. n - 1
  BY <1>1 DEF InPast, InRange
<1> HIDE DEF action
<1>4. CASE l.isLocked
  BY <1>4 DEF Perform, KeepsView
<1>5. CASE ~l.isLocked /\ (l.isPaused \/ isActionFiltered(action))
  <2>1. k = Overwrite(l, action)
    BY <1>5 DEF Perform, action
  <2>2. /\ Shown(k, Append(seen, m)) /\ k.isPaused = l.isPaused
        /\ Len(k.stagedActionIds) = n /\ k.currentStateIndex = i
        /\ \A j \in 1 .. n - 1 : k.computedStates[j] = l.computedStates[j]
    <3>0. action \in Actions
      BY <1>2
    <3>1. /\ Shown(k, Reducer(seen, action)) /\ k.isPaused = l.isPaused
          /\ Len(k.stagedActionIds) = n /\ k.currentStateIndex = i
      BY <2>1, <3>0, OverwriteShown
    <3>2. \A j \in 1 .. n - 1 : k.computedStates[j] = l.computedStates[j]
      BY <2>1, <3>0, OverwriteShown
    <3>3. QED
      BY <1>2, <3>1, <3>2
  <2>3. Within(k)
    BY <2>2 DEF Within
  <2>4. ASSUME InPast(l) PROVE KeepsView(l, k)
    <3>1. Complete(k) /\ InRange(k) /\ i + 1 \in 1 .. n - 1
      BY <1>3, <2>2, <2>4 DEF Shown, InRange
    <3>2. /\ unliftState(k) = k.computedStates[k.currentStateIndex + 1].state
          /\ unliftState(l) = l.computedStates[l.currentStateIndex + 1].state
      BY <1>1, <1>3, <2>4, <3>1, EntryInView
    <3>3. unliftState(k) = unliftState(l)
      BY <2>2, <3>1, <3>2
    <3>4. k.stagedActionIds = l.stagedActionIds
      <4>1. k # Undefined
        BY <3>1 DEF Complete, UndefinedIsNoValue
      <4>2. QED
        BY <1>1, <2>1, <4>1 DEF Overwrite, LiftedStates
    <3>5. QED
      BY <3>3, <3>4 DEF KeepsView
  <2>5. QED
    BY <1>5, <2>2, <2>3, <2>4
<1>6. CASE ~l.isLocked /\ ~l.isPaused /\ ~isActionFiltered(action)
  <2> DEFINE room == IF Full(l) THEN commitExcessActions(l, 1) ELSE l
             s == Len(room.stagedActionIds)
  <2>0. room = IF Full(l) THEN commitExcessActions(l, 1) ELSE l
    OBVIOUS
  <2>1. k = recomputeStates(Stage(room, action), s)
    BY <1>6 DEF Perform, action
  <2>2. /\ Shown(room, seen) /\ ~room.isPaused
        /\ MaxAge # 0 => s + 1 <= MaxAge
    <3>1. CASE Full(l)
      <4>1. 1 \in 1 .. n - 1 /\ n = MaxAge
        BY <3>1, DevtoolsAssumption DEF Full
      <4>2. room = commitExcessActions(l, 1)
        BY <3>1
      <4> HIDE DEF room
      <4>3. Shown(room, seen) /\ room.isPaused = l.isPaused /\ s = n - 1
        BY <4>1, <4>2, ExcessShown
      <4>4. QED
        BY <1>1, <1>6, <4>1, <4>3
    <3>2. CASE ~Full(l)
      <4>1. room = l
        BY <3>2
      <4>2. MaxAge # 0 => n + 1 <= MaxAge
        BY <1>1, <1>6, <3>2, DevtoolsAssumption DEF Full, Within
      <4> HIDE DEF room
      <4>3. QED
        BY <1>3, <1>6, <4>1, <4>2
    <3>3. QED
      BY <3>1, <3>2
  <2> HIDE DEF room
  <2>3. action.kind # "blocked"
    BY <1>6 DEF isActionFiltered
  <2>4. /\ Shown(k, Reducer(seen, action)) /\ ~k.isPaused
        /\ Len(k.stagedActionIds) = s + 1
    BY <1>2, <2>1, <2>2, <2>3, RecordShown
  <2>5. Within(k)
    BY <2>2, <2>4, DevtoolsAssumption DEF Within
  <2>6. ASSUME InPast(l) PROVE KeepsView(l, k)
    <3>1. WellFormed(l) /\ WellFormed(room)
      BY <1>1, <1>6, <2>2 DEF WellFormed, Shown
    <3>2. QED
      BY <1>2, <2>0, <2>1, <2>6, <3>1, RecordPast
  <2>7. k.isPaused = l.isPaused
    <3>1. k.isPaused \in BOOLEAN
      BY <2>4, ShownFacts, LiftedFields
    <3>2. QED
      BY <1>1, <1>6, <2>4, <3>1
  <2>8. QED
    BY <1>2, <1>6, <2>4, <2>5, <2>6, <2>7
<1>7. QED
  BY <1>1, <1>4, <1>5, <1>6

(* UPDATE changes nothing in what is shown.                                *)
LEMMA UpdateShown ==
  ASSUME UndefinedIsNoValue, Recording, broken \in BOOLEAN,
         NEW l, NEW seen, Shown(l, seen), Within(l),
         NEW k, k = Update(l)
  PROVE  Shown(k, seen) /\ k.isPaused = l.isPaused /\ Within(k)
<1> DEFINE n == Len(l.stagedActionIds)
           Fitted(h) ==
             IF MaxAge # 0 /\ Len(h.stagedActionIds) > MaxAge
             THEN commitExcessActions(h, Len(h.stagedActionIds) - MaxAge) ELSE h
           Latest(h) == [h EXCEPT !.currentStateIndex = Len(h.stagedActionIds) - 1]
           r == IF l.isPaused \/ l.isLocked THEN l
                ELSE recomputeStates(Stage(l, UPDATE), n)
           h == Latest(r)
<1>1. /\ l \in LiftedStates /\ Complete(l) /\ n \in Nat \ {0} /\ ~HasError(l)
      /\ l.isPaused \in BOOLEAN
  BY ShownFacts, LiftedFields DEF Shown
<1>2. k = Fitted(h)
  <2>1. /\ Undefined \notin ToSet(l.computedStates)
        /\ ~\E entry \in ToSet(l.computedStates) : entry.error
    BY <1>1, EntriesDefined
  <2>2. QED
    BY <2>1 DEF Update
<1>3. Shown(r, seen) /\ r.isPaused = l.isPaused
  <2>1. CASE l.isPaused \/ l.isLocked
    BY <2>1
  <2>2. CASE ~(l.isPaused \/ l.isLocked)
    <3>1. UPDATE \in Actions /\ UPDATE.kind # "blocked" /\ Reducer(seen, UPDATE) = seen
      BY InitFacts, DevtoolsAssumption DEF UPDATE, Action, Reducer
    <3>2. r = recomputeStates(Stage(l, UPDATE), n)
      BY <2>2
    <3> HIDE DEF r
    <3>3. Shown(r, Reducer(seen, UPDATE)) /\ ~r.isPaused
      BY <2>2, <3>1, <3>2, RecordShown
    <3>4. r.isPaused \in BOOLEAN
      BY <3>3, ShownFacts, LiftedFields
    <3>5. QED
      BY <1>1, <2>2, <3>1, <3>3, <3>4
  <2>3. QED
    BY <2>1, <2>2
<1> HIDE DEF r
<1>4. Shown(h, seen) /\ h.isPaused = l.isPaused
  <2> DEFINE i == Len(r.stagedActionIds) - 1
  <2>1. i \in Nat
    BY <1>3, ShownFacts
  <2>2. h = [r EXCEPT !.currentStateIndex = i]
    OBVIOUS
  <2> HIDE DEF h, i
  <2>3. Shown(h, seen) /\ h.isPaused = r.isPaused
    BY <1>3, <2>1, <2>2, MovedShown
  <2>4. QED
    BY <1>3, <2>3
<1> HIDE DEF h
<1>5. Len(h.stagedActionIds) \in Nat \ {0}
  BY <1>4, ShownFacts
<1>6. CASE MaxAge # 0 /\ Len(h.stagedActionIds) > MaxAge
  <2> DEFINE x == Len(h.stagedActionIds) - MaxAge
  <2>1. x \in 1 .. Len(h.stagedActionIds) - 1 /\ Len(h.stagedActionIds) - x = MaxAge
    BY <1>5, <1>6, DevtoolsAssumption
  <2>2. k = commitExcessActions(h, x)
    BY <1>2, <1>6
  <2> HIDE DEF x
  <2>3. /\ Shown(k, seen) /\ k.isPaused = h.isPaused
        /\ Len(k.stagedActionIds) = Len(h.stagedActionIds) - x
    BY <1>4, <2>1, <2>2, ExcessShown
  <2>4. Within(k)
    BY <2>1, <2>3, DevtoolsAssumption DEF Within
  <2>5. QED
    BY <1>4, <2>3, <2>4
<1>7. CASE ~(MaxAge # 0 /\ Len(h.stagedActionIds) > MaxAge)
  <2>1. k = h
    BY <1>2, <1>7
  <2>2. Within(h)
    BY <1>5, <1>7, DevtoolsAssumption DEF Within
  <2>3. QED
    BY <1>4, <2>1, <2>2
<1>8. QED
  BY <1>6, <1>7

(* Pausing repeats the last state.                                         *)
LEMMA PauseShown ==
  ASSUME UndefinedIsNoValue, Recording, NEW l, NEW seen, Shown(l, seen),
         NEW k, k = Pause(l)
  PROVE  /\ Shown(k, seen) /\ k.isPaused = TRUE
         /\ ~l.isPaused /\ Within(l) => Within(k)
<1> DEFINE n == Len(l.stagedActionIds)
           h == Stage(l, PAUSE)
           c == l.computedStates
           d == Append(c, LastOf(c))
<1>1. /\ l \in LiftedStates /\ Staged(l) /\ Complete(l) /\ n \in Nat \ {0}
      /\ l.stagedActionIds \in Seq(Nat) /\ l.nextActionId \in Nat
      /\ c \in Seq(Entries) /\ Len(c) = n /\ l.skippedActionIds = {}
      /\ \A i \in 1 .. n : c[i] \in Entries /\ ~c[i].error
      /\ c[n].state = seen
  BY ShownFacts, LiftedFields
<1>2. PAUSE \in Actions /\ PAUSE.kind # "blocked"
  BY InitFacts DEF PAUSE, Action
<1>3. /\ h \in LiftedStates /\ Staged(h) /\ Len(h.stagedActionIds) = n + 1
      /\ Agree(l, h, n) /\ h.computedStates = c
  BY <1>1, <1>2, StageFacts
<1>4. /\ h.stagedActionIds = Append(l.stagedActionIds, l.nextActionId)
      /\ h.skippedActionIds = {}
      /\ h.actionsById = [id \in DOMAIN l.actionsById \cup {l.nextActionId} |->
             IF id = l.nextActionId THEN PAUSE ELSE l.actionsById[id]]
  BY <1>1, <1>2, StageFields
<1>5. h.stagedActionIds[n + 1] = l.nextActionId /\ h.actionsById[l.nextActionId] = PAUSE
  <2> HIDE DEF h
  <2>1. QED
    BY <1>1, <1>4, AppendProperties
<1>6. LastOf(c) = c[n] /\ c[n] \in Entries
  <2>1. c # <<>> /\ n \in 1 .. n
    BY <1>1
  <2>2. QED
    BY <1>1, <2>1 DEF LastOf, Last
<1>7. k = [h EXCEPT !.isPaused = TRUE, !.computedStates = d]
  BY <1>3 DEF Pause
<1> HIDE DEF h, c
<1>8. /\ d \in Seq(Entries) /\ Len(d) = n + 1 /\ d[n + 1] = c[n]
      /\ \A i \in 1 .. n : d[i] = c[i]
  BY <1>1, <1>6, AppendProperties
<1> HIDE DEF d
<1>9. /\ k \in LiftedStates /\ k.isPaused = TRUE /\ k.computedStates = d
      /\ k.stagedActionIds = h.stagedActionIds /\ k.actionsById = h.actionsById
      /\ k.skippedActionIds = h.skippedActionIds /\ k.nextActionId = h.nextActionId
  BY <1>3, <1>7, <1>8 DEF LiftedStates
<1>10. \A i \in 1 .. n + 1 : ~d[i].error
  <2>1. n \in 1 .. n /\ \A i \in 1 .. n + 1 : i = n + 1 \/ i \in 1 .. n
    BY <1>1
  <2>2. QED
    BY <1>1, <1>8, <2>1
<1>11. Complete(k) /\ ~HasError(k)
  <2>1. Staged(k)
    BY <1>3, <1>9 DEF Staged
  <2>2. 1 \in 1 .. n + 1
    BY <1>1
  <2>3. QED
    BY <1>3, <1>8, <1>9, <1>10, <2>1, <2>2 DEF Complete, HasError
<1>12. \A i \in 2 .. n + 1 : k.actionsById[k.stagedActionIds[i]].kind # "blocked"
  <2>1. ASSUME NEW i \in 2 .. n + 1
        PROVE  k.actionsById[k.stagedActionIds[i]].kind # "blocked"
    <3>1. CASE i = n + 1
      BY <1>2, <1>5, <1>9, <3>1
    <3>2. CASE i # n + 1
      <4>1. i \in 1 .. n /\ i \in 2 .. n
        BY <1>1, <3>2
      <4>2. k.actionsById[k.stagedActionIds[i]] = l.actionsById[l.stagedActionIds[i]]
        BY <1>3, <1>9, <4>1 DEF Agree
      <4>3. QED
        BY <4>1, <4>2 DEF Shown
    <3>3. QED
      BY <3>1, <3>2
  <2>2. QED
    BY <2>1
<1>13. Shown(k, seen)
  <2>1. Len(k.stagedActionIds) = n + 1 /\ k.skippedActionIds = {}
    BY <1>3, <1>4, <1>9
  <2>2. k.computedStates[n + 1].state = seen
    BY <1>1, <1>8, <1>9
  <2>3. QED
    BY ONLY <1>11, <1>12, <2>1, <2>2 DEF Shown
<1>14. ~l.isPaused /\ Within(l) => Within(k)
  BY <1>1, <1>3, <1>9, DevtoolsAssumption DEF Within
<1>15. QED
  BY <1>9, <1>13, <1>14

(* Recording resumes from the state in view.                               *)
LEMMA ResumeShown ==
  ASSUME UndefinedIsNoValue, Recording, broken \in BOOLEAN,
         NEW l, NEW seen, Shown(l, seen),
         NEW k, k = Resume(l), k # Undefined
  PROVE  /\ Shown(k, IF InPast(l) THEN unliftState(l) ELSE seen)
         /\ k.isPaused = FALSE /\ Within(k)
         /\ unliftState(k) = unliftState(l)
<1> DEFINE n == Len(l.stagedActionIds)
           i == l.currentStateIndex
           c == l.computedStates
           g == [l EXCEPT !.isPaused = FALSE]
           entry == At(c, i)
           s == entry.state
           h == Start(g, s)
<1>1. /\ l \in LiftedStates /\ Complete(l) /\ n \in Nat \ {0} /\ i \in Nat
      /\ Len(c) = n /\ \A j \in 1 .. n : c[j] \in Entries
      /\ c[n].state = seen
  BY ShownFacts
<1>2. /\ g \in LiftedStates /\ ~g.isPaused
      /\ g.computedStates = c /\ g.currentStateIndex = i
  BY <1>1 DEF LiftedStates
<1>3. Undefined \notin Entries /\ Undefined \notin LiftedStates
  BY DEF UndefinedIsNoValue
<1>4. k = IF entry = Undefined THEN Undefined ELSE Recommit(h)
  BY <1>2 DEF Resume, Recommit, commitChanges
<1>5. InRange(l) /\ i + 1 \in 1 .. n /\ entry = c[i + 1]
  <2>1. entry # Undefined
    BY <1>4
  <2>2. i < n /\ entry = c[i + 1]
    BY <1>1, <2>1 DEF At
  <2>3. QED
    BY <1>1, <2>2 DEF InRange
<1>6. s \in States
  BY <1>1, <1>5, EntryFacts
<1>7. h \in LiftedStates
  <2> HIDE DEF g, s
  <2>1. QED
    BY <1>2, <1>6, StartFacts
<1>8. k = recomputeStates(h, 0)
  <2> HIDE DEF h
  <2>1. QED
    BY <1>3, <1>4, <1>7 DEF Recommit
<1> HIDE DEF g, s, entry
<1>9. /\ Sound(k) /\ Len(k.computedStates) = 1
      /\ k.computedStates[1] = Entry(s, FALSE) /\ k.skippedActionIds = {}
      /\ InRange(k) /\ k.currentStateIndex = 0
  BY <1>2, <1>6, <1>8, Restarted
<1>10. Complete(k) /\ ~k.isPaused /\ Len(k.stagedActionIds) = 1
  BY <1>9 DEF Sound, WellFormed, Complete
<1>11. k.computedStates[1].state = s /\ ~k.computedStates[1].error
  <2>1. Entry(s, FALSE).state = s /\ Entry(s, FALSE).error = FALSE
    BY <1>6, EntryFacts
  <2>2. QED
    BY <1>9, <2>1
<1>12. Shown(k, s)
  <2>1. ~HasError(k)
    <3>1. \A j \in 1 .. 1 : j = 1
      OBVIOUS
    <3>2. QED
      BY <1>9, <1>11, <3>1 DEF HasError
  <2>2. \A j \in 2 .. 1 : FALSE
    OBVIOUS
  <2>3. QED
    BY <1>9, <1>10, <1>11, <2>1, <2>2 DEF Shown
<1>13. s = IF InPast(l) THEN unliftState(l) ELSE seen
  <2>1. CASE InPast(l)
    <3>1. unliftState(l) = l.computedStates[l.currentStateIndex + 1].state
      BY <1>1, <1>5, EntryInView
    <3>2. QED
      BY <1>5, <2>1, <3>1 DEF s
  <2>2. CASE ~InPast(l)
    <3>1. i + 1 = n
      BY <1>1, <1>5, <2>2 DEF InPast
    <3>2. QED
      BY <1>1, <1>5, <2>2, <3>1 DEF s
  <2>3. QED
    BY <2>1, <2>2
<1>14. k.isPaused = FALSE
  <2>1. k.isPaused \in BOOLEAN
    BY <1>10, LiftedFields DEF Complete
  <2>2. QED
    BY <1>10, <2>1
<1>15. Within(k)
  BY <1>10, DevtoolsAssumption DEF Within
<1>16. unliftState(k) = unliftState(l)
  <2>1. unliftState(k) = k.computedStates[k.currentStateIndex + 1].state
    BY <1>9, <1>10, EntryInView
  <2>2. unliftState(l) = l.computedStates[i + 1].state
    BY <1>1, <1>5, EntryInView
  <2>3. k.currentStateIndex + 1 = 1
    BY <1>9
  <2>4. QED
    BY <1>5, <1>11, <2>1, <2>2, <2>3 DEF s
<1>17. QED
  BY <1>12, <1>13, <1>14, <1>15, <1>16

(* It resumes if the pointer is at an entry, and only then.                *)
LEMMA ResumeDefined ==
  ASSUME UndefinedIsNoValue, Recording, broken \in BOOLEAN,
         NEW l, NEW seen, Shown(l, seen)
  PROVE  Resume(l) # Undefined <=> InRange(l)
<1> DEFINE n == Len(l.stagedActionIds)
           i == l.currentStateIndex
           c == l.computedStates
           g == [l EXCEPT !.isPaused = FALSE]
           entry == At(c, i)
           h == Start(g, entry.state)
           k == recomputeStates(h, 0)
<1>1. /\ l \in LiftedStates /\ n \in Nat \ {0} /\ i \in Nat
      /\ Len(c) = n /\ \A j \in 1 .. n : c[j] \in Entries
  BY ShownFacts
<1>2. /\ g \in LiftedStates /\ ~g.isPaused
      /\ g.computedStates = c /\ g.currentStateIndex = i
  BY <1>1 DEF LiftedStates
<1>3. Undefined \notin Entries /\ Undefined \notin LiftedStates
  BY DEF UndefinedIsNoValue
<1>4. Resume(l) = IF entry = Undefined THEN Undefined ELSE Recommit(h)
  BY <1>2 DEF Resume, Recommit, commitChanges
<1>5. CASE ~InRange(l)
  <2>1. ~(i < Len(c))
    BY <1>1, <1>5 DEF InRange
  <2>2. entry = Undefined
    BY <2>1 DEF At
  <2>3. QED
    BY <1>4, <1>5, <2>2
<1>6. CASE InRange(l)
  <2>1. i < n /\ i + 1 \in 1 .. n
    BY <1>1, <1>6 DEF InRange
  <2>2. entry = c[i + 1]
    BY <1>1, <2>1 DEF At
  <2>3. entry \in Entries /\ entry.state \in States
    BY <1>1, <2>1, <2>2, EntryFacts
  <2> HIDE DEF g, entry
  <2>4. h \in LiftedStates /\ Sound(k)
    BY <1>2, <2>3, StartFacts, Restarted
  <2> HIDE DEF h, k
  <2>5. Recommit(h) = k /\ k \in LiftedStates
    BY <1>3, <2>4 DEF Recommit, k, Sound, WellFormed, Complete
  <2>6. QED
    BY <1>3, <1>4, <1>6, <2>3, <2>5
<1>7. QED
  BY <1>5, <1>6
-----------------------------------------------------------------------------
(* What the filter leaves.                                                 *)
LEMMA FilteredShown ==
  ASSUME UndefinedIsNoValue, Recording, NEW l, NEW seen, Shown(l, seen), Within(l),
         NEW k, k = filterLiftedState(l)
  PROVE  k # Undefined /\ Shown(k, seen) /\ Within(k) /\ k.isPaused = l.isPaused
<1>1. Shown(k, seen) /\ Within(k) /\ k.isPaused = l.isPaused
  BY FilterKeeps, SameRecordFacts
<1>2. k \in LiftedStates
  BY <1>1, ShownFacts
<1>3. QED
  BY <1>1, <1>2 DEF UndefinedIsNoValue

(* A message arrives, with u for the reducer's result and seen for what is *)
(* to be shown then.                                                       *)
LEMMA ArrivesShown ==
  ASSUME UndefinedIsNoValue, Recording, RecordingInvariant,
         NEW u, NEW seen, Shown(u, seen), Within(u), accepted' = seen,
         Scan(filterLiftedState(u)), message' = Undefined,
         broken' = broken, performed' = performed
  PROVE  RecordingInvariant'
<1> DEFINE k == filterLiftedState(u)
<1>1. k # Undefined /\ Shown(k, seen) /\ Within(k)
  BY FilteredShown
<1>2. lifted' = k
  BY <1>1 DEF Scan
<1> HIDE DEF k
<1>3. QED
  BY <1>1, <1>2 DEF RecordingInvariant, PauseOK

LEMMA MonitorShown ==
  ASSUME UndefinedIsNoValue, Recording, RecordingInvariant, Monitor
  PROVE  RecordingInvariant' /\ performed' = performed
<1> DEFINE l == lifted
<1>1. /\ broken \in BOOLEAN /\ Shown(l, accepted) /\ Within(l)
      /\ l \in LiftedStates /\ Staged(l)
  BY ShownFacts DEF RecordingInvariant
<1>2. message # Undefined => message \in Messages /\ message.type \in Commands
        /\ message.id \in Nat /\ message.status \in BOOLEAN
        /\ (message.type = "PAUSE_RECORDING" => message.status = ~l.isPaused)
  BY DEF RecordingInvariant, PauseOK, Messages
<1>3. ~Reset /\ ~Commit /\ ~Rollback /\ ~SweepSkipped /\ ~ImportState
      /\ ~ToggleAction /\ ~SetActive
  BY <1>2 DEF Recording, Reset, Commit, Rollback, SweepSkipped, ImportState,
              ToggleAction, SetActive, Arrives
<1>4. CASE LockChanges /\ accepted' = accepted
  <2> DEFINE u == [l EXCEPT !.isLocked = message.status]
  <2>1. /\ Scan(filterLiftedState(u)) /\ message # Undefined /\ message' = Undefined
        /\ broken' = broken /\ performed' = performed /\ accepted' = accepted
    BY <1>4 DEF LockChanges, Arrives, counters
  <2>2. message.status \in BOOLEAN
    BY <1>2, <2>1
  <2>3. u = [l EXCEPT !.isLocked = message.status]
    OBVIOUS
  <2> HIDE DEF u, l
  <2>4. Shown(u, accepted) /\ Within(u)
    BY <1>1, <2>2, <2>3, LockShown
  <2>5. QED
    BY <2>1, <2>4, ArrivesShown
<1>5. CASE JumpToState /\ accepted' = accepted
  <2> DEFINE u == [l EXCEPT !.currentStateIndex = message.id]
  <2>1. /\ Scan(filterLiftedState(u)) /\ message # Undefined /\ message' = Undefined
        /\ broken' = broken /\ performed' = performed /\ accepted' = accepted
    BY <1>5 DEF JumpToState, Arrives, counters
  <2>2. message.id \in Nat
    BY <1>2, <2>1
  <2>3. u = [l EXCEPT !.currentStateIndex = message.id]
    OBVIOUS
  <2> HIDE DEF u, l
  <2>4. Shown(u, accepted) /\ Within(u)
    BY <1>1, <2>2, <2>3, MovedShown
  <2>5. QED
    BY <2>1, <2>4, ArrivesShown
<1>6. CASE JumpsToAction /\ accepted' = accepted
  <2> DEFINE u == JumpToAction(l, message.id)
  <2>1. /\ Scan(filterLiftedState(u)) /\ message # Undefined /\ message' = Undefined
        /\ broken' = broken /\ performed' = performed /\ accepted' = accepted
    BY <1>6 DEF JumpsToAction, Arrives, counters
  <2>2. Shown(u, accepted) /\ Within(u)
    <3>1. CASE Contains(l.stagedActionIds, message.id)
      <4> DEFINE i == IndexOf(l, message.id)
      <4>1. u = [l EXCEPT !.currentStateIndex = i]
        BY <3>1 DEF JumpToAction
      <4>2. i \in Nat
        BY <1>1, <3>1, Position
      <4> HIDE DEF u, i, l
      <4>3. QED
        BY <1>1, <4>1, <4>2, MovedShown
    <3>2. CASE ~Contains(l.stagedActionIds, message.id)
      BY <1>1, <3>2 DEF JumpToAction
    <3>3. QED
      BY <3>1, <3>2
  <2> HIDE DEF u, l
  <2>3. QED
    BY <2>1, <2>2, ArrivesShown
<1>7. CASE PauseRecording /\ message.status
  <2> DEFINE u == Pause(l)
  <2>1. /\ Scan(filterLiftedState(u)) /\ message # Undefined /\ message' = Undefined
        /\ message.type = "PAUSE_RECORDING"
        /\ broken' = broken /\ performed' = performed /\ accepted' = accepted
    BY <1>7 DEF PauseRecording, Arrives, counters
  <2>2. ~l.isPaused
    BY <1>2, <1>7, <2>1
  <2>3. u = Pause(l)
    OBVIOUS
  <2> HIDE DEF u, l
  <2>4. Shown(u, accepted) /\ Within(u)
    BY <1>1, <2>2, <2>3, PauseShown
  <2>5. QED
    BY <2>1, <2>4, ArrivesShown
<1>8. CASE PauseRecording /\ ~message.status
  <2> DEFINE u == Resume(l)
             seen == IF InPast(l) THEN unliftState(l) ELSE accepted
  <2>1. /\ Scan(filterLiftedState(u)) /\ message' = Undefined
        /\ broken' = broken /\ performed' = performed /\ accepted' = seen
    BY <1>8 DEF PauseRecording, Arrives, counters
  <2>2. CASE u # Undefined
    <3>1. u = Resume(l)
      OBVIOUS
    <3> HIDE DEF u
    <3>2. Shown(u, seen) /\ Within(u)
      <4> HIDE DEF l
      <4>1. QED
        BY <1>1, <2>2, <3>1, ResumeShown
    <3> HIDE DEF seen, l
    <3>3. QED
      BY <2>1, <3>2, ArrivesShown
  <2>3. CASE u = Undefined
    <3>1. filterLiftedState(u) = Undefined
      BY <2>3 DEF filterLiftedState
    <3>2. lifted' = lifted
      BY <2>1, <3>1 DEF Scan
    <3>3. ~InPast(l)
      BY <1>1, <2>3, ResumeDefined, ShownFacts DEF InPast, InRange
    <3>4. accepted' = accepted
      BY <2>1, <3>3
    <3>5. QED
      BY <2>1, <3>2, <3>4 DEF RecordingInvariant, PauseOK
  <2>4. QED
    BY <2>2, <2>3
<1>9. QED
  BY <1>3, <1>4, <1>5, <1>6, <1>7, <1>8 DEF Monitor

LEMMA RecordingPerform ==
  ASSUME UndefinedIsNoValue, Recording, RecordingInvariant,
         NEW kind \in Kinds, PerformAction(kind)
  PROVE  /\ RecordingInvariant'
         /\ lifted'.isPaused = lifted.isPaused
         /\ InPast(lifted) => KeepsView(lifted, lifted')
<1> DEFINE m == performed + 1
           k == Perform(lifted, Action(kind, m))
           seen == IF lifted.isLocked THEN accepted ELSE Append(accepted, m)
<1>1. /\ broken \in BOOLEAN /\ m \in Nat /\ Shown(lifted, accepted) /\ Within(lifted)
      /\ PauseOK
  BY DEF RecordingInvariant
<1>2. /\ lifted' = IF k = Undefined THEN lifted ELSE k
      /\ accepted' = seen /\ performed' = m /\ broken' = broken /\ message' = message
  BY DEF PerformAction, Scan, Action
<1> HIDE DEF m
<1>3. /\ Shown(k, seen) /\ k.isPaused = lifted.isPaused /\ Within(k)
      /\ InPast(lifted) => KeepsView(lifted, k)
  BY <1>1, PerformShown
<1> HIDE DEF k, seen
<1>4. lifted' = k
  <2>1. k \in LiftedStates
    BY <1>3, ShownFacts
  <2>2. k # Undefined
    BY <2>1 DEF UndefinedIsNoValue
  <2>3. QED
    BY <1>2, <2>2
<1>5. QED
  BY <1>1, <1>2, <1>3, <1>4 DEF RecordingInvariant, PauseOK

LEMMA RecordingUpdate ==
  ASSUME UndefinedIsNoValue, Recording, RecordingInvariant, PerformUpdate
  PROVE  RecordingInvariant' /\ performed' = performed
<1> DEFINE u == Update(lifted)
           k == filterLiftedState(u)
<1>1. /\ broken \in BOOLEAN /\ performed \in Nat /\ Shown(lifted, accepted)
      /\ Within(lifted) /\ PauseOK
  BY DEF RecordingInvariant
<1>2. /\ lifted' = IF k = Undefined THEN lifted ELSE k
      /\ accepted' = accepted /\ performed' = performed /\ broken' = broken
      /\ message' = message
  BY DEF PerformUpdate, Scan, counters
<1>3. Shown(u, accepted) /\ u.isPaused = lifted.isPaused /\ Within(u)
  BY <1>1, UpdateShown
<1> HIDE DEF u
<1>4. k # Undefined /\ Shown(k, accepted) /\ Within(k) /\ k.isPaused = u.isPaused
  BY <1>3, FilteredShown
<1> HIDE DEF k
<1>5. QED
  BY <1>1, <1>2, <1>3, <1>4 DEF RecordingInvariant, PauseOK

LEMMA RecordingAsk ==
  ASSUME RecordingInvariant, NEW command \in Requests, Ask(command)
  PROVE  RecordingInvariant' /\ performed' = performed
<1>1. /\ message' = command /\ command.type \in Commands
      /\ lifted' = lifted /\ broken' = broken /\ performed' = performed
      /\ accepted' = accepted
  BY DEF Ask
<1>2. Asked(command)
  BY AskFacts DEF RecordingInvariant, Shown
<1>3. command \in Messages
  <2>1. Command(command.type, command.id, command.end, command.status) \in Messages
    BY <1>1, <1>2 DEF Command, Messages, Asked
  <2>2. QED
    BY <1>2, <2>1 DEF Asked
<1>4. PauseOK'
  BY <1>1, <1>2, <1>3 DEF PauseOK, Asked
<1>5. QED
  BY <1>1, <1>4 DEF RecordingInvariant

LEMMA RecordingInit ==
  ASSUME UndefinedIsNoValue, Recording, Init
  PROVE  RecordingInvariant
<1> DEFINE l == liftInitialState
           m == [id \in {0} |-> INIT]
<1>1. HistoryInvariant /\ message = Undefined /\ accepted = <<>> /\ broken \in BOOLEAN
  BY InitHistory DEF Init, HistoryInvariant
<1>2. Complete(lifted) /\ Replays(broken, lifted) /\ lifted \in LiftedStates
  BY <1>1 DEF HistoryInvariant, WellFormed, Complete, Init
<1>3. /\ l.stagedActionIds = <<0>> /\ l.skippedActionIds = {} /\ l.committedState = <<>>
  BY DEF liftInitialState
<1>4. SameButComputed(l, lifted)
  <2>1. m \in ActionMaps /\ DOMAIN m = {0} /\ m[0] = INIT
    BY InitFacts
  <2>2. /\ <<0>> \in Seq(Nat) /\ <<>> \in Seq(Entries) /\ <<>> \in States
        /\ Len(<<0>>) = 1 /\ <<0>>[1] = 0
    BY DEF States
  <2> HIDE DEF m
  <2>3. /\ l.actionsById = m /\ l.nextActionId = 1 /\ l.stagedActionIds = <<0>>
        /\ l.skippedActionIds = {} /\ ~l.isPaused /\ l \in LiftedStates
    BY <2>1, <2>2 DEF liftInitialState, LiftedStates, m
  <2> HIDE DEF l
  <2>4. Staged(l)
    <3>1. \A i, j \in 1 .. 1 : ~(i < j)
      OBVIOUS
    <3>2. Len(l.stagedActionIds) = 1 /\ l.stagedActionIds[1] = 0
          /\ 0 \in DOMAIN l.actionsById /\ l.actionsById[0] = INIT
          /\ 0 \notin l.skippedActionIds
      BY <2>1, <2>2, <2>3
    <3>3. QED
      BY ONLY <2>3, <3>1, <3>2 DEF Staged
  <2>5. lifted = recomputeStates(l, 0)
    BY DEF Init, l
  <2>6. QED
    BY <1>1, <2>3, <2>4, <2>5, RecomputeAll
<1> HIDE DEF l
<1>5. /\ lifted.stagedActionIds = <<0>> /\ lifted.skippedActionIds = {}
      /\ lifted.committedState = <<>>
  BY <1>3, <1>4 DEF SameButComputed
<1>6. Len(lifted.stagedActionIds) = 1 /\ Len(lifted.computedStates) = 1
  <2>1. Len(<<0>>) = 1
    OBVIOUS
  <2>2. QED
    BY <1>2, <1>5, <2>1 DEF Complete
<1>7. lifted.computedStates[1] = Entry(<<>>, FALSE)
  <2>1. 1 \in 1 .. Len(lifted.stagedActionIds)
    BY <1>6
  <2>2. EntryReplays(broken, lifted, 1)
    BY <1>2, <2>1 DEF Replays
  <2>3. QED
    BY <1>5, <2>2 DEF EntryReplays
<1>8. Entry(<<>>, FALSE).state = <<>> /\ Entry(<<>>, FALSE).error = FALSE
  BY DEF Entry
<1>9. ~HasError(lifted)
  <2>1. \A j \in 1 .. 1 : j = 1
    OBVIOUS
  <2>2. QED
    BY <1>6, <1>7, <1>8, <2>1 DEF HasError
<1>10. \A j \in 2 .. 1 : FALSE
  OBVIOUS
<1>11. Shown(lifted, accepted)
  BY <1>1, <1>2, <1>5, <1>6, <1>7, <1>8, <1>9, <1>10 DEF Shown
<1>12. Within(lifted)
  BY <1>6, DevtoolsAssumption DEF Within
<1>13. QED
  BY <1>1, <1>11, <1>12 DEF RecordingInvariant, PauseOK, HistoryInvariant

LEMMA RecordingStep ==
  ASSUME UndefinedIsNoValue, Recording, RecordingInvariant, [Next]_vars
  PROVE  /\ RecordingInvariant'
         /\ performed' # performed => lifted'.isPaused = lifted.isPaused
         /\ performed' # performed /\ InPast(lifted) => KeepsView(lifted, lifted')
<1>1. CASE UNCHANGED vars
  BY <1>1 DEF vars, counters, RecordingInvariant, PauseOK
<1>2. ASSUME NEW kind \in Kinds, PerformAction(kind)
      PROVE  /\ RecordingInvariant'
             /\ lifted'.isPaused = lifted.isPaused
             /\ InPast(lifted) => KeepsView(lifted, lifted')
  BY <1>2, RecordingPerform
<1>3. CASE UpdateReducer
  <2>1. /\ broken' \in {broken, FALSE} /\ lifted' = lifted /\ message' = message
        /\ performed' = performed /\ accepted' = accepted
    BY <1>3 DEF UpdateReducer
  <2>2. QED
    BY <2>1 DEF RecordingInvariant, PauseOK
<1>4. CASE PerformUpdate
  BY <1>4, RecordingUpdate
<1>5. ASSUME NEW command \in Requests, Ask(command)
      PROVE  RecordingInvariant' /\ performed' = performed
  BY <1>5, RecordingAsk
<1>6. ~Export
  BY DEF Export, Recording
<1>7. CASE Monitor
  BY <1>7, MonitorShown
<1>8. QED
  BY <1>1, <1>2, <1>3, <1>4, <1>5, <1>6, <1>7 DEF Next

LEMMA RecordingInvariance ==
  ASSUME UndefinedIsNoValue, Recording
  PROVE  Spec => []RecordingInvariant
<1>1. Init => RecordingInvariant
  BY RecordingInit
<1>2. RecordingInvariant /\ [Next]_vars => RecordingInvariant'
  BY RecordingStep
<1>3. QED
  BY <1>1, <1>2, PTL DEF Spec
-----------------------------------------------------------------------------
(* However the history is locked, paused, filtered, shortened and updated, *)
(* and wherever the monitor looks meanwhile, its latest state is what the  *)
(* application's actions made of it (PERFORM_ACTION, PAUSE_RECORDING,      *)
(* UPDATE and filterLiftedState), for any maxAge and any blocklist.        *)
THEOREM TransparentTheorem ==
  ASSUME UndefinedIsNoValue, Recording
  PROVE  Spec => []Transparent
<1>1. RecordingInvariant => Transparent
  <2>1. SUFFICES ASSUME RecordingInvariant PROVE Transparent
    OBVIOUS
  <2> DEFINE l == lifted
             n == Len(l.stagedActionIds)
             c == l.computedStates
  <2>2. /\ n \in Nat \ {0} /\ c \in Seq(Entries) /\ Len(c) = n
        /\ l.currentStateIndex \in Nat /\ \A i \in 1 .. n : c[i] \in Entries
        /\ c[n].state = accepted
    BY <2>1, ShownFacts DEF RecordingInvariant
  <2>3. Last(c) = c[n] /\ c[n] # Undefined
    <3>1. n \in 1 .. n
      BY <2>2
    <3>2. QED
      BY <2>2, <3>1 DEF Last, UndefinedIsNoValue
  <2>4. ASSUME ~InPast(l) PROVE unliftState(l) = accepted
    <3>1. l.currentStateIndex >= Len(c) \/ l.currentStateIndex + 1 = n
      BY <2>2, <2>4 DEF InPast
    <3>2. QED
      BY <2>2, <2>3, <3>1 DEF unliftState
  <2>5. QED
    BY <2>2, <2>3, <2>4 DEF Transparent
<1>2. QED
  BY <1>1, RecordingInvariance, PTL

(* In this setting the history never outgrows maxAge (commitExcessActions).*)
THEOREM MaxAgeTheorem ==
  ASSUME UndefinedIsNoValue, Recording
  PROVE  Spec => MaxAgeKept
<1> DEFINE A == MaxAge # 0 /\ performed' # performed /\ ~lifted.isPaused
                  /\ (\A entry \in ToSet(lifted.computedStates) : ~entry.error)
                => Len(lifted'.stagedActionIds) <= MaxAge
<1>1. RecordingInvariant /\ [Next]_vars => [A]_vars
  <2>1. SUFFICES ASSUME RecordingInvariant, Next, performed' # performed,
                        MaxAge # 0, ~lifted.isPaused
                 PROVE  Len(lifted'.stagedActionIds) <= MaxAge
    OBVIOUS
  <2>2. RecordingInvariant' /\ lifted'.isPaused = lifted.isPaused
    BY <2>1, RecordingStep
  <2>3. QED
    BY <2>1, <2>2, DevtoolsAssumption DEF RecordingInvariant, Within
<1>2. QED
  BY <1>1, RecordingInvariance, PTL DEF Spec, MaxAgeKept

(* While the application looks at an earlier state its actions move the    *)
(* view only with the committed state, when it is of that one and maxAge   *)
(* commits the action after it (commitExcessActions): with all commands    *)
(* but pausing and without filters, or with filters and pausing but no     *)
(* time travel other than jumps.                                           *)
THEOREM PastTheorem ==
  ASSUME UndefinedIsNoValue, Recorded \/ Recording
  PROVE  Spec => PastStaysInView
<1> DEFINE A == performed' # performed /\ InPast(lifted)
                => KeepsView(lifted, lifted')
<1>1. CASE Recorded
  <2>1. HistoryInvariant /\ [Next]_vars => [A]_vars
    BY <1>1, RecordedPast
  <2>2. QED
    BY <1>1, <2>1, Invariance, PTL DEF Spec, PastStaysInView
<1>2. CASE Recording
  <2>1. RecordingInvariant /\ [Next]_vars => [A]_vars
    BY <1>2, RecordingStep
  <2>2. QED
    BY <1>2, <2>1, RecordingInvariance, PTL DEF Spec, PastStaysInView
<1>3. QED
  BY <1>1, <1>2

(* Recording resumes from the state in view and goes on showing it, however *)
(* the history was recorded, blocked, trimmed, updated and paused before;  *)
(* with the pointer behind the entries the stream dies (PAUSE_RECORDING).  *)
THEOREM ResumeTheorem ==
  ASSUME UndefinedIsNoValue, Recording
  PROVE  Spec => ResumeKeepsState
<1> DEFINE A == PauseRecording /\ ~message.status
                => IF lifted.currentStateIndex < Len(lifted.stagedActionIds)
                   THEN alive' /\ unliftState(lifted') = unliftState(lifted)
                   ELSE ~alive'
<1>1. RecordingInvariant /\ [Next]_vars => [A]_vars
  <2>1. SUFFICES ASSUME RecordingInvariant, PauseRecording, ~message.status PROVE A
    OBVIOUS
  <2> DEFINE l == lifted
             u == Resume(l)
             k == filterLiftedState(u)
             seen == IF InPast(l) THEN unliftState(l) ELSE accepted
  <2>2. /\ alive' = (k # Undefined)
        /\ lifted' = IF k = Undefined THEN lifted ELSE k
    BY <2>1 DEF PauseRecording, Arrives, Scan
  <2>3. broken \in BOOLEAN /\ Shown(l, accepted)
    BY <2>1 DEF RecordingInvariant
  <2>4. InRange(l) <=> lifted.currentStateIndex < Len(lifted.stagedActionIds)
    BY DEF InRange
  <2>5. u # Undefined <=> InRange(l)
    BY <2>3, ResumeDefined
  <2>6. CASE InRange(l)
    <3>1. u = Resume(l) /\ k = filterLiftedState(u)
      OBVIOUS
    <3> HIDE DEF u, k, l, seen
    <3>2. Shown(u, seen) /\ Within(u) /\ unliftState(u) = unliftState(l)
      BY <2>3, <2>5, <2>6, <3>1, ResumeShown DEF seen
    <3>3. k # Undefined
      BY <3>1, <3>2, FilteredShown
    <3>4. SameRecord(u, k)
      BY <3>1, <3>2, FilterKeeps
    <3>5. unliftState(k) = unliftState(u)
      BY <3>4 DEF SameRecord, unliftState
    <3>6. QED
      BY <2>2, <2>4, <2>6, <3>2, <3>3, <3>5 DEF l
  <2>7. CASE ~InRange(l)
    <3>1. k = Undefined
      BY <2>5, <2>7 DEF filterLiftedState
    <3>2. QED
      BY <2>2, <2>4, <2>7, <3>1
  <2>8. QED
    BY <2>6, <2>7
<1>2. QED
  BY <1>1, RecordingInvariance, PTL DEF Spec, ResumeKeepsState
=============================================================================
