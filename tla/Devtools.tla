------------------------------ MODULE Devtools ------------------------------
(***************************************************************************)
(* The lifted reducer of @ngrx/store-devtools.  With the devtools provided *)
(* they replace State: the application reads the computed state that       *)
(* currentStateIndex points at, of a history that the monitor (a panel in  *)
(* a browser extension) locks, pauses, toggles, sweeps, commits, imports   *)
(* and travels in.                                                         *)
(*                                                                         *)
(* The application's actions reach the reducer as they are dispatched.     *)
(* What the monitor asks for is chosen from the history it was shown last  *)
(* and arrives as a message, in a later task, after other actions perhaps. *)
(***************************************************************************)
EXTENDS Naturals, Sequences, SequencesExt, FiniteSetsExt, Functions

CONSTANTS
  Kinds,         (* Kinds of application actions: "plain"; "bad", on which *)
                 (* a broken reducer throws; "blocked", which the config's *)
                 (* blocklist, safelist or predicate filters out.          *)
  Commands,      (* Types of the messages the monitor sends.               *)
  MaxAge,        (* config.maxAge, 0 for none.                             *)
  Safelist,      (* The config filters by a safelist, so that the actions  *)
                 (* of the devtools and of the store are filtered as well. *)
  Broken,        (* The reducer the application starts with throws.        *)
  MaxActions,    (* Application actions ever performed. Bounds the model.  *)
  MaxUpdates,    (* Updates of the reducer. Bounds the model.              *)
  MaxMessages,   (* Messages ever sent. Bounds the model.                  *)
  Undefined      (* JavaScript's undefined; also what a TypeError leaves.  *)

ASSUME DevtoolsAssumption ==
  /\ Kinds \subseteq {"plain", "bad", "blocked"}
  /\ MaxAge \in Nat \ {1}        \* createConfig refuses 1
  /\ Safelist \in BOOLEAN /\ Broken \in BOOLEAN
  /\ MaxActions \in Nat /\ MaxUpdates \in Nat /\ MaxMessages \in Nat

VARIABLES
  lifted,     (* The LiftedState.                                         *)
  alive,      (* The scan of lifted actions has not failed.               *)
  broken,     (* The current reducer throws on a "bad" action.            *)
  message,    (* The monitor's message under way, or Undefined.           *)
  exported,   (* The LiftedState the monitor saved, or Undefined.         *)
  performed,  (* Number of application actions performed.                 *)
  updates,    (* Number of updates of the reducer.                        *)
  messages,   (* Number of messages sent.                                 *)
  pending,    (* An UPDATE is queued behind actions dispatched before it. *)
  accepted    (* History: the actions the latest state is to show, those  *)
              (* performed while nothing was locked.                      *)

counters == <<performed, updates, messages>>
vars == <<lifted, alive, broken, message, exported, counters, pending,
          accepted>>

(* The application's reducer.  Its state is the sequence of the actions it *)
(* handled, by number; actions that are not the application's own leave it *)
(* as it is.                                                               *)
Action(kind, n) == [kind |-> kind, n |-> n]
INIT == Action("init", 0)
PAUSE == Action("pause", 0)
UPDATE == Action("update", 0)
Throws(action) == action.kind = "bad" /\ broken
Reducer(s, action) == IF action.kind \in Kinds THEN Append(s, action.n) ELSE s

Filters == Safelist \/ "blocked" \in Kinds
isActionFiltered(action) ==
  action.kind = "blocked" \/ (Safelist /\ action.kind \notin Kinds)
-----------------------------------------------------------------------------
(* computeNextEntry.                                                       *)
Entry(s, error) == [state |-> s, error |-> error]

computeNextEntry(entry, action) ==
  IF entry.error \/ Throws(action) THEN Entry(entry.state, TRUE)
  ELSE Entry(Reducer(entry.state, action), FALSE)

(* entries[i] of a JavaScript array: the index counts from 0.              *)
At(entries, i) == IF i < Len(entries) THEN entries[i + 1] ELSE Undefined
LastOf(entries) == IF entries = <<>> THEN Undefined ELSE Last(entries)

(* The entry of the action with this id, which comes after the previous    *)
(* entry or, if there is none, after the committed state.                  *)
Following(l, id, previous) ==
  IF id \in l.skippedActionIds THEN previous
  ELSE computeNextEntry(IF previous = Undefined
                        THEN Entry(l.committedState, FALSE) ELSE previous,
                        l.actionsById[id])

(* recomputeStates: the first kept entries stay; while paused the last     *)
(* entry, which holds what was performed since, is not computed.           *)
recomputeStates(l, kept) ==
  LET included == Len(l.stagedActionIds) - (IF l.isPaused THEN 1 ELSE 0)
      entry[i \in 0 .. included] ==
        IF i <= kept THEN IF i = 0 THEN Undefined ELSE l.computedStates[i]
        ELSE Following(l, l.stagedActionIds[i], entry[i - 1])
  IN IF kept >= Len(l.computedStates)
        /\ Len(l.computedStates) = Len(l.stagedActionIds)
     THEN l
     ELSE [l EXCEPT !.computedStates =
             [i \in 1 .. included |-> entry[i]]
               \o (IF l.isPaused THEN <<LastOf(l.computedStates)>> ELSE <<>>)]

(* liftInitialState and the first action, INIT, which the dispatcher       *)
(* starts with.                                                            *)
Start(l, committed) ==
  [l EXCEPT !.actionsById = [id \in {0} |-> INIT], !.nextActionId = 1,
            !.stagedActionIds = <<0>>, !.skippedActionIds = {},
            !.committedState = committed, !.currentStateIndex = 0,
            !.computedStates = <<>>]

liftInitialState ==
  [actionsById |-> [id \in {0} |-> INIT], nextActionId |-> 1,
   stagedActionIds |-> <<0>>, skippedActionIds |-> {},
   committedState |-> <<>>, currentStateIndex |-> 0,
   computedStates |-> <<>>, isLocked |-> FALSE, isPaused |-> FALSE]

(* unliftState: what the application's subscribers are shown.              *)
unliftState(l) ==
  LET entry == IF l.currentStateIndex >= Len(l.computedStates)
               THEN Last(l.computedStates)
               ELSE l.computedStates[l.currentStateIndex + 1]
  IN IF entry = Undefined THEN Undefined ELSE entry.state

(* Mutant: the pointer is not moved with the actions.                      *)
ShiftedNot(index, excess) == index

(* The application looks at an earlier state than the latest.              *)
InPast(l) == l.currentStateIndex < Len(l.stagedActionIds) - 1

(* Where the pointer goes when excess actions leave the history.           *)
Shifted(index, excess) == IF index > excess THEN index - excess ELSE 0

(* commitExcessActions(n): the oldest actions up to the first error become *)
(* part of the committed state.                                            *)
commitExcessActions(l, n) ==
  LET errors == {i \in 0 .. n - 1 : l.computedStates[i + 2].error}
      excess == IF errors = {} THEN n ELSE Min(errors)
      gone == ToSet(SubSeq(l.stagedActionIds, 2, excess + 1))
  IN [l EXCEPT
       !.actionsById = Restrict(@, DOMAIN @ \ gone),
       !.skippedActionIds = @ \ gone,
       !.stagedActionIds = <<0>> \o SubSeq(@, excess + 2, Len(@)),
       !.committedState = l.computedStates[excess + 1].state,
       !.computedStates = SubSeq(@, excess + 1, Len(@)),
       !.currentStateIndex = Shifted(@, excess)]

(* Mutants: the state after the current one, and the last, is committed.   *)
commitNext(l) ==
  LET entry == At(l.computedStates, l.currentStateIndex + 1)
  IN IF entry = Undefined THEN Undefined ELSE Start(l, entry.state)
commitLast(l) ==
  LET entry == LastOf(l.computedStates)
  IN IF entry = Undefined THEN Undefined ELSE Start(l, entry.state)

(* commitChanges: a TypeError when the current entry is undefined.         *)
commitChanges(l) ==
  LET entry == At(l.computedStates, l.currentStateIndex)
  IN IF entry = Undefined THEN Undefined ELSE Start(l, entry.state)

(* A new action at the end of the history; a pointer at the end follows.   *)
Stage(l, action) ==
  [l EXCEPT
    !.currentStateIndex = IF @ = Len(l.stagedActionIds) - 1 THEN @ + 1 ELSE @,
    !.actionsById = [id \in DOMAIN @ \cup {l.nextActionId} |->
                       IF id = l.nextActionId THEN action ELSE @[id]],
    !.nextActionId = @ + 1,
    !.stagedActionIds = Append(@, l.nextActionId)]
-----------------------------------------------------------------------------
(* Mutant: the action is computed on the state in view.                    *)
OverwriteCurrent(l, action) ==
  LET current == At(l.computedStates, l.currentStateIndex)
  IN IF current = Undefined THEN Undefined
     ELSE [l EXCEPT !.computedStates =
             Append(Front(@), computeNextEntry(current, action))]

(* PERFORM_ACTION that is not recorded: the last computed state takes it.  *)
Overwrite(l, action) ==
  LET last == LastOf(l.computedStates)
  IN IF last = Undefined THEN Undefined
     ELSE [l EXCEPT !.computedStates =
             Append(Front(@), computeNextEntry(last, action))]

(* Mutant: the check comes one action late.                                *)
FullLate(l) == MaxAge # 0 /\ Len(l.stagedActionIds) > MaxAge

(* The history has maxAge actions, to the number.                          *)
Full(l) == MaxAge # 0 /\ Len(l.stagedActionIds) = MaxAge

Perform(l, action) ==
  IF l.isLocked THEN l
  ELSE IF l.isPaused \/ isActionFiltered(action) THEN Overwrite(l, action)
  ELSE LET room == IF Full(l) THEN commitExcessActions(l, 1) ELSE l
       IN recomputeStates(Stage(room, action), Len(room.stagedActionIds))

(* UPDATE: with an error in the history everything is computed again, else *)
(* the update is an entry of the history itself.  RECOMPUTE changes        *)
(* nothing in the application's state.                                     *)
Update(l) ==
  LET Trimmed(k) ==
        IF MaxAge # 0 /\ Len(k.stagedActionIds) > MaxAge
        THEN commitExcessActions(k, Len(k.stagedActionIds) - MaxAge) ELSE k
      Latest(k) == [k EXCEPT !.currentStateIndex = Len(k.stagedActionIds) - 1]
  IN IF Undefined \in ToSet(l.computedStates) THEN Undefined
     ELSE IF \E entry \in ToSet(l.computedStates) : entry.error
     THEN Trimmed(recomputeStates(l, 0))
     ELSE IF l.isPaused \/ l.isLocked THEN Trimmed(Latest(l))
     ELSE Trimmed(Latest(recomputeStates(Stage(l, UPDATE),
                                         Len(l.stagedActionIds))))

(* PAUSE_RECORDING, on and off.                                            *)
Pause(l) ==
  [Stage(l, PAUSE) EXCEPT !.isPaused = TRUE,
                          !.computedStates = Append(@, LastOf(@))]

Recommit(l) == IF l = Undefined THEN l ELSE recomputeStates(l, 0)

Resume(l) == Recommit(commitChanges([l EXCEPT !.isPaused = FALSE]))

(* stagedActionIds.indexOf(id), of an action that is staged.               *)
IndexOf(l, id) == SelectInSeq(l.stagedActionIds, LAMBDA x : x = id) - 1

(* Mutant: computing starts behind the action.                             *)
FromActionLate(l, id) ==
  IF Contains(l.stagedActionIds, id)
  THEN recomputeStates(l, IndexOf(l, id) + 1)
  ELSE Undefined

(* From an action that is not staged, computing fails with a TypeError.    *)
FromAction(l, id) ==
  IF Contains(l.stagedActionIds, id)
  THEN recomputeStates(l, IndexOf(l, id))
  ELSE Undefined

Toggle(l, id) ==
  FromAction([l EXCEPT !.skippedActionIds =
                IF id \in @ THEN @ \ {id} ELSE @ \cup {id}], id)

SetActionsActive(l, start, end, active) ==
  FromAction([l EXCEPT !.skippedActionIds =
                IF active THEN @ \ (start .. end - 1)
                          ELSE @ \cup (start .. end - 1)],
             start)

JumpToAction(l, id) ==
  IF Contains(l.stagedActionIds, id)
  THEN [l EXCEPT !.currentStateIndex = IndexOf(l, id)]
  ELSE l

Unskipped(l) ==
  FoldLeft(LAMBDA ids, id :
             IF id \in l.skippedActionIds THEN ids ELSE Append(ids, id),
           <<>>, l.stagedActionIds)
Clamped(index, staged) ==
  IF index < Len(staged) THEN index ELSE Len(staged) - 1

(* SWEEP drops the skipped actions.                                        *)
Sweep(l) ==
  LET staged == Unskipped(l)
  IN recomputeStates(
       [l EXCEPT !.stagedActionIds = staged, !.skippedActionIds = {},
                 !.currentStateIndex = Clamped(@, staged)],
       0)

(* The positions of the staged actions that no filter drops: INIT's and    *)
(* those of the others that pass.                                          *)
Stays(l, i) ==
  i = 1 \/ ~isActionFiltered(l.actionsById[l.stagedActionIds[i]])
Staying(l) ==
  FoldLeft(LAMBDA kept, i : IF Stays(l, i) THEN Append(kept, i) ELSE kept,
           <<>>, [i \in DOMAIN l.stagedActionIds |-> i])

(* filterLiftedState, after every lifted action but PERFORM_ACTION.        *)
filterLiftedState(l) ==
  LET kept == Staying(l)
      Picked(s) == [j \in DOMAIN kept |-> s[kept[j]]]
  IN IF l = Undefined \/ ~Filters THEN l
     ELSE [l EXCEPT !.stagedActionIds = Picked(@),
                    !.computedStates = Picked(@),
                    !.actionsById =
                      Restrict(@, ToSet(Picked(l.stagedActionIds)))]
-----------------------------------------------------------------------------
Init ==
  /\ broken = Broken
  /\ lifted = recomputeStates(liftInitialState, 0)
  /\ alive = TRUE
  /\ message = Undefined
  /\ exported = Undefined
  /\ performed = 0
  /\ updates = 0
  /\ messages = 0
  /\ pending = FALSE
  /\ accepted = <<>>

(* The scan goes on with the reducer's result or fails with its TypeError. *)
Scan(result) ==
  /\ alive
  /\ alive' = (result # Undefined)
  /\ lifted' = IF result = Undefined THEN lifted ELSE result

PerformAction(kind) ==
  /\ performed < MaxActions
  /\ LET action == Action(kind, performed + 1) IN
       /\ Scan(Perform(lifted, action))
       /\ accepted' = IF lifted.isLocked THEN accepted
                      ELSE Append(accepted, action.n)
  /\ performed' = performed + 1
  /\ UNCHANGED <<broken, message, exported, updates, messages, pending>>

(* A feature is registered, or a hot reload mends the reducer: the new     *)
(* reducer is in force at once, the UPDATE action is dispatched.           *)
UpdateReducer ==
  /\ alive /\ ~pending
  /\ updates < MaxUpdates
  /\ updates' = updates + 1
  /\ broken' \in {broken, FALSE}
  /\ pending' = TRUE
  /\ UNCHANGED <<lifted, alive, message, exported, performed, messages,
                 accepted>>

PerformUpdate ==
  /\ pending
  /\ pending' = FALSE
  /\ Scan(filterLiftedState(Update(lifted)))
  /\ UNCHANGED <<broken, message, exported, counters, accepted>>
-----------------------------------------------------------------------------
(* The monitor asks for something, going by the history it was shown.      *)
Command(type, id, end, status) ==
  [type |-> type, id |-> id, end |-> end, status |-> status]

Steps == {id \in ToSet(lifted.stagedActionIds) : id # 0}

Requests ==
  {Command("LOCK_CHANGES", 0, 0, ~lifted.isLocked),
   Command("PAUSE_RECORDING", 0, 0, ~lifted.isPaused)}
  \cup {Command(type, 0, 0, TRUE) :
          type \in {"RESET", "COMMIT", "ROLLBACK", "SWEEP"}}
  \cup {Command(type, id, 0, TRUE) :
          type \in {"TOGGLE_ACTION", "JUMP_TO_ACTION"}, id \in Steps}
  \cup {Command("JUMP_TO_STATE", i, 0, TRUE) :
          i \in 0 .. Len(lifted.stagedActionIds) - 1}
  \cup {Command("SET_ACTIONS_ACTIVE", id, end + 1, active) :
          id \in Steps, end \in Steps, active \in BOOLEAN}
  \cup {Command("IMPORT_STATE", 0, 0, TRUE) : l \in {exported} \ {Undefined}}

(* The monitor has one message under way at a time.                        *)
Ask(command) ==
  /\ alive /\ ~pending
  /\ message = Undefined
  /\ messages < MaxMessages
  /\ command.type \in Commands
  /\ message' = command
  /\ messages' = messages + 1
  /\ UNCHANGED <<lifted, alive, broken, exported, performed, updates, pending,
                 accepted>>

(* The monitor keeps the history to import it later.                       *)
Export ==
  /\ "IMPORT_STATE" \in Commands
  /\ alive /\ ~pending
  /\ exported = Undefined
  /\ exported' = lifted
  /\ UNCHANGED <<lifted, alive, broken, message, counters, pending, accepted>>

(* Its message arrives.                                                    *)
Arrives(type, Reduced(_)) ==
  /\ ~pending
  /\ message # Undefined
  /\ message.type = type
  /\ message' = Undefined
  /\ Scan(filterLiftedState(Reduced(lifted)))
  /\ UNCHANGED <<broken, exported, counters, pending>>

LockChanges ==
  Arrives("LOCK_CHANGES", LAMBDA l : [l EXCEPT !.isLocked = message.status])

(* Recording resumes from the state in view, an earlier one perhaps.       *)
PauseRecording ==
  /\ Arrives("PAUSE_RECORDING",
             LAMBDA l : IF message.status THEN Pause(l) ELSE Resume(l))
  /\ accepted' = IF ~message.status /\ InPast(lifted) THEN unliftState(lifted)
                                                     ELSE accepted

Reset == Arrives("RESET", LAMBDA l : recomputeStates(Start(l, <<>>), 0))

Commit == Arrives("COMMIT", LAMBDA l : Recommit(commitChanges(l)))

Rollback ==
  Arrives("ROLLBACK", LAMBDA l : recomputeStates(Start(l, l.committedState), 0))

ToggleAction == Arrives("TOGGLE_ACTION", LAMBDA l : Toggle(l, message.id))

SetActive ==
  Arrives("SET_ACTIONS_ACTIVE",
          LAMBDA l : SetActionsActive(l, message.id, message.end,
                                      message.status))

JumpToState ==
  Arrives("JUMP_TO_STATE",
          LAMBDA l : [l EXCEPT !.currentStateIndex = message.id])

JumpsToAction ==
  Arrives("JUMP_TO_ACTION", LAMBDA l : JumpToAction(l, message.id))

SweepSkipped == Arrives("SWEEP", Sweep)

(* Mutant: the committed state stays the current one.                      *)
ImportOnto ==
  Arrives("IMPORT_STATE",
          LAMBDA l : recomputeStates(
            [exported EXCEPT !.committedState = l.committedState], 0))

ImportState == Arrives("IMPORT_STATE", LAMBDA l : recomputeStates(exported, 0))

Monitor ==
  \/ PauseRecording
  \/ /\ \/ LockChanges
        \/ Reset \/ Commit \/ Rollback \/ SweepSkipped \/ ImportState
        \/ ToggleAction \/ SetActive
        \/ JumpToState \/ JumpsToAction
     /\ UNCHANGED accepted

Next ==
  \/ \E kind \in Kinds : PerformAction(kind)
  \/ UpdateReducer
  \/ PerformUpdate
  \/ \E command \in Requests : Ask(command)
  \/ Export
  \/ Monitor

Spec == Init /\ [][Next]_vars
-----------------------------------------------------------------------------
(* The application always has a state to read.                             *)
AppHasState == alive /\ unliftState(lifted) # Undefined

(* The last state the history holds under the reducer, computed anew.      *)
Replayed(l) ==
  recomputeStates([l EXCEPT !.computedStates = <<>>], 0).computedStates

(* Whatever is toggled, swept, committed, imported or travelled to, and    *)
(* however little each handler recomputes, the history is what replaying   *)
(* the staged actions that are not skipped from the committed state gives. *)
HistoryReplays ==
  ~pending => lifted.computedStates = Replayed(lifted)

(* Recording is transparent: locking, pausing, filtering, committing old   *)
(* actions and updating the reducer never lose, repeat or reorder what     *)
(* the application's actions did, wherever the application looks.          *)
Transparent ==
  /\ Last(lifted.computedStates).state = accepted
  /\ ~InPast(lifted) => unliftState(lifted) = accepted

(* An action that leads from l to k has not moved the state in view, unless *)
(* the view is of the committed state and this takes in the action that    *)
(* came next: it then shows what that action made, or the latest state if  *)
(* no other action was staged.                                             *)
KeepsView(l, k) ==
  IF l.currentStateIndex = 0 /\ k.stagedActionIds[2] # l.stagedActionIds[2]
  THEN InPast(k) => unliftState(k) = l.computedStates[2].state
  ELSE unliftState(k) = unliftState(l)

(* While the application looks at an earlier state, its actions move the   *)
(* view only with the committed state (commitExcessActions with the        *)
(* pointer at 0): of any later entry it stays, however many older actions  *)
(* are committed to make room.                                             *)
PastStaysInView ==
  [][performed' # performed /\ InPast(lifted)
     => KeepsView(lifted, lifted')]_vars

(* An exported history that is imported shows what it showed, whatever was *)
(* done between; one with an error may show more under a mended reducer.   *)
ImportRestores ==
  [][ImportState /\ (\A entry \in ToSet(exported.computedStates) : ~entry.error)
     => unliftState(lifted') = unliftState(exported)]_vars

(* COMMIT changes the history, not the state in view.                      *)
CommitKeepsState ==
  [][Commit => alive' /\ unliftState(lifted') = unliftState(lifted)]_vars

(* Recording resumes from the state in view and shows it, whatever was     *)
(* performed, blocked, trimmed and updated while it was paused, wherever   *)
(* the monitor has jumped meanwhile.  It fails where the jump came late:   *)
(* to an entry that an update had trimmed away since it was chosen.        *)
ResumeKeepsState ==
  [][PauseRecording /\ ~message.status
     => IF lifted.currentStateIndex < Len(lifted.stagedActionIds)
        THEN alive' /\ unliftState(lifted') = unliftState(lifted)
        ELSE ~alive']_vars

(* Once a history has no error, an action leaves it within maxAge.         *)
MaxAgeKept ==
  [][MaxAge # 0 /\ performed' # performed /\ ~lifted.isPaused
       /\ (\A entry \in ToSet(lifted.computedStates) : ~entry.error)
     => Len(lifted'.stagedActionIds) <= MaxAge]_vars
=============================================================================
