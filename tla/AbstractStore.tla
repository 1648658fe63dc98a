---------------------------- MODULE AbstractStore ----------------------------
(***************************************************************************)
(* What the store promises, without its queue and callbacks: actions are   *)
(* applied one at a time in the order they were submitted, and an action   *)
(* is applied only when every watcher of the state was shown the result of *)
(* the one before and every member of the audience was told of it; the     *)
(* audience is told of an action only after the watchers were shown.       *)
(***************************************************************************)
EXTENDS Naturals, Sequences, SequencesExt

CONSTANTS
  Actions,    (* What may be submitted.                                   *)
  First,      (* The action every store starts with.                      *)
  Watchers,   (* Those who may watch the state.                           *)
  Audience    (* Those who may listen to the applied actions.             *)

VARIABLES
  submitted,  (* The actions, in the order they were submitted.           *)
  applied,    (* The actions applied.                                     *)
  halted,     (* No action is ever applied again.                         *)
  watching,   (* The subset of Watchers that watch.                       *)
  listening,  (* The subset of Audience that listens.                     *)
  shown,      (* shown[w]: the results watcher w was shown, by position.  *)
  told        (* told[l]: the actions listener l was told, by position.   *)

vars == <<submitted, applied, halted, watching, listening, shown, told>>

Now == Len(applied)

Init ==
  /\ submitted = <<First>>
  /\ applied = <<>>
  /\ halted = FALSE
  /\ watching = {}
  /\ listening = {}
  /\ shown = [w \in Watchers |-> <<>>]
  /\ told = [l \in Audience |-> <<>>]

AllShown == \A w \in watching : Last(shown[w]) = Now
AllTold == \A l \in listening : told[l] # <<>> => Last(told[l]) = Now

Submit(action) ==
  /\ ~halted
  /\ submitted' = Append(submitted, action)
  /\ UNCHANGED <<applied, halted, watching, listening, shown, told>>

Apply ==
  /\ ~halted
  /\ AllShown
  /\ AllTold
  /\ Now < Len(submitted)
  /\ applied' = Append(applied, submitted[Now + 1])
  /\ UNCHANGED <<submitted, halted, watching, listening, shown, told>>

Show(w) ==
  /\ w \in watching
  /\ Last(shown[w]) + 1 = Now
  /\ shown' = [shown EXCEPT ![w] = Append(@, Now)]
  /\ UNCHANGED <<submitted, applied, halted, watching, listening, told>>

Tell(l) ==
  /\ l \in listening
  /\ AllShown
  /\ told[l] # <<>> => Last(told[l]) + 1 = Now
  /\ told' = [told EXCEPT ![l] = Append(@, Now)]
  /\ UNCHANGED <<submitted, applied, halted, watching, listening, shown>>

Watch(w) ==
  /\ w \in Watchers \ watching
  /\ watching' = watching \cup {w}
  /\ shown' = [shown EXCEPT ![w] = <<Now>>]
  /\ UNCHANGED <<submitted, applied, halted, listening, told>>

Listen(l) ==
  /\ l \in Audience \ listening
  /\ listening' = listening \cup {l}
  /\ told[l] = <<>>
  /\ UNCHANGED <<submitted, applied, halted, watching, shown, told>>

Leave ==
  /\ watching' \in SUBSET watching
  /\ listening' \in SUBSET listening
  /\ UNCHANGED <<submitted, applied, halted, shown, told>>

Halt ==
  /\ halted' = TRUE
  /\ watching' \in SUBSET watching
  /\ listening' \in SUBSET listening
  /\ UNCHANGED <<submitted, applied, shown, told>>

Next ==
  \/ \E action \in Actions : Submit(action)
  \/ Apply
  \/ \E w \in Watchers : Show(w) \/ Watch(w)
  \/ \E l \in Audience : Tell(l) \/ Listen(l)
  \/ Leave
  \/ Halt

Spec == Init /\ [][Next]_vars
=============================================================================
