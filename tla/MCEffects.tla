----------------------------- MODULE MCEffects -----------------------------
(* Three instances, two of them of one class: first has a dispatching      *)
(* effect, second a { dispatch: false } one, third is another instance of  *)
(* first's class whose effect does without the error handler.              *)
EXTENDS Effects

CONSTANTS i1, i2, i3, e1, e2, e3, classA, classB, A

MCInstances == {i1, i2, i3}
MCGroup == (i1 :> classA) @@ (i2 :> classB) @@ (i3 :> classA)
MCEffectSet == {e1, e2, e3}
MCOwner == (e1 :> i1) @@ (e2 :> i2) @@ (e3 :> i3)
MCCalls == {<<i1, i2>>, <<i3>>}
MCSubscriptions == MCEffectSet \X (0 .. MaxErrors)
MCTypes == {A, Output, OnInit, ROOT_EFFECTS_INIT}
MCHandles == <<>>
=============================================================================
