------------------------------ MODULE MCStore ------------------------------
(* A small instance of the store: one root feature and one lazy feature    *)
(* that answer to different types.  Subscribers of a kind are alike.       *)
EXTENDS Store

CONSTANTS root, lazy, A, B, Boom

MCHandles == (root :> {A}) @@ (lazy :> {A, B})

MCHandlesNone == <<>>

MCRootFeatures == {root}
MCFeatures == {root, lazy}
MCTypes == {A, B}
MCTypesBoom == {A, Boom}

Alike == Permutations(Observers) \cup Permutations(Listeners)
=============================================================================
