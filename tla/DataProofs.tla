----------------------------- MODULE DataProofs -----------------------------
(***************************************************************************)
(* Proof that what the change tracker of @ngrx/data tracks suffices to     *)
(* undo every change: for any entities, values and number of requests.     *)
(*                                                                         *)
(* First what the operations of adapter and tracker do to the maps of a    *)
(* collection, then that each operation of the reducer keeps the cache in  *)
(* agreement with what the client last knew, entity by entity, then that   *)
(* every step of a request finds what its reduction relies on, and last    *)
(* that the loading flag means a request under way.                        *)
(***************************************************************************)
EXTENDS Data, TLAPS

(* ChangeState of the change tracker, with the types it can have.          *)
ChangeTypes == {"Added", "Updated", "Deleted"}
ChangeRecords ==
  [changeType : ChangeTypes, originalValue : Values \cup {NoValue}]

(* The states of a collection: every entity and every original value is    *)
(* one the application or the server gave.                                 *)
Collections ==
  [entities : PartialMaps(Values), changeState : PartialMaps(ChangeRecords),
   loading : BOOLEAN]

(* What it is to be a batch: a function on some of the ids.                *)
LEMMA MapFacts ==
  ASSUME NEW S, NEW m
  PROVE  m \in PartialMaps(S) <=>
           /\ m = [id \in DOMAIN m |-> m[id]] /\ DOMAIN m \subseteq Ids
           /\ \A id \in DOMAIN m : m[id] \in S
<1>1. ASSUME m \in PartialMaps(S)
      PROVE  /\ m = [id \in DOMAIN m |-> m[id]] /\ DOMAIN m \subseteq Ids
             /\ \A id \in DOMAIN m : m[id] \in S
  BY <1>1 DEF PartialMaps
<1>2. ASSUME m = [id \in DOMAIN m |-> m[id]], DOMAIN m \subseteq Ids,
             \A id \in DOMAIN m : m[id] \in S
      PROVE  m \in PartialMaps(S)
  <2>1. m \in [DOMAIN m -> S]
    BY <1>2
  <2>2. QED
    BY <2>1, <1>2 DEF PartialMaps
<1>3. QED
  BY <1>1, <1>2

(* A function on some of the ids is a batch.                               *)
LEMMA MapOf ==
  ASSUME NEW S, NEW ids \in SUBSET Ids, NEW m \in [ids -> S]
  PROVE  m \in PartialMaps(S)
BY DEF PartialMaps

(* A batch over a batch is a batch.                                        *)
LEMMA OverlayType ==
  ASSUME NEW S, NEW f \in PartialMaps(S), NEW g \in PartialMaps(S)
  PROVE  Overlay(f, g) \in PartialMaps(S)
BY MapFacts DEF Overlay

(* A part of a batch is a batch.                                           *)
LEMMA RestrictType ==
  ASSUME NEW S, NEW f \in PartialMaps(S), NEW ids
  PROVE  Restrict(f, DOMAIN f \cap ids) \in PartialMaps(S)
BY MapFacts DEF Restrict

(* What is left of a batch is a batch.                                     *)
LEMMA DropType ==
  ASSUME NEW S, NEW f \in PartialMaps(S), NEW ids
  PROVE  Drop(f, ids) \in PartialMaps(S)
BY MapFacts DEF Restrict, Drop

(* The empty tuple is the empty batch.                                     *)
LEMMA EmptyFacts ==
  ASSUME NEW S
  PROVE  << >> \in PartialMaps(S) /\ DOMAIN << >> = {}
<1>1. DOMAIN << >> = {}
  OBVIOUS
<1>2. << >> = [id \in {} |-> << >>[id]]
  OBVIOUS
<1>3. QED
  BY <1>1, <1>2, MapFacts

(* Setting the entities leaves the changes and the loading flag.           *)
LEMMA SetAllFacts ==
  ASSUME NEW c \in Collections, NEW e \in PartialMaps(Values)
  PROVE  /\ AdapterSetAll(e, c) \in Collections
         /\ AdapterSetAll(e, c).entities = e
         /\ AdapterSetAll(e, c).changeState = c.changeState
         /\ AdapterSetAll(e, c).loading = c.loading
BY DEF Collections, AdapterSetAll

(* Setting the changes leaves the entities and the loading flag.           *)
LEMMA SetChangesFacts ==
  ASSUME NEW c \in Collections, NEW t \in PartialMaps(ChangeRecords)
  PROVE  /\ SetChanges(t, c) \in Collections
         /\ SetChanges(t, c).entities = c.entities
         /\ SetChanges(t, c).changeState = t
         /\ SetChanges(t, c).loading = c.loading
BY DEF Collections, SetChanges

(* Setting the loading flag leaves the entities and the changes.           *)
LEMMA SetLoadingFacts ==
  ASSUME NEW c \in Collections, NEW l \in BOOLEAN
  PROVE  /\ SetLoading(c, l) \in Collections
         /\ SetLoading(c, l).entities = c.entities
         /\ SetLoading(c, l).changeState = c.changeState
         /\ SetLoading(c, l).loading = l
BY DEF Collections, SetLoading

(* The types of the parts of a collection.                                 *)
LEMMA FieldFacts ==
  ASSUME NEW c \in Collections
  PROVE  /\ c.entities \in PartialMaps(Values)
         /\ c.changeState \in PartialMaps(ChangeRecords)
         /\ c.loading \in BOOLEAN
BY DEF Collections

(* AdapterAddMany adds what is not there.                                  *)
LEMMA AddFacts ==
  ASSUME NEW c \in Collections, NEW batch \in PartialMaps(Values),
         NEW d, d = AdapterAddMany(batch, c)
  PROVE  /\ d \in Collections
         /\ d.entities = Overlay(c.entities, batch)
         /\ d.changeState = c.changeState /\ d.loading = c.loading
BY FieldFacts, OverlayType, SetAllFacts DEF AdapterAddMany

(* AdapterUpsertMany puts the batch over what is there.                    *)
LEMMA UpsertFacts ==
  ASSUME NEW c \in Collections, NEW batch \in PartialMaps(Values),
         NEW d, d = AdapterUpsertMany(batch, c)
  PROVE  /\ d \in Collections
         /\ d.entities = Overlay(batch, c.entities)
         /\ d.changeState = c.changeState /\ d.loading = c.loading
BY FieldFacts, OverlayType, SetAllFacts DEF AdapterUpsertMany

(* AdapterUpdateMany changes what is there and adds nothing.               *)
LEMMA UpdateFacts ==
  ASSUME NEW c \in Collections, NEW batch \in PartialMaps(Values),
         NEW d, d = AdapterUpdateMany(batch, c)
  PROVE  /\ d \in Collections
         /\ d.entities = [id \in DOMAIN c.entities |->
                             IF id \in DOMAIN batch THEN batch[id]
                             ELSE c.entities[id]]
         /\ d.changeState = c.changeState /\ d.loading = c.loading
<1> DEFINE rest == Restrict(batch, DOMAIN batch \cap DOMAIN c.entities)
<1>1. rest \in PartialMaps(Values)
  BY RestrictType
<1>2. d = AdapterUpsertMany(rest, c)
  BY DEF AdapterUpdateMany
<1>3. Overlay(rest, c.entities) = [id \in DOMAIN c.entities |->
                                    IF id \in DOMAIN batch THEN batch[id]
                                    ELSE c.entities[id]]
  BY DEF Overlay, Restrict
<1> HIDE DEF rest
<1>4. QED
  BY <1>1, <1>2, <1>3, UpsertFacts

(* AdapterRemoveMany removes the ids, and changes nothing that is tracked. *)
LEMMA RemoveFacts ==
  ASSUME NEW c \in Collections, NEW ids,
         NEW d, d = AdapterRemoveMany(ids, c)
  PROVE  /\ d \in Collections
         /\ d.entities = Drop(c.entities, ids)
         /\ d.changeState = c.changeState /\ d.loading = c.loading
BY DropType, SetAllFacts, FieldFacts DEF AdapterRemoveMany

(* Tracking puts changes over those tracked already and leaves the         *)
(* entities.                                                               *)
LEMMA TrackFacts ==
  ASSUME NEW c \in Collections, NEW t \in PartialMaps(ChangeRecords),
         NEW d, d = Track(t, c)
  PROVE  /\ d \in Collections
         /\ d.changeState = Overlay(t, c.changeState)
         /\ d.entities = c.entities /\ d.loading = c.loading
BY OverlayType, SetChangesFacts, FieldFacts DEF Track

(* commitMany forgets changes and leaves the entities.                     *)
LEMMA CommitFacts ==
  ASSUME NEW c \in Collections, NEW ids,
         NEW d, d = commitMany(ids, c)
  PROVE  /\ d \in Collections
         /\ d.changeState = Drop(c.changeState, ids)
         /\ d.entities = c.entities /\ d.loading = c.loading
BY DropType, SetChangesFacts, FieldFacts DEF commitMany
-----------------------------------------------------------------------------
(* What the cache holds of an entity agrees with what the client last      *)
(* knew, k: an added entity is unknown to the server, the originalValue of *)
(* another changed one is what the server last told, and an entity of      *)
(* which no change is tracked is as last known.                            *)
Sound(c, k, id) ==
  IF id \in Tracked(c)
  THEN IF c.changeState[id].changeType = "Added" THEN id \notin DOMAIN k
       ELSE id \in DOMAIN k /\ c.changeState[id].originalValue = k[id]
  ELSE IF id \in DOMAIN c.entities
       THEN id \in DOMAIN k /\ c.entities[id] = k[id]
       ELSE id \notin DOMAIN k
Consistent(c, k) == \A id \in Ids : Sound(c, k, id)

(* Of one entity, two collections hold the same.                           *)
Same(c, d, id) ==
  /\ id \in DOMAIN c.entities <=> id \in DOMAIN d.entities
  /\ id \in DOMAIN c.entities => d.entities[id] = c.entities[id]
  /\ id \in Tracked(c) <=> id \in Tracked(d)
  /\ id \in Tracked(c) => d.changeState[id] = c.changeState[id]

(* From c to d, nothing changed but the entities of ids.                   *)
Local(c, d, ids) == \A id \in Ids \ ids : Same(c, d, id)

(* The cache has what an optimistic save sent, and tracks it.              *)
Held(batch, c) ==
  \A id \in DOMAIN batch : /\ id \in Tracked(c) /\ id \in DOMAIN c.entities
                           /\ c.entities[id] = batch[id]

(* Adding, tracked, keeps the cache consistent: addMany and an optimistic  *)
(* saveAdd.                                                                *)
LEMMA AddKeeps ==
  ASSUME NEW c \in Collections, NEW k, Consistent(c, k),
         NEW batch \in PartialMaps(Values),
         DOMAIN batch \cap DOMAIN c.entities = {},
         NEW d, d = AdapterAddMany(batch, trackAddMany(DOMAIN batch, c))
  PROVE  /\ d \in Collections /\ d.loading = c.loading
         /\ Consistent(d, k) /\ Local(c, d, DOMAIN batch) /\ Held(batch, d)
<1> DEFINE t == [id \in DOMAIN batch \ Tracked(c) |-> Change("Added", NoValue)]
           m == Track(t, c)
<1>1. t \in PartialMaps(ChangeRecords)
  <2>1. t \in [DOMAIN batch \ Tracked(c) -> ChangeRecords]
    BY DEF Change, ChangeRecords, ChangeTypes
  <2>2. DOMAIN batch \ Tracked(c) \in SUBSET Ids
    BY MapFacts
  <2>3. QED
    BY <2>1, <2>2, MapOf
<1>2. d = AdapterAddMany(batch, m)
  BY DEF trackAddMany
<1> HIDE DEF m
<1>3. /\ m \in Collections /\ m.changeState = Overlay(t, c.changeState)
      /\ m.entities = c.entities /\ m.loading = c.loading
  BY <1>1, TrackFacts DEF m
<1>4. /\ d \in Collections /\ d.changeState = Overlay(t, c.changeState)
      /\ d.entities = Overlay(c.entities, batch) /\ d.loading = c.loading
  BY <1>2, <1>3, AddFacts
<1>5. Consistent(d, k)
  BY <1>4 DEF Consistent, Sound, Tracked, Overlay, Change
<1>6. Local(c, d, DOMAIN batch)
  BY <1>4 DEF Local, Same, Tracked, Overlay
<1>7. Held(batch, d)
  BY <1>4 DEF Held, Tracked, Overlay
<1>8. QED
  BY <1>4, <1>5, <1>6, <1>7

(* Updating, tracked first, keeps the cache consistent: updateMany and an  *)
(* optimistic saveUpdate.                                                  *)
LEMMA UpdateKeeps ==
  ASSUME NEW c \in Collections, NEW k, Consistent(c, k),
         NEW batch \in PartialMaps(Values),
         NEW d, d = AdapterUpdateMany(batch, trackUpdateMany(DOMAIN batch, c))
  PROVE  /\ d \in Collections /\ d.loading = c.loading
         /\ DOMAIN d.entities = DOMAIN c.entities
         /\ Consistent(d, k) /\ Local(c, d, DOMAIN batch)
         /\ DOMAIN batch \subseteq DOMAIN c.entities => Held(batch, d)
<1> DEFINE new == (DOMAIN batch \cap DOMAIN c.entities) \ Tracked(c)
           t == [id \in new |-> Change("Updated", c.entities[id])]
           m == Track(t, c)
<1>1. t \in PartialMaps(ChangeRecords)
  <2>1. t \in [new -> ChangeRecords]
    BY FieldFacts, MapFacts DEF Change, ChangeRecords, ChangeTypes
  <2>2. new \in SUBSET Ids
    BY MapFacts
  <2>3. QED
    BY <2>1, <2>2, MapOf
<1>2. d = AdapterUpdateMany(batch, m)
  BY DEF trackUpdateMany
<1> HIDE DEF m
<1>3. /\ m \in Collections /\ m.changeState = Overlay(t, c.changeState)
      /\ m.entities = c.entities /\ m.loading = c.loading
  BY <1>1, TrackFacts DEF m
<1>4. /\ d \in Collections /\ d.changeState = Overlay(t, c.changeState)
      /\ d.entities = [id \in DOMAIN c.entities |->
                         IF id \in DOMAIN batch THEN batch[id]
                         ELSE c.entities[id]]
      /\ d.loading = c.loading
  BY <1>2, <1>3, UpdateFacts
<1>5. ASSUME NEW id \in Ids PROVE Sound(d, k, id)
  <2>1. Sound(c, k, id)
    BY DEF Consistent
  <2>2. CASE id \in new
    <3>1. id \in Tracked(d) /\ d.changeState[id] = t[id]
      BY <1>4, <2>2 DEF Tracked, Overlay
    <3>2. QED
      BY <2>1, <2>2, <3>1 DEF Sound, Change
  <2>3. CASE id \notin new
    BY <1>4, <2>1, <2>3 DEF Sound, Tracked, Overlay
  <2>4. QED
    BY <2>2, <2>3
<1>6. Local(c, d, DOMAIN batch)
  BY <1>4 DEF Local, Same, Tracked, Overlay
<1>7. DOMAIN batch \subseteq DOMAIN c.entities => Held(batch, d)
  BY <1>4 DEF Held, Tracked, Overlay
<1>8. QED
  BY <1>4, <1>5, <1>6, <1>7 DEF Consistent

(* Upserting, tracked first, keeps the cache consistent: upsertMany and an *)
(* optimistic saveUpsert.                                                  *)
LEMMA UpsertKeeps ==
  ASSUME NEW c \in Collections, NEW k, Consistent(c, k),
         NEW batch \in PartialMaps(Values),
         NEW d, d = AdapterUpsertMany(batch, trackUpsertMany(DOMAIN batch, c))
  PROVE  /\ d \in Collections /\ d.loading = c.loading
         /\ Consistent(d, k) /\ Local(c, d, DOMAIN batch) /\ Held(batch, d)
<1> DEFINE new == DOMAIN batch \ Tracked(c)
           t == [id \in new |-> IF id \in DOMAIN c.entities
                                THEN Change("Updated", c.entities[id])
                                ELSE Change("Added", NoValue)]
           m == Track(t, c)
<1>1. t \in PartialMaps(ChangeRecords)
  <2>1. t \in [new -> ChangeRecords]
    BY FieldFacts, MapFacts DEF Change, ChangeRecords, ChangeTypes
  <2>2. new \in SUBSET Ids
    BY MapFacts
  <2>3. QED
    BY <2>1, <2>2, MapOf
<1>2. d = AdapterUpsertMany(batch, m)
  BY DEF trackUpsertMany
<1> HIDE DEF m
<1>3. /\ m \in Collections /\ m.changeState = Overlay(t, c.changeState)
      /\ m.entities = c.entities /\ m.loading = c.loading
  BY <1>1, TrackFacts DEF m
<1>4. /\ d \in Collections /\ d.changeState = Overlay(t, c.changeState)
      /\ d.entities = Overlay(batch, c.entities) /\ d.loading = c.loading
  BY <1>2, <1>3, UpsertFacts
<1>5. ASSUME NEW id \in Ids PROVE Sound(d, k, id)
  <2>1. Sound(c, k, id)
    BY DEF Consistent
  <2>2. CASE id \in new
    <3>1. id \in Tracked(d) /\ d.changeState[id] = t[id]
      BY <1>4, <2>2 DEF Tracked, Overlay
    <3>2. QED
      BY <2>1, <2>2, <3>1 DEF Sound, Change
  <2>3. CASE id \notin new
    BY <1>4, <2>1, <2>3 DEF Sound, Tracked, Overlay
  <2>4. QED
    BY <2>2, <2>3
<1>6. Local(c, d, DOMAIN batch)
  BY <1>4 DEF Local, Same, Tracked, Overlay
<1>7. Held(batch, d)
  BY <1>4 DEF Held, Tracked, Overlay
<1>8. QED
  BY <1>4, <1>5, <1>6, <1>7 DEF Consistent

(* trackDeleteMany prepares the removal of entities: what is tracked of    *)
(* each is its last known value, and one that was added is forgotten and   *)
(* stays unknown.                                                          *)
LEMMA TrackDeleteKeeps ==
  ASSUME NEW c \in Collections, NEW k, Consistent(c, k),
         NEW ids \in SUBSET Ids, NEW d, d = trackDeleteMany(ids, c)
  PROVE  /\ d \in Collections /\ d.loading = c.loading
         /\ d.entities = c.entities /\ Local(c, d, ids)
         /\ \A id \in ids \cap DOMAIN c.entities :
              /\ id \in Tracked(d) => Sound(d, k, id)
              /\ id \notin Tracked(d) => id \notin DOMAIN k
         /\ \A id \in Ids : id \notin DOMAIN c.entities => Same(c, d, id)
<1>0. \A id \in Ids : Sound(c, k, id)
  BY DEF Consistent
<1> DEFINE held == ids \cap DOMAIN c.entities
           added == {id \in held : IsTracked(c, id, "Added")}
           Original(id) == IF id \in Tracked(c)
                           THEN c.changeState[id].originalValue
                           ELSE c.entities[id]
           t == [id \in held \ added |-> Change("Deleted", Original(id))]
           m == Track(t, c)
<1>1. t \in PartialMaps(ChangeRecords)
  <2>1. t \in [held \ added -> ChangeRecords]
    BY FieldFacts, MapFacts DEF Change, ChangeRecords, ChangeTypes, Tracked
  <2>2. held \ added \in SUBSET Ids
    OBVIOUS
  <2>3. QED
    BY <2>1, <2>2, MapOf
<1>2. d = commitMany(added, m)
  BY DEF trackDeleteMany
<1> HIDE DEF m
<1>3. /\ m \in Collections /\ m.changeState = Overlay(t, c.changeState)
      /\ m.entities = c.entities /\ m.loading = c.loading
  BY <1>1, TrackFacts DEF m
<1>4. /\ d \in Collections
      /\ d.changeState = Drop(Overlay(t, c.changeState), added)
      /\ d.entities = c.entities /\ d.loading = c.loading
  BY <1>2, <1>3, CommitFacts
<1>5. Local(c, d, ids)
  BY <1>4 DEF Local, Same, Tracked, Overlay, Drop, Restrict
<1>6. ASSUME NEW id \in held
      PROVE  /\ id \in Tracked(d) => Sound(d, k, id)
             /\ id \notin Tracked(d) => id \notin DOMAIN k
  <2>0. id \in Ids
    OBVIOUS
  <2>1. Sound(c, k, id)
    BY ONLY <1>0, <2>0
  <2>2. CASE id \in added
    BY <1>4, <2>1, <2>2 DEF Sound, Tracked, IsTracked, Drop, Restrict
  <2>3. CASE id \notin added
    <3>1. id \in Tracked(d) /\ d.changeState[id] = t[id]
      BY <1>4, <2>3 DEF Tracked, Overlay, Drop, Restrict
    <3>2. QED
      BY <2>1, <2>3, <3>1 DEF Sound, Change, IsTracked
  <2>4. QED
    BY <2>2, <2>3
<1>7. \A id \in Ids : id \notin DOMAIN c.entities => Same(c, d, id)
  BY <1>4 DEF Same, Tracked, Overlay, Drop, Restrict
<1>8. QED
  BY <1>4, <1>5, <1>6, <1>7

(* Removing, tracked first, keeps the cache consistent: removeMany and an  *)
(* optimistic delete.                                                      *)
LEMMA RemoveKeeps ==
  ASSUME NEW c \in Collections, NEW k, Consistent(c, k),
         NEW ids \in SUBSET Ids,
         NEW d, d = AdapterRemoveMany(ids, trackDeleteMany(ids, c))
  PROVE  /\ d \in Collections /\ d.loading = c.loading
         /\ Consistent(d, k) /\ Local(c, d, ids)
<1> DEFINE m == trackDeleteMany(ids, c)
<1>1. /\ m \in Collections /\ m.loading = c.loading
      /\ m.entities = c.entities /\ Local(c, m, ids)
      /\ \A id \in ids \cap DOMAIN c.entities :
           /\ id \in Tracked(m) => Sound(m, k, id)
           /\ id \notin Tracked(m) => id \notin DOMAIN k
      /\ \A id \in Ids : id \notin DOMAIN c.entities => Same(c, m, id)
  BY TrackDeleteKeeps
<1> HIDE DEF m
<1>2. /\ d \in Collections /\ d.loading = m.loading
      /\ d.changeState = m.changeState /\ d.entities = Drop(m.entities, ids)
  BY <1>1, RemoveFacts DEF m
<1>3. Local(c, d, ids)
  BY <1>1, <1>2 DEF Local, Same, Tracked, Drop, Restrict
<1>4. ASSUME NEW id \in Ids
      PROVE  Sound(d, k, id)
  <2>1. CASE id \in ids \cap DOMAIN c.entities
    BY <1>1, <1>2, <2>1 DEF Sound, Tracked, Drop, Restrict
  <2>2. CASE id \notin DOMAIN c.entities
    BY <1>1, <1>2, <2>2 DEF Consistent, Same, Sound, Tracked, Drop, Restrict
  <2>3. CASE id \notin ids
    BY <1>3, <2>3 DEF Consistent, Local, Same, Sound
  <2>4. QED
    BY <2>1, <2>2, <2>3
<1>5. QED
  BY <1>1, <1>2, <1>3, <1>4 DEF Consistent

(* An entity of which nothing changed stays sound.                         *)
LEMMA SoundSame ==
  ASSUME NEW c, NEW d, NEW k, NEW id, Same(c, d, id), Sound(c, k, id)
  PROVE  Sound(d, k, id)
BY DEF Same, Sound, Tracked

(* Two local steps make a local step.                                      *)
LEMMA LocalTrans ==
  ASSUME NEW c, NEW d, NEW e, NEW ids, Local(c, d, ids), Local(d, e, ids)
  PROVE  Local(c, e, ids)
BY DEF Local, Same

(* saveDelete, optimistic or not, keeps the cache consistent, through its  *)
(* removal of added entities and its two rounds of tracking.               *)
LEMMA DeleteKeeps ==
  ASSUME NEW c \in Collections, NEW k, Consistent(c, k),
         NEW ids \in SUBSET Ids, NEW isOptimistic \in BOOLEAN,
         NEW d, d = saveDelete(ids, c, isOptimistic)
  PROVE  d \in Collections /\ Consistent(d, k) /\ Local(c, d, ids)
<1> DEFINE added == {id \in ids : IsTracked(c, id, "Added")}
           removed == AdapterRemoveMany(added, c)
           forgotten == commitMany(added, removed)
           rest == (ids \cap Tracked(c)) \ added
           tracked == trackDeleteMany(rest, forgotten)
<1>1. d = IF isOptimistic
          THEN AdapterRemoveMany(ids, trackDeleteMany(ids, tracked))
          ELSE tracked
  BY DEF saveDelete
<1>2. /\ removed \in Collections
      /\ removed.entities = Drop(c.entities, added)
      /\ removed.changeState = c.changeState
  BY RemoveFacts
<1> HIDE DEF removed
<1>3. /\ forgotten \in Collections
      /\ forgotten.entities = Drop(c.entities, added)
      /\ forgotten.changeState = Drop(c.changeState, added)
  BY <1>2, CommitFacts
<1> HIDE DEF forgotten
<1>4. ASSUME NEW id \in Ids PROVE Sound(forgotten, k, id)
  <2>1. Sound(c, k, id)
    BY DEF Consistent
  <2>2. CASE id \in added
    BY <1>3, <2>1, <2>2 DEF Sound, Tracked, IsTracked, Drop, Restrict
  <2>3. CASE id \notin added
    BY <1>3, <2>1, <2>3 DEF Sound, Tracked, Drop, Restrict
  <2>4. QED
    BY <2>2, <2>3
<1>5. Local(c, forgotten, ids)
  BY <1>3 DEF Local, Same, Tracked, Drop, Restrict
<1>6. Consistent(forgotten, k)
  BY <1>4 DEF Consistent
<1>7. /\ tracked \in Collections /\ Local(forgotten, tracked, rest)
      /\ tracked.entities = forgotten.entities
      /\ \A id \in rest \cap DOMAIN forgotten.entities :
           /\ id \in Tracked(tracked) => Sound(tracked, k, id)
           /\ id \notin Tracked(tracked) => id \notin DOMAIN k
      /\ \A id \in Ids : id \notin DOMAIN forgotten.entities =>
           Same(forgotten, tracked, id)
  <2>1. rest \in SUBSET Ids
    OBVIOUS
  <2> HIDE DEF rest
  <2>2. QED
    BY <1>3, <1>6, <2>1, TrackDeleteKeeps
<1>8. \A id \in rest : id \in DOMAIN k
  BY DEF Consistent, Sound, IsTracked
<1>9. Local(forgotten, tracked, ids)
  BY <1>7 DEF Local
<1> HIDE DEF tracked, rest, added
<1>10. Consistent(tracked, k)
  <2> SUFFICES ASSUME NEW id \in Ids PROVE Sound(tracked, k, id)
    BY DEF Consistent
  <2>1. CASE id \in rest \cap DOMAIN forgotten.entities
    BY <1>7, <1>8, <2>1
  <2>2. CASE id \notin rest \cap DOMAIN forgotten.entities
    BY <1>4, <1>7, <2>2, SoundSame DEF Local
  <2>3. QED
    BY <2>1, <2>2
<1>11. Local(c, tracked, ids)
  BY <1>5, <1>9, LocalTrans
<1>12. CASE isOptimistic
  <2>1. d \in Collections /\ Consistent(d, k) /\ Local(tracked, d, ids)
    BY <1>1, <1>7, <1>10, <1>12, RemoveKeeps
  <2>2. QED
    BY <1>11, <2>1, LocalTrans
<1>13. CASE ~isOptimistic
  BY <1>1, <1>7, <1>10, <1>11, <1>13
<1>14. QED
  BY <1>12, <1>13

(* undoMany takes every tracked entity of ids back to what was last known  *)
(* of it, and keeps the cache consistent.                                  *)
LEMMA UndoKeeps ==
  ASSUME NEW c \in Collections, NEW k \in PartialMaps(Values),
         Consistent(c, k), NEW ids \in SUBSET Ids,
         NEW d, d = undoMany(ids, c)
  PROVE  /\ d \in Collections /\ d.loading = c.loading
         /\ Consistent(d, k) /\ Local(c, d, ids)
         /\ \A id \in ids \cap Tracked(c) :
              IF IsTracked(c, id, "Added")
              THEN id \notin DOMAIN d.entities /\ id \notin DOMAIN k
              ELSE id \in DOMAIN k /\ d.entities[id] = k[id]
<1> DEFINE undone == ids \cap Tracked(c)
           added == {id \in undone : IsTracked(c, id, "Added")}
           originals == [id \in undone \ added |->
                           c.changeState[id].originalValue]
           removed == AdapterRemoveMany(added, c)
           restored == AdapterUpsertMany(originals, removed)
<1>1. \A id \in undone \ added :
        id \in DOMAIN k /\ c.changeState[id].originalValue = k[id]
  BY DEF Consistent, Sound, IsTracked
<1>2. originals \in PartialMaps(Values)
  <2>1. originals \in [undone \ added -> Values]
    BY <1>1, MapFacts
  <2>2. undone \ added \in SUBSET Ids
    OBVIOUS
  <2>3. QED
    BY <2>1, <2>2, MapOf
<1>3. d = commitMany(undone, restored)
  BY DEF undoMany
<1>4. /\ removed \in Collections /\ removed.loading = c.loading
      /\ removed.entities = Drop(c.entities, added)
      /\ removed.changeState = c.changeState
  BY RemoveFacts
<1> HIDE DEF removed
<1>5. /\ restored \in Collections /\ restored.loading = c.loading
      /\ restored.entities = Overlay(originals, Drop(c.entities, added))
      /\ restored.changeState = c.changeState
  BY <1>2, <1>4, UpsertFacts
<1> HIDE DEF restored
<1>6. /\ d \in Collections /\ d.loading = c.loading
      /\ d.entities = Overlay(originals, Drop(c.entities, added))
      /\ d.changeState = Drop(c.changeState, undone)
  BY <1>3, <1>5, CommitFacts
<1>7. Local(c, d, ids)
  BY <1>6 DEF Local, Same, Tracked, Overlay, Drop, Restrict
<1>8. \A id \in undone : IF id \in added THEN id \notin DOMAIN d.entities
                         ELSE /\ id \in DOMAIN d.entities
                              /\ d.entities[id] = originals[id]
  BY <1>6 DEF Overlay, Drop, Restrict
<1>9. \A id \in added : id \notin DOMAIN k
  BY DEF Consistent, Sound, IsTracked
<1>10. ASSUME NEW id \in Ids PROVE Sound(d, k, id)
  <2>1. CASE id \in undone
    <3>1. id \notin Tracked(d)
      BY <1>6, <2>1 DEF Tracked, Drop, Restrict
    <3>2. QED
      BY <1>1, <1>8, <1>9, <2>1, <3>1 DEF Sound
  <2>2. CASE id \notin undone
    <3>1. Sound(c, k, id)
      BY DEF Consistent
    <3>2. Same(c, d, id)
      BY <1>6, <2>2 DEF Same, Tracked, Overlay, Drop, Restrict
    <3>3. QED
      BY <3>1, <3>2, SoundSame
  <2>3. QED
    BY <2>1, <2>2
<1>11. ASSUME NEW id \in undone
       PROVE  IF IsTracked(c, id, "Added")
              THEN id \notin DOMAIN d.entities /\ id \notin DOMAIN k
              ELSE id \in DOMAIN k /\ d.entities[id] = k[id]
  BY <1>1, <1>8, <1>9
<1>12. QED
  BY <1>6, <1>7, <1>10, <1>11 DEF Consistent

(* commitMany makes what the cache holds of ids what the application takes *)
(* for known.                                                              *)
LEMMA CommitKeeps ==
  ASSUME NEW c \in Collections, NEW k \in PartialMaps(Values),
         Consistent(c, k), NEW ids \in SUBSET Ids,
         NEW d, d = commitMany(ids, c), NEW told,
         told = Overlay(Restrict(c.entities, DOMAIN c.entities \cap ids),
                        Drop(k, ids))
  PROVE  /\ d \in Collections /\ d.loading = c.loading
         /\ told \in PartialMaps(Values)
         /\ Consistent(d, told) /\ Local(c, d, ids)
<1>1. /\ d \in Collections /\ d.entities = c.entities
      /\ d.changeState = Drop(c.changeState, ids) /\ d.loading = c.loading
  BY CommitFacts
<1>2. told \in PartialMaps(Values)
  BY FieldFacts, RestrictType, DropType, OverlayType
<1>3. ASSUME NEW id \in Ids PROVE Sound(d, told, id)
  <2>1. Sound(c, k, id)
    BY DEF Consistent
  <2>2. CASE id \in ids
    BY <1>1, <2>2 DEF Sound, Tracked, Overlay, Drop, Restrict
  <2>3. CASE id \notin ids
    BY <1>1, <2>1, <2>3 DEF Sound, Tracked, Overlay, Drop, Restrict
  <2>4. QED
    BY <2>2, <2>3
<1>4. Local(c, d, ids)
  BY <1>1 DEF Local, Same, Tracked, Drop, Restrict
<1>5. QED
  BY <1>1, <1>2, <1>3, <1>4 DEF Consistent

(* After addAll and the success of a load, the cache is what was loaded.   *)
LEMMA LoadKeeps ==
  ASSUME NEW c \in Collections, NEW batch \in PartialMaps(Values),
         NEW d, d = commitAll(AdapterSetAll(batch, c))
  PROVE  d \in Collections /\ Consistent(d, batch)
<1>1. /\ AdapterSetAll(batch, c) \in Collections
      /\ AdapterSetAll(batch, c).entities = batch
  BY SetAllFacts
<1>2. d \in Collections /\ d.entities = batch /\ d.changeState = << >>
  BY <1>1, EmptyFacts, SetChangesFacts DEF commitAll
<1>3. DOMAIN d.changeState = {}
  BY <1>2, EmptyFacts
<1>4. QED
  BY <1>2, <1>3 DEF Consistent, Sound, Tracked

(* A merge that overwrites changes makes the batch what is known and held  *)
(* of its entities.                                                        *)
LEMMA OverwriteKeeps ==
  ASSUME NEW c \in Collections, NEW k \in PartialMaps(Values),
         Consistent(c, k), NEW batch \in PartialMaps(Values),
         NEW d, d = mergeServerUpserts(batch, c, "OverwriteChanges")
  PROVE  /\ d \in Collections /\ Overlay(batch, k) \in PartialMaps(Values)
         /\ Consistent(d, Overlay(batch, k)) /\ Local(c, d, DOMAIN batch)
<1> DEFINE m == AdapterUpsertMany(batch, c)
<1>1. d = commitMany(DOMAIN batch, m)
  BY DEF mergeServerUpserts
<1>2. /\ m \in Collections /\ m.entities = Overlay(batch, c.entities)
      /\ m.changeState = c.changeState
  BY UpsertFacts
<1> HIDE DEF m
<1>3. /\ d \in Collections /\ d.entities = Overlay(batch, c.entities)
      /\ d.changeState = Drop(c.changeState, DOMAIN batch)
  BY <1>1, <1>2, CommitFacts
<1>4. ASSUME NEW id \in Ids PROVE Sound(d, Overlay(batch, k), id)
  <2>1. Sound(c, k, id)
    BY DEF Consistent
  <2>2. CASE id \in DOMAIN batch
    BY <1>3, <2>2 DEF Sound, Tracked, Overlay, Drop, Restrict
  <2>3. CASE id \notin DOMAIN batch
    BY <1>3, <2>1, <2>3 DEF Sound, Tracked, Overlay, Drop, Restrict
  <2>4. QED
    BY <2>2, <2>3
<1>5. Local(c, d, DOMAIN batch)
  BY <1>3 DEF Local, Same, Tracked, Overlay, Drop, Restrict
<1>6. QED
  BY <1>3, <1>4, <1>5, OverlayType DEF Consistent

(* mergeSaveUpdates does so too, provided that the entities are there to   *)
(* be updated; of the answers that it skips, those must be held as they    *)
(* were saved.                                                             *)
LEMMA UpdatedKeeps ==
  ASSUME NEW c \in Collections, NEW k \in PartialMaps(Values),
         Consistent(c, k), NEW batch \in PartialMaps(Values), NEW skipped,
         \/ skipped = {} /\ DOMAIN batch \subseteq DOMAIN c.entities
         \/ skipped = DOMAIN batch /\ Held(batch, c),
         NEW d, d = mergeSaveUpdates(batch, c, skipped)
  PROVE  /\ d \in Collections /\ Overlay(batch, k) \in PartialMaps(Values)
         /\ Consistent(d, Overlay(batch, k)) /\ Local(c, d, DOMAIN batch)
<1> DEFINE m == commitMany(DOMAIN batch, c)
           rest == Drop(batch, skipped)
<1>1. d = AdapterUpdateMany(rest, m)
  BY DEF mergeSaveUpdates
<1>2. rest \in PartialMaps(Values)
  BY DropType
<1>3. /\ m \in Collections /\ m.entities = c.entities
      /\ m.changeState = Drop(c.changeState, DOMAIN batch)
  BY CommitFacts
<1> HIDE DEF m, rest
<1>4. /\ d \in Collections
      /\ d.entities = [id \in DOMAIN c.entities |->
                         IF id \in DOMAIN rest THEN rest[id]
                         ELSE c.entities[id]]
      /\ d.changeState = Drop(c.changeState, DOMAIN batch)
  BY <1>1, <1>2, <1>3, UpdateFacts
<1>5. ASSUME NEW id \in Ids PROVE Sound(d, Overlay(batch, k), id)
  <2>1. Sound(c, k, id)
    BY DEF Consistent
  <2>2. CASE id \in DOMAIN batch
    <3>1. id \in DOMAIN c.entities
      BY <2>2 DEF Held
    <3>2. d.entities[id] = batch[id]
      <4>1. CASE skipped = {}
        BY <1>4, <2>2, <3>1, <4>1 DEF rest, Drop, Restrict
      <4>2. CASE skipped = DOMAIN batch /\ Held(batch, c)
        BY <1>4, <2>2, <3>1, <4>2 DEF rest, Drop, Restrict, Held
      <4>3. QED
        BY <4>1, <4>2
    <3>3. QED
      BY <1>4, <2>2, <3>1, <3>2 DEF Sound, Tracked, Overlay, Drop, Restrict
  <2>3. CASE id \notin DOMAIN batch
    BY <1>4, <2>1, <2>3 DEF Sound, Tracked, Overlay, Drop, Restrict, rest
  <2>4. QED
    BY <2>2, <2>3
<1>6. Local(c, d, DOMAIN batch)
  BY <1>4 DEF Local, Same, Tracked, Drop, Restrict, rest
<1>7. QED
  BY <1>4, <1>5, <1>6, OverlayType DEF Consistent

(* mergeSaveDeletes makes the entities unknown and removes them.           *)
LEMMA DeletedKeeps ==
  ASSUME NEW c \in Collections, NEW k \in PartialMaps(Values),
         Consistent(c, k), NEW ids \in SUBSET Ids,
         NEW d, d = mergeSaveDeletes(ids, c)
  PROVE  /\ d \in Collections /\ Drop(k, ids) \in PartialMaps(Values)
         /\ Consistent(d, Drop(k, ids)) /\ Local(c, d, ids)
<1> DEFINE m == commitMany(ids, c)
<1>1. /\ m \in Collections /\ m.entities = c.entities
      /\ m.changeState = Drop(c.changeState, ids)
  BY CommitFacts
<1>2. d = AdapterRemoveMany(ids, m)
  BY DEF mergeSaveDeletes
<1> HIDE DEF m
<1>3. /\ d \in Collections /\ d.entities = Drop(c.entities, ids)
      /\ d.changeState = Drop(c.changeState, ids)
  BY <1>1, <1>2, RemoveFacts
<1>4. ASSUME NEW id \in Ids PROVE Sound(d, Drop(k, ids), id)
  <2>1. Sound(c, k, id)
    BY DEF Consistent
  <2>2. CASE id \in ids
    BY <1>3, <2>2 DEF Sound, Tracked, Drop, Restrict
  <2>3. CASE id \notin ids
    BY <1>3, <2>1, <2>3 DEF Sound, Tracked, Drop, Restrict
  <2>4. QED
    BY <2>2, <2>3
<1>5. Local(c, d, ids)
  BY <1>3 DEF Local, Same, Tracked, Drop, Restrict
<1>6. QED
  BY <1>3, <1>4, <1>5, DropType DEF Consistent

(* From c to d, an entity that is there stays, and one that is tracked     *)
(* stays tracked with its value.                                           *)
Guards(c, d, id) ==
  /\ id \in DOMAIN c.entities => id \in DOMAIN d.entities
  /\ id \in Tracked(c) => id \in Tracked(d)
  /\ id \in Tracked(c) /\ id \in DOMAIN c.entities =>
       d.entities[id] = c.entities[id]

(* A merge that preserves changes keeps the cache consistent if it is of   *)
(* one entity, as in the answer to getByKey; of more, only the first       *)
(* changed one gets its originalValue. It disturbs no entity with a save   *)
(* in flight.                                                              *)
LEMMA PreserveKeeps ==
  ASSUME NEW c \in Collections, NEW k \in PartialMaps(Values),
         Consistent(c, k), NEW batch \in PartialMaps(Values), NEW key \in Ids,
         DOMAIN batch \subseteq {key},
         \A id \in DOMAIN batch : ~IsTracked(c, id, "Added"),
         NEW d, d = mergeQueryResults(batch, c)
  PROVE  /\ d \in Collections /\ Overlay(batch, k) \in PartialMaps(Values)
         /\ Consistent(d, Overlay(batch, k))
         /\ \A id \in Ids : Guards(c, d, id)
<1> DEFINE changed == DOMAIN batch \cap Tracked(c)
           t == [id \in changed |->
                   Change(c.changeState[id].changeType, batch[id])]
           m == AdapterUpsertMany(Drop(batch, changed), c)
           first == IF changed = {} THEN {} ELSE {Min(changed)}
<1>1. first = changed
  <2>1. CASE changed = {}
    BY <2>1
  <2>2. CASE changed # {}
    <3>1. changed = {key} /\ key \in Nat
      BY <2>2, DataAssumption
    <3>2. Min({key}) = key
      BY <3>1 DEF Min
    <3>3. QED
      BY <3>1, <3>2
  <2>3. QED
    BY <2>1, <2>2
<1>2. d = Track([id \in first |-> Change(c.changeState[id].changeType,
                                         batch[id])], m)
  BY DEF mergeQueryResults, mergeServerUpserts
<1>3. d = Track(t, m)
  BY <1>1, <1>2
<1>4. t \in PartialMaps(ChangeRecords)
  <2>1. t \in [changed -> ChangeRecords]
    BY FieldFacts, MapFacts DEF Change, ChangeRecords, Tracked
  <2>2. changed \in SUBSET Ids
    BY MapFacts
  <2>3. QED
    BY <2>1, <2>2, MapOf
<1>5. /\ m \in Collections /\ m.changeState = c.changeState
      /\ m.entities = Overlay(Drop(batch, changed), c.entities)
  BY DropType, UpsertFacts
<1> HIDE DEF m, first
<1>6. /\ d \in Collections /\ d.changeState = Overlay(t, c.changeState)
      /\ d.entities = Overlay(Drop(batch, changed), c.entities)
  BY <1>3, <1>4, <1>5, TrackFacts
<1>7. ASSUME NEW id \in Ids PROVE Sound(d, Overlay(batch, k), id)
  <2>1. Sound(c, k, id)
    BY DEF Consistent
  <2>2. CASE id \in changed
    <3>1. /\ id \in Tracked(d) /\ d.changeState[id] = t[id]
          /\ c.changeState[id].changeType # "Added"
      BY <1>6, <2>2 DEF Tracked, Overlay, IsTracked
    <3>2. QED
      BY <2>2, <3>1 DEF Sound, Change, Overlay
  <2>3. CASE id \in DOMAIN batch \ changed
    BY <1>6, <2>1, <2>3 DEF Sound, Tracked, Overlay, Drop, Restrict
  <2>4. CASE id \notin DOMAIN batch
    BY <1>6, <2>1, <2>4 DEF Sound, Tracked, Overlay, Drop, Restrict
  <2>5. QED
    BY <2>2, <2>3, <2>4
<1>8. \A id \in Ids : Guards(c, d, id)
  BY <1>6 DEF Guards, Tracked, Overlay, Drop, Restrict
<1>9. QED
  BY <1>6, <1>7, <1>8, OverlayType DEF Consistent
-----------------------------------------------------------------------------
(* An item of a save: an operation, and entities of some ids.              *)
ItemOK(item) ==
  /\ item.op \in Ops /\ DOMAIN item.data \subseteq Ids
  /\ item.op # "Delete" => item.data \in PartialMaps(Values)

(* While a save is in flight, what its success will take for granted: the  *)
(* entities to be updated are there, and what was saved optimistically is  *)
(* held.                                                                   *)
Kept(item, c, isOptimistic) ==
  /\ item.op = "Update" => DOMAIN item.data \subseteq DOMAIN c.entities
  /\ isOptimistic /\ item.op # "Delete" => Held(item.data, c)

(* What an application may ask: that added entities are not there, and     *)
(* updated ones are.                                                       *)
Fits(item, c) ==
  /\ item.op = "Add" => DOMAIN item.data \cap DOMAIN c.entities = {}
  /\ item.op = "Update" => DOMAIN item.data \subseteq DOMAIN c.entities

(* The loading flag has no part in consistency.                            *)
LEMMA LoadingKeeps ==
  ASSUME NEW c \in Collections, NEW k, Consistent(c, k), NEW l \in BOOLEAN,
         NEW d, d = SetLoading(c, l)
  PROVE  /\ d \in Collections /\ d.loading = l /\ Consistent(d, k)
         /\ \A id \in Ids : Same(c, d, id)
         /\ d.entities = c.entities /\ Tracked(d) = Tracked(c)
<1>1. /\ d \in Collections /\ d.loading = l /\ d.entities = c.entities
      /\ d.changeState = c.changeState
  BY SetLoadingFacts
<1>2. QED
  BY <1>1 DEF Consistent, Sound, Same, Tracked

(* The reduction of every save keeps the cache consistent, touches no      *)
(* other entity, and establishes what its success relies on.               *)
LEMMA SaveKeeps ==
  ASSUME NEW c \in Collections, NEW k, Consistent(c, k),
         NEW item, ItemOK(item), Fits(item, c), NEW isOptimistic \in BOOLEAN,
         NEW d, d = Save(item, c, isOptimistic)
  PROVE  /\ d \in Collections /\ Consistent(d, k)
         /\ Local(c, d, DOMAIN item.data) /\ Kept(item, d, isOptimistic)
<1> DEFINE m == CASE item.op = "Add" -> saveAdd(item.data, c, isOptimistic)
                  [] item.op = "Update" ->
                       saveUpdate(item.data, c, isOptimistic)
                  [] item.op = "Upsert" ->
                       saveUpsert(item.data, c, isOptimistic)
                  [] item.op = "Delete" ->
                       saveDelete(DOMAIN item.data, c, isOptimistic)
<1>1. d = SetLoading(m, TRUE)
  BY DEF Save
<1>2. Local(c, c, DOMAIN item.data)
  BY DEF Local, Same
<1>3. /\ m \in Collections /\ Consistent(m, k)
      /\ Local(c, m, DOMAIN item.data) /\ Kept(item, m, isOptimistic)
  <2>1. CASE item.op = "Add"
    <3>1. m = saveAdd(item.data, c, isOptimistic)
      BY <2>1
    <3>2. item.data \in PartialMaps(Values)
      BY <2>1 DEF ItemOK
    <3>3. DOMAIN item.data \cap DOMAIN c.entities = {}
      BY <2>1 DEF Fits
    <3>4. CASE isOptimistic
      BY <2>1, <3>1, <3>2, <3>3, <3>4, AddKeeps DEF saveAdd, Kept
    <3>5. CASE ~isOptimistic
      BY <1>2, <2>1, <3>1, <3>5 DEF saveAdd, Kept
    <3>6. QED
      BY <3>4, <3>5
  <2>2. CASE item.op = "Update"
    <3>1. m = saveUpdate(item.data, c, isOptimistic)
      BY <2>2
    <3>2. item.data \in PartialMaps(Values)
      BY <2>2 DEF ItemOK
    <3>3. DOMAIN item.data \subseteq DOMAIN c.entities
      BY <2>2 DEF Fits
    <3>4. CASE isOptimistic
      BY <2>2, <3>1, <3>2, <3>3, <3>4, UpdateKeeps DEF saveUpdate, Kept
    <3>5. CASE ~isOptimistic
      BY <1>2, <2>2, <3>1, <3>3, <3>5 DEF saveUpdate, Kept
    <3>6. QED
      BY <3>4, <3>5
  <2>3. CASE item.op = "Upsert"
    <3>1. m = saveUpsert(item.data, c, isOptimistic)
      BY <2>3
    <3>2. item.data \in PartialMaps(Values)
      BY <2>3 DEF ItemOK
    <3>3. CASE isOptimistic
      BY <2>3, <3>1, <3>2, <3>3, UpsertKeeps DEF saveUpsert, Kept
    <3>4. CASE ~isOptimistic
      BY <1>2, <2>3, <3>1, <3>4 DEF saveUpsert, Kept
    <3>5. QED
      BY <3>3, <3>4
  <2>4. CASE item.op = "Delete"
    <3>1. m = saveDelete(DOMAIN item.data, c, isOptimistic)
      BY <2>4
    <3>2. DOMAIN item.data \in SUBSET Ids
      BY DEF ItemOK
    <3>3. QED
      BY <2>4, <3>1, <3>2, DeleteKeeps DEF Kept
  <2>5. QED
    BY <2>1, <2>2, <2>3, <2>4 DEF ItemOK, Ops
<1> HIDE DEF m
<1>4. /\ d \in Collections /\ Consistent(d, k)
      /\ \A id \in Ids : Same(m, d, id)
      /\ d.entities = m.entities /\ Tracked(d) = Tracked(m)
  BY <1>1, <1>3, LoadingKeeps
<1>5. Local(c, d, DOMAIN item.data)
  BY <1>3, <1>4, LocalTrans DEF Local
<1>6. Kept(item, d, isOptimistic)
  BY <1>3, <1>4 DEF Kept, Held
<1>7. QED
  BY <1>4, <1>5, <1>6

(* The reduction of every success makes the answer what is known, keeps    *)
(* the cache consistent with it, and touches no other entity.              *)
LEMMA SuccessKeeps ==
  ASSUME NEW c \in Collections, NEW k \in PartialMaps(Values),
         Consistent(c, k), NEW item, ItemOK(item),
         NEW updatesOnly \in BOOLEAN, NEW skipped,
         item.op = "Add" /\ updatesOnly =>
           DOMAIN item.data \subseteq DOMAIN c.entities,
         item.op = "Update" =>
           \/ skipped = {} /\ DOMAIN item.data \subseteq DOMAIN c.entities
           \/ skipped = DOMAIN item.data /\ Held(item.data, c),
         NEW d, d = SaveSuccess(item, c, updatesOnly, skipped),
         NEW told, told = Learn(k, item)
  PROVE  /\ d \in Collections /\ ~d.loading /\ told \in PartialMaps(Values)
         /\ Consistent(d, told) /\ Local(c, d, DOMAIN item.data)
<1> DEFINE m == CASE item.op = "Add" /\ updatesOnly ->
                       mergeSaveUpdates(item.data, c, {})
                  [] item.op = "Add" /\ ~updatesOnly ->
                       mergeSaveUpserts(item.data, c)
                  [] item.op = "Update" ->
                       mergeSaveUpdates(item.data, c, skipped)
                  [] item.op = "Upsert" -> mergeSaveUpserts(item.data, c)
                  [] item.op = "Delete" ->
                       mergeSaveDeletes(DOMAIN item.data, c)
<1>1. d = SetLoading(m, FALSE)
  BY DEF SaveSuccess
<1>2. /\ m \in Collections /\ told \in PartialMaps(Values)
      /\ Consistent(m, told) /\ Local(c, m, DOMAIN item.data)
  <2>1. CASE item.op = "Delete"
    <3>1. m = mergeSaveDeletes(DOMAIN item.data, c)
      BY <2>1
    <3>2. DOMAIN item.data \in SUBSET Ids /\ told = Drop(k, DOMAIN item.data)
      BY <2>1 DEF ItemOK, Learn
    <3>3. QED
      BY <3>1, <3>2, DeletedKeeps
  <2>2. CASE item.op # "Delete"
    <3>1. item.data \in PartialMaps(Values) /\ told = Overlay(item.data, k)
      BY <2>2 DEF ItemOK, Learn
    <3>2. CASE \/ item.op = "Upsert"
               \/ item.op = "Add" /\ ~updatesOnly
      <4>1. m = mergeServerUpserts(item.data, c, "OverwriteChanges")
        BY <3>2 DEF mergeSaveUpserts
      <4>2. QED
        BY <3>1, <4>1, OverwriteKeeps
    <3>3. CASE item.op = "Add" /\ updatesOnly
      <4>1. m = mergeSaveUpdates(item.data, c, {})
        BY <3>3
      <4>2. QED
        BY <3>1, <3>3, <4>1, UpdatedKeeps
    <3>4. CASE item.op = "Update"
      <4>1. m = mergeSaveUpdates(item.data, c, skipped)
        BY <3>4
      <4>2. QED
        BY <3>1, <3>4, <4>1, UpdatedKeeps
    <3>5. item.op \in {"Add", "Update", "Upsert"}
      BY <2>2 DEF ItemOK, Ops
    <3> HIDE DEF m
    <3>6. \/ item.op = "Upsert"
          \/ item.op = "Add" /\ ~updatesOnly
          \/ item.op = "Add" /\ updatesOnly
          \/ item.op = "Update"
      BY <3>5
    <3>7. QED
      BY <3>2, <3>3, <3>4, <3>6
  <2>3. QED
    BY <2>1, <2>2
<1> HIDE DEF m
<1>3. /\ d \in Collections /\ ~d.loading /\ Consistent(d, told)
      /\ \A id \in Ids : Same(m, d, id)
  BY <1>1, <1>2, LoadingKeeps
<1>4. Local(c, d, DOMAIN item.data)
  BY <1>2, <1>3, LocalTrans DEF Local
<1>5. QED
  BY <1>2, <1>3, <1>4

(* The items of a request: one, or a change set of a deletion and an       *)
(* upsert of different entities.                                           *)
ItemsOK(items) ==
  \/ items = <<items[1]>> /\ ItemOK(items[1])
  \/ /\ items = <<items[1], items[2]>>
     /\ ItemOK(items[1]) /\ ItemOK(items[2])
     /\ items[1].op = "Delete" /\ items[2].op = "Upsert"
     /\ DOMAIN items[1].data \cap DOMAIN items[2].data = {}

(* Kept, for every item.                                                   *)
AllKept(items, c, isOptimistic) ==
  \A i \in DOMAIN items : Kept(items[i], c, isOptimistic)

(* A change set of one item, and the entities that it is about.            *)
LEMMA OneItem ==
  ASSUME NEW a, NEW items, items = <<a>>
  PROVE  /\ items[1] = a /\ Len(items) = 1 /\ DOMAIN items = {1}
         /\ ItemIds(items) = DOMAIN a.data
<1>1. items[1] = a /\ Len(items) = 1 /\ DOMAIN items = {1}
  OBVIOUS
<1>2. QED
  BY <1>1 DEF ItemIds

(* A change set of two items, and the entities that it is about.           *)
LEMMA TwoItems ==
  ASSUME NEW a, NEW b, NEW items, items = <<a, b>>
  PROVE  /\ items[1] = a /\ items[2] = b /\ Len(items) = 2
         /\ DOMAIN items = {1, 2}
         /\ ItemIds(items) = DOMAIN a.data \cup DOMAIN b.data
<1>1. /\ items[1] = a /\ items[2] = b /\ Len(items) = 2
      /\ DOMAIN items = {1, 2}
  OBVIOUS
<1>2. QED
  BY <1>1 DEF ItemIds

(* Requests are about entities.                                            *)
LEMMA ItemIdsType ==
  ASSUME NEW items, ItemsOK(items)
  PROVE  ItemIds(items) \subseteq Ids
<1>1. CASE items = <<items[1]>> /\ ItemOK(items[1])
  BY <1>1, OneItem DEF ItemOK
<1>2. CASE /\ items = <<items[1], items[2]>>
           /\ ItemOK(items[1]) /\ ItemOK(items[2])
  BY <1>2, TwoItems DEF ItemOK
<1>3. QED
  BY <1>1, <1>2 DEF ItemsOK

(* A step that is local to some entities is local to more.                 *)
LEMMA WiderLocal ==
  ASSUME NEW c, NEW d, NEW ids, NEW more, Local(c, d, ids), ids \subseteq more
  PROVE  Local(c, d, more)
BY DEF Local

(* SaveKeeps for the items of a change set, reduced one after another.     *)
LEMMA SaveItemsKeeps ==
  ASSUME NEW c \in Collections, NEW k, Consistent(c, k),
         NEW items, ItemsOK(items), \A i \in DOMAIN items : Fits(items[i], c),
         NEW isOptimistic \in BOOLEAN,
         NEW d, d = SaveItems(items, c, isOptimistic)
  PROVE  /\ d \in Collections /\ Consistent(d, k)
         /\ Local(c, d, ItemIds(items)) /\ AllKept(items, d, isOptimistic)
<1> DEFINE first == Save(items[1], c, isOptimistic)
<1>1. CASE items = <<items[1]>> /\ ItemOK(items[1])
  <2>1. /\ Len(items) = 1 /\ DOMAIN items = {1}
        /\ ItemIds(items) = DOMAIN items[1].data
    BY <1>1, OneItem
  <2>2. d = first /\ Fits(items[1], c)
    BY <2>1 DEF SaveItems
  <2>3. /\ d \in Collections /\ Consistent(d, k)
        /\ Local(c, d, DOMAIN items[1].data)
        /\ Kept(items[1], d, isOptimistic)
    BY <1>1, <2>2, SaveKeeps
  <2>4. QED
    BY <2>1, <2>3 DEF AllKept
<1>2. CASE /\ items = <<items[1], items[2]>>
           /\ ItemOK(items[1]) /\ ItemOK(items[2])
           /\ items[1].op = "Delete" /\ items[2].op = "Upsert"
  <2>1. /\ Len(items) = 2 /\ DOMAIN items = {1, 2}
        /\ ItemIds(items) = DOMAIN items[1].data \cup DOMAIN items[2].data
    BY <1>2, TwoItems
  <2>2. d = Save(items[2], first, isOptimistic)
    BY <2>1 DEF SaveItems
  <2>3. Fits(items[1], c) /\ Fits(items[2], first)
    BY <1>2, <2>1 DEF Fits
  <2>4. /\ first \in Collections /\ Consistent(first, k)
        /\ Local(c, first, DOMAIN items[1].data)
    BY <1>2, <2>3, SaveKeeps
  <2> HIDE DEF first
  <2>5. /\ d \in Collections /\ Consistent(d, k)
        /\ Local(first, d, DOMAIN items[2].data)
        /\ Kept(items[2], d, isOptimistic)
    BY <1>2, <2>2, <2>3, <2>4, SaveKeeps
  <2>6. /\ Local(c, first, ItemIds(items)) /\ Local(first, d, ItemIds(items))
    BY <2>1, <2>4, <2>5, WiderLocal
  <2>7. Local(c, d, ItemIds(items))
    BY <2>6, LocalTrans
  <2>8. Kept(items[1], d, isOptimistic)
    BY <1>2 DEF Kept
  <2>9. AllKept(items, d, isOptimistic)
    BY <2>1, <2>5, <2>8 DEF AllKept
  <2>10. QED
    BY <2>5, <2>7, <2>9
<1>3. QED
  BY <1>1, <1>2 DEF ItemsOK

(* SuccessKeeps for an item of a change set.                               *)
LEMMA PlainSuccessKeeps ==
  ASSUME NEW c \in Collections, NEW k \in PartialMaps(Values),
         Consistent(c, k), NEW item, ItemOK(item),
         item.op = "Update" => DOMAIN item.data \subseteq DOMAIN c.entities,
         NEW d, d = SaveSuccess(item, c, FALSE, {}),
         NEW told, told = Learn(k, item)
  PROVE  /\ d \in Collections /\ ~d.loading /\ told \in PartialMaps(Values)
         /\ Consistent(d, told) /\ Local(c, d, DOMAIN item.data)
<1> DEFINE none == {}
           no == FALSE
<1>1. no \in BOOLEAN /\ ~no /\ none = {}
  OBVIOUS
<1>2. d = SaveSuccess(item, c, no, none)
  OBVIOUS
<1> HIDE DEF none, no
<1>3. QED
  BY <1>1, <1>2, SuccessKeeps

(* SuccessKeeps for the items of a change set.                             *)
LEMMA ItemsSuccessKeeps ==
  ASSUME NEW c \in Collections, NEW k \in PartialMaps(Values),
         Consistent(c, k), NEW items, ItemsOK(items),
         \A i \in DOMAIN items : items[i].op = "Update" =>
           DOMAIN items[i].data \subseteq DOMAIN c.entities,
         NEW d, d = SaveItemsSuccess(items, c),
         NEW told, told = LearnItems(k, items)
  PROVE  /\ d \in Collections /\ ~d.loading /\ told \in PartialMaps(Values)
         /\ Consistent(d, told) /\ Local(c, d, ItemIds(items))
<1> DEFINE first == SaveSuccess(items[1], c, FALSE, {})
           heard == Learn(k, items[1])
<1>1. CASE items = <<items[1]>> /\ ItemOK(items[1])
  <2>1. /\ Len(items) = 1 /\ 1 \in DOMAIN items
        /\ ItemIds(items) = DOMAIN items[1].data
    BY <1>1, OneItem
  <2>2. d = first /\ told = heard
    BY <2>1 DEF SaveItemsSuccess, LearnItems
  <2>3. QED
    BY <1>1, <2>1, <2>2, PlainSuccessKeeps
<1>2. CASE /\ items = <<items[1], items[2]>>
           /\ ItemOK(items[1]) /\ ItemOK(items[2])
           /\ items[1].op = "Delete" /\ items[2].op = "Upsert"
  <2>1. /\ Len(items) = 2
        /\ ItemIds(items) = DOMAIN items[1].data \cup DOMAIN items[2].data
    BY <1>2, TwoItems
  <2>2. /\ d = SaveSuccess(items[2], first, FALSE, {})
        /\ told = Learn(heard, items[2])
    BY <2>1 DEF SaveItemsSuccess, LearnItems
  <2>3. /\ first \in Collections /\ heard \in PartialMaps(Values)
        /\ Consistent(first, heard) /\ Local(c, first, DOMAIN items[1].data)
    <3> DEFINE item == items[1]
    <3>1. /\ ItemOK(item)
          /\ item.op = "Update" => DOMAIN item.data \subseteq DOMAIN c.entities
      BY <1>2
    <3>2. first = SaveSuccess(item, c, FALSE, {}) /\ heard = Learn(k, item)
      OBVIOUS
    <3> HIDE DEF first, heard, item
    <3>3. /\ first \in Collections /\ heard \in PartialMaps(Values)
          /\ Consistent(first, heard) /\ Local(c, first, DOMAIN item.data)
      BY <3>1, <3>2, PlainSuccessKeeps
    <3>4. QED
      BY <3>3 DEF item
  <2> HIDE DEF first, heard
  <2>4. /\ d \in Collections /\ ~d.loading /\ told \in PartialMaps(Values)
        /\ Consistent(d, told) /\ Local(first, d, DOMAIN items[2].data)
    BY <1>2, <2>2, <2>3, PlainSuccessKeeps
  <2>5. /\ Local(c, first, ItemIds(items)) /\ Local(first, d, ItemIds(items))
    BY <2>1, <2>3, <2>4, WiderLocal
  <2>6. QED
    BY <2>4, <2>5, LocalTrans
<1>3. QED
  BY <1>1, <1>2 DEF ItemsOK

(* What the server made of an item is an item about the same entities.     *)
LEMMA AnswerFacts ==
  ASSUME NEW old, ItemOK(old), NEW item \in Answers(old)
  PROVE  /\ ItemOK(item) /\ item.op = old.op
         /\ DOMAIN item.data = DOMAIN old.data
<1>1. CASE old.op = "Delete"
  BY <1>1 DEF Answers, ItemOK
<1>2. CASE old.op # "Delete"
  <2>1. item.op = old.op /\ item.data \in [DOMAIN old.data -> Values]
    BY <1>2 DEF Answers
  <2>2. DOMAIN old.data \in SUBSET Ids
    BY DEF ItemOK
  <2>3. item.data \in PartialMaps(Values)
    BY <2>1, <2>2, MapOf
  <2>4. QED
    BY <2>1, <2>2, <2>3 DEF ItemOK
<1>3. QED
  BY <1>1, <1>2

(* What the server made of a change set is one about the same entities.    *)
LEMMA AnswersFacts ==
  ASSUME NEW old, ItemsOK(old), NEW items \in AnswersTo(old)
  PROVE  /\ ItemsOK(items) /\ ItemIds(items) = ItemIds(old)
         /\ DOMAIN items = DOMAIN old
         /\ \A i \in DOMAIN items :
              /\ items[i].op = old[i].op
              /\ DOMAIN items[i].data = DOMAIN old[i].data
<1>1. CASE old = <<old[1]>> /\ ItemOK(old[1])
  <2>1. /\ Len(old) = 1 /\ DOMAIN old = {1}
        /\ ItemIds(old) = DOMAIN old[1].data
    BY <1>1, OneItem
  <2>2. PICK item \in Answers(old[1]) : items = <<item>>
    BY <2>1 DEF AnswersTo
  <2>3. /\ items[1] = item /\ DOMAIN items = {1}
        /\ ItemIds(items) = DOMAIN item.data
    BY <2>2, OneItem
  <2>4. /\ ItemOK(item) /\ item.op = old[1].op
        /\ DOMAIN item.data = DOMAIN old[1].data
    BY <1>1, AnswerFacts
  <2>5. ItemsOK(items)
    BY <2>2, <2>3, <2>4 DEF ItemsOK
  <2>6. QED
    BY <2>1, <2>3, <2>4, <2>5
<1>2. CASE /\ old = <<old[1], old[2]>>
           /\ ItemOK(old[1]) /\ ItemOK(old[2])
           /\ old[1].op = "Delete" /\ old[2].op = "Upsert"
           /\ DOMAIN old[1].data \cap DOMAIN old[2].data = {}
  <2>1. /\ Len(old) = 2 /\ DOMAIN old = {1, 2}
        /\ ItemIds(old) = DOMAIN old[1].data \cup DOMAIN old[2].data
    BY <1>2, TwoItems
  <2>2. PICK a \in Answers(old[1]), b \in Answers(old[2]) : items = <<a, b>>
    BY <2>1 DEF AnswersTo
  <2>3. /\ items[1] = a /\ items[2] = b /\ DOMAIN items = {1, 2}
        /\ ItemIds(items) = DOMAIN a.data \cup DOMAIN b.data
    BY <2>2, TwoItems
  <2>4. /\ ItemOK(a) /\ a.op = old[1].op
        /\ DOMAIN a.data = DOMAIN old[1].data
    BY <1>2, AnswerFacts
  <2>5. /\ ItemOK(b) /\ b.op = old[2].op
        /\ DOMAIN b.data = DOMAIN old[2].data
    BY <1>2, AnswerFacts
  <2>6. ItemsOK(items)
    BY <1>2, <2>2, <2>3, <2>4, <2>5 DEF ItemsOK
  <2>7. QED
    BY <2>1, <2>3, <2>4, <2>5, <2>6
<1>3. QED
  BY <1>1, <1>2 DEF ItemsOK
-----------------------------------------------------------------------------
(* A save whose answer, error or skipped answer is to come.                *)
PendingSave(q) ==
  q.stage \in {"sent", "failing", "skipping"} /\ q.kind \in {"One", "Many"}

(* The requests there can be. Only the skipped deletion of EntityEffects   *)
(* is answered without the server.                                         *)
RequestOK(q) ==
  /\ q = [kind |-> q.kind, items |-> q.items, isOptimistic |-> q.isOptimistic,
          stage |-> q.stage, waiting |-> q.waiting]
  /\ q.kind \in {"None", "Canceled", "One", "Many", "Load", "All", "ByKey"}
  /\ q.isOptimistic \in BOOLEAN
  /\ q.stage \in {"none", "sent", "failing", "skipping", "untold"}
  /\ q.stage = "none" <=> q.kind \in {"None", "Canceled"}
  /\ PendingSave(q) => ItemsOK(q.items)
  /\ q.kind = "One" => q.items = <<q.items[1]>>
  /\ q.stage = "skipping" => q.kind = "One" /\ q.items[1].op = "Delete"
  /\ q.kind = "ByKey" => \E id \in Ids : ItemIds(q.items) = {id}

(* Saves in flight are about different entities, and each will find what   *)
(* it relies on.                                                           *)
RequestsInv(rs, c) ==
  /\ rs = [r \in Slots |-> rs[r]] /\ \A r \in Slots : RequestOK(rs[r])
  /\ \A r, q \in Slots : r # q /\ PendingSave(rs[r]) /\ PendingSave(rs[q]) =>
       ItemIds(rs[r].items) \cap ItemIds(rs[q].items) = {}
  /\ \A r \in Slots : PendingSave(rs[r]) =>
       AllKept(rs[r].items, c, rs[r].isOptimistic)

(* The inductive invariant: the cache agrees with what was last known, and *)
(* will when the saves in flight are answered.                             *)
DataInv ==
  /\ collection \in Collections /\ known \in PartialMaps(Values)
  /\ Consistent(collection, known)
  /\ RequestsInv(requests, collection)

(* The application waits for its saves, keeps them and its reloads apart,  *)
(* and merges query results so that no change is kept without its original *)
(* value; the server sends content, and no answer was lost that it acted   *)
(* upon.                                                                   *)
Prudent ==
  /\ MergeAll = "OverwriteChanges" /\ ~NoContent /\ ~LostAnswers
  /\ ~Overlap /\ ~LoadsAndSaves

(* No reload is on its way while a save is: such an answer would end the   *)
(* tracking of what was saved, or put back what the server had before it.  *)
PendingReload(q) ==
  q.stage \in {"sent", "failing", "skipping"} /\ q.kind \in {"Load", "All"}
Apart(rs) ==
  \A r, q \in Slots : ~(PendingReload(rs[r]) /\ PendingSave(rs[q]))

(* A step that guards its entities leaves a save in flight what it relies  *)
(* on.                                                                     *)
LEMMA KeptFrame ==
  ASSUME NEW items, NEW c, NEW d, NEW isOptimistic,
         AllKept(items, c, isOptimistic),
         \A id \in ItemIds(items) : Guards(c, d, id)
  PROVE  AllKept(items, d, isOptimistic)
<1> SUFFICES ASSUME NEW i \in DOMAIN items
             PROVE  Kept(items[i], d, isOptimistic)
  BY DEF AllKept
<1>1. Kept(items[i], c, isOptimistic)
  BY DEF AllKept
<1>2. \A id \in DOMAIN items[i].data : Guards(c, d, id)
  BY DEF ItemIds
<1>3. QED
  BY <1>1, <1>2 DEF Kept, Held, Guards

(* A local step guards every other entity.                                 *)
LEMMA LocalGuards ==
  ASSUME NEW c, NEW d, NEW ids, Local(c, d, ids), NEW id \in Ids, id \notin ids
  PROVE  Guards(c, d, id)
BY DEF Local, Same, Guards

(* A step that opens, moves on or ends one request keeps the rest in       *)
(* order.                                                                  *)
LEMMA RequestsStep ==
  ASSUME NEW rs, NEW c, NEW d, RequestsInv(rs, c),
         NEW r \in Slots, NEW q, RequestOK(q),
         NEW next, next = [rs EXCEPT ![r] = q],
         PendingSave(q) =>
           /\ AllKept(q.items, d, q.isOptimistic)
           /\ \A s \in Slots \ {r} : PendingSave(rs[s]) =>
                ItemIds(rs[s].items) \cap ItemIds(q.items) = {},
         \A s \in Slots \ {r} : PendingSave(rs[s]) =>
           \A id \in ItemIds(rs[s].items) : Guards(c, d, id)
  PROVE  RequestsInv(next, d)
<1>1. next = [s \in Slots |-> next[s]] /\ next[r] = q
  BY DEF RequestsInv
<1>2. \A s \in Slots \ {r} : next[s] = rs[s]
  BY DEF RequestsInv
<1>3. \A s \in Slots : RequestOK(next[s])
  BY <1>1, <1>2 DEF RequestsInv
<1>4. ASSUME NEW s \in Slots, NEW u \in Slots, s # u,
             PendingSave(next[s]), PendingSave(next[u])
      PROVE  ItemIds(next[s].items) \cap ItemIds(next[u].items) = {}
  <2>1. CASE s # r /\ u # r
    BY <1>2, <1>4, <2>1 DEF RequestsInv
  <2>2. CASE s = r
    BY <1>1, <1>2, <1>4, <2>2
  <2>3. CASE u = r
    BY <1>1, <1>2, <1>4, <2>3
  <2>4. QED
    BY <2>1, <2>2, <2>3
<1>5. ASSUME NEW s \in Slots, PendingSave(next[s])
      PROVE  AllKept(next[s].items, d, next[s].isOptimistic)
  <2>1. CASE s = r
    BY <1>1, <1>5, <2>1
  <2>2. CASE s # r
    <3>1. /\ next[s] = rs[s] /\ AllKept(rs[s].items, c, rs[s].isOptimistic)
          /\ \A id \in ItemIds(rs[s].items) : Guards(c, d, id)
      BY <1>2, <1>5, <2>2 DEF RequestsInv
    <3>2. QED
      BY <3>1, KeptFrame
  <2>3. QED
    BY <2>1, <2>2
<1>6. QED
  BY <1>1, <1>3, <1>4, <1>5 DEF RequestsInv

(* So does a step that changes no request.                                 *)
LEMMA RequestsStay ==
  ASSUME NEW rs, NEW c, NEW d, RequestsInv(rs, c),
         \A s \in Slots : PendingSave(rs[s]) =>
           \A id \in ItemIds(rs[s].items) : Guards(c, d, id)
  PROVE  RequestsInv(rs, d)
<1>1. ASSUME NEW s \in Slots, PendingSave(rs[s])
      PROVE  AllKept(rs[s].items, d, rs[s].isOptimistic)
  BY <1>1, KeptFrame DEF RequestsInv
<1>2. QED
  BY <1>1 DEF RequestsInv

(* An application that waits for its saves does not touch their entities.  *)
LEMMA FreeOfBusy ==
  ASSUME DataInv, ~Overlap, NEW ids, ids \cap Busy = {},
         NEW s \in Slots, PendingSave(requests[s])
  PROVE  /\ ItemIds(requests[s].items) \cap ids = {}
         /\ ItemIds(requests[s].items) \subseteq Ids
<1>1. s \in Saving
  BY DEF Saving, Pending, InStage, IsSave, PendingSave
<1>2. ItemIds(requests[s].items) \subseteq Busy
  BY <1>1 DEF Busy
<1>3. ItemsOK(requests[s].items)
  BY DEF DataInv, RequestsInv, RequestOK
<1>4. QED
  BY <1>2, <1>3, ItemIdsType

(* So an operation on entities that are not busy guards those of every     *)
(* save.                                                                   *)
LEMMA GuardedOutside ==
  ASSUME DataInv, ~Overlap, NEW ids, ids \cap Busy = {},
         NEW d, Local(collection, d, ids)
  PROVE  \A s \in Slots : PendingSave(requests[s]) =>
           \A id \in ItemIds(requests[s].items) : Guards(collection, d, id)
BY FreeOfBusy, LocalGuards

(* The answer to one save guards the entities of the others.               *)
LEMMA GuardedOthers ==
  ASSUME DataInv, NEW r \in Slots, PendingSave(requests[r]),
         NEW d, Local(collection, d, ItemIds(requests[r].items))
  PROVE  \A s \in Slots \ {r} : PendingSave(requests[s]) =>
           \A id \in ItemIds(requests[s].items) : Guards(collection, d, id)
<1> SUFFICES ASSUME NEW s \in Slots \ {r}, PendingSave(requests[s]),
                    NEW id \in ItemIds(requests[s].items)
             PROVE  Guards(collection, d, id)
  OBVIOUS
<1>1. ItemsOK(requests[s].items)
  BY DEF DataInv, RequestsInv, RequestOK
<1>2. id \in Ids /\ id \notin ItemIds(requests[r].items)
  BY <1>1, ItemIdsType DEF DataInv, RequestsInv
<1>3. QED
  BY <1>2, LocalGuards
-----------------------------------------------------------------------------
(* The items that an application asks to save.                             *)
LEMMA ItemTypes ==
  ASSUME NEW op \in Ops, NEW ids \in SUBSET Ids, NEW item \in Items(op, ids)
  PROVE  /\ ItemOK(item) /\ item.op = op /\ DOMAIN item.data = ids
<1>1. CASE op = "Delete"
  BY <1>1 DEF Items, ItemOK
<1>2. CASE op # "Delete"
  <2>1. item.op = op /\ item.data \in [ids -> Drafts]
    BY <1>2 DEF Items
  <2>2. item.data \in [ids -> Values]
    BY <2>1, DataAssumption
  <2>3. QED
    BY <2>1, <2>2, MapOf DEF ItemOK
<1>3. QED
  BY <1>1, <1>2

(* The items about given entities.                                         *)
LEMMA ItemsOnTypes ==
  ASSUME NEW ids \in SUBSET Ids, NEW item \in ItemsOn(ids)
  PROVE  ItemOK(item) /\ DOMAIN item.data = ids
<1>1. PICK op \in Ops : item \in Items(op, ids)
  BY DEF ItemsOn
<1>2. QED
  BY <1>1, ItemTypes

(* The items about one entity.                                             *)
LEMMA OneItemTypes ==
  ASSUME NEW item \in OneItems
  PROVE  ItemOK(item) /\ \E id \in Ids : DOMAIN item.data = {id}
<1>1. PICK id \in Ids : item \in ItemsOn({id})
  BY DEF OneItems
<1>2. QED
  BY <1>1, ItemsOnTypes

(* The change sets that an application asks to save.                       *)
LEMMA ChangeSetTypes ==
  ASSUME NEW items \in ChangeSets
  PROVE  ItemsOK(items)
<1>1. CASE items \in {<<item>> : item \in ItemsOn(Ids)}
  <2>1. PICK item \in ItemsOn(Ids) : items = <<item>>
    BY <1>1
  <2>2. ItemOK(item)
    BY ItemsOnTypes
  <2>3. QED
    BY <2>1, <2>2, OneItem DEF ItemsOK
<1>2. CASE items \in {pair \in OneItems \X OneItems :
             /\ pair[1].op = "Delete" /\ pair[2].op = "Upsert"
             /\ DOMAIN pair[1].data # DOMAIN pair[2].data}
  <2>1. PICK a \in OneItems, b \in OneItems :
          /\ items = <<a, b>> /\ a.op = "Delete" /\ b.op = "Upsert"
          /\ DOMAIN a.data # DOMAIN b.data
    BY <1>2
  <2>2. PICK id \in Ids : DOMAIN a.data = {id}
    BY OneItemTypes
  <2>3. PICK other \in Ids : DOMAIN b.data = {other}
    BY OneItemTypes
  <2>4. ItemOK(a) /\ ItemOK(b)
    BY OneItemTypes
  <2>5. DOMAIN a.data \cap DOMAIN b.data = {}
    BY <2>1, <2>2, <2>3
  <2>6. items[1] = a /\ items[2] = b
    BY <2>1
  <2>7. QED
    BY <2>1, <2>4, <2>5, <2>6 DEF ItemsOK
<1>3. QED
  BY <1>1, <1>2 DEF ChangeSets

(* The fields of a new request.                                            *)
LEMMA RequestFacts ==
  ASSUME NEW kind, NEW items, NEW isOptimistic, NEW stage,
         NEW q, q = Request(kind, items, isOptimistic, stage)
  PROVE  /\ q = [kind |-> q.kind, items |-> q.items,
                 isOptimistic |-> q.isOptimistic, stage |-> q.stage,
                 waiting |-> q.waiting]
         /\ q.kind = kind /\ q.items = items /\ q.stage = stage
         /\ q.isOptimistic = isOptimistic
BY DEF Request

(* A request that is over, or canceled, has nothing to come.               *)
LEMMA OverFacts ==
  ASSUME NEW q \in {NoRequest, Canceled}
  PROVE  RequestOK(q) /\ ~PendingSave(q)
<1>1. CASE q = NoRequest
  BY <1>1 DEF NoRequest, Request, RequestOK, PendingSave
<1>2. CASE q = Canceled
  BY <1>2 DEF Canceled, NoRequest, Request, RequestOK, PendingSave
<1>3. QED
  BY <1>1, <1>2

(* SAVE_ADD_ONE, SAVE_UPDATE_ONE, SAVE_UPSERT_ONE and SAVE_DELETE_ONE keep *)
(* the invariant.                                                          *)
LEMMA SaveOneKeeps ==
  ASSUME DataInv, Prudent, NEW r \in Slots, NEW item \in OneItems,
         NEW isOptimistic \in BOOLEAN, SaveOne(r, item, isOptimistic)
  PROVE  DataInv'
<1> DEFINE q == Request("One", <<item>>, isOptimistic,
                        IF Skips(item, collection) THEN "skipping" ELSE "sent")
<1>1. ItemOK(item)
  BY OneItemTypes
<1>2. Fits(item, collection) /\ DOMAIN item.data \cap Busy = {}
  BY DEF SaveOne, Sensible, Fits
<1>3. /\ collection' = Save(item, collection, isOptimistic)
      /\ requests' = [requests EXCEPT ![r] = q] /\ known' = known
  BY DEF SaveOne, Sends
<1>4. /\ collection' \in Collections /\ Consistent(collection', known)
      /\ Local(collection, collection', DOMAIN item.data)
      /\ Kept(item, collection', isOptimistic)
  BY <1>1, <1>2, <1>3, SaveKeeps DEF DataInv
<1>5. /\ q = [kind |-> q.kind, items |-> q.items,
              isOptimistic |-> q.isOptimistic, stage |-> q.stage,
              waiting |-> q.waiting]
      /\ q.kind = "One" /\ q.items = <<item>>
      /\ q.stage \in {"sent", "skipping"}
      /\ q.stage = "skipping" => Skips(item, collection)
      /\ q.isOptimistic = isOptimistic
  BY RequestFacts
<1> HIDE DEF q
<1>6. /\ q.items[1] = item /\ DOMAIN q.items = {1}
      /\ ItemIds(q.items) = DOMAIN item.data
  BY <1>5, OneItem
<1>7. RequestOK(q)
  BY <1>1, <1>5, <1>6 DEF RequestOK, ItemsOK, Skips
<1>8. AllKept(q.items, collection', q.isOptimistic)
  BY <1>4, <1>5, <1>6 DEF AllKept
<1>9. \A s \in Slots \ {r} : PendingSave(requests[s]) =>
        ItemIds(requests[s].items) \cap ItemIds(q.items) = {}
  BY <1>2, <1>6, FreeOfBusy DEF Prudent
<1>10. \A s \in Slots \ {r} : PendingSave(requests[s]) =>
         \A id \in ItemIds(requests[s].items) :
           Guards(collection, collection', id)
  BY <1>2, <1>4, GuardedOutside DEF Prudent
<1>11. RequestsInv(requests', collection')
  BY <1>3, <1>7, <1>8, <1>9, <1>10, RequestsStep DEF DataInv
<1>12. QED
  BY <1>3, <1>4, <1>11 DEF DataInv

(* SAVE_ENTITIES keeps the invariant.                                      *)
LEMMA SaveEntitiesKeeps ==
  ASSUME DataInv, Prudent, NEW r \in Slots, NEW items \in ChangeSets,
         NEW isOptimistic \in BOOLEAN, SaveEntities(r, items, isOptimistic)
  PROVE  DataInv'
<1> DEFINE q == Request("Many", items, isOptimistic, "sent")
<1>1. ItemsOK(items)
  BY ChangeSetTypes
<1>2. /\ \A i \in DOMAIN items : Fits(items[i], collection)
      /\ ItemIds(items) \cap Busy = {}
  BY DEF SaveEntities, Sensible, Fits, ItemIds
<1>3. /\ collection' = SaveItems(items, collection, isOptimistic)
      /\ requests' = [requests EXCEPT ![r] = q] /\ known' = known
  BY DEF SaveEntities, Sends
<1>4. /\ collection' \in Collections /\ Consistent(collection', known)
      /\ Local(collection, collection', ItemIds(items))
      /\ AllKept(items, collection', isOptimistic)
  BY <1>1, <1>2, <1>3, SaveItemsKeeps DEF DataInv
<1>5. /\ q = [kind |-> q.kind, items |-> q.items,
              isOptimistic |-> q.isOptimistic, stage |-> q.stage,
              waiting |-> q.waiting]
      /\ q.kind = "Many" /\ q.items = items /\ q.stage = "sent"
      /\ q.isOptimistic = isOptimistic
  BY RequestFacts
<1> HIDE DEF q
<1>6. RequestOK(q)
  BY <1>1, <1>5 DEF RequestOK
<1>7. \A s \in Slots \ {r} : PendingSave(requests[s]) =>
        ItemIds(requests[s].items) \cap ItemIds(q.items) = {}
  BY <1>2, <1>5, FreeOfBusy DEF Prudent
<1>8. \A s \in Slots \ {r} : PendingSave(requests[s]) =>
        \A id \in ItemIds(requests[s].items) :
          Guards(collection, collection', id)
  BY <1>2, <1>4, GuardedOutside DEF Prudent
<1>9. RequestsInv(requests', collection')
  BY <1>3, <1>4, <1>5, <1>6, <1>7, <1>8, RequestsStep DEF DataInv
<1>10. QED
  BY <1>3, <1>4, <1>9 DEF DataInv

(* SET_LOADING keeps the cache consistent.                                 *)
LEMMA SetLoadingKeeps ==
  ASSUME DataInv, NEW l \in BOOLEAN, collection' = SetLoading(collection, l)
  PROVE  /\ collection' \in Collections /\ Consistent(collection', known)
         /\ \A id \in Ids : Same(collection, collection', id)
BY LoadingKeeps DEF DataInv

(* A step that leaves the entities and the changes guards every save.      *)
LEMMA SameGuards ==
  ASSUME DataInv, NEW d, \A id \in Ids : Same(collection, d, id),
         NEW s \in Slots, PendingSave(requests[s])
  PROVE  \A id \in ItemIds(requests[s].items) : Guards(collection, d, id)
<1>1. ItemsOK(requests[s].items)
  BY DEF DataInv, RequestsInv, RequestOK
<1>2. ItemIds(requests[s].items) \subseteq Ids
  BY <1>1, ItemIdsType
<1>3. QED
  BY <1>2 DEF Same, Guards

(* QUERY_LOAD, QUERY_ALL and QUERY_BY_KEY keep the invariant.              *)
LEMMA QueryKeeps ==
  ASSUME DataInv, NEW r \in Slots, NEW kind \in {"Load", "All", "ByKey"},
         NEW ids, kind = "ByKey" => \E id \in Ids : ids = {id},
         Query(r, kind, ids)
  PROVE  DataInv'
<1> DEFINE item == [op |-> "Get", data |-> [id \in ids |-> NoValue]]
           q == Request(kind, <<item>>, FALSE, "sent")
<1>1. /\ collection' = SetLoading(collection, TRUE)
      /\ requests' = [requests EXCEPT ![r] = q] /\ known' = known
  BY DEF Query, Sends
<1>2. /\ collection' \in Collections /\ Consistent(collection', known)
      /\ \A id \in Ids : Same(collection, collection', id)
  BY <1>1, SetLoadingKeeps
<1>3. DOMAIN item.data = ids
  OBVIOUS
<1> HIDE DEF item
<1>4. /\ q = [kind |-> q.kind, items |-> q.items,
              isOptimistic |-> q.isOptimistic, stage |-> q.stage,
              waiting |-> q.waiting]
      /\ q.kind = kind /\ q.items = <<item>> /\ q.stage = "sent"
      /\ q.isOptimistic = FALSE
  BY DEF Request
<1> HIDE DEF q
<1>5. ItemIds(q.items) = ids
  BY <1>3, <1>4, OneItem
<1>6. RequestOK(q) /\ ~PendingSave(q)
  BY <1>4, <1>5 DEF RequestOK, PendingSave
<1>7. RequestsInv(requests', collection')
  BY <1>1, <1>2, <1>6, SameGuards, RequestsStep DEF DataInv
<1>8. QED
  BY <1>1, <1>2, <1>7 DEF DataInv

(* The end of a request keeps the others in order.                         *)
LEMMA EndsKeeps ==
  ASSUME DataInv, NEW r \in Slots, Ends(r),
         \A s \in Slots \ {r} : PendingSave(requests[s]) =>
           \A id \in ItemIds(requests[s].items) :
             Guards(collection, collection', id)
  PROVE  RequestsInv(requests', collection')
<1>1. RequestOK(NoRequest) /\ ~PendingSave(NoRequest)
  BY OverFacts
<1>2. QED
  BY <1>1, RequestsStep DEF DataInv, Ends

(* The success of a query keeps the invariant. An answer to getByKey may   *)
(* come while a save of its entity is in flight.                           *)
LEMMA QuerySuccessKeeps ==
  ASSUME DataInv, Apart(requests), Prudent, NEW r \in Slots,
         NEW batch \in PartialMaps(Values), QuerySuccess(r, batch)
  PROVE  DataInv'
<1> DEFINE q == requests[r]
           m == CASE q.kind = "Load" ->
                       commitAll(AdapterSetAll(batch, collection))
                  [] q.kind = "All" ->
                       mergeServerUpserts(batch, collection, MergeAll)
                  [] q.kind = "ByKey" -> mergeQueryResults(batch, collection)
<1>1. /\ q.stage = "sent" /\ q.kind \notin {"One", "Many"} /\ RequestOK(q)
      /\ DOMAIN batch \subseteq ItemIds(q.items)
      /\ \A id \in DOMAIN batch : ~IsTracked(collection, id, "Added")
      /\ collection' = SetLoading(m, FALSE)
      /\ known' = IF q.kind = "Load" THEN batch ELSE Overlay(batch, known)
      /\ Ends(r)
  BY DEF QuerySuccess, InStage, IsSave, Returned, Prudent, DataInv, RequestsInv
<1>2. /\ q.kind \in {"Load", "All", "ByKey"}
      /\ q.kind # "ByKey" => Busy = {}
  <2>1. q.kind \in {"Load", "All", "ByKey"}
    BY <1>1 DEF RequestOK
  <2>2. ASSUME q.kind # "ByKey" PROVE Busy = {}
    <3>1. PendingReload(q)
      BY <1>1, <2>1, <2>2 DEF PendingReload
    <3>2. Saving = {}
      BY <3>1 DEF Apart, Saving, Pending, InStage, IsSave, PendingSave
    <3>3. QED
      BY <3>2 DEF Busy
  <2>3. QED
    BY <2>1, <2>2
<1>3. DOMAIN batch \subseteq Ids
  BY MapFacts
<1>4. /\ m \in Collections /\ known' \in PartialMaps(Values)
      /\ Consistent(m, known')
      /\ \A s \in Slots : PendingSave(requests[s]) =>
           \A id \in ItemIds(requests[s].items) : Guards(collection, m, id)
  <2>1. CASE q.kind = "Load"
    <3>1. m = commitAll(AdapterSetAll(batch, collection)) /\ known' = batch
      BY <1>1, <2>1
    <3>2. m \in Collections /\ Consistent(m, batch)
      BY <3>1, LoadKeeps DEF DataInv
    <3>3. Local(collection, m, Ids)
      BY DEF Local
    <3>4. Busy = {}
      BY <1>2, <2>1
    <3>5. QED
      BY <3>1, <3>2, <3>3, <3>4, GuardedOutside DEF Prudent
  <2>2. CASE q.kind = "All"
    <3>1. /\ m = mergeServerUpserts(batch, collection, "OverwriteChanges")
          /\ known' = Overlay(batch, known) /\ Busy = {}
      BY <1>1, <1>2, <2>2 DEF Prudent
    <3> HIDE DEF m
    <3>2. /\ m \in Collections /\ known' \in PartialMaps(Values)
          /\ Consistent(m, known') /\ Local(collection, m, DOMAIN batch)
      BY <3>1, OverwriteKeeps DEF DataInv
    <3>3. QED
      BY <3>1, <3>2, GuardedOutside DEF Prudent
  <2>3. CASE q.kind = "ByKey"
    <3>1. /\ m = mergeQueryResults(batch, collection)
          /\ known' = Overlay(batch, known)
      BY <1>1, <2>3
    <3>2. PICK key \in Ids : ItemIds(q.items) = {key}
      BY <1>1, <2>3 DEF RequestOK
    <3> HIDE DEF m
    <3>3. /\ m \in Collections /\ known' \in PartialMaps(Values)
          /\ Consistent(m, known')
          /\ \A id \in Ids : Guards(collection, m, id)
      BY <1>1, <3>1, <3>2, PreserveKeeps DEF DataInv
    <3>4. \A s \in Slots : PendingSave(requests[s]) =>
            ItemsOK(requests[s].items)
      BY DEF DataInv, RequestsInv, RequestOK
    <3>5. QED
      BY <3>3, <3>4, ItemIdsType
  <2>4. QED
    BY <1>2, <2>1, <2>2, <2>3
<1> HIDE DEF m, q
<1>5. /\ collection' \in Collections /\ Consistent(collection', known')
      /\ collection'.entities = m.entities
      /\ Tracked(collection') = Tracked(m)
  BY <1>1, <1>4, LoadingKeeps
<1>6. \A s \in Slots : PendingSave(requests[s]) =>
        \A id \in ItemIds(requests[s].items) :
          Guards(collection, collection', id)
  BY <1>4, <1>5 DEF Guards
<1>7. RequestsInv(requests', collection')
  BY <1>1, <1>6, EndsKeeps
<1>8. QED
  BY <1>4, <1>5, <1>7 DEF DataInv

(* The success of a save of one entity keeps the invariant, whether or not *)
(* the server changed the entity.                                          *)
LEMMA SaveOneSuccessKeeps ==
  ASSUME DataInv, NEW r \in Slots, NEW item \in Answers(requests[r].items[1]),
         NEW changed \in BOOLEAN, SaveOneSuccess(r, item, changed)
  PROVE  DataInv'
<1> DEFINE q == requests[r]
           skipped == IF q.isOptimistic /\ ~changed THEN DOMAIN item.data
                      ELSE {}
<1>1. /\ q.stage = "sent" /\ q.kind = "One" /\ RequestOK(q)
      /\ changed \/ item = q.items[1]
      /\ collection' = SaveSuccess(item, collection, q.isOptimistic, skipped)
      /\ known' = Learn(known, item) /\ Ends(r)
  BY DEF SaveOneSuccess, InStage, DataInv, RequestsInv
<1>2. PendingSave(q) /\ q.isOptimistic \in BOOLEAN
  BY <1>1 DEF PendingSave, RequestOK
<1> DEFINE old == q.items[1]
<1>3. q.items = <<old>> /\ ItemsOK(q.items)
  BY <1>1, <1>2 DEF RequestOK
<1>4. /\ DOMAIN q.items = {1} /\ Len(q.items) = 1
      /\ ItemIds(q.items) = DOMAIN old.data
  BY <1>3, OneItem
<1>5. ItemOK(old)
  <2>1. q.items # <<q.items[1], q.items[2]>>
    BY <1>3
  <2>2. QED
    BY <1>3, <2>1 DEF ItemsOK
<1>6. /\ ItemOK(item) /\ item.op = old.op
      /\ DOMAIN item.data = DOMAIN old.data
  BY <1>5, AnswerFacts
<1>7. Kept(old, collection, q.isOptimistic)
  BY <1>2, <1>4 DEF DataInv, RequestsInv, AllKept
<1>8. item.op = "Add" /\ q.isOptimistic =>
        DOMAIN item.data \subseteq DOMAIN collection.entities
  BY <1>6, <1>7 DEF Kept, Held
<1>9. item.op = "Update" =>
        \/ /\ skipped = {}
           /\ DOMAIN item.data \subseteq DOMAIN collection.entities
        \/ skipped = DOMAIN item.data /\ Held(item.data, collection)
  BY <1>1, <1>6, <1>7 DEF Kept
<1> HIDE DEF skipped, old
<1> DEFINE isOptimistic == q.isOptimistic
<1> HIDE DEF isOptimistic
<1>10. /\ isOptimistic \in BOOLEAN
       /\ item.op = "Add" /\ isOptimistic =>
            DOMAIN item.data \subseteq DOMAIN collection.entities
       /\ collection' = SaveSuccess(item, collection, isOptimistic, skipped)
  BY <1>1, <1>2, <1>8 DEF isOptimistic
<1>11. /\ collection' \in Collections /\ known' \in PartialMaps(Values)
       /\ Consistent(collection', known')
       /\ Local(collection, collection', DOMAIN item.data)
  BY <1>1, <1>6, <1>9, <1>10, SuccessKeeps DEF DataInv
<1>12. RequestsInv(requests', collection')
  BY <1>1, <1>2, <1>4, <1>6, <1>11, GuardedOthers, EndsKeeps
<1>13. QED
  BY <1>11, <1>12 DEF DataInv

(* The success of a change set keeps the invariant.                        *)
LEMMA SaveEntitiesSuccessKeeps ==
  ASSUME DataInv, Prudent, NEW r \in Slots,
         NEW items \in AnswersTo(requests[r].items), NEW content \in BOOLEAN,
         SaveEntitiesSuccess(r, items, content)
  PROVE  DataInv'
<1> DEFINE q == requests[r]
<1>1. /\ q.stage = "sent" /\ q.kind = "Many" /\ RequestOK(q)
      /\ collection' = SaveItemsSuccess(items, collection)
      /\ known' = LearnItems(known, items) /\ Ends(r)
  BY DEF SaveEntitiesSuccess, InStage, Prudent, DataInv, RequestsInv
<1>2. PendingSave(q) /\ ItemsOK(q.items)
  BY <1>1 DEF PendingSave, RequestOK
<1>3. /\ ItemsOK(items) /\ ItemIds(items) = ItemIds(q.items)
      /\ DOMAIN items = DOMAIN q.items
      /\ \A i \in DOMAIN items :
           /\ items[i].op = q.items[i].op
           /\ DOMAIN items[i].data = DOMAIN q.items[i].data
  BY <1>2, AnswersFacts
<1>4. AllKept(q.items, collection, q.isOptimistic)
  BY <1>2 DEF DataInv, RequestsInv
<1>5. \A i \in DOMAIN items : items[i].op = "Update" =>
        DOMAIN items[i].data \subseteq DOMAIN collection.entities
  BY <1>3, <1>4 DEF AllKept, Kept
<1>6. /\ collection' \in Collections /\ known' \in PartialMaps(Values)
      /\ Consistent(collection', known')
      /\ Local(collection, collection', ItemIds(items))
  BY <1>1, <1>3, <1>5, ItemsSuccessKeeps DEF DataInv
<1>7. RequestsInv(requests', collection')
  BY <1>1, <1>2, <1>3, <1>6, GuardedOthers, EndsKeeps
<1>8. QED
  BY <1>6, <1>7 DEF DataInv

(* The success of a delete that was not sent keeps the invariant.          *)
LEMMA SkipSuccessKeeps ==
  ASSUME DataInv, NEW r \in Slots, SkipSuccessDue(r)
  PROVE  DataInv'
<1> DEFINE q == requests[r]
           item == q.items[1]
<1>1. /\ q.stage = "skipping" /\ RequestOK(q) /\ Ends(r)
      /\ collection' = SaveSuccess(item, collection, q.isOptimistic, {})
      /\ known' = Learn(known, item)
  BY DEF SkipSuccessDue, InStage, DataInv, RequestsInv
<1>2. /\ q.kind = "One" /\ item.op = "Delete" /\ PendingSave(q)
      /\ ItemsOK(q.items) /\ q.items = <<item>>
  BY <1>1 DEF RequestOK, PendingSave
<1>3. ItemIds(q.items) = DOMAIN item.data
  BY <1>2, OneItem
<1>4. ItemOK(item)
  BY <1>2 DEF ItemsOK
<1>5. q.isOptimistic \in BOOLEAN
  BY <1>1 DEF RequestOK
<1> DEFINE isOptimistic == q.isOptimistic
           none == {}
<1>6. /\ isOptimistic \in BOOLEAN
      /\ ~(item.op = "Add") /\ ~(item.op = "Update")
      /\ collection' = SaveSuccess(item, collection, isOptimistic, none)
  BY <1>1, <1>2, <1>5
<1> HIDE DEF isOptimistic, item, none, q
<1>7. /\ collection' \in Collections /\ known' \in PartialMaps(Values)
      /\ Consistent(collection', known')
      /\ Local(collection, collection', DOMAIN item.data)
  BY <1>1, <1>4, <1>6, SuccessKeeps DEF DataInv
<1>8. RequestsInv(requests', collection')
  BY <1>1, <1>2, <1>3, <1>7, GuardedOthers, EndsKeeps DEF q
<1>9. QED
  BY <1>7, <1>8 DEF DataInv

(* A refusal or a timeout keeps the invariant.                             *)
LEMMA FailsKeeps ==
  ASSUME DataInv, NEW r \in Slots, Fails(r)
  PROVE  DataInv'
<1> DEFINE q == [requests[r] EXCEPT !.stage = "failing"]
<1>1. /\ requests[r].stage = "sent" /\ RequestOK(requests[r])
      /\ requests' = [requests EXCEPT ![r].stage = "failing"]
      /\ collection' = collection /\ known' = known
  BY DEF Fails, InStage, DataInv, RequestsInv
<1>2. requests' = [requests EXCEPT ![r] = q]
  BY <1>1
<1>3. /\ q = [kind |-> q.kind, items |-> q.items,
              isOptimistic |-> q.isOptimistic, stage |-> q.stage,
              waiting |-> q.waiting]
      /\ q.kind = requests[r].kind /\ q.items = requests[r].items
      /\ q.isOptimistic = requests[r].isOptimistic /\ q.stage = "failing"
  BY <1>1 DEF RequestOK
<1> HIDE DEF q
<1>4. RequestOK(q) /\ (PendingSave(q) => PendingSave(requests[r]))
  BY <1>1, <1>3 DEF RequestOK, PendingSave
<1>5. \A id \in Ids : Same(collection, collection, id)
  BY DEF Same
<1>6. PendingSave(q) =>
        /\ AllKept(q.items, collection, q.isOptimistic)
        /\ \A s \in Slots \ {r} : PendingSave(requests[s]) =>
             ItemIds(requests[s].items) \cap ItemIds(q.items) = {}
  BY <1>3, <1>4 DEF DataInv, RequestsInv
<1>7. \A s \in Slots \ {r} : PendingSave(requests[s]) =>
        \A id \in ItemIds(requests[s].items) :
          Guards(collection, collection, id)
  BY <1>5, SameGuards
<1>8. RequestsInv(requests', collection)
  BY <1>2, <1>4, <1>6, <1>7, RequestsStep DEF DataInv
<1>9. QED
  BY <1>1, <1>8 DEF DataInv

(* The error action keeps the invariant.                                   *)
LEMMA ErrorKeeps ==
  ASSUME DataInv, NEW r \in Slots, ErrorDue(r)
  PROVE  DataInv'
<1>1. /\ collection' = SetLoading(collection, FALSE)
      /\ Ends(r) /\ known' = known
  BY DEF ErrorDue
<1>2. /\ collection' \in Collections /\ Consistent(collection', known)
      /\ \A id \in Ids : Same(collection, collection', id)
  BY <1>1, SetLoadingKeeps
<1>3. RequestsInv(requests', collection')
  BY <1>1, <1>2, SameGuards, EndsKeeps
<1>4. QED
  BY <1>1, <1>2, <1>3 DEF DataInv

(* CANCEL_PERSIST keeps the invariant: the cache keeps what was saved      *)
(* optimistically, tracked.                                                *)
LEMMA CancelKeeps ==
  ASSUME DataInv, NEW r \in Slots, Cancel(r)
  PROVE  DataInv'
<1> DEFINE q == IF requests[r].stage = "skipping"
                THEN [requests[r] EXCEPT !.waiting = FALSE] ELSE Canceled
<1>1. /\ collection' = SetLoading(collection, FALSE)
      /\ requests' = [requests EXCEPT ![r] = q] /\ known' = known
  BY DEF Cancel
<1>2. /\ collection' \in Collections /\ Consistent(collection', known)
      /\ \A id \in Ids : Same(collection, collection', id)
  BY <1>1, SetLoadingKeeps
<1>3. \A s \in Slots : PendingSave(requests[s]) =>
        \A id \in ItemIds(requests[s].items) :
          Guards(collection, collection', id)
  BY <1>2, SameGuards
<1>4. /\ RequestOK(q)
      /\ PendingSave(q) => /\ PendingSave(requests[r])
                          /\ q.items = requests[r].items
                          /\ q.isOptimistic = requests[r].isOptimistic
  <2>1. CASE requests[r].stage = "skipping"
    <3>1. RequestOK(requests[r])
      BY DEF DataInv, RequestsInv
    <3>2. q = [requests[r] EXCEPT !.waiting = FALSE]
      BY <2>1
    <3>3. /\ q = [kind |-> q.kind, items |-> q.items,
                  isOptimistic |-> q.isOptimistic, stage |-> q.stage,
                  waiting |-> q.waiting]
          /\ q.kind = requests[r].kind /\ q.items = requests[r].items
          /\ q.isOptimistic = requests[r].isOptimistic
          /\ q.stage = requests[r].stage
      BY <3>1, <3>2 DEF RequestOK
    <3> HIDE DEF q
    <3>4. QED
      BY <3>1, <3>3 DEF RequestOK, PendingSave
  <2>2. CASE requests[r].stage # "skipping"
    BY <2>2, OverFacts
  <2>3. QED
    BY <2>1, <2>2
<1> HIDE DEF q
<1>5. PendingSave(q) =>
        /\ AllKept(q.items, collection', q.isOptimistic)
        /\ \A s \in Slots \ {r} : PendingSave(requests[s]) =>
             ItemIds(requests[s].items) \cap ItemIds(q.items) = {}
  <2>1. SUFFICES ASSUME PendingSave(q)
                 PROVE  AllKept(q.items, collection', q.isOptimistic)
    BY <1>4 DEF DataInv, RequestsInv
  <2>2. AllKept(q.items, collection, q.isOptimistic)
    BY <1>4, <2>1 DEF DataInv, RequestsInv
  <2>3. \A id \in ItemIds(q.items) : Guards(collection, collection', id)
    BY <1>3, <1>4, <2>1
  <2>4. QED
    BY <2>2, <2>3, KeptFrame
<1>6. RequestsInv(requests', collection')
  BY <1>1, <1>3, <1>4, <1>5, RequestsStep DEF DataInv
<1>7. QED
  BY <1>1, <1>2, <1>6 DEF DataInv

(* A late cancellation keeps the invariant.                                *)
LEMMA CancelLateKeeps ==
  ASSUME DataInv, CancelLate
  PROVE  DataInv'
<1>1. /\ collection' = SetLoading(collection, FALSE)
      /\ requests' = requests /\ known' = known
  BY DEF CancelLate
<1>2. /\ collection' \in Collections /\ Consistent(collection', known)
      /\ \A id \in Ids : Same(collection, collection', id)
  BY <1>1, SetLoadingKeeps
<1>3. RequestsInv(requests, collection')
  BY <1>2, SameGuards, RequestsStay DEF DataInv
<1>4. QED
  BY <1>1, <1>2, <1>3 DEF DataInv

(* A late answer keeps the invariant.                                      *)
LEMMA AnswerLateKeeps ==
  ASSUME DataInv, NEW r \in Slots, AnswerLate(r)
  PROVE  DataInv'
<1>1. Ends(r) /\ collection' = collection /\ known' = known
  BY DEF AnswerLate
<1>2. \A id \in Ids : Same(collection, collection', id)
  BY <1>1 DEF Same
<1>3. RequestsInv(requests', collection')
  BY <1>1, <1>2, SameGuards, EndsKeeps
<1>4. QED
  BY <1>1, <1>3 DEF DataInv

(* An operation on the cache keeps the invariant if it keeps the cache     *)
(* consistent and touches only entities that are not busy.                 *)
LEMMA LocalStep ==
  ASSUME DataInv, Prudent, NEW ids, ids \cap Busy = {},
         collection' \in Collections, known' \in PartialMaps(Values),
         Consistent(collection', known'),
         Local(collection, collection', ids), requests' = requests
  PROVE  DataInv'
<1>1. RequestsInv(requests, collection')
  BY GuardedOutside, RequestsStay DEF DataInv, Prudent
<1>2. QED
  BY <1>1 DEF DataInv

(* What an application gives to entities are values.                       *)
LEMMA DraftMaps ==
  ASSUME NEW batch \in PartialMaps(Drafts)
  PROVE  batch \in PartialMaps(Values)
BY MapFacts, DataAssumption

(* addMany, updateMany and upsertMany keep the invariant.                  *)
LEMMA EditKeeps ==
  ASSUME DataInv, Prudent, NEW batch \in PartialMaps(Drafts),
         AddMany(batch) \/ UpdateMany(batch) \/ UpsertMany(batch)
  PROVE  DataInv'
<1>1. batch \in PartialMaps(Values)
  BY DraftMaps
<1>2. CASE AddMany(batch)
  <2>1. /\ DOMAIN batch \cap Busy = {}
        /\ DOMAIN batch \cap DOMAIN collection.entities = {}
        /\ collection' =
             AdapterAddMany(batch, trackAddMany(DOMAIN batch, collection))
        /\ requests' = requests /\ known' = known
    BY <1>2 DEF AddMany, Changes
  <2>2. /\ collection' \in Collections /\ Consistent(collection', known)
        /\ Local(collection, collection', DOMAIN batch)
    BY <1>1, <2>1, AddKeeps DEF DataInv
  <2>3. QED
    BY <2>1, <2>2, LocalStep DEF DataInv
<1>3. CASE UpdateMany(batch)
  <2>1. /\ DOMAIN batch \cap Busy = {}
        /\ collection' =
             AdapterUpdateMany(batch, trackUpdateMany(DOMAIN batch, collection))
        /\ requests' = requests /\ known' = known
    BY <1>3 DEF UpdateMany, Changes
  <2>2. /\ collection' \in Collections /\ Consistent(collection', known)
        /\ Local(collection, collection', DOMAIN batch)
    BY <1>1, <2>1, UpdateKeeps DEF DataInv
  <2>3. QED
    BY <2>1, <2>2, LocalStep DEF DataInv
<1>4. CASE UpsertMany(batch)
  <2>1. /\ DOMAIN batch \cap Busy = {}
        /\ collection' =
             AdapterUpsertMany(batch, trackUpsertMany(DOMAIN batch, collection))
        /\ requests' = requests /\ known' = known
    BY <1>4 DEF UpsertMany, Changes
  <2>2. /\ collection' \in Collections /\ Consistent(collection', known)
        /\ Local(collection, collection', DOMAIN batch)
    BY <1>1, <2>1, UpsertKeeps DEF DataInv
  <2>3. QED
    BY <2>1, <2>2, LocalStep DEF DataInv
<1>5. QED
  BY <1>2, <1>3, <1>4

(* removeMany keeps the invariant.                                         *)
LEMMA RemoveManyKeeps ==
  ASSUME DataInv, Prudent, NEW ids \in SUBSET Ids, RemoveMany(ids)
  PROVE  DataInv'
<1>1. /\ ids \cap Busy = {} /\ requests' = requests /\ known' = known
      /\ collection' = AdapterRemoveMany(ids, trackDeleteMany(ids, collection))
  BY DEF RemoveMany, Changes
<1>2. /\ collection' \in Collections /\ Consistent(collection', known)
      /\ Local(collection, collection', ids)
  BY <1>1, RemoveKeeps DEF DataInv
<1>3. QED
  BY <1>1, <1>2, LocalStep DEF DataInv

(* undoMany and undoAll keep the invariant.                                *)
LEMMA UndoManyKeeps ==
  ASSUME DataInv, Prudent, NEW ids \in SUBSET Ids, ids \cap Busy = {},
         Changes(undoMany(ids, collection))
  PROVE  DataInv'
<1>1. /\ requests' = requests /\ known' = known
      /\ collection' = undoMany(ids, collection)
  BY DEF Changes
<1>2. /\ collection' \in Collections /\ Consistent(collection', known)
      /\ Local(collection, collection', ids)
  BY <1>1, UndoKeeps DEF DataInv
<1>3. QED
  BY <1>1, <1>2, LocalStep DEF DataInv

(* commitMany keeps the invariant.                                         *)
LEMMA CommitManyKeeps ==
  ASSUME DataInv, Prudent, NEW ids \in SUBSET Ids, CommitMany(ids)
  PROVE  DataInv'
<1>1. /\ ids \cap Busy = {} /\ requests' = requests
      /\ collection' = commitMany(ids, collection)
      /\ known' = Committed(ids)
  BY DEF CommitMany
<1>2. /\ collection' \in Collections /\ known' \in PartialMaps(Values)
      /\ Consistent(collection', known')
      /\ Local(collection, collection', ids)
  BY <1>1, CommitKeeps DEF DataInv, Committed
<1>3. QED
  BY <1>1, <1>2, LocalStep

(* commitAll keeps the invariant.                                          *)
LEMMA CommitAllKeeps ==
  ASSUME DataInv, Prudent, CommitAll
  PROVE  DataInv'
<1>1. /\ Ids \cap Busy = {} /\ requests' = requests
      /\ collection' = commitAll(collection)
      /\ known' = Committed(Ids)
  BY DEF CommitAll
<1>2. << >> = Drop(collection.changeState, Ids)
  <2>1. DOMAIN collection.changeState \subseteq Ids
    BY FieldFacts, MapFacts DEF DataInv
  <2>2. DOMAIN Drop(collection.changeState, Ids) = {}
    BY <2>1 DEF Drop, Restrict
  <2>3. QED
    BY <2>2 DEF Drop, Restrict
<1>3. collection' = commitMany(Ids, collection)
  BY <1>1, <1>2 DEF commitAll, commitMany
<1>4. Ids \in SUBSET Ids
  OBVIOUS
<1>5. /\ collection' \in Collections /\ known' \in PartialMaps(Values)
      /\ Consistent(collection', known')
      /\ Local(collection, collection', Ids)
  BY <1>1, <1>3, <1>4, CommitKeeps DEF DataInv, Committed
<1>6. QED
  BY <1>1, <1>5, LocalStep

(* addAll keeps the invariant.                                             *)
LEMMA AddAllKeeps ==
  ASSUME DataInv, Prudent, NEW batch \in PartialMaps(Values), AddAll(batch)
  PROVE  DataInv'
<1> DEFINE m == commitAll(AdapterSetAll(batch, collection))
<1>1. /\ Ids \cap Busy = {} /\ requests' = requests /\ known' = batch
      /\ collection' = SetLoading(m, FALSE)
  BY DEF AddAll
<1>2. m \in Collections /\ Consistent(m, batch)
  BY LoadKeeps DEF DataInv
<1> HIDE DEF m
<1>3. collection' \in Collections /\ Consistent(collection', batch)
  BY <1>1, <1>2, LoadingKeeps
<1>4. Local(collection, collection', Ids)
  BY DEF Local
<1>5. QED
  BY <1>1, <1>3, <1>4, LocalStep

(* mergeQuerySet keeps the invariant.                                      *)
LEMMA MergeQuerySetKeeps ==
  ASSUME DataInv, Prudent, NEW batch \in PartialMaps(Values),
         MergeQuerySet(batch)
  PROVE  DataInv'
<1> DEFINE m == mergeServerUpserts(batch, collection, "OverwriteChanges")
<1>1. /\ Ids \cap Busy = {} /\ requests' = requests
      /\ known' = Overlay(batch, known) /\ collection' = SetLoading(m, FALSE)
  BY DEF MergeQuerySet, Prudent
<1>2. /\ m \in Collections /\ known' \in PartialMaps(Values)
      /\ Consistent(m, known')
  BY <1>1, OverwriteKeeps DEF DataInv
<1> HIDE DEF m
<1>3. collection' \in Collections /\ Consistent(collection', known')
  BY <1>1, <1>2, LoadingKeeps
<1>4. Local(collection, collection', Ids)
  BY DEF Local
<1>5. QED
  BY <1>1, <1>2, <1>3, <1>4, LocalStep
-----------------------------------------------------------------------------
(* A request that moves on without becoming a save or a reload leaves the  *)
(* two apart, and so does one that becomes either where there is none of   *)
(* the other.                                                              *)
LEMMA ApartMoves ==
  ASSUME DataInv, Apart(requests), NEW r \in Slots, NEW q,
         requests' = [requests EXCEPT ![r] = q],
         ~(PendingReload(q) /\ PendingSave(q)),
         PendingSave(q) => \/ PendingSave(requests[r])
                           \/ \A s \in Slots : ~PendingReload(requests[s]),
         PendingReload(q) => \/ PendingReload(requests[r])
                             \/ \A s \in Slots : ~PendingSave(requests[s])
  PROVE  Apart(requests)'
<1>1. requests'[r] = q /\ \A s \in Slots \ {r} : requests'[s] = requests[s]
  BY DEF DataInv, RequestsInv
<1>2. SUFFICES ASSUME NEW s \in Slots, NEW u \in Slots,
                      PendingReload(requests'[s]), PendingSave(requests'[u])
               PROVE  FALSE
  BY DEF Apart
<1>3. CASE s = r /\ u = r
  BY <1>1, <1>2, <1>3
<1>4. CASE s = r /\ u # r
  BY <1>1, <1>2, <1>4 DEF Apart
<1>5. CASE s # r /\ u = r
  BY <1>1, <1>2, <1>5 DEF Apart
<1>6. CASE s # r /\ u # r
  BY <1>1, <1>2, <1>6 DEF Apart
<1>7. QED
  BY <1>3, <1>4, <1>5, <1>6

(* The end of a request leaves them apart.                                 *)
LEMMA ApartEnds ==
  ASSUME DataInv, Apart(requests), NEW r \in Slots, NEW q,
         requests' = [requests EXCEPT ![r] = q],
         q.stage \in {"none", "untold"}
  PROVE  Apart(requests)'
BY ApartMoves DEF PendingSave, PendingReload

(* So does a save that is sent while no reload is on its way.              *)
LEMMA ApartSaves ==
  ASSUME DataInv, Apart(requests), ~Reloading, NEW r \in Slots,
         NEW kind \in {"One", "Many"}, NEW items, NEW isOptimistic, NEW stage,
         Sends(r, Request(kind, items, isOptimistic, stage))
  PROVE  Apart(requests)'
<1> DEFINE q == Request(kind, items, isOptimistic, stage)
<1>1. requests' = [requests EXCEPT ![r] = q]
  BY DEF Sends
<1>2. q.kind = kind
  BY DEF Request
<1> HIDE DEF q
<1>3. \A s \in Slots : ~PendingReload(requests[s])
  BY DEF Reloading, Pending, InStage, PendingReload
<1>4. ~PendingReload(q)
  BY <1>2 DEF PendingReload
<1>5. QED
  BY <1>1, <1>3, <1>4, ApartMoves

(* A prudent application keeps its saves and its reloads apart.            *)
LEMMA ApartStep ==
  ASSUME DataInv, Prudent, Apart(requests), [Next]_vars
  PROVE  Apart(requests)'
<1>1. ASSUME NEW r \in Slots, Save_(r) PROVE Apart(requests)'
  <2>1. ~Reloading
    BY <1>1 DEF Save_, SaveOne, SaveEntities, MaySave, Prudent
  <2>2. ASSUME NEW item \in OneItems, NEW isOptimistic \in BOOLEAN,
               SaveOne(r, item, isOptimistic)
        PROVE  Apart(requests)'
    BY <2>1, <2>2, ApartSaves DEF SaveOne
  <2>3. ASSUME NEW items \in ChangeSets, NEW isOptimistic \in BOOLEAN,
               SaveEntities(r, items, isOptimistic)
        PROVE  Apart(requests)'
    BY <2>1, <2>3, ApartSaves DEF SaveEntities
  <2>4. QED
    BY <1>1, <2>2, <2>3 DEF Save_
<1>2. ASSUME NEW r \in Slots, NEW kind \in {"Load", "All", "ByKey"}, NEW ids,
             Query(r, kind, ids)
      PROVE  Apart(requests)'
  <2> DEFINE item == [op |-> "Get", data |-> [id \in ids |-> NoValue]]
             q == Request(kind, <<item>>, FALSE, "sent")
  <2>1. requests' = [requests EXCEPT ![r] = q] /\ q.kind = kind
    <3>1. q.kind = kind
      BY DEF Request
    <3> HIDE DEF q
    <3>2. Query(r, kind, ids) => requests' = [requests EXCEPT ![r] = q]
      BY DEF Query, Sends, q
    <3>3. QED
      BY <1>2, <3>1, <3>2
  <2> HIDE DEF q
  <2>2. ~PendingSave(q)
    BY <2>1 DEF PendingSave
  <2>3. PendingReload(q) => \A s \in Slots : ~PendingSave(requests[s])
    <3>1. SUFFICES ASSUME PendingReload(q) PROVE Saving = {}
      BY DEF Saving, Pending, InStage, IsSave, PendingSave
    <3>2. kind # "ByKey"
      BY <2>1, <3>1 DEF PendingReload
    <3>3. QED
      BY <1>2, <3>2 DEF Query, MayReload, Prudent
  <2>4. QED
    BY <2>1, <2>2, <2>3, ApartMoves
<1>3. ASSUME NEW r \in Slots, Ends(r) PROVE Apart(requests)'
  <2>1. NoRequest.stage = "none"
    BY DEF NoRequest, Request
  <2>2. QED
    BY <1>3, <2>1, ApartEnds DEF Ends
<1>4. ASSUME NEW r \in Slots, Succeeds(r) PROVE Apart(requests)'
  BY <1>3, <1>4 DEF Succeeds, QuerySuccess, SaveOneSuccess, SaveEntitiesSuccess,
                    Prudent
<1>5. ASSUME NEW r \in Slots, Fails(r) PROVE Apart(requests)'
  <2> DEFINE q == [requests[r] EXCEPT !.stage = "failing"]
  <2>1. /\ requests[r].stage = "sent" /\ RequestOK(requests[r])
        /\ requests' = [requests EXCEPT ![r] = q]
    BY <1>5 DEF Fails, InStage, DataInv, RequestsInv
  <2>2. q.kind = requests[r].kind
    BY <2>1 DEF RequestOK
  <2> HIDE DEF q
  <2>3. /\ PendingSave(q) => PendingSave(requests[r])
        /\ PendingReload(q) => PendingReload(requests[r])
        /\ ~(PendingReload(q) /\ PendingSave(q))
    BY <2>1, <2>2 DEF PendingSave, PendingReload
  <2>4. QED
    BY <2>1, <2>3, ApartMoves
<1>6. ASSUME NEW r \in Slots, Cancel(r) PROVE Apart(requests)'
  <2>1. CASE requests[r].stage = "skipping"
    <3> DEFINE q == [requests[r] EXCEPT !.waiting = FALSE]
    <3>1. requests' = [requests EXCEPT ![r] = q] /\ RequestOK(requests[r])
      BY <1>6, <2>1 DEF Cancel, DataInv, RequestsInv
    <3>2. q.kind = requests[r].kind /\ q.stage = requests[r].stage
      BY <3>1 DEF RequestOK
    <3> HIDE DEF q
    <3>3. /\ PendingSave(q) => PendingSave(requests[r])
          /\ PendingReload(q) => PendingReload(requests[r])
          /\ ~(PendingReload(q) /\ PendingSave(q))
      BY <3>2 DEF PendingSave, PendingReload
    <3>4. QED
      BY <3>1, <3>3, ApartMoves
  <2>2. CASE requests[r].stage # "skipping"
    <3>1. requests' = [requests EXCEPT ![r] = Canceled]
      BY <1>6, <2>2 DEF Cancel
    <3>2. Canceled.stage = "none"
      BY DEF Canceled, NoRequest, Request
    <3>3. QED
      BY <3>1, <3>2, ApartEnds
  <2>3. QED
    BY <2>1, <2>2
<1>7. CASE UNCHANGED requests
  BY <1>7 DEF Apart
<1>8. ASSUME NEW r \in Slots, Queries(r) PROVE Apart(requests)'
  BY <1>2, <1>8 DEF Queries
<1>9. ASSUME NEW r \in Slots, ErrorDue(r) \/ SkipSuccessDue(r) \/ AnswerLate(r)
      PROVE  Apart(requests)'
  BY <1>3, <1>9 DEF ErrorDue, SkipSuccessDue, AnswerLate
<1>10. CASE Cache \/ CancelLate \/ UNCHANGED vars
  <2>1. UNCHANGED requests
    BY <1>10 DEF Cache, CancelLate, vars, AddMany, UpdateMany, UpsertMany, AddAll,
                 MergeQuerySet, RemoveMany, UndoMany, CommitMany, UndoAll,
                 CommitAll, Changes
  <2>2. QED
    BY <1>7, <2>1
<1>11. QED
  BY <1>1, <1>4, <1>5, <1>6, <1>8, <1>9, <1>10 DEF Next
-----------------------------------------------------------------------------
(* The cache of a prudent application agrees, entity by entity, with what  *)
(* the client last knew, at every step of any number of requests.          *)
THEOREM DataInvariant == ASSUME Prudent PROVE Spec => []DataInv
<1>1. Init => DataInv /\ Apart(requests)
  <2> SUFFICES ASSUME Init PROVE DataInv /\ Apart(requests)
    OBVIOUS
  <2>1. /\ << >> \in PartialMaps(Values)
        /\ << >> \in PartialMaps(ChangeRecords) /\ DOMAIN << >> = {}
    BY EmptyFacts
  <2>2. collection \in Collections /\ known \in PartialMaps(Values)
    BY <2>1 DEF Init, Collections
  <2>3. Consistent(collection, known)
    BY <2>1 DEF Init, Consistent, Sound, Tracked
  <2>4. \A r \in Slots : RequestOK(requests[r]) /\ ~PendingSave(requests[r])
    BY OverFacts DEF Init
  <2>5. requests = [r \in Slots |-> requests[r]]
    BY DEF Init
  <2>6. RequestsInv(requests, collection)
    BY <2>4, <2>5 DEF RequestsInv
  <2>7. QED
    BY <2>2, <2>3, <2>4, <2>6 DEF DataInv, Apart
<1>2. DataInv /\ Apart(requests) /\ [Next]_vars => DataInv' /\ Apart(requests)'
  <2> SUFFICES ASSUME DataInv, Apart(requests), [Next]_vars PROVE DataInv'
    BY ApartStep
  <2>1. ASSUME NEW r \in Slots, Save_(r) PROVE DataInv'
    BY <2>1, SaveOneKeeps, SaveEntitiesKeeps DEF Save_
  <2>2. ASSUME NEW r \in Slots, Queries(r) PROVE DataInv'
    <3>1. CASE Query(r, "Load", Ids)
      BY <3>1, QueryKeeps
    <3>2. CASE Query(r, "All", Ids)
      BY <3>2, QueryKeeps
    <3>3. CASE \E id \in Ids : Query(r, "ByKey", {id})
      BY <3>3, QueryKeeps
    <3>4. QED
      BY <2>2, <3>1, <3>2, <3>3 DEF Queries
  <2>3. ASSUME NEW r \in Slots, Succeeds(r) PROVE DataInv'
    BY <2>3, QuerySuccessKeeps, SaveOneSuccessKeeps, SaveEntitiesSuccessKeeps
    DEF Succeeds
  <2>4. ASSUME NEW r \in Slots,
               \/ Fails(r) \/ ErrorDue(r) \/ SkipSuccessDue(r)
               \/ Cancel(r) \/ AnswerLate(r)
        PROVE  DataInv'
    BY <2>4, FailsKeeps, ErrorKeeps, SkipSuccessKeeps, CancelKeeps,
       AnswerLateKeeps
  <2>5. CASE CancelLate
    BY <2>5, CancelLateKeeps
  <2>6. CASE Cache
    <3>1. CASE \E batch \in PartialMaps(Drafts) \ {<< >>} :
                 AddMany(batch) \/ UpdateMany(batch) \/ UpsertMany(batch)
      BY <3>1, EditKeeps
    <3>2. CASE \E batch \in PartialMaps(Values) :
                 AddAll(batch) \/ MergeQuerySet(batch)
      BY <3>2, AddAllKeeps, MergeQuerySetKeeps
    <3>3. CASE \E ids \in SUBSET Ids \ {{}} :
                 RemoveMany(ids) \/ UndoMany(ids) \/ CommitMany(ids)
      BY <3>3, RemoveManyKeeps, UndoManyKeeps, CommitManyKeeps DEF UndoMany
    <3>4. CASE UndoAll
      <4>1. Tracked(collection) \in SUBSET Ids
        BY FieldFacts, MapFacts DEF Tracked, DataInv
      <4>2. /\ Tracked(collection) \cap Busy = {}
            /\ Changes(undoMany(Tracked(collection), collection))
        BY <3>4 DEF UndoAll, undoAll
      <4>3. QED
        BY <4>1, <4>2, UndoManyKeeps
    <3>5. CASE CommitAll
      BY <3>5, CommitAllKeeps
    <3>6. QED
      BY <2>6, <3>1, <3>2, <3>3, <3>4, <3>5 DEF Cache
  <2>7. CASE UNCHANGED vars
    BY <2>7 DEF vars, DataInv
  <2>8. QED
    BY <2>1, <2>2, <2>3, <2>4, <2>5, <2>6, <2>7 DEF Next
<1>3. QED
  BY <1>1, <1>2, PTL DEF Spec

(* undoAll of a prudent application takes every tracked entity back to     *)
(* what was last known of it, at any time: with requests in flight,        *)
(* refused, timed out or canceled.                                         *)
THEOREM UndoTheorem == ASSUME Prudent PROVE Spec => []UndoRestoresLastKnown
<1>1. DataInv => UndoRestoresLastKnown
  <2> SUFFICES ASSUME DataInv PROVE UndoRestoresLastKnown
    OBVIOUS
  <2> DEFINE ids == Tracked(collection)
             d == undoMany(ids, collection)
  <2>1. ids \in SUBSET Ids
    BY FieldFacts, MapFacts DEF Tracked, DataInv
  <2>2. \A id \in ids \cap Tracked(collection) :
          IF IsTracked(collection, id, "Added")
          THEN id \notin DOMAIN d.entities /\ id \notin DOMAIN known
          ELSE id \in DOMAIN known /\ d.entities[id] = known[id]
    BY <2>1, UndoKeeps DEF DataInv
  <2>3. undoAll(collection) = d
    BY DEF undoAll
  <2> HIDE DEF d
  <2>4. QED
    BY <2>2, <2>3 DEF UndoRestoresLastKnown
<1>2. QED
  BY <1>1, DataInvariant, PTL

(* In the cache of a prudent application, no change escapes the tracker.   *)
THEOREM UntrackedTheorem ==
  ASSUME Prudent PROVE Spec => []UntrackedIsLastKnown
<1>1. DataInv => UntrackedIsLastKnown
  BY DEF DataInv, Consistent, Sound, UntrackedIsLastKnown
<1>2. QED
  BY <1>1, DataInvariant, PTL

(* What a prudent application saved optimistically can be undone until the *)
(* save ends: answers to the queries by key of the same entities, and what *)
(* becomes of other saves and of other entities, do not stop its tracking. *)
(* A reload's answer would, and comes only where LoadsAndSaves lets it.    *)
THEOREM SavesCanBeUndoneTheorem ==
  ASSUME Prudent PROVE Spec => []SavesCanBeUndone
<1>1. DataInv => SavesCanBeUndone
  <2> SUFFICES ASSUME DataInv, NEW r \in Saving, requests[r].isOptimistic,
                      NEW i \in DOMAIN requests[r].items,
                      requests[r].items[i].op # "Delete"
               PROVE  DOMAIN requests[r].items[i].data \subseteq
                        Tracked(collection)
    BY DEF SavesCanBeUndone
  <2>1. r \in Slots /\ PendingSave(requests[r])
    BY DEF Saving, Pending, InStage, IsSave, PendingSave
  <2>2. AllKept(requests[r].items, collection, requests[r].isOptimistic)
    BY <2>1 DEF DataInv, RequestsInv
  <2>3. QED
    BY <2>2 DEF AllKept, Kept, Held
<1>2. QED
  BY <1>1, DataInvariant, PTL
-----------------------------------------------------------------------------
(***************************************************************************)
(* A collection says that it is loading only while a request is pending,   *)
(* whatever merge strategies the application uses, whether or not it waits *)
(* for its saves, and whatever the server does.                            *)
(***************************************************************************)
(* A collection, whatever its entities and changes are.                    *)
Shaped(c) ==
  /\ c = [entities |-> c.entities, changeState |-> c.changeState,
          loading |-> c.loading]
  /\ c.loading \in BOOLEAN

(* From c to d, the loading flag stays.                                    *)
Quiet(c, d) == Shaped(d) /\ d.loading = c.loading

(* Setting the entities or the changes leaves the flag.                    *)
LEMMA QuietSetters ==
  ASSUME NEW c, Shaped(c)
  PROVE  /\ Quiet(c, c)
         /\ \A e : Quiet(c, AdapterSetAll(e, c))
         /\ \A t : Quiet(c, SetChanges(t, c))
BY DEF Shaped, Quiet, AdapterSetAll, SetChanges

(* SetLoading sets the flag.                                               *)
LEMMA LoudSetter ==
  ASSUME NEW c, Shaped(c), NEW l \in BOOLEAN
  PROVE  Shaped(SetLoading(c, l)) /\ SetLoading(c, l).loading = l
BY DEF Shaped, SetLoading

(* Two quiet steps make a quiet step.                                      *)
LEMMA QuietTrans ==
  ASSUME NEW c, NEW d, NEW e, Quiet(c, d), Quiet(d, e)
  PROVE  Quiet(c, e)
BY DEF Quiet

(* The operations of the entity adapter are quiet.                         *)
LEMMA QuietAdapter ==
  ASSUME NEW c, Shaped(c)
  PROVE  /\ \A b : Quiet(c, AdapterAddMany(b, c))
         /\ \A b : Quiet(c, AdapterUpsertMany(b, c))
         /\ \A b : Quiet(c, AdapterUpdateMany(b, c))
         /\ \A ids : Quiet(c, AdapterRemoveMany(ids, c))
<1>1. \A b : Quiet(c, AdapterUpsertMany(b, c))
  BY QuietSetters DEF AdapterUpsertMany
<1>2. QED
  BY <1>1, QuietSetters
  DEF AdapterAddMany, AdapterUpdateMany, AdapterRemoveMany

(* Setting and forgetting changes is quiet.                                *)
LEMMA QuietTracking ==
  ASSUME NEW c, Shaped(c)
  PROVE  /\ \A t : Quiet(c, Track(t, c))
         /\ \A ids : Quiet(c, commitMany(ids, c))
         /\ Quiet(c, commitAll(c))
BY QuietSetters DEF Track, commitMany, commitAll

(* The track operations of the change tracker are quiet.                   *)
LEMMA QuietTrackers ==
  ASSUME NEW c, Shaped(c), NEW ids
  PROVE  /\ Quiet(c, trackAddMany(ids, c))
         /\ Quiet(c, trackUpdateMany(ids, c))
         /\ Quiet(c, trackUpsertMany(ids, c))
         /\ Quiet(c, trackDeleteMany(ids, c))
<1>1. /\ Quiet(c, trackAddMany(ids, c)) /\ Quiet(c, trackUpdateMany(ids, c))
      /\ Quiet(c, trackUpsertMany(ids, c))
  BY QuietTracking DEF trackAddMany, trackUpdateMany, trackUpsertMany
<1>2. Quiet(c, trackDeleteMany(ids, c))
  <2> DEFINE held == ids \cap DOMAIN c.entities
             added == {id \in held : IsTracked(c, id, "Added")}
             Original(id) == IF id \in Tracked(c)
                             THEN c.changeState[id].originalValue
                             ELSE c.entities[id]
             m == Track([id \in held \ added |->
                           Change("Deleted", Original(id))], c)
  <2>1. Quiet(c, m)
    BY QuietTracking
  <2>2. trackDeleteMany(ids, c) = commitMany(added, m)
    BY DEF trackDeleteMany
  <2> HIDE DEF m, added
  <2>3. QED
    BY <2>1, <2>2, QuietTracking, QuietTrans DEF Quiet
<1>3. QED
  BY <1>1, <1>2

(* The operations on the cache alone are quiet.                            *)
LEMMA QuietEdits ==
  ASSUME NEW c, Shaped(c), NEW batch, NEW ids
  PROVE  /\ Quiet(c, AdapterAddMany(batch, trackAddMany(ids, c)))
         /\ Quiet(c, AdapterUpdateMany(batch, trackUpdateMany(ids, c)))
         /\ Quiet(c, AdapterUpsertMany(batch, trackUpsertMany(ids, c)))
         /\ Quiet(c, AdapterRemoveMany(ids, trackDeleteMany(ids, c)))
BY QuietTrackers, QuietAdapter, QuietTrans DEF Quiet

(* The save operations are quiet, but for the flag that their reducer      *)
(* sets.                                                                   *)
LEMMA QuietSaves ==
  ASSUME NEW c, Shaped(c), NEW batch, NEW ids, NEW isOptimistic \in BOOLEAN
  PROVE  /\ Quiet(c, saveAdd(batch, c, isOptimistic))
         /\ Quiet(c, saveUpdate(batch, c, isOptimistic))
         /\ Quiet(c, saveUpsert(batch, c, isOptimistic))
         /\ Quiet(c, saveDelete(ids, c, isOptimistic))
<1>1. Quiet(c, c)
  BY QuietSetters
<1>2. /\ Quiet(c, saveAdd(batch, c, isOptimistic))
      /\ Quiet(c, saveUpdate(batch, c, isOptimistic))
      /\ Quiet(c, saveUpsert(batch, c, isOptimistic))
  BY <1>1, QuietEdits DEF saveAdd, saveUpdate, saveUpsert
<1>3. Quiet(c, saveDelete(ids, c, isOptimistic))
  <2> DEFINE added == {id \in ids : IsTracked(c, id, "Added")}
             removed == AdapterRemoveMany(added, c)
             forgotten == commitMany(added, removed)
             rest == (ids \cap Tracked(c)) \ added
             tracked == trackDeleteMany(rest, forgotten)
  <2>1. saveDelete(ids, c, isOptimistic) =
          IF isOptimistic
          THEN AdapterRemoveMany(ids, trackDeleteMany(ids, tracked))
          ELSE tracked
    BY DEF saveDelete
  <2>2. Quiet(c, removed)
    BY QuietAdapter
  <2> HIDE DEF removed
  <2>3. Quiet(removed, forgotten)
    BY <2>2, QuietTracking DEF Quiet
  <2> HIDE DEF forgotten
  <2>4. Quiet(forgotten, tracked)
    BY <2>3, QuietTrackers DEF Quiet
  <2> HIDE DEF tracked
  <2>5. Quiet(c, tracked)
    BY <2>2, <2>3, <2>4, QuietTrans
  <2>6. Quiet(tracked, AdapterRemoveMany(ids, trackDeleteMany(ids, tracked)))
    BY <2>5, QuietEdits DEF Quiet
  <2>7. QED
    BY <2>1, <2>5, <2>6, QuietTrans
<1>4. QED
  BY <1>2, <1>3

(* undoMany is quiet.                                                      *)
LEMMA QuietUndo ==
  ASSUME NEW c, Shaped(c), NEW ids
  PROVE  Quiet(c, undoMany(ids, c))
<1> DEFINE undone == ids \cap Tracked(c)
           added == {id \in undone : IsTracked(c, id, "Added")}
           originals == [id \in undone \ added |->
                           c.changeState[id].originalValue]
           removed == AdapterRemoveMany(added, c)
           restored == AdapterUpsertMany(originals, removed)
<1>1. undoMany(ids, c) = commitMany(undone, restored)
  BY DEF undoMany
<1>2. Quiet(c, removed)
  BY QuietAdapter
<1> HIDE DEF removed
<1>3. Quiet(removed, restored)
  BY <1>2, QuietAdapter DEF Quiet
<1> HIDE DEF restored
<1>4. Quiet(restored, commitMany(undone, restored))
  BY <1>3, QuietTracking DEF Quiet
<1>5. QED
  BY <1>1, <1>2, <1>3, <1>4, QuietTrans

(* Merges by every strategy are quiet.                                     *)
LEMMA QuietMerges ==
  ASSUME NEW c, Shaped(c), NEW batch, NEW strategy \in Strategies
  PROVE  Quiet(c, mergeServerUpserts(batch, c, strategy))
<1>1. CASE strategy = "IgnoreChanges"
  BY <1>1, QuietAdapter DEF mergeServerUpserts
<1>2. CASE strategy = "OverwriteChanges"
  <2> DEFINE m == AdapterUpsertMany(batch, c)
  <2>1. mergeServerUpserts(batch, c, strategy) = commitMany(DOMAIN batch, m)
    BY <1>2 DEF mergeServerUpserts
  <2>2. Quiet(c, m)
    BY QuietAdapter
  <2> HIDE DEF m
  <2>3. Quiet(m, commitMany(DOMAIN batch, m))
    BY <2>2, QuietTracking DEF Quiet
  <2>4. QED
    BY <2>1, <2>2, <2>3, QuietTrans
<1>3. CASE strategy = "PreserveChanges"
  <2> DEFINE changed == DOMAIN batch \cap Tracked(c)
             first == IF changed = {} THEN {} ELSE {Min(changed)}
             t == [id \in first |->
                     Change(c.changeState[id].changeType, batch[id])]
             m == AdapterUpsertMany(Drop(batch, changed), c)
  <2>1. mergeServerUpserts(batch, c, strategy) = Track(t, m)
    BY <1>3 DEF mergeServerUpserts
  <2>2. Quiet(c, m)
    BY QuietAdapter
  <2> HIDE DEF m, t
  <2>3. QED
    BY <2>1, <2>2, QuietTracking, QuietTrans DEF Quiet
<1>4. QED
  BY <1>1, <1>2, <1>3 DEF Strategies

(* The merges of answers are quiet.                                        *)
LEMMA QuietAnswers ==
  ASSUME NEW c, Shaped(c), NEW batch, NEW ids, NEW skipped
  PROVE  /\ Quiet(c, mergeSaveUpserts(batch, c))
         /\ Quiet(c, mergeQueryResults(batch, c))
         /\ Quiet(c, mergeSaveUpdates(batch, c, skipped))
         /\ Quiet(c, mergeSaveDeletes(ids, c))
<1>1. /\ Quiet(c, mergeSaveUpserts(batch, c))
      /\ Quiet(c, mergeQueryResults(batch, c))
  BY QuietMerges DEF mergeSaveUpserts, mergeQueryResults, Strategies
<1>2. \A some : Quiet(c, commitMany(some, c))
  BY QuietTracking
<1>3. Quiet(c, mergeSaveUpdates(batch, c, skipped))
  BY <1>2, QuietAdapter, QuietTrans DEF mergeSaveUpdates, Quiet
<1>4. Quiet(c, mergeSaveDeletes(ids, c))
  BY <1>2, QuietAdapter, QuietTrans DEF mergeSaveDeletes, Quiet
<1>5. QED
  BY <1>1, <1>3, <1>4

(* The reducer of a save gives a collection.                               *)
LEMMA SaveLoads ==
  ASSUME NEW c, Shaped(c), NEW item, item.op \in Ops,
         NEW isOptimistic \in BOOLEAN
  PROVE  Shaped(Save(item, c, isOptimistic))
<1> DEFINE m == CASE item.op = "Add" -> saveAdd(item.data, c, isOptimistic)
                  [] item.op = "Update" ->
                       saveUpdate(item.data, c, isOptimistic)
                  [] item.op = "Upsert" ->
                       saveUpsert(item.data, c, isOptimistic)
                  [] item.op = "Delete" ->
                       saveDelete(DOMAIN item.data, c, isOptimistic)
<1>1. Save(item, c, isOptimistic) = SetLoading(m, TRUE)
  BY DEF Save
<1>2. \/ m = saveAdd(item.data, c, isOptimistic)
      \/ m = saveUpdate(item.data, c, isOptimistic)
      \/ m = saveUpsert(item.data, c, isOptimistic)
      \/ m = saveDelete(DOMAIN item.data, c, isOptimistic)
  BY DEF Ops
<1> HIDE DEF m
<1>3. Quiet(c, m)
  BY <1>2, QuietSaves
<1>4. QED
  BY <1>1, <1>3, LoudSetter DEF Quiet

(* The reducer of a success clears the flag.                               *)
LEMMA SuccessEndsLoading ==
  ASSUME NEW c, Shaped(c), NEW item, item.op \in Ops,
         NEW updatesOnly \in BOOLEAN, NEW skipped,
         NEW d, d = SaveSuccess(item, c, updatesOnly, skipped)
  PROVE  Shaped(d) /\ ~d.loading
<1> DEFINE m == CASE item.op = "Add" /\ updatesOnly ->
                       mergeSaveUpdates(item.data, c, {})
                  [] item.op = "Add" /\ ~updatesOnly ->
                       mergeSaveUpserts(item.data, c)
                  [] item.op = "Update" ->
                       mergeSaveUpdates(item.data, c, skipped)
                  [] item.op = "Upsert" -> mergeSaveUpserts(item.data, c)
                  [] item.op = "Delete" ->
                       mergeSaveDeletes(DOMAIN item.data, c)
<1>1. d = SetLoading(m, FALSE)
  BY DEF SaveSuccess
<1>2. \/ m = mergeSaveUpdates(item.data, c, {})
      \/ m = mergeSaveUpserts(item.data, c)
      \/ m = mergeSaveUpdates(item.data, c, skipped)
      \/ m = mergeSaveDeletes(DOMAIN item.data, c)
  <2>1. CASE item.op = "Add"
    BY <2>1
  <2>2. CASE item.op = "Update"
    BY <2>2
  <2>3. CASE item.op = "Upsert"
    BY <2>3
  <2>4. CASE item.op = "Delete"
    BY <2>4
  <2>5. QED
    BY <2>1, <2>2, <2>3, <2>4 DEF Ops
<1> HIDE DEF m
<1>3. Quiet(c, m)
  BY <1>2, QuietAnswers
<1>4. QED
  BY <1>1, <1>3, LoudSetter DEF Quiet

(* Every item of a request has an operation.                               *)
LEMMA ItemsOps ==
  ASSUME NEW items, ItemsOK(items)
  PROVE  /\ items[1].op \in Ops
         /\ Len(items) # 1 => items[2].op \in Ops
<1>1. CASE items = <<items[1]>> /\ ItemOK(items[1])
  BY <1>1, OneItem DEF ItemOK
<1>2. CASE ItemOK(items[1]) /\ ItemOK(items[2])
  BY <1>2 DEF ItemOK
<1>3. QED
  BY <1>1, <1>2 DEF ItemsOK

(* The reducer of SAVE_ENTITIES gives a collection.                        *)
LEMMA SaveItemsLoads ==
  ASSUME NEW c, Shaped(c), NEW items, ItemsOK(items),
         NEW isOptimistic \in BOOLEAN
  PROVE  Shaped(SaveItems(items, c, isOptimistic))
<1> DEFINE first == Save(items[1], c, isOptimistic)
           a == items[1]
           b == items[2]
<1>1. /\ a.op \in Ops
      /\ Len(items) # 1 => b.op \in Ops
  BY ItemsOps
<1>2. SaveItems(items, c, isOptimistic) =
        IF Len(items) = 1 THEN first ELSE Save(b, first, isOptimistic)
  BY DEF SaveItems
<1>3. first = Save(a, c, isOptimistic)
  OBVIOUS
<1> HIDE DEF first, a, b
<1>4. Shaped(first)
  BY <1>1, <1>3, SaveLoads
<1>5. Len(items) # 1 => Shaped(Save(b, first, isOptimistic))
  BY <1>1, <1>4, SaveLoads
<1>6. QED
  BY <1>2, <1>4, <1>5

(* The reducer of SAVE_ENTITIES_SUCCESS clears the flag.                   *)
LEMMA ItemsSuccessEndsLoading ==
  ASSUME NEW c, Shaped(c), NEW items, ItemsOK(items),
         NEW d, d = SaveItemsSuccess(items, c)
  PROVE  Shaped(d) /\ ~d.loading
<1> DEFINE first == SaveSuccess(items[1], c, FALSE, {})
           second == SaveSuccess(items[2], first, FALSE, {})
           a == items[1]
           b == items[2]
           no == FALSE
           none == {}
<1>1. /\ a.op \in Ops
      /\ Len(items) # 1 => b.op \in Ops
  BY ItemsOps
<1>2. d = IF Len(items) = 1 THEN first ELSE second
  BY DEF SaveItemsSuccess
<1>3. /\ first = SaveSuccess(a, c, no, none)
      /\ second = SaveSuccess(b, first, no, none) /\ no \in BOOLEAN
  OBVIOUS
<1> HIDE DEF first, second, a, b, no, none
<1>4. Shaped(first) /\ ~first.loading
  BY <1>1, <1>3, SuccessEndsLoading
<1>5. Len(items) # 1 => Shaped(second) /\ ~second.loading
  BY <1>1, <1>3, <1>4, SuccessEndsLoading
<1>6. QED
  BY <1>2, <1>4, <1>5

(* The property is inductive together with the types of what it speaks of. *)
LoadingInv ==
  /\ Shaped(collection) /\ LoadingMeansPending
  /\ requests = [r \in Slots |-> requests[r]]
  /\ \A r \in Slots : RequestOK(requests[r])

(* A step of one request leaves the others.                                *)
LEMMA TypedSlot ==
  ASSUME LoadingInv, NEW r \in Slots, NEW q, RequestOK(q),
         requests' = [requests EXCEPT ![r] = q]
  PROVE  /\ requests' = [s \in Slots |-> requests'[s]]
         /\ \A s \in Slots : RequestOK(requests'[s])
         /\ requests'[r] = q
         /\ \A s \in Slots \ {r} : requests'[s] = requests[s]
<1>1. /\ requests'[r] = q
      /\ \A s \in Slots \ {r} : requests'[s] = requests[s]
      /\ requests' = [s \in Slots |-> requests'[s]]
  BY DEF LoadingInv
<1>2. QED
  BY <1>1 DEF LoadingInv

(* A step that clears the flag may end its request.                        *)
LEMMA StopsLoading ==
  ASSUME LoadingInv, NEW r \in Slots, NEW q, RequestOK(q),
         requests' = [requests EXCEPT ![r] = q],
         Shaped(collection'), ~collection'.loading
  PROVE  LoadingInv'
<1>1. LoadingMeansPending'
  BY DEF LoadingMeansPending
<1>2. QED
  BY <1>1, TypedSlot DEF LoadingInv

(* A step that leaves a request pending may set the flag.                  *)
LEMMA StaysPending ==
  ASSUME LoadingInv, NEW r \in Slots, NEW q, RequestOK(q),
         requests' = [requests EXCEPT ![r] = q], Shaped(collection'),
         q.stage \in {"sent", "failing", "skipping"}
  PROVE  LoadingInv'
<1>1. requests'[r] = q
  BY TypedSlot
<1>2. LoadingMeansPending'
  BY <1>1 DEF LoadingMeansPending, Pending, InStage
<1>3. QED
  BY <1>2, TypedSlot DEF LoadingInv

(* A quiet step that changes no request keeps the invariant.               *)
LEMMA QuietStep ==
  ASSUME LoadingInv, requests' = requests, Quiet(collection, collection')
  PROVE  LoadingInv'
<1>1. LoadingMeansPending'
  BY DEF LoadingInv, LoadingMeansPending, Pending, InStage, Quiet
<1>2. QED
  BY <1>1 DEF LoadingInv, Quiet

(* The saves keep the invariant: they open a request and set the flag.     *)
LEMMA SavingLoads ==
  ASSUME LoadingInv, NEW r \in Slots, Save_(r)
  PROVE  LoadingInv'
<1>1. ASSUME NEW isOptimistic \in BOOLEAN, NEW item \in OneItems,
             SaveOne(r, item, isOptimistic)
      PROVE  LoadingInv'
  <2> DEFINE q == Request("One", <<item>>, isOptimistic,
                          IF Skips(item, collection) THEN "skipping"
                          ELSE "sent")
  <2>1. /\ collection' = Save(item, collection, isOptimistic)
        /\ requests' = [requests EXCEPT ![r] = q]
    BY <1>1 DEF SaveOne, Sends
  <2>2. ItemOK(item)
    BY OneItemTypes
  <2>3. Shaped(collection')
    BY <2>1, <2>2, SaveLoads DEF LoadingInv, ItemOK
  <2>4. /\ q = [kind |-> q.kind, items |-> q.items,
                isOptimistic |-> q.isOptimistic, stage |-> q.stage,
                waiting |-> q.waiting]
        /\ q.kind = "One" /\ q.items = <<item>>
        /\ q.stage \in {"sent", "skipping"}
        /\ q.stage = "skipping" => Skips(item, collection)
        /\ q.isOptimistic = isOptimistic
    BY RequestFacts
  <2> HIDE DEF q
  <2>5. q.items[1] = item
    BY <2>4, OneItem
  <2>6. RequestOK(q)
    BY <2>2, <2>4, <2>5 DEF RequestOK, ItemsOK, Skips
  <2>7. QED
    BY <2>1, <2>3, <2>4, <2>6, StaysPending
<1>2. ASSUME NEW isOptimistic \in BOOLEAN, NEW items \in ChangeSets,
             SaveEntities(r, items, isOptimistic)
      PROVE  LoadingInv'
  <2> DEFINE q == Request("Many", items, isOptimistic, "sent")
  <2>1. /\ collection' = SaveItems(items, collection, isOptimistic)
        /\ requests' = [requests EXCEPT ![r] = q]
    BY <1>2 DEF SaveEntities, Sends
  <2>2. ItemsOK(items)
    BY ChangeSetTypes
  <2>3. Shaped(collection')
    BY <2>1, <2>2, SaveItemsLoads DEF LoadingInv
  <2>4. /\ q = [kind |-> q.kind, items |-> q.items,
                isOptimistic |-> q.isOptimistic, stage |-> q.stage,
                waiting |-> q.waiting]
        /\ q.kind = "Many" /\ q.items = items /\ q.stage = "sent"
        /\ q.isOptimistic = isOptimistic
    BY RequestFacts
  <2> HIDE DEF q
  <2>5. RequestOK(q)
    BY <2>2, <2>4 DEF RequestOK
  <2>6. QED
    BY <2>1, <2>3, <2>4, <2>5, StaysPending
<1>3. QED
  BY <1>1, <1>2 DEF Save_

(* So do the queries.                                                      *)
LEMMA QueryLoads ==
  ASSUME LoadingInv, NEW r \in Slots, NEW kind \in {"Load", "All", "ByKey"},
         NEW ids, kind = "ByKey" => \E id \in Ids : ids = {id},
         Query(r, kind, ids)
  PROVE  LoadingInv'
<1> DEFINE item == [op |-> "Get", data |-> [id \in ids |-> NoValue]]
           q == Request(kind, <<item>>, FALSE, "sent")
<1>1. /\ collection' = SetLoading(collection, TRUE)
      /\ requests' = [requests EXCEPT ![r] = q]
  BY DEF Query, Sends
<1>2. Shaped(collection')
  BY <1>1, LoudSetter DEF LoadingInv
<1>3. DOMAIN item.data = ids
  OBVIOUS
<1> HIDE DEF item
<1>4. /\ q = [kind |-> q.kind, items |-> q.items,
              isOptimistic |-> q.isOptimistic, stage |-> q.stage,
              waiting |-> q.waiting]
      /\ q.kind = kind /\ q.items = <<item>> /\ q.stage = "sent"
      /\ q.isOptimistic = FALSE
  BY DEF Request
<1> HIDE DEF q
<1>5. ItemIds(q.items) = ids
  BY <1>3, <1>4, OneItem
<1>6. RequestOK(q)
  BY <1>4, <1>5 DEF RequestOK, PendingSave
<1>7. QED
  BY <1>1, <1>2, <1>4, <1>6, StaysPending

(* The end of a request that clears the flag keeps the invariant.          *)
LEMMA OverStops ==
  ASSUME LoadingInv, NEW r \in Slots, Ends(r),
         Shaped(collection'), ~collection'.loading
  PROVE  LoadingInv'
BY OverFacts, StopsLoading DEF Ends

(* Every answer ends its request and clears the flag, even the one without *)
(* content of which the caller is told nothing.                            *)
LEMMA AnswersEndLoading ==
  ASSUME LoadingInv, NEW r \in Slots, Succeeds(r)
  PROVE  LoadingInv'
<1> DEFINE q == requests[r]
<1>1. RequestOK(q)
  BY DEF LoadingInv
<1>2. ASSUME NEW batch \in PartialMaps(Values), QuerySuccess(r, batch)
      PROVE  LoadingInv'
  <2> DEFINE m == CASE q.kind = "Load" ->
                         commitAll(AdapterSetAll(batch, collection))
                    [] q.kind = "All" ->
                         mergeServerUpserts(batch, collection, MergeAll)
                    [] q.kind = "ByKey" -> mergeQueryResults(batch, collection)
  <2>1. /\ q.stage = "sent" /\ q.kind \notin {"One", "Many"}
        /\ collection' = SetLoading(m, FALSE) /\ Ends(r)
    BY <1>2 DEF QuerySuccess, InStage, IsSave
  <2>2. q.kind \in {"Load", "All", "ByKey"}
    BY <1>1, <2>1 DEF RequestOK
  <2>3. Shaped(collection)
    BY DEF LoadingInv
  <2>4. CASE q.kind = "Load"
    <3>1. Quiet(collection, AdapterSetAll(batch, collection))
      BY <2>3, QuietSetters
    <3>2. Quiet(AdapterSetAll(batch, collection), m)
      BY <2>4, <3>1, QuietTracking DEF Quiet
    <3> HIDE DEF m
    <3>3. QED
      BY <2>1, <3>2, LoudSetter, OverStops DEF Quiet
  <2>5. CASE q.kind = "All"
    <3>1. Quiet(collection, m)
      BY <2>3, <2>5, QuietMerges, DataAssumption
    <3> HIDE DEF m
    <3>2. QED
      BY <2>1, <3>1, LoudSetter, OverStops DEF Quiet
  <2>6. CASE q.kind = "ByKey"
    <3>1. Quiet(collection, m)
      BY <2>3, <2>6, QuietAnswers
    <3> HIDE DEF m
    <3>2. QED
      BY <2>1, <3>1, LoudSetter, OverStops DEF Quiet
  <2>7. QED
    BY <2>2, <2>4, <2>5, <2>6
<1>3. ASSUME q.stage = "sent", q.kind = "One",
             NEW item \in Answers(q.items[1]), NEW changed \in BOOLEAN,
             SaveOneSuccess(r, item, changed)
      PROVE  LoadingInv'
  <2> DEFINE skipped == IF q.isOptimistic /\ ~changed THEN DOMAIN item.data
                        ELSE {}
             isOptimistic == q.isOptimistic
  <2>1. /\ collection' = SaveSuccess(item, collection, isOptimistic, skipped)
        /\ Ends(r)
    BY <1>3 DEF SaveOneSuccess
  <2>2. isOptimistic \in BOOLEAN /\ ItemsOK(q.items)
    BY <1>1, <1>3 DEF RequestOK, PendingSave
  <2>3. item.op \in Ops
    BY <2>2, ItemsOps DEF Answers
  <2> HIDE DEF skipped, isOptimistic
  <2>4. Shaped(collection') /\ ~collection'.loading
    BY <2>1, <2>2, <2>3, SuccessEndsLoading DEF LoadingInv
  <2>5. QED
    BY <2>1, <2>4, OverStops
<1>4. ASSUME q.stage = "sent", q.kind = "Many",
             NEW items \in AnswersTo(q.items), NEW content \in BOOLEAN,
             SaveEntitiesSuccess(r, items, content)
      PROVE  LoadingInv'
  <2>1. ItemsOK(q.items)
    BY <1>1, <1>4 DEF RequestOK, PendingSave
  <2>2. ItemsOK(items)
    BY <2>1, AnswersFacts
  <2>3. CASE ~content /\ q.isOptimistic
    <3> DEFINE told == [q EXCEPT !.stage = "untold"]
    <3>1. /\ collection' = SetLoading(collection, FALSE)
          /\ requests' = [requests EXCEPT ![r] = told]
      BY <1>4, <2>3 DEF SaveEntitiesSuccess
    <3>2. Shaped(collection') /\ ~collection'.loading
      BY <3>1, LoudSetter DEF LoadingInv
    <3>3. /\ told = [kind |-> told.kind, items |-> told.items,
                     isOptimistic |-> told.isOptimistic, stage |-> told.stage,
                     waiting |-> told.waiting]
          /\ told.kind = "Many" /\ told.stage = "untold"
          /\ told.isOptimistic \in BOOLEAN
      BY <1>1, <1>4 DEF RequestOK
    <3> HIDE DEF told
    <3>4. RequestOK(told)
      BY <3>3 DEF RequestOK, PendingSave
    <3>5. QED
      BY <3>1, <3>2, <3>4, StopsLoading
  <2>4. CASE ~(~content /\ q.isOptimistic)
    <3>1. collection' = SaveItemsSuccess(items, collection) /\ Ends(r)
      BY <1>4, <2>4 DEF SaveEntitiesSuccess
    <3>2. Shaped(collection') /\ ~collection'.loading
      BY <2>2, <3>1, ItemsSuccessEndsLoading DEF LoadingInv
    <3>3. QED
      BY <3>1, <3>2, OverStops
  <2>5. QED
    BY <2>3, <2>4
<1>5. QED
  BY <1>2, <1>3, <1>4 DEF Succeeds, InStage

(* Errors, skipped answers and cancellations keep the invariant; a request *)
(* that failed is pending until its error is reduced.                      *)
LEMMA TimersKeepLoading ==
  ASSUME LoadingInv, NEW r \in Slots,
         \/ Fails(r) \/ ErrorDue(r) \/ SkipSuccessDue(r)
         \/ Cancel(r) \/ AnswerLate(r)
  PROVE  LoadingInv'
<1>1. RequestOK(requests[r]) /\ Shaped(collection)
  BY DEF LoadingInv
<1>2. CASE Fails(r)
  <2> DEFINE q == [requests[r] EXCEPT !.stage = "failing"]
  <2>1. /\ requests[r].stage = "sent" /\ collection' = collection
        /\ requests' = [requests EXCEPT ![r] = q]
    BY <1>2 DEF Fails, InStage
  <2>2. /\ q = [kind |-> q.kind, items |-> q.items,
                isOptimistic |-> q.isOptimistic, stage |-> q.stage,
                waiting |-> q.waiting]
        /\ q.kind = requests[r].kind /\ q.items = requests[r].items
        /\ q.isOptimistic = requests[r].isOptimistic /\ q.stage = "failing"
    BY <1>1 DEF RequestOK
  <2> HIDE DEF q
  <2>3. RequestOK(q)
    BY <1>1, <2>1, <2>2 DEF RequestOK, PendingSave
  <2>4. QED
    BY <1>1, <2>1, <2>2, <2>3, StaysPending
<1>3. CASE ErrorDue(r)
  <2>1. collection' = SetLoading(collection, FALSE) /\ Ends(r)
    BY <1>3 DEF ErrorDue
  <2>2. QED
    BY <1>1, <2>1, LoudSetter, OverStops
<1>4. CASE SkipSuccessDue(r)
  <2> DEFINE item == requests[r].items[1]
             isOptimistic == requests[r].isOptimistic
             none == {}
  <2>1. /\ collection' = SaveSuccess(item, collection, isOptimistic, none)
        /\ requests[r].stage = "skipping" /\ Ends(r)
    BY <1>4 DEF SkipSuccessDue, InStage
  <2>2. item.op \in Ops /\ isOptimistic \in BOOLEAN
    BY <1>1, <2>1 DEF RequestOK, Ops
  <2> HIDE DEF item, isOptimistic, none
  <2>3. Shaped(collection') /\ ~collection'.loading
    BY <1>1, <2>1, <2>2, SuccessEndsLoading
  <2>4. QED
    BY <2>1, <2>3, OverStops
<1>5. CASE Cancel(r)
  <2> DEFINE q == IF requests[r].stage = "skipping"
                  THEN [requests[r] EXCEPT !.waiting = FALSE] ELSE Canceled
  <2>1. /\ collection' = SetLoading(collection, FALSE)
        /\ requests' = [requests EXCEPT ![r] = q]
    BY <1>5 DEF Cancel
  <2>2. Shaped(collection') /\ ~collection'.loading
    BY <1>1, <2>1, LoudSetter
  <2>3. RequestOK(q)
    <3>1. CASE requests[r].stage = "skipping"
      <4>1. /\ q = [kind |-> q.kind, items |-> q.items,
                    isOptimistic |-> q.isOptimistic, stage |-> q.stage,
                    waiting |-> q.waiting]
            /\ q.kind = requests[r].kind /\ q.items = requests[r].items
            /\ q.isOptimistic = requests[r].isOptimistic
            /\ q.stage = requests[r].stage
        BY <1>1, <3>1 DEF RequestOK
      <4> HIDE DEF q
      <4>2. QED
        BY <1>1, <4>1 DEF RequestOK, PendingSave
    <3>2. CASE requests[r].stage # "skipping"
      BY <3>2, OverFacts
    <3>3. QED
      BY <3>1, <3>2
  <2> HIDE DEF q
  <2>4. QED
    BY <2>1, <2>2, <2>3, StopsLoading
<1>6. CASE AnswerLate(r)
  <2>1. /\ requests[r] = Canceled /\ collection' = collection
        /\ requests' = [requests EXCEPT ![r] = NoRequest]
    BY <1>6 DEF AnswerLate, Ends
  <2>2. RequestOK(NoRequest)
    BY OverFacts
  <2>3. ~Pending(r)
    BY <2>1 DEF Pending, InStage, Canceled, NoRequest, Request
  <2>4. \A s \in Slots \ {r} : requests'[s] = requests[s]
    BY <2>1, <2>2, TypedSlot
  <2>5. LoadingMeansPending'
    BY <2>1, <2>3, <2>4
    DEF LoadingInv, LoadingMeansPending, Pending, InStage
  <2>6. QED
    BY <1>1, <2>1, <2>2, <2>5, TypedSlot DEF LoadingInv
<1>7. QED
  BY <1>2, <1>3, <1>4, <1>5, <1>6

(* No operation on the cache alone sets the flag.                          *)
LEMMA CacheKeepsLoading ==
  ASSUME LoadingInv, Cache
  PROVE  LoadingInv'
<1>1. Shaped(collection)
  BY DEF LoadingInv
<1>2. ASSUME NEW c, Quiet(collection, c), Changes(c)
      PROVE  LoadingInv'
  BY <1>2, QuietStep DEF Changes
<1>3. ASSUME NEW c, Shaped(c), collection' = SetLoading(c, FALSE),
             requests' = requests
      PROVE  LoadingInv'
  <2>1. Shaped(collection') /\ ~collection'.loading
    BY <1>3, LoudSetter
  <2>2. QED
    BY <1>3, <2>1 DEF LoadingInv, LoadingMeansPending
<1>4. CASE \E batch \in PartialMaps(Drafts) \ {<< >>} :
             AddMany(batch) \/ UpdateMany(batch) \/ UpsertMany(batch)
  BY <1>1, <1>2, <1>4, QuietEdits DEF AddMany, UpdateMany, UpsertMany
<1>5. CASE \E batch \in PartialMaps(Values) :
             AddAll(batch) \/ MergeQuerySet(batch)
  <2>1. PICK batch \in PartialMaps(Values) :
          AddAll(batch) \/ MergeQuerySet(batch)
    BY <1>5
  <2>2. CASE AddAll(batch)
    <3>1. Quiet(collection, AdapterSetAll(batch, collection))
      BY <1>1, QuietSetters
    <3>2. Shaped(commitAll(AdapterSetAll(batch, collection)))
      BY <3>1, QuietTracking DEF Quiet
    <3>3. QED
      BY <1>3, <2>2, <3>2 DEF AddAll
  <2>3. CASE MergeQuerySet(batch)
    <3>1. Shaped(mergeServerUpserts(batch, collection, MergeAll))
      BY <1>1, QuietMerges, DataAssumption DEF Quiet
    <3>2. QED
      BY <1>3, <2>3, <3>1 DEF MergeQuerySet
  <2>4. QED
    BY <2>1, <2>2, <2>3
<1>6. CASE \E ids \in SUBSET Ids \ {{}} :
             RemoveMany(ids) \/ UndoMany(ids) \/ CommitMany(ids)
  <2>1. PICK ids : RemoveMany(ids) \/ UndoMany(ids) \/ CommitMany(ids)
    BY <1>6
  <2>2. CASE RemoveMany(ids)
    BY <1>1, <1>2, <2>2, QuietEdits DEF RemoveMany
  <2>3. CASE UndoMany(ids)
    BY <1>1, <1>2, <2>3, QuietUndo DEF UndoMany
  <2>4. CASE CommitMany(ids)
    BY <1>1, <2>4, QuietTracking, QuietStep DEF CommitMany
  <2>5. QED
    BY <2>1, <2>2, <2>3, <2>4
<1>7. CASE UndoAll
  BY <1>1, <1>2, <1>7, QuietUndo DEF UndoAll, undoAll
<1>8. CASE CommitAll
  BY <1>1, <1>8, QuietTracking, QuietStep DEF CommitAll
<1>9. QED
  BY <1>4, <1>5, <1>6, <1>7, <1>8 DEF Cache

(* A collection that says it is loading has a request in flight, or one    *)
(* whose error is about to be reduced: whatever the application and the    *)
(* server do.                                                              *)
THEOREM LoadingTheorem == Spec => []LoadingMeansPending
<1>1. Init => LoadingInv
  <2> SUFFICES ASSUME Init PROVE LoadingInv
    OBVIOUS
  <2>1. Shaped(collection) /\ LoadingMeansPending
    BY DEF Init, Shaped, LoadingMeansPending
  <2>2. QED
    BY <2>1, OverFacts DEF Init, LoadingInv
<1>2. LoadingInv /\ [Next]_vars => LoadingInv'
  <2> SUFFICES ASSUME LoadingInv, [Next]_vars PROVE LoadingInv'
    OBVIOUS
  <2>1. ASSUME NEW r \in Slots, Queries(r) PROVE LoadingInv'
    <3>1. CASE Query(r, "Load", Ids)
      BY <3>1, QueryLoads
    <3>2. CASE Query(r, "All", Ids)
      BY <3>2, QueryLoads
    <3>3. CASE \E id \in Ids : Query(r, "ByKey", {id})
      BY <3>3, QueryLoads
    <3>4. QED
      BY <2>1, <3>1, <3>2, <3>3 DEF Queries
  <2>2. CASE CancelLate
    <3>1. /\ collection' = SetLoading(collection, FALSE)
          /\ requests' = requests
      BY <2>2 DEF CancelLate
    <3>2. Shaped(collection') /\ ~collection'.loading
      BY <3>1, LoudSetter DEF LoadingInv
    <3>3. QED
      BY <3>1, <3>2 DEF LoadingInv, LoadingMeansPending
  <2>3. CASE UNCHANGED vars
    BY <2>3 DEF vars, LoadingInv, LoadingMeansPending, Pending, InStage
  <2>4. QED
    BY <2>1, <2>2, <2>3, SavingLoads, AnswersEndLoading, TimersKeepLoading,
       CacheKeepsLoading DEF Next
<1>3. LoadingInv => LoadingMeansPending
  BY DEF LoadingInv
<1>4. QED
  BY <1>1, <1>2, <1>3, PTL DEF Spec
=============================================================================
