------------------------------- MODULE Entity -------------------------------
(***************************************************************************)
(* The collections of @ngrx/entity and of @ngrx/signals/entities: entities *)
(* in a dictionary by id, and an array of ids that gives their order.      *)
(* Three implementations keep one: the unsorted adapter, the sorted        *)
(* adapter and the updaters of signals/entities.  They are driven side by  *)
(* side, together with a plain dictionary that knows no order, the         *)
(* reference that says what each operation should do to the entities.      *)
(*                                                                         *)
(* An entity is its id, the key it is sorted by and nothing else.  An      *)
(* array of entities is a sequence, an update names an id and the changed  *)
(* properties.  Operations on one entity are those on a batch of one.      *)
(***************************************************************************)
EXTENDS Naturals, Sequences, SequencesExt, FiniteSetsExt, Functions

CONSTANTS
  Ids,        (* Ids an entity may have: numbers, 0 among them perhaps.    *)
  Keys,       (* What the entities are sorted by.                          *)
  MaxBatch    (* Entities handed to one operation. Bounds the model.       *)

ASSUME EntityAssumption ==
  Ids \subseteq Nat /\ Keys \subseteq Nat /\ MaxBatch \in Nat

VARIABLES
  unsorted,   (* The collection of the unsorted adapter.                   *)
  sorted,     (* The collection of the adapter with a sortComparer.        *)
  signals,    (* The collection of signals/entities.                       *)
  plain,      (* The reference: the entities by id.                        *)
  last        (* History: the ids the last operation named, and whether it *)
              (* filled the collection anew.                               *)

vars == <<unsorted, sorted, signals, plain, last>>

Collection(ids, entities) == [ids |-> ids, entities |-> entities]
EmptyCollection == Collection(<<>>, << >>)

(* Assigning to a property of a dictionary, and delete.                    *)
Put(entities, entity) == (entity.id :> entity) @@ entities
Drop(entities, gone) == Restrict(entities, DOMAIN entities \ gone)

(* Object.assign({}, original, changes).                                   *)
Assign(original, changes) == changes @@ original
-----------------------------------------------------------------------------
(* The unsorted adapter.                                                   *)

(* Mutant: as setOneMutably.                                               *)
addOneOverwrites(c, entity) ==
  Collection(IF entity.id \in DOMAIN c.entities THEN c.ids
             ELSE Append(c.ids, entity.id),
             Put(c.entities, entity))

addOneMutably(c, entity) ==
  IF entity.id \in DOMAIN c.entities THEN c
  ELSE Collection(Append(c.ids, entity.id), Put(c.entities, entity))
addMany(c, batch) == FoldLeft(addOneMutably, c, batch)

setAll(c, batch) == addMany(EmptyCollection, batch)

setOneMutably(c, entity) ==
  Collection(IF entity.id \in DOMAIN c.entities THEN c.ids
             ELSE Append(c.ids, entity.id),
             Put(c.entities, entity))
setMany(c, batch) == FoldLeft(setOneMutably, c, batch)

removeMany(c, keys) ==
  LET left == Drop(c.entities, keys)
  IN Collection(SelectSeq(c.ids, LAMBDA id : id \in DOMAIN left), left)

(* Mutant: the entity is not deleted under its old id.                     *)
takeNewKeyKeepsOld(acc, update) ==
  LET updated == Assign(acc.entities[update.id], update.changes)
  IN [entities |-> Put(acc.entities, updated),
      newKeys  |-> IF updated.id = update.id THEN acc.newKeys
                   ELSE (update.id :> updated.id) @@ acc.newKeys]

(* takeNewKey: the entity moves to its new id; newKeys remembers it.       *)
takeNewKey(acc, update) ==
  LET updated == Assign(acc.entities[update.id], update.changes)
      moved == updated.id # update.id
  IN [entities |-> Put(Drop(acc.entities, IF moved THEN {update.id} ELSE {}),
                       updated),
      newKeys  |-> IF moved THEN (update.id :> updated.id) @@ acc.newKeys
                   ELSE acc.newKeys]

(* newKeys[id] || id, where an id of 0 counts as no new key.               *)
NewKeyOr(newKeys, id) ==
  IF id \in DOMAIN newKeys /\ newKeys[id] # 0 THEN newKeys[id] ELSE id

(* Mutant: updated entities go to the end.                                 *)
updateManyAtEnd(c, updates) ==
  LET known == SelectSeq(updates, LAMBDA u : u.id \in DOMAIN c.entities)
      taken == FoldLeft(takeNewKey, [entities |-> c.entities,
                                     newKeys |-> << >>], known)
      named == {known[i].id : i \in DOMAIN known}
  IN Collection(SelectSeq(c.ids, LAMBDA id : id \notin named)
                  \o [i \in DOMAIN known |->
                        NewKeyOr(taken.newKeys, known[i].id)],
                taken.entities)

updateMany(c, updates) ==
  LET known == SelectSeq(updates, LAMBDA u : u.id \in DOMAIN c.entities)
      taken == FoldLeft(takeNewKey, [entities |-> c.entities,
                                     newKeys |-> << >>], known)
  IN Collection([i \in DOMAIN c.ids |-> NewKeyOr(taken.newKeys, c.ids[i])],
                taken.entities)

(* What upsertMany tells apart before either half is applied.              *)
Existing(c, batch) ==
  LET known == SelectSeq(batch, LAMBDA e : e.id \in DOMAIN c.entities)
  IN [i \in DOMAIN known |-> [id |-> known[i].id, changes |-> known[i]]]
Missing(c, batch) == SelectSeq(batch, LAMBDA e : e.id \notin DOMAIN c.entities)

upsertMany(c, batch) ==
  addMany(updateMany(c, Existing(c, batch)), Missing(c, batch))

(* map hands updateMany an update for every entity that the map changed.   *)
Changed(c, f) ==
  LET changed == SelectSeq(c.ids, LAMBDA id : f[c.entities[id].key]
                                                # c.entities[id].key)
      Mapped(id) == [c.entities[id] EXCEPT !.key = f[@]]
  IN [i \in DOMAIN changed |-> [id |-> changed[i],
                                changes |-> Mapped(changed[i])]]
-----------------------------------------------------------------------------
(* The sorted adapter: as the above, but ids are merged into their place.  *)

(* models.sort(sort): stable, by key.                                      *)
InsertModel(models, model) ==
  LET before == Cardinality({i \in DOMAIN models : models[i].key <= model.key})
  IN InsertAt(models, before + 1, model)
SortModels(models) == FoldLeft(InsertModel, <<>>, models)

(* merge: a model goes before an entity that it compares equal with.       *)
GoesFirst(model, entity) == model.key <= entity.key
MergedIds(models, c) ==
  LET merged[i \in 1..Len(models) + 1, j \in 1..Len(c.ids) + 1] ==
        IF i > Len(models) THEN SubSeq(c.ids, j, Len(c.ids))
        ELSE IF j > Len(c.ids) \/ GoesFirst(models[i], c.entities[c.ids[j]])
             THEN <<models[i].id>> \o merged[i + 1, j]
             ELSE <<c.ids[j]>> \o merged[i, j + 1]
  IN merged[1, 1]
merge(models, c) ==
  Collection(MergedIds(SortModels(models), c),
             FoldLeft(Put, c.entities, SortModels(models)))

(* A batch is filtered by what the collection holds before it.             *)
sortedAddMany(c, batch) == merge(Missing(c, batch), c)

sortedSetAll(c, batch) == sortedAddMany(EmptyCollection, batch)

sortedSetOne(c, entity) ==
  merge(<<entity>>, [c EXCEPT !.ids = SelectSeq(@, LAMBDA id : id # entity.id)])
sortedSetMany(c, batch) == FoldLeft(sortedSetOne, c, batch)

(* takeUpdatedModel: the entity leaves the dictionary until the merge.     *)
takeUpdatedModel(acc, update) ==
  IF update.id \notin DOMAIN acc.entities THEN acc
  ELSE LET updated == Assign(acc.entities[update.id], update.changes)
       IN [entities |-> Drop(acc.entities, {update.id}),
           models   |-> Append(acc.models, updated),
           moved    |-> acc.moved \/ updated.id # update.id]
Taken(c, updates) ==
  FoldLeft(takeUpdatedModel,
           [entities |-> c.entities, models |-> <<>>, moved |-> FALSE], updates)

sortedUpdateMutably(c, updates) ==
  LET taken == Taken(c, updates)
      Left(id) == id \in DOMAIN taken.entities
  IN merge(taken.models, Collection(SelectSeq(c.ids, Left), taken.entities))

(* Mutant: entities that changed their place are not noticed.              *)
EntitiesOnlyUnlessMoved(c, updates, updated) == ~Taken(c, updates).moved

(* DidMutate.EntitiesOnly: no id changed, and every updated entity is back *)
(* at its index.  createStateOperator then keeps the old array of ids.     *)
EntitiesOnly(c, updates, updated) ==
  LET taken == Taken(c, updates)
  IN /\ ~taken.moved
     /\ \A i \in DOMAIN c.ids : c.ids[i] \notin DOMAIN taken.entities =>
          i \in DOMAIN updated.ids /\ updated.ids[i] = c.ids[i]
createStateOperator(c, clone, entitiesOnly) ==
  IF entitiesOnly THEN [clone EXCEPT !.ids = c.ids] ELSE clone

sortedUpdateMany(c, updates) ==
  LET updated == sortedUpdateMutably(c, updates)
  IN createStateOperator(c, updated, EntitiesOnly(c, updates, updated))

sortedUpsertMany(c, batch) ==
  LET updates == Existing(c, batch)
      updated == sortedUpdateMutably(c, updates)
  IN createStateOperator(c, sortedAddMany(updated, Missing(c, batch)),
       Missing(c, batch) = <<>> /\ EntitiesOnly(c, updates, updated))
-----------------------------------------------------------------------------
(* The updaters of signals/entities.                                       *)

addEntityMutably(c, entity) ==
  IF entity.id \in DOMAIN c.entities THEN c
  ELSE Collection(Append(c.ids, entity.id), Put(c.entities, entity))
addEntities(c, batch) == FoldLeft(addEntityMutably, c, batch)

setEntityMutably(c, entity) ==
  Collection(IF entity.id \in DOMAIN c.entities THEN c.ids
             ELSE Append(c.ids, entity.id),
             Put(c.entities, entity))
setEntities(c, batch) == FoldLeft(setEntityMutably, c, batch)
setAllEntities(c, batch) == setEntities(EmptyCollection, batch)

removeEntities(c, ids) ==
  LET left == Drop(c.entities, ids)
  IN Collection(SelectSeq(c.ids, LAMBDA id : id \in DOMAIN left), left)

(* One changes function for all ids; ids whose entity changed its id are   *)
(* replaced in place when all are done.                                    *)
updateEntities(c, ids, changes) ==
  LET Update(acc, id) ==
        IF id \notin DOMAIN acc.entities THEN acc
        ELSE LET updated == Assign(acc.entities[id], changes[acc.entities[id]])
             IN [entities |-> Put(Drop(acc.entities, {id}), updated),
                 newIds   |-> IF updated.id = id THEN acc.newIds
                              ELSE (id :> updated.id) @@ acc.newIds]
      done == FoldLeft(Update, [entities |-> c.entities, newIds |-> << >>], ids)
      NewId(id) == IF id \in DOMAIN done.newIds THEN done.newIds[id] ELSE id
  IN Collection([i \in DOMAIN c.ids |-> NewId(c.ids[i])], done.entities)
-----------------------------------------------------------------------------
(* What an application may ask for: batches that name an entity once, and  *)
(* changes that leave ids alone or move an entity to an id that is free.   *)

Entities == [id : Ids, key : Keys]
Batches == {b \in SeqOf(Entities, MaxBatch) :
              \A i, j \in DOMAIN b : b[i].id = b[j].id => i = j}

ChangesOf(id) ==
  [key : Keys] \cup {[id |-> new] : new \in Ids \ (DOMAIN plain \cup {id})}
    \cup {[id |-> new, key |-> key] :
            new \in Ids \ (DOMAIN plain \cup {id}), key \in Keys}
Updates == UNION {[id : {id}, changes : ChangesOf(id)] : id \in Ids}
MovedTo(update) == {update.changes[p] : p \in DOMAIN update.changes \cap {"id"}}
UpdateBatches ==
  {b \in SeqOf(Updates, MaxBatch) : \A i, j \in DOMAIN b : i # j =>
     /\ b[i].id # b[j].id
     /\ MovedTo(b[i]) \cap MovedTo(b[j]) = {}
     /\ b[j].id \notin MovedTo(b[i])}

(* The reference.                                                          *)
Names(items) == last' = [ids |-> {items[i].id : i \in DOMAIN items},
                         anew |-> FALSE]
PlainSet(entities, batch) == FoldLeft(Put, entities, batch)
PlainUpdate(entities, updates) ==
  LET hit == {i \in DOMAIN updates : updates[i].id \in DOMAIN entities}
      new == {Assign(entities[updates[i].id], updates[i].changes) : i \in hit}
      old == {updates[i].id : i \in hit}
  IN [id \in {e.id : e \in new} |-> CHOOSE e \in new : e.id = id]
       @@ Drop(entities, old)

AddMany(batch) ==
  /\ unsorted' = addMany(unsorted, batch)
  /\ sorted' = sortedAddMany(sorted, batch)
  /\ signals' = addEntities(signals, batch)
  /\ plain' = plain @@ PlainSet(<< >>, batch)
  /\ Names(batch)

SetAll(batch) ==
  /\ unsorted' = setAll(unsorted, batch)
  /\ sorted' = sortedSetAll(sorted, batch)
  /\ signals' = setAllEntities(signals, batch)
  /\ plain' = PlainSet(<< >>, batch)
  /\ last' = [ids |-> Ids, anew |-> TRUE]

SetMany(batch) ==
  /\ unsorted' = setMany(unsorted, batch)
  /\ sorted' = sortedSetMany(sorted, batch)
  /\ signals' = setEntities(signals, batch)
  /\ plain' = PlainSet(plain, batch)
  /\ Names(batch)

UpsertMany(batch) ==
  /\ unsorted' = upsertMany(unsorted, batch)
  /\ sorted' = sortedUpsertMany(sorted, batch)
  /\ signals' = setEntities(signals, batch)
  /\ plain' = PlainSet(plain, batch)
  /\ Names(batch)

(* removeOne, removeMany, removeAll, also by a predicate.                  *)
RemoveMany(keys) ==
  /\ unsorted' = removeMany(unsorted, keys)
  /\ sorted' = removeMany(sorted, keys)
  /\ signals' = removeEntities(signals, keys)
  /\ plain' = Drop(plain, keys)
  /\ last' = [ids |-> keys, anew |-> FALSE]

UpdateMany(updates) ==
  LET ids == [i \in DOMAIN updates |-> updates[i].id]
      changes == [entity \in {e \in Entities : e.id \in ToSet(ids)} |->
        updates[CHOOSE i \in DOMAIN ids : ids[i] = entity.id].changes]
  IN /\ unsorted' = updateMany(unsorted, updates)
     /\ sorted' = sortedUpdateMany(sorted, updates)
     /\ signals' = updateEntities(signals, ids, changes)
     /\ plain' = PlainUpdate(plain, updates)
     /\ Names(updates)

(* map, and updateAllEntities of signals/entities.                         *)
MapAll(f) ==
  LET changes == [entity \in Entities |-> [key |-> f[entity.key]]]
  IN /\ unsorted' = updateMany(unsorted, Changed(unsorted, f))
     /\ sorted' = sortedUpdateMany(sorted, Changed(sorted, f))
     /\ signals' = updateEntities(signals, signals.ids, changes)
     /\ plain' = [id \in DOMAIN plain |-> [plain[id] EXCEPT !.key = f[@]]]
     /\ last' = [ids |-> Ids, anew |-> FALSE]

Init ==
  /\ unsorted = EmptyCollection /\ sorted = EmptyCollection
  /\ signals = EmptyCollection /\ plain = << >>
  /\ last = [ids |-> {}, anew |-> TRUE]

Next ==
  \/ \E batch \in Batches : \/ AddMany(batch)
                            \/ SetAll(batch)
                            \/ SetMany(batch)
                            \/ UpsertMany(batch)
  \/ \E keys \in SUBSET Ids : RemoveMany(keys)
  \/ \E updates \in UpdateBatches : UpdateMany(updates)
  \/ \E f \in [Keys -> Keys] : MapAll(f)

Spec == Init /\ [][Next]_vars
-----------------------------------------------------------------------------
(* The three collections, whatever was done to them, list every entity     *)
(* once in ids and hold it under its own id.                               *)
IdsMatchEntities ==
  \A c \in {unsorted, sorted, signals} :
    /\ ToSet(c.ids) = DOMAIN c.entities
    /\ IsInjective(c.ids)
    /\ \A id \in DOMAIN c.entities :
         c.entities[id] \in Entities /\ c.entities[id].id = id

(* Three algorithms, one collection: each holds what the plain dictionary  *)
(* holds, so that a sortComparer, or signals, changes order and no more.   *)
ImplementationsAgree ==
  /\ unsorted.entities = plain
  /\ sorted.entities = plain
  /\ signals = unsorted

(* The sorted adapter keeps its ids in order although it sorts the batch   *)
(* alone, merges, and sometimes keeps the old array of ids.                *)
SortedByComparer ==
  \A i, j \in DOMAIN sorted.ids : i < j =>
    sorted.entities[sorted.ids[i]].key <= sorted.entities[sorted.ids[j]].key

(* Entities that stay in an unsorted collection never change places, and   *)
(* in a sorted one those that the operation did not name do not either: a  *)
(* merge does not reorder the equals it runs past.  setAll fills a         *)
(* collection anew.                                                        *)
KeepOrder(c, d, ids) ==
  LET kept ==
        SelectSeq(c.ids, LAMBDA id : id \in ids /\ id \in DOMAIN d.entities)
  IN SelectSeq(d.ids, LAMBDA id : id \in ToSet(kept)) = kept
OrderIsStable ==
  [][last'.anew \/ /\ KeepOrder(unsorted, unsorted', Ids)
                   /\ KeepOrder(sorted, sorted', Ids \ last'.ids)]_vars
=============================================================================
