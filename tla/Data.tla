-------------------------------- MODULE Data --------------------------------
(***************************************************************************)
(* A collection of @ngrx/data: cached entities, the changes tracked until  *)
(* they are saved, and the requests that save and query them.              *)
(*                                                                         *)
(* Actions of an application are reduced first (EntityCollectionReducer-   *)
(* Methods), then EntityEffects or EntityCacheEffects call the server, and *)
(* what comes of it is reduced in turn.  Requests run side by side, and    *)
(* answers come in any order, or late, or not at all.  The server is       *)
(* external: it may answer a query with anything, and may change what it   *)
(* is given to save.                                                       *)
(*                                                                         *)
(* An entity is a value under its id.  A batch is a function from ids to   *)
(* values, in the order of the ids.  Operations on one entity are those on *)
(* a batch of one.                                                         *)
(***************************************************************************)
EXTENDS Naturals, Sequences, SequencesExt, FiniteSetsExt, Functions

CONSTANTS
  Ids,           (* Primary keys of the entities.                          *)
  Values,        (* What an entity may be.                                 *)
  Drafts,        (* The values that the application gives to entities.     *)
  NoValue,       (* undefined.                                             *)
  Slots,         (* Correlation ids of requests in flight. Bounds them.    *)
  MergeAll,      (* The mergeStrategy the application gives QUERY_ALL.     *)
  NoContent,     (* Whether the server may answer 204 to a change set that *)
                 (* was saved optimistically.                              *)
  LostAnswers,   (* Whether a query may return an entity that the client   *)
                 (* still takes for added: its save went through, unheard. *)
  Overlap,       (* Whether the application does not wait for its saves.   *)
  LoadsAndSaves  (* Whether the application saves while a reload is on its *)
                 (* way, or reloads while a save is: the server's answer   *)
                 (* to the reload then comes between a save and its own.   *)

Strategies == {"IgnoreChanges", "PreserveChanges", "OverwriteChanges"}

ASSUME DataAssumption ==
  /\ Ids \subseteq Nat /\ Slots \subseteq Nat
  /\ Drafts \subseteq Values /\ NoValue \notin Values
  /\ MergeAll \in Strategies
  /\ {NoContent, LostAnswers, Overlap, LoadsAndSaves} \subseteq BOOLEAN

VARIABLES
  collection,    (* entities, changeState and loading.                     *)
  requests,      (* The requests in flight, by correlation id.             *)
  known          (* History: what the client was last told by the server,  *)
                 (* or by the application in its place, of every entity.   *)

vars == <<collection, requests, known>>

PartialMaps(S) == UNION {[ids -> S] : ids \in SUBSET Ids}
Drop(map, ids) == Restrict(map, DOMAIN map \ ids)
Overlay(top, map) ==
  [id \in DOMAIN top \cup DOMAIN map |-> IF id \in DOMAIN top THEN top[id]
                                        ELSE map[id]]
-----------------------------------------------------------------------------
(* What the entity adapter promises of its operations (module Entity).     *)

AdapterSetAll(batch, c) == [c EXCEPT !.entities = batch]
AdapterAddMany(batch, c) == AdapterSetAll(Overlay(c.entities, batch), c)
AdapterUpsertMany(batch, c) == AdapterSetAll(Overlay(batch, c.entities), c)
AdapterUpdateMany(batch, c) ==
  AdapterUpsertMany(Restrict(batch, DOMAIN batch \cap DOMAIN c.entities), c)
AdapterRemoveMany(ids, c) == AdapterSetAll(Drop(c.entities, ids), c)
-----------------------------------------------------------------------------
(* EntityChangeTrackerBase.                                                *)

Tracked(c) == DOMAIN c.changeState
IsTracked(c, id, type) ==
  id \in Tracked(c) /\ c.changeState[id].changeType = type

Change(type, original) == [changeType |-> type, originalValue |-> original]
SetChanges(changes, c) == [c EXCEPT !.changeState = changes]
Track(changes, c) == SetChanges(Overlay(changes, c.changeState), c)

commitMany(ids, c) == SetChanges(Drop(c.changeState, ids), c)
commitAll(c) == SetChanges(<< >>, c)

trackAddMany(ids, c) ==
  Track([id \in ids \ Tracked(c) |-> Change("Added", NoValue)], c)

(* An added entity is forgotten, an updated one keeps its originalValue.   *)
trackDeleteMany(ids, c) ==
  LET held == ids \cap DOMAIN c.entities
      added == {id \in held : IsTracked(c, id, "Added")}
      Original(id) == IF id \in Tracked(c) THEN c.changeState[id].originalValue
                      ELSE c.entities[id]
      deleted == [id \in held \ added |-> Change("Deleted", Original(id))]
  IN commitMany(added, Track(deleted, c))

trackUpdateMany(ids, c) ==
  Track([id \in (ids \cap DOMAIN c.entities) \ Tracked(c) |->
           Change("Updated", c.entities[id])], c)

trackUpsertMany(ids, c) ==
  Track([id \in ids \ Tracked(c) |->
           IF id \in DOMAIN c.entities THEN Change("Updated", c.entities[id])
           ELSE Change("Added", NoValue)], c)

undoMany(ids, c) ==
  LET undone == ids \cap Tracked(c)
      added == {id \in undone : IsTracked(c, id, "Added")}
      originals == [id \in undone \ added |-> c.changeState[id].originalValue]
  IN commitMany(undone,
       AdapterUpsertMany(originals, AdapterRemoveMany(added, c)))
undoAll(c) == undoMany(Tracked(c), c)

(* PreserveChanges gives an originalValue to the first changed entity of   *)
(* the batch only: it is assigned where didMutate is set.                  *)
mergeServerUpserts(batch, c, strategy) ==
  CASE strategy = "IgnoreChanges" -> AdapterUpsertMany(batch, c)
    [] strategy = "OverwriteChanges" ->
         commitMany(DOMAIN batch, AdapterUpsertMany(batch, c))
    [] strategy = "PreserveChanges" ->
         LET changed == DOMAIN batch \cap Tracked(c)
             first == IF changed = {} THEN {} ELSE {Min(changed)}
         IN Track([id \in first |->
                     Change(c.changeState[id].changeType, batch[id])],
                  AdapterUpsertMany(Drop(batch, changed), c))

(* Mutant: a query that overwrites unsaved changes.                        *)
mergeQueryOverwrites(batch, c) ==
  mergeServerUpserts(batch, c, "OverwriteChanges")

(* Mutant: all that is tracked counts as if the server had not changed it. *)
mergeSaveCommitsOnly(batch, c, skipped) == commitMany(DOMAIN batch, c)

(* The default strategies of queries and of saves.                         *)
mergeQueryResults(batch, c) == mergeServerUpserts(batch, c, "PreserveChanges")
mergeSaveUpserts(batch, c) == mergeServerUpserts(batch, c, "OverwriteChanges")
mergeSaveUpdates(batch, c, skipped) ==
  AdapterUpdateMany(Drop(batch, skipped), commitMany(DOMAIN batch, c))
mergeSaveDeletes(ids, c) == AdapterRemoveMany(ids, commitMany(ids, c))
-----------------------------------------------------------------------------
(* EntityCollectionReducerMethods: SAVE_ operations.                       *)

SetLoading(c, loading) == [c EXCEPT !.loading = loading]

saveAdd(batch, c, isOptimistic) ==
  IF isOptimistic THEN AdapterAddMany(batch, trackAddMany(DOMAIN batch, c))
  ELSE c

(* Mutant: tracks an entity after it was updated.                          *)
saveUpdateThenTracks(batch, c, isOptimistic) ==
  IF isOptimistic
  THEN trackUpdateMany(DOMAIN batch, AdapterUpdateMany(batch, c))
  ELSE c

saveUpdate(batch, c, isOptimistic) ==
  IF isOptimistic
  THEN AdapterUpdateMany(batch, trackUpdateMany(DOMAIN batch, c))
  ELSE c

saveUpsert(batch, c, isOptimistic) ==
  IF isOptimistic
  THEN AdapterUpsertMany(batch, trackUpsertMany(DOMAIN batch, c))
  ELSE c

(* Added entities go at once; others are tracked as deleted even when the  *)
(* delete is pessimistic and leaves them where they are.                   *)
saveDelete(ids, c, isOptimistic) ==
  LET added == {id \in ids : IsTracked(c, id, "Added")}
      forgotten == commitMany(added, AdapterRemoveMany(added, c))
      tracked == trackDeleteMany((ids \cap Tracked(c)) \ added, forgotten)
  IN IF isOptimistic THEN AdapterRemoveMany(ids, trackDeleteMany(ids, tracked))
     ELSE tracked

Save(item, c, isOptimistic) ==
  LET saved == CASE item.op = "Add" -> saveAdd(item.data, c, isOptimistic)
                 [] item.op = "Update" -> saveUpdate(item.data, c, isOptimistic)
                 [] item.op = "Upsert" -> saveUpsert(item.data, c, isOptimistic)
                 [] item.op = "Delete" ->
                      saveDelete(DOMAIN item.data, c, isOptimistic)
  IN SetLoading(saved, TRUE)

(* Whether the reducer set payload.skip for EntityEffects.                 *)
Skips(item, c) ==
  item.op = "Delete" /\ \E id \in DOMAIN item.data : IsTracked(c, id, "Added")

(* SAVE_ADD_ONE_SUCCESS of an optimistic save updates what is there, of a  *)
(* pessimistic one upserts; every other success treats both alike but for  *)
(* the optimistic updates the server did not change, which are skipped.    *)
SaveSuccess(item, c, updatesOnly, skipped) ==
  LET saved ==
        CASE item.op = "Add" /\ updatesOnly ->
               mergeSaveUpdates(item.data, c, {})
          [] item.op = "Add" /\ ~updatesOnly -> mergeSaveUpserts(item.data, c)
          [] item.op = "Update" -> mergeSaveUpdates(item.data, c, skipped)
          [] item.op = "Upsert" -> mergeSaveUpserts(item.data, c)
          [] item.op = "Delete" -> mergeSaveDeletes(DOMAIN item.data, c)
  IN SetLoading(saved, FALSE)
-----------------------------------------------------------------------------
(* Requests.  One is made of change set items, a single one for operations *)
(* of EntityEffects, and is sent; its error or its skipped answer waits a  *)
(* delay; it is canceled and the server's answer is still to come; or it   *)
(* is over and its caller was not told.                                    *)

Request(kind, items, isOptimistic, stage) ==
  [kind |-> kind, items |-> items, isOptimistic |-> isOptimistic,
   stage |-> stage, waiting |-> TRUE]

NoRequest == [Request("None", <<>>, FALSE, "none") EXCEPT !.waiting = FALSE]
(* Mutant: the caller of a canceled request is not told.                   *)
CanceledUntold == [NoRequest EXCEPT !.kind = "Canceled", !.waiting = TRUE]

Canceled == [NoRequest EXCEPT !.kind = "Canceled"]

Free(r) == requests[r] = NoRequest
(* A new request takes the first free slot.                                *)
Opens(r) == Free(r) /\ \A q \in Slots : q < r => ~Free(q)
InStage(r, stages) == requests[r].stage \in stages
Pending(r) == InStage(r, {"sent", "failing", "skipping"})
IsSave(r) == requests[r].kind \in {"One", "Many"}

ItemIds(items) == UNION {DOMAIN items[i].data : i \in DOMAIN items}
(* Entities with a save in flight.  Until it ends, an application does     *)
(* nothing else with them.                                                 *)
Saving == {r \in Slots : Pending(r) /\ IsSave(r)}
Busy ==
  IF Overlap THEN {} ELSE UNION {ItemIds(requests[r].items) : r \in Saving}

(* Reloads, whose answer replaces or merges the whole collection: an       *)
(* application keeps them and its saves apart.  Nothing in the code does.  *)
Reloading == \E r \in Slots : Pending(r) /\ requests[r].kind \in {"Load", "All"}
MaySave == LoadsAndSaves \/ ~Reloading
MayReload == LoadsAndSaves \/ Saving = {}

Items(op, ids) ==
  [op : {op}, data : IF op = "Delete" THEN {[id \in ids |-> NoValue]}
                     ELSE [ids -> Drafts]]
Sensible(item) ==
  /\ DOMAIN item.data \cap Busy = {}
  /\ item.op = "Add" => DOMAIN item.data \cap DOMAIN collection.entities = {}
  /\ item.op = "Update" => DOMAIN item.data \subseteq DOMAIN collection.entities
  /\ item.op = "Delete" => DOMAIN item.data \subseteq
       DOMAIN collection.entities \cup Tracked(collection)
Ops == {"Add", "Update", "Upsert", "Delete"}

Sends(r, request) == /\ requests' = [requests EXCEPT ![r] = request]
                     /\ UNCHANGED known

(* SAVE_ADD_ONE, SAVE_UPDATE_ONE, SAVE_UPSERT_ONE and SAVE_DELETE_ONE.     *)
SaveOne(r, item, isOptimistic) ==
  /\ Opens(r) /\ MaySave /\ Sensible(item)
  /\ collection' = Save(item, collection, isOptimistic)
  /\ Sends(r, Request("One", <<item>>, isOptimistic,
                      IF Skips(item, collection) THEN "skipping" ELSE "sent"))

(* The items of a change set, one or two, are reduced one after another.   *)
SaveItems(items, c, isOptimistic) ==
  LET first == Save(items[1], c, isOptimistic)
  IN IF Len(items) = 1 THEN first ELSE Save(items[2], first, isOptimistic)

(* SAVE_ENTITIES: payload.skip is lost.                                    *)
SaveEntities(r, items, isOptimistic) ==
  /\ Opens(r) /\ MaySave /\ \A i \in DOMAIN items : Sensible(items[i])
  /\ collection' = SaveItems(items, collection, isOptimistic)
  /\ Sends(r, Request("Many", items, isOptimistic, "sent"))

(* QUERY_LOAD, QUERY_ALL (QUERY_MANY alike) and QUERY_BY_KEY.              *)
Query(r, kind, ids) ==
  /\ Opens(r)
  /\ kind # "ByKey" => MayReload
  /\ collection' = SetLoading(collection, TRUE)
  /\ LET item == [op |-> "Get", data |-> [id \in ids |-> NoValue]]
     IN Sends(r, Request(kind, <<item>>, FALSE, "sent"))

Ends(r) == requests' = [requests EXCEPT ![r] = NoRequest]

(* What a query may return.                                                *)
Returned(batch) ==
  LostAnswers \/ \A id \in DOMAIN batch : ~IsTracked(collection, id, "Added")

(* handleSuccess of a query.                                               *)
QuerySuccess(r, batch) ==
  /\ InStage(r, {"sent"}) /\ ~IsSave(r)
  /\ DOMAIN batch \subseteq ItemIds(requests[r].items) /\ Returned(batch)
  /\ collection' = SetLoading(
       CASE requests[r].kind = "Load" ->
              commitAll(AdapterSetAll(batch, collection))
         [] requests[r].kind = "All" ->
              mergeServerUpserts(batch, collection, MergeAll)
         [] requests[r].kind = "ByKey" -> mergeQueryResults(batch, collection),
       FALSE)
  /\ known' = IF requests[r].kind = "Load" THEN batch
               ELSE Overlay(batch, known)
  /\ Ends(r)

(* What the server may have made of an item. An update answered without    *)
(* data was not changed. An add always comes back with data: of an answer  *)
(* without, the guard of saveAddOneSuccess makes an error.                 *)
Answers(item) ==
  [op : {item.op}, data : IF item.op = "Delete" THEN {item.data}
                          ELSE [DOMAIN item.data -> Values]]
AnswersTo(items) ==
  IF Len(items) = 1 THEN {<<item>> : item \in Answers(items[1])}
  ELSE Answers(items[1]) \X Answers(items[2])
Learn(facts, item) ==
  IF item.op = "Delete" THEN Drop(facts, DOMAIN item.data)
  ELSE Overlay(item.data, facts)

LearnItems(facts, items) ==
  LET first == Learn(facts, items[1])
  IN IF Len(items) = 1 THEN first ELSE Learn(first, items[2])

SaveOneSuccess(r, item, changed) ==
  /\ InStage(r, {"sent"}) /\ requests[r].kind = "One"
  /\ changed \/ item = requests[r].items[1]
  /\ LET isOptimistic == requests[r].isOptimistic
         skipped == IF isOptimistic /\ ~changed THEN DOMAIN item.data ELSE {}
     IN collection' = SaveSuccess(item, collection, isOptimistic, skipped)
  /\ known' = Learn(known, item)
  /\ Ends(r)

SaveItemsSuccess(items, c) ==
  LET first == SaveSuccess(items[1], c, FALSE, {})
  IN IF Len(items) = 1 THEN first ELSE SaveSuccess(items[2], first, FALSE, {})

(* handleSaveEntitiesSuccess$: an answer without content stands for the    *)
(* items sent.  If they were saved optimistically, SET_LOADING is all that *)
(* is dispatched, and the caller is told nothing.                          *)
SaveEntitiesSuccess(r, items, content) ==
  LET quiet == ~content /\ requests[r].isOptimistic
  IN /\ InStage(r, {"sent"}) /\ requests[r].kind = "Many"
     /\ content \/ items = requests[r].items
     /\ quiet => NoContent
     /\ collection' =
          IF quiet THEN SetLoading(collection, FALSE)
          ELSE SaveItemsSuccess(items, collection)
     /\ known' = LearnItems(known, items)
     /\ IF quiet THEN requests' = [requests EXCEPT ![r].stage = "untold"]
        ELSE Ends(r)

(* handleError$: the server refuses, or the timeout of the data service    *)
(* expires; the error action follows after responseDelay.                  *)
Fails(r) ==
  /\ InStage(r, {"sent"})
  /\ requests' = [requests EXCEPT ![r].stage = "failing"]
  /\ UNCHANGED <<collection, known>>

(* Mutant: the loading flag is left.                                       *)
ErrorDueQuietly(r) ==
  /\ InStage(r, {"failing"})
  /\ Ends(r) /\ UNCHANGED <<collection, known>>

ErrorDue(r) ==
  /\ InStage(r, {"failing"})
  /\ collection' = SetLoading(collection, FALSE)
  /\ Ends(r) /\ UNCHANGED known

(* handleSkipSuccess$: the success of a delete that was not sent.          *)
SkipSuccessDue(r) ==
  /\ InStage(r, {"skipping"})
  /\ collection' = SaveSuccess(requests[r].items[1], collection,
                               requests[r].isOptimistic, {})
  /\ known' = Learn(known, requests[r].items[1])
  /\ Ends(r)

(* CANCEL_PERSIST and SAVE_ENTITIES_CANCEL: the caller is told, and the    *)
(* race is lost for the server.  A skipped answer is not in the race.      *)
Cancel(r) ==
  /\ Pending(r) /\ requests[r].waiting
  /\ collection' = SetLoading(collection, FALSE)
  /\ requests' = [requests EXCEPT ![r] =
       IF @.stage = "skipping" THEN [@ EXCEPT !.waiting = FALSE] ELSE Canceled]
  /\ UNCHANGED known

(* A cancellation that comes after the answer.                             *)
CancelLate ==
  /\ \E r \in Slots : Free(r)
  /\ collection' = SetLoading(collection, FALSE)
  /\ UNCHANGED <<requests, known>>

(* The answer to a canceled request: nobody is subscribed.                 *)
AnswerLate(r) ==
  /\ requests[r] = Canceled
  /\ Ends(r) /\ UNCHANGED <<collection, known>>
-----------------------------------------------------------------------------
(* Operations on the cache alone.                                          *)

Changes(c) == collection' = c /\ UNCHANGED <<requests, known>>

AddMany(batch) ==
  /\ DOMAIN batch \cap (Busy \cup DOMAIN collection.entities) = {}
  /\ Changes(AdapterAddMany(batch, trackAddMany(DOMAIN batch, collection)))

UpdateMany(batch) ==
  /\ DOMAIN batch \cap Busy = {}
  /\ LET tracked == trackUpdateMany(DOMAIN batch, collection)
     IN Changes(AdapterUpdateMany(batch, tracked))

UpsertMany(batch) ==
  /\ DOMAIN batch \cap Busy = {}
  /\ LET tracked == trackUpsertMany(DOMAIN batch, collection)
     IN Changes(AdapterUpsertMany(batch, tracked))

RemoveMany(ids) ==
  /\ ids \cap Busy = {}
  /\ Changes(AdapterRemoveMany(ids, trackDeleteMany(ids, collection)))

UndoMany(ids) == ids \cap Busy = {} /\ Changes(undoMany(ids, collection))
UndoAll == Busy = {} /\ Changes(undoAll(collection))

(* COMMIT_MANY: the application says that the entities are as on the       *)
(* server.                                                                 *)
Committed(ids) ==
  Overlay(Restrict(collection.entities, DOMAIN collection.entities \cap ids),
          Drop(known, ids))
CommitMany(ids) ==
  /\ ids \cap Busy = {}
  /\ collection' = commitMany(ids, collection)
  /\ known' = Committed(ids) /\ UNCHANGED requests
CommitAll ==
  /\ Busy = {}
  /\ collection' = commitAll(collection)
  /\ known' = Committed(Ids) /\ UNCHANGED requests

(* ADD_ALL and REMOVE_ALL; LOAD_COLLECTIONS and CLEAR_COLLECTIONS.         *)
AddAll(batch) ==
  /\ Busy = {}
  /\ collection' =
       SetLoading(commitAll(AdapterSetAll(batch, collection)), FALSE)
  /\ known' = batch /\ UNCHANGED requests

(* MERGE_QUERY_SET: QUERY_MANY_SUCCESS of a query made elsewhere.          *)
MergeQuerySet(batch) ==
  /\ Busy = {} /\ Returned(batch)
  /\ collection' =
       SetLoading(mergeServerUpserts(batch, collection, MergeAll), FALSE)
  /\ known' = Overlay(batch, known) /\ UNCHANGED requests
-----------------------------------------------------------------------------
Init ==
  /\ collection = [entities |-> << >>, changeState |-> << >>, loading |-> FALSE]
  /\ requests = [r \in Slots |-> NoRequest]
  /\ known = << >>

ItemsOn(ids) == UNION {Items(op, ids) : op \in Ops}
OneItems == UNION {ItemsOn({id}) : id \in Ids}
ChangeSets ==
  {<<item>> : item \in ItemsOn(Ids)}
    \cup {pair \in OneItems \X OneItems :
             /\ pair[1].op = "Delete" /\ pair[2].op = "Upsert"
             /\ DOMAIN pair[1].data # DOMAIN pair[2].data}

Save_(r) ==
  \E isOptimistic \in BOOLEAN :
    \/ \E item \in OneItems : SaveOne(r, item, isOptimistic)
    \/ \E items \in ChangeSets : SaveEntities(r, items, isOptimistic)
Queries(r) ==
  \/ Query(r, "Load", Ids)
  \/ Query(r, "All", Ids)
  \/ \E id \in Ids : Query(r, "ByKey", {id})

Succeeds(r) ==
  \/ \E batch \in PartialMaps(Values) : QuerySuccess(r, batch)
  \/ /\ InStage(r, {"sent"}) /\ requests[r].kind = "One"
     /\ \E item \in Answers(requests[r].items[1]), changed \in BOOLEAN :
          SaveOneSuccess(r, item, changed)
  \/ /\ InStage(r, {"sent"}) /\ requests[r].kind = "Many"
     /\ \E items \in AnswersTo(requests[r].items), content \in BOOLEAN :
          SaveEntitiesSuccess(r, items, content)

Cache ==
  \/ \E batch \in PartialMaps(Drafts) \ {<< >>} : \/ AddMany(batch)
                                                 \/ UpdateMany(batch)
                                                 \/ UpsertMany(batch)
  \/ \E batch \in PartialMaps(Values) : \/ AddAll(batch)
                                        \/ MergeQuerySet(batch)
  \/ \E ids \in SUBSET Ids \ {{}} : \/ RemoveMany(ids)
                                  \/ UndoMany(ids)
                                  \/ CommitMany(ids)
  \/ UndoAll
  \/ CommitAll

Next ==
  \/ \E r \in Slots : \/ Save_(r)
                      \/ Queries(r)
                      \/ Succeeds(r)
                      \/ Fails(r)
                      \/ ErrorDue(r)
                      \/ SkipSuccessDue(r)
                      \/ Cancel(r)
                      \/ AnswerLate(r)
  \/ CancelLate
  \/ Cache

(* A request does not stay sent for ever: unless the server answers it, it *)
(* fails by the timeout of the data service, if one is configured, and     *)
(* otherwise when the browser gives up. The delays of errors and skipped   *)
(* answers are timers.                                                     *)
Expires(r) == Fails(r) \/ ErrorDue(r) \/ SkipSuccessDue(r)
Fairness == \A r \in Slots : WF_vars(Expires(r))
Spec == Init /\ [][Next]_vars /\ Fairness
-----------------------------------------------------------------------------
(* undoAll, at any time, with requests in flight or given up, takes every  *)
(* tracked entity back to what the client last knew of it: an added one is *)
(* gone and unknown to the server, any other has the value that the server *)
(* had last told.                                                          *)
UndoRestoresLastKnown ==
  LET undone == undoAll(collection).entities
  IN \A id \in Tracked(collection) :
       IF IsTracked(collection, id, "Added")
       THEN id \notin DOMAIN undone /\ id \notin DOMAIN known
       ELSE id \in DOMAIN known /\ undone[id] = known[id]

(* No change escapes the tracker: an entity of which no change is tracked  *)
(* is what the client last knew, through saves that succeeded, failed,     *)
(* were skipped or canceled, and merges of what the server made of them.   *)
UntrackedIsLastKnown ==
  \A id \in Ids \ Tracked(collection) :
    IF id \in DOMAIN collection.entities
    THEN id \in DOMAIN known /\ collection.entities[id] = known[id]
    ELSE id \notin DOMAIN known

(* While an optimistic save is in flight, what it saved can be undone: its *)
(* tracking is not stopped by the answers to queries by key of the same    *)
(* entity, by those to other saves or by what is done to the cache. The    *)
(* answer to a reload would stop it: an application that keeps reloads and *)
(* saves apart (LoadsAndSaves) does not get one meanwhile.                 *)
SavesCanBeUndone ==
  \A r \in Saving : requests[r].isOptimistic =>
    \A i \in DOMAIN requests[r].items : requests[r].items[i].op # "Delete" =>
      DOMAIN requests[r].items[i].data \subseteq Tracked(collection)

(* A collection that says it is loading has a request in flight, or one    *)
(* whose error is about to be reduced; so loading ends.  Not the converse: *)
(* the first answer of two clears the flag.                                *)
LoadingMeansPending == collection.loading => \E r \in Slots : Pending(r)

(* Every observable that the dispatcher returned for a save or a query     *)
(* emits or fails in the end: answered, refused, timed out or canceled.    *)
EveryCallerAnswered ==
  \A r \in Slots : requests[r].waiting ~> ~requests[r].waiting
=============================================================================
