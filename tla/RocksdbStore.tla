---------------------------- MODULE RocksdbStore ----------------------------
(***************************************************************************)
(* Objects, indexes and transactions of the RocksDB plugin                 *)
(* (db/plugins/rocksdb): one model, one topic, one partition.              *)
(*                                                                         *)
(* An object is one key of the database and has one more key for each of   *)
(* its indexes: the index, the value of the indexed field and, unless the  *)
(* index is unique, the object's ID; what is stored there is the ID and    *)
(* the TTL mark.  Every call writes its keys in a pessimistic transaction, *)
(* its own or the caller's: it locks what it writes or reads for update    *)
(* until the transaction ends, so that a call is one step, which waits     *)
(* while another session holds one of its locks.  Queries read the         *)
(* committed database, also within a transaction.                          *)
(***************************************************************************)
EXTENDS ModelTopics, FiniteSets

CONSTANTS Sessions, Ids, Names, Tags,
          Dues,          \* the dates of the field with the TTL index
          Ttl,           \* the seconds the TTL index adds to that date
          MaxTime,       \* bound: the clock
          MaxCount,      \* bound: objects counted in the topic
          MaxLate,       \* bound: the age of the date of a new object
          MaxCalls,      \* bound: calls within a transaction
          MaxOpen,       \* bound: sessions with an open transaction or a call
                         \* that is working through a query
          Avoided,       \* the irregular calls (see Irregular) that are set aside
          Null,          \* the value of a field that is not set
          NoId,          \* the last part of a key that has no object ID
          Absent         \* what a transaction writes to delete a key

NoDue == 0
Objects == [name : Names \cup {Null}, tag : Tags, due : Dues \cup {NoDue}]

ASSUME RocksdbStoreAssumption ==
    /\ Dues \subseteq Nat \ {0} /\ Ttl \in Nat
    /\ MaxTime \in Nat /\ MaxCount \in Nat /\ MaxLate \in Nat
    /\ MaxCalls \in Nat /\ MaxOpen \in Nat
    /\ IsFiniteSet(Ids)
    /\ Null \notin Names \cup Tags \cup Ids /\ NoId \notin Ids
    /\ Absent \notin Objects /\ Absent \notin [id : Ids, mark : Nat]

VARIABLES store,      \* the committed keys and their values
          tx,         \* per session: the open transaction
          many,       \* per session: the rest of a call that works through a query
          relation,   \* the model-topic relation
          now

dbVars == <<store, tx, many, relation, now>>

\* An update request sets one or more fields.
Requests == UNION {[{"name"} -> Names \cup {Null}], [{"tag"} -> Tags],
                   [{"due"} -> Dues \cup {NoDue}]}

\* A write of one key; what f writes, over what is in g.
Write(key, value) == [k \in {key} |-> value]
Over(f, g) == [k \in DOMAIN f \cup DOMAIN g |-> IF k \in DOMAIN f THEN f[k] ELSE g[k]]

----------------------------------------------------------------------------
(* TTL marks.  A null mark is 0.                                           *)

TtlMark(obj) == IF obj.due = NoDue THEN 0 ELSE obj.due + Ttl

IsExpired(mark) == mark # 0 /\ mark < now

----------------------------------------------------------------------------
(* Keys.                                                                   *)

IndexOrder == <<"oid", "name", "tag", "due">>
Indexes == {"oid", "name", "tag", "due"}
UniqueIndexes == {"oid", "name"}

ObjectKey(id) == <<"object", Null, id>>
TtlKey(mark, id) == <<"ttl", mark, id>>

FieldValue(i, id, obj) == IF i = "oid" THEN id ELSE obj[i]

IsIndexSet(i, id, obj) == FieldValue(i, id, obj) # Null

\* makeIndexKey hands out the full key; who omits its last part is up to the
\* caller.
IndexKey(i, id, obj) == <<i, FieldValue(i, id, obj), id>>
ShortKey(key) == <<key[1], key[2], NoId>>

\* The key SaveSingleIndex writes.
SavedKey(i, id, obj, replace) ==
    IF i \in UniqueIndexes /\ IsIndexSet(i, id, obj) /\ ~replace
    THEN ShortKey(IndexKey(i, id, obj))
    ELSE IndexKey(i, id, obj)

\* The key deleteIndex deletes.
DeletedKey(i, id, obj) ==
    IF i \in UniqueIndexes THEN ShortKey(IndexKey(i, id, obj)) ELSE IndexKey(i, id, obj)

\* Mutant: expired keys are in the way.
SaveUniqueKeyFailsAlways(view, key) == key[3] = NoId /\ key \in DOMAIN view

\* The merge operator SaveUniqueKey refuses a key that is there, unless it
\* has expired.
SaveUniqueKeyFails(view, key) ==
    key[3] = NoId /\ key \in DOMAIN view /\ ~IsExpired(view[key].mark)

TtlWrites(mark, id) ==
    IF mark = 0 THEN <<>> ELSE Write(TtlKey(mark, id), [id |-> id, mark |-> mark])

----------------------------------------------------------------------------
(* What a call does to the keys it sees (view): its error, the keys it     *)
(* locks, what it writes and how it counts for the topic.                  *)

Ok(locks, writes, ops) ==
    [ec |-> "OK", locks |-> locks \cup DOMAIN writes, writes |-> writes, ops |-> ops]
Fails(ec, locks) == [ec |-> ec, locks |-> locks, writes |-> <<>>, ops |-> <<>>]

CreateObject(view, id, obj) ==
    LET mark == TtlMark(obj)
        keys == {SavedKey(i, id, obj, FALSE) : i \in Indexes}
        entries == [k \in keys |-> [id |-> id, mark |-> mark]]
    IN IF \E k \in keys : SaveUniqueKeyFails(view, k)
       THEN Fails("DUPLICATE_UNIQUE_KEY", {ObjectKey(id)} \cup keys)
       ELSE Ok({}, Over(Write(ObjectKey(id), obj), Over(entries, TtlWrites(mark, id))), <<AddOp>>)

Found(view, id) == ObjectKey(id) \in DOMAIN view /\ ~IsExpired(TtlMark(view[ObjectKey(id)]))

CheckTtlFieldUpdated(request) == "due" \in DOMAIN request

\* Mutant: only the keys whose TTL mark changes are looked at.
UpdatingIndexesOfTtl(request) == IF CheckTtlFieldUpdated(request) THEN Indexes ELSE {}

\* The indexes whose keys an update looks at (updatingKeys).
UpdatingIndexes(request) ==
    IF CheckTtlFieldUpdated(request) THEN Indexes ELSE Indexes \cap DOMAIN request

\* The keys of an object, as doDelete makes them up.
DeletedKeys(id, obj) ==
    {ObjectKey(id)} \cup {DeletedKey(i, id, obj) : i \in Indexes}
    \cup IF TtlMark(obj) = 0 THEN {} ELSE {TtlKey(TtlMark(obj), id)}

\* Mutant: the relation is updated before the object is looked up.
DoDeleteCountsMissing(view, id) ==
    IF ObjectKey(id) \notin DOMAIN view THEN Ok({ObjectKey(id)}, <<>>, <<DelOp>>)
    ELSE Ok({}, [k \in DeletedKeys(id, view[ObjectKey(id)]) |-> Absent], <<DelOp>>)

\* Expired or not, an object that is there is deleted.
DoDelete(view, id) ==
    IF ObjectKey(id) \notin DOMAIN view THEN Ok({ObjectKey(id)}, <<>>, <<>>)
    ELSE Ok({}, [k \in DeletedKeys(id, view[ObjectKey(id)]) |-> Absent], <<DelOp>>)

\* updateSingle: the keys of the requested fields before and after, or all
\* keys if the TTL may have changed.  What is no longer a key is deleted,
\* what is new, or has a new mark, is saved.  An object that has expired is
\* deleted.
UpdateSingle(view, id, request) ==
    IF ~Found(view, id) THEN DoDelete(view, id)
    ELSE
    LET old == view[ObjectKey(id)]
        obj == Over(request, old)
        ttlUpdated == CheckTtlFieldUpdated(request)
        updating == UpdatingIndexes(request)
        oldKeys == {IndexKey(i, id, old) : i \in updating}
        newKeys == {IndexKey(i, id, obj) : i \in updating}
        Exists(i) == IndexKey(i, id, obj) \in oldKeys
        saved == {SavedKey(i, id, obj, Exists(i) /\ ttlUpdated) :
                     i \in {j \in updating : ~Exists(j) \/ ttlUpdated}}
        entries == [k \in saved |-> [id |-> id, mark |-> TtlMark(obj)]]
        deleted == (oldKeys \ newKeys)
                   \cup IF ttlUpdated /\ TtlMark(old) # 0 THEN {TtlKey(TtlMark(old), id)} ELSE {}
    IN IF \E k \in saved : SaveUniqueKeyFails(view, k)
       THEN Fails("DUPLICATE_UNIQUE_KEY", {ObjectKey(id)} \cup saved \cup deleted)
       ELSE Ok({}, Over(Over(Write(ObjectKey(id), obj), entries),
                        Over(IF ttlUpdated THEN TtlWrites(TtlMark(obj), id) ELSE <<>>,
                             [k \in deleted |-> Absent])), <<>>)

\* find and FindMany: the index entries that have not expired, and of these
\* the ones whose object is there and has not expired.
IndexEntries(view, i, value) ==
    {k \in DOMAIN view : k[1] = i /\ k[2] = value /\ ~IsExpired(view[k].mark)}

Find(view, i, value) == {k \in IndexEntries(view, i, value) : Found(view, view[k].id)}

----------------------------------------------------------------------------
(* Sessions.                                                               *)

NoTx == [open |-> FALSE, writes |-> <<>>, locks |-> {}, calls |-> 0]
Idle == [op |-> "none", ids |-> {}, request |-> <<>>]

InitDb ==
    /\ store = <<>>
    /\ tx = [s \in Sessions |-> NoTx]
    /\ many = [s \in Sessions |-> Idle]
    /\ relation = NoRelation
    /\ now = 1

Applied(keys, writes) ==
    LET all == Over(writes, keys)
    IN [k \in {j \in DOMAIN all : all[j] # Absent} |-> all[k]]

\* What a transaction reads: its own writes over the committed keys.
View(s) == IF tx[s].open THEN Applied(store, tx[s].writes) ELSE store

Locked(s, keys) == \E t \in Sessions \ {s} : tx[t].locks \cap keys # {}

\* The objects a transaction deletes.
Deletes(s) == {k \in DOMAIN tx[s].writes \cap DOMAIN store :
                  k[1] = "object" /\ tx[s].writes[k] = Absent}

\* The calls that break an index or a count:
\*   updateUnique     an update of a unique field that is set
\*   updateTtl        an update of the field with the TTL index
\*   deleteNull       the deletion of an object whose unique field is not set
\*   deleteTaken      the deletion of an expired object, by delete or update,
\*                    whose unique value another object has taken since
\*   rollbackDelete   a transaction that deletes objects and fails
\*   deleteTopicInTx  the deletion of a topic a transaction is writing to
\*   partialMerge     a flush that forgets what was counted before the
\*                    operands it folds
Irregular(call) == call \in Avoided

DeleteIsIrregular(view, id) ==
    /\ ObjectKey(id) \in DOMAIN view
    /\ LET name == view[ObjectKey(id)].name
           key == ShortKey(IndexKey("name", id, view[ObjectKey(id)]))
       IN \/ Irregular("deleteNull") /\ name = Null /\ Found(view, id)
          \/ Irregular("deleteTaken") /\ name # Null /\ key \in DOMAIN view /\ view[key].id # id

UpdateIsIrregular(view, id, request) ==
    IF ~Found(view, id) THEN DeleteIsIrregular(view, id)
    ELSE LET name == view[ObjectKey(id)].name
         IN \/ Irregular("updateUnique") /\ "name" \in DOMAIN request
               /\ name # Null /\ request.name # name
            \/ Irregular("updateTtl") /\ "due" \in DOMAIN request

\* RocksdbHandler::transaction.  Within the caller's transaction a call adds
\* its writes and locks; if it fails the caller's function returns the error
\* and everything is rolled back.  A call of its own commits at once.  The
\* relation is updated past the transaction.
Transaction(s, r) ==
    /\ tx[s].open => tx[s].calls < MaxCalls
    /\ ~Locked(s, r.locks)
    /\ relation' = TopicUpdate(relation, r.ops)
    /\ \/ /\ tx[s].open /\ r.ec = "OK"
          /\ tx' = [tx EXCEPT ![s] = [open |-> TRUE, writes |-> Over(r.writes, @.writes),
                                      locks |-> @.locks \cup r.locks, calls |-> @.calls + 1]]
          /\ UNCHANGED store
       \/ /\ tx[s].open /\ r.ec # "OK"
          /\ ~(Irregular("rollbackDelete") /\ Deletes(s) # {})
          /\ tx' = [tx EXCEPT ![s] = NoTx]
          /\ UNCHANGED store
       \/ /\ ~tx[s].open
          /\ store' = Applied(store, r.writes)
          /\ UNCHANGED tx

Ready(s) == many[s] = Idle
Open == {s \in Sessions : tx[s].open \/ ~Ready(s)}

Begin(s) ==
    /\ Ready(s) /\ ~tx[s].open
    /\ Cardinality(Open \cup {s}) <= MaxOpen
    /\ tx' = [tx EXCEPT ![s].open = TRUE]
    /\ UNCHANGED <<store, many, relation, now>>

Commit(s) ==
    /\ Ready(s) /\ tx[s].open
    /\ store' = View(s)
    /\ tx' = [tx EXCEPT ![s] = NoTx]
    /\ UNCHANGED <<many, relation, now>>

\* The caller's function fails, by itself or because a lock was not granted
\* in time.
Rollback(s) ==
    /\ tx[s].open
    /\ ~(Irregular("rollbackDelete") /\ Deletes(s) # {})
    /\ tx' = [tx EXCEPT ![s] = NoTx]
    /\ many' = [many EXCEPT ![s] = Idle]
    /\ UNCHANGED <<store, relation, now>>

\* The deletion of an expired object may also fail, because another session
\* holds the lock of one of its index keys and does not release it in time.
\* The error is only logged, so that what was deleted until then stays deleted.
DeletedPartly(s, id) ==
    LET obj == View(s)[ObjectKey(id)]
        Key(n) == DeletedKey(IndexOrder[n], id, obj)
    IN {Ok({}, [k \in {ObjectKey(id)} \cup {Key(m) : m \in 1..(n - 1)} |-> Absent], <<>>) :
           n \in {m \in 1..Len(IndexOrder) : Locked(s, {Key(m)})}}

UpdateResults(s, id, request) ==
    {UpdateSingle(View(s), id, request)}
    \cup IF ObjectKey(id) \in DOMAIN View(s) /\ ~Found(View(s), id)
         THEN DeletedPartly(s, id) ELSE {}

MayCreate(obj) ==
    relation.count < MaxCount /\ (obj.due # NoDue => now <= obj.due + MaxLate)

Create(s, id, obj) ==
    /\ Ready(s)
    /\ MayCreate(obj)
    /\ Transaction(s, CreateObject(View(s), id, obj))
    /\ UNCHANGED <<many, now>>

Update(s, id, request) ==
    /\ Ready(s)
    /\ ~UpdateIsIrregular(View(s), id, request)
    /\ \E r \in UpdateResults(s, id, request) : Transaction(s, r)
    /\ UNCHANGED <<many, now>>

Delete(s, id) ==
    /\ Ready(s)
    /\ ~DeleteIsIrregular(View(s), id)
    /\ Transaction(s, DoDelete(View(s), id))
    /\ UNCHANGED <<many, now>>

----------------------------------------------------------------------------
(* Calls that work through the objects a query finds in a snapshot of the  *)
(* committed database: deleteMany, updateMany and findUpdateCreate.  Each  *)
(* object is a transaction of its own, unless the caller has one open (a   *)
(* bulk deleteMany opens one itself).                                      *)

StartMany(s, op, tag, request) ==
    /\ Ready(s)
    /\ Cardinality(Open \cup {s}) <= MaxOpen
    /\ LET ids == {store[k].id : k \in IndexEntries(store, "tag", tag)}
       IN /\ ids # {} \/ op = "upsert"
          /\ tx[s].open => tx[s].calls + Cardinality(ids) < MaxCalls
          /\ many' = [many EXCEPT ![s] =
                [op |-> IF ids = {} THEN "create" ELSE op, ids |-> ids, request |-> request]]
    /\ UNCHANGED <<store, tx, relation, now>>

\* The call goes on with the other objects.
Rest(call, id) == IF call.ids = {id} THEN Idle ELSE [call EXCEPT !.ids = @ \ {id}]

\* An error ends the iteration, as does the last object.
DeleteNext(s, id) ==
    /\ many[s].op = "delete" /\ id \in many[s].ids
    /\ ~DeleteIsIrregular(View(s), id)
    /\ Transaction(s, DoDelete(View(s), id))
    /\ many' = [many EXCEPT ![s] = Rest(@, id)]
    /\ UNCHANGED now

\* findUpdateCreate stops at the first object, and goes on to create one if
\* that object is gone.
UpdateNext(s, id) ==
    /\ many[s].op \in {"update", "upsert"} /\ id \in many[s].ids
    /\ ~UpdateIsIrregular(View(s), id, many[s].request)
    /\ \E r \in UpdateResults(s, id, many[s].request) :
          /\ Transaction(s, r)
          /\ many' = [many EXCEPT ![s] =
                IF r.ec # "OK" THEN Idle
                ELSE IF @.op = "upsert"
                     THEN IF Found(View(s), id) THEN Idle ELSE [@ EXCEPT !.op = "create"]
                ELSE Rest(@, id)]
    /\ UNCHANGED now

CreateNotFound(s, id, obj) ==
    /\ many[s].op = "create"
    /\ MayCreate(obj)
    /\ Transaction(s, CreateObject(View(s), id, obj))
    /\ many' = [many EXCEPT ![s] = Idle]
    /\ UNCHANGED now

----------------------------------------------------------------------------
(* The database itself.                                                    *)

Tick ==
    /\ now < MaxTime
    /\ now' = now + 1
    /\ UNCHANGED <<store, tx, many, relation>>

\* The compaction filter drops expired values: here of one of the two column
\* families at a time.  The one of the TTL indexes has no filter.
Compact(expired) ==
    /\ expired # {}
    /\ store' = [k \in DOMAIN store \ expired |-> store[k]]
    /\ UNCHANGED <<tx, many, relation, now>>

CompactObjects ==
    Compact({k \in DOMAIN store : k[1] = "object" /\ IsExpired(TtlMark(store[k]))})

CompactIndexes ==
    Compact({k \in DOMAIN store : k[1] \in Indexes /\ IsExpired(store[k].mark)})

CompactTopics ==
    /\ relation.exists
    /\ relation' = CompactRelation(relation)
    /\ UNCHANGED <<store, tx, many, now>>

\* RocksDB flushes its memtable whenever it likes.
FlushTopics ==
    /\ relation.unflushed
    /\ ~(Irregular("partialMerge") /\ relation.recent # relation.count)
    /\ relation' = FlushRelation(relation)
    /\ UNCHANGED <<store, tx, many, now>>

\* One write batch, which asks for no locks and leaves the TTL indexes.
DeleteTopic ==
    /\ ~(Irregular("deleteTopicInTx") /\ \E s \in Sessions : tx[s].locks # {})
    /\ store' = [k \in {j \in DOMAIN store : j[1] = "ttl"} |-> store[k]]
    /\ relation' = NoRelation
    /\ UNCHANGED <<tx, many, now>>

NextDb ==
    \/ \E s \in Sessions :
        \/ Begin(s) \/ Commit(s) \/ Rollback(s)
        \/ \E id \in Ids :
            \/ \E obj \in Objects : Create(s, id, obj) \/ CreateNotFound(s, id, obj)
            \/ \E request \in Requests : Update(s, id, request)
            \/ Delete(s, id) \/ DeleteNext(s, id) \/ UpdateNext(s, id)
        \/ \E tag \in Tags :
            \/ StartMany(s, "delete", tag, <<>>)
            \/ \E op \in {"update", "upsert"}, request \in [{"tag"} -> Tags \ {tag}] :
                   StartMany(s, op, tag, request)
    \/ Tick \/ CompactObjects \/ CompactIndexes \/ CompactTopics \/ FlushTopics \/ DeleteTopic

DbSpec == InitDb /\ [][NextDb]_dbVars

----------------------------------------------------------------------------

Views == {store} \cup {View(s) : s \in Sessions}

\* Through every index, and whatever is committed or about to be, a query
\* finds each object with that value that has not expired once, and nothing
\* else: the entries that updateSingle, CreateObject and DoDelete write and
\* delete piecemeal always add up to the objects, and two sessions never
\* hold halves that do not fit together.
FindIsExact ==
    \A view \in Views : \A id \in {d \in Ids : Found(view, d)} : \A i \in Indexes :
        LET hits == {k \in DOMAIN view : /\ k[1] = i /\ view[k].id = id
                                        /\ k \in Find(view, i, k[2])}
        IN /\ Cardinality(hits) = 1
           /\ \A k \in hits : k[2] = FieldValue(i, id, view[ObjectKey(id)])

\* A create is refused as a duplicate exactly if an object that has not
\* expired has its ID or its name: unique entries do not outlive the objects
\* they stand for, nor the other way round (SaveSingleIndex).
DuplicateIfTaken ==
    \A view \in Views : \A id \in Ids : \A obj \in Objects :
        CreateObject(view, id, obj).ec = "DUPLICATE_UNIQUE_KEY"
        <=> \E other \in Ids : /\ Found(view, other)
                               /\ \/ other = id
                                  \/ obj.name # Null /\ view[ObjectKey(other)].name = obj.name

\* A topic counts at least the objects it holds, less the ones a transaction
\* is deleting: otherwise its relation is dropped and queries over all topics
\* no longer see these objects (ModelTopics::modelTopics).
TopicIsListed ==
    relation.count + Cardinality(UNION {Deletes(s) : s \in Sessions})
        >= Cardinality({k \in DOMAIN store : k[1] = "object"})
=============================================================================
