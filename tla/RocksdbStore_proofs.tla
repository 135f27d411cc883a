------------------------ MODULE RocksdbStore_proofs ------------------------
(***************************************************************************)
(* Proofs about RocksdbStore for any sessions, IDs, names, tags and dates,  *)
(* any lifetime and any bound: without the irregular calls every index      *)
(* lists every object that has not expired once, a creation is refused only *)
(* for what is there, and a topic counts the objects it holds.              *)
(*                                                                          *)
(* A view fits (Fits) if objects and index entries that have not expired    *)
(* agree.  A call writes about one object and takes no key from another, so *)
(* that the view it wrote to still fits; the writes of two sessions, which  *)
(* hold different locks, fit together; and what expires or is compacted     *)
(* goes with its entries.                                                   *)
(***************************************************************************)
EXTENDS RocksdbStore, FiniteSetTheorems, TLAPS

(***************************************************************************)
(* What it means that the keys of a view fit together                       *)
(***************************************************************************)

\* The key under which an index lists an object.
ListedAt(i, id, obj) == SavedKey(i, id, obj, FALSE)

ObjectAt(view, id) == view[ObjectKey(id)]

\* An index entry that has not expired.
IsEntry(view, k) == k \in DOMAIN view /\ k[1] \in Indexes /\ ~IsExpired(view[k].mark)

KeysTyped(view) ==
    \A k \in DOMAIN view :
        /\ view[k] # Absent
        /\ k[1] = "object" => \E id \in Ids : k = ObjectKey(id) /\ view[k] \in Objects
        /\ k[1] \in Indexes => view[k] \in [id : Ids, mark : Nat]

\* Each index lists each object that has not expired, and an entry that has
\* not expired lists such an object.
ObjectsListed(view) ==
    \A id \in Ids : Found(view, id) => \A i \in Indexes :
        /\ ListedAt(i, id, ObjectAt(view, id)) \in DOMAIN view
        /\ view[ListedAt(i, id, ObjectAt(view, id))]
             = [id |-> id, mark |-> TtlMark(ObjectAt(view, id))]

EntryFits(view, k) ==
    LET id == view[k].id
    IN  /\ Found(view, id)
        /\ k = ListedAt(k[1], id, ObjectAt(view, id))
        /\ view[k].mark = TtlMark(ObjectAt(view, id))

EntriesFit(view) == \A k \in DOMAIN view : IsEntry(view, k) => EntryFits(view, k)

Fits(view) == KeysTyped(view) /\ ObjectsListed(view) /\ EntriesFit(view)

\* Two views see the same under a key.
Agree(v, w, k) == (k \in DOMAIN v <=> k \in DOMAIN w) /\ (k \in DOMAIN v => v[k] = w[k])

\* A transaction writes no index entry without the object it lists.
WritesLocal(writes) ==
    \A k \in DOMAIN writes : k[1] \in Indexes /\ writes[k] # Absent =>
        ObjectKey(writes[k].id) \in DOMAIN writes

(***************************************************************************)
(* Keys                                                                     *)
(***************************************************************************)

\* Which keys are which.
LEMMA KeyForms ==
    ASSUME NEW id
    PROVE  /\ ObjectKey(id)[1] = "object" /\ ObjectKey(id)[3] = id /\ "object" \notin Indexes
           /\ \A d : ObjectKey(d) = ObjectKey(id) => d = id
           /\ \A m : TtlKey(m, id)[1] = "ttl" /\ "ttl" \notin Indexes /\ "ttl" # "object"
           /\ \A m, d : TtlKey(m, id) # ObjectKey(d)
BY DEF ObjectKey, TtlKey, Indexes

\* Where an object is listed: under its ID, its name, its tag and its date.
LEMMA ListedForms ==
    ASSUME RocksdbStoreAssumption, NEW id \in Ids, NEW obj
    PROVE  /\ ListedAt("oid", id, obj) = <<"oid", id, NoId>>
           /\ obj.name # Null => ListedAt("name", id, obj) = <<"name", obj.name, NoId>>
           /\ obj.name = Null => ListedAt("name", id, obj) = <<"name", Null, id>>
           /\ ListedAt("tag", id, obj) = <<"tag", obj.tag, id>>
           /\ ListedAt("due", id, obj) = <<"due", obj.due, id>>
<1>1. id # Null
    BY DEF RocksdbStoreAssumption
<1>2. /\ obj["name"] = obj.name /\ obj["tag"] = obj.tag /\ obj["due"] = obj.due
    OBVIOUS
<1>3. /\ FieldValue("oid", id, obj) = id /\ FieldValue("name", id, obj) = obj.name
      /\ FieldValue("tag", id, obj) = obj.tag /\ FieldValue("due", id, obj) = obj.due
    BY <1>2 DEF FieldValue
<1>4. \A v : /\ <<"oid", v, id>>[1] = "oid" /\ <<"oid", v, id>>[2] = v
             /\ <<"name", v, id>>[1] = "name" /\ <<"name", v, id>>[2] = v
    OBVIOUS
<1>5. ListedAt("oid", id, obj) = <<"oid", id, NoId>>
    BY <1>1, <1>3, <1>4 DEF ListedAt, SavedKey, IsIndexSet, IndexKey, ShortKey, UniqueIndexes
<1>6. /\ obj.name # Null => ListedAt("name", id, obj) = <<"name", obj.name, NoId>>
      /\ obj.name = Null => ListedAt("name", id, obj) = <<"name", Null, id>>
    BY <1>3, <1>4 DEF ListedAt, SavedKey, IsIndexSet, IndexKey, ShortKey, UniqueIndexes
<1>7. /\ ListedAt("tag", id, obj) = <<"tag", obj.tag, id>>
      /\ ListedAt("due", id, obj) = <<"due", obj.due, id>>
    BY <1>3 DEF ListedAt, SavedKey, IndexKey, UniqueIndexes
<1> QED
    BY <1>5, <1>6, <1>7

\* A key names its index and the value of its field.
LEMMA ListedIndex ==
    ASSUME RocksdbStoreAssumption, NEW id \in Ids, NEW obj, NEW i \in Indexes
    PROVE  ListedAt(i, id, obj)[1] = i /\ ListedAt(i, id, obj)[2] = FieldValue(i, id, obj)
BY DEF ListedAt, SavedKey, IndexKey, ShortKey

\* A TTL mark is a time, or null.
LEMMA MarkType ==
    ASSUME RocksdbStoreAssumption, NEW obj \in Objects
    PROVE  TtlMark(obj) \in Nat
<1>1. obj.due \in Dues \cup {0}
    BY DEF Objects, NoDue
<1>2. Dues \subseteq Nat /\ Ttl \in Nat
    BY DEF RocksdbStoreAssumption
<1>3. obj.due \in Nat
    <2>1. CASE obj.due \in Dues
        BY <1>2, <2>1, Zenon
    <2>2. CASE obj.due = 0
        BY <2>2
    <2> QED
        BY <1>1, <2>1, <2>2, Zenon
<1> QED
    BY <1>2, <1>3 DEF TtlMark

(***************************************************************************)
(* Views                                                                    *)
(***************************************************************************)

\* What is read under a key is what was written there, or else what is stored.
LEMMA AppliedIs ==
    ASSUME NEW keys, NEW writes, \A k \in DOMAIN keys : keys[k] # Absent, NEW k
    PROVE  /\ k \in DOMAIN writes =>
                /\ k \in DOMAIN Applied(keys, writes) <=> writes[k] # Absent
                /\ writes[k] # Absent => Applied(keys, writes)[k] = writes[k]
           /\ k \notin DOMAIN writes => Agree(Applied(keys, writes), keys, k)
           /\ k \in DOMAIN Applied(keys, writes) => Applied(keys, writes)[k] # Absent
BY DEF Applied, Over, Agree

\* Writes on top of writes.
LEMMA OverApplied ==
    ASSUME NEW keys, NEW old, NEW new, \A k \in DOMAIN keys : keys[k] # Absent, NEW k
    PROVE  Agree(Applied(keys, Over(new, old)), Applied(Applied(keys, old), new), k)
BY DEF Applied, Over, Agree

\* Views that see the same fit alike.
LEMMA SameFits ==
    ASSUME NEW v, NEW w, \A k : Agree(v, w, k), Fits(w)
    PROVE  Fits(v)
<1>1. \A k : k \in DOMAIN v <=> k \in DOMAIN w
    BY DEF Agree
<1>2. \A k \in DOMAIN v : v[k] = w[k]
    BY DEF Agree
<1>3. \A id : /\ Found(v, id) <=> Found(w, id)
              /\ Found(v, id) => ObjectAt(v, id) = ObjectAt(w, id)
    BY <1>1, <1>2 DEF Found, ObjectAt
<1>4. KeysTyped(v)
    BY <1>1, <1>2 DEF Fits, KeysTyped
<1>5. ObjectsListed(v)
    BY <1>1, <1>2, <1>3 DEF Fits, ObjectsListed
<1>6. EntriesFit(v)
    BY <1>1, <1>2, <1>3 DEF Fits, EntriesFit, EntryFits, IsEntry
<1> QED
    BY <1>4, <1>5, <1>6 DEF Fits

(***************************************************************************)
(* A call keeps the keys together: what it writes is about one object and   *)
(* takes no key away from another                                           *)
(***************************************************************************)

Touches(view, writes, id) ==
    /\ ObjectKey(id) \in DOMAIN writes
    /\ \A k \in DOMAIN writes :
          /\ k[1] = "object" => k = ObjectKey(id) /\ writes[k] \in Objects \cup {Absent}
          /\ k[1] \in Indexes => writes[k] \in [id : {id}, mark : Nat] \cup {Absent}
          /\ IsEntry(view, k) => view[k].id = id

ListsIt(view, id) ==
    Found(view, id) => \A i \in Indexes :
        /\ ListedAt(i, id, ObjectAt(view, id)) \in DOMAIN view
        /\ view[ListedAt(i, id, ObjectAt(view, id))]
             = [id |-> id, mark |-> TtlMark(ObjectAt(view, id))]

ListsOnlyIt(view, id) ==
    \A k \in DOMAIN view : IsEntry(view, k) /\ view[k].id = id => EntryFits(view, k)

\* A call that leaves its own object listed, and listed once, keeps all keys together.
LEMMA TouchKeeps ==
    ASSUME RocksdbStoreAssumption, NEW v, NEW w, NEW id \in Ids, Fits(v), Touches(v, w, id),
           ListsIt(Applied(v, w), id), ListsOnlyIt(Applied(v, w), id)
    PROVE  Fits(Applied(v, w))
<1> DEFINE a == Applied(v, w)
<1>1. \A k \in DOMAIN v : v[k] # Absent
    BY DEF Fits, KeysTyped
<1>2. \A k \in DOMAIN w : /\ k \in DOMAIN a <=> w[k] # Absent
                          /\ w[k] # Absent => a[k] = w[k]
    BY <1>1, AppliedIs
<1>3. \A k : k \notin DOMAIN w => Agree(a, v, k)
    BY <1>1, AppliedIs
<1>4. \A k \in DOMAIN a : a[k] # Absent
    BY <1>1, AppliedIs
<1> HIDE DEF a
<1>5. KeysTyped(a)
    <2> SUFFICES ASSUME NEW k \in DOMAIN a
                 PROVE  /\ a[k] # Absent
                        /\ k[1] = "object" => \E d \in Ids : k = ObjectKey(d) /\ a[k] \in Objects
                        /\ k[1] \in Indexes => a[k] \in [id : Ids, mark : Nat]
        BY DEF KeysTyped
    <2>1. CASE k \in DOMAIN w
        <3>1. a[k] = w[k] /\ a[k] # Absent
            BY <1>2, <1>4, <2>1
        <3>2. k[1] = "object" => \E d \in Ids : k = ObjectKey(d) /\ a[k] \in Objects
            BY <2>1, <3>1 DEF Touches
        <3>3. k[1] \in Indexes => a[k] \in [id : {id}, mark : Nat]
            BY <2>1, <3>1 DEF Touches
        <3> QED
            BY <3>1, <3>2, <3>3
    <2>2. CASE k \notin DOMAIN w
        BY <1>3, <1>4, <2>2 DEF Agree, Fits, KeysTyped
    <2> QED
        BY <2>1, <2>2
<1>6. \A d \in Ids : d # id => Agree(a, v, ObjectKey(d))
    <2> SUFFICES ASSUME NEW d \in Ids, d # id, ObjectKey(d) \in DOMAIN w
                 PROVE  FALSE
        BY <1>3
    <2>1. ObjectKey(d)[1] = "object" /\ ObjectKey(d) # ObjectKey(id)
        BY KeyForms
    <2> QED
        BY <2>1 DEF Touches
<1>7. \A d \in Ids : d # id =>
         /\ Found(a, d) <=> Found(v, d)
         /\ Found(v, d) => ObjectAt(a, d) = ObjectAt(v, d)
    <2> SUFFICES ASSUME NEW d \in Ids, d # id
                 PROVE  /\ Found(a, d) <=> Found(v, d)
                        /\ Found(v, d) => ObjectAt(a, d) = ObjectAt(v, d)
        BY Zenon
    <2>1. /\ ObjectKey(d) \in DOMAIN a <=> ObjectKey(d) \in DOMAIN v
          /\ ObjectKey(d) \in DOMAIN v => a[ObjectKey(d)] = v[ObjectKey(d)]
        BY <1>6, Zenon DEF Agree
    <2> QED
        BY <2>1, Zenon DEF Found, ObjectAt
<1>8. ObjectsListed(a)
    <2> SUFFICES ASSUME NEW d \in Ids, d # id, Found(a, d), NEW i \in Indexes
                 PROVE  /\ ListedAt(i, d, ObjectAt(a, d)) \in DOMAIN a
                        /\ a[ListedAt(i, d, ObjectAt(a, d))]
                             = [id |-> d, mark |-> TtlMark(ObjectAt(a, d))]
        BY DEF ObjectsListed, ListsIt, a
    <2>1. Found(v, d) /\ ObjectAt(a, d) = ObjectAt(v, d)
        BY <1>7
    <2> DEFINE k == ListedAt(i, d, ObjectAt(v, d))
    <2>2. k \in DOMAIN v /\ v[k] = [id |-> d, mark |-> TtlMark(ObjectAt(v, d))]
        BY <2>1 DEF Fits, ObjectsListed
    <2>3. k[1] \in Indexes
        BY ListedIndex
    <2> HIDE DEF k
    <2>4. IsEntry(v, k)
        BY <2>1, <2>2, <2>3 DEF IsEntry, Found, ObjectAt
    <2>5. k \notin DOMAIN w
        BY <2>2, <2>4 DEF Touches
    <2>6. Agree(a, v, k)
        BY <1>3, <2>5
    <2>7. k \in DOMAIN a /\ a[k] = [id |-> d, mark |-> TtlMark(ObjectAt(v, d))]
        BY <2>2, <2>6 DEF Agree
    <2> QED
        BY <2>1, <2>7 DEF k
<1>9. EntriesFit(a)
    <2> SUFFICES ASSUME NEW k \in DOMAIN a, IsEntry(a, k), a[k].id # id
                 PROVE  EntryFits(a, k)
        BY DEF EntriesFit, ListsOnlyIt, a
    <2>1. k \notin DOMAIN w
        BY <1>2, <1>4 DEF Touches, IsEntry
    <2>2. k \in DOMAIN v /\ a[k] = v[k]
        BY <1>3, <2>1 DEF Agree
    <2>3. IsEntry(v, k)
        BY <2>2 DEF IsEntry
    <2>4. EntryFits(v, k) /\ v[k].id \in Ids /\ v[k].id # id
        BY <2>2, <2>3 DEF Fits, EntriesFit, KeysTyped, IsEntry
    <2>5. /\ Found(v, v[k].id) /\ k = ListedAt(k[1], v[k].id, ObjectAt(v, v[k].id))
          /\ v[k].mark = TtlMark(ObjectAt(v, v[k].id))
        BY <2>4, Zenon DEF EntryFits
    <2>6. Found(a, v[k].id) /\ ObjectAt(a, v[k].id) = ObjectAt(v, v[k].id)
        BY <1>7, <2>4, <2>5
    <2> QED
        BY <2>2, <2>5, <2>6, Zenon DEF EntryFits
<1> QED
    BY <1>5, <1>8, <1>9 DEF Fits, a

(***************************************************************************)
(* The calls                                                                *)
(***************************************************************************)

\* A key ends with the object it lists, or with nothing.
LEMMA ListedThird ==
    ASSUME RocksdbStoreAssumption, NEW id \in Ids, NEW obj, NEW i \in Indexes
    PROVE  ListedAt(i, id, obj)[3] \in {id, NoId}
<1>1. \A a, b, c : <<a, b, c>>[3] = c
    OBVIOUS
<1>2. i \in {"oid", "name", "tag", "due"}
    BY DEF Indexes
<1>3. \/ \E b, c : ListedAt(i, id, obj) = <<b, c, id>>
      \/ \E b, c : ListedAt(i, id, obj) = <<b, c, NoId>>
    <2>1. CASE i = "oid"
        BY <2>1, ListedForms, Zenon
    <2>2. CASE i = "name"
        <3>1. /\ obj.name # Null => ListedAt("name", id, obj) = <<"name", obj.name, NoId>>
              /\ obj.name = Null => ListedAt("name", id, obj) = <<"name", Null, id>>
            BY ListedForms
        <3> QED
            BY <2>2, <3>1, Zenon
    <2>3. CASE i = "tag"
        <3>1. ListedAt("tag", id, obj) = <<"tag", obj.tag, id>>
            BY ListedForms
        <3> QED
            BY <2>3, <3>1, Zenon
    <2>4. CASE i = "due"
        <3>1. ListedAt("due", id, obj) = <<"due", obj.due, id>>
            BY ListedForms
        <3> QED
            BY <2>4, <3>1, Zenon
    <2> QED
        BY <1>2, <2>1, <2>2, <2>3, <2>4
<1> QED
    BY <1>1, <1>3

\* An index key that can be saved and has an entry has one of the same object.
LEMMA SavedIsOwn ==
    ASSUME RocksdbStoreAssumption, NEW v, Fits(v), NEW id \in Ids, NEW obj, NEW i \in Indexes,
           ~SaveUniqueKeyFails(v, ListedAt(i, id, obj)), IsEntry(v, ListedAt(i, id, obj))
    PROVE  v[ListedAt(i, id, obj)].id = id
<1> DEFINE k == ListedAt(i, id, obj)
           d == v[k].id
<1>1. k[3] \in {id, NoId}
    BY ListedThird
<1>2. k[3] = id
    BY <1>1, Zenon DEF SaveUniqueKeyFails, IsEntry
<1>3. EntryFits(v, k) /\ d \in Ids /\ k[1] \in Indexes
    BY Zenon DEF Fits, EntriesFit, IsEntry, KeysTyped
<1>4. d \in Ids
    <2>1. v[k] \in [id : Ids, mark : Nat]
        BY Zenon DEF Fits, IsEntry, KeysTyped
    <2> QED
        BY <2>1
<1>5. k[3] \in {d, NoId}
    <2>1. k = ListedAt(k[1], d, ObjectAt(v, d))
        BY <1>3, Zenon DEF EntryFits
    <2>2. ListedAt(k[1], d, ObjectAt(v, d))[3] \in {d, NoId}
        BY <1>3, <1>4, ListedThird
    <2> QED
        BY <2>1, <2>2, Zenon
<1>6. id # NoId
    BY DEF RocksdbStoreAssumption
<1> QED
    BY <1>2, <1>5, <1>6, Zenon

\* What CreateObject gives: an error if a unique key is taken, or else the object and
\* one entry for each index.
LEMMA CreateIs ==
    ASSUME NEW v, NEW id \in Ids, NEW obj
    PROVE  LET r == CreateObject(v, id, obj)
               taken == \E i \in Indexes : SaveUniqueKeyFails(v, ListedAt(i, id, obj))
           IN  /\ taken =>
                     /\ r.ec = "DUPLICATE_UNIQUE_KEY"
                     /\ r.writes = <<>> /\ r.ops = <<>>
               /\ ~taken =>
                     /\ r.ec = "OK" /\ r.ops = <<AddOp>> /\ r.locks = DOMAIN r.writes
                     /\ r.writes[ObjectKey(id)] = obj
                     /\ \A i \in Indexes : r.writes[ListedAt(i, id, obj)]
                                            = [id |-> id, mark |-> TtlMark(obj)]
                     /\ \A k : k \in DOMAIN r.writes <=>
                            \/ k = ObjectKey(id)
                            \/ \E i \in Indexes : k = ListedAt(i, id, obj)
                            \/ k = TtlKey(TtlMark(obj), id) /\ TtlMark(obj) # 0
<1> DEFINE r == CreateObject(v, id, obj)
           taken == \E i \in Indexes : SaveUniqueKeyFails(v, ListedAt(i, id, obj))
           keys == {ListedAt(i, id, obj) : i \in Indexes}
           entries == [k \in keys |-> [id |-> id, mark |-> TtlMark(obj)]]
           w == Over(Write(ObjectKey(id), obj), Over(entries, TtlWrites(TtlMark(obj), id)))
<1>1. r = IF taken THEN Fails("DUPLICATE_UNIQUE_KEY", {ObjectKey(id)} \cup keys)
          ELSE Ok({}, w, <<AddOp>>)
    BY DEF CreateObject, ListedAt
<1>2. DOMAIN w = {ObjectKey(id)} \cup keys \cup DOMAIN TtlWrites(TtlMark(obj), id)
    BY DEF Over, Write
<1>3. \A k : k \in DOMAIN TtlWrites(TtlMark(obj), id)
              <=> k = TtlKey(TtlMark(obj), id) /\ TtlMark(obj) # 0
    BY DEF TtlWrites, Write
<1>4. w[ObjectKey(id)] = obj
    BY DEF Over, Write
<1>5. ASSUME NEW i \in Indexes
      PROVE  w[ListedAt(i, id, obj)] = [id |-> id, mark |-> TtlMark(obj)]
    <2>1. ListedAt(i, id, obj) # ObjectKey(id)
        <3>1. ListedAt(i, id, obj)[1] = i /\ ObjectKey(id)[1] # i
            BY KeyForms DEF ListedAt, SavedKey, ShortKey, IndexKey
        <3> QED
            BY <3>1
    <2> QED
        BY <2>1 DEF Over, Write
<1>6. taken => /\ r.ec = "DUPLICATE_UNIQUE_KEY"
               /\ r.writes = <<>> /\ r.ops = <<>>
    BY <1>1 DEF Fails
<1>7. ~taken => r.ec = "OK" /\ r.ops = <<AddOp>> /\ r.locks = DOMAIN w /\ r.writes = w
    BY <1>1 DEF Ok
<1> HIDE DEF w, r, taken
<1>8. \A k : k \in DOMAIN w <=>
                            \/ k = ObjectKey(id)
                            \/ \E i \in Indexes : k = ListedAt(i, id, obj)
                            \/ k = TtlKey(TtlMark(obj), id) /\ TtlMark(obj) # 0
    BY <1>2, <1>3
<1> HIDE DEF keys
<1>9. ~taken =>
                     /\ r.ec = "OK" /\ r.ops = <<AddOp>> /\ r.locks = DOMAIN r.writes
                     /\ r.writes[ObjectKey(id)] = obj
                     /\ \A i \in Indexes : r.writes[ListedAt(i, id, obj)]
                                            = [id |-> id, mark |-> TtlMark(obj)]
                     /\ \A k : k \in DOMAIN r.writes <=>
                            \/ k = ObjectKey(id)
                            \/ \E i \in Indexes : k = ListedAt(i, id, obj)
                            \/ k = TtlKey(TtlMark(obj), id) /\ TtlMark(obj) # 0
    BY <1>4, <1>5, <1>7, <1>8, Zenon
<1> QED
    BY <1>6, <1>9, Zenon DEF r, taken

\* CreateObject lists its object, and nothing else.
LEMMA CreateTouches ==
    ASSUME RocksdbStoreAssumption, NEW v, NEW id \in Ids, NEW obj \in Objects, Fits(v),
           NEW w, w = CreateObject(v, id, obj).writes, CreateObject(v, id, obj).ec = "OK"
    PROVE  Touches(v, w, id) /\ ListsIt(Applied(v, w), id) /\ ListsOnlyIt(Applied(v, w), id)
<1> DEFINE mark == TtlMark(obj)
           a == Applied(v, w)
<1>1. /\ \A i \in Indexes : ~SaveUniqueKeyFails(v, ListedAt(i, id, obj))
      /\ w[ObjectKey(id)] = obj
      /\ \A i \in Indexes : w[ListedAt(i, id, obj)] = [id |-> id, mark |-> mark]
      /\ \A k : k \in DOMAIN w <=>
                 \/ k = ObjectKey(id)
                 \/ \E i \in Indexes : k = ListedAt(i, id, obj)
                 \/ k = TtlKey(mark, id) /\ mark # 0
    <2>1. "OK" # "DUPLICATE_UNIQUE_KEY"
        OBVIOUS
    <2> QED
        BY <2>1, CreateIs, Zenon
<1>2. mark \in Nat
    BY MarkType
<1> HIDE DEF mark
<1>3. \A i \in Indexes : ListedAt(i, id, obj)[1] = i
    BY ListedIndex
<1>4. ASSUME NEW k \in DOMAIN w, k[1] \in Indexes
      PROVE  k = ListedAt(k[1], id, obj) /\ w[k] = [id |-> id, mark |-> mark]
    <2>1. k # ObjectKey(id) /\ k # TtlKey(mark, id)
        <3>1. /\ ObjectKey(id)[1] = "object" /\ TtlKey(mark, id)[1] = "ttl"
              /\ "object" \notin Indexes /\ "ttl" \notin Indexes
            BY KeyForms
        <3> QED
            BY <1>4, <3>1
    <2>2. PICK i \in Indexes : k = ListedAt(i, id, obj)
        BY <1>1, <2>1, Zenon
    <2> QED
        BY <1>1, <1>3, <2>2, Zenon
<1>5. ASSUME NEW k \in DOMAIN w, k[1] = "object"
      PROVE  k = ObjectKey(id) /\ w[k] \in Objects
    <2>1. k # TtlKey(mark, id) /\ k[1] \notin Indexes
        <3>1. /\ TtlKey(mark, id)[1] = "ttl" /\ "ttl" # "object"
              /\ "object" \notin Indexes
            BY KeyForms
        <3> QED
            BY <1>5, <3>1
    <2> QED
        BY <1>1, <1>3, <2>1
<1>6. Touches(v, w, id)
    <2>1. ObjectKey(id) \in DOMAIN w
        BY <1>1
    <2>2. ASSUME NEW k \in DOMAIN w, k[1] \in Indexes
          PROVE  w[k] \in [id : {id}, mark : Nat]
        BY <1>2, <1>4, <2>2
    <2>3. ASSUME NEW k \in DOMAIN w, IsEntry(v, k)
          PROVE  v[k].id = id
        <3>1. k[1] \in Indexes
            BY <2>3, Zenon DEF IsEntry
        <3>2. k = ListedAt(k[1], id, obj)
            BY <1>4, <3>1
        <3> DEFINE i == k[1]
        <3> HIDE DEF i
        <3>3. i \in Indexes /\ k = ListedAt(i, id, obj)
            BY <3>1, <3>2 DEF i
        <3> QED
            BY <1>1, <2>3, <3>3, SavedIsOwn
    <2> QED
        BY <1>5, <2>1, <2>2, <2>3 DEF Touches
<1>7. obj # Absent /\ [id |-> id, mark |-> mark] # Absent
    <2>1. [id |-> id, mark |-> mark] \in [id : Ids, mark : Nat]
        BY <1>2
    <2> QED
        BY <2>1 DEF RocksdbStoreAssumption
<1>8. \A k \in DOMAIN v : v[k] # Absent
    BY DEF Fits, KeysTyped
<1>9. \A k \in DOMAIN w : /\ k \in DOMAIN a <=> w[k] # Absent
                          /\ w[k] # Absent => a[k] = w[k]
    BY <1>8, AppliedIs
<1>10. \A k : k \notin DOMAIN w => Agree(a, v, k)
    BY <1>8, AppliedIs
<1> HIDE DEF a
<1>11. ObjectKey(id) \in DOMAIN a /\ ObjectAt(a, id) = obj
    BY <1>1, <1>7, <1>9 DEF ObjectAt
<1>12. \A i \in Indexes : /\ ListedAt(i, id, obj) \in DOMAIN a
                          /\ a[ListedAt(i, id, obj)] = [id |-> id, mark |-> mark]
    BY <1>1, <1>7, <1>9
<1>13. ListsIt(a, id)
    BY <1>11, <1>12 DEF ListsIt, mark
<1>14. ListsOnlyIt(a, id)
    <2> SUFFICES ASSUME NEW k \in DOMAIN a, IsEntry(a, k), a[k].id = id
                 PROVE  EntryFits(a, k)
        BY DEF ListsOnlyIt
    <2>1. k[1] \in Indexes /\ ~IsExpired(a[k].mark)
        BY DEF IsEntry
    <2>2. CASE k \in DOMAIN w
        <3>1. k = ListedAt(k[1], id, obj) /\ a[k] = [id |-> id, mark |-> mark]
            BY <1>4, <1>12, <2>1, <2>2
        <3>2. Found(a, id)
            BY <1>11, <2>1, <3>1 DEF Found, ObjectAt, mark
        <3> QED
            BY <1>11, <3>1, <3>2 DEF EntryFits, mark
    <2>3. CASE k \notin DOMAIN w
        \* The object has been there already, and its ID is taken.
        <3>1. k \in DOMAIN v /\ a[k] = v[k]
            BY <1>10, <2>3 DEF Agree
        <3>2. IsEntry(v, k) /\ v[k].id = id
            BY <2>1, <3>1 DEF IsEntry
        <3>3. Found(v, id)
            BY <3>1, <3>2 DEF Fits, EntriesFit, EntryFits
        <3>4. "oid" \in Indexes
            BY DEF Indexes
        <3> DEFINE j == ListedAt("oid", id, ObjectAt(v, id))
        <3>5. j \in DOMAIN v /\ v[j] = [id |-> id, mark |-> TtlMark(ObjectAt(v, id))]
            BY <3>3, <3>4 DEF Fits, ObjectsListed
        <3>6. j = <<"oid", id, NoId>> /\ ListedAt("oid", id, obj) = <<"oid", id, NoId>>
            BY ListedForms
        <3>7. j[3] = NoId /\ ~SaveUniqueKeyFails(v, j)
            BY <1>1, <3>4, <3>6
        <3> HIDE DEF j
        <3> QED
            BY <3>3, <3>5, <3>7 DEF SaveUniqueKeyFails, Found, ObjectAt
    <2> QED
        BY <2>2, <2>3
<1> QED
    BY <1>6, <1>13, <1>14 DEF a

\* An object with one field updated.
LEMMA OverObject ==
    ASSUME NEW old \in Objects, NEW f \in {"name", "tag"}, NEW request, DOMAIN request = {f},
           f = "name" => request["name"] \in Names \cup {Null},
           f = "tag" => request["tag"] \in Tags, NEW new, new = Over(request, old)
    PROVE  /\ new \in Objects
           /\ \A g \in {"name", "tag", "due"} : new[g] = IF g = f THEN request[f] ELSE old[g]
<1>1. old = [name |-> old.name, tag |-> old.tag, due |-> old.due]
      /\ old.name \in Names \cup {Null} /\ old.tag \in Tags /\ old.due \in Dues \cup {NoDue}
    BY DEF Objects
<1>2. DOMAIN old = {"name", "tag", "due"}
    BY <1>1
<1>3. DOMAIN new = {"name", "tag", "due"}
    BY <1>2 DEF Over
<1>4. \A g \in {"name", "tag", "due"} : new[g] = IF g = f THEN request[f] ELSE old[g]
    BY <1>2 DEF Over
<1>5. new = [g \in {"name", "tag", "due"} |-> new[g]]
    <2>1. Over(request, old) = [k \in DOMAIN Over(request, old) |-> Over(request, old)[k]]
        BY DEF Over
    <2> QED
        BY <1>3, <2>1
<1>6. new = [name |-> new["name"], tag |-> new["tag"], due |-> new["due"]]
    BY <1>5
<1>7. new \in Objects
    <2>1. /\ new["name"] \in Names \cup {Null} /\ new["tag"] \in Tags
          /\ new["due"] \in Dues \cup {NoDue}
        BY <1>1, <1>4
    <2> QED
        BY <1>6, <2>1 DEF Objects
<1> QED
    BY <1>4, <1>7

\* An update of one field that is neither unique and set nor has the TTL index.
UpdateGives(v, id, f, request, old, new, key, was, r) ==
    /\ r.ops = <<>>
    /\ was = IndexKey(f, id, new) =>
         /\ r.ec = "OK" /\ r.locks = DOMAIN r.writes
         /\ DOMAIN r.writes = {ObjectKey(id)} /\ r.writes[ObjectKey(id)] = new
    /\ was # IndexKey(f, id, new) /\ SaveUniqueKeyFails(v, key) =>
         r.ec = "DUPLICATE_UNIQUE_KEY" /\ r.writes = <<>>
    /\ was # IndexKey(f, id, new) /\ ~SaveUniqueKeyFails(v, key) =>
         /\ r.ec = "OK" /\ r.locks = DOMAIN r.writes
         /\ DOMAIN r.writes = {ObjectKey(id), key, was}
         /\ r.writes[ObjectKey(id)] = new
         /\ r.writes[key] = [id |-> id, mark |-> TtlMark(new)]
         /\ was # key => r.writes[was] = Absent

\* What updateSingle gives when it updates one field.
LEMMA UpdateIs ==
    ASSUME NEW v, NEW id, NEW f \in {"name", "tag"}, NEW request, DOMAIN request = {f},
           Found(v, id), NEW new, new = Over(request, ObjectAt(v, id))
    PROVE  UpdateGives(v, id, f, request, ObjectAt(v, id), new, ListedAt(f, id, new),
                       IndexKey(f, id, ObjectAt(v, id)), UpdateSingle(v, id, request))
<1> DEFINE old == ObjectAt(v, id)
           r == UpdateSingle(v, id, request)
           was == IndexKey(f, id, old)
           key == ListedAt(f, id, new)
<1> DEFINE updating == Indexes \cap {f}
           oldKeys == {IndexKey(i, id, old) : i \in updating}
           newKeys == {IndexKey(i, id, new) : i \in updating}
           Exists(i) == IndexKey(i, id, new) \in oldKeys
           saved == {SavedKey(i, id, new, Exists(i) /\ FALSE) :
                        i \in {j \in updating : ~Exists(j) \/ FALSE}}
           entries == [k \in saved |-> [id |-> id, mark |-> TtlMark(new)]]
           deleted == (oldKeys \ newKeys) \cup {}
           w == Over(Over(Write(ObjectKey(id), new), entries),
                     Over(<<>>, [k \in deleted |-> Absent]))
<1>1. CheckTtlFieldUpdated(request) = FALSE /\ "due" \notin DOMAIN request
    BY DEF CheckTtlFieldUpdated
<1>2. UpdatingIndexes(request) = updating
    BY <1>1 DEF UpdatingIndexes
<1>3. r = IF \E k \in saved : SaveUniqueKeyFails(v, k)
          THEN Fails("DUPLICATE_UNIQUE_KEY", {ObjectKey(id)} \cup saved \cup deleted)
          ELSE Ok({}, w, <<>>)
    BY <1>1, <1>2, Zenon DEF UpdateSingle, ObjectAt
<1> HIDE DEF r
<1>4. updating = {f} /\ f \in Indexes
    BY DEF Indexes
<1>5. oldKeys = {was} /\ newKeys = {IndexKey(f, id, new)}
    BY <1>4
<1>6. saved = IF was = IndexKey(f, id, new) THEN {} ELSE {key}
    BY <1>4, <1>5 DEF ListedAt, SavedKey
<1>7. deleted = IF was = IndexKey(f, id, new) THEN {} ELSE {was}
    BY <1>5
<1>8. /\ DOMAIN <<>> = {}
      /\ DOMAIN w = {ObjectKey(id)} \cup saved \cup deleted
      /\ w[ObjectKey(id)] = new
      /\ \A k \in saved : k # ObjectKey(id) => w[k] = [id |-> id, mark |-> TtlMark(new)]
      /\ \A k \in deleted \ saved : k # ObjectKey(id) => w[k] = Absent
    <2> DEFINE gone == [k \in deleted |-> Absent]
               own == Write(ObjectKey(id), new)
    <2> HIDE DEF deleted, saved
    <2>1. DOMAIN <<>> = {}
        OBVIOUS
    <2>2. DOMAIN Over(<<>>, gone) = deleted /\ \A k \in deleted : Over(<<>>, gone)[k] = Absent
        BY <2>1 DEF Over
    <2>3. DOMAIN own = {ObjectKey(id)} /\ own[ObjectKey(id)] = new
        BY DEF Write
    <2>4. DOMAIN entries = saved
          /\ \A k \in saved : entries[k] = [id |-> id, mark |-> TtlMark(new)]
        OBVIOUS
    <2> DEFINE rest == Over(<<>>, gone)
    <2> HIDE DEF gone, own, entries, rest
    <2>5. w = Over(Over(own, entries), rest)
        BY Zenon DEF gone, own, entries, rest
    <2>6. /\ DOMAIN Over(own, entries) = {ObjectKey(id)} \cup saved
          /\ Over(own, entries)[ObjectKey(id)] = new
          /\ \A k \in saved : k # ObjectKey(id) =>
                 Over(own, entries)[k] = [id |-> id, mark |-> TtlMark(new)]
        BY <2>3, <2>4 DEF Over
    <2> DEFINE first == Over(own, entries)
    <2> HIDE DEF first
    <2>7. /\ DOMAIN first = {ObjectKey(id)} \cup saved
          /\ first[ObjectKey(id)] = new
          /\ \A k \in saved : k # ObjectKey(id) =>
                 first[k] = [id |-> id, mark |-> TtlMark(new)]
        BY <2>6 DEF first
    <2>8. DOMAIN rest = deleted /\ \A k \in deleted : rest[k] = Absent
        BY <2>2 DEF rest
    <2>9. /\ DOMAIN Over(first, rest) = {ObjectKey(id)} \cup saved \cup deleted
          /\ Over(first, rest)[ObjectKey(id)] = new
          /\ \A k \in saved : k # ObjectKey(id) =>
                 Over(first, rest)[k] = [id |-> id, mark |-> TtlMark(new)]
          /\ \A k \in deleted \ saved : k # ObjectKey(id) => Over(first, rest)[k] = Absent
        BY <2>7, <2>8 DEF Over
    <2> HIDE DEF w
    <2> QED
        BY <2>1, <2>5, <2>9 DEF first
<1> HIDE DEF w, saved, deleted
<1>9. was[1] = f /\ key[1] = f /\ ObjectKey(id)[1] # f
    BY KeyForms DEF ListedAt, SavedKey, ShortKey, IndexKey
<1>10. was # ObjectKey(id) /\ key # ObjectKey(id)
    BY <1>9
<1>11. r.ops = <<>>
    BY <1>3 DEF Ok, Fails
<1>12. ASSUME was = IndexKey(f, id, new)
       PROVE  /\ r.ec = "OK" /\ r.locks = DOMAIN r.writes
              /\ DOMAIN r.writes = {ObjectKey(id)} /\ r.writes[ObjectKey(id)] = new
    <2>1. r = Ok({}, w, <<>>)
        BY <1>3, <1>6, <1>12
    <2>2. r.ec = "OK" /\ r.locks = DOMAIN w /\ r.writes = w
        BY <2>1 DEF Ok
    <2> QED
        BY <1>6, <1>7, <1>8, <1>12, <2>2
<1>13. ASSUME was # IndexKey(f, id, new), SaveUniqueKeyFails(v, key)
       PROVE  r.ec = "DUPLICATE_UNIQUE_KEY" /\ r.writes = <<>>
    BY <1>3, <1>6, <1>13 DEF Fails
<1>14. ASSUME was # IndexKey(f, id, new), ~SaveUniqueKeyFails(v, key)
       PROVE  /\ r.ec = "OK" /\ r.locks = DOMAIN r.writes
              /\ DOMAIN r.writes = {ObjectKey(id), key, was}
              /\ r.writes[ObjectKey(id)] = new
              /\ r.writes[key] = [id |-> id, mark |-> TtlMark(new)]
              /\ was # key => r.writes[was] = Absent
    <2>1. r = Ok({}, w, <<>>)
        BY <1>3, <1>6, <1>14
    <2>2. r.ec = "OK" /\ r.locks = DOMAIN w /\ r.writes = w
        BY <2>1 DEF Ok
    <2> QED
        BY <1>6, <1>7, <1>8, <1>10, <1>14, <2>2
<1> HIDE DEF old, r, was, key
<1>15. UpdateGives(v, id, f, request, old, new, key, was, r)
    BY <1>11, <1>12, <1>13, <1>14, Zenon DEF UpdateGives
<1> QED
    BY <1>15, Zenon DEF old, r, was, key

\* A request that sets one field, neither a unique one that is set nor the one with the TTL
\* index.
UpdatesOne(v, id, f, request) ==
    /\ Found(v, id) /\ f \in {"name", "tag"} /\ DOMAIN request = {f}
    /\ f = "tag" => request["tag"] \in Tags
    /\ f = "name" =>
         /\ request["name"] \in Names \cup {Null}
         /\ ObjectAt(v, id).name = Null \/ request["name"] = ObjectAt(v, id).name

\* What an update leaves of where the object is listed.
UpdateMoves(v, id, f, old, new, key, was, w) ==
    /\ old \in Objects /\ new \in Objects /\ TtlMark(new) = TtlMark(old)
    /\ \A i \in Indexes \ {f} : ListedAt(i, id, new) = ListedAt(i, id, old)
    /\ w[ObjectKey(id)] = new
    /\ \/ key = was /\ DOMAIN w = {ObjectKey(id)}
       \/ /\ key # was /\ ~SaveUniqueKeyFails(v, key)
          /\ DOMAIN w = {ObjectKey(id), key, was}
          /\ w[key] = [id |-> id, mark |-> TtlMark(new)] /\ w[was] = Absent

\* The entries of the object before and after an update of one field: all but those of
\* the field stay.
LEMMA UpdateShape ==
    ASSUME RocksdbStoreAssumption, NEW v, Fits(v), NEW id \in Ids,
           NEW f, NEW request, UpdatesOne(v, id, f, request),
           UpdateSingle(v, id, request).ec = "OK"
    PROVE  UpdateMoves(v, id, f, ObjectAt(v, id), Over(request, ObjectAt(v, id)),
                       ListedAt(f, id, Over(request, ObjectAt(v, id))),
                       ListedAt(f, id, ObjectAt(v, id)), UpdateSingle(v, id, request).writes)
<1> USE DEF UpdatesOne
<1> SUFFICES ASSUME NEW new, new = Over(request, ObjectAt(v, id))
             PROVE  UpdateMoves(v, id, f, ObjectAt(v, id), new, ListedAt(f, id, new),
                                ListedAt(f, id, ObjectAt(v, id)),
                                UpdateSingle(v, id, request).writes)
    OBVIOUS
<1> DEFINE old == ObjectAt(v, id)
           r == UpdateSingle(v, id, request)
           w == r.writes
           key == ListedAt(f, id, new)
           was == ListedAt(f, id, old)
           full == IndexKey(f, id, old)
<1>1. old \in Objects
    <2>1. ObjectKey(id) \in DOMAIN v /\ ObjectKey(id)[1] = "object"
        BY KeyForms DEF Found
    <2>2. v[ObjectKey(id)] \in Objects
        BY <2>1, Zenon DEF Fits, KeysTyped
    <2> QED
        BY <2>2 DEF ObjectAt
<1>2. UpdateGives(v, id, f, request, old, new, key, full, r)
    BY UpdateIs
<1>3. /\ new = Over(request, old)
      /\ f = "name" => old.name = Null \/ request["name"] = old.name
      /\ r.ec = "OK" /\ "OK" # "DUPLICATE_UNIQUE_KEY"
    OBVIOUS
<1>4. key = ListedAt(f, id, new) /\ was = ListedAt(f, id, old) /\ full = IndexKey(f, id, old)
    OBVIOUS
<1>5. SUFFICES UpdateMoves(v, id, f, old, new, key, was, w)
    OBVIOUS
<1> HIDE DEF r, key, was, full, old
<1>6. /\ new \in Objects
      /\ \A g \in {"name", "tag", "due"} : new[g] = IF g = f THEN request[f] ELSE old[g]
    <2>1. /\ f \in {"name", "tag"} /\ DOMAIN request = {f}
          /\ f = "name" => request["name"] \in Names \cup {Null}
          /\ f = "tag" => request["tag"] \in Tags
        OBVIOUS
    <2>2. new = Over(request, old)
        BY <1>3
    <2> QED
        BY <1>1, <2>1, <2>2, OverObject
<1>7. /\ new["name"] = new.name /\ new["tag"] = new.tag /\ new["due"] = new.due
      /\ old["name"] = old.name /\ old["tag"] = old.tag /\ old["due"] = old.due
    OBVIOUS
<1>8. TtlMark(new) = TtlMark(old)
    BY <1>6, <1>7 DEF TtlMark
<1>9. ASSUME NEW i \in Indexes, FieldValue(i, id, new) = FieldValue(i, id, old)
      PROVE  ListedAt(i, id, new) = ListedAt(i, id, old)
    BY <1>9 DEF ListedAt, SavedKey, IsIndexSet, IndexKey
<1>10. \A i \in Indexes \ {f} : ListedAt(i, id, new) = ListedAt(i, id, old)
    BY <1>6, <1>9 DEF Indexes, FieldValue
<1>11. full = <<f, old[f], id>> /\ IndexKey(f, id, new) = <<f, new[f], id>>
    BY <1>4 DEF IndexKey, FieldValue
<1>12. CASE full = IndexKey(f, id, new)
    <2>1. new[f] = old[f] /\ f \in Indexes
        BY <1>11, <1>12 DEF Indexes
    <2>2. key = was
        BY <1>4, <1>9, <2>1 DEF FieldValue
    <2> QED
        BY <1>1, <1>2, <1>6, <1>8, <1>10, <1>12, <2>2, Zenon DEF UpdateGives, UpdateMoves
<1>13. CASE full # IndexKey(f, id, new)
    <2>1. new[f] # old[f]
        BY <1>11, <1>13
    <2>2. ~SaveUniqueKeyFails(v, key)
        BY <1>2, <1>3, <1>13, Zenon DEF UpdateGives
    <2>3. full = was /\ key # was
        <3>1. CASE f = "tag"
            <4>1. was = <<"tag", old.tag, id>> /\ key = <<"tag", new.tag, id>>
                BY <1>4, <3>1, ListedForms, Zenon
            <4> QED
                BY <1>7, <1>11, <2>1, <3>1, <4>1
        <3>2. CASE f = "name"
            <4>1. old.name = Null /\ new.name # Null
                BY <1>3, <1>6, <1>7, <2>1, <3>2
            <4>2. was = <<"name", Null, id>> /\ key = <<"name", new.name, NoId>>
                BY <1>4, <3>2, <4>1, ListedForms, Zenon
            <4>3. NoId # id
                BY DEF RocksdbStoreAssumption
            <4> QED
                BY <1>7, <1>11, <3>2, <4>1, <4>2, <4>3
        <3> QED
            BY <3>1, <3>2
    <2> QED
        BY <1>1, <1>2, <1>6, <1>8, <1>10, <1>13, <2>2, <2>3, Zenon DEF UpdateGives, UpdateMoves
<1> QED
    BY <1>12, <1>13

\* updateSingle lists the updated object, and nothing else.
LEMMA UpdateTouches ==
    ASSUME RocksdbStoreAssumption, NEW v, Fits(v), NEW id \in Ids,
           NEW f, NEW request, UpdatesOne(v, id, f, request),
           UpdateSingle(v, id, request).ec = "OK",
           NEW w, w = UpdateSingle(v, id, request).writes
    PROVE  Touches(v, w, id) /\ ListsIt(Applied(v, w), id) /\ ListsOnlyIt(Applied(v, w), id)
<1> DEFINE old == ObjectAt(v, id)
           new == Over(request, old)
           key == ListedAt(f, id, new)
           was == ListedAt(f, id, old)
           mark == TtlMark(old)
           a == Applied(v, w)
<1>0. Found(v, id) /\ f \in {"name", "tag"}
    BY DEF UpdatesOne
<1>1. /\ old \in Objects /\ new \in Objects /\ TtlMark(new) = mark
      /\ \A i \in Indexes \ {f} : ListedAt(i, id, new) = ListedAt(i, id, old)
      /\ w[ObjectKey(id)] = new
      /\ \/ key = was /\ DOMAIN w = {ObjectKey(id)}
         \/ /\ key # was /\ ~SaveUniqueKeyFails(v, key)
            /\ DOMAIN w = {ObjectKey(id), key, was}
            /\ w[key] = [id |-> id, mark |-> TtlMark(new)] /\ w[was] = Absent
    <2>1. UpdateMoves(v, id, f, old, new, key, was, w)
        <3>1. UpdateMoves(v, id, f, old, new, key, was, UpdateSingle(v, id, request).writes)
            BY UpdateShape
        <3> QED
            BY <3>1
    <2> HIDE DEF old, new, key, was
    <2> QED
        BY <2>1, Zenon DEF UpdateMoves, mark
<1>2. f \in Indexes /\ key[1] = f /\ was[1] = f
    <2>1. f \in Indexes
        BY <1>0 DEF Indexes
    <2> QED
        BY <2>1, ListedIndex
<1>3. mark \in Nat
    BY <1>1, MarkType
<1>4. \A i \in Indexes : ListedAt(i, id, old)[1] = i /\ ListedAt(i, id, new)[1] = i
    BY ListedIndex
<1>5. \A i \in Indexes : /\ ListedAt(i, id, old) \in DOMAIN v
                         /\ v[ListedAt(i, id, old)] = [id |-> id, mark |-> mark]
    BY <1>0 DEF Fits, ObjectsListed
<1>6. ~IsExpired(mark)
    BY <1>0 DEF Found, ObjectAt
<1>7. \A k \in DOMAIN v : v[k] # Absent
    BY DEF Fits, KeysTyped
<1>8. \A k \in DOMAIN w : /\ k \in DOMAIN a <=> w[k] # Absent
                          /\ w[k] # Absent => a[k] = w[k]
    BY <1>7, AppliedIs
<1>9. \A k : k \notin DOMAIN w => Agree(a, v, k)
    BY <1>7, AppliedIs
<1>10. SaveUniqueKeyFails(v, key) \/ (IsEntry(v, key) => v[key].id = id)
    BY <1>2, SavedIsOwn
<1>11. new # Absent /\ [id |-> id, mark |-> mark] # Absent
    <2>1. [id |-> id, mark |-> mark] \in [id : Ids, mark : Nat]
        BY <1>3
    <2> QED
        BY <1>1, <2>1 DEF RocksdbStoreAssumption
<1>12. ObjectKey(id)[1] = "object" /\ "object" \notin Indexes
    BY KeyForms
<1> HIDE DEF mark, key, was, new, a, old
<1>13. Touches(v, w, id)
    <2>1. ObjectKey(id) \in DOMAIN w
        BY <1>1
    <2>2. ASSUME NEW k \in DOMAIN w
          PROVE  /\ k[1] = "object" => k = ObjectKey(id) /\ w[k] \in Objects
                 /\ k[1] \in Indexes => w[k] \in [id : {id}, mark : Nat] \cup {Absent}
                 /\ IsEntry(v, k) => v[k].id = id
        <3>1. CASE k = ObjectKey(id)
            BY <1>1, <1>12, <3>1 DEF IsEntry
        <3>2. CASE k = key /\ key # was
            <4>1. w[k] = [id |-> id, mark |-> mark] /\ (IsEntry(v, k) => v[k].id = id)
                BY <1>1, <1>2, <1>10, <1>12, <3>2
            <4> QED
                BY <1>2, <1>3, <1>12, <3>2, <4>1
        <3>3. CASE k = was /\ key # was
            <4>1. w[k] = Absent /\ v[k] = [id |-> id, mark |-> mark]
                BY <1>1, <1>2, <1>5, <1>12, <3>3 DEF was
            <4> QED
                BY <1>2, <1>12, <3>3, <4>1
        <3> QED
            BY <1>1, <3>1, <3>2, <3>3
    <2> QED
        BY <2>1, <2>2, Zenon DEF Touches
<1>14. ObjectKey(id) \in DOMAIN a /\ ObjectAt(a, id) = new
    BY <1>1, <1>8, <1>11 DEF ObjectAt
<1>15. \A i \in Indexes : /\ ListedAt(i, id, new) \in DOMAIN a
                          /\ a[ListedAt(i, id, new)] = [id |-> id, mark |-> mark]
    <2> SUFFICES ASSUME NEW i \in Indexes
                 PROVE  /\ ListedAt(i, id, new) \in DOMAIN a
                        /\ a[ListedAt(i, id, new)] = [id |-> id, mark |-> mark]
        OBVIOUS
    <2> DEFINE k == ListedAt(i, id, new)
    <2>1. CASE i = f /\ key # was
        BY <1>1, <1>8, <1>11, <2>1 DEF key
    <2>2. CASE i # f \/ key = was
        <3>1. k = ListedAt(i, id, old)
            BY <1>1, <2>2 DEF key, was
        <3>2. k # ObjectKey(id)
            BY <1>4, <1>12
        <3>3. k \notin DOMAIN w
            BY <1>1, <1>2, <1>4, <2>2, <3>2
        <3>4. Agree(a, v, k) /\ k \in DOMAIN v /\ v[k] = [id |-> id, mark |-> mark]
            BY <1>5, <1>9, <3>1, <3>3
        <3> QED
            BY <3>4 DEF Agree
    <2> QED
        BY <2>1, <2>2
<1>16. ListsIt(a, id)
    BY <1>1, <1>14, <1>15 DEF ListsIt
<1>17. Found(a, id)
    BY <1>1, <1>6, <1>14 DEF Found, ObjectAt
<1>18. ListsOnlyIt(a, id)
    <2> SUFFICES ASSUME NEW k \in DOMAIN a, IsEntry(a, k), a[k].id = id
                 PROVE  k = ListedAt(k[1], id, new) /\ a[k].mark = mark
        BY <1>1, <1>14, <1>17 DEF ListsOnlyIt, EntryFits
    <2>1. k[1] \in Indexes /\ ~IsExpired(a[k].mark)
        BY DEF IsEntry
    <2>2. CASE k \in DOMAIN w
        <3>1. k = key /\ key # was
            BY <1>1, <1>8, <1>12, <2>1, <2>2
        <3> QED
            BY <1>1, <1>2, <1>8, <1>11, <2>2, <3>1 DEF key
    <2>3. CASE k \notin DOMAIN w
        <3>1. k \in DOMAIN v /\ a[k] = v[k]
            BY <1>9, <2>3 DEF Agree
        <3>2. IsEntry(v, k) /\ v[k].id = id
            BY <2>1, <3>1 DEF IsEntry
        <3>3. k = ListedAt(k[1], id, old) /\ v[k].mark = mark
            BY <3>1, <3>2 DEF Fits, EntriesFit, EntryFits, old, mark
        <3>4. k[1] # f \/ key = was
            BY <1>1, <2>3, <3>3 DEF was
        <3>5. ListedAt(k[1], id, new) = ListedAt(k[1], id, old)
            BY <1>1, <2>1, <3>4 DEF key, was
        <3> QED
            BY <3>1, <3>3, <3>5
    <2> QED
        BY <2>2, <2>3
<1> QED
    BY <1>13, <1>16, <1>18 DEF a

\* What DoDelete gives: it writes nothing but deletions.
LEMMA DeleteIs ==
    ASSUME NEW v, NEW id, ObjectKey(id) \in DOMAIN v, NEW r, r = DoDelete(v, id),
           NEW obj, obj = ObjectAt(v, id)
    PROVE  /\ r.ec = "OK" /\ r.ops = <<DelOp>> /\ r.locks = DOMAIN r.writes
           /\ \A k : k \in DOMAIN r.writes <=>
                  \/ k = ObjectKey(id)
                  \/ \E i \in Indexes : k = DeletedKey(i, id, obj)
                  \/ k = TtlKey(TtlMark(obj), id) /\ TtlMark(obj) # 0
           /\ \A k \in DOMAIN r.writes : r.writes[k] = Absent
<1> DEFINE keys == {ObjectKey(id)} \cup {DeletedKey(i, id, obj) : i \in Indexes}
                   \cup IF TtlMark(obj) = 0 THEN {} ELSE {TtlKey(TtlMark(obj), id)}
<1>1. r = Ok({}, [k \in keys |-> Absent], <<DelOp>>)
    BY Zenon DEF DoDelete, DeletedKeys, ObjectAt
<1>2. \A k : k \in keys <=>
          \/ k = ObjectKey(id)
          \/ \E i \in Indexes : k = DeletedKey(i, id, obj)
          \/ k = TtlKey(TtlMark(obj), id) /\ TtlMark(obj) # 0
    OBVIOUS
<1> HIDE DEF keys
<1>3. /\ r.ec = "OK" /\ r.ops = <<DelOp>> /\ r.locks = keys
      /\ r.writes = [k \in keys |-> Absent]
    BY <1>1 DEF Ok
<1>4. DOMAIN r.writes = keys /\ \A k \in keys : r.writes[k] = Absent
    BY <1>3
<1> QED
    BY <1>2, <1>3, <1>4, Zenon

\* Indexes that are not unique have keys that end with the object.
LEMMA ListedFull ==
    ASSUME RocksdbStoreAssumption, NEW id \in Ids, NEW obj, NEW i \in {"tag", "due"}
    PROVE  ListedAt(i, id, obj)[3] = id
<1>1. /\ ListedAt("tag", id, obj) = <<"tag", obj.tag, id>>
      /\ ListedAt("due", id, obj) = <<"due", obj.due, id>>
    BY ListedForms
<1> QED
    BY <1>1

\* DoDelete leaves no entry that lists its object.
LEMMA DeleteTouches ==
    ASSUME RocksdbStoreAssumption, NEW v, Fits(v), NEW id \in Ids, ObjectKey(id) \in DOMAIN v,
           NEW obj, obj = ObjectAt(v, id), obj.name # Null,
           <<"name", obj.name, NoId>> \in DOMAIN v => v[<<"name", obj.name, NoId>>].id = id,
           NEW w, w = DoDelete(v, id).writes
    PROVE  Touches(v, w, id) /\ ListsIt(Applied(v, w), id) /\ ListsOnlyIt(Applied(v, w), id)
<1> DEFINE a == Applied(v, w)
<1>1. /\ \A k : k \in DOMAIN w <=>
             \/ k = ObjectKey(id)
             \/ \E i \in Indexes : k = DeletedKey(i, id, obj)
             \/ k = TtlKey(TtlMark(obj), id) /\ TtlMark(obj) # 0
      /\ \A k \in DOMAIN w : w[k] = Absent
    BY DeleteIs
<1>2. \A i \in Indexes : DeletedKey(i, id, obj) = ListedAt(i, id, obj)
    <2>1. DeletedKey("oid", id, obj) = <<"oid", id, NoId>>
        BY DEF DeletedKey, ShortKey, IndexKey, FieldValue, UniqueIndexes
    <2>2. DeletedKey("name", id, obj) = <<"name", obj.name, NoId>>
        BY DEF DeletedKey, ShortKey, IndexKey, FieldValue, UniqueIndexes
    <2>3. DeletedKey("tag", id, obj) = <<"tag", obj.tag, id>>
        BY DEF DeletedKey, IndexKey, FieldValue, UniqueIndexes
    <2>4. DeletedKey("due", id, obj) = <<"due", obj.due, id>>
        BY DEF DeletedKey, IndexKey, FieldValue, UniqueIndexes
    <2>5. /\ ListedAt("oid", id, obj) = <<"oid", id, NoId>>
          /\ ListedAt("name", id, obj) = <<"name", obj.name, NoId>>
          /\ ListedAt("tag", id, obj) = <<"tag", obj.tag, id>>
          /\ ListedAt("due", id, obj) = <<"due", obj.due, id>>
        BY ListedForms
    <2> QED
        BY <2>1, <2>2, <2>3, <2>4, <2>5 DEF Indexes
<1>3. \A i \in Indexes : ListedAt(i, id, obj)[1] = i
    BY ListedIndex
<1>4. \A k : k[1] \in Indexes => (k \in DOMAIN w <=> k = ListedAt(k[1], id, obj))
    <2> SUFFICES ASSUME NEW k, k[1] \in Indexes
                 PROVE  k \in DOMAIN w <=> k = ListedAt(k[1], id, obj)
        OBVIOUS
    <2>1. k # ObjectKey(id) /\ k # TtlKey(TtlMark(obj), id)
        BY KeyForms
    <2>2. k \in DOMAIN w <=> \E i \in Indexes : k = ListedAt(i, id, obj)
        BY <1>1, <1>2, <2>1
    <2> QED
        BY <1>3, <2>2
<1>5. \A k \in DOMAIN w : k[1] = "object" => k = ObjectKey(id)
    <2> SUFFICES ASSUME NEW k \in DOMAIN w, k[1] = "object", k # ObjectKey(id)
                 PROVE  FALSE
        OBVIOUS
    <2>1. k # TtlKey(TtlMark(obj), id) /\ k[1] \notin Indexes
        BY KeyForms
    <2> QED
        BY <1>1, <1>2, <1>3, <2>1
<1>6. ASSUME NEW k \in DOMAIN w, IsEntry(v, k)
      PROVE  v[k].id = id
    <2> DEFINE i == k[1]
               d == v[k].id
    <2>1. i \in Indexes /\ k = ListedAt(i, id, obj) /\ k \in DOMAIN v
        BY <1>4, <1>6 DEF IsEntry
    <2>2. v[k] \in [id : Ids, mark : Nat]
        BY <2>1 DEF Fits, KeysTyped
    <2>3. d \in Ids
        BY <2>2
    <2>4. k = ListedAt(i, d, ObjectAt(v, d))
        BY <1>6 DEF Fits, EntriesFit, EntryFits, IsEntry
    <2> HIDE DEF d, i
    <2>5. CASE i = "oid"
        <3>1. ListedAt("oid", id, obj) = <<"oid", id, NoId>>
              /\ ListedAt("oid", d, ObjectAt(v, d)) = <<"oid", d, NoId>>
            BY <2>3, ListedForms
        <3> QED
            BY <2>1, <2>4, <2>5, <3>1 DEF d
    <2>6. CASE i = "name"
        <3>1. ListedAt("name", id, obj) = <<"name", obj.name, NoId>>
            BY ListedForms
        <3> QED
            BY <2>1, <2>6, <3>1
    <2>7. CASE i \in {"tag", "due"}
        <3>1. ListedAt(i, id, obj)[3] = id
            BY <2>7, ListedFull
        <3>2. ListedAt(i, d, ObjectAt(v, d))[3] = d
            BY <2>3, <2>7, ListedFull
        <3> QED
            BY <2>1, <2>4, <3>1, <3>2 DEF d
    <2> QED
        BY <2>1, <2>5, <2>6, <2>7 DEF Indexes
<1>7. Touches(v, w, id)
    BY <1>1, <1>5, <1>6 DEF Touches
<1>8. \A k \in DOMAIN v : v[k] # Absent
    BY DEF Fits, KeysTyped
<1>9. \A k \in DOMAIN w : k \notin DOMAIN a
    BY <1>1, <1>8, AppliedIs
<1>10. \A k : k \notin DOMAIN w => Agree(a, v, k)
    BY <1>8, AppliedIs
<1> HIDE DEF a
<1>11. ~Found(a, id)
    BY <1>1, <1>9 DEF Found
<1>12. ListsOnlyIt(a, id)
    <2> SUFFICES ASSUME NEW k \in DOMAIN a, IsEntry(a, k), a[k].id = id
                 PROVE  FALSE
        BY DEF ListsOnlyIt
    <2>1. k \notin DOMAIN w
        BY <1>9
    <2>2. k \in DOMAIN v /\ a[k] = v[k] /\ k[1] \in Indexes
        BY <1>10, <2>1 DEF Agree, IsEntry
    <2>3. IsEntry(v, k) /\ v[k].id = id
        BY <2>2 DEF IsEntry
    <2>4. k = ListedAt(k[1], id, obj)
        BY <2>2, <2>3 DEF Fits, EntriesFit, EntryFits
    <2> QED
        BY <1>4, <2>1, <2>2, <2>4
<1> QED
    BY <1>7, <1>11, <1>12 DEF a, ListsIt

\* The index keys of an object that has expired list nothing else, unless another object
\* has taken its name.
LEMMA ExpiredOwnsKeys ==
    ASSUME RocksdbStoreAssumption, NEW v, Fits(v), NEW id \in Ids, NEW obj,
           obj.name # Null /\ <<"name", obj.name, NoId>> \in DOMAIN v =>
               v[<<"name", obj.name, NoId>>].id = id,
           NEW i \in Indexes, NEW k, k = DeletedKey(i, id, obj), IsEntry(v, k)
    PROVE  v[k].id = id
<1> DEFINE d == v[k].id
           other == ObjectAt(v, d)
<1>1. /\ DeletedKey("oid", id, obj) = <<"oid", id, NoId>>
      /\ DeletedKey("name", id, obj) = <<"name", obj.name, NoId>>
      /\ DeletedKey("tag", id, obj) = <<"tag", obj.tag, id>>
      /\ DeletedKey("due", id, obj) = <<"due", obj.due, id>>
    BY DEF DeletedKey, ShortKey, IndexKey, FieldValue, UniqueIndexes
<1>2. k[1] = i
    BY <1>1 DEF Indexes
<1>3. k \in DOMAIN v /\ v[k] \in [id : Ids, mark : Nat]
    BY <1>2 DEF IsEntry, Fits, KeysTyped
<1>4. d \in Ids
    BY <1>3
<1>5. k = ListedAt(i, d, other)
    BY <1>2 DEF Fits, EntriesFit, EntryFits, IsEntry
<1> HIDE DEF d, other
<1>6. CASE i = "oid"
    <2>1. ListedAt("oid", d, other) = <<"oid", d, NoId>>
        BY <1>4, ListedForms
    <2> QED
        BY <1>1, <1>5, <1>6, <2>1 DEF d
<1>7. CASE i = "name"
    <2>1. CASE obj.name # Null
        BY <1>1, <1>3, <1>7, <2>1
    <2>2. CASE obj.name = Null
        <3>1. k[3] = NoId /\ k[2] = Null
            BY <1>1, <1>7, <2>2
        <3>2. ListedAt("name", d, other) = <<"name", other.name, IF other.name = Null THEN d ELSE NoId>>
            BY <1>4, ListedForms
        <3>3. NoId # d
            BY <1>4 DEF RocksdbStoreAssumption
        <3> QED
            BY <1>5, <1>7, <3>1, <3>2, <3>3
    <2> QED
        BY <2>1, <2>2
<1>8. CASE i \in {"tag", "due"}
    <2>1. k[3] = id
        BY <1>1, <1>8
    <2>2. ListedAt(i, d, other)[3] = d
        BY <1>4, <1>8, ListedFull
    <2> QED
        BY <1>5, <2>1, <2>2 DEF d
<1> QED
    BY <1>6, <1>7, <1>8 DEF Indexes

\* A call that deletes an object that has expired, with any of its index keys, leaves no
\* entry that lists it: there was none before that has not expired.
LEMMA ExpiredTouches ==
    ASSUME RocksdbStoreAssumption, NEW v, Fits(v), NEW id \in Ids, ~Found(v, id),
           ObjectKey(id) \in DOMAIN v, NEW obj, obj = ObjectAt(v, id),
           obj.name # Null /\ <<"name", obj.name, NoId>> \in DOMAIN v =>
               v[<<"name", obj.name, NoId>>].id = id,
           NEW w, ObjectKey(id) \in DOMAIN w, DOMAIN w \subseteq DeletedKeys(id, obj),
           \A k \in DOMAIN w : w[k] = Absent
    PROVE  Touches(v, w, id) /\ ListsIt(Applied(v, w), id) /\ ListsOnlyIt(Applied(v, w), id)
<1> DEFINE a == Applied(v, w)
<1>1. ASSUME NEW k \in DOMAIN w
      PROVE  \/ k = ObjectKey(id)
             \/ \E i \in Indexes : k = DeletedKey(i, id, obj)
             \/ k = TtlKey(TtlMark(obj), id)
    BY DEF DeletedKeys
<1>2. /\ ObjectKey(id)[1] = "object" /\ "object" \notin Indexes
      /\ TtlKey(TtlMark(obj), id)[1] \notin Indexes \cup {"object"}
    BY DEF ObjectKey, TtlKey, Indexes
<1>3. \A i \in Indexes : DeletedKey(i, id, obj)[1] = i
    BY DEF DeletedKey, ShortKey, IndexKey
<1>4. ASSUME NEW k \in DOMAIN w
      PROVE  /\ k[1] = "object" => k = ObjectKey(id)
             /\ IsEntry(v, k) => v[k].id = id
    <2>1. k[1] = "object" => k = ObjectKey(id)
        BY <1>1, <1>2, <1>3
    <2>2. ASSUME IsEntry(v, k)
          PROVE  v[k].id = id
        <3>1. PICK i \in Indexes : k = DeletedKey(i, id, obj)
            BY <1>1, <1>2, <2>2 DEF IsEntry
        <3> QED
            BY <2>2, <3>1, ExpiredOwnsKeys
    <2> QED
        BY <2>1, <2>2
<1>5. Touches(v, w, id)
    BY <1>4 DEF Touches
<1>6. \A k \in DOMAIN v : v[k] # Absent
    BY DEF Fits, KeysTyped
<1>7. \A k \in DOMAIN w : k \notin DOMAIN a
    BY <1>6, AppliedIs
<1>8. \A k : k \notin DOMAIN w => Agree(a, v, k)
    BY <1>6, AppliedIs
<1> HIDE DEF a
<1>9. ~Found(a, id)
    BY <1>7 DEF Found
<1>10. ListsOnlyIt(a, id)
    <2> SUFFICES ASSUME NEW k \in DOMAIN a, IsEntry(a, k), a[k].id = id
                 PROVE  FALSE
        BY DEF ListsOnlyIt
    <2>1. k \in DOMAIN v /\ a[k] = v[k]
        BY <1>7, <1>8 DEF Agree
    <2>2. IsEntry(v, k) /\ v[k].id = id
        BY <2>1 DEF IsEntry
    <2> QED
        BY <2>2 DEF Fits, EntriesFit, EntryFits, IsEntry
<1> QED
    BY <1>5, <1>9, <1>10 DEF a, ListsIt

(***************************************************************************)
(* Two transactions that write different keys                               *)
(***************************************************************************)

\* One of the writes of two transactions, a, over what is stored: what does
\* not depend on it is right in both.
LEMMA MergeHalf ==
    ASSUME RocksdbStoreAssumption, NEW s, NEW va, NEW vb, NEW v, NEW a, NEW b,
           Fits(s), Fits(va), Fits(vb), \A k \in a : k \notin b,
           \A k : k \notin a => Agree(v, vb, k) /\ Agree(va, s, k),
           \A k : k \notin b => Agree(v, va, k) /\ Agree(vb, s, k),
           \A k \in a : k \in DOMAIN va /\ k[1] \in Indexes => ObjectKey(va[k].id) \in a
    PROVE  /\ \A id \in Ids : ObjectKey(id) \notin a => ListsIt(v, id)
           /\ \A k \in DOMAIN v : k \notin a /\ IsEntry(v, k) => EntryFits(v, k)
<1>1. ASSUME NEW id \in Ids, ObjectKey(id) \notin a, Found(v, id), NEW i \in Indexes
      PROVE  /\ ListedAt(i, id, ObjectAt(v, id)) \in DOMAIN v
             /\ v[ListedAt(i, id, ObjectAt(v, id))]
                  = [id |-> id, mark |-> TtlMark(ObjectAt(v, id))]
    <2> DEFINE obj == ObjectAt(v, id)
               k == ListedAt(i, id, obj)
               entry == [id |-> id, mark |-> TtlMark(obj)]
    <2>1. Found(vb, id) /\ ObjectAt(vb, id) = obj
        BY <1>1 DEF Agree, Found, ObjectAt
    <2>2. k \in DOMAIN vb /\ vb[k] = entry
        BY <2>1 DEF Fits, ObjectsListed
    <2>3. k[1] = i
        BY ListedIndex
    <2>4. ~IsExpired(entry.mark) /\ entry.id = id
        BY <1>1 DEF Found, ObjectAt
    <2> HIDE DEF entry
    <2>5. CASE k \notin a
        BY <2>2, <2>5, Zenon DEF Agree, entry
    <2>6. CASE k \in a
        <3> HIDE DEF k
        <3>1. k \notin b
            BY <2>6
        <3>2. k \in DOMAIN s /\ s[k] = entry
            BY <2>2, <3>1 DEF Agree
        <3>3. /\ Found(s, id) /\ k = ListedAt(i, id, ObjectAt(s, id))
              /\ entry.mark = TtlMark(ObjectAt(s, id))
            BY <2>3, <2>4, <3>2 DEF Fits, EntriesFit, EntryFits, IsEntry
        <3>4. Found(va, id) /\ ObjectAt(va, id) = ObjectAt(s, id)
            BY <1>1, <3>3 DEF Agree, Found, ObjectAt
        <3>5. k \in DOMAIN va /\ va[k].id = id
            <4>1. /\ ListedAt(i, id, ObjectAt(va, id)) \in DOMAIN va
                  /\ va[ListedAt(i, id, ObjectAt(va, id))]
                       = [id |-> id, mark |-> TtlMark(ObjectAt(va, id))]
                BY <3>4 DEF Fits, ObjectsListed
            <4>2. k = ListedAt(i, id, ObjectAt(va, id))
                BY <3>3, <3>4
            <4> QED
                BY <4>1, <4>2
        <3> QED
            BY <1>1, <2>3, <2>6, <3>5
    <2> QED
        BY <2>5, <2>6 DEF entry
<1>2. ASSUME NEW k \in DOMAIN v, k \notin a, IsEntry(v, k)
      PROVE  EntryFits(v, k)
    <2> DEFINE d == v[k].id
    <2>1. k \in DOMAIN vb /\ vb[k] = v[k] /\ k[1] \in Indexes /\ ~IsExpired(v[k].mark)
        BY <1>2 DEF Agree, IsEntry
    <2>2. d \in Ids
        <3>1. vb[k] \in [id : Ids, mark : Nat]
            BY <2>1 DEF Fits, KeysTyped
        <3> QED
            BY <2>1, <3>1
    <2>3. /\ Found(vb, d) /\ k = ListedAt(k[1], d, ObjectAt(vb, d))
          /\ v[k].mark = TtlMark(ObjectAt(vb, d))
        BY <2>1 DEF Fits, EntriesFit, EntryFits, IsEntry
    <2> HIDE DEF d
    <2>4. CASE ObjectKey(d) \notin a
        <3>1. Found(v, d) /\ ObjectAt(v, d) = ObjectAt(vb, d)
            BY <2>3, <2>4 DEF Agree, Found, ObjectAt
        <3> QED
            BY <2>3, <3>1 DEF EntryFits, d
    <2>5. CASE ObjectKey(d) \in a
        <3>1. ObjectKey(d) \notin b
            BY <2>5
        <3>2. Found(s, d) /\ ObjectAt(s, d) = ObjectAt(vb, d)
            BY <2>3, <3>1 DEF Agree, Found, ObjectAt
        <3>3. k \in DOMAIN s /\ s[k] = [id |-> d, mark |-> TtlMark(ObjectAt(s, d))]
            BY <2>1, <2>2, <2>3, <3>2 DEF Fits, ObjectsListed
        <3>4. k \in DOMAIN va /\ va[k] = s[k]
            BY <1>2, <3>3 DEF Agree
        <3>5. va[k].id = d /\ va[k].mark = v[k].mark
            BY <2>3, <3>2, <3>3, <3>4
        <3>6. /\ Found(va, d) /\ k = ListedAt(k[1], d, ObjectAt(va, d))
              /\ v[k].mark = TtlMark(ObjectAt(va, d))
            BY <2>1, <3>4, <3>5 DEF Fits, EntriesFit, EntryFits, IsEntry
        <3>7. Found(v, d) /\ ObjectAt(v, d) = ObjectAt(va, d)
            BY <3>1, <3>6 DEF Agree, Found, ObjectAt
        <3> QED
            BY <3>6, <3>7 DEF EntryFits, d
    <2> QED
        BY <2>4, <2>5
<1> QED
    BY <1>1, <1>2 DEF ListsIt

\* Two transactions that write no key in common can both be committed.
LEMMA MergeKeeps ==
    ASSUME RocksdbStoreAssumption, NEW s, NEW wa, NEW wb, Fits(s),
           Fits(Applied(s, wa)), Fits(Applied(s, wb)),
           DOMAIN wa \cap DOMAIN wb = {}, WritesLocal(wa), WritesLocal(wb)
    PROVE  Fits(Applied(Applied(s, wa), wb))
<1> DEFINE a == DOMAIN wa
           b == DOMAIN wb
           va == Applied(s, wa)
           vb == Applied(s, wb)
           v == Applied(va, wb)
<1>1. \A k \in DOMAIN s : s[k] # Absent
    BY DEF Fits, KeysTyped
<1>2. \A k : /\ k \in a => (k \in DOMAIN va <=> wa[k] # Absent)
             /\ k \in a => (wa[k] # Absent => va[k] = wa[k])
             /\ k \notin a => Agree(va, s, k)
    BY <1>1, AppliedIs
<1>3. \A k \in DOMAIN va : va[k] # Absent
    BY <1>1, AppliedIs
<1>4. \A k : /\ k \in b => (k \in DOMAIN vb <=> wb[k] # Absent)
             /\ k \in b => (wb[k] # Absent => vb[k] = wb[k])
             /\ k \notin b => Agree(vb, s, k)
    BY <1>1, AppliedIs
<1> HIDE DEF va
<1>5. \A k : /\ k \in b => (k \in DOMAIN v <=> wb[k] # Absent)
             /\ k \in b => (wb[k] # Absent => v[k] = wb[k])
             /\ k \notin b => Agree(v, va, k)
    BY <1>3, AppliedIs
<1> HIDE DEF vb, v
<1>6. \A k \in a : k \notin b
    OBVIOUS
<1>7. \A k : k \notin a => Agree(v, vb, k) /\ Agree(va, s, k)
    <2> SUFFICES ASSUME NEW k, k \notin a
                 PROVE  Agree(v, vb, k)
        BY <1>2
    <2>1. CASE k \in b
        BY <1>4, <1>5, <2>1 DEF Agree
    <2>2. CASE k \notin b
        BY <1>2, <1>4, <1>5, <2>2 DEF Agree
    <2> QED
        BY <2>1, <2>2
<1>8. \A k : k \notin b => Agree(v, va, k) /\ Agree(vb, s, k)
    BY <1>4, <1>5
<1>9. \A k \in a : k \in DOMAIN va /\ k[1] \in Indexes => ObjectKey(va[k].id) \in a
    BY <1>2 DEF WritesLocal
<1>10. \A k \in b : k \in DOMAIN vb /\ k[1] \in Indexes => ObjectKey(vb[k].id) \in b
    BY <1>4 DEF WritesLocal
<1>11. Fits(va) /\ Fits(vb)
    BY DEF va, vb
<1> HIDE DEF a, b
<1>12. /\ \A id \in Ids : ObjectKey(id) \notin a => ListsIt(v, id)
       /\ \A k \in DOMAIN v : k \notin a /\ IsEntry(v, k) => EntryFits(v, k)
    BY <1>6, <1>7, <1>8, <1>9, <1>11, MergeHalf
<1>13. /\ \A id \in Ids : ObjectKey(id) \notin b => ListsIt(v, id)
       /\ \A k \in DOMAIN v : k \notin b /\ IsEntry(v, k) => EntryFits(v, k)
    <2>1. \A k \in b : k \notin a
        BY <1>6
    <2> QED
        BY <1>7, <1>8, <1>10, <1>11, <2>1, MergeHalf
<1>14. KeysTyped(v)
    <2> SUFFICES ASSUME NEW k \in DOMAIN v
                 PROVE  /\ v[k] # Absent
                        /\ k[1] = "object" => \E d \in Ids : k = ObjectKey(d) /\ v[k] \in Objects
                        /\ k[1] \in Indexes => v[k] \in [id : Ids, mark : Nat]
        BY DEF KeysTyped
    <2>1. CASE k \notin a
        BY <1>7, <1>11, <2>1 DEF Agree, Fits, KeysTyped
    <2>2. CASE k \notin b
        BY <1>8, <1>11, <2>2 DEF Agree, Fits, KeysTyped
    <2> QED
        BY <1>6, <2>1, <2>2
<1>15. ObjectsListed(v)
    BY <1>6, <1>12, <1>13 DEF ObjectsListed, ListsIt
<1>16. EntriesFit(v)
    BY <1>6, <1>12, <1>13 DEF EntriesFit
<1> QED
    BY <1>14, <1>15, <1>16 DEF Fits, v, va

\* Compaction: what has gone had expired.
LEMMA RemoveKeeps ==
    ASSUME NEW v, NEW w, Fits(w),
           \A k \in DOMAIN v : k \in DOMAIN w /\ v[k] = w[k],
           \A k \in DOMAIN w \ DOMAIN v :
               \/ k[1] = "object" /\ IsExpired(TtlMark(w[k]))
               \/ k[1] \in Indexes /\ IsExpired(w[k].mark)
    PROVE  Fits(v)
<1>1. \A id : /\ Found(v, id) <=> Found(w, id)
              /\ Found(v, id) => ObjectAt(v, id) = ObjectAt(w, id)
    <2> SUFFICES ASSUME NEW id
                 PROVE  /\ Found(v, id) <=> Found(w, id)
                        /\ Found(v, id) => ObjectAt(v, id) = ObjectAt(w, id)
        OBVIOUS
    <2>1. ObjectKey(id)[1] = "object" /\ "object" \notin Indexes
        BY KeyForms
    <2> QED
        BY <2>1 DEF Found, ObjectAt
<1>2. KeysTyped(v)
    BY DEF Fits, KeysTyped
<1>3. ObjectsListed(v)
    <2> SUFFICES ASSUME NEW id \in Ids, Found(v, id), NEW i \in Indexes
                 PROVE  /\ ListedAt(i, id, ObjectAt(v, id)) \in DOMAIN v
                        /\ v[ListedAt(i, id, ObjectAt(v, id))]
                             = [id |-> id, mark |-> TtlMark(ObjectAt(v, id))]
        BY DEF ObjectsListed
    <2> DEFINE k == ListedAt(i, id, ObjectAt(w, id))
    <2>1. Found(w, id) /\ ObjectAt(v, id) = ObjectAt(w, id)
        BY <1>1
    <2>2. k \in DOMAIN w /\ w[k] = [id |-> id, mark |-> TtlMark(ObjectAt(w, id))]
        BY <2>1 DEF Fits, ObjectsListed
    <2>3. k[1] \in Indexes /\ "object" \notin Indexes
        BY KeyForms DEF ListedAt, SavedKey, ShortKey, IndexKey
    <2>4. ~IsExpired(w[k].mark)
        BY <2>1, <2>2 DEF Found, ObjectAt
    <2> HIDE DEF k
    <2>5. k \in DOMAIN v /\ v[k] = w[k]
        BY <2>2, <2>3, <2>4
    <2> QED
        BY <2>1, <2>2, <2>5 DEF k
<1>4. EntriesFit(v)
    BY <1>1 DEF Fits, EntriesFit, EntryFits, IsEntry
<1> QED
    BY <1>2, <1>3, <1>4 DEF Fits

(***************************************************************************)
(* Time                                                                     *)
(***************************************************************************)

\* The same at a given time.
ExpiredAt(mark, time) == mark # 0 /\ mark < time

FoundAt(view, id, time) ==
    ObjectKey(id) \in DOMAIN view /\ ~ExpiredAt(TtlMark(view[ObjectKey(id)]), time)

ListsItAt(view, id, time) ==
    FoundAt(view, id, time) => \A i \in Indexes :
        /\ ListedAt(i, id, ObjectAt(view, id)) \in DOMAIN view
        /\ view[ListedAt(i, id, ObjectAt(view, id))]
             = [id |-> id, mark |-> TtlMark(ObjectAt(view, id))]

EntryFitsAt(view, k, time) ==
    k[1] \in Indexes /\ ~ExpiredAt(view[k].mark, time) =>
        /\ FoundAt(view, view[k].id, time)
        /\ k = ListedAt(k[1], view[k].id, ObjectAt(view, view[k].id))
        /\ view[k].mark = TtlMark(ObjectAt(view, view[k].id))

FitsAt(view, time) ==
    /\ KeysTyped(view)
    /\ \A id \in Ids : ListsItAt(view, id, time)
    /\ \A k \in DOMAIN view : EntryFitsAt(view, k, time)

\* What fits at the present time.
LEMMA FitsNow == \A v : FitsAt(v, now) <=> Fits(v)
<1> SUFFICES ASSUME NEW v
             PROVE  FitsAt(v, now) <=> Fits(v)
    OBVIOUS
<1>1. \A m : ExpiredAt(m, now) <=> IsExpired(m)
    BY DEF ExpiredAt, IsExpired
<1>2. \A id : FoundAt(v, id, now) <=> Found(v, id)
    BY <1>1 DEF FoundAt, Found
<1>3. (\A id \in Ids : ListsItAt(v, id, now)) <=> ObjectsListed(v)
    BY <1>2 DEF ListsItAt, ObjectsListed
<1>4. (\A k \in DOMAIN v : EntryFitsAt(v, k, now)) <=> EntriesFit(v)
    BY <1>1, <1>2 DEF EntryFitsAt, EntriesFit, EntryFits, IsEntry
<1> QED
    BY <1>3, <1>4, Zenon DEF FitsAt, Fits

\* What has not expired later has not expired now.
LEMMA FitsLater ==
    ASSUME RocksdbStoreAssumption, NEW v, NEW time \in Nat, NEW later \in {time, time + 1},
           FitsAt(v, time)
    PROVE  FitsAt(v, later)
<1>1. \A m \in Nat : ~ExpiredAt(m, later) => ~ExpiredAt(m, time)
    BY DEF ExpiredAt
<1>2. KeysTyped(v)
    BY DEF FitsAt
<1>3. ASSUME NEW id \in Ids, FoundAt(v, id, later)
      PROVE  FoundAt(v, id, time)
    <2>1. ObjectKey(id) \in DOMAIN v /\ ObjectKey(id)[1] = "object"
        BY <1>3, KeyForms DEF FoundAt
    <2>2. v[ObjectKey(id)] \in Objects
        BY <1>2, <2>1 DEF KeysTyped
    <2>3. TtlMark(v[ObjectKey(id)]) \in Nat
        BY <2>2, MarkType
    <2> QED
        BY <1>1, <1>3, <2>3 DEF FoundAt
<1>4. \A id \in Ids : ListsItAt(v, id, later)
    BY <1>3 DEF FitsAt, ListsItAt
<1>5. ASSUME NEW k \in DOMAIN v, k[1] \in Indexes, ~ExpiredAt(v[k].mark, later)
      PROVE  /\ FoundAt(v, v[k].id, later)
             /\ k = ListedAt(k[1], v[k].id, ObjectAt(v, v[k].id))
             /\ v[k].mark = TtlMark(ObjectAt(v, v[k].id))
    <2>1. v[k] \in [id : Ids, mark : Nat]
        BY <1>2, <1>5 DEF KeysTyped
    <2>2. v[k].mark \in Nat
        BY <2>1
    <2>3. ~ExpiredAt(v[k].mark, time)
        BY <1>1, <1>5, <2>2
    <2>4. /\ FoundAt(v, v[k].id, time)
          /\ k = ListedAt(k[1], v[k].id, ObjectAt(v, v[k].id))
          /\ v[k].mark = TtlMark(ObjectAt(v, v[k].id))
        BY <1>5, <2>3, Zenon DEF FitsAt, EntryFitsAt
    <2>5. ~ExpiredAt(TtlMark(ObjectAt(v, v[k].id)), later)
        BY <1>5, <2>4
    <2> QED
        BY <2>4, <2>5 DEF FoundAt, ObjectAt
<1>6. \A k \in DOMAIN v : EntryFitsAt(v, k, later)
    BY <1>5, Zenon DEF EntryFitsAt
<1> QED
    BY <1>2, <1>4, <1>6 DEF FitsAt

(***************************************************************************)
(* Calls and transactions                                                   *)
(***************************************************************************)

Sound(v, r, id) ==
    /\ r.ec = "OK" \/ DOMAIN r.writes = {}
    /\ DOMAIN r.writes = {} \/ Touches(v, r.writes, id)
    /\ DOMAIN r.writes \subseteq r.locks
    /\ WritesLocal(r.writes)
    /\ Fits(Applied(v, r.writes))

\* A call that writes nothing changes nothing.
LEMMA WritesNothing ==
    ASSUME NEW v, Fits(v), NEW w, DOMAIN w = {}
    PROVE  WritesLocal(w) /\ Fits(Applied(v, w))
<1>1. \A k \in DOMAIN v : v[k] # Absent
    BY DEF Fits, KeysTyped
<1>2. \A k : Agree(Applied(v, w), v, k)
    BY <1>1, AppliedIs
<1> QED
    BY <1>2, SameFits DEF WritesLocal

\* A call about one object writes that object with its entries.
LEMMA TouchIsLocal ==
    ASSUME NEW v, NEW w, NEW id, Touches(v, w, id)
    PROVE  WritesLocal(w)
<1> SUFFICES ASSUME NEW k \in DOMAIN w, k[1] \in Indexes, w[k] # Absent
             PROVE  ObjectKey(w[k].id) \in DOMAIN w
    BY DEF WritesLocal
<1>1. w[k] \in [id : {id}, mark : Nat]
    BY DEF Touches
<1>2. w[k].id = id
    BY <1>1
<1> QED
    BY <1>2 DEF Touches

\* A call that leaves its own object listed is sound.
LEMMA TouchSound ==
    ASSUME RocksdbStoreAssumption, NEW v, Fits(v), NEW id \in Ids, NEW r,
           r.ec = "OK", r.locks = DOMAIN r.writes, Touches(v, r.writes, id),
           ListsIt(Applied(v, r.writes), id), ListsOnlyIt(Applied(v, r.writes), id)
    PROVE  Sound(v, r, id)
<1>1. WritesLocal(r.writes)
    BY TouchIsLocal
<1>2. Fits(Applied(v, r.writes))
    BY TouchKeeps
<1> QED
    BY <1>1, <1>2 DEF Sound

\* So is every CreateObject,
LEMMA CreateSound ==
    ASSUME RocksdbStoreAssumption, NEW v, Fits(v), NEW id \in Ids, NEW obj \in Objects
    PROVE  Sound(v, CreateObject(v, id, obj), id)
<1> DEFINE r == CreateObject(v, id, obj)
           taken == \E i \in Indexes : SaveUniqueKeyFails(v, ListedAt(i, id, obj))
<1>1. /\ taken => r.ec = "DUPLICATE_UNIQUE_KEY" /\ r.writes = <<>>
      /\ ~taken => r.ec = "OK" /\ r.locks = DOMAIN r.writes
    BY CreateIs, Zenon
<1>2. CASE taken
    <2>1. DOMAIN r.writes = {}
        BY <1>1, <1>2
    <2> HIDE DEF r
    <2>2. Sound(v, r, id)
        BY <2>1, WritesNothing DEF Sound
    <2> QED
        BY <2>2 DEF r
<1>3. CASE ~taken
    <2>1. r.ec = "OK" /\ r.locks = DOMAIN r.writes
        BY <1>1, <1>3
    <2>2. /\ Touches(v, r.writes, id) /\ ListsIt(Applied(v, r.writes), id)
          /\ ListsOnlyIt(Applied(v, r.writes), id)
        BY <2>1, CreateTouches
    <2> HIDE DEF r
    <2>3. Sound(v, r, id)
        BY <2>1, <2>2, TouchSound
    <2> QED
        BY <2>3 DEF r
<1> QED
    BY <1>2, <1>3

\* The irregular calls that would leave keys that do not fit together.
KeysRegular ==
    {"updateUnique", "updateTtl", "deleteNull", "deleteTaken", "deleteTopicInTx"} \subseteq Avoided

\* every DoDelete that is not irregular,
LEMMA DeleteSound ==
    ASSUME RocksdbStoreAssumption, KeysRegular, NEW v, Fits(v), NEW id \in Ids,
           ~DeleteIsIrregular(v, id)
    PROVE  Sound(v, DoDelete(v, id), id)
<1> DEFINE r == DoDelete(v, id)
           obj == ObjectAt(v, id)
<1>1. CASE ObjectKey(id) \notin DOMAIN v
    <2>1. r = Ok({ObjectKey(id)}, <<>>, <<>>)
        BY <1>1 DEF DoDelete
    <2>2. DOMAIN r.writes = {} /\ r.ec = "OK"
        BY <2>1 DEF Ok
    <2> HIDE DEF r
    <2>3. Sound(v, r, id)
        BY <2>2, WritesNothing DEF Sound
    <2> QED
        BY <2>3 DEF r
<1>2. CASE ObjectKey(id) \in DOMAIN v
    <2>1. r.ec = "OK" /\ r.locks = DOMAIN r.writes
        BY <1>2, DeleteIs
    <2>2. ShortKey(IndexKey("name", id, obj)) = <<"name", obj.name, NoId>>
        BY DEF ShortKey, IndexKey, FieldValue
    <2>3. /\ Found(v, id) => obj.name # Null
          /\ obj.name # Null /\ <<"name", obj.name, NoId>> \in DOMAIN v =>
                 v[<<"name", obj.name, NoId>>].id = id
        BY <1>2, <2>2 DEF DeleteIsIrregular, Irregular, KeysRegular, ObjectAt
    <2>4. /\ Touches(v, r.writes, id) /\ ListsIt(Applied(v, r.writes), id)
          /\ ListsOnlyIt(Applied(v, r.writes), id)
        <3>1. CASE Found(v, id)
            BY <1>2, <2>3, <3>1, DeleteTouches
        <3>2. CASE ~Found(v, id)
            <4>1. DOMAIN r.writes = DeletedKeys(id, obj) /\ \A k \in DOMAIN r.writes : r.writes[k] = Absent
                BY <1>2 DEF DoDelete, Ok, ObjectAt
            <4>2. ObjectKey(id) \in DeletedKeys(id, obj)
                BY DEF DeletedKeys
            <4> HIDE DEF r
            <4> QED
                BY <1>2, <2>3, <3>2, <4>1, <4>2, ExpiredTouches
        <3> QED
            BY <3>1, <3>2
    <2> HIDE DEF r
    <2>5. Sound(v, r, id)
        BY <2>1, <2>4, TouchSound
    <2> QED
        BY <2>5 DEF r
<1> QED
    BY <1>1, <1>2

\* So is the deletion of an expired object that fails half way,
LEMMA PartSound ==
    ASSUME RocksdbStoreAssumption, KeysRegular, NEW s \in Sessions, Fits(View(s)), NEW id \in Ids,
           ObjectKey(id) \in DOMAIN View(s), ~Found(View(s), id),
           ~DeleteIsIrregular(View(s), id), NEW r \in DeletedPartly(s, id)
    PROVE  /\ Sound(View(s), r, id)
           /\ r.ops = <<>> /\ ObjectKey(id) \in DOMAIN View(s)
<1> DEFINE v == View(s)
           obj == ObjectAt(v, id)
<1>1. PICK n \in 1..Len(IndexOrder) :
          r = Ok({}, [k \in {ObjectKey(id)} \cup
                            {DeletedKey(IndexOrder[m], id, obj) : m \in 1..(n - 1)} |-> Absent], <<>>)
    BY DEF DeletedPartly, ObjectAt
<1>2. \A m \in 1..(n - 1) : IndexOrder[m] \in Indexes
    BY DEF IndexOrder, Indexes
<1> DEFINE keys == {ObjectKey(id)} \cup {DeletedKey(IndexOrder[m], id, obj) : m \in 1..(n - 1)}
<1>3. keys \subseteq DeletedKeys(id, obj) /\ ObjectKey(id) \in keys
    BY <1>2 DEF DeletedKeys
<1>4. r = Ok({}, [k \in keys |-> Absent], <<>>)
    BY <1>1
<1> HIDE DEF keys
<1>5. /\ r.ec = "OK" /\ r.ops = <<>> /\ r.locks = DOMAIN r.writes /\ DOMAIN r.writes = keys
      /\ \A k \in DOMAIN r.writes : r.writes[k] = Absent
    BY <1>4 DEF Ok
<1>6. ShortKey(IndexKey("name", id, obj)) = <<"name", obj.name, NoId>>
    BY DEF ShortKey, IndexKey, FieldValue
<1>7. obj.name # Null /\ <<"name", obj.name, NoId>> \in DOMAIN v =>
          v[<<"name", obj.name, NoId>>].id = id
    BY <1>6 DEF DeleteIsIrregular, Irregular, KeysRegular, ObjectAt
<1> HIDE DEF obj, v
<1>8. /\ Touches(v, r.writes, id) /\ ListsIt(Applied(v, r.writes), id)
      /\ ListsOnlyIt(Applied(v, r.writes), id)
    BY <1>3, <1>5, <1>7, ExpiredTouches DEF obj, v
<1>9. Sound(v, r, id)
    BY <1>5, <1>8, TouchSound DEF v
<1> QED
    BY <1>5, <1>9 DEF v

\* and every updateSingle that is not irregular.
LEMMA UpdateSound ==
    ASSUME RocksdbStoreAssumption, KeysRegular, NEW v, Fits(v), NEW id \in Ids,
           NEW request \in Requests, ~UpdateIsIrregular(v, id, request)
    PROVE  Sound(v, UpdateSingle(v, id, request), id)
<1> DEFINE r == UpdateSingle(v, id, request)
<1>1. CASE ~Found(v, id)
    <2>1. r = DoDelete(v, id) /\ ~DeleteIsIrregular(v, id)
        BY <1>1 DEF UpdateSingle, UpdateIsIrregular
    <2> QED
        BY <2>1, DeleteSound
<1>2. CASE Found(v, id)
    <2> DEFINE name == ObjectAt(v, id).name
    <2>1. /\ "due" \notin DOMAIN request
          /\ "name" \in DOMAIN request => name = Null \/ request["name"] = name
        <3>1. request.name = request["name"]
            OBVIOUS
        <3> QED
            BY <1>2, <3>1 DEF UpdateIsIrregular, Irregular, KeysRegular, ObjectAt
    <2>2. PICK f \in {"name", "tag"} :
              /\ DOMAIN request = {f}
              /\ f = "name" => request["name"] \in Names \cup {Null}
              /\ f = "tag" => request["tag"] \in Tags
        BY <2>1 DEF Requests
    <2>3. f = "name" => name = Null \/ request["name"] = name
        BY <2>1, <2>2
    <2> DEFINE old == ObjectAt(v, id)
               new == Over(request, old)
    <2>4. UpdateGives(v, id, f, request, old, new, ListedAt(f, id, new), IndexKey(f, id, old), r)
        BY <1>2, <2>2, UpdateIs
    <2>5. \/ r.ec = "OK" /\ r.locks = DOMAIN r.writes
          \/ r.ec = "DUPLICATE_UNIQUE_KEY" /\ r.writes = <<>>
        <3> HIDE DEF r, old, new
        <3> QED
            BY <2>4, Zenon DEF UpdateGives
    <2>6. CASE r.ec = "DUPLICATE_UNIQUE_KEY" /\ r.writes = <<>>
        <3>1. DOMAIN r.writes = {}
            BY <2>6
        <3> HIDE DEF r
        <3>2. Sound(v, r, id)
            BY <2>6, <3>1, WritesNothing DEF Sound
        <3> QED
            BY <3>2 DEF r
    <2>7. CASE r.ec = "OK" /\ r.locks = DOMAIN r.writes
        <3>1. /\ Touches(v, r.writes, id) /\ ListsIt(Applied(v, r.writes), id)
              /\ ListsOnlyIt(Applied(v, r.writes), id)
            <4>1. UpdatesOne(v, id, f, request)
                BY <1>2, <2>2, <2>3 DEF UpdatesOne
            <4> QED
                BY <2>7, <4>1, UpdateTouches
        <3> HIDE DEF r
        <3>2. Sound(v, r, id)
            BY <2>7, <3>1, TouchSound
        <3> QED
            BY <3>2 DEF r
    <2> QED
        BY <2>5, <2>6, <2>7
<1> QED
    BY <1>1, <1>2

\* How a call on an object counts: a creation adds one, an update finds the
\* object it writes, a deletion finds the object it takes away.
Counts(v, r, id) ==
    \/ r.ops = <<>> /\ (ObjectKey(id) \in DOMAIN r.writes => ObjectKey(id) \in DOMAIN v)
    \/ r.ops = <<AddOp>>
    \/ /\ r.ops = <<DelOp>> /\ ObjectKey(id) \in DOMAIN v
       /\ ObjectKey(id) \in DOMAIN r.writes /\ r.writes[ObjectKey(id)] = Absent

\* Each call counts as it should.
LEMMA CreateCounts ==
    ASSUME NEW v, NEW id \in Ids, NEW obj \in Objects
    PROVE  Counts(v, CreateObject(v, id, obj), id)
<1> DEFINE r == CreateObject(v, id, obj)
<1>1. (r.writes = <<>> /\ r.ops = <<>>) \/ r.ops = <<AddOp>>
    BY CreateIs, Zenon
<1> HIDE DEF r
<1>2. DOMAIN <<>> = {}
    OBVIOUS
<1>3. Counts(v, r, id)
    BY <1>1, <1>2 DEF Counts
<1> QED
    BY <1>3 DEF r

\* A deletion counts only if the object is there.
LEMMA DeleteCounts ==
    ASSUME NEW v, NEW id \in Ids
    PROVE  Counts(v, DoDelete(v, id), id)
<1> DEFINE r == DoDelete(v, id)
<1>1. CASE ObjectKey(id) \notin DOMAIN v
    <2>1. r.writes = <<>> /\ r.ops = <<>>
        BY <1>1 DEF DoDelete, Ok
    <2> HIDE DEF r
    <2>2. DOMAIN r.writes = {}
        BY <2>1
    <2>3. Counts(v, r, id)
        BY <2>1, <2>2 DEF Counts
    <2> QED
        BY <2>3 DEF r
<1>2. CASE ObjectKey(id) \in DOMAIN v
    <2>1. /\ r.ops = <<DelOp>>
          /\ ObjectKey(id) \in DOMAIN r.writes /\ r.writes[ObjectKey(id)] = Absent
        BY <1>2, DeleteIs
    <2> HIDE DEF r
    <2>2. Counts(v, r, id)
        BY <1>2, <2>1 DEF Counts
    <2> QED
        BY <2>2 DEF r
<1> QED
    BY <1>1, <1>2

\* An update counts for nothing, unless it is a deletion.
LEMMA UpdateCounts ==
    ASSUME NEW v, NEW id \in Ids, NEW request
    PROVE  Counts(v, UpdateSingle(v, id, request), id)
<1> DEFINE r == UpdateSingle(v, id, request)
<1>1. CASE ~Found(v, id)
    BY <1>1, DeleteCounts DEF UpdateSingle
<1>2. CASE Found(v, id)
    <2>1. r.ops = <<>>
        BY <1>2 DEF UpdateSingle, Ok, Fails
    <2> QED
        BY <1>2, <2>1 DEF Counts, Found
<1> QED
    BY <1>1, <1>2

\* Whatever an update may lead to is sound, and counts.
LEMMA UpdateResultsSound ==
    ASSUME RocksdbStoreAssumption, KeysRegular, NEW s \in Sessions, Fits(View(s)), NEW id \in Ids,
           NEW request \in Requests, ~UpdateIsIrregular(View(s), id, request),
           NEW r \in UpdateResults(s, id, request)
    PROVE  Sound(View(s), r, id) /\ Counts(View(s), r, id)
<1>1. CASE r = UpdateSingle(View(s), id, request)
    BY <1>1, UpdateSound, UpdateCounts
<1>2. CASE /\ ObjectKey(id) \in DOMAIN View(s) /\ ~Found(View(s), id)
           /\ r \in DeletedPartly(s, id)
    <2>1. ~DeleteIsIrregular(View(s), id)
        BY <1>2 DEF UpdateIsIrregular
    <2> QED
        BY <1>2, <2>1, PartSound DEF Counts
<1> QED
    BY <1>1, <1>2 DEF UpdateResults

(***************************************************************************)
(* The invariant                                                            *)
(***************************************************************************)

\* Who writes a key has locked it, and nobody else has.
TxInv ==
    /\ DOMAIN tx = Sessions
    /\ \A s \in Sessions :
         /\ ~tx[s].open => tx[s] = NoTx
         /\ DOMAIN tx[s].writes \subseteq tx[s].locks
         /\ WritesLocal(tx[s].writes)
    /\ \A s, u \in Sessions : s # u => tx[s].locks \cap tx[u].locks = {}

ViewsFit == FitsAt(store, now) /\ \A s \in Sessions : FitsAt(View(s), now)

\* A session without a transaction has written and locked nothing.
LEMMA NoTxIs ==
    /\ ~NoTx.open /\ DOMAIN NoTx.writes = {} /\ NoTx.locks = {}
    /\ WritesLocal(NoTx.writes)
<1>1. ~NoTx.open /\ NoTx.writes = <<>> /\ NoTx.locks = {}
    BY DEF NoTx
<1>2. DOMAIN <<>> = {}
    OBVIOUS
<1> QED
    BY <1>1, <1>2 DEF WritesLocal

\* A transaction that goes on writes objects with their entries.
LEMMA OverLocal ==
    ASSUME NEW f, NEW g, WritesLocal(f), WritesLocal(g)
    PROVE  WritesLocal(Over(f, g)) /\ DOMAIN Over(f, g) = DOMAIN f \cup DOMAIN g
BY DEF WritesLocal, Over

\* Fitting at the present time, for all views.
LEMMA ViewsFitNow == ViewsFit <=> Fits(store) /\ \A s \in Sessions : Fits(View(s))
BY FitsNow DEF ViewsFit

\* What is committed fits together with what the others are about to commit.
LEMMA CommitFits ==
    ASSUME RocksdbStoreAssumption, TxInv, ViewsFit, NEW u \in Sessions, NEW w, WritesLocal(w),
           Fits(Applied(store, w)), tx[u].open => DOMAIN w \cap tx[u].locks = {}
    PROVE  /\ tx[u].open => Fits(Applied(Applied(store, w), tx[u].writes))
           /\ ~tx[u].open => Fits(Applied(store, w))
<1> SUFFICES ASSUME tx[u].open
             PROVE  Fits(Applied(Applied(store, w), tx[u].writes))
    OBVIOUS
<1>1. DOMAIN w \cap DOMAIN tx[u].writes = {} /\ WritesLocal(tx[u].writes)
    BY DEF TxInv
<1>2. Fits(store) /\ Fits(Applied(store, tx[u].writes))
    BY ViewsFitNow DEF View
<1> QED
    BY <1>1, <1>2, MergeKeeps

\* A transaction that is rolled back leaves what the others see.
LEMMA AbortKeeps ==
    ASSUME TxInv, ViewsFit, now' = now, NEW s \in Sessions, tx' = [tx EXCEPT ![s] = NoTx],
           store' = store
    PROVE  TxInv' /\ ViewsFit'
<1>1. /\ DOMAIN tx' = Sessions /\ tx'[s] = NoTx
      /\ \A u \in Sessions \ {s} : tx'[u] = tx[u]
    BY DEF TxInv
<1>2. TxInv'
    <2>1. \A u \in Sessions :
            /\ ~tx'[u].open => tx'[u] = NoTx
            /\ DOMAIN tx'[u].writes \subseteq tx'[u].locks
            /\ WritesLocal(tx'[u].writes)
        BY <1>1, NoTxIs DEF TxInv
    <2>2. \A u, x \in Sessions : u # x => tx'[u].locks \cap tx'[x].locks = {}
        BY <1>1, NoTxIs DEF TxInv
    <2> QED
        BY <1>1, <2>1, <2>2 DEF TxInv
<1>3. ASSUME NEW u \in Sessions
      PROVE  FitsAt(View(u)', now')
    <2>1. CASE u = s
        <3>1. View(u)' = store
            BY <1>1, <2>1, NoTxIs DEF View
        <3> QED
            BY <3>1 DEF ViewsFit
    <2>2. CASE u # s
        <3>1. View(u)' = View(u)
            BY <1>1, <2>2 DEF View
        <3> QED
            BY <3>1 DEF ViewsFit
    <2> QED
        BY <2>1, <2>2
<1> QED
    BY <1>2, <1>3 DEF ViewsFit

\* RocksdbHandler::transaction with a sound call.
LEMMA TransactionKeeps ==
    ASSUME RocksdbStoreAssumption, TxInv, ViewsFit, now' = now, NEW s \in Sessions, NEW r,
           NEW id, Sound(View(s), r, id), Transaction(s, r)
    PROVE  TxInv' /\ ViewsFit'
<1>1. /\ r.ec = "OK" \/ DOMAIN r.writes = {}
      /\ DOMAIN r.writes \subseteq r.locks
      /\ WritesLocal(r.writes)
      /\ Fits(Applied(View(s), r.writes))
    BY DEF Sound
<1>2. \A u \in Sessions \ {s} : tx[u].locks \cap r.locks = {}
    BY DEF Transaction, Locked
<1>3. \A k \in DOMAIN store : store[k] # Absent
    BY DEF ViewsFit, FitsAt, KeysTyped
<1>4. CASE tx[s].open /\ r.ec = "OK"
    <2> DEFINE t == [open |-> TRUE, writes |-> Over(r.writes, tx[s].writes),
                     locks |-> tx[s].locks \cup r.locks, calls |-> tx[s].calls + 1]
    <2>1. tx' = [tx EXCEPT ![s] = t] /\ store' = store
        BY <1>4 DEF Transaction
    <2>2. t.open /\ t.writes = Over(r.writes, tx[s].writes) /\ t.locks = tx[s].locks \cup r.locks
        OBVIOUS
    <2> HIDE DEF t
    <2>3. /\ DOMAIN tx' = Sessions /\ tx'[s] = t
          /\ \A u \in Sessions \ {s} : tx'[u] = tx[u]
        BY <2>1 DEF TxInv
    <2>4. WritesLocal(t.writes) /\ DOMAIN t.writes = DOMAIN r.writes \cup DOMAIN tx[s].writes
        <3>1. WritesLocal(tx[s].writes)
            BY DEF TxInv
        <3>2. WritesLocal(r.writes)
            BY <1>1
        <3>3. /\ WritesLocal(Over(r.writes, tx[s].writes))
              /\ DOMAIN Over(r.writes, tx[s].writes) = DOMAIN r.writes \cup DOMAIN tx[s].writes
            BY <3>1, <3>2, OverLocal
        <3> QED
            BY <2>2, <3>3
    <2>5. TxInv'
        <3>1. \A u \in Sessions :
                /\ ~tx'[u].open => tx'[u] = NoTx
                /\ DOMAIN tx'[u].writes \subseteq tx'[u].locks
                /\ WritesLocal(tx'[u].writes)
            BY <1>1, <2>2, <2>3, <2>4 DEF TxInv
        <3>2. \A u, x \in Sessions : u # x => tx'[u].locks \cap tx'[x].locks = {}
            BY <1>2, <2>2, <2>3 DEF TxInv
        <3> QED
            BY <2>3, <3>1, <3>2 DEF TxInv, WritesLocal, ObjectKey, Indexes, NoTx
    <2>6. Fits(Applied(store, t.writes))
        <3>1. View(s) = Applied(store, tx[s].writes)
            BY <1>4 DEF View
        <3>2. \A k : Agree(Applied(store, Over(r.writes, tx[s].writes)),
                           Applied(Applied(store, tx[s].writes), r.writes), k)
            BY <1>3, OverApplied
        <3> QED
            BY <1>1, <2>2, <3>1, <3>2, SameFits
    <2>7. FitsAt(store', now')
        BY <2>1 DEF ViewsFit
    <2>8. FitsAt(View(s)', now')
        <3>1. View(s)' = Applied(store, t.writes)
            BY <2>1, <2>2, <2>3 DEF View
        <3> QED
            BY <2>6, <3>1, FitsNow
    <2>9. ASSUME NEW u \in Sessions \ {s}
          PROVE  FitsAt(View(u)', now')
        <3>1. View(u)' = View(u)
            BY <2>1, <2>3 DEF View
        <3> QED
            BY <3>1 DEF ViewsFit
    <2> QED
        BY <2>5, <2>7, <2>8, <2>9 DEF ViewsFit
<1>5. CASE tx[s].open /\ r.ec # "OK"
    <2>1. tx' = [tx EXCEPT ![s] = NoTx] /\ store' = store
        BY <1>5 DEF Transaction
    <2> QED
        BY <2>1, AbortKeeps
<1>6. CASE ~tx[s].open
    <2>1. tx' = tx /\ store' = Applied(store, r.writes) /\ View(s) = store
        BY <1>6 DEF Transaction, View
    <2>2. Fits(Applied(store, r.writes))
        BY <1>1, <2>1
    <2>3. ASSUME NEW u \in Sessions
          PROVE  FitsAt(View(u)', now')
        <3>1. tx[u].open => DOMAIN r.writes \cap tx[u].locks = {}
            BY <1>1, <1>2, <1>6
        <3>2. /\ tx[u].open => Fits(Applied(Applied(store, r.writes), tx[u].writes))
              /\ ~tx[u].open => Fits(Applied(store, r.writes))
            BY <1>1, <2>2, <3>1, CommitFits
        <3>3. View(u)' = IF tx[u].open THEN Applied(Applied(store, r.writes), tx[u].writes)
                         ELSE Applied(store, r.writes)
            BY <2>1 DEF View
        <3> QED
            BY <3>2, <3>3, FitsNow
    <2>4. FitsAt(store', now')
        BY <2>1, <2>2, FitsNow
    <2>5. TxInv'
        BY <2>1 DEF TxInv
    <2> QED
        BY <2>3, <2>4, <2>5 DEF ViewsFit
<1> QED
    BY <1>4, <1>5, <1>6

\* The commit of a transaction of the caller.
LEMMA CommitKeeps ==
    ASSUME RocksdbStoreAssumption, TxInv, ViewsFit, NEW s \in Sessions, Commit(s)
    PROVE  TxInv' /\ ViewsFit'
<1>1. /\ tx[s].open /\ store' = Applied(store, tx[s].writes) /\ now' = now
      /\ tx' = [tx EXCEPT ![s] = NoTx]
    BY DEF Commit, View
<1>2. /\ DOMAIN tx' = Sessions /\ tx'[s] = NoTx
      /\ \A u \in Sessions \ {s} : tx'[u] = tx[u]
    BY <1>1 DEF TxInv
<1>3. TxInv'
    <2>1. \A u \in Sessions :
            /\ ~tx'[u].open => tx'[u] = NoTx
            /\ DOMAIN tx'[u].writes \subseteq tx'[u].locks
            /\ WritesLocal(tx'[u].writes)
        BY <1>2, NoTxIs DEF TxInv
    <2>2. \A u, x \in Sessions : u # x => tx'[u].locks \cap tx'[x].locks = {}
        BY <1>2, NoTxIs DEF TxInv
    <2> QED
        BY <1>2, <2>1, <2>2 DEF TxInv
<1>4. Fits(Applied(store, tx[s].writes)) /\ WritesLocal(tx[s].writes)
    BY <1>1, ViewsFitNow DEF View, TxInv
<1>5. FitsAt(store', now')
    BY <1>1, <1>4, FitsNow
<1>6. ASSUME NEW u \in Sessions
      PROVE  FitsAt(View(u)', now')
    <2>1. CASE u = s
        <3>1. View(u)' = store'
            BY <1>2, <2>1, NoTxIs DEF View
        <3> QED
            BY <1>5, <3>1
    <2>2. CASE u # s
        <3>1. DOMAIN tx[s].writes \cap tx[u].locks = {}
            BY <2>2 DEF TxInv
        <3>2. /\ tx[u].open => Fits(Applied(Applied(store, tx[s].writes), tx[u].writes))
              /\ ~tx[u].open => Fits(Applied(store, tx[s].writes))
            BY <1>4, <3>1, CommitFits
        <3>3. View(u)' = IF tx[u].open THEN Applied(Applied(store, tx[s].writes), tx[u].writes)
                         ELSE Applied(store, tx[s].writes)
            BY <1>1, <1>2, <2>2 DEF View
        <3> QED
            BY <1>1, <3>2, <3>3, FitsNow
    <2> QED
        BY <2>1, <2>2
<1> QED
    BY <1>3, <1>5, <1>6 DEF ViewsFit

\* A transaction begins with what is committed.
LEMMA BeginKeeps ==
    ASSUME RocksdbStoreAssumption, TxInv, ViewsFit, NEW s \in Sessions, Begin(s)
    PROVE  TxInv' /\ ViewsFit'
<1> DEFINE t == [NoTx EXCEPT !.open = TRUE]
<1>1. ~tx[s].open /\ tx' = [tx EXCEPT ![s].open = TRUE] /\ store' = store /\ now' = now
    BY DEF Begin
<1>2. tx[s] = NoTx
    BY <1>1 DEF TxInv
<1>3. /\ DOMAIN tx' = Sessions /\ tx'[s] = t
      /\ \A u \in Sessions \ {s} : tx'[u] = tx[u]
    BY <1>1, <1>2 DEF TxInv
<1>4. t.open /\ t.writes = NoTx.writes /\ t.locks = {}
    BY DEF NoTx
<1> HIDE DEF t
<1>5. TxInv'
    <2>1. \A u \in Sessions :
            /\ ~tx'[u].open => tx'[u] = NoTx
            /\ DOMAIN tx'[u].writes \subseteq tx'[u].locks
            /\ WritesLocal(tx'[u].writes)
        BY <1>3, <1>4, NoTxIs DEF TxInv
    <2>2. \A u, x \in Sessions : u # x => tx'[u].locks \cap tx'[x].locks = {}
        BY <1>3, <1>4 DEF TxInv
    <2> QED
        BY <1>3, <2>1, <2>2 DEF TxInv
<1>6. ASSUME NEW u \in Sessions
      PROVE  FitsAt(View(u)', now')
    <2>1. CASE u = s
        <3>1. View(u)' = Applied(store, t.writes)
            BY <1>1, <1>3, <1>4, <2>1 DEF View
        <3>2. Fits(store) /\ DOMAIN t.writes = {}
            BY <1>4, NoTxIs, ViewsFitNow
        <3> QED
            BY <1>1, <3>1, <3>2, WritesNothing, FitsNow
    <2>2. CASE u # s
        <3>1. View(u)' = View(u)
            BY <1>1, <1>3, <2>2 DEF View
        <3> QED
            BY <1>1, <3>1 DEF ViewsFit
    <2> QED
        BY <2>1, <2>2
<1> QED
    BY <1>1, <1>5, <1>6 DEF ViewsFit

\* The clock: what expires, expires with its entries.
LEMMA TickKeeps ==
    ASSUME RocksdbStoreAssumption, TxInv, ViewsFit, now \in Nat, Tick
    PROVE  TxInv' /\ ViewsFit'
<1>1. now' \in {now, now + 1} /\ store' = store /\ tx' = tx
    BY DEF Tick
<1>2. ASSUME NEW v, FitsAt(v, now)
      PROVE  FitsAt(v, now')
    BY <1>1, <1>2, FitsLater
<1>3. \A s \in Sessions : View(s)' = View(s)
    BY <1>1 DEF View
<1> QED
    BY <1>1, <1>2, <1>3 DEF ViewsFit, TxInv

\* The compaction filter drops objects and entries at different times, all of them
\* expired.
LEMMA CompactKeeps ==
    ASSUME TxInv, ViewsFit, CompactObjects \/ CompactIndexes, now' = now
    PROVE  TxInv' /\ ViewsFit'
<1>1. PICK expired :
        /\ store' = [k \in DOMAIN store \ expired |-> store[k]] /\ tx' = tx
        /\ \A k \in expired : \/ k[1] = "object" /\ IsExpired(TtlMark(store[k]))
                              \/ k[1] \in Indexes /\ IsExpired(store[k].mark)
    <2>1. CASE CompactObjects
        <3> DEFINE e == {k \in DOMAIN store : k[1] = "object" /\ IsExpired(TtlMark(store[k]))}
        <3>1. store' = [k \in DOMAIN store \ e |-> store[k]] /\ tx' = tx
            BY <2>1 DEF CompactObjects, Compact
        <3>2. \A k \in e : k[1] = "object" /\ IsExpired(TtlMark(store[k]))
            OBVIOUS
        <3> HIDE DEF e
        <3> QED
            BY <3>1, <3>2
    <2>2. CASE CompactIndexes
        <3> DEFINE e == {k \in DOMAIN store : k[1] \in Indexes /\ IsExpired(store[k].mark)}
        <3>1. store' = [k \in DOMAIN store \ e |-> store[k]] /\ tx' = tx
            BY <2>2 DEF CompactIndexes, Compact
        <3>2. \A k \in e : k[1] \in Indexes /\ IsExpired(store[k].mark)
            OBVIOUS
        <3> HIDE DEF e
        <3> QED
            BY <3>1, <3>2
    <2> QED
        BY <2>1, <2>2
<1>2. /\ \A k \in DOMAIN store' : k \in DOMAIN store /\ store'[k] = store[k]
      /\ \A k \in DOMAIN store \ DOMAIN store' : k \in expired
    BY <1>1
<1>3. Fits(store) /\ \A s \in Sessions : Fits(View(s))
    BY ViewsFitNow
<1>4. \A k \in DOMAIN store : store[k] # Absent
    BY <1>3 DEF Fits, KeysTyped
<1>5. \A k \in DOMAIN store' : store'[k] # Absent
    BY <1>2, <1>4
<1>6. FitsAt(store', now')
    <2>1. PICK v : v = store'
        OBVIOUS
    <2>2. Fits(v)
        BY <1>1, <1>2, <1>3, <2>1, RemoveKeeps
    <2> QED
        BY <2>1, <2>2, FitsNow
<1>7. ASSUME NEW s \in Sessions
      PROVE  FitsAt(View(s)', now')
    <2>1. CASE ~tx[s].open
        BY <1>1, <1>6, <2>1 DEF View
    <2>2. CASE tx[s].open
        <3> DEFINE w == tx[s].writes
        <3>1. PICK v, old : v = Applied(store', w) /\ old = Applied(store, w)
            OBVIOUS
        <3>2. View(s)' = v /\ View(s) = old
            BY <1>1, <2>2, <3>1 DEF View
        <3>3. /\ \A k \in DOMAIN w : k \in DOMAIN v <=> w[k] # Absent
              /\ \A k \in DOMAIN w : w[k] # Absent => v[k] = w[k]
              /\ \A k : k \notin DOMAIN w => Agree(v, store', k)
            BY <1>5, <3>1, AppliedIs
        <3>4. /\ \A k \in DOMAIN w : k \in DOMAIN old <=> w[k] # Absent
              /\ \A k \in DOMAIN w : w[k] # Absent => old[k] = w[k]
              /\ \A k : k \notin DOMAIN w => Agree(old, store, k)
            BY <1>4, <3>1, AppliedIs
        <3> HIDE DEF w
        <3>5. \A k \in DOMAIN v : k \in DOMAIN old /\ v[k] = old[k]
            BY <1>2, <3>3, <3>4 DEF Agree
        <3>6. \A k \in DOMAIN old \ DOMAIN v : k \in expired /\ old[k] = store[k]
            BY <1>2, <3>3, <3>4 DEF Agree
        <3>7. \A k \in DOMAIN old \ DOMAIN v :
                  \/ k[1] = "object" /\ IsExpired(TtlMark(old[k]))
                  \/ k[1] \in Indexes /\ IsExpired(old[k].mark)
            BY <1>1, <3>6
        <3>8. Fits(old)
            BY <1>3, <3>2
        <3>9. Fits(v)
            BY <3>5, <3>7, <3>8, RemoveKeeps
        <3> QED
            BY <3>2, <3>9, FitsNow
    <2> QED
        BY <2>1, <2>2
<1>8. TxInv'
    BY <1>1 DEF TxInv
<1> QED
    BY <1>6, <1>7, <1>8 DEF ViewsFit

\* Nobody has a transaction with writes then.
LEMMA DeleteTopicKeeps ==
    ASSUME TxInv, ViewsFit, KeysRegular, DeleteTopic, now' = now
    PROVE  TxInv' /\ ViewsFit'
<1>1. /\ store' = [k \in {j \in DOMAIN store : j[1] = "ttl"} |-> store[k]] /\ tx' = tx
      /\ \A s \in Sessions : tx[s].locks = {}
    BY DEF DeleteTopic, KeysRegular, Irregular
<1>2. \A s \in Sessions : DOMAIN tx[s].writes = {}
    BY <1>1 DEF TxInv
<1>3. PICK v : v = store'
    OBVIOUS
<1>4. \A k \in DOMAIN v : k[1] = "ttl" /\ v[k] # Absent
    BY <1>1, <1>3 DEF ViewsFit, FitsAt, KeysTyped
<1>5. Fits(v)
    <2>1. \A id : ObjectKey(id)[1] = "object" /\ "ttl" \notin Indexes /\ "ttl" # "object"
        BY KeyForms
    <2>2. \A id : ~Found(v, id)
        BY <1>4, <2>1 DEF Found
    <2> QED
        BY <1>4, <2>1, <2>2 DEF Fits, KeysTyped, ObjectsListed, EntriesFit, IsEntry
<1>6. ASSUME NEW s \in Sessions
      PROVE  FitsAt(View(s)', now')
    <2>1. PICK w : w = tx[s].writes
        OBVIOUS
    <2>2. View(s)' = v \/ View(s)' = Applied(v, w)
        BY <1>1, <1>3, <2>1 DEF View
    <2>3. Fits(Applied(v, w))
        BY <1>2, <1>5, <2>1, WritesNothing
    <2> QED
        BY <1>5, <2>2, <2>3, FitsNow
<1>7. TxInv'
    BY <1>1 DEF TxInv
<1>8. FitsAt(store', now')
    BY <1>3, <1>5, FitsNow
<1> QED
    BY <1>6, <1>7, <1>8 DEF ViewsFit

\* What a session is working through; it updates nothing but the tags.
IsMany(m) ==
    \E o, d, q : /\ m = [op |-> o, ids |-> d, request |-> q]
                 /\ o \in {"update", "upsert"} => q \in [{"tag"} -> Tags]

ManyInv == DOMAIN many = Sessions /\ \A s \in Sessions : IsMany(many[s])

\* No field but the tag.
LEMMA ManyForms ==
    ASSUME NEW o, NEW d, NEW q, o \in {"update", "upsert"} => q \in [{"tag"} -> Tags]
    PROVE  IsMany([op |-> o, ids |-> d, request |-> q])
BY Zenon DEF IsMany

\* What is known of the request a call works with.
LEMMA ManyChanges ==
    ASSUME NEW m, IsMany(m), NEW id
    PROVE  /\ IsMany(Rest(m, id)) /\ IsMany([m EXCEPT !.op = "create"]) /\ IsMany(Idle)
           /\ m.op \in {"update", "upsert"} => m.request \in Requests
<1>1. PICK o, e, q : /\ m = [op |-> o, ids |-> e, request |-> q]
                     /\ o \in {"update", "upsert"} => q \in [{"tag"} -> Tags]
    BY DEF IsMany
<1> DEFINE d == e \ {id}
<1>2. /\ [m EXCEPT !.ids = m.ids \ {id}] = [op |-> o, ids |-> d, request |-> q]
      /\ [m EXCEPT !.op = "create"] = [op |-> "create", ids |-> e, request |-> q]
      /\ m.op = o /\ m.request = q
    BY <1>1
<1>3. IsMany([op |-> o, ids |-> d, request |-> q])
    BY <1>1, ManyForms
<1>4. IsMany([op |-> "create", ids |-> e, request |-> q])
    <2>1. "create" \notin {"update", "upsert"}
        OBVIOUS
    <2> QED
        BY <2>1, ManyForms
<1>5. IsMany(Idle)
    <2>1. "none" \notin {"update", "upsert"}
        OBVIOUS
    <2> QED
        BY <2>1, ManyForms DEF Idle
<1>6. m.op \in {"update", "upsert"} => m.request \in Requests
    BY <1>1, <1>2, Zenon DEF Requests
<1> QED
    BY <1>2, <1>3, <1>4, <1>5, <1>6 DEF Rest

\* A session's call changes.
LEMMA ManySet ==
    ASSUME ManyInv, NEW s \in Sessions, NEW m, IsMany(m), many' = [many EXCEPT ![s] = m]
    PROVE  ManyInv'
<1>1. DOMAIN many' = Sessions /\ \A u \in Sessions : many'[u] = IF u = s THEN m ELSE many[u]
    BY DEF ManyInv
<1>2. \A u \in Sessions : IsMany(many'[u])
    BY <1>1 DEF ManyInv
<1> QED
    BY <1>1, <1>2 DEF ManyInv

\* No step lets a call through many objects update anything else.
LEMMA ManyKeeps ==
    ASSUME ManyInv, NextDb
    PROVE  ManyInv'
<1>1. ASSUME UNCHANGED many
      PROVE  ManyInv'
    BY <1>1 DEF ManyInv
<1>2. ASSUME NEW s \in Sessions, NEW op, NEW tag, NEW request, StartMany(s, op, tag, request),
             op \in {"update", "upsert"} => request \in [{"tag"} -> Tags]
      PROVE  ManyInv'
    <2>1. PICK o, d : /\ many' = [many EXCEPT ![s] = [op |-> o, ids |-> d, request |-> request]]
                      /\ o \in {op, "create"}
        BY <1>2 DEF StartMany
    <2>2. o \in {"update", "upsert"} => request \in [{"tag"} -> Tags]
        BY <1>2, <2>1
    <2> QED
        BY <2>1, <2>2, ManyForms, ManySet
<1>3. ASSUME NEW s \in Sessions, NEW id, DeleteNext(s, id)
      PROVE  ManyInv'
    <2>1. many' = [many EXCEPT ![s] = Rest(many[s], id)]
        BY <1>3 DEF DeleteNext
    <2>2. IsMany(Rest(many[s], id))
        BY ManyChanges DEF ManyInv
    <2> QED
        BY <2>1, <2>2, ManySet
<1>4. ASSUME NEW s \in Sessions, NEW id, UpdateNext(s, id)
      PROVE  ManyInv'
    <2> DEFINE rest == Rest(many[s], id)
               create == [many[s] EXCEPT !.op = "create"]
    <2>1. PICK m \in {Idle, rest, create} : many' = [many EXCEPT ![s] = m]
        BY <1>4 DEF UpdateNext
    <2>2. IsMany(Idle) /\ IsMany(rest) /\ IsMany(create)
        BY ManyChanges DEF ManyInv
    <2> HIDE DEF rest, create
    <2> QED
        BY <2>1, <2>2, ManySet
<1>5. ASSUME NEW s \in Sessions, many' = [many EXCEPT ![s] = Idle]
      PROVE  ManyInv'
    BY <1>5, ManyChanges, ManySet DEF ManyInv
<1> QED
    BY <1>1, <1>2, <1>3, <1>4, <1>5 DEF NextDb, Begin, Commit, Rollback, Create, CreateNotFound,
       Update, Delete, Tick, CompactObjects, CompactIndexes, Compact, CompactTopics, FlushTopics,
       DeleteTopic

KeyInv == now \in Nat /\ TxInv /\ ViewsFit /\ ManyInv

\* The invariant holds in an empty database.
LEMMA KeyInvInit ==
    ASSUME RocksdbStoreAssumption, InitDb
    PROVE  KeyInv
<1>1. /\ store = <<>> /\ tx = [s \in Sessions |-> NoTx]
      /\ many = [s \in Sessions |-> Idle] /\ now = 1
    BY DEF InitDb
<1>2. TxInv
    BY <1>1, NoTxIs DEF TxInv
<1>3. Fits(<<>>)
    <2>1. DOMAIN <<>> = {}
        OBVIOUS
    <2> QED
        BY <2>1 DEF Fits, KeysTyped, ObjectsListed, EntriesFit, Found
<1>4. \A s \in Sessions : View(s) = store
    BY <1>1, NoTxIs DEF View
<1>5. ViewsFit
    BY <1>1, <1>3, <1>4, ViewsFitNow
<1>6. IsMany(Idle)
    <2>1. "none" \notin {"update", "upsert"}
        OBVIOUS
    <2> QED
        BY <2>1, ManyForms DEF Idle
<1>7. ManyInv
    BY <1>1, <1>6 DEF ManyInv
<1> QED
    BY <1>1, <1>2, <1>5, <1>7 DEF KeyInv

\* Every call is a transaction that writes what fits, and counts.
LEMMA CallIsTransaction ==
    ASSUME RocksdbStoreAssumption, KeysRegular, KeyInv, NEW s \in Sessions, NEW id \in Ids,
           \/ \E obj \in Objects : Create(s, id, obj) \/ CreateNotFound(s, id, obj)
           \/ \E request \in Requests : Update(s, id, request)
           \/ Delete(s, id) \/ DeleteNext(s, id) \/ UpdateNext(s, id)
    PROVE  \E r : /\ Sound(View(s), r, id) /\ Counts(View(s), r, id)
                  /\ Transaction(s, r) /\ now' = now
<1>1. Fits(View(s))
    BY ViewsFitNow DEF KeyInv
<1>2. ASSUME NEW obj \in Objects, Create(s, id, obj) \/ CreateNotFound(s, id, obj)
      PROVE  \E r : /\ Sound(View(s), r, id) /\ Counts(View(s), r, id)
                    /\ Transaction(s, r) /\ now' = now
    <2>1. Transaction(s, CreateObject(View(s), id, obj)) /\ now' = now
        BY <1>2 DEF Create, CreateNotFound
    <2> QED
        BY <1>1, <2>1, CreateSound, CreateCounts
<1>3. ASSUME NEW request \in Requests, NEW res \in UpdateResults(s, id, request),
             Transaction(s, res), ~UpdateIsIrregular(View(s), id, request), now' = now
      PROVE  \E r : /\ Sound(View(s), r, id) /\ Counts(View(s), r, id)
                    /\ Transaction(s, r) /\ now' = now
    BY <1>1, <1>3, UpdateResultsSound
<1>4. ASSUME Delete(s, id) \/ DeleteNext(s, id)
      PROVE  \E r : /\ Sound(View(s), r, id) /\ Counts(View(s), r, id)
                    /\ Transaction(s, r) /\ now' = now
    <2>1. /\ Transaction(s, DoDelete(View(s), id)) /\ now' = now
          /\ ~DeleteIsIrregular(View(s), id)
        BY <1>4 DEF Delete, DeleteNext
    <2> QED
        BY <1>1, <2>1, DeleteSound, DeleteCounts
<1>5. ASSUME UpdateNext(s, id)
      PROVE  \E r : /\ Sound(View(s), r, id) /\ Counts(View(s), r, id)
                    /\ Transaction(s, r) /\ now' = now
    <2>1. many[s].request \in Requests
        BY <1>5, ManyChanges DEF UpdateNext, KeyInv, ManyInv
    <2>2. /\ \E r \in UpdateResults(s, id, many[s].request) : Transaction(s, r)
          /\ now' = now /\ ~UpdateIsIrregular(View(s), id, many[s].request)
        BY <1>5 DEF UpdateNext
    <2> QED
        BY <1>3, <2>1, <2>2
<1> QED
    BY <1>2, <1>3, <1>4, <1>5 DEF Update

\* Every step keeps the invariant.
LEMMA KeyInvStep ==
    ASSUME RocksdbStoreAssumption, KeysRegular, KeyInv, [NextDb]_dbVars
    PROVE  KeyInv'
<1>1. now \in Nat /\ TxInv /\ ViewsFit /\ ManyInv
    BY DEF KeyInv
<1>2. now' \in Nat /\ ManyInv'
    <2>1. CASE UNCHANGED dbVars
        BY <1>1, <2>1 DEF dbVars, ManyInv
    <2>2. CASE NextDb
        <3>1. CASE Tick
            BY <1>1, <2>2, <3>1, ManyKeeps DEF Tick
        <3>2. CASE ~Tick
            <4>1. \A s \in Sessions, id \in Ids :
                    /\ \A obj \in Objects : Create(s, id, obj) \/ CreateNotFound(s, id, obj) =>
                                             UNCHANGED now
                    /\ \A request \in Requests : Update(s, id, request) => UNCHANGED now
                    /\ Delete(s, id) \/ DeleteNext(s, id) \/ UpdateNext(s, id) => UNCHANGED now
                BY DEF Create, CreateNotFound, Update, Delete, DeleteNext, UpdateNext
            <4>2. \A s \in Sessions : \A op, tag, request :
                      StartMany(s, op, tag, request) => UNCHANGED now
                BY DEF StartMany
            <4>3. \A s \in Sessions : Begin(s) \/ Commit(s) \/ Rollback(s) => UNCHANGED now
                BY DEF Begin, Commit, Rollback
            <4>4. CompactObjects \/ CompactIndexes \/ CompactTopics \/ FlushTopics
                  \/ DeleteTopic => UNCHANGED now
                BY DEF CompactObjects, CompactIndexes, Compact, CompactTopics, FlushTopics,
                   DeleteTopic
            <4>5. UNCHANGED now
                BY <2>2, <3>2, <4>1, <4>2, <4>3, <4>4, Zenon DEF NextDb
            <4> QED
                BY <1>1, <2>2, <4>5, ManyKeeps
        <3> QED
            BY <3>1, <3>2
    <2> QED
        BY <2>1, <2>2
<1>3. ASSUME UNCHANGED <<store, tx, now>>
      PROVE  TxInv' /\ ViewsFit'
    <2>1. store' = store /\ tx' = tx /\ now' = now
        BY <1>3
    <2>2. \A s \in Sessions : View(s)' = View(s)
        BY <2>1 DEF View
    <2> QED
        BY <1>1, <2>1, <2>2 DEF TxInv, ViewsFit
<1>4. ASSUME UNCHANGED dbVars \/ CompactTopics \/ FlushTopics
      PROVE  TxInv' /\ ViewsFit'
    BY <1>3, <1>4 DEF dbVars, CompactTopics, FlushTopics
<1>5. ASSUME NEW s \in Sessions, NEW op, NEW tag, NEW request, StartMany(s, op, tag, request)
      PROVE  TxInv' /\ ViewsFit'
    BY <1>3, <1>5 DEF StartMany
<1>6. ASSUME NEW s \in Sessions, Begin(s)
      PROVE  TxInv' /\ ViewsFit'
    BY <1>1, <1>6, BeginKeeps
<1>7. ASSUME NEW s \in Sessions, Commit(s)
      PROVE  TxInv' /\ ViewsFit'
    BY <1>1, <1>7, CommitKeeps
<1>8. ASSUME NEW s \in Sessions, Rollback(s)
      PROVE  TxInv' /\ ViewsFit'
    BY <1>1, <1>8, AbortKeeps DEF Rollback
<1>9. ASSUME Tick
      PROVE  TxInv' /\ ViewsFit'
    BY <1>1, <1>9, TickKeeps
<1>10. ASSUME CompactObjects \/ CompactIndexes
       PROVE  TxInv' /\ ViewsFit'
    <2>1. now' = now
        BY <1>10 DEF CompactObjects, CompactIndexes, Compact
    <2> QED
        BY <1>1, <1>10, <2>1, CompactKeeps
<1>11. ASSUME DeleteTopic
       PROVE  TxInv' /\ ViewsFit'
    <2>1. now' = now
        BY <1>11 DEF DeleteTopic
    <2> QED
        BY <1>1, <1>11, <2>1, DeleteTopicKeeps
<1>12. ASSUME NEW s \in Sessions, NEW id \in Ids,
              \E r : /\ Sound(View(s), r, id) /\ Counts(View(s), r, id)
                     /\ Transaction(s, r) /\ now' = now
       PROVE  TxInv' /\ ViewsFit'
    BY <1>1, <1>12, TransactionKeeps
<1>13. TxInv' /\ ViewsFit'
    BY <1>4, <1>5, <1>6, <1>7, <1>8, <1>9, <1>10, <1>11, <1>12, CallIsTransaction DEF NextDb
<1> QED
    BY <1>2, <1>13 DEF KeyInv

\* The invariant of the keys.
LEMMA KeyInvariant ==
    KeysRegular => (DbSpec => []KeyInv)
<1> SUFFICES ASSUME KeysRegular
             PROVE  DbSpec => []KeyInv
    OBVIOUS
<1>1. InitDb => KeyInv
    BY RocksdbStoreAssumption, KeyInvInit
<1>2. KeyInv /\ [NextDb]_dbVars => KeyInv'
    BY RocksdbStoreAssumption, KeyInvStep
<1> QED
    BY <1>1, <1>2, PTL DEF DbSpec

----------------------------------------------------------------------------

(***************************************************************************)
(* What the invariant says of queries and of creations                      *)
(***************************************************************************)

\* In a view that fits a query finds each object once.
LEMMA FitsFinds ==
    ASSUME RocksdbStoreAssumption, NEW v, Fits(v), NEW id \in Ids, Found(v, id), NEW i \in Indexes
    PROVE  LET hits == {k \in DOMAIN v : /\ k[1] = i /\ v[k].id = id /\ k \in Find(v, i, k[2])}
           IN  /\ Cardinality(hits) = 1
               /\ \A k \in hits : k[2] = FieldValue(i, id, v[ObjectKey(id)])
<1> DEFINE obj == ObjectAt(v, id)
           key == ListedAt(i, id, obj)
           hits == {k \in DOMAIN v : /\ k[1] = i /\ v[k].id = id /\ k \in Find(v, i, k[2])}
<1>1. key \in DOMAIN v /\ v[key] = [id |-> id, mark |-> TtlMark(obj)]
    BY DEF Fits, ObjectsListed
<1>2. key[1] = i /\ key[2] = FieldValue(i, id, obj)
    BY ListedIndex
<1>3. ~IsExpired(TtlMark(obj))
    BY DEF Found, ObjectAt
<1> HIDE DEF key
<1>4. \A k \in DOMAIN v : k[1] = i /\ v[k].id = id /\ k \in Find(v, i, k[2]) <=> k = key
    <2>1. ASSUME NEW k \in DOMAIN v, k[1] = i, v[k].id = id, k \in Find(v, i, k[2])
          PROVE  k = key
        <3>1. IsEntry(v, k)
            BY <2>1 DEF Find, IndexEntries, IsEntry
        <3> QED
            BY <2>1, <3>1 DEF Fits, EntriesFit, EntryFits, key
    <2>2. key[1] = i /\ v[key].id = id /\ key \in Find(v, i, key[2])
        BY <1>1, <1>2, <1>3 DEF Find, IndexEntries
    <2> QED
        BY <2>1, <2>2
<1>5. hits = {key}
    BY <1>1, <1>4
<1> HIDE DEF hits
<1>6. Cardinality(hits) = 1
    BY <1>5, FS_Singleton
<1>7. \A k \in hits : k[2] = FieldValue(i, id, v[ObjectKey(id)])
    BY <1>2, <1>5 DEF ObjectAt
<1> QED
    BY <1>6, <1>7 DEF hits

\* In a view that fits a creation is refused only for what is there.
LEMMA FitsRefuses ==
    ASSUME RocksdbStoreAssumption, NEW v, Fits(v), NEW id \in Ids, NEW obj \in Objects
    PROVE  CreateObject(v, id, obj).ec = "DUPLICATE_UNIQUE_KEY"
           <=> \E other \in Ids : /\ Found(v, other)
                                  /\ \/ other = id
                                     \/ obj.name # Null /\ v[ObjectKey(other)].name = obj.name
<1> DEFINE taken == \E i \in Indexes : SaveUniqueKeyFails(v, ListedAt(i, id, obj))
<1>1. CreateObject(v, id, obj).ec = "DUPLICATE_UNIQUE_KEY" <=> taken
    <2>1. /\ taken => CreateObject(v, id, obj).ec = "DUPLICATE_UNIQUE_KEY"
          /\ ~taken => CreateObject(v, id, obj).ec = "OK"
        BY CreateIs, Zenon
    <2>2. "OK" # "DUPLICATE_UNIQUE_KEY"
        OBVIOUS
    <2> QED
        BY <2>1, <2>2, Zenon
<1>2. ASSUME NEW other \in Ids, Found(v, other), NEW i \in {"oid", "name"},
             ListedAt(i, id, obj) = ListedAt(i, other, ObjectAt(v, other)),
             ListedAt(i, id, obj)[3] = NoId
      PROVE  taken
    <2> DEFINE k == ListedAt(i, other, ObjectAt(v, other))
    <2>1. i \in Indexes
        BY DEF Indexes
    <2>2. k \in DOMAIN v /\ v[k] = [id |-> other, mark |-> TtlMark(ObjectAt(v, other))]
        BY <1>2, <2>1 DEF Fits, ObjectsListed
    <2>3. ~IsExpired(v[k].mark)
        BY <1>2, <2>2 DEF Found, ObjectAt
    <2>4. SaveUniqueKeyFails(v, ListedAt(i, id, obj))
        BY <1>2, <2>2, <2>3 DEF SaveUniqueKeyFails
    <2> QED
        BY <2>1, <2>4
<1>3. ListedAt("oid", id, obj) = <<"oid", id, NoId>>
    BY ListedForms
<1>4. ASSUME Found(v, id)
      PROVE  taken
    <2>1. ListedAt("oid", id, ObjectAt(v, id)) = <<"oid", id, NoId>>
        BY ListedForms
    <2>2. <<"oid", id, NoId>>[3] = NoId
        OBVIOUS
    <2> QED
        BY <1>2, <1>3, <1>4, <2>1, <2>2
<1>5. ASSUME NEW other \in Ids, Found(v, other), obj.name # Null,
             v[ObjectKey(other)].name = obj.name
      PROVE  taken
    <2>1. ListedAt("name", id, obj) = <<"name", obj.name, NoId>>
        BY <1>5, ListedForms
    <2>2. ListedAt("name", other, ObjectAt(v, other)) = <<"name", obj.name, NoId>>
        BY <1>5, ListedForms DEF ObjectAt
    <2>3. <<"name", obj.name, NoId>>[3] = NoId
        OBVIOUS
    <2> QED
        BY <1>2, <1>5, <2>1, <2>2, <2>3
<1>6. ASSUME taken
      PROVE  \E other \in Ids : /\ Found(v, other)
                                /\ \/ other = id
                                   \/ obj.name # Null /\ v[ObjectKey(other)].name = obj.name
    <2>1. PICK i \in Indexes : SaveUniqueKeyFails(v, ListedAt(i, id, obj))
        BY <1>6
    <2> DEFINE k == ListedAt(i, id, obj)
    <2>2. k[1] = i /\ k \in DOMAIN v /\ k[3] = NoId /\ ~IsExpired(v[k].mark)
        BY <2>1, ListedIndex DEF SaveUniqueKeyFails
    <2>3. PICK d : d = v[k].id
        OBVIOUS
    <2>4. v[k] \in [id : Ids, mark : Nat]
        BY <2>2 DEF Fits, KeysTyped
    <2>5. d \in Ids
        BY <2>3, <2>4
    <2> HIDE DEF k
    <2>6. Found(v, d) /\ k = ListedAt(i, d, ObjectAt(v, d))
        BY <2>2, <2>3 DEF Fits, EntriesFit, EntryFits, IsEntry
    <2>7. id # NoId /\ d # NoId
        BY <2>5 DEF RocksdbStoreAssumption
    <2>8. i \notin {"tag", "due"}
        BY <2>2, <2>7, ListedFull DEF k
    <2>9. CASE i = "oid"
        <3>1. ListedAt("oid", d, ObjectAt(v, d)) = <<"oid", d, NoId>>
            BY <2>5, ListedForms
        <3>2. d = id
            BY <1>3, <2>6, <2>9, <3>1 DEF k
        <3> QED
            BY <2>6, <3>2
    <2>10. CASE i = "name"
        <3>1. obj.name # Null
            <4>1. obj.name = Null => k = <<"name", Null, id>>
                BY <2>10, ListedForms, Zenon DEF k
            <4> QED
                BY <2>2, <2>7, <4>1
        <3>2. k = <<"name", obj.name, NoId>>
            BY <2>10, <3>1, ListedForms, Zenon DEF k
        <3>3. ObjectAt(v, d).name # Null
            <4>1. ObjectAt(v, d).name = Null => k = <<"name", Null, d>>
                BY <2>5, <2>6, <2>10, ListedForms, Zenon
            <4> QED
                BY <2>2, <2>7, <4>1
        <3>4. k = <<"name", ObjectAt(v, d).name, NoId>>
            BY <2>5, <2>6, <2>10, <3>3, ListedForms, Zenon
        <3>5. v[ObjectKey(d)].name = obj.name
            BY <3>2, <3>4 DEF ObjectAt
        <3> QED
            BY <2>5, <2>6, <3>1, <3>5
    <2> QED
        BY <2>8, <2>9, <2>10 DEF Indexes
<1> QED
    BY <1>1, <1>4, <1>5, <1>6, Zenon

\* Whatever is committed or about to be fits.
LEMMA ViewsFound ==
    ASSUME KeyInv, NEW v \in Views
    PROVE  Fits(v)
BY ViewsFitNow DEF KeyInv, Views

\* rocksdbupdate.ipp, rocksdbdelete.ipp, indexes.cpp: without the calls of KeysRegular a
\* query through any index finds every object that has not expired once, in what is
\* committed and in what any session is about to commit, although creations, updates,
\* deletions and compactions write and drop an object and its entries piecemeal, and
\* transactions of several sessions overlap.
THEOREM QueriesAreExact == KeysRegular => (DbSpec => []FindIsExact)
<1>1. KeyInv => FindIsExact
    BY ViewsFound, FitsFinds, RocksdbStoreAssumption DEF FindIsExact
<1> QED
    BY <1>1, KeyInvariant, PTL

\* saveuniquekey.cpp: without the calls of KeysRegular a creation is refused as a duplicate
\* exactly if an object that has not expired has its ID or its name.
THEOREM DuplicatesAreTaken == KeysRegular => (DbSpec => []DuplicateIfTaken)
<1>1. KeyInv => DuplicateIfTaken
    BY ViewsFound, FitsRefuses, RocksdbStoreAssumption DEF DuplicateIfTaken
<1> QED
    BY <1>1, KeyInvariant, PTL

(***************************************************************************)
(* The count of a topic: one operand is merged                               *)
(***************************************************************************)

\* One operand is merged once.
LEMMA FoldOne == ASSUME NEW c, NEW x PROVE FullMergeV2(c, <<x>>) = MergeRelOp(c, x)
<1> DEFINE Step(iter) == [s \in SUBSET (DOMAIN <<x>>) |->
        IF s = {} THEN c ELSE MergeRelOp(iter[s \ {Max(s)}], <<x>>[Max(s)])]
           fold == CHOOSE iter : iter = Step(iter)
<1>1. FullMergeV2(c, <<x>>) = fold[DOMAIN <<x>>]
    BY DEF FullMergeV2, FoldLeft, MapThenFoldSet
<1>2. DOMAIN <<x>> = {1} /\ SUBSET {1} = {{}, {1}} /\ <<x>>[1] = x
    <2>1. SUBSET {1} = {{}, {1}}
        BY Zenon
    <2> QED
        BY <2>1
<1>3. Max({1}) = 1 /\ {1} \ {1} = {} /\ {1} # {}
    BY DEF Max
<1> DEFINE g == [s \in {{}, {1}} |-> IF s = {} THEN c ELSE MergeRelOp(c, x)]
<1>4. g = Step(g)
    <2>1. ASSUME NEW s \in {{}, {1}}
          PROVE  g[s] = IF s = {} THEN c ELSE MergeRelOp(g[s \ {Max(s)}], <<x>>[Max(s)])
        BY <1>2, <1>3
    <2> QED
        BY <1>2, <2>1
<1>5. fold = Step(fold)
    BY <1>4
<1> HIDE DEF fold
<1>6. fold[{}] = c
    BY <1>2, <1>5
<1>7. fold[{1}] = MergeRelOp(fold[{}], x)
    BY <1>2, <1>3, <1>5
<1> QED
    BY <1>1, <1>2, <1>6, <1>7

(***************************************************************************)
(* The count of a topic                                                     *)
(***************************************************************************)

Holds(s, id) == ObjectKey(id) \in DOMAIN tx[s].writes

\* The topic holds the object, or is about to: a transaction has written it,
\* or it is committed and no transaction has deleted it.
Here(id) ==
    \/ \E s \in Sessions : Holds(s, id) /\ tx[s].writes[ObjectKey(id)] # Absent
    \/ ObjectKey(id) \in DOMAIN store /\ \A s \in Sessions : ~Holds(s, id)

Present == {id \in Ids : Here(id)}

CountInv == relation.count \in Nat /\ Cardinality(Present) <= relation.count

Committed == \A k \in DOMAIN store : store[k] # Absent

\* There are finitely many objects.
LEMMA PresentIsFinite ==
    ASSUME RocksdbStoreAssumption
    PROVE  IsFiniteSet(Present) /\ Cardinality(Present) \in Nat
BY FS_Subset, FS_CardinalityType DEF Present, RocksdbStoreAssumption

\* Nothing is written that is not counted.
LEMMA NothingNew ==
    ASSUME RocksdbStoreAssumption, CountInv, relation' = relation,
           \A id \in Ids : Here(id)' => Here(id)
    PROVE  CountInv'
<1>1. Present' \subseteq Present
    BY DEF Present
<1>2. PICK new : new = Present'
    OBVIOUS
<1>3. Cardinality(new) <= Cardinality(Present) /\ Cardinality(new) \in Nat
    BY <1>1, <1>2, PresentIsFinite, FS_Subset, FS_CardinalityType
<1>4. Cardinality(Present)' = Cardinality(new)
    BY <1>2
<1> QED
    BY <1>3, <1>4, PresentIsFinite DEF CountInv

\* A transaction that ends without being committed had deleted nothing.
LEMMA AbortCounts ==
    ASSUME NEW s \in Sessions, TxInv, Deletes(s) = {}, store' = store,
           tx' = [tx EXCEPT ![s] = NoTx], NEW id \in Ids, Here(id)'
    PROVE  Here(id)
<1>1. tx'[s] = NoTx /\ \A u \in Sessions \ {s} : tx'[u] = tx[u]
    BY DEF TxInv
<1>2. ~Holds(s, id)'
    BY <1>1, NoTxIs DEF Holds
<1>3. \A u \in Sessions \ {s} : Holds(u, id)' <=> Holds(u, id)
    BY <1>1 DEF Holds
<1>4. CASE \E u \in Sessions : Holds(u, id)' /\ tx'[u].writes[ObjectKey(id)] # Absent
    BY <1>1, <1>2, <1>3, <1>4 DEF Here
<1>5. CASE ObjectKey(id) \in DOMAIN store' /\ \A u \in Sessions : ~Holds(u, id)'
    <2>1. ObjectKey(id) \in DOMAIN store /\ \A u \in Sessions \ {s} : ~Holds(u, id)
        BY <1>3, <1>5
    <2>2. Holds(s, id) => tx[s].writes[ObjectKey(id)] # Absent
        BY <2>1, KeyForms DEF Deletes, Holds
    <2> QED
        BY <2>1, <2>2 DEF Here
<1> QED
    BY <1>4, <1>5 DEF Here

\* What a call sees, and locks, the topic holds.
LEMMA SeenIsHere ==
    ASSUME TxInv, Committed, NEW s \in Sessions, NEW id \in Ids, NEW locks,
           ~Locked(s, locks), ObjectKey(id) \in locks, ObjectKey(id) \in DOMAIN View(s)
    PROVE  Here(id)
<1>1. \A u \in Sessions \ {s} : ~Holds(u, id)
    BY DEF TxInv, Locked, Holds
<1>2. CASE tx[s].open
    <2>1. /\ Holds(s, id) => tx[s].writes[ObjectKey(id)] # Absent
          /\ ~Holds(s, id) => ObjectKey(id) \in DOMAIN store
        BY <1>2, AppliedIs DEF View, Committed, Holds, Agree
    <2> QED
        BY <1>1, <2>1 DEF Here
<1>3. CASE ~tx[s].open
    <2>1. ~Holds(s, id) /\ ObjectKey(id) \in DOMAIN store
        BY <1>3, NoTxIs DEF View, TxInv, Holds
    <2> QED
        BY <1>1, <2>1 DEF Here
<1> QED
    BY <1>2, <1>3

\* What is there after a call was there before, or the call has written it.
LEMMA TransactionHolds ==
    ASSUME TxInv, Committed, "rollbackDelete" \in Avoided, NEW s \in Sessions, NEW r,
           Transaction(s, r), r.ec = "OK" \/ DOMAIN r.writes = {},
           DOMAIN r.writes \subseteq r.locks,
           NEW id \in Ids, Here(id)'
    PROVE  /\ ObjectKey(id) \notin DOMAIN r.writes => Here(id)
           /\ ObjectKey(id) \in DOMAIN r.writes => r.writes[ObjectKey(id)] # Absent
<1> DEFINE key == ObjectKey(id)
<1>1. key \in DOMAIN r.writes => \A u \in Sessions \ {s} : ~Holds(u, id)
    BY DEF TxInv, Transaction, Locked, Holds
<1>2. CASE tx[s].open /\ r.ec = "OK"
    <2>1. /\ tx'[s].writes = Over(r.writes, tx[s].writes) /\ store' = store
          /\ \A u \in Sessions \ {s} : tx'[u] = tx[u]
        BY <1>2 DEF Transaction, TxInv
    <2>2. /\ Holds(s, id)' <=> key \in DOMAIN r.writes \/ Holds(s, id)
          /\ \A u \in Sessions \ {s} : Holds(u, id)' <=> Holds(u, id)
        BY <2>1 DEF Holds, Over
    <2>3. CASE key \in DOMAIN r.writes
        <3>1. tx'[s].writes[key] = r.writes[key]
            BY <2>1, <2>3 DEF Over
        <3> QED
            BY <1>1, <2>2, <2>3, <3>1 DEF Here
    <2>4. CASE key \notin DOMAIN r.writes
        <3>1. Holds(s, id) => tx'[s].writes[key] = tx[s].writes[key]
            BY <2>1, <2>4 DEF Over, Holds
        <3> QED
            BY <2>1, <2>2, <2>4, <3>1 DEF Here
    <2> QED
        BY <2>3, <2>4
<1>3. CASE tx[s].open /\ r.ec # "OK"
    <2>1. tx' = [tx EXCEPT ![s] = NoTx] /\ store' = store /\ Deletes(s) = {}
        BY <1>3 DEF Transaction, Irregular
    <2> QED
        BY <1>3, <2>1, AbortCounts
<1>4. CASE ~tx[s].open
    <2>1. tx' = tx /\ store' = Applied(store, r.writes)
        BY <1>4 DEF Transaction
    <2>2. ~Holds(s, id)
        BY <1>4, NoTxIs DEF TxInv, Holds
    <2>3. \A u \in Sessions : Holds(u, id)' <=> Holds(u, id)
        BY <2>1 DEF Holds
    <2>4. /\ key \in DOMAIN r.writes => (key \in DOMAIN store' <=> r.writes[key] # Absent)
          /\ key \notin DOMAIN r.writes => (key \in DOMAIN store' <=> key \in DOMAIN store)
        BY <2>1, AppliedIs DEF Committed, Agree
    <2> QED
        BY <1>1, <2>1, <2>2, <2>3, <2>4 DEF Here
<1> QED
    BY <1>2, <1>3, <1>4

\* How the count changes when one operand, or none, is merged.
LEMMA MergesOne ==
    ASSUME relation.count \in Nat, NEW ops, relation' = TopicUpdate(relation, ops)
    PROVE  /\ ops = <<>> => relation'.count = relation.count
           /\ ops = <<AddOp>> => relation'.count = relation.count + 1
           /\ ops = <<DelOp>> =>
                 relation'.count = IF relation.count > 0 THEN relation.count - 1 ELSE 0
<1>1. ops # <<>> => relation'.count = FullMergeV2(relation.count, ops)
    BY DEF TopicUpdate
<1>2. ops = <<>> => relation' = relation
    BY DEF TopicUpdate
<1>3. ops = <<AddOp>> => FullMergeV2(relation.count, ops) = MergeRelOp(relation.count, AddOp)
    BY FoldOne
<1>4. ops = <<DelOp>> => FullMergeV2(relation.count, ops) = MergeRelOp(relation.count, DelOp)
    BY FoldOne
<1> QED
    BY <1>1, <1>2, <1>3, <1>4 DEF MergeRelOp, AddOp, DelOp

\* RocksdbHandler::transaction with a call that counts as it should.
LEMMA TransactionCounts ==
    ASSUME RocksdbStoreAssumption, TxInv, ViewsFit, CountInv, "rollbackDelete" \in Avoided,
           NEW s \in Sessions, NEW r, Transaction(s, r), NEW id \in Ids,
           Sound(View(s), r, id), Counts(View(s), r, id)
    PROVE  CountInv'
<1>1. Committed
    BY DEF ViewsFit, FitsAt, KeysTyped, Committed
<1>2. r.ec = "OK" \/ DOMAIN r.writes = {}
    BY DEF Sound
<1>3. DOMAIN r.writes \subseteq r.locks
    BY DEF Sound
<1>4. \A d \in Ids : ObjectKey(d) \in DOMAIN r.writes => d = id
    BY KeyForms DEF Sound, Touches
<1>5. ~Locked(s, r.locks) /\ relation' = TopicUpdate(relation, r.ops)
    BY DEF Transaction
<1>6. ASSUME NEW d \in Ids, Here(d)'
      PROVE  /\ ObjectKey(d) \notin DOMAIN r.writes => Here(d)
             /\ ObjectKey(d) \in DOMAIN r.writes => d = id /\ r.writes[ObjectKey(id)] # Absent
    BY <1>1, <1>2, <1>3, <1>4, <1>6, TransactionHolds
<1>7. ObjectKey(id) \in DOMAIN r.writes /\ ObjectKey(id) \in DOMAIN View(s) => Here(id)
    BY <1>1, <1>3, <1>5, SeenIsHere
<1>8. PICK old, new : old = Present /\ new = Present'
    OBVIOUS
<1>9. IsFiniteSet(old) /\ Cardinality(old) \in Nat /\ Cardinality(old) <= relation.count
    BY <1>8, PresentIsFinite DEF CountInv
<1>10. relation.count \in Nat
    BY DEF CountInv
<1>11. ASSUME relation'.count \in Nat, Cardinality(new) <= relation'.count
       PROVE  CountInv'
    BY <1>8, <1>11 DEF CountInv
<1>12. CASE r.ops = <<>> /\ (ObjectKey(id) \in DOMAIN r.writes => ObjectKey(id) \in DOMAIN View(s))
    <2>1. new \subseteq old
        BY <1>6, <1>7, <1>8, <1>12 DEF Present
    <2>2. Cardinality(new) <= Cardinality(old) /\ Cardinality(new) \in Nat
        BY <1>9, <2>1, FS_Subset, FS_CardinalityType
    <2>3. relation'.count = relation.count
        BY <1>5, <1>10, <1>12, MergesOne
    <2> QED
        BY <1>9, <1>10, <1>11, <2>2, <2>3
<1>13. CASE r.ops = <<AddOp>>
    <2>1. new \subseteq old \cup {id}
        BY <1>6, <1>8 DEF Present
    <2>2. /\ IsFiniteSet(old \cup {id})
          /\ Cardinality(old \cup {id}) <= Cardinality(old) + 1
          /\ Cardinality(old \cup {id}) \in Nat
        <3>1. /\ IsFiniteSet(old \cup {id})
              /\ Cardinality(old \cup {id})
                   = IF id \in old THEN Cardinality(old) ELSE Cardinality(old) + 1
            BY <1>9, FS_AddElement
        <3> QED
            BY <1>9, <3>1
    <2>3. Cardinality(new) <= Cardinality(old \cup {id}) /\ Cardinality(new) \in Nat
        BY <2>1, <2>2, FS_Subset, FS_CardinalityType
    <2>4. relation'.count = relation.count + 1
        BY <1>5, <1>10, <1>13, MergesOne
    <2> QED
        BY <1>9, <1>10, <1>11, <2>2, <2>3, <2>4
<1>14. CASE /\ r.ops = <<DelOp>> /\ ObjectKey(id) \in DOMAIN View(s)
            /\ ObjectKey(id) \in DOMAIN r.writes /\ r.writes[ObjectKey(id)] = Absent
    <2>1. id \in old /\ new \subseteq old \ {id}
        BY <1>6, <1>7, <1>8, <1>14 DEF Present
    <2>2. /\ IsFiniteSet(old \ {id}) /\ Cardinality(old \ {id}) = Cardinality(old) - 1
          /\ Cardinality(old \ {id}) \in Nat
        BY <1>9, <2>1, FS_RemoveElement, FS_CardinalityType
    <2>3. Cardinality(new) <= Cardinality(old \ {id}) /\ Cardinality(new) \in Nat
        BY <2>1, <2>2, FS_Subset, FS_CardinalityType
    <2>4. relation.count > 0 /\ relation'.count = relation.count - 1
        BY <1>5, <1>9, <1>10, <1>14, <2>2, MergesOne
    <2> QED
        BY <1>9, <1>10, <1>11, <2>2, <2>3, <2>4
<1> QED
    BY <1>12, <1>13, <1>14 DEF Counts

CountsRegular == KeysRegular /\ {"rollbackDelete", "partialMerge"} \subseteq Avoided

\* Nothing is there and nothing is counted.
LEMMA CountInvInit ==
    ASSUME RocksdbStoreAssumption, InitDb
    PROVE  CountInv
<1>1. store = <<>> /\ tx = [s \in Sessions |-> NoTx] /\ relation = NoRelation
    BY DEF InitDb
<1>2. DOMAIN <<>> = {}
    OBVIOUS
<1>3. Present = {}
    BY <1>1, <1>2, NoTxIs DEF Present, Here, Holds
<1>4. Cardinality(Present) = 0
    BY <1>3, FS_EmptySet
<1> QED
    BY <1>1, <1>4 DEF CountInv, NoRelation

\* Every step keeps the count.
LEMMA CountInvStep ==
    ASSUME RocksdbStoreAssumption, CountsRegular, KeyInv, CountInv, [NextDb]_dbVars
    PROVE  CountInv'
<1>1. TxInv /\ ViewsFit /\ "rollbackDelete" \in Avoided
    BY DEF KeyInv, CountsRegular
<1>2. Committed
    BY <1>1 DEF ViewsFit, FitsAt, KeysTyped, Committed
<1>3. ASSUME UNCHANGED <<store, relation>>, \A s \in Sessions : tx'[s].writes = tx[s].writes
      PROVE  CountInv'
    BY <1>3, NothingNew DEF Here, Holds
<1>4. ASSUME UNCHANGED dbVars \/ Tick
      PROVE  CountInv'
    BY <1>3, <1>4 DEF dbVars, Tick
<1>5. ASSUME NEW s \in Sessions, NEW op, NEW tag, NEW request, StartMany(s, op, tag, request)
      PROVE  CountInv'
    BY <1>3, <1>5 DEF StartMany
<1>6. ASSUME NEW s \in Sessions, Begin(s)
      PROVE  CountInv'
    <2>1. \A u \in Sessions : tx'[u].writes = tx[u].writes
        BY <1>1, <1>6 DEF Begin, TxInv
    <2> QED
        BY <1>3, <1>6, <2>1 DEF Begin
<1>7. ASSUME NEW s \in Sessions, Commit(s)
      PROVE  CountInv'
    <2>1. /\ tx'[s] = NoTx /\ \A u \in Sessions \ {s} : tx'[u] = tx[u]
          /\ store' = Applied(store, tx[s].writes) /\ relation' = relation
        BY <1>1, <1>7 DEF Commit, TxInv, View
    <2>2. ASSUME NEW id \in Ids, Here(id)'
          PROVE  Here(id)
        <3>1. ~Holds(s, id)' /\ \A u \in Sessions \ {s} : Holds(u, id)' <=> Holds(u, id)
            BY <2>1, NoTxIs DEF Holds
        <3>2. /\ Holds(s, id) =>
                    (ObjectKey(id) \in DOMAIN store' => tx[s].writes[ObjectKey(id)] # Absent)
              /\ ~Holds(s, id) =>
                    (ObjectKey(id) \in DOMAIN store' => ObjectKey(id) \in DOMAIN store)
            BY <1>2, <2>1, AppliedIs DEF Committed, Agree, Holds
        <3> QED
            BY <2>1, <2>2, <3>1, <3>2 DEF Here
    <2> QED
        BY <2>1, <2>2, NothingNew
<1>8. ASSUME NEW s \in Sessions, Rollback(s)
      PROVE  CountInv'
    <2>1. /\ Deletes(s) = {} /\ store' = store /\ tx' = [tx EXCEPT ![s] = NoTx]
          /\ relation' = relation
        BY <1>1, <1>8 DEF Rollback, Irregular
    <2> QED
        BY <1>1, <2>1, AbortCounts, NothingNew
<1>9. ASSUME CompactObjects \/ CompactIndexes
      PROVE  CountInv'
    <2>1. /\ DOMAIN store' \subseteq DOMAIN store
          /\ tx' = tx /\ relation' = relation
        BY <1>9 DEF CompactObjects, CompactIndexes, Compact
    <2> QED
        BY <2>1, NothingNew DEF Here, Holds
<1>10. ASSUME CompactTopics
       PROVE  CountInv'
    <2>1. UNCHANGED <<store, tx>> /\ relation'.count = relation.count
        BY <1>10 DEF CompactTopics, CompactRelation, NoRelation
    <2>2. Present' = Present
        BY <2>1 DEF Present, Here, Holds
    <2> QED
        BY <2>1, <2>2 DEF CountInv
<1>13. ASSUME FlushTopics
       PROVE  CountInv'
    <2>1. /\ UNCHANGED <<store, tx>> /\ relation' = FlushRelation(relation)
          /\ relation.recent = relation.count
        BY <1>13 DEF FlushTopics, Irregular, CountsRegular
    <2>2. relation'.count = MergeRelOp(relation.count, RelationOp(relation.recent))
        BY <2>1, FoldOne DEF FlushRelation
    <2>3. relation'.count = relation.count
        BY <2>1, <2>2 DEF MergeRelOp, RelationOp
    <2>4. Present' = Present
        BY <2>1 DEF Present, Here, Holds
    <2> QED
        BY <2>3, <2>4 DEF CountInv
<1>11. ASSUME DeleteTopic
       PROVE  CountInv'
    <2>1. /\ DOMAIN store' = {k \in DOMAIN store : k[1] = "ttl"} /\ tx' = tx
          /\ relation' = NoRelation /\ \A s \in Sessions : tx[s].locks = {}
        BY <1>11 DEF DeleteTopic, Irregular, CountsRegular, KeysRegular
    <2>2. \A s \in Sessions : DOMAIN tx'[s].writes = {}
        BY <1>1, <2>1 DEF TxInv
    <2>3. \A id \in Ids : ObjectKey(id) \notin DOMAIN store'
        BY <2>1, KeyForms DEF ObjectKey
    <2>4. Present' = {}
        BY <2>2, <2>3 DEF Present, Here, Holds
    <2>5. Cardinality(Present)' = 0
        BY <2>4, FS_EmptySet
    <2> QED
        BY <2>1, <2>5 DEF CountInv, NoRelation
<1>12. ASSUME NEW s \in Sessions, NEW id \in Ids,
              \E r : /\ Sound(View(s), r, id) /\ Counts(View(s), r, id)
                     /\ Transaction(s, r) /\ now' = now
       PROVE  CountInv'
    BY <1>1, <1>12, TransactionCounts
<1> QED
    BY <1>4, <1>5, <1>6, <1>7, <1>8, <1>9, <1>10, <1>11, <1>12, <1>13, CallIsTransaction
    DEF NextDb, CountsRegular

\* The invariant of the count.
LEMMA CountInvariant ==
    CountsRegular => (DbSpec => [](KeyInv /\ CountInv))
<1> SUFFICES ASSUME CountsRegular
             PROVE  DbSpec => [](KeyInv /\ CountInv)
    OBVIOUS
<1>1. InitDb => KeyInv /\ CountInv
    BY RocksdbStoreAssumption, KeyInvInit, CountInvInit
<1>2. KeyInv /\ CountInv /\ [NextDb]_dbVars => (KeyInv /\ CountInv)'
    BY RocksdbStoreAssumption, KeyInvStep, CountInvStep DEF CountsRegular
<1> QED
    BY <1>1, <1>2, PTL DEF DbSpec

\* The committed objects are present or are being deleted.
LEMMA CountInvLists ==
    ASSUME RocksdbStoreAssumption, KeyInv, CountInv
    PROVE  TopicIsListed
<1> DEFINE objects == {k \in DOMAIN store : k[1] = "object"}
           deleted == UNION {Deletes(s) : s \in Sessions}
           keys == {ObjectKey(id) : id \in Ids}
           counted == {ObjectKey(id) : id \in Present}
<1>1. objects \subseteq keys
    BY DEF KeyInv, ViewsFit, FitsAt, KeysTyped
<1>2. objects \subseteq counted \cup deleted
    <2>1. ASSUME NEW id \in Ids, ObjectKey(id) \in DOMAIN store, ObjectKey(id) \notin deleted
          PROVE  id \in Present
        <3>1. \A s \in Sessions : Holds(s, id) => tx[s].writes[ObjectKey(id)] # Absent
            BY <2>1, KeyForms DEF Deletes, Holds
        <3> QED
            BY <2>1, <3>1 DEF Present, Here
    <2> QED
        BY <1>1, <2>1
<1>3. deleted \subseteq keys
    BY <1>1 DEF Deletes
<1>4. /\ \A S : IsFiniteSet(S) /\ S \subseteq Ids =>
            /\ IsFiniteSet({ObjectKey(id) : id \in S})
            /\ Cardinality({ObjectKey(id) : id \in S}) <= Cardinality(S)
    <2> SUFFICES ASSUME NEW S, IsFiniteSet(S)
                 PROVE  /\ IsFiniteSet({ObjectKey(id) : id \in S})
                        /\ Cardinality({ObjectKey(id) : id \in S}) <= Cardinality(S)
        OBVIOUS
    <2> DEFINE image == {ObjectKey(id) : id \in S}
               f == [id \in S |-> ObjectKey(id)]
    <2>1. f \in Surjection(S, image)
        BY DEF Surjection
    <2> QED
        BY <2>1, FS_Surjection
<1> HIDE DEF objects, deleted, keys, counted
<1>5. IsFiniteSet(Present) /\ Present \subseteq Ids
    BY PresentIsFinite DEF Present
<1>6. /\ IsFiniteSet(keys) /\ IsFiniteSet(counted)
      /\ Cardinality(counted) <= Cardinality(Present)
    BY <1>4, <1>5, RocksdbStoreAssumption DEF keys, counted, RocksdbStoreAssumption
<1>7. IsFiniteSet(deleted)
    BY <1>3, <1>6, FS_Subset
<1>8. /\ IsFiniteSet(counted \cup deleted)
      /\ Cardinality(counted \cup deleted) <= Cardinality(counted) + Cardinality(deleted)
    <2>1. /\ IsFiniteSet(counted \cup deleted)
          /\ Cardinality(counted \cup deleted)
               = Cardinality(counted) + Cardinality(deleted) - Cardinality(counted \cap deleted)
        BY <1>6, <1>7, FS_Union
    <2>2. IsFiniteSet(counted \cap deleted)
        BY <1>6, FS_Subset
    <2>3. /\ Cardinality(counted) \in Nat /\ Cardinality(deleted) \in Nat
          /\ Cardinality(counted \cap deleted) \in Nat
        BY <1>6, <1>7, <2>2, FS_CardinalityType
    <2> QED
        BY <2>1, <2>3
<1>9. Cardinality(objects) <= Cardinality(counted \cup deleted)
    BY <1>2, <1>8, FS_Subset
<1>10. relation.count \in Nat /\ Cardinality(Present) <= relation.count
    BY DEF CountInv
<1>11. IsFiniteSet(objects)
    BY <1>2, <1>8, FS_Subset
<1>12. Cardinality(objects) <= relation.count + Cardinality(deleted)
    <2>1. /\ Cardinality(objects) \in Nat /\ Cardinality(counted \cup deleted) \in Nat
          /\ Cardinality(counted) \in Nat /\ Cardinality(deleted) \in Nat
          /\ Cardinality(Present) \in Nat
        BY <1>5, <1>6, <1>7, <1>8, <1>11, FS_CardinalityType
    <2> QED
        BY <1>6, <1>8, <1>9, <1>10, <2>1
<1>13. Cardinality(deleted) \in Nat /\ Cardinality(objects) \in Nat
    BY <1>7, <1>11, FS_CardinalityType
<1> QED
    BY <1>10, <1>12, <1>13 DEF TopicIsListed, objects, deleted

\* modeltopics.cpp: if besides no transaction that deletes objects fails, and no flush forgets
\* what was counted before the operands it folds (565), a topic counts at least the objects it
\* holds, so that a query over all topics visits it, although the count is updated past the
\* transactions and an update may delete.
THEOREM TopicsAreListed == CountsRegular => (DbSpec => []TopicIsListed)
<1>1. KeyInv /\ CountInv => TopicIsListed
    BY CountInvLists, RocksdbStoreAssumption
<1> QED
    BY <1>1, CountInvariant, PTL
=============================================================================
