-------------------------------- MODULE Lru --------------------------------
(***************************************************************************)
(* Lru over MapStorage (common/include/hatn/common/lru.h, cachelru.h): a   *)
(* map of items and an intrusive list of them, the least recently used one *)
(* first.  A cache is a record of the map and of the keys in list order;   *)
(* the operators return the cache after a call.                            *)
(***************************************************************************)
EXTENDS Naturals, Sequences, FiniteSets, SequencesExt

EmptyLru == [storage |-> <<>>, queue |-> <<>>]

Cached(l) == DOMAIN l.storage

\* A capacity of zero means no limit.
IsFull(l, capacity) == capacity # 0 /\ Cardinality(Cached(l)) = capacity

\* An item that is on the list is taken off.
Unlinked(queue, k) == RemoveFirst(queue, k)

\* removeItem: taken off the list, then out of the map.
RemoveItem(l, k) ==
    [storage |-> Restrict(l.storage, Cached(l) \ {k}), queue |-> Unlinked(l.queue, k)]

LruItem(l) == Head(l.queue)

\* Room for a new item, made before it is known to be new.
CheckFull(l, capacity) ==
    IF IsFull(l, capacity) THEN RemoveItem(l, LruItem(l)) ELSE l

\* A bug: an item that is touched stays where it is on the list.
TouchItemInPlace(l, k) == l

TouchItem(l, k) == [l EXCEPT !.queue = Append(Unlinked(@, k), k)]

\* MapStorage::doInsert: std::map::insert_or_assign.
Assigned(storage, k, item) ==
    [j \in DOMAIN storage \cup {k} |-> IF j = k THEN item ELSE storage[j]]

\* MapStorage::doEmplace: std::map::emplace, which leaves the item alone that
\* has this key already.
Emplaced(storage, k, item) ==
    IF k \in DOMAIN storage THEN storage ELSE Assigned(storage, k, item)

\* emplaceItem(key, ...) and pushItem(key, item).
EmplaceItem(l, capacity, k, item) ==
    LET room == CheckFull(l, capacity)
    IN  [storage |-> Emplaced(room.storage, k, item), queue |-> Append(Unlinked(room.queue, k), k)]

\* pushItem(item): the item is linked again even if the assigned one is on
\* the list.
PushItem(l, capacity, k, item) ==
    LET room == CheckFull(l, capacity)
    IN  [storage |-> Assigned(room.storage, k, item), queue |-> Append(room.queue, k)]
============================================================================
