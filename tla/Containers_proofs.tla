-------------------------- MODULE Containers_proofs --------------------------
(***************************************************************************)
(* Proofs about the containers of common.                                   *)
(*                                                                          *)
(* MPSCQueue, for every number of producers, every pool of addresses and    *)
(* every slack of doClear: type correctness with the exact value of m_size, *)
(* that nothing is used after it has been freed, and that the queue         *)
(* implements ConcurrentFifo.                                               *)
(*                                                                          *)
(* LruTtl, for every set of keys, every capacity and all times to live:     *)
(* that the list holds each cached item once, within the capacity and the   *)
(* oldest first, and that the timer does what it was last told to, for      *)
(* every interleaving of starts, stops and the completions of its waits.    *)
(***************************************************************************)
EXTENDS MPSCQueue, LruTtl, FiniteSetTheorems, SequenceTheorems, TLAPS

(***************************************************************************)
(* MPSCQueue: the inductive invariant                                       *)
(***************************************************************************)

\* The push of an item has replaced the tail and not yet linked the item.
Pending(i) == \E p \in Producers : ppc[p] = "link" /\ item[p] = i

\* Position of the oldest item whose push found no tail before it: the first
\* of the queue, or the second once popItem has taken the tail of the first.
First == IF cpc = "casHead" THEN 2 ELSE 1

\* An address has one owner: the allocator, a producer before its exchange,
\* the queue, or the consumer.
OwnerInv ==
    /\ \A j, k \in 1..Len(order) : order[j] = order[k] => j = k
    /\ \A k \in 1..Len(order) : order[k] \notin free
    /\ \A p \in Producers : ppc[p] = "exchange" =>
         /\ item[p] \in Items /\ item[p] \notin free /\ item[p] # out /\ item[p] # citem
         /\ \A k \in 1..Len(order) : order[k] # item[p]
    /\ \A p, q \in Producers :
         ppc[p] # "idle" /\ ppc[q] # "idle" /\ item[p] = item[q] => p = q
    /\ out \notin free /\ \A k \in 1..Len(order) : order[k] # out
    /\ cpc = "size" => citem \notin free /\ \A k \in 1..Len(order) : order[k] # citem

\* A producer that has replaced the tail remembers the item in front of its
\* own, which waits for the link, or the lack of one.
ProducerInv ==
    \A p \in Producers :
        /\ ppc[p] = "idle" => item[p] = Null
        /\ ppc[p] # "link" => prev[p] = Null
        /\ ppc[p] = "exchange" => m_next[item[p]] = Null
        /\ ppc[p] = "link" => \E k \in First..Len(order) :
              /\ order[k] = item[p]
              /\ k = First => prev[p] = Null
              /\ k > First => prev[p] = order[k - 1] /\ m_next[prev[p]] = Null

\* What has been linked: each item to the next one, and m_head to the first.
LinkInv ==
    /\ \A k \in 1..Len(order) :
         k > First /\ ~Pending(order[k]) => m_next[order[k - 1]] = order[k]
    /\ order # <<>> => m_next[order[Len(order)]] = Null
    /\ m_tail = IF Len(order) < First THEN Null ELSE order[Len(order)]
    /\ m_head = IF Len(order) >= First /\ ~Pending(order[First]) THEN order[First]
                ELSE IF cpc = "casHead" THEN citem ELSE Null

\* What popItem knows at each of its steps.
ConsumerInv ==
    /\ cpc \in {"casTail", "casHead", "spin", "storeHead"} => order # <<>> /\ citem = order[1]
    /\ cpc \in {"casTail", "spin", "storeHead"} => m_head = citem
    /\ cpc \in {"spin", "storeHead"} => Len(order) >= 2
    /\ cpc = "storeHead" => cnext = order[2] /\ m_next[citem] = cnext
    /\ cpc # "storeHead" => cnext = Null
    /\ cpc = "idle" => citem = Null
    /\ cpc = "size" => citem \in Items
    /\ cpc # "idle" => out = Null

\* m_size counts the pushes begun and not yet popped.
Pushing == {p \in Producers : ppc[p] = "exchange"}
SizeInv == m_size = Cardinality(Pushing) + Len(order) + (IF cpc = "size" THEN 1 ELSE 0)

IInv == TypeOK /\ OwnerInv /\ ProducerInv /\ LinkInv /\ ConsumerInv /\ SizeInv

(***************************************************************************)
(* The queue as a sequence                                                  *)
(***************************************************************************)

\* What the other proofs need to know of the sequence of queued items.
LEMMA OrderFacts ==
    ASSUME TypeOK
    PROVE  /\ Len(order) \in Nat
           /\ \A k \in 1..Len(order) : order[k] \in Items
           /\ order = <<>> <=> Len(order) = 0
BY DEF TypeOK

\* The exchange of m_tail appends.
LEMMA OrderAppend ==
    ASSUME TypeOK, NEW x \in Items, order' = Append(order, x)
    PROVE  /\ order' \in Seq(Items)
           /\ Len(order') = Len(order) + 1 /\ order'[Len(order) + 1] = x
           /\ \A k \in 1..Len(order) : order'[k] = order[k]
           /\ order' # <<>>
BY DEF TypeOK

\* The update of m_head takes the first away.
LEMMA OrderTail ==
    ASSUME TypeOK, order # <<>>, order' = Tail(order)
    PROVE  /\ order' \in Seq(Items)
           /\ Len(order') = Len(order) - 1
           /\ \A k \in 1..(Len(order) - 1) : order'[k] = order[k + 1]
           /\ order' = <<>> <=> Len(order') = 0
<1>1. order \in Seq(Items) /\ Len(order) \in Nat /\ Len(order) > 0
    BY DEF TypeOK
<1>2. /\ Tail(order) \in Seq(Items)
      /\ Len(Tail(order)) = Len(order) - 1
      /\ \A k \in 1..(Len(order) - 1) : Tail(order)[k] = order[k + 1]
    BY <1>1
<1>3. \A q \in Seq(Items) : q = <<>> <=> Len(q) = 0
    OBVIOUS
<1> QED
    BY <1>2, <1>3

\* m_size, when the producers before their exchange change by one.
LEMMA PushingFinite == IsFiniteSet(Pushing) /\ Cardinality(Pushing) \in Nat
BY MPSCQueueAssumption, FS_Subset, FS_CardinalityType DEF Pushing

(***************************************************************************)
(* Every action preserves the invariant                                     *)
(***************************************************************************)

\* createItem and the increment of m_size.
LEMMA PushBeginPreserves ==
    ASSUME IInv, NEW p \in Producers, NEW i \in Items, PushBegin(p, i)
    PROVE  IInv'
<1> USE MPSCQueueAssumption, OrderFacts DEF IInv, PushBegin, consVars
<1>1. TypeOK'
    BY DEF TypeOK
<1>2. OwnerInv'
    <2>1. /\ i # out /\ i # citem
          /\ \A k \in 1..Len(order) : order[k] # i
        BY DEF OwnerInv, ConsumerInv, TypeOK
    <2>2. \A q \in Producers : ppc[q] # "idle" => item[q] # i
        BY <2>1 DEF OwnerInv, ProducerInv, First, TypeOK
    <2> QED
        BY <2>1, <2>2 DEF OwnerInv, TypeOK
<1>3. \A x : Pending(x)' <=> Pending(x)
    BY DEF Pending, TypeOK
<1>4. ProducerInv'
    BY DEF ProducerInv, OwnerInv, First, TypeOK
<1>5. LinkInv'
    BY <1>3 DEF LinkInv, OwnerInv, First, TypeOK
<1>6. ConsumerInv'
    BY DEF ConsumerInv, OwnerInv, TypeOK
<1>7. SizeInv'
    <2>1. Pushing' = Pushing \cup {p} /\ p \notin Pushing
        BY DEF Pushing, TypeOK
    <2>2. Cardinality(Pushing') = Cardinality(Pushing) + 1
        BY <2>1, PushingFinite, FS_AddElement
    <2> QED
        BY <2>2, PushingFinite DEF SizeInv
<1> QED
    BY <1>1, <1>2, <1>4, <1>5, <1>6, <1>7

\* The exchange of m_tail: the item is queued behind the old tail.
LEMMA PushExchangePreserves ==
    ASSUME IInv, NEW p \in Producers, PushExchange(p)
    PROVE  IInv'
<1> USE MPSCQueueAssumption, OrderFacts DEF IInv, PushExchange, consVars
<1>1. /\ item[p] \in Items
      /\ order' \in Seq(Items)
      /\ Len(order') = Len(order) + 1 /\ order'[Len(order) + 1] = item[p]
      /\ \A k \in 1..Len(order) : order'[k] = order[k]
      /\ order' # <<>>
    BY OrderAppend DEF OwnerInv
<1>2. TypeOK'
    BY <1>1 DEF TypeOK
<1>3. OwnerInv'
    BY <1>1 DEF OwnerInv, TypeOK
<1>4. \A x : Pending(x)' <=> (Pending(x) \/ x = item[p])
    BY DEF Pending, TypeOK
<1>5. ProducerInv'
    BY <1>1 DEF ProducerInv, LinkInv, ConsumerInv, OwnerInv, First, TypeOK
<1>6. LinkInv'
    BY <1>1, <1>4 DEF LinkInv, OwnerInv, ProducerInv, ConsumerInv, First, TypeOK
<1>7. ConsumerInv'
    BY <1>1 DEF ConsumerInv, TypeOK
<1>8. SizeInv'
    <2>1. Pushing' = Pushing \ {p} /\ p \in Pushing
        BY DEF Pushing, TypeOK
    <2>2. Cardinality(Pushing') = Cardinality(Pushing) - 1
        BY <2>1, PushingFinite, FS_RemoveElement
    <2> QED
        BY <1>1, <2>2, PushingFinite DEF SizeInv
<1> QED
    BY <1>2, <1>3, <1>5, <1>6, <1>7, <1>8

\* The link behind the previous item, or m_head.
LEMMA PushLinkPreserves ==
    ASSUME IInv, NEW p \in Producers, PushLink(p)
    PROVE  IInv'
<1> USE MPSCQueueAssumption, OrderFacts DEF IInv, PushLink, consVars
<1>1. PICK k \in First..Len(order) :
        /\ order[k] = item[p]
        /\ k = First => prev[p] = Null
        /\ k > First => prev[p] = order[k - 1] /\ m_next[prev[p]] = Null
    BY DEF ProducerInv
<1>2. TypeOK'
    BY DEF TypeOK
<1>3. OwnerInv'
    BY DEF OwnerInv, TypeOK
<1>4. \A x : Pending(x)' <=> (Pending(x) /\ x # item[p])
    BY DEF Pending, TypeOK, OwnerInv
<1>5. ProducerInv'
    <2>1. order' = order /\ First' = First
        BY DEF First
    <2>2. ASSUME NEW q \in Producers
          PROVE  /\ ppc'[q] = "idle" => item'[q] = Null
                 /\ ppc'[q] # "link" => prev'[q] = Null
        BY DEF ProducerInv, TypeOK
    <2>3. ASSUME NEW q \in Producers, q # p
          PROVE  ppc'[q] = ppc[q] /\ item'[q] = item[q] /\ prev'[q] = prev[q]
        BY <2>3 DEF TypeOK
    <2>6. ASSUME NEW x \in Items, prev[p] # Null => prev[p] # x PROVE m_next'[x] = m_next[x]
        BY <2>6 DEF TypeOK
    <2>4. ASSUME NEW q \in Producers, ppc'[q] = "exchange" PROVE m_next'[item'[q]] = Null
        <3>1. q # p
            BY <2>4 DEF TypeOK
        <3>2. ppc[q] = "exchange" /\ m_next[item[q]] = Null /\ item'[q] = item[q]
            BY <2>3, <2>4, <3>1 DEF ProducerInv
        <3>3. prev[p] # Null => prev[p] = order[k - 1] /\ k - 1 \in 1..Len(order)
            BY <1>1 DEF First
        <3>4. prev[p] # Null => prev[p] # item[q]
            BY <3>2, <3>3 DEF OwnerInv
        <3>5. item[q] \in Items
            BY <3>2 DEF OwnerInv
        <3> QED
            BY <3>2, <3>4, <3>5, <2>6
    <2>5. ASSUME NEW q \in Producers, ppc'[q] = "link"
          PROVE  \E j \in First..Len(order) :
                    /\ order[j] = item'[q]
                    /\ j = First => prev'[q] = Null
                    /\ j > First => prev'[q] = order[j - 1] /\ m_next'[prev'[q]] = Null
        <3>1. q # p
            BY <2>5 DEF TypeOK
        <3>2. PICK j \in First..Len(order) :
                /\ order[j] = item[q]
                /\ j = First => prev[q] = Null
                /\ j > First => prev[q] = order[j - 1] /\ m_next[prev[q]] = Null
            BY <2>3, <2>5, <3>1 DEF ProducerInv
        <3>3. j # k
            BY <1>1, <2>3, <2>5, <3>1, <3>2 DEF OwnerInv
        <3>4. ASSUME j > First PROVE m_next'[prev[q]] = Null
            <4>1. prev[p] # Null => prev[p] = order[k - 1] /\ k - 1 \in 1..Len(order)
                BY <1>1 DEF First
            <4>2. prev[q] = order[j - 1] /\ j - 1 \in 1..Len(order)
                BY <3>2, <3>4 DEF First
            <4>3. \A i \in 1..Len(order) : order[i] = order[j - 1] => i = j - 1
                BY <4>2 DEF OwnerInv
            <4>4. k - 1 # j - 1
                BY <3>3
            <4>5. prev[p] # Null => prev[p] # prev[q]
                BY <4>1, <4>2, <4>3, <4>4
            <4>6. prev[q] \in Items
                BY <4>2 DEF TypeOK
            <4> QED
                BY <2>6, <3>2, <3>4, <4>5, <4>6
        <3> QED
            BY <2>3, <3>1, <3>2, <3>4
    <2> QED
        BY <2>1, <2>2, <2>4, <2>5 DEF ProducerInv
<1>6. LinkInv'
    BY <1>1, <1>4 DEF LinkInv, OwnerInv, ProducerInv, First, TypeOK
<1>7. ConsumerInv'
    BY <1>1 DEF ConsumerInv, LinkInv, OwnerInv, First, TypeOK
<1>8. SizeInv'
    <2>1. Pushing' = Pushing
        BY DEF Pushing, TypeOK
    <2> QED
        BY <2>1 DEF SizeInv
<1> QED
    BY <1>2, <1>3, <1>5, <1>6, <1>7, <1>8

\* popItem loads m_head; the answer is "empty", or the first item.
LEMMA PopLoadHeadPreserves == ASSUME IInv, PopLoadHead PROVE IInv'
<1> USE MPSCQueueAssumption, OrderFacts DEF IInv, PopLoadHead, prodVars
<1>1. cpc = "idle" /\ out = Null /\ cpc' \in {"idle", "casTail"} /\ First' = First /\ First = 1
    BY DEF First
<1>2. m_head = Null \/ (Len(order) >= 1 /\ m_head = order[1])
    BY <1>1 DEF LinkInv
<1>3. TypeOK'
    BY DEF TypeOK
<1>4. OwnerInv'
    BY <1>2 DEF OwnerInv, TypeOK
<1>5. \A x : Pending(x)' <=> Pending(x)
    BY DEF Pending
<1>6. ProducerInv'
    BY <1>1 DEF ProducerInv
<1>7. LinkInv'
    BY <1>1, <1>5 DEF LinkInv
<1>8. ConsumerInv'
    BY <1>1, <1>2 DEF ConsumerInv, TypeOK
<1>9. SizeInv'
    BY <1>1 DEF SizeInv, Pushing
<1> QED
    BY <1>3, <1>4, <1>6, <1>7, <1>8, <1>9

\* The compare-and-swap of m_tail succeeds if the item is the only one.
LEMMA PopCasTailPreserves == ASSUME IInv, PopCasTail PROVE IInv'
<1> USE MPSCQueueAssumption, OrderFacts DEF IInv, PopCasTail, prodVars
<1>1. /\ cpc = "casTail" /\ First = 1 /\ Len(order) >= 1
      /\ citem = order[1] /\ m_head = citem /\ m_tail = order[Len(order)]
      /\ citem \in Items /\ ~Pending(order[1])
    BY DEF First, ConsumerInv, LinkInv, TypeOK
<1>2. \A x : Pending(x)' <=> Pending(x)
    BY DEF Pending
<1>3. TypeOK' /\ OwnerInv'
    BY <1>1 DEF TypeOK, OwnerInv
<1>4. SizeInv'
    BY <1>1 DEF SizeInv, Pushing
<1>5. CASE m_tail = citem
    <2>1. Len(order) = 1 /\ cpc' = "casHead" /\ m_tail' = Null /\ First' = 2
        <3>1. \A j, k \in 1..Len(order) : order[j] = order[k] => j = k
            BY DEF OwnerInv
        <3>2. /\ 1 \in 1..Len(order) /\ Len(order) \in 1..Len(order)
              /\ order[1] = order[Len(order)]
            BY <1>1, <1>5
        <3>3. Len(order) = 1
            BY ONLY <3>1, <3>2
        <3> QED
            BY <1>1, <1>5, <3>3 DEF First
    <2>2. \A q \in Producers : ppc[q] # "link"
        BY <1>1, <2>1 DEF ProducerInv, Pending
    <2>3. ProducerInv'
        BY <2>2 DEF ProducerInv
    <2>4. LinkInv'
        BY <1>1, <1>2, <2>1 DEF LinkInv
    <2>5. ConsumerInv'
        BY <1>1, <2>1 DEF ConsumerInv
    <2> QED
        BY <1>3, <1>4, <2>3, <2>4, <2>5
<1>6. CASE m_tail # citem
    <2>1. Len(order) >= 2 /\ cpc' = "spin" /\ First' = 1 /\ UNCHANGED m_tail
        BY <1>1, <1>6 DEF First
    <2>2. ProducerInv'
        BY <1>1, <2>1 DEF ProducerInv
    <2>3. LinkInv'
        BY <1>1, <1>2, <2>1 DEF LinkInv
    <2>4. ConsumerInv'
        BY <1>1, <2>1 DEF ConsumerInv
    <2> QED
        BY <1>3, <1>4, <2>2, <2>3, <2>4
<1> QED
    BY <1>5, <1>6

\* The compare-and-swap of m_head fails if a new first item has been linked.
LEMMA PopCasHeadPreserves == ASSUME IInv, PopCasHead PROVE IInv'
<1> USE MPSCQueueAssumption, OrderFacts DEF IInv, PopCasHead, prodVars
<1>1. /\ cpc = "casHead" /\ cpc' = "size" /\ First = 2 /\ First' = 1
      /\ Len(order) >= 1 /\ citem = order[1] /\ citem \in Items
    BY DEF First, ConsumerInv, TypeOK
<1>2. /\ order' \in Seq(Items)
      /\ Len(order') = Len(order) - 1
      /\ \A k \in 1..(Len(order) - 1) : order'[k] = order[k + 1]
      /\ order' = <<>> <=> Len(order') = 0
    BY <1>1, OrderTail
<1>3. \A x : Pending(x)' <=> Pending(x)
    BY DEF Pending
<1>4. TypeOK'
    BY <1>2 DEF TypeOK
<1>5. OwnerInv'
    BY <1>1, <1>2 DEF OwnerInv
<1>6. ProducerInv'
    <2> SUFFICES ASSUME NEW p \in Producers, ppc[p] = "link"
                 PROVE  \E k \in 1..Len(order') :
                           /\ order'[k] = item[p]
                           /\ k = 1 => prev[p] = Null
                           /\ k > 1 => prev[p] = order'[k - 1] /\ m_next[prev[p]] = Null
        BY <1>1 DEF ProducerInv
    <2>1. PICK k \in 2..Len(order) :
             /\ order[k] = item[p]
             /\ k = 2 => prev[p] = Null
             /\ k > 2 => prev[p] = order[k - 1] /\ m_next[prev[p]] = Null
        BY <1>1 DEF ProducerInv
    <2>2. k - 1 \in 1..Len(order') /\ order'[k - 1] = order[k]
          /\ (k > 2 => order'[k - 2] = order[k - 1])
        BY <1>2, <2>1
    <2> QED
        BY <2>1, <2>2
<1>7. LinkInv'
    BY <1>1, <1>2, <1>3 DEF LinkInv, OwnerInv
<1>8. ConsumerInv'
    BY <1>1 DEF ConsumerInv
<1>9. SizeInv'
    BY <1>1, <1>2, PushingFinite DEF SizeInv, Pushing
<1> QED
    BY <1>4, <1>5, <1>6, <1>7, <1>8, <1>9

\* The next item has been linked.
LEMMA PopReadNextPreserves == ASSUME IInv, PopReadNext PROVE IInv'
<1> USE MPSCQueueAssumption, OrderFacts DEF IInv, PopReadNext, prodVars
<1>1. /\ cpc = "spin" /\ cpc' = "storeHead" /\ First = 1 /\ First' = 1 /\ Len(order) >= 2
      /\ citem = order[1] /\ citem \in Items /\ cnext' = m_next[citem] /\ m_head = citem
    BY DEF First, ConsumerInv, TypeOK
<1>2. ~Pending(order[2])
    BY <1>1 DEF Pending, ProducerInv, OwnerInv
<1>3. cnext' = order[2]
    BY <1>1, <1>2 DEF LinkInv
<1>4. \A x : Pending(x)' <=> Pending(x)
    BY DEF Pending
<1>5. TypeOK'
    BY <1>1, <1>3 DEF TypeOK
<1>6. OwnerInv'
    BY <1>1 DEF OwnerInv
<1>7. ProducerInv'
    BY <1>1 DEF ProducerInv
<1>8. LinkInv'
    BY <1>1, <1>4 DEF LinkInv
<1>9. ConsumerInv'
    BY <1>1, <1>3 DEF ConsumerInv
<1>10. SizeInv'
    BY <1>1 DEF SizeInv, Pushing
<1> QED
    BY <1>5, <1>6, <1>7, <1>8, <1>9, <1>10

\* m_head moves to the next item.
LEMMA PopStoreHeadPreserves == ASSUME IInv, PopStoreHead PROVE IInv'
<1> USE MPSCQueueAssumption, OrderFacts DEF IInv, PopStoreHead, prodVars
<1>1. /\ cpc = "storeHead" /\ cpc' = "size" /\ First = 1 /\ First' = 1
      /\ Len(order) >= 2 /\ citem = order[1] /\ citem \in Items
      /\ cnext = order[2] /\ cnext \in Items /\ m_next[citem] = cnext /\ m_head = citem
    BY DEF First, ConsumerInv, TypeOK
<1>2. /\ order' \in Seq(Items)
      /\ Len(order') = Len(order) - 1
      /\ \A k \in 1..(Len(order) - 1) : order'[k] = order[k + 1]
      /\ order' = <<>> <=> Len(order') = 0
    BY <1>1, OrderTail
<1>3. ~Pending(order[1]) /\ ~Pending(order[2])
    BY <1>1 DEF Pending, ProducerInv, OwnerInv, LinkInv
<1>4. \A x : Pending(x)' <=> Pending(x)
    BY DEF Pending
<1>5. TypeOK'
    BY <1>1, <1>2 DEF TypeOK
<1>6. OwnerInv'
    BY <1>1, <1>2 DEF OwnerInv
<1>7. ProducerInv'
    <2> SUFFICES ASSUME NEW p \in Producers, ppc[p] = "link"
                 PROVE  \E k \in 1..Len(order') :
                           /\ order'[k] = item[p]
                           /\ k = 1 => prev[p] = Null
                           /\ k > 1 => prev[p] = order'[k - 1] /\ m_next[prev[p]] = Null
        BY <1>1 DEF ProducerInv
    <2>1. PICK k \in 1..Len(order) :
             /\ order[k] = item[p]
             /\ k > 1 => prev[p] = order[k - 1] /\ m_next[prev[p]] = Null
        BY <1>1 DEF ProducerInv
    <2>2. k > 2
        BY <1>3, <2>1 DEF Pending
    <2>3. /\ k - 1 \in 1..Len(order') /\ k - 1 > 1
          /\ order'[k - 1] = order[k] /\ order'[(k - 1) - 1] = order[k - 1]
        BY <1>2, <2>1, <2>2
    <2> QED
        BY <2>1, <2>2, <2>3
<1>8. LinkInv'
    BY <1>1, <1>2, <1>3, <1>4 DEF LinkInv
<1>9. ConsumerInv'
    BY <1>1 DEF ConsumerInv
<1>10. SizeInv'
    BY <1>1, <1>2, PushingFinite DEF SizeInv, Pushing
<1> QED
    BY <1>5, <1>6, <1>7, <1>8, <1>9, <1>10

\* popItem returns the item to the consumer.
LEMMA PopReturnsPreserves == ASSUME IInv, PopReturns PROVE IInv'
<1> USE MPSCQueueAssumption, OrderFacts DEF IInv, PopReturns, prodVars
<1>1. cpc = "size" /\ cpc' = "idle" /\ First = 1 /\ First' = 1
    BY DEF First
<1>2. \A x : Pending(x)' <=> Pending(x)
    BY DEF Pending
<1>3. SizeInv' /\ m_size' \in Nat
    BY <1>1, PushingFinite DEF SizeInv, Pushing
<1>4. TypeOK'
    BY <1>3 DEF TypeOK
<1>5. OwnerInv'
    BY <1>1 DEF OwnerInv, ConsumerInv, TypeOK
<1>6. ProducerInv'
    BY <1>1 DEF ProducerInv
<1>7. LinkInv'
    BY <1>1, <1>2 DEF LinkInv
<1>8. ConsumerInv'
    BY <1>1 DEF ConsumerInv
<1> QED
    BY <1>3, <1>4, <1>5, <1>6, <1>7, <1>8

\* The consumer frees or forgets what it holds, or begins to clear.
LEMMA ConsumerPreserves == ASSUME IInv, FreeItem \/ ClearBegin \/ ClearStep PROVE IInv'
<1> USE MPSCQueueAssumption, OrderFacts DEF IInv
<1>1. /\ UNCHANGED <<m_head, m_tail, m_size, m_next, prodVars, cpc, citem, cnext, order>>
      /\ \/ UNCHANGED free /\ out' \in {out, Null}
         \/ out \in Items /\ free' = free \cup {out} /\ out' = Null
      /\ clearing' \in Nat \cup {-1}
    BY DEF FreeItem, ClearBegin, ClearStep, TypeOK
<1>2. First' = First
    BY <1>1 DEF First
<1>3. \A x : Pending(x)' <=> Pending(x)
    BY <1>1 DEF Pending, prodVars
<1>4. TypeOK'
    BY <1>1 DEF TypeOK, prodVars
<1>5. OwnerInv'
    BY <1>1 DEF OwnerInv, ConsumerInv, TypeOK, prodVars
<1>6. ProducerInv'
    BY <1>1, <1>2 DEF ProducerInv, prodVars
<1>7. LinkInv'
    BY <1>1, <1>2, <1>3 DEF LinkInv
<1>8. ConsumerInv'
    BY <1>1 DEF ConsumerInv
<1>9. SizeInv'
    BY <1>1 DEF SizeInv, Pushing, prodVars
<1> QED
    BY <1>4, <1>5, <1>6, <1>7, <1>8, <1>9

(***************************************************************************)
(* The theorems                                                             *)
(***************************************************************************)

\* An empty queue.
LEMMA InitInv == Init => IInv
<1> SUFFICES ASSUME Init PROVE IInv
    OBVIOUS
<1> USE MPSCQueueAssumption DEF Init
<1>1. TypeOK
    BY DEF TypeOK
<1>2. OwnerInv /\ ProducerInv /\ LinkInv /\ ConsumerInv
    BY DEF OwnerInv, ProducerInv, LinkInv, ConsumerInv, First
<1>3. Pushing = {}
    BY DEF Pushing
<1> QED
    BY <1>1, <1>2, <1>3, FS_EmptySet DEF IInv, SizeInv

\* One step, by the lemma of its action.
LEMMA NextInv == IInv /\ [Next]_vars => IInv'
<1> SUFFICES ASSUME IInv, [Next]_vars PROVE IInv'
    OBVIOUS
<1>1. CASE UNCHANGED vars
    BY <1>1 DEF vars, prodVars, consVars, IInv, TypeOK, OwnerInv, ProducerInv, LinkInv,
        ConsumerInv, SizeInv, Pushing, Pending, First
<1> QED
    BY <1>1, PushBeginPreserves, PushExchangePreserves, PushLinkPreserves,
       PopLoadHeadPreserves, PopCasTailPreserves, PopCasHeadPreserves, PopReadNextPreserves,
       PopStoreHeadPreserves, PopReturnsPreserves, ConsumerPreserves
    DEF Next, PopNext

\* The conjunction is an invariant of the queue.
THEOREM QueueInvariant == Spec => []IInv
BY InitInv, NextInv, PTL DEF Spec

\* Every variable keeps its type; m_size, an unsigned counter that is
\* incremented before a push and decremented after a pop, never wraps.
THEOREM TypeCorrect == Spec => []TypeOK
<1>1. IInv => TypeOK
    BY DEF IInv
<1> QED
    BY <1>1, QueueInvariant, PTL

\* m_size is the number of pushes that have begun and have not been popped.
THEOREM SizeIsExact == Spec => []SizeInv
<1>1. IInv => SizeInv
    BY DEF IInv
<1> QED
    BY <1>1, QueueInvariant, PTL

\* No address is handed out by the allocator while a producer or the consumer
\* may still follow a pointer to it (pushInternalItem and popItem).
THEOREM NothingUsedAfterFree == Spec => []NoUseAfterFree
<1>1. IInv => NoUseAfterFree
    <2> SUFFICES ASSUME IInv PROVE NoUseAfterFree
        OBVIOUS
    <2> USE MPSCQueueAssumption, OrderFacts DEF IInv
    <2>1. /\ Null \notin free
          /\ \A k \in 1..Len(order) : order[k] \notin free
          /\ DOMAIN order = 1..Len(order)
        BY DEF TypeOK, OwnerInv
    <2>2. \A p \in Producers : {item[p], prev[p]} \cap free = {}
        BY <2>1 DEF TypeOK, OwnerInv, ProducerInv, First
    <2>3. {citem, cnext, m_head, m_tail} \cap free = {}
        <3>1. citem \notin free
            BY <2>1 DEF ConsumerInv, OwnerInv, TypeOK
        <3>2. cnext \notin free
            BY <2>1 DEF ConsumerInv, TypeOK
        <3>3. m_tail \notin free
            BY <2>1 DEF LinkInv, First
        <3>4. m_head \notin free
            BY <2>1, <3>1 DEF LinkInv, First
        <3> QED
            BY <3>1, <3>2, <3>3, <3>4
    <2> QED
        BY <2>1, <2>2, <2>3 DEF NoUseAfterFree
<1> QED
    BY <1>1, QueueInvariant, PTL

(***************************************************************************)
(* Refinement of ConcurrentFifo                                             *)
(***************************************************************************)

\* The consumer's answer, as ConcurrentFifo sees it.
Answer == IF cpc = "size" THEN citem ELSE out

absVars == <<order, InPush, Answer>>

\* Until its push links it, the first item of the queue is not popped; once
\* popItem holds an item, the push of that item is over.
LEMMA HeldIsLinked ==
    ASSUME IInv, cpc \in {"casHead", "storeHead"}
    PROVE  ~Pending(order[1])
<1> USE OrderFacts, MPSCQueueAssumption DEF IInv
<1>1. CASE cpc = "casHead"
    <2>1. First = 2 /\ Len(order) >= 1
        BY <1>1 DEF First, ConsumerInv
    <2> QED
        BY <2>1 DEF Pending, ProducerInv, OwnerInv
<1>2. CASE cpc = "storeHead"
    <2>1. First = 1 /\ Len(order) >= 1 /\ m_head = order[1] /\ order[1] \in Items
        BY <1>2 DEF First, ConsumerInv
    <2> QED
        BY <1>2, <2>1 DEF LinkInv
<1> QED
    BY <1>1, <1>2

\* A push takes effect with the exchange of m_tail and returns with the link.
LEMMA PushRefines ==
    ASSUME IInv, NEW p \in Producers,
           (\E i \in Items : PushBegin(p, i)) \/ PushExchange(p) \/ PushLink(p)
    PROVE  Fifo!Next \/ UNCHANGED absVars
<1> USE DEF IInv
<1>1. ASSUME NEW i \in Items, PushBegin(p, i) PROVE UNCHANGED absVars
    <2>1. InPush' = InPush
        BY <1>1 DEF PushBegin, InPush, TypeOK
    <2> QED
        BY <1>1, <2>1 DEF PushBegin, absVars, Answer, consVars
<1>2. CASE PushExchange(p)
    <2>1. /\ item[p] \in Items /\ item[p] # Answer
          /\ \A k \in DOMAIN order : order[k] # item[p]
        BY <1>2 DEF PushExchange, OwnerInv, Answer, TypeOK
    <2>2. item[p] \notin InPush
        BY <1>2 DEF PushExchange, OwnerInv, InPush
    <2>3. InPush' = InPush \cup {item[p]}
        BY <1>2 DEF PushExchange, InPush, TypeOK
    <2>4. order' = Append(order, item[p]) /\ Answer' = Answer
        BY <1>2 DEF PushExchange, consVars, Answer
    <2>5. Fifo!Enqueue(item[p])
        BY <2>1, <2>2, <2>3, <2>4 DEF Fifo!Enqueue, Answer
    <2> QED
        BY <2>1, <2>5 DEF Fifo!Next
<1>3. CASE PushLink(p)
    <2>1. item[p] \in Items
        BY <1>3, OrderFacts DEF PushLink, ProducerInv, First
    <2>2. item[p] \in InPush
        BY <1>3 DEF PushLink, InPush
    <2>3. InPush' = InPush \ {item[p]}
        BY <1>3 DEF PushLink, InPush, TypeOK, OwnerInv
    <2>4. order' = order /\ Answer' = Answer
        BY <1>3 DEF PushLink, consVars, Answer
    <2>5. Fifo!EnqueueReturns(item[p])
        BY <2>2, <2>3, <2>4 DEF Fifo!EnqueueReturns, Answer
    <2> QED
        BY <2>1, <2>5 DEF Fifo!Next
<1> QED
    BY <1>1, <1>2, <1>3

\* popItem takes an item when m_head leaves it, and finds nothing when m_head
\* is null; its other steps do not show.
LEMMA PopRefines ==
    ASSUME IInv, PopNext
    PROVE  Fifo!Next \/ UNCHANGED absVars
<1> USE MPSCQueueAssumption, OrderFacts DEF IInv
<1>1. CASE PopLoadHead
    <2>1. InPush' = InPush /\ order' = order
        BY <1>1 DEF PopLoadHead, prodVars, InPush
    <2>2. CASE m_head # Null
        BY <1>1, <2>1, <2>2 DEF PopLoadHead, absVars, Answer
    <2>3. CASE m_head = Null
        <3>1. Answer = Null /\ Answer' = Empty
            BY <1>1, <2>3 DEF PopLoadHead, Answer
        <3>2. order = <<>> \/ Head(order) \in InPush
            <4>1. First = 1
                BY <1>1 DEF PopLoadHead, First
            <4>2. Len(order) >= 1 => Pending(order[1])
                BY <2>3, <4>1 DEF LinkInv
            <4>3. Len(order) >= 1 => Head(order) = order[1]
                BY DEF TypeOK
            <4> QED
                BY <4>2, <4>3 DEF Pending, InPush
        <3>3. Fifo!DequeueEmpty
            BY <2>1, <3>1, <3>2 DEF Fifo!DequeueEmpty, Answer
        <3> QED
            BY <3>3 DEF Fifo!Next
    <2> QED
        BY <2>2, <2>3
<1>2. CASE PopCasTail \/ PopReadNext
    <2>1. cpc # "size" /\ cpc' # "size"
        BY <1>2 DEF PopCasTail, PopReadNext
    <2> QED
        BY <1>2, <2>1 DEF PopCasTail, PopReadNext, absVars, InPush, Answer, prodVars
<1>3. CASE PopCasHead \/ PopStoreHead
    <2>1. /\ cpc \in {"casHead", "storeHead"} /\ cpc' = "size" /\ citem' = citem
          /\ order' = Tail(order) /\ UNCHANGED prodVars
        BY <1>3 DEF PopCasHead, PopStoreHead
    <2>2. order # <<>> /\ citem = Head(order) /\ out = Null
        BY <2>1 DEF ConsumerInv, TypeOK
    <2>3. ~Pending(Head(order))
        BY <2>1, <2>2, HeldIsLinked DEF TypeOK
    <2>4. Head(order) \notin InPush /\ InPush' = InPush
        BY <2>1, <2>3 DEF Pending, InPush, prodVars
    <2>5. Answer = Null /\ Answer' = Head(order)
        BY <2>1, <2>2 DEF Answer
    <2>6. Fifo!Dequeue
        BY <2>1, <2>2, <2>4, <2>5 DEF Fifo!Dequeue, Answer
    <2> QED
        BY <2>6 DEF Fifo!Next
<1>4. CASE PopReturns
    <2>1. Answer' = citem /\ Answer = citem
        BY <1>4 DEF PopReturns, Answer
    <2> QED
        BY <1>4, <2>1 DEF PopReturns, absVars, InPush, prodVars
<1> QED
    BY <1>1, <1>2, <1>3, <1>4 DEF PopNext

\* The consumer gives its answer back by freeing the item, or leaks it at the
\* end of doClear.
LEMMA ConsumerRefines ==
    ASSUME IInv, FreeItem \/ ClearBegin \/ ClearStep
    PROVE  Fifo!Next \/ UNCHANGED absVars
<1> USE DEF IInv
<1>1. CASE ClearBegin
    BY <1>1 DEF ClearBegin, absVars, InPush, Answer, prodVars
<1>2. CASE FreeItem \/ ClearStep
    <2>1. cpc = "idle" /\ cpc' = "idle" /\ out # Null /\ out' = Null
        BY <1>2 DEF FreeItem, ClearStep, ConsumerInv
    <2>2. order' = order /\ InPush' = InPush
        BY <1>2 DEF FreeItem, ClearStep, InPush, prodVars
    <2>3. Answer # Null /\ Answer' = Null
        BY <2>1 DEF Answer
    <2>4. Fifo!Release
        BY <2>2, <2>3 DEF Fifo!Release, Answer
    <2> QED
        BY <2>4 DEF Fifo!Next
<1> QED
    BY <1>1, <1>2

\* The queue implements the abstract queue: items leave in the order of the
\* exchanges of m_tail, each once, and "empty" is answered only when nothing
\* is queued or the oldest push has not returned.
THEOREM QueueIsLinearizable == Spec => Linearizable
<1>1. Init => Fifo!Init
    BY DEF Init, Fifo!Init, InPush
<1>2. IInv /\ [Next]_vars => [Fifo!Next]_absVars
    <2> SUFFICES ASSUME IInv, [Next]_vars PROVE Fifo!Next \/ UNCHANGED absVars
        OBVIOUS
    <2>1. CASE UNCHANGED vars
        BY <2>1 DEF vars, prodVars, consVars, absVars, InPush, Answer
    <2> QED
        BY <2>1, PushRefines, PopRefines, ConsumerRefines DEF Next
<1> QED
    BY <1>1, <1>2, QueueInvariant, PTL DEF Spec, Linearizable, Fifo!Spec, absVars, Answer

(***************************************************************************)
(* LruTtl: the list holds what is cached, the oldest first                  *)
(***************************************************************************)

\* A cache: its list holds each cached item once, the oldest in front.
Ordered(items, list) ==
    \A i, j \in 1..Len(list) : i < j => items[list[i]].age >= items[list[j]].age

Lists(items, list) ==
    /\ DOMAIN items \subseteq Keys
    /\ items \in [DOMAIN items -> [age : Nat]]
    /\ list \in Seq(DOMAIN items)
    /\ \A i, j \in 1..Len(list) : list[i] = list[j] => i = j
    /\ \A k \in DOMAIN items : \E i \in 1..Len(list) : list[i] = k
    /\ Ordered(items, list)

IsCache(l) ==
    /\ l = [storage |-> l.storage, queue |-> l.queue]
    /\ Lists(l.storage, l.queue)

Within(l) == Capacity # 0 => Len(l.queue) <= Capacity

CacheInv == IsCache(lru) /\ Within(lru)

\* A timer, field by field.
TimerType == [running : BOOLEAN, handler : BOOLEAN, armed : BOOLEAN,
              ready : Seq({"Timeout", "Cancel"}), calling : {"None", "Timeout", "Cancel"}]

\* What is left of the wait of a start() that was not late: the wait itself,
\* its completion, or the call of the handler.
OneWait(t) ==
    /\ t.handler
    /\ \/ t.armed /\ t.ready = <<>> /\ t.calling = "None"
       \/ ~t.armed /\ t.ready = <<"Timeout">> /\ t.calling = "None"
       \/ ~t.armed /\ t.ready = <<>> /\ t.calling = "Timeout"

\* A handler is called while it is set; a wait that will call it outside of
\* such a call is one stop() cancels.
TimerInv ==
    /\ timer \in TimerType /\ wanted \in {"started", "stopped"} /\ late \in BOOLEAN
    /\ timer.calling # "None" => timer.handler
    /\ timer.handler /\ timer.armed /\ timer.calling = "None" => timer.running
    /\ ~late /\ wanted = "started" => OneWait(timer)
    /\ ~late /\ wanted = "stopped" => ~Sweeps(timer)

\* What is left of a list without one of its items, each on it once.
LEMMA RemovedAt ==
    ASSUME NEW S, NEW q \in Seq(S), NEW i \in 1..Len(q)
    PROVE  /\ RemoveAt(q, i) \in Seq(S) /\ Len(RemoveAt(q, i)) = Len(q) - 1
           /\ \A j \in 1..(Len(q) - 1) :
                RemoveAt(q, i)[j] = IF j < i THEN q[j] ELSE q[j + 1]
<1> DEFINE front == SubSeq(q, 1, i - 1)
           back == SubSeq(q, i + 1, Len(q))
<1>1. /\ front \in Seq(S) /\ Len(front) = i - 1
      /\ \A j \in 1..(i - 1) : front[j] = q[j]
    BY SubSeqProperties
<1>2. /\ back \in Seq(S) /\ Len(back) = Len(q) - i
      /\ \A j \in 1..(Len(q) - i) : back[j] = q[i + j]
    BY SubSeqProperties
<1>3. RemoveAt(q, i) = front \o back
    BY DEF RemoveAt
<1> HIDE DEF front, back
<1>4. /\ front \o back \in Seq(S) /\ Len(front \o back) = Len(q) - 1
      /\ \A j \in 1..(Len(q) - 1) :
            (front \o back)[j] = IF j <= i - 1 THEN front[j] ELSE back[j - (i - 1)]
    <2>1. /\ front \o back \in Seq(S) /\ Len(front \o back) = Len(front) + Len(back)
          /\ \A j \in 1..(Len(front) + Len(back)) :
                (front \o back)[j] = IF j <= Len(front) THEN front[j] ELSE back[j - Len(front)]
        BY <1>1, <1>2, ConcatProperties
    <2>2. Len(front) = i - 1 /\ Len(front) + Len(back) = Len(q) - 1
        BY <1>1, <1>2
    <2> QED
        BY <2>1, <2>2
<1>5. ASSUME NEW j \in 1..(Len(q) - 1)
      PROVE  (front \o back)[j] = IF j < i THEN q[j] ELSE q[j + 1]
    <2>1. CASE j < i
        BY <1>1, <1>4, <2>1
    <2>2. CASE ~(j < i)
        <3>1. j - (i - 1) \in 1..(Len(q) - i) /\ i + (j - (i - 1)) = j + 1
            BY <2>2
        <3> QED
            BY <1>2, <1>4, <2>2, <3>1
    <2> QED
        BY <2>1, <2>2
<1> QED
    BY <1>3, <1>4, <1>5

LEMMA UnlinkedIs ==
    ASSUME NEW S, NEW q \in Seq(S), \A m, n \in 1..Len(q) : q[m] = q[n] => m = n, NEW k
    PROVE  /\ \A i \in 1..Len(q) : q[i] = k => Unlinked(q, k) = RemoveAt(q, i)
           /\ (\A i \in 1..Len(q) : q[i] # k) => Unlinked(q, k) = q
<1>1. ASSUME NEW i \in 1..Len(q), q[i] = k
      PROVE  SelectInSeq(q, LAMBDA v : v = k) = i
    <2>1. {j \in 1..Len(q) : q[j] = k} = {i}
        BY <1>1
    <2>2. Min({i}) = i
        BY DEF Min
    <2> QED
        BY <2>1, <2>2 DEF SelectInSeq
<1> QED
    BY <1>1 DEF Unlinked, RemoveFirst

LEMMA InSeq ==
    ASSUME NEW S, NEW T, NEW q \in Seq(S), \A i \in 1..Len(q) : q[i] \in T
    PROVE  q \in Seq(T)
OBVIOUS

\* What a cache's list is.
LEMMA ListIs ==
    ASSUME NEW f, NEW q, Lists(f, q)
    PROVE  /\ q \in Seq(DOMAIN f) /\ Len(q) \in Nat
           /\ \A i \in 1..Len(q) : q[i] \in DOMAIN f
           /\ \A i, j \in 1..Len(q) : q[i] = q[j] => i = j
           /\ \A j \in DOMAIN f : \E i \in 1..Len(q) : q[i] = j
           /\ \A i, j \in 1..Len(q) : i < j => f[q[i]].age >= f[q[j]].age
           /\ DOMAIN f \subseteq Keys /\ f \in [DOMAIN f -> [age : Nat]]
<1>1. q \in Seq(DOMAIN f)
    BY DEF Lists
<1>2. Len(q) \in Nat /\ \A i \in 1..Len(q) : q[i] \in DOMAIN f
    BY <1>1
<1>3. /\ \A i, j \in 1..Len(q) : q[i] = q[j] => i = j
      /\ \A j \in DOMAIN f : \E i \in 1..Len(q) : q[i] = j
      /\ DOMAIN f \subseteq Keys /\ f \in [DOMAIN f -> [age : Nat]]
    BY DEF Lists
<1>4. \A i, j \in 1..Len(q) : i < j => f[q[i]].age >= f[q[j]].age
    BY DEF Lists, Ordered
<1> QED
    BY <1>1, <1>2, <1>3, <1>4

\* An item leaves.
LEMMA WithoutKeeps ==
    ASSUME NEW f, NEW q, Lists(f, q), NEW k \in DOMAIN f,
           NEW g, g = [j \in DOMAIN f \ {k} |-> f[j]], NEW d, d = Unlinked(q, k)
    PROVE  Lists(g, d) /\ Len(d) = Len(q) - 1
<1>1. PICK i \in 1..Len(q) : q[i] = k
    BY DEF Lists
<1>2. /\ q \in Seq(DOMAIN f) /\ Len(q) \in Nat
      /\ \A m, n \in 1..Len(q) : q[m] = q[n] => m = n
    BY ListIs
<1>3. d = RemoveAt(q, i)
    BY <1>1, <1>2, UnlinkedIs
<1>4. /\ d \in Seq(DOMAIN f) /\ Len(d) = Len(q) - 1
      /\ \A j \in 1..(Len(q) - 1) : d[j] = IF j < i THEN q[j] ELSE q[j + 1]
    <2>1. /\ RemoveAt(q, i) \in Seq(DOMAIN f) /\ Len(RemoveAt(q, i)) = Len(q) - 1
          /\ \A j \in 1..(Len(q) - 1) :
                RemoveAt(q, i)[j] = IF j < i THEN q[j] ELSE q[j + 1]
        BY <1>2, RemovedAt
    <2> QED
        BY <1>3, <2>1
<1> DEFINE up(j) == IF j < i THEN j ELSE j + 1
<1>5. ASSUME NEW j \in 1..Len(d)
      PROVE  /\ up(j) \in 1..Len(q) /\ up(j) # i /\ d[j] = q[up(j)]
             /\ \A m \in 1..Len(d) : (m < j => up(m) < up(j)) /\ (up(m) = up(j) => m = j)
    <2>1. j \in 1..(Len(q) - 1)
        BY <1>2, <1>4
    <2>2. up(j) \in 1..Len(q) /\ up(j) # i
        BY <1>2, <2>1
    <2>3. d[j] = q[up(j)]
        BY <1>4, <2>1
    <2>4. \A m \in 1..(Len(q) - 1) : (m < j => up(m) < up(j)) /\ (up(m) = up(j) => m = j)
        BY <2>1
    <2> QED
        BY <1>4, <2>2, <2>3, <2>4
<1> HIDE DEF up
<1>6. DOMAIN g = DOMAIN f \ {k} /\ \A j \in DOMAIN g : g[j] = f[j]
    OBVIOUS
<1>7. ASSUME NEW j \in 1..Len(d) PROVE d[j] \in DOMAIN g
    <2>1. up(j) \in 1..Len(q) /\ d[j] = q[up(j)] /\ up(j) # i
        BY <1>5
    <2>2. d[j] \in DOMAIN f /\ d[j] # k
        BY <1>1, <1>2, <2>1
    <2> QED
        BY <1>6, <2>2
<1>8. d \in Seq(DOMAIN g)
    BY <1>4, <1>7
<1>9. ASSUME NEW m \in 1..Len(d), NEW n \in 1..Len(d), d[m] = d[n] PROVE m = n
    <2>1. up(m) = up(n)
        BY <1>2, <1>5, <1>9
    <2> QED
        BY <1>5, <2>1
<1>10. ASSUME NEW j \in DOMAIN g PROVE \E n \in 1..Len(d) : d[n] = j
    <2>1. PICK m \in 1..Len(q) : q[m] = j
        BY <1>6 DEF Lists
    <2>2. m # i
        BY <1>1, <1>6, <2>1
    <2>3. CASE m < i
        BY <1>2, <1>4, <2>1, <2>3
    <2>4. CASE m > i
        <3>1. m - 1 \in 1..(Len(q) - 1) /\ ~(m - 1 < i) /\ (m - 1) + 1 = m
            BY <1>2, <2>4
        <3> QED
            BY <1>4, <2>1, <3>1
    <2> QED
        BY <2>2, <2>3, <2>4
<1>11. ASSUME NEW m \in 1..Len(d), NEW n \in 1..Len(d), m < n
       PROVE  g[d[m]].age >= g[d[n]].age
    <2>1. /\ up(m) \in 1..Len(q) /\ d[m] = q[up(m)]
          /\ up(n) \in 1..Len(q) /\ d[n] = q[up(n)]
          /\ up(m) < up(n)
        BY <1>5, <1>11
    <2>2. f[q[up(m)]].age >= f[q[up(n)]].age
        BY <2>1 DEF Lists, Ordered
    <2> QED
        BY <1>6, <1>7, <2>1, <2>2
<1>12. DOMAIN g \subseteq Keys /\ g \in [DOMAIN g -> [age : Nat]]
    BY DEF Lists
<1> QED
    BY <1>4, <1>8, <1>9, <1>10, <1>11, <1>12 DEF Lists, Ordered

LEMMA RemoveItemKeeps ==
    ASSUME NEW l, IsCache(l), NEW k \in Cached(l)
    PROVE  /\ IsCache(RemoveItem(l, k)) /\ Cached(RemoveItem(l, k)) = Cached(l) \ {k}
           /\ Len(RemoveItem(l, k).queue) = Len(l.queue) - 1
<1> DEFINE g == [j \in DOMAIN l.storage \ {k} |-> l.storage[j]]
           d == Unlinked(l.queue, k)
<1>1. RemoveItem(l, k) = [storage |-> g, queue |-> d]
    BY DEF RemoveItem, Restrict, Cached
<1>2. Lists(g, d) /\ Len(d) = Len(l.queue) - 1
    BY WithoutKeeps DEF IsCache, Cached
<1>3. DOMAIN g = Cached(l) \ {k}
    BY DEF Cached
<1> HIDE DEF g, d
<1> QED
    BY <1>1, <1>2, <1>3 DEF IsCache, Cached

\* The list is as long as the map is large.
LEMMA SizesAre ==
    ASSUME NEW f, NEW q, Lists(f, q)
    PROVE  /\ IsFiniteSet(DOMAIN f) /\ Cardinality(DOMAIN f) = Len(q)
           /\ {q[i] : i \in DOMAIN q} = DOMAIN f
<1>1. /\ q \in Seq(DOMAIN f) /\ Len(q) \in Nat
      /\ \A i \in 1..Len(q) : q[i] \in DOMAIN f
      /\ \A i, j \in 1..Len(q) : q[i] = q[j] => i = j
      /\ \A j \in DOMAIN f : \E i \in 1..Len(q) : q[i] = j
      /\ \A i, j \in 1..Len(q) : i < j => f[q[i]].age >= f[q[j]].age
      /\ DOMAIN f \subseteq Keys /\ f \in [DOMAIN f -> [age : Nat]]
    BY ListIs
<1>2. q \in [1..Len(q) -> DOMAIN f] /\ DOMAIN q = 1..Len(q)
    BY <1>1
<1>3. ExistsBijection(1..Len(q), DOMAIN f)
    <2>1. q \in Bijection(1..Len(q), DOMAIN f)
        BY <1>1, <1>2 DEF Bijection, Injection, Surjection, IsInjective
    <2> QED
        BY <2>1 DEF ExistsBijection
<1>4. IsFiniteSet(DOMAIN f) /\ Cardinality(DOMAIN f) = Len(q)
    BY <1>1, <1>3, FS_CountingElements, FS_NatBijection
<1>5. {q[i] : i \in DOMAIN q} = DOMAIN f
    <2>1. \A i \in DOMAIN q : q[i] \in DOMAIN f
        BY <1>1, <1>2
    <2>2. \A k \in DOMAIN f : \E i \in DOMAIN q : q[i] = k
        BY <1>1, <1>2
    <2> QED
        BY <2>1, <2>2
<1> QED
    BY <1>4, <1>5

LEMMA SizeIs ==
    ASSUME NEW l, IsCache(l)
    PROVE  /\ IsFiniteSet(Cached(l)) /\ Cardinality(Cached(l)) = Len(l.queue)
           /\ {l.queue[i] : i \in DOMAIN l.queue} = Cached(l)
<1>1. Lists(l.storage, l.queue)
    BY DEF IsCache
<1> QED
    BY <1>1, SizesAre DEF Cached

\* Room is made.
LEMMA CheckFullKeeps ==
    ASSUME NEW l, IsCache(l), Within(l), Capacity \in Nat
    PROVE  /\ IsCache(CheckFull(l, Capacity)) /\ Cached(CheckFull(l, Capacity)) \subseteq Cached(l)
           /\ Capacity # 0 => Len(CheckFull(l, Capacity).queue) < Capacity
<1>1. Len(l.queue) \in Nat /\ Cardinality(Cached(l)) = Len(l.queue)
    <2>1. l.queue \in Seq(Cached(l))
        BY DEF IsCache, Lists, Cached
    <2> QED
        BY <2>1, SizeIs
<1>2. CASE IsFull(l, Capacity)
    <2>0. Len(l.queue) = Capacity /\ Capacity # 0
        BY <1>1, <1>2 DEF IsFull
    <2>1. Head(l.queue) \in Cached(l)
        <3>1. l.queue \in Seq(Cached(l))
            BY DEF IsCache, Lists, Cached
        <3>2. l.queue # <<>>
            BY <2>0
        <3> QED
            BY <3>1, <3>2
    <2>2. CheckFull(l, Capacity) = RemoveItem(l, Head(l.queue))
        BY <1>2 DEF CheckFull, LruItem
    <2> QED
        <3>1. /\ IsCache(RemoveItem(l, Head(l.queue)))
              /\ Cached(RemoveItem(l, Head(l.queue))) \subseteq Cached(l)
              /\ Len(RemoveItem(l, Head(l.queue)).queue) = Len(l.queue) - 1
            BY <2>1, RemoveItemKeeps
        <3> QED
            BY <2>0, <2>2, <3>1
<1>3. CASE ~IsFull(l, Capacity)
    <2>1. CheckFull(l, Capacity) = l
        BY <1>3 DEF CheckFull
    <2> QED
        BY <1>1, <1>3, <2>1 DEF IsFull, Within
<1> QED
    BY <1>2, <1>3

LEMMA AppendIs ==
    ASSUME NEW S, NEW q \in Seq(S), NEW k
    PROVE  /\ Append(q, k) \in Seq(S \cup {k}) /\ Len(Append(q, k)) = Len(q) + 1
           /\ Append(q, k)[Len(q) + 1] = k
           /\ \A i \in 1..Len(q) : Append(q, k)[i] = q[i]
<1>1. q \in Seq(S \cup {k})
    OBVIOUS
<1> QED
    BY <1>1, AppendProperties

\* A new item goes to the back.
LEMMA AppendedKeeps ==
    ASSUME NEW f, NEW q, Lists(f, q), NEW k \in Keys, k \notin DOMAIN f,
           NEW g \in [DOMAIN f \cup {k} -> [age : Nat]], g[k].age = 0,
           \A j \in DOMAIN f : g[j] = f[j]
    PROVE  Lists(g, Append(q, k)) /\ Len(Append(q, k)) = Len(q) + 1
<1> DEFINE p == Append(q, k)
<1>1. /\ q \in Seq(DOMAIN f) /\ Len(q) \in Nat
      /\ \A i \in 1..Len(q) : q[i] \in DOMAIN f
      /\ \A i, j \in 1..Len(q) : q[i] = q[j] => i = j
      /\ \A j \in DOMAIN f : \E i \in 1..Len(q) : q[i] = j
      /\ \A i, j \in 1..Len(q) : i < j => f[q[i]].age >= f[q[j]].age
      /\ DOMAIN f \subseteq Keys /\ f \in [DOMAIN f -> [age : Nat]]
    BY ListIs
<1>2. DOMAIN g = DOMAIN f \cup {k}
    OBVIOUS
<1>3. /\ p \in Seq(DOMAIN g) /\ Len(p) = Len(q) + 1
      /\ p[Len(q) + 1] = k
      /\ \A i \in 1..Len(q) : p[i] = q[i]
    BY <1>1, <1>2, AppendIs
<1> HIDE DEF p
<1>4. ASSUME NEW i \in 1..(Len(q) + 1) PROVE i \in 1..Len(q) \/ i = Len(q) + 1
    <2>1. Len(q) \in Nat
        BY <1>1
    <2> QED
        BY <2>1
<1>5. ASSUME NEW i \in 1..Len(p), NEW j \in 1..Len(p), p[i] = p[j] PROVE i = j
    <2>1. ASSUME NEW m \in 1..Len(q) PROVE p[m] # k
        <3>1. p[m] = q[m] /\ q[m] \in DOMAIN f
            BY <1>1, <1>3
        <3> QED
            BY <3>1
    <2>2. CASE i \in 1..Len(q) /\ j \in 1..Len(q)
        BY <1>1, <1>3, <1>5, <2>2
    <2>3. CASE i = Len(q) + 1 \/ j = Len(q) + 1
        BY <1>3, <1>4, <1>5, <2>1, <2>3
    <2> QED
        BY <1>3, <1>4, <2>2, <2>3
<1>6. ASSUME NEW j \in DOMAIN g PROVE \E i \in 1..Len(p) : p[i] = j
    <2>1. CASE j = k
        <3>1. Len(q) + 1 \in 1..(Len(q) + 1)
            BY <1>1
        <3> QED
            BY <1>3, <2>1, <3>1
    <2>2. CASE j \in DOMAIN f
        <3>1. PICK i \in 1..Len(q) : q[i] = j
            BY <1>1, <2>2
        <3>2. i \in 1..(Len(q) + 1)
            BY <1>1
        <3> QED
            BY <1>3, <3>1, <3>2
    <2> QED
        BY <1>2, <2>1, <2>2
<1>7. ASSUME NEW i \in 1..Len(p), NEW j \in 1..Len(p), i < j
      PROVE  g[p[i]].age >= g[p[j]].age
    <2>0. i \in 1..Len(q)
        BY <1>1, <1>3, <1>7
    <2>1. p[i] = q[i] /\ q[i] \in DOMAIN f
        BY <1>1, <1>3, <2>0
    <2>2. CASE j \in 1..Len(q)
        <3>1. p[j] = q[j] /\ q[j] \in DOMAIN f
            BY <1>1, <1>3, <2>2
        <3>2. g[q[i]] = f[q[i]] /\ g[q[j]] = f[q[j]]
            BY <2>1, <3>1
        <3>3. f[q[i]].age >= f[q[j]].age
            BY <1>1, <1>7, <2>0, <2>2
        <3> QED
            BY <2>1, <3>1, <3>2, <3>3
    <2>3. CASE j = Len(q) + 1
        <3>1. g[q[i]].age \in Nat
            BY <2>1
        <3>2. p[j] = k
            BY <1>3, <2>3
        <3> QED
            BY <2>1, <3>1, <3>2
    <2> QED
        BY <1>3, <1>4, <2>2, <2>3
<1>8. Lists(g, p)
    BY <1>1, <1>2, <1>3, <1>5, <1>6, <1>7 DEF Lists, Ordered
<1> QED
    BY <1>3, <1>8 DEF p

\* Items leave from the front.
LEMMA SuffixKeeps ==
    ASSUME NEW f, NEW q, Lists(f, q), NEW n \in 0..Len(q)
    PROVE  /\ Lists(Restrict(f, DOMAIN f \ {q[i] : i \in 1..n}), SubSeq(q, n + 1, Len(q)))
           /\ Len(SubSeq(q, n + 1, Len(q))) <= Len(q)
<1> DEFINE gone == {q[i] : i \in 1..n}
           g == Restrict(f, DOMAIN f \ gone)
           p == SubSeq(q, n + 1, Len(q))
<1>1. /\ q \in Seq(DOMAIN f) /\ Len(q) \in Nat
      /\ \A i \in 1..Len(q) : q[i] \in DOMAIN f
      /\ \A i, j \in 1..Len(q) : q[i] = q[j] => i = j
      /\ \A j \in DOMAIN f : \E i \in 1..Len(q) : q[i] = j
      /\ \A i, j \in 1..Len(q) : i < j => f[q[i]].age >= f[q[j]].age
      /\ DOMAIN f \subseteq Keys /\ f \in [DOMAIN f -> [age : Nat]]
    BY ListIs
<1>0. n \in Nat /\ n <= Len(q) /\ Len(q) - n \in Nat
    BY <1>1
<1>2. /\ p \in Seq(DOMAIN f) /\ Len(p) = Len(q) - n
      /\ \A i \in 1..(Len(q) - n) : p[i] = q[n + i]
    <2>1. \A i \in (n + 1)..Len(q) : q[i] \in DOMAIN f
        BY <1>1
    <2>2. n + 1 \in Int /\ Len(q) \in Int
        BY <1>1
    <2>3. /\ SubSeq(q, n + 1, Len(q)) \in Seq(DOMAIN f)
          /\ Len(SubSeq(q, n + 1, Len(q))) = IF n + 1 <= Len(q) THEN Len(q) - (n + 1) + 1 ELSE 0
          /\ \A i \in 1..(Len(q) - (n + 1) + 1) :
                SubSeq(q, n + 1, Len(q))[i] = q[n + 1 + i - 1]
        BY <2>1, <2>2, SubSeqProperties
    <2>4. Len(q) - (n + 1) + 1 = Len(q) - n /\ (~(n + 1 <= Len(q)) => Len(q) - n = 0)
        BY <1>1
    <2>5. ASSUME NEW i \in 1..(Len(q) - n) PROVE n + 1 + i - 1 = n + i
        BY <1>1
    <2> QED
        BY <2>3, <2>4, <2>5
<1>4. /\ DOMAIN g = DOMAIN f \ gone /\ \A j \in DOMAIN g : g[j] = f[j]
      /\ g \in [DOMAIN g -> [age : Nat]]
    BY <1>1 DEF Restrict
<1> HIDE DEF g, p
<1>3. ASSUME NEW i \in 1..Len(p)
      PROVE  n + i \in 1..Len(q) /\ p[i] = q[n + i] /\ n + i > n
    <2>1. i \in 1..(Len(q) - n)
        BY <1>2
    <2>2. n + i \in 1..Len(q) /\ n + i > n
        BY <1>0, <2>1
    <2> QED
        BY <1>2, <2>1, <2>2
<1>5. ASSUME NEW i \in 1..Len(p) PROVE p[i] \in DOMAIN g
    <2>1. p[i] = q[n + i] /\ n + i \in 1..Len(q)
        BY <1>3
    <2>2. ASSUME NEW m \in 1..n PROVE q[m] # q[n + i]
        <3>1. n + i > n
            BY <1>3
        <3>2. m \in 1..Len(q) /\ m # n + i
            BY <1>0, <3>1
        <3> QED
            BY <1>1, <2>1, <3>2
    <2>3. p[i] \notin gone
        BY <2>1, <2>2
    <2> QED
        BY <1>1, <1>4, <2>1, <2>3
<1>6. p \in Seq(DOMAIN g)
    <2>1. \A i \in 1..Len(p) : p[i] \in DOMAIN g
        BY <1>5
    <2>2. p \in Seq(DOMAIN f)
        BY <1>2
    <2> HIDE DEF Lists
    <2> QED
        BY <2>1, <2>2, InSeq
<1>7. ASSUME NEW i \in 1..Len(p), NEW j \in 1..Len(p), p[i] = p[j] PROVE i = j
    <2>1. /\ p[i] = q[n + i] /\ n + i \in 1..Len(q)
          /\ p[j] = q[n + j] /\ n + j \in 1..Len(q)
        BY <1>3
    <2>2. n + i = n + j
        BY <1>1, <1>7, <2>1
    <2> QED
        BY <1>0, <1>2, <2>2
<1>8. ASSUME NEW j \in DOMAIN g PROVE \E i \in 1..Len(p) : p[i] = j
    <2>1. PICK m \in 1..Len(q) : q[m] = j
        BY <1>1, <1>4
    <2>2. ~(m <= n)
        BY <1>4, <2>1
    <2>3. m - n \in 1..(Len(q) - n) /\ n + (m - n) = m
        BY <1>0, <2>2
    <2> QED
        BY <1>2, <2>1, <2>3
<1>9. ASSUME NEW i \in 1..Len(p), NEW j \in 1..Len(p), i < j
      PROVE  g[p[i]].age >= g[p[j]].age
    <2>1. /\ p[i] = q[n + i] /\ n + i \in 1..Len(q)
          /\ p[j] = q[n + j] /\ n + j \in 1..Len(q)
          /\ n + i < n + j
        BY <1>0, <1>2, <1>3, <1>9
    <2>2. f[q[n + i]].age >= f[q[n + j]].age
        BY <1>1, <2>1
    <2> QED
        BY <1>4, <1>5, <2>1, <2>2
<1>10. DOMAIN g \subseteq Keys /\ g \in [DOMAIN g -> [age : Nat]]
    BY <1>1, <1>4
<1>11. Len(p) <= Len(q)
    BY <1>0, <1>1, <1>2
<1>12. Lists(g, p) /\ Len(p) <= Len(q)
    BY <1>6, <1>7, <1>8, <1>9, <1>10, <1>11 DEF Lists, Ordered
<1> QED
    BY <1>12 DEF g, p

\* The handler of the timer sweeps from the front.
LEMMA SweepKeeps ==
    ASSUME NEW l, IsCache(l)
    PROVE  IsCache(Sweep(l)) /\ Len(Sweep(l).queue) <= Len(l.queue)
<1> DEFINE expired == Cardinality({n \in DOMAIN l.queue :
                                     \A m \in 1..n : IsExpired(l.storage[l.queue[m]])})
           f == Restrict(l.storage, DOMAIN l.storage \ {l.queue[n] : n \in 1..expired})
           q == SubSeq(l.queue, expired + 1, Len(l.queue))
<1>1. expired \in 0..Len(l.queue)
    <2>1. l.queue \in Seq(DOMAIN l.storage)
        BY DEF IsCache, Lists
    <2>2. /\ DOMAIN l.queue = 1..Len(l.queue) /\ Len(l.queue) \in Nat
        BY <2>1
    <2>3. IsFiniteSet(1..Len(l.queue)) /\ Cardinality(1..Len(l.queue)) = Len(l.queue)
        BY <2>2, FS_Interval
    <2>4. {n \in DOMAIN l.queue : \A m \in 1..n : IsExpired(l.storage[l.queue[m]])}
            \subseteq 1..Len(l.queue)
        BY <2>2
    <2>5. expired <= Len(l.queue) /\ expired \in Nat
        BY <2>3, <2>4, FS_Subset, FS_CardinalityType
    <2> HIDE DEF expired
    <2> QED
        BY <2>2, <2>5
<1>2. Sweep(l) = [storage |-> f, queue |-> q]
    BY DEF Sweep, Cached
<1> HIDE DEF expired
<1>3. Lists(f, q) /\ Len(q) <= Len(l.queue)
    <2>1. Lists(l.storage, l.queue)
        BY DEF IsCache
    <2> QED
        BY <1>1, <2>1, SuffixKeeps
<1> HIDE DEF f, q
<1> QED
    BY <1>2, <1>3 DEF IsCache

\* Time passes for all items alike.
LEMMA AgingKeeps ==
    ASSUME NEW f, NEW q, Lists(f, q), NEW limit \in Nat,
           NEW g, g = [k \in DOMAIN f |->
                          [f[k] EXCEPT !.age = IF @ < limit THEN @ + 1 ELSE @]]
    PROVE  Lists(g, q)
<1>1. f \in [DOMAIN f -> [age : Nat]] /\ DOMAIN f \subseteq Keys /\ q \in Seq(DOMAIN f)
    BY DEF Lists
<1>2. DOMAIN g = DOMAIN f
    OBVIOUS
<1>3. ASSUME NEW k \in DOMAIN f
      PROVE  /\ f[k] \in [age : Nat] /\ g[k] \in [age : Nat]
             /\ g[k].age = IF f[k].age < limit THEN f[k].age + 1 ELSE f[k].age
    BY <1>1
<1>4. g \in [DOMAIN g -> [age : Nat]]
    BY <1>2, <1>3
<1>5. ASSUME NEW i \in 1..Len(q), NEW j \in 1..Len(q), i < j
      PROVE  g[q[i]].age >= g[q[j]].age
    <2>1. q[i] \in DOMAIN f /\ q[j] \in DOMAIN f
        BY <1>1
    <2>2. f[q[i]].age >= f[q[j]].age
        BY <1>5 DEF Lists, Ordered
    <2>3. f[q[i]].age \in Nat /\ f[q[j]].age \in Nat
        BY <1>3, <2>1
    <2> QED
        BY <1>3, <2>1, <2>2, <2>3
<1> QED
    BY <1>1, <1>2, <1>4, <1>5 DEF Lists, Ordered

\* The empty cache.
LEMMA EmptyKeeps ==
    LruTtlAssumption => IsCache(EmptyLru) /\ Within(EmptyLru)
<1> SUFFICES ASSUME LruTtlAssumption PROVE IsCache(EmptyLru) /\ Within(EmptyLru)
    OBVIOUS
<1>1. EmptyLru.storage = <<>> /\ EmptyLru.queue = <<>>
    BY DEF EmptyLru
<1>2. DOMAIN <<>> = {} /\ Len(<<>>) = 0
    OBVIOUS
<1>3. Lists(<<>>, <<>>)
    <2>1. <<>> \in [{} -> [age : Nat]]
        OBVIOUS
    <2>2. <<>> \in Seq({})
        OBVIOUS
    <2> QED
        BY <1>2, <2>1, <2>2 DEF Lists, Ordered
<1>4. EmptyLru = [storage |-> EmptyLru.storage, queue |-> EmptyLru.queue]
    BY DEF EmptyLru
<1>5. Capacity # 0 => Len(EmptyLru.queue) <= Capacity
    BY <1>1, <1>2 DEF LruTtlAssumption
<1> QED
    BY <1>1, <1>3, <1>4, <1>5 DEF IsCache, Within

\* emplaceItem and pushItem of a key that is not cached: one item leaves if
\* the cache is full, and the new one goes to the back.
LEMMA AddKeeps ==
    ASSUME LruTtlAssumption, NEW l, IsCache(l), Within(l), NEW k \in Keys,
           k \notin Cached(CheckFull(l, Capacity)),
           NEW new, \/ new = EmplaceItem(l, Capacity, k, NewItem)
                    \/ new = PushItem(l, Capacity, k, NewItem)
    PROVE  IsCache(new) /\ Within(new)
<1> DEFINE f == CheckFull(l, Capacity).storage
           q == CheckFull(l, Capacity).queue
           g == Assigned(f, k, NewItem)
           p == Append(q, k)
<1>1. Lists(f, q) /\ (Capacity # 0 => Len(q) < Capacity) /\ k \notin DOMAIN f
    BY CheckFullKeeps DEF LruTtlAssumption, IsCache, Cached
<1>2. Unlinked(q, k) = q
    <2>1. /\ q \in Seq(DOMAIN f)
          /\ \A m, n \in 1..Len(q) : q[m] = q[n] => m = n
        BY <1>1 DEF Lists
    <2>2. \A i \in 1..Len(q) : q[i] # k
        BY <1>1, <2>1
    <2> QED
        BY <2>1, <2>2, UnlinkedIs
<1>3. new = [storage |-> Assigned(f, k, NewItem), queue |-> p]
    BY <1>1, <1>2 DEF EmplaceItem, PushItem, Emplaced
<1> HIDE DEF f, q
<1>4. /\ g \in [DOMAIN f \cup {k} -> [age : Nat]] /\ g[k].age = 0
      /\ \A j \in DOMAIN f : g[j] = f[j]
    <2>1. f \in [DOMAIN f -> [age : Nat]]
        BY <1>1 DEF Lists
    <2>2. NewItem \in [age : Nat] /\ NewItem.age = 0
        BY DEF NewItem
    <2> QED
        BY <1>1, <2>1, <2>2 DEF Assigned
<1>5. Lists(g, p) /\ Len(p) = Len(q) + 1
    BY <1>1, <1>4, AppendedKeeps
<1>6. Len(q) \in Nat
    BY <1>1 DEF Lists
<1>7. Capacity # 0 => Len(p) <= Capacity
    BY <1>1, <1>5, <1>6 DEF LruTtlAssumption
<1>8. new.storage = g /\ new.queue = p
    BY <1>3
<1> QED
    BY <1>3, <1>5, <1>7, <1>8 DEF IsCache, Within

LEMMA QueueSet ==
    ASSUME NEW f, NEW q, NEW p
    PROVE  [[storage |-> f, queue |-> q] EXCEPT !.queue = p] = [storage |-> f, queue |-> p]
OBVIOUS

\* An item that is touched goes to the back with an age of zero.
LEMMA TouchKeeps ==
    ASSUME LruTtlAssumption, NEW l, IsCache(l), Within(l), NEW k \in Cached(l)
    PROVE  LET new == TouchItem([l EXCEPT !.storage[k].age = 0], k)
           IN  IsCache(new) /\ Within(new)
<1> DEFINE f == l.storage
           q == l.queue
           d == Unlinked(q, k)
           p == Append(d, k)
           h == [j \in DOMAIN f \ {k} |-> f[j]]
           g == [f EXCEPT ![k].age = 0]
           new == TouchItem([l EXCEPT !.storage[k].age = 0], k)
<1>1. Lists(f, q) /\ k \in DOMAIN f /\ l = [storage |-> f, queue |-> q]
    BY DEF IsCache, Cached
<1>2. new = [storage |-> g, queue |-> p]
    <2>1. [l EXCEPT !.storage[k].age = 0] = [storage |-> g, queue |-> q]
        BY <1>1
    <2>2. [[storage |-> g, queue |-> q] EXCEPT !.queue = p] = [storage |-> g, queue |-> p]
        BY QueueSet
    <2> QED
        BY <2>1, <2>2 DEF TouchItem
<1> HIDE DEF f, q, new
<1>3. Lists(h, d) /\ Len(d) = Len(q) - 1
    BY <1>1, WithoutKeeps
<1>4. /\ f \in [DOMAIN f -> [age : Nat]] /\ q \in Seq(DOMAIN f) /\ k \in Keys
    BY <1>1 DEF Lists
<1>5. DOMAIN h = DOMAIN f \ {k} /\ k \notin DOMAIN h /\ DOMAIN h \cup {k} = DOMAIN f
    BY <1>1
<1>6. /\ g \in [DOMAIN f -> [age : Nat]] /\ g[k].age = 0
      /\ \A j \in DOMAIN h : g[j] = h[j]
    <2>1. /\ DOMAIN g = DOMAIN f /\ g[k] = [f[k] EXCEPT !.age = 0]
          /\ \A j \in DOMAIN f \ {k} : g[j] = f[j]
        BY <1>1
    <2>2. g[k] \in [age : Nat] /\ g[k].age = 0
        BY <1>1, <1>4, <2>1
    <2>3. \A j \in DOMAIN f \ {k} : g[j] \in [age : Nat]
        BY <1>4, <2>1
    <2>4. g = [j \in DOMAIN f |-> g[j]]
        BY <1>1
    <2>5. \A j \in DOMAIN f : g[j] \in [age : Nat]
        BY <2>2, <2>3
    <2>6. \A j \in DOMAIN f \ {k} : h[j] = f[j]
        OBVIOUS
    <2> HIDE DEF g, h
    <2>7. g \in [DOMAIN f -> [age : Nat]]
        BY <2>4, <2>5
    <2> QED
        BY <1>5, <2>1, <2>2, <2>6, <2>7
<1> HIDE DEF g, h, d
<1>7. Lists(g, p) /\ Len(p) = Len(d) + 1
    <2>1. /\ g \in [DOMAIN h \cup {k} -> [age : Nat]] /\ g[k].age = 0
          /\ \A j \in DOMAIN h : g[j] = h[j]
        BY <1>5, <1>6
    <2>2. k \in Keys /\ k \notin DOMAIN h
        BY <1>4, <1>5
    <2> HIDE DEF p
    <2>3. Lists(g, Append(d, k)) /\ Len(Append(d, k)) = Len(d) + 1
        BY <1>3, <2>1, <2>2, AppendedKeeps
    <2> QED
        BY <2>3 DEF p
<1>8. Len(q) \in Nat /\ Len(p) = Len(q)
    BY <1>3, <1>4, <1>7
<1>9. new.storage = g /\ new.queue = p
    BY <1>2
<1>10. Capacity # 0 => Len(p) <= Capacity
    BY <1>8 DEF Within, q
<1>11. IsCache(new) /\ Within(new)
    BY <1>2, <1>7, <1>9, <1>10 DEF IsCache, Within
<1> QED
    BY <1>11 DEF new

\* An item that is removed, a sweep, and the time that passes.
LEMMA RemoveKeeps ==
    ASSUME LruTtlAssumption, NEW l, IsCache(l), Within(l), NEW k \in Cached(l)
    PROVE  IsCache(RemoveItem(l, k)) /\ Within(RemoveItem(l, k))
<1>1. /\ IsCache(RemoveItem(l, k))
      /\ Len(RemoveItem(l, k).queue) = Len(l.queue) - 1
    BY RemoveItemKeeps
<1>2. Len(l.queue) \in Nat
    BY DEF IsCache, Lists
<1> QED
    BY <1>1, <1>2 DEF Within, LruTtlAssumption

LEMMA MaxAgeType ==
    LruTtlAssumption => MaxAge \in Nat
<1> SUFFICES ASSUME LruTtlAssumption PROVE MaxAge \in Nat
    OBVIOUS
<1> DEFINE last == CHOOSE t \in Ttls : \A u \in Ttls : u <= t
<1>1. last \in Ttls
    BY DEF LruTtlAssumption
<1>2. last \in Nat
    BY <1>1 DEF LruTtlAssumption
<1>3. MaxAge = 1 + last
    BY DEF MaxAge
<1> HIDE DEF last
<1> QED
    BY <1>2, <1>3

LEMMA ElapseKeeps ==
    ASSUME LruTtlAssumption, CacheInv, Elapse
    PROVE  CacheInv'
<1> DEFINE f == lru.storage
           q == lru.queue
           g == Aged(f)
<1>1. Lists(f, q) /\ lru = [storage |-> f, queue |-> q]
    BY DEF CacheInv, IsCache
<1>2. lru' = [lru EXCEPT !.storage = g]
    BY DEF Elapse
<1> HIDE DEF f, q, g
<1>3. lru' = [storage |-> g, queue |-> q]
    BY <1>1, <1>2
<1>4. Lists(g, q)
    BY <1>1, MaxAgeType, AgingKeeps DEF g, Aged
<1>5. Capacity # 0 => Len(q) <= Capacity
    BY DEF CacheInv, Within, q
<1> QED
    BY <1>3, <1>4, <1>5 DEF CacheInv, IsCache, Within

\* The handler sweeps the cache or clears it.
LEMMA HandlerKeeps ==
    ASSUME LruTtlAssumption, CacheInv, HandlerRuns
    PROVE  CacheInv'
<1>1. lru' = EmptyLru \/ lru' = Sweep(lru)
    BY DEF HandlerRuns
<1>2. CASE lru' = EmptyLru
    BY <1>2, EmptyKeeps DEF CacheInv
<1>3. CASE lru' = Sweep(lru)
    <2>1. IsCache(Sweep(lru)) /\ Len(Sweep(lru).queue) <= Len(lru.queue)
        BY SweepKeeps DEF CacheInv
    <2>2. Len(lru.queue) \in Nat /\ Len(Sweep(lru).queue) \in Nat
        BY <2>1 DEF CacheInv, IsCache, Lists
    <2>3. Capacity # 0 => Len(Sweep(lru).queue) <= Capacity
        BY <2>1, <2>2 DEF CacheInv, Within, LruTtlAssumption
    <2> QED
        BY <1>3, <2>1, <2>3 DEF CacheInv, Within
<1> QED
    BY <1>1, <1>2, <1>3

\* CacheInv is inductive for users who put no item under a key that is
\* cached.
LEMMA CacheInvStep ==
    ASSUME LruTtlAssumption, {"replace", "relink"} \subseteq Avoided,
           CacheInv, [CacheNext]_cacheVars
    PROVE  CacheInv'
<1>1. CASE HandlerRuns
    BY <1>1, HandlerKeeps
<1>2. CASE InvokeHandler \/ Expire \/ Start \/ Stop \/ \E t \in Ttls : SetTtl(t)
    <2>1. lru' = lru
        BY <1>2 DEF InvokeHandler, Expire, Start, Stop, SetTtl
    <2> QED
        BY <2>1 DEF CacheInv
<1>3. ASSUME NEW k \in Keys, Emplace(k) \/ Push(k) PROVE CacheInv'
    <2>1. k \notin Cached(CheckFull(lru, Capacity))
        BY <1>3 DEF Emplace, Push, Irregular
    <2>2. \/ lru' = EmplaceItem(lru, Capacity, k, NewItem)
          \/ lru' = PushItem(lru, Capacity, k, NewItem)
        BY <1>3 DEF Emplace, Push
    <2> QED
        BY <2>1, <2>2, AddKeeps DEF CacheInv
<1>4. ASSUME NEW k \in Keys, Touch(k) PROVE CacheInv'
    <2>1. k \in Cached(lru) /\ lru' = TouchItem([lru EXCEPT !.storage[k].age = 0], k)
        BY <1>4 DEF Touch, Found
    <2> QED
        BY <2>1, TouchKeeps DEF CacheInv
<1>5. ASSUME NEW k \in Keys, RemoveKey(k) PROVE CacheInv'
    <2>1. k \in Cached(lru) /\ lru' = RemoveItem(lru, k)
        BY <1>5 DEF RemoveKey, Found
    <2> QED
        BY <2>1, RemoveKeeps DEF CacheInv
<1>6. CASE Clear
    BY <1>6, EmptyKeeps DEF Clear, CacheInv
<1>7. CASE Elapse
    BY <1>7, ElapseKeeps
<1>8. CASE UNCHANGED cacheVars
    BY <1>8 DEF cacheVars, CacheInv
<1> QED
    BY <1>1, <1>2, <1>3, <1>4, <1>5, <1>6, <1>7, <1>8 DEF CacheNext

\* What an item of the list tells of the cache.
LEMMA CacheInvTells ==
    CacheInv => OldestInFront
<1> SUFFICES ASSUME CacheInv PROVE OldestInFront
    OBVIOUS
<1>1. /\ Cardinality(Cached(lru)) = Len(lru.queue)
      /\ {lru.queue[i] : i \in DOMAIN lru.queue} = Cached(lru)
    BY SizeIs DEF CacheInv
<1>2. DOMAIN lru.queue = 1..Len(lru.queue)
    <2>1. lru.queue \in Seq(DOMAIN lru.storage)
        BY DEF CacheInv, IsCache, Lists
    <2> QED
        BY <2>1
<1>3. \A i, j \in DOMAIN lru.queue :
         i < j => lru.storage[lru.queue[i]].age >= lru.storage[lru.queue[j]].age
    BY <1>2 DEF CacheInv, IsCache, Lists, Ordered
<1> QED
    BY <1>1, <1>3 DEF OldestInFront, CacheInv, Within

\* lruttl.h: as long as nobody puts an item under a key that is cached, the
\* list holds each cached item once, within the capacity, with the items that
\* expire first in front, whatever the timer and its handler do in between.
THEOREM OldestStaysInFront ==
    {"replace", "relink"} \subseteq Avoided => (CacheSpec => []OldestInFront)
<1> SUFFICES ASSUME {"replace", "relink"} \subseteq Avoided
             PROVE  CacheSpec => []OldestInFront
    OBVIOUS
<1>1. CacheInit => CacheInv
    BY LruTtlAssumption, EmptyKeeps DEF CacheInit, CacheInv
<1>2. CacheInv /\ [CacheNext]_cacheVars => CacheInv'
    BY LruTtlAssumption, CacheInvStep
<1> QED
    BY <1>1, <1>2, CacheInvTells, PTL DEF CacheSpec

(***************************************************************************)
(* LruTtl: the timer does what it was last told to                          *)
(***************************************************************************)

LEMMA TimerInit ==
    CacheInit => TimerInv
<1> SUFFICES ASSUME CacheInit PROVE TimerInv
    OBVIOUS
<1>1. /\ timer = [running |-> FALSE, handler |-> FALSE, armed |-> FALSE, ready |-> <<>>,
                  calling |-> "None"]
      /\ wanted = "stopped" /\ late = FALSE
    BY DEF CacheInit, NewTimer
<1>2. <<>> \in Seq({"Timeout", "Cancel"})
    OBVIOUS
<1>3. timer \in TimerType
    BY <1>1, <1>2 DEF TimerType
<1> QED
    BY <1>1, <1>3 DEF TimerInv, Sweeps

\* A timer with other values of its fields.
LEMMA TimerWithHandler ==
    ASSUME NEW t \in TimerType, NEW h \in BOOLEAN, NEW n, n = [t EXCEPT !.handler = h]
    PROVE  /\ n \in TimerType /\ n.handler = h /\ n.running = t.running
           /\ n.armed = t.armed /\ n.ready = t.ready /\ n.calling = t.calling
    BY DEF TimerType

LEMMA TimerWithoutRunning ==
    ASSUME NEW t \in TimerType, NEW n, n = [t EXCEPT !.running = FALSE]
    PROVE  /\ n \in TimerType /\ ~n.running /\ n.handler = t.handler
           /\ n.armed = t.armed /\ n.ready = t.ready /\ n.calling = t.calling
    BY DEF TimerType

LEMMA TimerWithWait ==
    ASSUME NEW t \in TimerType, NEW n, n = [t EXCEPT !.running = TRUE, !.armed = TRUE]
    PROVE  /\ n \in TimerType /\ n.running /\ n.armed /\ n.handler = t.handler
           /\ n.ready = t.ready /\ n.calling = t.calling
    BY DEF TimerType

LEMMA TimerWithoutCall ==
    ASSUME NEW t \in TimerType, NEW n, n = [t EXCEPT !.calling = "None"]
    PROVE  /\ n \in TimerType /\ n.calling = "None" /\ n.handler = t.handler
           /\ n.running = t.running /\ n.armed = t.armed /\ n.ready = t.ready
    BY DEF TimerType

\* A wait that has ended is queued.
LEMMA TimerEnds ==
    ASSUME NEW t \in TimerType, NEW r \in {"Timeout", "Cancel"},
           NEW n, n = [t EXCEPT !.armed = FALSE, !.ready = Append(@, r)]
    PROVE  /\ n \in TimerType /\ n.running = t.running /\ n.handler = t.handler
           /\ ~n.armed /\ n.calling = t.calling /\ n.ready = Append(t.ready, r)
<1>1. t.ready \in Seq({"Timeout", "Cancel"})
    BY DEF TimerType
<1>2. Append(t.ready, r) \in Seq({"Timeout", "Cancel"})
    BY <1>1
<1>3. n = [t EXCEPT !.armed = FALSE, !.ready = Append(t.ready, r)]
    OBVIOUS
<1> QED
    BY <1>2, <1>3 DEF TimerType

\* How the first of the completions ends, and what one that is queued changes.
LEMMA FirstEnds ==
    ASSUME NEW q \in Seq({"Timeout", "Cancel"}), NEW r \in {"Timeout", "Cancel"}
    PROVE  /\ q # <<>> => Head(q) \in {"Timeout", "Cancel"}
           /\ q # <<>> => Tail(q) \in Seq({"Timeout", "Cancel"})
           /\ Append(q, r) # <<>>
           /\ Head(Append(q, r)) = IF q = <<>> THEN r ELSE Head(q)
    OBVIOUS

LEMMA TimerAborts ==
    ASSUME NEW t \in TimerType
    PROVE  LET n == Aborted(t)
           IN  /\ n \in TimerType /\ n.running = t.running /\ n.handler = t.handler
               /\ ~n.armed /\ n.calling = t.calling
               /\ n.ready = IF t.armed THEN Append(t.ready, "Cancel") ELSE t.ready
<1>1. CASE t.armed
    <2>1. Aborted(t) = [t EXCEPT !.armed = FALSE, !.ready = Append(@, "Cancel")]
        BY <1>1 DEF Aborted
    <2> QED
        BY <1>1, <2>1, TimerEnds
<1>2. CASE ~t.armed
    BY <1>2 DEF Aborted
<1> QED
    BY <1>1, <1>2

LEMMA TimerStarts ==
    ASSUME NEW t \in TimerType
    PROVE  LET n == TimerStart(t)
           IN  /\ n \in TimerType /\ n.running /\ n.armed
               /\ n.handler = t.handler /\ n.calling = t.calling
               /\ n.ready = IF t.armed THEN Append(t.ready, "Cancel") ELSE t.ready
<1> DEFINE a == Aborted(t)
<1>1. TimerStart(t) = [a EXCEPT !.running = TRUE, !.armed = TRUE]
    BY DEF TimerStart
<1>2. /\ a \in TimerType /\ a.handler = t.handler /\ a.calling = t.calling
      /\ a.ready = IF t.armed THEN Append(t.ready, "Cancel") ELSE t.ready
    BY TimerAborts
<1> HIDE DEF a
<1> QED
    BY <1>1, <1>2, TimerWithWait

LEMMA TimerStops ==
    ASSUME NEW t \in TimerType
    PROVE  LET n == TimerStop(t)
           IN  /\ n \in TimerType /\ ~n.running
               /\ n.handler = t.handler /\ n.calling = t.calling
               /\ n.armed = (t.armed /\ ~t.running)
               /\ n.ready = IF t.armed /\ t.running THEN Append(t.ready, "Cancel") ELSE t.ready
<1> DEFINE a == Aborted(t)
<1>1. CASE t.running
    <2>1. TimerStop(t) = [a EXCEPT !.running = FALSE]
        BY <1>1 DEF TimerStop
    <2>2. /\ a \in TimerType /\ a.handler = t.handler /\ a.calling = t.calling /\ ~a.armed
          /\ a.ready = IF t.armed THEN Append(t.ready, "Cancel") ELSE t.ready
          /\ a.armed \in BOOLEAN
        BY TimerAborts DEF TimerType
    <2> HIDE DEF a
    <2> QED
        BY <1>1, <2>1, <2>2, TimerWithoutRunning
<1>2. CASE ~t.running
    <2>1. TimerStop(t) = t
        BY <1>2 DEF TimerStop
    <2>2. t.armed \in BOOLEAN
        BY DEF TimerType
    <2> QED
        BY <1>2, <2>1, <2>2
<1> QED
    BY <1>1, <1>2

\* A completion is about to call the handler: what the next one was to end
\* with is what the handler is called with.
LEMMA InvokeKeepsTimer ==
    ASSUME TimerInv, InvokeHandler
    PROVE  TimerInv'
<1>1. /\ timer \in TimerType /\ timer.calling = "None" /\ timer.ready # <<>>
      /\ timer.ready \in Seq({"Timeout", "Cancel"})
      /\ UNCHANGED <<wanted, late>>
    BY DEF TimerInv, InvokeHandler, TimerType
<1>2. /\ Head(timer.ready) \in {"Timeout", "Cancel"}
      /\ Tail(timer.ready) \in Seq({"Timeout", "Cancel"})
    BY <1>1, FirstEnds
<1> DEFINE c == IF timer.handler THEN Head(timer.ready) ELSE "None"
<1>3. timer' = [timer EXCEPT !.ready = Tail(timer.ready), !.running = FALSE, !.calling = c]
    BY DEF InvokeHandler
<1>4. /\ c \in {"None", "Timeout", "Cancel"}
      /\ timer.handler => c = Head(timer.ready) /\ c # "None"
      /\ ~timer.handler => c = "None"
    BY <1>2
<1> HIDE DEF c
<1>5. /\ timer' \in TimerType /\ timer'.handler = timer.handler /\ timer'.armed = timer.armed
      /\ timer'.ready = Tail(timer.ready) /\ timer'.calling = c
    BY <1>1, <1>2, <1>3, <1>4 DEF TimerType
<1>6. Sweeps(timer) <=> Sweeps(timer')
    BY <1>1, <1>4, <1>5 DEF Sweeps, NextEnd
<1>7. ASSUME OneWait(timer) PROVE OneWait(timer')
    <2>1. timer.handler /\ timer.ready = <<"Timeout">> /\ ~timer.armed
        BY <1>1, <1>7 DEF OneWait
    <2>2. Head(timer.ready) = "Timeout" /\ Tail(timer.ready) = <<>>
        BY <2>1
    <2> QED
        BY <1>4, <1>5, <2>1, <2>2 DEF OneWait
<1> QED
    BY <1>1, <1>4, <1>5, <1>6, <1>7 DEF TimerInv

\* The handler runs: on a cancelled wait it is reset, otherwise the timer
\* starts anew.
LEMMA HandlerKeepsTimer ==
    ASSUME TimerInv, HandlerRuns
    PROVE  TimerInv'
<1> DEFINE t == [timer EXCEPT !.calling = "None"]
<1>1. /\ timer \in TimerType /\ timer.calling \in {"Timeout", "Cancel"} /\ timer.handler
      /\ UNCHANGED <<wanted, late>>
    BY DEF TimerInv, HandlerRuns
<1>2. /\ t \in TimerType /\ t.calling = "None" /\ t.handler
      /\ t.armed = timer.armed /\ t.ready = timer.ready
    BY <1>1, TimerWithoutCall
<1>3. CASE timer.calling = "Cancel"
    <2>1. timer' = [t EXCEPT !.handler = FALSE]
        BY <1>3 DEF HandlerRuns
    <2> HIDE DEF t
    <2>2. timer' \in TimerType /\ ~timer'.handler /\ timer'.calling = "None"
        BY <1>2, <2>1, TimerWithHandler
    <2>3. ~Sweeps(timer') /\ ~OneWait(timer)
        BY <1>3, <2>2 DEF Sweeps, OneWait
    <2> QED
        BY <1>1, <2>2, <2>3 DEF TimerInv
<1>4. CASE timer.calling = "Timeout"
    <2>1. timer' = TimerStart(t)
        BY <1>4 DEF HandlerRuns
    <2> HIDE DEF t
    <2>2. /\ timer' \in TimerType /\ timer'.running /\ timer'.armed /\ timer'.handler
          /\ timer'.calling = "None"
          /\ timer'.ready = IF timer.armed THEN Append(timer.ready, "Cancel") ELSE timer.ready
        BY <1>2, <2>1, TimerStarts
    <2>3. Sweeps(timer)
        BY <1>1, <1>4 DEF Sweeps
    <2>4. ASSUME OneWait(timer) PROVE OneWait(timer')
        <3>1. ~timer.armed /\ timer.ready = <<>>
            BY <1>4, <2>4 DEF OneWait
        <3> QED
            BY <2>2, <3>1 DEF OneWait
    <2> QED
        BY <1>1, <2>2, <2>3, <2>4 DEF TimerInv
<1> QED
    BY <1>1, <1>3, <1>4

\* The time of a wait is up: it is the next completion only if none is queued.
LEMMA ExpireKeepsTimer ==
    ASSUME TimerInv, Expire
    PROVE  TimerInv'
<1>1. /\ timer \in TimerType /\ timer.armed /\ timer.ready \in Seq({"Timeout", "Cancel"})
      /\ UNCHANGED <<wanted, late>>
    BY DEF TimerInv, Expire, TimerType
<1>2. timer' = [timer EXCEPT !.armed = FALSE, !.ready = Append(@, "Timeout")]
    BY DEF Expire
<1>3. /\ timer' \in TimerType /\ timer'.handler = timer.handler
      /\ timer'.calling = timer.calling /\ ~timer'.armed
      /\ timer'.ready = Append(timer.ready, "Timeout")
    BY <1>1, <1>2, TimerEnds
<1>4. /\ timer'.ready # <<>>
      /\ Head(timer'.ready) = IF timer.ready = <<>> THEN "Timeout" ELSE Head(timer.ready)
    BY <1>1, <1>3, FirstEnds
<1>5. NextEnd(timer') = NextEnd(timer)
    BY <1>1, <1>4 DEF NextEnd
<1>6. Sweeps(timer') <=> Sweeps(timer)
    BY <1>3, <1>5 DEF Sweeps
<1>7. ASSUME OneWait(timer) PROVE OneWait(timer')
    <2>1. timer.handler /\ timer.ready = <<>> /\ timer.calling = "None"
        BY <1>1, <1>7 DEF OneWait
    <2>2. timer'.ready = <<"Timeout">>
        BY <1>3, <2>1
    <2> QED
        BY <1>3, <2>1, <2>2 DEF OneWait
<1> QED
    BY <1>1, <1>3, <1>6, <1>7 DEF TimerInv

\* start(): with nothing left of an earlier wait, there is one wait.
LEMMA StartKeepsTimer ==
    ASSUME TimerInv, Start
    PROVE  TimerInv'
<1> DEFINE t == [timer EXCEPT !.handler = TRUE]
<1>1. /\ timer \in TimerType /\ timer' = TimerStart(t) /\ wanted' = "started"
      /\ late' = (timer.armed \/ timer.ready # <<>> \/ timer.calling # "None")
    BY DEF TimerInv, Start
<1>2. late' \in BOOLEAN
    BY <1>1, Zenon
<1>3. /\ t \in TimerType /\ t.handler /\ t.armed = timer.armed /\ t.ready = timer.ready
      /\ t.calling = timer.calling
    BY <1>1, TimerWithHandler
<1> HIDE DEF t
<1>4. /\ timer' \in TimerType /\ timer'.running /\ timer'.armed /\ timer'.handler
      /\ timer'.calling = timer.calling
      /\ timer'.ready = IF timer.armed THEN Append(timer.ready, "Cancel") ELSE timer.ready
    BY <1>1, <1>3, TimerStarts
<1>5. ~late' => OneWait(timer')
    BY <1>1, <1>4 DEF OneWait
<1> QED
    BY <1>1, <1>2, <1>4, <1>5 DEF TimerInv

\* stop(): unless the next completion is that of a wait that has ended by
\* itself, it is a cancelled one, or there is none.
LEMMA StopKeepsTimer ==
    ASSUME TimerInv, Stop
    PROVE  TimerInv'
<1>1. /\ timer \in TimerType /\ timer' = TimerStop(timer) /\ wanted' = "stopped"
      /\ late' = (Sweeps(timer) /\ (timer.calling = "Timeout" \/ timer.ready # <<>>))
      /\ timer.ready \in Seq({"Timeout", "Cancel"})
    BY DEF TimerInv, Stop, TimerType
<1>2. late' \in BOOLEAN
    BY <1>1, Zenon
<1>3. /\ timer' \in TimerType /\ timer'.handler = timer.handler
      /\ timer'.calling = timer.calling /\ timer'.armed = (timer.armed /\ ~timer.running)
      /\ timer'.ready = IF timer.armed /\ timer.running THEN Append(timer.ready, "Cancel")
                        ELSE timer.ready
    BY <1>1, TimerStops
<1>4. /\ timer.calling # "None" => timer.handler
      /\ timer.handler /\ timer.armed /\ timer.calling = "None" => timer.running
    BY DEF TimerInv
<1>5. ASSUME Sweeps(timer') PROVE Sweeps(timer) /\ late'
    <2>1. timer.handler /\ timer.calling \in {"Timeout", "None"}
        BY <1>3, <1>5 DEF Sweeps
    <2>2. CASE timer.calling = "Timeout"
        BY <1>1, <2>1, <2>2 DEF Sweeps
    <2>3. CASE timer.calling = "None"
        <3>1. ~timer'.armed /\ NextEnd(timer') = "Timeout"
            BY <1>3, <1>4, <1>5, <2>1, <2>3 DEF Sweeps
        <3>2. timer'.ready # <<>> /\ Head(timer'.ready) = "Timeout"
            BY <3>1 DEF NextEnd
        <3>3. timer.ready # <<>> /\ Head(timer.ready) = "Timeout"
            BY <1>1, <1>3, <3>2, FirstEnds
        <3> QED
            BY <1>1, <2>1, <2>3, <3>3 DEF Sweeps, NextEnd
    <2> QED
        BY <2>1, <2>2, <2>3
<1> QED
    BY <1>1, <1>2, <1>3, <1>4, <1>5 DEF TimerInv

LEMMA TimerInvStep ==
    ASSUME TimerInv, [CacheNext]_cacheVars
    PROVE  TimerInv'
<1>1. CASE InvokeHandler
    BY <1>1, InvokeKeepsTimer
<1>2. CASE HandlerRuns
    BY <1>2, HandlerKeepsTimer
<1>3. CASE Expire
    BY <1>3, ExpireKeepsTimer
<1>4. CASE Start
    BY <1>4, StartKeepsTimer
<1>5. CASE Stop
    BY <1>5, StopKeepsTimer
<1>6. ASSUME UNCHANGED <<timer, wanted, late>> PROVE TimerInv'
    BY <1>6 DEF TimerInv
<1>7. CASE \/ \E k \in Keys : Emplace(k) \/ Push(k) \/ Touch(k) \/ RemoveKey(k)
           \/ Clear \/ Elapse \/ \E t \in Ttls : SetTtl(t)
    BY <1>6, <1>7 DEF Emplace, Push, Touch, RemoveKey, Clear, Elapse, SetTtl
<1>8. CASE UNCHANGED cacheVars
    BY <1>6, <1>8 DEF cacheVars
<1> QED
    BY <1>1, <1>2, <1>3, <1>4, <1>5, <1>7, <1>8 DEF CacheNext

\* lruttl.h and asiotimer.cpp: in whatever order start() and stop() are called
\* and waits end, are cancelled and call the handler, after a call that was not
\* late the cache is swept if that call was start(), and is not if it was
\* stop(), however late the calls before it were.
THEOREM TimerObeysCalls ==
    CacheSpec => []TimerObeys
<1>1. TimerInv /\ [CacheNext]_cacheVars => TimerInv'
    BY TimerInvStep
<1>2. TimerInv => TimerObeys
    <2>1. OneWait(timer) => Sweeps(timer)
        BY DEF OneWait, Sweeps, NextEnd
    <2> QED
        BY <2>1 DEF TimerInv, TimerObeys
<1> QED
    BY <1>1, <1>2, TimerInit, PTL DEF CacheSpec
===============================================================================
