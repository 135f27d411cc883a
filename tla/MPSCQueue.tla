----------------------------- MODULE MPSCQueue -----------------------------
(***************************************************************************)
(* hatn::common::MPSCQueue: the "almost lock-free" queue of many producers  *)
(* and one consumer, one action per atomic operation.                       *)
(*                                                                          *)
(* Items are addresses: an item the consumer frees may be allocated again,  *)
(* so a stale pointer compares equal to a new item.  The atomics are        *)
(* sequentially consistent except the relaxed loads of isEmpty and size,    *)
(* which nothing in this module branches on.  The retries of the            *)
(* compare_exchange_weak loop of push have no effect and are left out.      *)
(***************************************************************************)
EXTENDS Integers, Sequences, FiniteSets

CONSTANTS
    Producers,
    Items,       \* addresses
    Null,        \* nullptr
    Empty,       \* popItem returned nullptr
    ClearSlack   \* the 16 of doClear

ASSUME MPSCQueueAssumption ==
    /\ IsFiniteSet(Producers) /\ IsFiniteSet(Items)
    /\ Null \notin Items /\ Empty \notin Items /\ Null # Empty
    /\ ClearSlack \in Nat

VARIABLES
    m_head, m_tail, m_size,
    m_next,      \* the link of each item
    free,        \* addresses the allocator may hand out
    ppc,         \* where each producer is in pushInternalItem
    item,        \* the item each producer pushes
    prev,        \* the tail each producer replaced
    cpc,         \* where the consumer is in popItem
    citem,       \* popItem's item
    cnext,       \* popItem's next
    out,         \* what popItem returned and the consumer still holds
    clearing,    \* pops that doClear may still make, -1 outside doClear
    order        \* auxiliary: items between tail exchange and head update

prodVars == <<ppc, item, prev>>
consVars == <<cpc, citem, cnext, out, clearing>>
vars == <<m_head, m_tail, m_size, m_next, free, prodVars, consVars, order>>

Init ==
    /\ m_head = Null /\ m_tail = Null /\ m_size = 0
    /\ m_next = [i \in Items |-> Null]
    /\ free = Items
    /\ ppc = [p \in Producers |-> "idle"]
    /\ item = [p \in Producers |-> Null]
    /\ prev = [p \in Producers |-> Null]
    /\ cpc = "idle" /\ citem = Null /\ cnext = Null /\ out = Null
    /\ clearing = -1
    /\ order = <<>>

-----------------------------------------------------------------------------
(* pushInternalItem                                                         *)

\* createItem, then m_size.fetch_add(1)
PushBegin(p, i) ==
    /\ ppc[p] = "idle" /\ i \in free
    /\ free' = free \ {i}
    /\ m_next' = [m_next EXCEPT ![i] = Null]
    /\ m_size' = m_size + 1
    /\ item' = [item EXCEPT ![p] = i]
    /\ ppc' = [ppc EXCEPT ![p] = "exchange"]
    /\ UNCHANGED <<m_head, m_tail, prev, consVars, order>>

PushExchange(p) ==
    /\ ppc[p] = "exchange"
    /\ prev' = [prev EXCEPT ![p] = m_tail]
    /\ m_tail' = item[p]
    /\ order' = Append(order, item[p])
    /\ ppc' = [ppc EXCEPT ![p] = "link"]
    /\ UNCHANGED <<m_head, m_size, m_next, free, item, consVars>>

\* Variant with a bug: m_head decides whether there is a previous item.
PushLinkByHead(p) ==
    /\ ppc[p] = "link"
    /\ IF prev[p] # Null /\ m_head # Null
       THEN m_next' = [m_next EXCEPT ![prev[p]] = item[p]] /\ UNCHANGED m_head
       ELSE m_head' = item[p] /\ UNCHANGED m_next
    /\ item' = [item EXCEPT ![p] = Null]
    /\ prev' = [prev EXCEPT ![p] = Null]
    /\ ppc' = [ppc EXCEPT ![p] = "idle"]
    /\ UNCHANGED <<m_tail, m_size, free, consVars, order>>

\* Link behind the previous tail, or become the head.
PushLink(p) ==
    /\ ppc[p] = "link"
    /\ IF prev[p] # Null
       THEN m_next' = [m_next EXCEPT ![prev[p]] = item[p]] /\ UNCHANGED m_head
       ELSE m_head' = item[p] /\ UNCHANGED m_next
    /\ item' = [item EXCEPT ![p] = Null]
    /\ prev' = [prev EXCEPT ![p] = Null]
    /\ ppc' = [ppc EXCEPT ![p] = "idle"]
    /\ UNCHANGED <<m_tail, m_size, free, consVars, order>>

-----------------------------------------------------------------------------
(* popItem, called by the consumer or by doClear                            *)

PopLoadHead ==
    /\ cpc = "idle" /\ out = Null
    /\ citem' = m_head
    /\ IF m_head = Null
       THEN out' = Empty /\ UNCHANGED cpc
       ELSE cpc' = "casTail" /\ UNCHANGED out
    /\ UNCHANGED <<m_head, m_tail, m_size, m_next, free, prodVars, cnext, clearing, order>>

\* Variant with a bug: the tail is left pointing at the item just taken.
PopCasTailKept ==
    /\ cpc = "casTail"
    /\ cpc' = IF m_tail = citem THEN "casHead" ELSE "spin"
    /\ UNCHANGED <<m_head, m_tail, m_size, m_next, free, prodVars, citem, cnext, out, clearing,
                   order>>

\* Variant with a bug: whether there is a next item is decided by m_next.
PopCasTailByNext ==
    /\ cpc = "casTail"
    /\ IF m_next[citem] = Null
       THEN m_tail' = Null /\ cpc' = "casHead"
       ELSE UNCHANGED m_tail /\ cpc' = "spin"
    /\ UNCHANGED <<m_head, m_size, m_next, free, prodVars, citem, cnext, out, clearing, order>>

PopCasTail ==
    /\ cpc = "casTail"
    /\ IF m_tail = citem
       THEN m_tail' = Null /\ cpc' = "casHead"
       ELSE UNCHANGED m_tail /\ cpc' = "spin"
    /\ UNCHANGED <<m_head, m_size, m_next, free, prodVars, citem, cnext, out, clearing, order>>

PopCasHead ==
    /\ cpc = "casHead"
    /\ m_head' = IF m_head = citem THEN Null ELSE m_head
    /\ order' = Tail(order)
    /\ cpc' = "size"
    /\ UNCHANGED <<m_tail, m_size, m_next, free, prodVars, citem, cnext, out, clearing>>

\* The loop that waits until a producer has linked the next item.
PopReadNext ==
    /\ cpc = "spin" /\ m_next[citem] # Null
    /\ cnext' = m_next[citem]
    /\ cpc' = "storeHead"
    /\ UNCHANGED <<m_head, m_tail, m_size, m_next, free, prodVars, citem, out, clearing, order>>

PopStoreHead ==
    /\ cpc = "storeHead"
    /\ m_head' = cnext
    /\ cnext' = Null
    /\ order' = Tail(order)
    /\ cpc' = "size"
    /\ UNCHANGED <<m_tail, m_size, m_next, free, prodVars, citem, out, clearing>>

PopReturns ==
    /\ cpc = "size"
    /\ m_size' = m_size - 1
    /\ out' = citem
    /\ citem' = Null
    /\ cpc' = "idle"
    /\ UNCHANGED <<m_head, m_tail, m_next, free, prodVars, cnext, clearing, order>>

\* taskLoop frees an item with drop() once its task has run.
FreeItem ==
    /\ out # Null /\ clearing = -1
    /\ free' = IF out = Empty THEN free ELSE free \cup {out}
    /\ out' = Null
    /\ UNCHANGED <<m_head, m_tail, m_size, m_next, prodVars, cpc, citem, cnext, clearing, order>>

\* doClear: at most size+slack items; the item popped when the count is used
\* up is neither dropped nor put back.
ClearBegin ==
    /\ cpc = "idle" /\ out = Null /\ clearing = -1
    /\ clearing' = m_size + ClearSlack
    /\ UNCHANGED <<m_head, m_tail, m_size, m_next, free, prodVars, cpc, citem, cnext, out, order>>

ClearStep ==
    /\ out # Null /\ clearing >= 0
    /\ out' = Null
    /\ \/ /\ out # Empty /\ clearing > 0
          /\ free' = free \cup {out}
          /\ clearing' = clearing - 1
       \/ /\ out = Empty \/ clearing = 0
          /\ clearing' = -1
          /\ UNCHANGED free
    /\ UNCHANGED <<m_head, m_tail, m_size, m_next, prodVars, cpc, citem, cnext, order>>

PopNext ==
    \/ PopLoadHead \/ PopCasTail \/ PopCasHead \/ PopReadNext \/ PopStoreHead
    \/ PopReturns

Next ==
    \/ \E p \in Producers :
          \/ \E i \in Items : PushBegin(p, i)
          \/ PushExchange(p) \/ PushLink(p)
    \/ PopNext \/ FreeItem \/ ClearBegin \/ ClearStep

Spec == Init /\ [][Next]_vars

\* Producers finish their pushes; the consumer keeps taking.
FairSpec ==
    /\ Spec
    /\ \A p \in Producers : WF_vars(PushExchange(p) \/ PushLink(p))
    /\ WF_vars(PopNext \/ FreeItem \/ ClearStep)

-----------------------------------------------------------------------------
(* Properties                                                               *)

\* Every variable keeps its type.
TypeOK ==
    /\ {m_head, m_tail, citem, cnext} \subseteq Items \cup {Null}
    /\ m_size \in Nat
    /\ m_next \in [Items -> Items \cup {Null}]
    /\ free \subseteq Items
    /\ ppc \in [Producers -> {"idle", "exchange", "link"}]
    /\ item \in [Producers -> Items \cup {Null}]
    /\ prev \in [Producers -> Items \cup {Null}]
    /\ cpc \in {"idle", "casTail", "casHead", "spin", "storeHead", "size"}
    /\ out \in Items \cup {Null, Empty}
    /\ clearing \in Nat \cup {-1}
    /\ order \in Seq(Items)

InPush == {item[p] : p \in {q \in Producers : ppc[q] = "link"}}

\* The queue is linearizable: items leave in the order of the exchanges of
\* m_tail, each once, and popItem finds nothing only when nothing is there
\* or the oldest push is not finished.
Fifo == INSTANCE ConcurrentFifo WITH
            fifo <- order,
            pending <- InPush,
            out <- IF cpc = "size" THEN citem ELSE out

Linearizable == Fifo!Spec

\* No address is handed out while a producer is about to link behind it,
\* the consumer reads it, or it is still queued: a link is never written
\* into a freed item.
NoUseAfterFree ==
    /\ \A p \in Producers : {item[p], prev[p]} \cap free = {}
    /\ {citem, cnext, m_head, m_tail} \cap free = {}
    /\ \A k \in DOMAIN order : order[k] \notin free

\* The consumer's spin on m_next always ends.
SpinEnds == cpc = "spin" ~> cpc # "spin"
=============================================================================
