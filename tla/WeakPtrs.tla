------------------------------ MODULE WeakPtrs ------------------------------
(***************************************************************************)
(* SharedPtr and WeakPtr of hatn (common/pointers/mempool) on one managed  *)
(* object.  The object counts its shared pointers; its first weak pointer  *)
(* allocates a control block, which the weak pointers and the object keep  *)
(* alive by a count of its own, and whose lock state decides between a     *)
(* thread that makes a shared pointer of a weak one and the thread that    *)
(* has dropped the last shared pointer and destroys the object.            *)
(*                                                                         *)
(* A step is one atomic access to a count, the lock state or a pointer.    *)
(* The accesses are sequentially consistent.                               *)
(***************************************************************************)
EXTENDS Naturals, FiniteSets

CONSTANTS Threads,
          Creator,   \* the thread that makes the object
          Blocks,    \* memory for control blocks
          None,
          MaxCalls,  \* bound: calls of all threads
          Avoided    \* irregular behaviour left out, see May

ASSUME WeakPtrsAssumption ==
    /\ IsFiniteSet(Threads) /\ Creator \in Threads
    /\ None \notin Blocks
    /\ MaxCalls \in Nat

VARIABLES
    object,  \* [alive, refs, weakCtrl]
    ctrl,    \* the control blocks
    shared,  \* whether a thread holds a SharedPtr
    weak,    \* the block of the WeakPtr of a thread, or None
    pc,      \* where each thread is
    reg,     \* the block a thread works on
    freed,   \* history: something was used after it had been destroyed
    calls    \* counter of the bound

vars == <<object, ctrl, shared, weak, pc, reg, freed, calls>>

\* What goes wrong when it happens:
\*   revived     a lock() begins and ends while the thread that dropped the
\*               last shared pointer has not yet locked for deletion
\*   firstWeaks  two threads make the first weak pointer at the same time
May(irregular) == irregular \notin Avoided

--------------------------------------------------------------------------
\* WeakCtrl: m_lockState is negative when locked for deletion.
NewCtrl == [live |-> TRUE, refs |-> 0, sharedObj |-> TRUE, clones |-> 0, deleting |-> FALSE]
NoCtrl == [live |-> FALSE, refs |-> 0, sharedObj |-> FALSE, clones |-> 0, deleting |-> FALSE]

Goes(t, place) == pc' = [pc EXCEPT ![t] = place]

\* A call begins in a thread that has none under way.
Calls(t) ==
    /\ pc[t] = "idle"
    /\ calls < MaxCalls
    /\ calls' = calls + 1

\* Accesses to the object and to a block, destroyed or not.
UsesObject == freed' = (freed \/ ~object.alive)
Uses(b) == freed' = (freed \/ ~ctrl[b].live)

\* WeakCtrl::reset, the last reference frees the block.
Released(b) == IF ctrl[b].refs = 1 THEN [ctrl EXCEPT ![b] = NoCtrl]
               ELSE [ctrl EXCEPT ![b].refs = @ - 1]
Referenced(b) == [ctrl EXCEPT ![b].refs = @ + 1]

--------------------------------------------------------------------------
(* Copies.                                                                 *)

CopyShared(t, u) ==
    /\ Calls(t) /\ pc[u] = "idle"
    /\ shared[t] /\ ~shared[u]
    /\ UsesObject
    /\ object' = [object EXCEPT !.refs = @ + 1]
    /\ shared' = [shared EXCEPT ![u] = TRUE]
    /\ UNCHANGED <<ctrl, weak, pc, reg>>

CopyWeak(t, u) ==
    /\ Calls(t) /\ pc[u] = "idle"
    /\ weak[t] # None /\ weak[u] = None
    /\ Uses(weak[t])
    /\ ctrl' = Referenced(weak[t])
    /\ weak' = [weak EXCEPT ![u] = weak[t]]
    /\ UNCHANGED <<object, shared, pc, reg>>

ResetWeak(t) ==
    /\ Calls(t)
    /\ weak[t] # None
    /\ Uses(weak[t])
    /\ ctrl' = Released(weak[t])
    /\ weak' = [weak EXCEPT ![t] = None]
    /\ UNCHANGED <<object, shared, pc, reg>>

--------------------------------------------------------------------------
(* SharedPtr::reset.                                                       *)

DropShared(t) ==
    /\ Calls(t)
    /\ shared[t]
    /\ UsesObject
    /\ object' = [object EXCEPT !.refs = @ - 1]
    /\ shared' = [shared EXCEPT ![t] = FALSE]
    /\ IF object.refs = 1 THEN Goes(t, "last") ELSE UNCHANGED pc
    /\ UNCHANGED <<ctrl, weak, reg>>

LoadCtrl(t) ==
    /\ pc[t] = "last"
    /\ UsesObject
    /\ reg' = [reg EXCEPT ![t] = object.weakCtrl]
    /\ Goes(t, IF object.weakCtrl = None THEN "destroy" ELSE "lockForDelete")
    /\ UNCHANGED <<object, ctrl, shared, weak, calls>>

\* A bug: the deletion does not care for clones under way.
LockForDeleteAlways(t) ==
    /\ pc[t] = "lockForDelete"
    /\ Uses(reg[t])
    /\ ctrl' = [ctrl EXCEPT ![reg[t]].deleting = TRUE]
    /\ Goes(t, "clear")
    /\ UNCHANGED <<object, shared, weak, reg, calls>>

\* The compare-and-swap from 0: not while a weak pointer is being cloned, and
\* then the object is left to whom the clone belongs.
LockForDelete(t) ==
    LET b == reg[t]
        unlocked == ~ctrl[b].deleting /\ ctrl[b].clones = 0
    IN  /\ pc[t] = "lockForDelete"
        /\ Uses(b)
        /\ ctrl' = [ctrl EXCEPT ![b].deleting = @ \/ unlocked]
        /\ Goes(t, IF unlocked THEN "clear" ELSE "idle")
        /\ UNCHANGED <<object, shared, weak, reg, calls>>

ClearSharedPtr(t) ==
    /\ pc[t] = "clear"
    /\ Uses(reg[t])
    /\ ctrl' = [ctrl EXCEPT ![reg[t]].sharedObj = FALSE]
    /\ Goes(t, "releaseCtrl")
    /\ UNCHANGED <<object, shared, weak, reg, calls>>

\* A bug: the reference of the object to the block is not given up.
ReleaseCtrlNot(t) ==
    /\ pc[t] = "releaseCtrl"
    /\ Goes(t, "destroy")
    /\ UNCHANGED <<object, ctrl, shared, weak, reg, freed, calls>>

ReleaseCtrl(t) ==
    /\ pc[t] = "releaseCtrl"
    /\ Uses(reg[t])
    /\ ctrl' = Released(reg[t])
    /\ Goes(t, "destroy")
    /\ UNCHANGED <<object, shared, weak, reg, calls>>

Destroy(t) ==
    /\ pc[t] = "destroy"
    /\ UsesObject
    /\ object' = [object EXCEPT !.alive = FALSE]
    /\ Goes(t, "idle")
    /\ UNCHANGED <<ctrl, shared, weak, reg, calls>>

--------------------------------------------------------------------------
(* WeakPtr::loadFromShared.                                                *)

\* A thread makes the first weak pointer.
MakesFirst(t) == pc[t] \in {"allocate", "addForShared"}

MakeWeak(t) ==
    /\ Calls(t)
    /\ shared[t] /\ weak[t] = None
    /\ (\E u \in Threads : MakesFirst(u)) => May("firstWeaks")
    /\ UsesObject
    /\ reg' = [reg EXCEPT ![t] = object.weakCtrl]
    /\ Goes(t, IF object.weakCtrl = None THEN "allocate" ELSE "addForWeak")
    /\ UNCHANGED <<object, ctrl, shared, weak>>

\* A block is constructed and offered; another one may have been set before,
\* and is taken instead.
Allocate(t) ==
    /\ pc[t] = "allocate"
    /\ \E b \in Blocks :
         /\ ~ctrl[b].live
         /\ UsesObject
         /\ IF object.weakCtrl = None
            THEN /\ ctrl' = [ctrl EXCEPT ![b] = NewCtrl]
                 /\ object' = [object EXCEPT !.weakCtrl = b]
                 /\ reg' = [reg EXCEPT ![t] = b]
            ELSE /\ reg' = [reg EXCEPT ![t] = object.weakCtrl]
                 /\ UNCHANGED <<ctrl, object>>
    /\ Goes(t, "addForShared")
    /\ UNCHANGED <<shared, weak, calls>>

\* A bug: the object has no reference of its own to the block.
AddForSharedNot(t) ==
    /\ pc[t] = "addForShared"
    /\ Goes(t, "addForWeak")
    /\ UNCHANGED <<object, ctrl, shared, weak, reg, freed, calls>>

AddForShared(t) ==
    /\ pc[t] = "addForShared"
    /\ Uses(reg[t])
    /\ ctrl' = Referenced(reg[t])
    /\ Goes(t, "addForWeak")
    /\ UNCHANGED <<object, shared, weak, reg, calls>>

AddForWeak(t) ==
    /\ pc[t] = "addForWeak"
    /\ Uses(reg[t])
    /\ ctrl' = Referenced(reg[t])
    /\ weak' = [weak EXCEPT ![t] = reg[t]]
    /\ Goes(t, "idle")
    /\ UNCHANGED <<object, shared, reg, calls>>

--------------------------------------------------------------------------
(* WeakPtr::lock.                                                          *)

\* A block locked for deletion counts the attempt and refuses it.
LockForClone(t) ==
    /\ Calls(t)
    /\ weak[t] # None /\ ~shared[t]
    /\ Uses(weak[t])
    /\ ctrl' = [ctrl EXCEPT ![weak[t]].clones = @ + 1]
    /\ IF ctrl[weak[t]].deleting THEN UNCHANGED pc ELSE Goes(t, "clone")
    /\ UNCHANGED <<object, shared, weak, reg>>

Clone(t) ==
    /\ pc[t] = "clone"
    /\ Uses(weak[t])
    /\ Goes(t, IF ctrl[weak[t]].sharedObj THEN "addRef" ELSE "unlock")
    /\ UNCHANGED <<object, ctrl, shared, weak, reg, calls>>

AddRef(t) ==
    /\ pc[t] = "addRef"
    /\ UsesObject
    /\ object' = [object EXCEPT !.refs = @ + 1]
    /\ shared' = [shared EXCEPT ![t] = TRUE]
    /\ Goes(t, "unlock")
    /\ UNCHANGED <<ctrl, weak, reg, calls>>

UnlockForClone(t) ==
    /\ pc[t] = "unlock"
    /\ (\E u \in Threads : pc[u] \in {"last", "lockForDelete"}) => May("revived")
    /\ Uses(weak[t])
    /\ ctrl' = [ctrl EXCEPT ![weak[t]].clones = @ - 1]
    /\ Goes(t, "idle")
    /\ UNCHANGED <<object, shared, weak, reg, calls>>

--------------------------------------------------------------------------
Init ==
    /\ object = [alive |-> TRUE, refs |-> 1, weakCtrl |-> None]
    /\ ctrl = [b \in Blocks |-> NoCtrl]
    /\ shared = [t \in Threads |-> t = Creator]
    /\ weak = [t \in Threads |-> None]
    /\ pc = [t \in Threads |-> "idle"]
    /\ reg = [t \in Threads |-> None]
    /\ freed = FALSE
    /\ calls = 0

Next ==
    \E t \in Threads :
        \/ \E u \in Threads \ {t} : CopyShared(t, u) \/ CopyWeak(t, u)
        \/ DropShared(t) \/ LoadCtrl(t) \/ LockForDelete(t) \/ ClearSharedPtr(t)
        \/ ReleaseCtrl(t) \/ Destroy(t)
        \/ MakeWeak(t) \/ Allocate(t) \/ AddForShared(t) \/ AddForWeak(t)
        \/ ResetWeak(t)
        \/ LockForClone(t) \/ Clone(t) \/ AddRef(t) \/ UnlockForClone(t)

Spec == Init /\ [][Next]_vars

--------------------------------------------------------------------------
(* What it promises.                                                       *)

Places == {"idle", "last", "lockForDelete", "clear", "releaseCtrl", "destroy",
           "allocate", "addForShared", "addForWeak", "clone", "addRef", "unlock"}

\* Every variable keeps its type.
TypeOK ==
    /\ object \in [alive : BOOLEAN, refs : Nat, weakCtrl : Blocks \cup {None}]
    /\ ctrl \in [Blocks -> [live : BOOLEAN, refs : Nat, sharedObj : BOOLEAN,
                            clones : Nat, deleting : BOOLEAN]]
    /\ shared \in [Threads -> BOOLEAN]
    /\ weak \in [Threads -> Blocks \cup {None}]
    /\ pc \in [Threads -> Places]
    /\ reg \in [Threads -> Blocks \cup {None}]
    /\ freed \in BOOLEAN
    /\ calls \in 0..MaxCalls

\* Who holds a shared pointer, made by lock() or not, holds an object that
\* exists, and that nobody has begun to destroy: a lock() elsewhere finds it.
HeldIsAlive ==
    \A t \in Threads : shared[t] =>
        /\ object.alive
        /\ object.weakCtrl # None => ~ctrl[object.weakCtrl].deleting

\* The object and the control blocks are not touched once they are gone.
NoUseAfterFree == ~freed

\* When no pointer is left and no thread is in a call, nothing is: neither
\* the object nor a control block.
NothingLeaks ==
    (\A t \in Threads : ~shared[t] /\ weak[t] = None /\ pc[t] = "idle")
      => ~object.alive /\ \A b \in Blocks : ~ctrl[b].live

============================================================================
