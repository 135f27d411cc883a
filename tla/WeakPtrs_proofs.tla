--------------------------- MODULE WeakPtrs_proofs ---------------------------
(***************************************************************************)
(* Proofs about WeakPtrs for every number of threads and calls.  As long as *)
(* neither irregular behaviour happens (two threads that make the first     *)
(* weak pointer at once, a lock() that ends between the last drop and the   *)
(* lock for deletion), who holds a shared pointer holds a live object,      *)
(* nothing is touched after it has been destroyed and nothing leaks.        *)
(***************************************************************************)
EXTENDS WeakPtrs, FiniteSetTheorems, TLAPS

(***************************************************************************)
(* The inductive invariant                                                  *)
(***************************************************************************)

W == object.weakCtrl

\* Who holds a shared or a weak pointer, is in lock(), or destroys the object.
Sharers == {t \in Threads : shared[t]}
Weaks == {t \in Threads : weak[t] # None}
Cloners == {t \in Threads : pc[t] \in {"clone", "addRef", "unlock"}}
Deciding == {t \in Threads : pc[t] \in {"last", "lockForDelete"}}
Deleting == {t \in Threads : pc[t] \in {"clear", "releaseCtrl", "destroy"}}
Firsts == {t \in Threads : MakesFirst(t)}

\* The reference that the object itself holds to its control block.
OwnRef ==
    /\ W # None /\ object.alive
    /\ \A t \in Threads : pc[t] \notin {"addForShared", "destroy"}

\* The counts are exact: of shared pointers, of references to the block, and
\* of lock() calls under way as long as the block is not locked for deletion.
CountInv ==
    /\ object.refs = Cardinality(Sharers)
    /\ W # None => ctrl[W].refs = Cardinality(Weaks) + IF OwnRef THEN 1 ELSE 0
    /\ W # None /\ ~ctrl[W].deleting => ctrl[W].clones = Cardinality(Cloners)

\* The only block is that of the object, and lives as long as it is referenced.
BlockInv ==
    /\ \A b \in Blocks : b # W => ~ctrl[b].live
    /\ \A t \in Threads : weak[t] \in {None, W}
    /\ W # None => (ctrl[W].live <=> ctrl[W].refs > 0 \/ Firsts # {})

\* loadFromShared: its caller holds a shared pointer, and one thread at a time
\* makes the first weak pointer.
MakerInv ==
    /\ \A t, u \in Firsts : t = u
    /\ \A t \in Threads :
         /\ pc[t] \in {"allocate", "addForShared", "addForWeak"} => shared[t] /\ weak[t] = None
         /\ pc[t] = "allocate" => W = None
         /\ pc[t] \in {"addForShared", "addForWeak"} => W # None /\ reg[t] = W
         /\ pc[t] = "addForShared" => Weaks = {}
         /\ pc[t] = "addForWeak" => Firsts = {}

\* lock(): its caller has a weak pointer, and the object has not been given up.
ClonerInv ==
    /\ \A t \in Cloners : weak[t] # None /\ (shared[t] <=> pc[t] = "unlock")
    /\ Cloners # {} => object.alive /\ ctrl[W].sharedObj /\ ~ctrl[W].deleting

\* reset() of the last shared pointer: until the block is locked for deletion
\* only a lock() that has not ended can have made another shared pointer, and
\* afterwards nobody can.
DeleterInv ==
    /\ \A t, u \in Deciding \cup Deleting : t = u
    /\ Deciding # {} => object.alive /\ Sharers \subseteq Cloners
    /\ Deciding # {} /\ W # None => ~ctrl[W].deleting
    /\ Deleting # {} \/ ~object.alive => Sharers = {} /\ Cloners = {}
    /\ Deciding \cup Deleting # {} => object.alive
    /\ object.alive /\ Deciding \cup Deleting = {} => Sharers \cup Cloners # {}
    /\ \A t \in Threads :
         /\ pc[t] = "lockForDelete" => W # None /\ reg[t] = W
         /\ pc[t] \in {"clear", "releaseCtrl"} => W # None /\ reg[t] = W
    /\ W # None /\ ctrl[W].live =>
         (ctrl[W].deleting <=> Deleting # {} \/ ~object.alive)
    /\ W # None /\ object.alive /\ Deleting = {} => ctrl[W].sharedObj

\* What the object and a control block are.
ObjectType == [alive : BOOLEAN, refs : Nat, weakCtrl : Blocks \cup {None}]
CtrlType == [live : BOOLEAN, refs : Nat, sharedObj : BOOLEAN, clones : Nat, deleting : BOOLEAN]

\* Neither irregular behaviour happens.
Regular == {"revived", "firstWeaks"} \subseteq Avoided

IInv ==
    /\ TypeOK /\ CountInv /\ BlockInv /\ MakerInv /\ ClonerInv /\ DeleterInv
    /\ NoUseAfterFree

(***************************************************************************)
(* Counting                                                                 *)
(***************************************************************************)

\* The sets that are counted are finite.
LEMMA SetsFinite ==
    /\ IsFiniteSet(Sharers) /\ IsFiniteSet(Weaks) /\ IsFiniteSet(Cloners)
    /\ Cardinality(Sharers) \in Nat /\ Cardinality(Weaks) \in Nat
    /\ Cardinality(Cloners) \in Nat
BY WeakPtrsAssumption, FS_Subset, FS_CardinalityType DEF Sharers, Weaks, Cloners

\* A member more or less changes a count by one, and a set that counts
\* nothing is empty.
LEMMA Counting ==
    ASSUME NEW S, IsFiniteSet(S), NEW t
    PROVE  /\ Cardinality(S) \in Nat
           /\ t \in S => Cardinality(S \ {t}) = Cardinality(S) - 1 /\ Cardinality(S) > 0
           /\ t \notin S => Cardinality(S \cup {t}) = Cardinality(S) + 1
           /\ Cardinality(S) = 0 <=> S = {}
<1>1. Cardinality(S) \in Nat /\ (Cardinality(S) = 0 <=> S = {})
    BY FS_CardinalityType, FS_EmptySet
<1>2. t \in S => Cardinality(S \ {t}) = Cardinality(S) - 1
    BY FS_RemoveElement
<1>3. t \notin S => Cardinality(S \cup {t}) = Cardinality(S) + 1
    BY FS_AddElement
<1> QED
    BY <1>1, <1>2, <1>3

(***************************************************************************)
(* Every action preserves the invariant                                     *)
(***************************************************************************)

\* A pointer in use points to something that exists.
LEMMA HoldersSafe ==
    ASSUME IInv
    PROVE  /\ \A t \in Sharers : object.alive /\ Deleting = {}
           /\ \A t \in Weaks : weak[t] = W /\ W \in Blocks /\ ctrl[W].live
           /\ Weaks = {} => Cloners = {}
           /\ W = None => Weaks = {}
           /\ W # None => W \in Blocks
           /\ W # None /\ object.alive /\ Deleting = {} => ctrl[W].live
<1> USE SetsFinite, WeakPtrsAssumption DEF IInv
<1>1. \A t \in Sharers : object.alive /\ Deleting = {}
    BY DEF DeleterInv
<1>2. /\ W # None => W \in Blocks
      /\ \A t \in Weaks : weak[t] = W /\ W \in Blocks
    BY DEF TypeOK, BlockInv, W, Weaks
<1>3. W # None /\ Weaks # {} => ctrl[W].live
    <2> SUFFICES ASSUME W # None, Weaks # {} PROVE ctrl[W].live
        OBVIOUS
    <2>1. Cardinality(Weaks) > 0
        BY Counting
    <2>2. ctrl[W].refs > 0
        BY <2>1 DEF CountInv
    <2> QED
        BY <2>2 DEF BlockInv
<1>4. (Weaks = {} => Cloners = {}) /\ (W = None => Weaks = {})
    BY DEF ClonerInv, BlockInv, Weaks, Cloners
<1>5. W # None /\ object.alive /\ Deleting = {} => ctrl[W].live
    <2> SUFFICES ASSUME W # None, object.alive, Deleting = {} PROVE ctrl[W].live
        OBVIOUS
    <2>1. CASE Firsts # {}
        BY <2>1 DEF BlockInv
    <2>2. CASE Firsts = {}
        <3>1. OwnRef
            BY <2>2 DEF OwnRef, Firsts, MakesFirst, Deleting
        <3> QED
            BY <3>1 DEF CountInv, BlockInv
    <2> QED
        BY <2>1, <2>2
<1> QED
    BY <1>1, <1>2, <1>3, <1>4, <1>5

\* What an added and a released reference make of a block.
LEMMA BlockUpdates ==
    ASSUME TypeOK, NEW b \in Blocks
    PROVE  /\ Referenced(b)[b] = [ctrl[b] EXCEPT !.refs = @ + 1]
           /\ \A c \in Blocks : c # b => Referenced(b)[c] = ctrl[c] /\ Released(b)[c] = ctrl[c]
           /\ ctrl[b].refs = 1 => Released(b)[b] = NoCtrl
           /\ ctrl[b].refs # 1 => Released(b)[b] = [ctrl[b] EXCEPT !.refs = @ - 1]
           /\ Referenced(b) \in [Blocks -> CtrlType]
           /\ ctrl[b].refs > 0 => Released(b) \in [Blocks -> CtrlType]
<1>1. ctrl \in [Blocks -> CtrlType]
    BY DEF TypeOK, CtrlType
<1>2. /\ Referenced(b)[b] = [ctrl[b] EXCEPT !.refs = @ + 1]
      /\ \A c \in Blocks : c # b => Referenced(b)[c] = ctrl[c]
      /\ Referenced(b) \in [Blocks -> CtrlType]
    BY <1>1 DEF Referenced, CtrlType
<1>3. CASE ctrl[b].refs = 1
    <2>1. Released(b) = [ctrl EXCEPT ![b] = NoCtrl]
        BY <1>3 DEF Released
    <2>2. NoCtrl \in CtrlType
        BY DEF NoCtrl, CtrlType
    <2>3. Released(b)[b] = NoCtrl /\ \A c \in Blocks : c # b => Released(b)[c] = ctrl[c]
        BY <1>1, <2>1
    <2>4. Released(b) \in [Blocks -> CtrlType]
        BY <1>1, <2>1, <2>2
    <2> QED
        BY <1>2, <1>3, <2>3, <2>4
<1>4. CASE ctrl[b].refs # 1
    <2>1. Released(b) = [ctrl EXCEPT ![b].refs = @ - 1]
        BY <1>4 DEF Released
    <2>2. /\ Released(b)[b] = [ctrl[b] EXCEPT !.refs = @ - 1]
          /\ \A c \in Blocks : c # b => Released(b)[c] = ctrl[c]
        BY <1>1, <2>1
    <2>3. ctrl[b].refs > 0 => Released(b) \in [Blocks -> CtrlType]
        BY <1>1, <2>1 DEF CtrlType
    <2> QED
        BY <1>2, <1>4, <2>2, <2>3
<1> QED
    BY <1>3, <1>4

\* A flag of a block, set or reset.
LEMMA FlagUpdates ==
    ASSUME TypeOK, NEW b \in Blocks, NEW flag \in BOOLEAN
    PROVE  /\ [ctrl EXCEPT ![b].deleting = flag] \in [Blocks -> CtrlType]
           /\ [ctrl EXCEPT ![b].sharedObj = flag] \in [Blocks -> CtrlType]
<1>1. ctrl \in [Blocks -> CtrlType]
    BY DEF TypeOK, CtrlType
<1>2. ctrl[b] \in CtrlType
    BY <1>1
<1>3. [ctrl[b] EXCEPT !.deleting = flag] \in CtrlType
    BY <1>2 DEF CtrlType
<1>4. [ctrl[b] EXCEPT !.sharedObj = flag] \in CtrlType
    BY <1>2 DEF CtrlType
<1> QED
    BY <1>1, <1>3, <1>4

\* The object is destroyed.
LEMMA DestroyPreserves ==
    ASSUME Regular, IInv, NEW t \in Threads, Destroy(t)
    PROVE  IInv'
<1> USE WeakPtrsAssumption DEF IInv
<1>1. /\ Sharers' = Sharers
      /\ Weaks' = Weaks
      /\ Cloners' = Cloners
      /\ Deciding' = Deciding
      /\ Deleting' = Deleting \ {t}
      /\ Firsts' = Firsts
    BY DEF Destroy, UsesObject, Goes, TypeOK, Sharers, Weaks, Cloners, Deciding, Deleting,
           Firsts, MakesFirst
<1>2. /\ object.alive /\ ~object'.alive /\ object'.refs = object.refs /\ W' = W /\ ctrl' = ctrl
      /\ t \in Deleting /\ Deleting' = {} /\ Deciding = {} /\ Sharers = {} /\ Cloners = {}
      /\ ~OwnRef /\ ~OwnRef'
    <2>1. t \in Deleting
        BY DEF Destroy, Deleting
    <2>2. object.alive /\ Deleting \ {t} = {} /\ Deciding = {} /\ Sharers = {} /\ Cloners = {}
        BY <2>1 DEF DeleterInv, Deciding, Deleting
    <2>3. ~object'.alive /\ object'.refs = object.refs /\ W' = W /\ ctrl' = ctrl
        BY DEF Destroy, W, TypeOK
    <2> QED
        BY <1>1, <2>1, <2>2, <2>3 DEF Destroy, OwnRef
<1>3. TypeOK'
    <2>1. object' \in ObjectType
        BY <1>2 DEF Destroy, TypeOK, ObjectType
    <2>2. ctrl' \in [Blocks -> CtrlType]
        BY DEF Destroy, TypeOK, CtrlType
    <2>3. pc' \in [Threads -> Places]
        BY DEF Destroy, Goes, Places, TypeOK
    <2>4. /\ shared' \in [Threads -> BOOLEAN]
          /\ weak' \in [Threads -> Blocks \cup {None}]
          /\ reg' \in [Threads -> Blocks \cup {None}]
        BY DEF Destroy, TypeOK
    <2>5. freed' \in BOOLEAN /\ calls' \in 0..MaxCalls
        BY DEF Destroy, Uses, UsesObject, TypeOK
    <2> QED
        BY <2>1, <2>2, <2>3, <2>4, <2>5 DEF TypeOK, ObjectType, CtrlType
<1>4. CountInv'
    BY <1>1, <1>2 DEF CountInv, Destroy, UsesObject, Goes, TypeOK
<1>5. BlockInv'
    BY <1>1, <1>2 DEF BlockInv, Destroy, UsesObject, Goes, TypeOK
<1>6. MakerInv'
    BY <1>1, <1>2 DEF MakerInv, Weaks, Firsts, MakesFirst, Destroy, UsesObject, Goes, TypeOK
<1>7. ClonerInv'
    BY <1>1, <1>2 DEF ClonerInv, Cloners, Destroy, UsesObject, Goes, TypeOK
<1>8. DeleterInv'
    BY <1>1, <1>2 DEF DeleterInv, Deciding, Deleting, Cloners, Destroy, UsesObject, Goes, TypeOK
<1>9. NoUseAfterFree'
    BY <1>2, Zenon DEF Destroy, UsesObject, NoUseAfterFree
<1> QED
    BY <1>3, <1>4, <1>5, <1>6, <1>7, <1>8, <1>9

\* The block forgets the object.
LEMMA ClearSharedPtrPreserves ==
    ASSUME Regular, IInv, NEW t \in Threads, ClearSharedPtr(t)
    PROVE  IInv'
<1> USE WeakPtrsAssumption DEF IInv
<1>1. /\ Sharers' = Sharers
      /\ Weaks' = Weaks
      /\ Cloners' = Cloners
      /\ Deciding' = Deciding
      /\ Deleting' = Deleting
      /\ Firsts' = Firsts
    BY DEF ClearSharedPtr, Uses, Goes, TypeOK, Sharers, Weaks, Cloners, Deciding, Deleting,
           Firsts, MakesFirst
<1>2. /\ object' = object /\ W' = W /\ W \in Blocks /\ W # None /\ reg[t] = W
      /\ t \in Deleting /\ Deleting' = Deleting /\ Deciding = {} /\ Sharers = {} /\ Cloners = {}
      /\ \A b \in Blocks : ctrl'[b].live = ctrl[b].live /\ ctrl'[b].refs = ctrl[b].refs
      /\ ctrl'[W].deleting = ctrl[W].deleting /\ ctrl[W].live
      /\ ctrl'[W].clones = ctrl[W].clones
      /\ OwnRef' <=> OwnRef
    <2>1. t \in Deleting /\ W # None /\ reg[t] = W /\ W \in Blocks
        BY HoldersSafe DEF ClearSharedPtr, Deleting, DeleterInv
    <2>2. object.alive /\ Deleting = {t} /\ Deciding = {} /\ Sharers = {} /\ Cloners = {}
        BY <2>1 DEF DeleterInv, Deciding, Deleting
    <2>3. object' = object /\ W' = W
        BY DEF ClearSharedPtr, W
    <2>4. OwnRef /\ OwnRef'
        BY <2>1, <2>2, <2>3 DEF ClearSharedPtr, Goes, OwnRef, TypeOK, MakerInv, Sharers,
        Deleting
    <2>5. ctrl[W].live
        BY <2>4, <2>1, SetsFinite DEF CountInv, BlockInv
    <2> QED
        BY <1>1, <2>1, <2>2, <2>3, <2>4, <2>5 DEF ClearSharedPtr, TypeOK
<1>3. TypeOK'
    <2>1. object' \in ObjectType
        BY DEF ClearSharedPtr, TypeOK, ObjectType
    <2>2. ctrl' \in [Blocks -> CtrlType]
        <3>1. ctrl' = [ctrl EXCEPT ![W].sharedObj = FALSE]
            BY <1>2 DEF ClearSharedPtr
        <3> QED
            BY <1>2, <3>1, FlagUpdates
    <2>3. pc' \in [Threads -> Places]
        BY DEF ClearSharedPtr, Goes, Places, TypeOK
    <2>4. /\ shared' \in [Threads -> BOOLEAN]
          /\ weak' \in [Threads -> Blocks \cup {None}]
          /\ reg' \in [Threads -> Blocks \cup {None}]
        BY DEF ClearSharedPtr, TypeOK
    <2>5. freed' \in BOOLEAN /\ calls' \in 0..MaxCalls
        BY DEF ClearSharedPtr, Uses, UsesObject, TypeOK
    <2> QED
        BY <2>1, <2>2, <2>3, <2>4, <2>5 DEF TypeOK, ObjectType, CtrlType
<1>4. CountInv'
    BY <1>1, <1>2 DEF CountInv, ClearSharedPtr, Uses, Goes, TypeOK
<1>5. BlockInv'
    BY <1>1, <1>2 DEF BlockInv, ClearSharedPtr, Uses, Goes, TypeOK
<1>6. MakerInv'
    BY <1>1, <1>2 DEF MakerInv, Weaks, Firsts, MakesFirst, ClearSharedPtr, Uses, Goes, TypeOK
<1>7. ClonerInv'
    BY <1>1, <1>2 DEF ClonerInv, Cloners, ClearSharedPtr, Uses, Goes, TypeOK
<1>8. DeleterInv'
    BY <1>1, <1>2 DEF DeleterInv, Deciding, Deleting, Cloners, ClearSharedPtr, Uses, Goes,
           TypeOK
<1>9. NoUseAfterFree'
    BY <1>2, Zenon DEF ClearSharedPtr, Uses, NoUseAfterFree
<1> QED
    BY <1>3, <1>4, <1>5, <1>6, <1>7, <1>8, <1>9

\* A shared pointer is copied by a thread that holds it.
LEMMA CopySharedPreserves ==
    ASSUME Regular, IInv, NEW t \in Threads, NEW u \in Threads \ {t}, CopyShared(t, u)
    PROVE  IInv'
<1> USE WeakPtrsAssumption DEF IInv
<1>1. /\ Sharers' = Sharers \cup {u}
      /\ Weaks' = Weaks
      /\ Cloners' = Cloners
      /\ Deciding' = Deciding
      /\ Deleting' = Deleting
      /\ Firsts' = Firsts
    BY DEF CopyShared, Calls, UsesObject, Goes, TypeOK, Sharers, Weaks, Cloners, Deciding,
           Deleting, Firsts, MakesFirst
<1>2. /\ ctrl' = ctrl /\ W' = W /\ object.alive /\ object'.alive
      /\ object'.refs = object.refs + 1
      /\ t \in Sharers /\ Deleting = {} /\ Deciding = {}
      /\ Cardinality(Sharers \cup {u}) = Cardinality(Sharers) + 1
      /\ OwnRef' <=> OwnRef
    <2>1. t \in Sharers /\ t \notin Cloners /\ u \notin Sharers /\ u \notin Cloners
        BY DEF CopyShared, Calls, Sharers, Cloners
    <2>2. object.alive /\ Deleting = {} /\ Deciding = {}
        BY <2>1, HoldersSafe DEF DeleterInv
    <2>3. Cardinality(Sharers \cup {u}) = Cardinality(Sharers) + 1
        BY <2>1, SetsFinite, Counting
    <2>4. object'.alive /\ object'.refs = object.refs + 1 /\ W' = W /\ ctrl' = ctrl
        BY <2>2 DEF CopyShared, W, TypeOK
    <2> QED
        BY <2>1, <2>2, <2>3, <2>4 DEF CopyShared, OwnRef
<1>3. TypeOK'
    <2>1. object' \in ObjectType
        BY <1>2 DEF CopyShared, TypeOK, ObjectType
    <2>2. ctrl' \in [Blocks -> CtrlType]
        BY DEF CopyShared, TypeOK, CtrlType
    <2>3. pc' \in [Threads -> Places]
        BY DEF CopyShared, Goes, Places, TypeOK
    <2>4. /\ shared' \in [Threads -> BOOLEAN]
          /\ weak' \in [Threads -> Blocks \cup {None}]
          /\ reg' \in [Threads -> Blocks \cup {None}]
        BY DEF CopyShared, TypeOK
    <2>5. freed' \in BOOLEAN /\ calls' \in 0..MaxCalls
        BY DEF CopyShared, Calls, Uses, UsesObject, TypeOK
    <2> QED
        BY <2>1, <2>2, <2>3, <2>4, <2>5 DEF TypeOK, ObjectType, CtrlType
<1>4. CountInv'
    BY <1>1, <1>2 DEF CountInv, CopyShared, Calls, UsesObject, Goes, TypeOK
<1>5. BlockInv'
    BY <1>1, <1>2 DEF BlockInv, CopyShared, Calls, UsesObject, Goes, TypeOK
<1>6. MakerInv'
    BY <1>1, <1>2 DEF MakerInv, Weaks, Firsts, MakesFirst, CopyShared, Calls, UsesObject, Goes,
           TypeOK, Sharers
<1>7. ClonerInv'
    BY <1>1, <1>2 DEF ClonerInv, Cloners, CopyShared, Calls, UsesObject, Goes, TypeOK, Sharers
<1>8. DeleterInv'
    BY <1>1, <1>2 DEF DeleterInv, Deciding, Deleting, Cloners, CopyShared, Calls, UsesObject,
           Goes, TypeOK, Sharers
<1>9. NoUseAfterFree'
    BY <1>2, Zenon DEF CopyShared, Calls, UsesObject, NoUseAfterFree
<1> QED
    BY <1>3, <1>4, <1>5, <1>6, <1>7, <1>8, <1>9

\* A shared pointer is dropped, perhaps the last one.
LEMMA DropSharedPreserves ==
    ASSUME Regular, IInv, NEW t \in Threads, DropShared(t)
    PROVE  IInv'
<1> USE WeakPtrsAssumption DEF IInv
<1>1. /\ Sharers' = Sharers \ {t}
      /\ Weaks' = Weaks
      /\ Cloners' = Cloners
      /\ Deciding' = IF object.refs = 1 THEN Deciding \cup {t} ELSE Deciding
      /\ Deleting' = Deleting
      /\ Firsts' = Firsts
    BY DEF DropShared, Calls, UsesObject, Goes, TypeOK, Sharers, Weaks, Cloners, Deciding,
           Deleting, Firsts, MakesFirst
<1>2. /\ ctrl' = ctrl /\ W' = W /\ object.alive /\ object'.alive
      /\ object'.refs = object.refs - 1
      /\ t \in Sharers /\ t \notin Cloners /\ Deleting = {} /\ Deciding = {}
      /\ object'.refs = Cardinality(Sharers \ {t}) /\ object'.refs \in Nat
      /\ object.refs = 1 <=> Sharers \ {t} = {}
      /\ OwnRef' <=> OwnRef
    <2>1. t \in Sharers /\ t \notin Cloners
        BY DEF DropShared, Calls, Sharers, Cloners
    <2>2. object.alive /\ Deleting = {} /\ Deciding = {}
        BY <2>1, HoldersSafe DEF DeleterInv
    <2>3. object'.alive /\ object'.refs = object.refs - 1 /\ W' = W /\ ctrl' = ctrl
        BY <2>2 DEF DropShared, W, TypeOK
    <2>4. /\ Cardinality(Sharers \ {t}) = Cardinality(Sharers) - 1 /\ Cardinality(Sharers) > 0
          /\ IsFiniteSet(Sharers \ {t})
        BY <2>1, SetsFinite, Counting, FS_RemoveElement
    <2>5. Cardinality(Sharers \ {t}) = 0 <=> Sharers \ {t} = {}
        BY <2>4, FS_EmptySet
    <2>6. OwnRef' <=> OwnRef
        BY <2>2, <2>3 DEF DropShared, Calls, Goes, OwnRef, TypeOK
    <2> QED
        BY <2>1, <2>2, <2>3, <2>4, <2>5, <2>6, SetsFinite DEF CountInv
<1>3. TypeOK'
    <2>1. object' \in ObjectType
        BY <1>2 DEF DropShared, TypeOK, ObjectType
    <2>2. ctrl' \in [Blocks -> CtrlType]
        BY DEF DropShared, TypeOK, CtrlType
    <2>3. pc' \in [Threads -> Places]
        BY DEF DropShared, Goes, Places, TypeOK
    <2>4. /\ shared' \in [Threads -> BOOLEAN]
          /\ weak' \in [Threads -> Blocks \cup {None}]
          /\ reg' \in [Threads -> Blocks \cup {None}]
        BY DEF DropShared, TypeOK
    <2>5. freed' \in BOOLEAN /\ calls' \in 0..MaxCalls
        BY DEF DropShared, Calls, Uses, UsesObject, TypeOK
    <2> QED
        BY <2>1, <2>2, <2>3, <2>4, <2>5 DEF TypeOK, ObjectType, CtrlType
<1>4. CountInv'
    BY <1>1, <1>2 DEF CountInv, DropShared, Calls, UsesObject, Goes, TypeOK
<1>5. BlockInv'
    BY <1>1, <1>2 DEF BlockInv, DropShared, Calls, UsesObject, Goes, TypeOK
<1>6. MakerInv'
    BY <1>1, <1>2 DEF MakerInv, Weaks, Firsts, MakesFirst, DropShared, Calls, UsesObject, Goes,
           TypeOK, Calls, Sharers
<1>7. ClonerInv'
    BY <1>1, <1>2 DEF ClonerInv, Cloners, DropShared, Calls, UsesObject, Goes, TypeOK, Calls
<1>8. DeleterInv'
    <2>1. CASE object.refs = 1
        <3>1. Sharers' = {} /\ Deciding' = {t} /\ Deleting' = {} /\ Cloners' = Cloners
            BY <1>1, <1>2, <2>1
        <3>2. pc' = [pc EXCEPT ![t] = "last"] /\ UNCHANGED reg
            BY <2>1 DEF DropShared, Goes
        <3>3. \A u \in Threads :
                /\ pc'[u] = "lockForDelete" => W' # None /\ reg'[u] = W'
                /\ pc'[u] \in {"clear", "releaseCtrl"} => W' # None /\ reg'[u] = W'
            BY <1>2, <3>2 DEF DeleterInv, TypeOK
        <3>4. W # None => ~ctrl[W].deleting
            BY <1>2, HoldersSafe DEF DeleterInv
        <3> QED
            BY <1>2, <3>1, <3>3, <3>4 DEF DeleterInv
    <2>2. CASE object.refs # 1
        <3>1. Sharers' # {} /\ Deciding' = {} /\ Deleting' = {} /\ Cloners' = Cloners
            BY <1>1, <1>2, <2>2
        <3>2. UNCHANGED <<pc, reg>>
            BY <2>2 DEF DropShared
        <3> QED
            BY <1>2, <3>1, <3>2 DEF DeleterInv
    <2> QED
        BY <2>1, <2>2
<1>9. NoUseAfterFree'
    BY <1>2, Zenon DEF DropShared, Calls, UsesObject, NoUseAfterFree
<1> QED
    BY <1>3, <1>4, <1>5, <1>6, <1>7, <1>8, <1>9

\* The thread that dropped the last shared pointer looks for a block.
LEMMA LoadCtrlPreserves ==
    ASSUME Regular, IInv, NEW t \in Threads, LoadCtrl(t)
    PROVE  IInv'
<1> USE WeakPtrsAssumption DEF IInv
<1>1. /\ Sharers' = Sharers
      /\ Weaks' = Weaks
      /\ Cloners' = Cloners
      /\ Deciding' = IF W = None THEN Deciding \ {t} ELSE Deciding
      /\ Deleting' = IF W = None THEN Deleting \cup {t} ELSE Deleting
      /\ Firsts' = Firsts
    BY DEF LoadCtrl, UsesObject, Goes, TypeOK, W, Sharers, Weaks, Cloners, Deciding, Deleting,
           Firsts, MakesFirst
<1>2. /\ ctrl' = ctrl /\ object' = object /\ W' = W /\ object.alive
      /\ t \in Deciding /\ Deciding = {t} /\ Deleting = {} /\ Sharers \subseteq Cloners
      /\ W = None => Cloners = {} /\ Sharers = {}
      /\ OwnRef' <=> OwnRef
      /\ reg'[t] = W
    <2>1. t \in Deciding
        BY DEF LoadCtrl, Deciding
    <2>2. object.alive /\ Deciding = {t} /\ Deleting = {} /\ Sharers \subseteq Cloners
        BY <2>1 DEF DeleterInv, Deciding, Deleting
    <2>3. W = None => Cloners = {} /\ Sharers = {}
        BY <2>2, HoldersSafe
    <2>4. ctrl' = ctrl /\ object' = object /\ W' = W /\ reg'[t] = W
        BY DEF LoadCtrl, W, TypeOK
    <2>5. OwnRef' <=> OwnRef
        BY <2>1, <2>4 DEF LoadCtrl, Goes, OwnRef, TypeOK, Deciding, W
    <2> QED
        BY <2>1, <2>2, <2>3, <2>4, <2>5
<1>3. TypeOK'
    <2>1. object' \in ObjectType
        BY DEF LoadCtrl, TypeOK, ObjectType
    <2>2. ctrl' \in [Blocks -> CtrlType]
        BY DEF LoadCtrl, TypeOK, CtrlType
    <2>3. pc' \in [Threads -> Places]
        BY DEF LoadCtrl, Goes, Places, TypeOK
    <2>4. /\ shared' \in [Threads -> BOOLEAN]
          /\ weak' \in [Threads -> Blocks \cup {None}]
          /\ reg' \in [Threads -> Blocks \cup {None}]
        BY DEF LoadCtrl, TypeOK
    <2>5. freed' \in BOOLEAN /\ calls' \in 0..MaxCalls
        BY DEF LoadCtrl, Uses, UsesObject, TypeOK
    <2> QED
        BY <2>1, <2>2, <2>3, <2>4, <2>5 DEF TypeOK, ObjectType, CtrlType
<1>4. CountInv'
    BY <1>1, <1>2 DEF CountInv, LoadCtrl, UsesObject, Goes, TypeOK
<1>5. BlockInv'
    BY <1>1, <1>2 DEF BlockInv, LoadCtrl, UsesObject, Goes, TypeOK
<1>6. MakerInv'
    BY <1>1, <1>2 DEF MakerInv, Weaks, Firsts, MakesFirst, LoadCtrl, UsesObject, Goes, TypeOK,
           Sharers, Cloners, Deciding, W
<1>7. ClonerInv'
    BY <1>1, <1>2 DEF ClonerInv, Cloners, LoadCtrl, UsesObject, Goes, TypeOK, W
<1>8. DeleterInv'
    BY <1>1, <1>2 DEF DeleterInv, Deciding, Deleting, Cloners, LoadCtrl, UsesObject, Goes,
           TypeOK, W
<1>9. NoUseAfterFree'
    BY <1>2, Zenon DEF LoadCtrl, UsesObject, NoUseAfterFree
<1> QED
    BY <1>3, <1>4, <1>5, <1>6, <1>7, <1>8, <1>9

\* The block is locked for deletion unless a clone is under way.
LEMMA LockForDeletePreserves ==
    ASSUME Regular, IInv, NEW t \in Threads, LockForDelete(t)
    PROVE  IInv'
<1> USE WeakPtrsAssumption DEF IInv
<1>1. /\ object' = object /\ W' = W /\ W \in Blocks /\ W # None /\ reg[t] = W /\ object.alive
      /\ t \in Deciding /\ Deciding = {t} /\ Deleting = {} /\ Sharers \subseteq Cloners
      /\ \A b \in Blocks : /\ ctrl'[b].live = ctrl[b].live /\ ctrl'[b].refs = ctrl[b].refs
                           /\ ctrl'[b].sharedObj = ctrl[b].sharedObj
      /\ ctrl[W].live /\ ~ctrl[W].deleting /\ ctrl'[W].clones = ctrl[W].clones
      /\ ctrl'[W].deleting <=> Cloners = {}
      /\ pc' = [pc EXCEPT ![t] = IF Cloners = {} THEN "clear" ELSE "idle"]
      /\ OwnRef' <=> OwnRef
      /\ \E flag \in BOOLEAN : ctrl' = [ctrl EXCEPT ![W].deleting = flag]
    <2>1. t \in Deciding /\ W # None /\ reg[t] = W /\ W \in Blocks
        BY HoldersSafe DEF LockForDelete, Deciding, DeleterInv
    <2>2. object.alive /\ Deciding = {t} /\ Deleting = {} /\ Sharers \subseteq Cloners
        BY <2>1 DEF DeleterInv, Deciding, Deleting
    <2>3. ~ctrl[W].deleting /\ (ctrl[W].clones = 0 <=> Cloners = {})
        BY <2>1, SetsFinite, Counting DEF DeleterInv, CountInv
    <2>4. object' = object /\ W' = W
        BY DEF LockForDelete, W
    <2>5. pc' = [pc EXCEPT ![t] = IF Cloners = {} THEN "clear" ELSE "idle"]
        BY <2>1, <2>3 DEF LockForDelete, Goes
    <2>6. OwnRef /\ OwnRef'
        BY <2>1, <2>2, <2>4, <2>5
        DEF OwnRef, TypeOK, MakerInv, Sharers, Cloners, Deciding, Deleting
    <2>7. ctrl[W].live
        BY <2>1, <2>6, SetsFinite DEF CountInv, BlockInv
    <2>8. /\ \A b \in Blocks : /\ ctrl'[b].live = ctrl[b].live /\ ctrl'[b].refs = ctrl[b].refs
                               /\ ctrl'[b].sharedObj = ctrl[b].sharedObj
          /\ ctrl'[W].clones = ctrl[W].clones /\ (ctrl'[W].deleting <=> Cloners = {})
          /\ \E flag \in BOOLEAN : ctrl' = [ctrl EXCEPT ![W].deleting = flag]
        <3>1. CASE Cloners = {}
            <4>1. ctrl' = [ctrl EXCEPT ![W].deleting = TRUE]
                BY <2>1, <2>3, <3>1 DEF LockForDelete
            <4>2. \E flag \in BOOLEAN : ctrl' = [ctrl EXCEPT ![W].deleting = flag]
                BY <4>1
            <4>3. /\ ctrl'[W].deleting = TRUE
                  /\ ctrl'[W].clones = ctrl[W].clones
                BY <2>1, <4>1 DEF TypeOK
            <4>4. \A b \in Blocks : /\ ctrl'[b].live = ctrl[b].live
                                    /\ ctrl'[b].refs = ctrl[b].refs
                                    /\ ctrl'[b].sharedObj = ctrl[b].sharedObj
                BY <2>1, <4>1 DEF TypeOK
            <4> QED
                BY <3>1, <4>2, <4>3, <4>4
        <3>2. CASE Cloners # {}
            <4>1. ctrl' = [ctrl EXCEPT ![W].deleting = FALSE]
                BY <2>1, <2>3, <3>2 DEF LockForDelete
            <4>2. \E flag \in BOOLEAN : ctrl' = [ctrl EXCEPT ![W].deleting = flag]
                BY <4>1
            <4>3. /\ ctrl'[W].deleting = FALSE
                  /\ ctrl'[W].clones = ctrl[W].clones
                BY <2>1, <4>1 DEF TypeOK
            <4>4. \A b \in Blocks : /\ ctrl'[b].live = ctrl[b].live
                                    /\ ctrl'[b].refs = ctrl[b].refs
                                    /\ ctrl'[b].sharedObj = ctrl[b].sharedObj
                BY <2>1, <4>1 DEF TypeOK
            <4> QED
                BY <3>2, <4>2, <4>3, <4>4
        <3> QED
            BY <3>1, <3>2
    <2> QED
        BY <2>1, <2>2, <2>3, <2>4, <2>5, <2>6, <2>7, <2>8
<1>2. /\ Sharers' = Sharers
      /\ Weaks' = Weaks
      /\ Cloners' = Cloners
      /\ Deciding' = Deciding \ {t}
      /\ Deleting' = IF Cloners = {} THEN Deleting \cup {t} ELSE Deleting
      /\ Firsts' = Firsts
    BY <1>1 DEF TypeOK, Sharers, Weaks, Cloners, Deciding, Deleting, Firsts, MakesFirst,
           LockForDelete
<1>3. TypeOK'
    <2>1. object' \in ObjectType
        BY DEF LockForDelete, TypeOK, ObjectType
    <2>2. ctrl' \in [Blocks -> CtrlType]
        <3>1. PICK flag \in BOOLEAN : ctrl' = [ctrl EXCEPT ![W].deleting = flag]
            BY <1>1
        <3>2. W \in Blocks
            BY <1>1
        <3> QED
            BY <3>1, <3>2, FlagUpdates
    <2>3. pc' \in [Threads -> Places]
        BY DEF LockForDelete, Goes, Places, TypeOK
    <2>4. /\ shared' \in [Threads -> BOOLEAN]
          /\ weak' \in [Threads -> Blocks \cup {None}]
          /\ reg' \in [Threads -> Blocks \cup {None}]
        BY DEF LockForDelete, TypeOK
    <2>5. freed' \in BOOLEAN /\ calls' \in 0..MaxCalls
        BY DEF LockForDelete, Uses, UsesObject, TypeOK
    <2> QED
        BY <2>1, <2>2, <2>3, <2>4, <2>5 DEF TypeOK, ObjectType, CtrlType
<1>4. CountInv'
    BY <1>1, <1>2 DEF CountInv, LockForDelete, Uses, Goes, TypeOK
<1>5. BlockInv'
    BY <1>1, <1>2 DEF BlockInv, LockForDelete, Uses, Goes, TypeOK
<1>6. MakerInv'
    BY <1>1, <1>2 DEF MakerInv, Weaks, Firsts, MakesFirst, LockForDelete, Uses, Goes, TypeOK
<1>7. ClonerInv'
    BY <1>1, <1>2 DEF ClonerInv, Cloners, LockForDelete, Uses, Goes, TypeOK
<1>8. DeleterInv'
    BY <1>1, <1>2 DEF DeleterInv, Deciding, Deleting, Cloners, LockForDelete, Uses, Goes, TypeOK
<1>9. NoUseAfterFree'
    <2>1. freed' = (freed \/ ~ctrl[W].live)
        BY <1>1 DEF LockForDelete, Uses
    <2> QED
        BY <1>1, <2>1, Zenon DEF NoUseAfterFree
<1> QED
    BY <1>3, <1>4, <1>5, <1>6, <1>7, <1>8, <1>9

\* The object gives up its reference to the block.
LEMMA ReleaseCtrlPreserves ==
    ASSUME Regular, IInv, NEW t \in Threads, ReleaseCtrl(t)
    PROVE  IInv'
<1> USE WeakPtrsAssumption DEF IInv
<1>1. /\ Sharers' = Sharers
      /\ Weaks' = Weaks
      /\ Cloners' = Cloners
      /\ Deciding' = Deciding
      /\ Deleting' = Deleting
      /\ Firsts' = Firsts
    BY DEF ReleaseCtrl, Uses, Goes, TypeOK, Sharers, Weaks, Cloners, Deciding, Deleting, Firsts,
           MakesFirst
<1>2. /\ object' = object /\ W' = W /\ W \in Blocks /\ W # None /\ reg[t] = W /\ object.alive
      /\ t \in Deleting /\ Deciding = {} /\ Sharers = {} /\ Cloners = {} /\ Firsts = {}
      /\ \A b \in Blocks : b # W => ctrl'[b] = ctrl[b]
      /\ ctrl[W].live /\ ctrl[W].deleting /\ ctrl'[W].refs = Cardinality(Weaks)
      /\ Cardinality(Weaks) \in Nat
      /\ ctrl[W].refs > 0 /\ ctrl' = Released(W)
      /\ \/ Cardinality(Weaks) > 0 /\ ctrl'[W].live /\ ctrl'[W].deleting
         \/ Cardinality(Weaks) = 0 /\ ctrl'[W] = NoCtrl
      /\ ~OwnRef'
    <2>1. t \in Deleting /\ W # None /\ reg[t] = W /\ W \in Blocks
        BY HoldersSafe DEF ReleaseCtrl, Deleting, DeleterInv
    <2>2. object.alive /\ Deleting = {t} /\ Deciding = {} /\ Sharers = {} /\ Cloners = {}
        BY <2>1 DEF DeleterInv, Deciding, Deleting
    <2>3. Firsts = {}
        BY <2>2 DEF Firsts, MakesFirst, MakerInv, Sharers
    <2>4. object' = object /\ W' = W /\ ctrl' = Released(W)
        BY <2>1 DEF ReleaseCtrl, W
    <2>5. OwnRef /\ ~OwnRef'
        BY <2>1, <2>2, <2>3, <2>4
        DEF ReleaseCtrl, Goes, OwnRef, TypeOK, Deleting, Firsts, MakesFirst
    <2>6. /\ ctrl[W].refs = Cardinality(Weaks) + 1 /\ Cardinality(Weaks) \in Nat /\ ctrl[W].live
          /\ ctrl[W].deleting /\ ctrl[W].refs > 0
        BY <2>1, <2>5, SetsFinite DEF CountInv, BlockInv, DeleterInv
    <2>7. /\ \A b \in Blocks : b # W => ctrl'[b] = ctrl[b]
          /\ ctrl'[W].refs = Cardinality(Weaks)
          /\ \/ Cardinality(Weaks) > 0 /\ ctrl'[W].live /\ ctrl'[W].deleting
             \/ Cardinality(Weaks) = 0 /\ ctrl'[W] = NoCtrl
        <3>1. CASE ctrl[W].refs = 1
            <4>1. ctrl'[W] = NoCtrl /\ \A b \in Blocks : b # W => ctrl'[b] = ctrl[b]
                BY <2>1, <2>4, <3>1, BlockUpdates
            <4>2. NoCtrl.refs = 0 /\ Cardinality(Weaks) = 0
                BY <2>6, <3>1 DEF NoCtrl
            <4> QED
                BY <4>1, <4>2
        <3>2. CASE ctrl[W].refs # 1
            <4>1. ctrl'[W] = [ctrl[W] EXCEPT !.refs = @ - 1]
                BY <2>1, <2>4, <3>2, BlockUpdates
            <4>2. ctrl[W] \in CtrlType
                BY <2>1 DEF TypeOK, CtrlType
            <4>3. /\ ctrl'[W].refs = ctrl[W].refs - 1 /\ ctrl'[W].live = ctrl[W].live
                  /\ ctrl'[W].deleting = ctrl[W].deleting
                BY <4>1, <4>2 DEF CtrlType
            <4>4. \A b \in Blocks : b # W => ctrl'[b] = ctrl[b]
                BY <2>1, <2>4, BlockUpdates
            <4>5. ctrl'[W].refs = Cardinality(Weaks) /\ Cardinality(Weaks) > 0
                BY <2>6, <3>2, <4>3
            <4> QED
                BY <2>6, <4>3, <4>4, <4>5
        <3> QED
            BY <3>1, <3>2
    <2> QED
        BY <2>1, <2>2, <2>3, <2>4, <2>5, <2>6, <2>7
<1>3. TypeOK'
    <2>1. object' \in ObjectType
        BY DEF ReleaseCtrl, TypeOK, ObjectType
    <2>2. ctrl' \in [Blocks -> CtrlType]
        BY <1>2, BlockUpdates
    <2>3. pc' \in [Threads -> Places]
        BY DEF ReleaseCtrl, Goes, Places, TypeOK
    <2>4. /\ shared' \in [Threads -> BOOLEAN]
          /\ weak' \in [Threads -> Blocks \cup {None}]
          /\ reg' \in [Threads -> Blocks \cup {None}]
        BY DEF ReleaseCtrl, TypeOK
    <2>5. freed' \in BOOLEAN /\ calls' \in 0..MaxCalls
        BY DEF ReleaseCtrl, Calls, Uses, TypeOK
    <2> QED
        BY <2>1, <2>2, <2>3, <2>4, <2>5 DEF TypeOK, ObjectType, CtrlType
<1>4. CountInv'
    <2>1. ~ctrl'[W].deleting => ctrl'[W].clones = 0
        BY <1>2 DEF NoCtrl
    <2>2. Cardinality({}) = 0
        BY FS_EmptySet
    <2> QED
        BY <1>1, <1>2, <2>1, <2>2 DEF CountInv
<1>5. BlockInv'
    BY <1>1, <1>2 DEF BlockInv, ReleaseCtrl, Uses, Goes, TypeOK, NoCtrl, Weaks
<1>6. MakerInv'
    BY <1>1, <1>2 DEF MakerInv, Weaks, Firsts, MakesFirst, ReleaseCtrl, Uses, Goes, TypeOK
<1>7. ClonerInv'
    BY <1>1, <1>2 DEF ClonerInv, Cloners, ReleaseCtrl, Uses, Goes, TypeOK
<1>8. DeleterInv'
    BY <1>1, <1>2 DEF DeleterInv, Deciding, Deleting, Cloners, ReleaseCtrl, Uses, Goes, TypeOK,
           NoCtrl
<1>9. NoUseAfterFree'
    <2>1. freed' = (freed \/ ~ctrl[W].live)
        BY <1>2 DEF ReleaseCtrl, Uses
    <2> QED
        BY <1>2, <2>1, Zenon DEF NoUseAfterFree
<1> QED
    BY <1>3, <1>4, <1>5, <1>6, <1>7, <1>8, <1>9

\* The making of a weak pointer begins.
LEMMA MakeWeakPreserves ==
    ASSUME Regular, IInv, NEW t \in Threads, MakeWeak(t)
    PROVE  IInv'
<1> USE WeakPtrsAssumption DEF IInv
<1>1. /\ Sharers' = Sharers
      /\ Weaks' = Weaks
      /\ Cloners' = Cloners
      /\ Deciding' = Deciding
      /\ Deleting' = Deleting
      /\ Firsts' = IF W = None THEN Firsts \cup {t} ELSE Firsts
    BY DEF MakeWeak, Calls, UsesObject, W, Goes, TypeOK, Sharers, Weaks, Cloners, Deciding,
           Deleting, Firsts, MakesFirst
<1>2. /\ ctrl' = ctrl /\ object' = object /\ W' = W /\ object.alive /\ reg'[t] = W
      /\ t \in Sharers /\ weak[t] = None /\ Firsts = {} /\ Deleting = {} /\ Deciding = {}
      /\ OwnRef' <=> OwnRef
    <2>1. t \in Sharers /\ t \notin Cloners /\ weak[t] = None
        BY DEF MakeWeak, Calls, Sharers, Cloners
    <2>2. object.alive /\ Deleting = {} /\ Deciding = {}
        BY <2>1, HoldersSafe DEF DeleterInv
    <2>3. ctrl' = ctrl /\ object' = object /\ W' = W /\ reg'[t] = W
        BY DEF MakeWeak, W, TypeOK
    <2>4. Firsts = {}
        BY DEF MakeWeak, May, Regular, Firsts
    <2>5. OwnRef' <=> OwnRef
        BY <2>3 DEF MakeWeak, Calls, Goes, OwnRef, TypeOK, W
    <2> QED
        BY <2>1, <2>2, <2>3, <2>4, <2>5
<1>3. TypeOK'
    <2>1. object' \in ObjectType
        BY DEF MakeWeak, TypeOK, ObjectType
    <2>2. ctrl' \in [Blocks -> CtrlType]
        BY DEF MakeWeak, TypeOK, CtrlType
    <2>3. pc' \in [Threads -> Places]
        BY DEF MakeWeak, Goes, Places, TypeOK
    <2>4. /\ shared' \in [Threads -> BOOLEAN]
          /\ weak' \in [Threads -> Blocks \cup {None}]
          /\ reg' \in [Threads -> Blocks \cup {None}]
        BY DEF MakeWeak, TypeOK
    <2>5. freed' \in BOOLEAN /\ calls' \in 0..MaxCalls
        BY DEF MakeWeak, Calls, Uses, UsesObject, TypeOK
    <2> QED
        BY <2>1, <2>2, <2>3, <2>4, <2>5 DEF TypeOK, ObjectType, CtrlType
<1>4. CountInv'
    BY <1>1, <1>2 DEF CountInv, MakeWeak, Calls, UsesObject, W, Goes, TypeOK
<1>5. BlockInv'
    BY <1>1, <1>2 DEF BlockInv, MakeWeak, Calls, UsesObject, W, Goes, TypeOK
<1>6. MakerInv'
    BY <1>1, <1>2 DEF MakerInv, Weaks, Firsts, MakesFirst, MakeWeak, Calls, UsesObject, W, Goes,
           TypeOK, Sharers
<1>7. ClonerInv'
    BY <1>1, <1>2 DEF ClonerInv, Cloners, MakeWeak, Calls, UsesObject, W, Goes, TypeOK
<1>8. DeleterInv'
    BY <1>1, <1>2 DEF DeleterInv, Deciding, Deleting, Cloners, MakeWeak, Calls, UsesObject, W,
           Goes, TypeOK
<1>9. NoUseAfterFree'
    BY <1>2, Zenon DEF MakeWeak, Calls, UsesObject, W, NoUseAfterFree
<1> QED
    BY <1>3, <1>4, <1>5, <1>6, <1>7, <1>8, <1>9

\* The first control block is allocated.
LEMMA AllocatePreserves ==
    ASSUME Regular, IInv, NEW t \in Threads, Allocate(t)
    PROVE  IInv'
<1> USE WeakPtrsAssumption DEF IInv
<1>1. /\ Sharers' = Sharers
      /\ Weaks' = Weaks
      /\ Cloners' = Cloners
      /\ Deciding' = Deciding
      /\ Deleting' = Deleting
      /\ Firsts' = Firsts
    BY DEF Allocate, UsesObject, Goes, TypeOK, Sharers, Weaks, Cloners, Deciding, Deleting,
           Firsts, MakesFirst
<1>2. /\ W = None /\ W' \in Blocks /\ W' # None /\ reg'[t] = W' /\ ctrl'[W'] = NewCtrl
      /\ ctrl' \in [Blocks -> CtrlType] /\ \A b \in Blocks : b # W' => ~ctrl'[b].live
      /\ object.alive /\ object'.alive /\ object'.refs = object.refs
      /\ t \in Firsts /\ t \in Sharers /\ Deleting = {} /\ Deciding = {} /\ Weaks = {}
      /\ Cloners = {}
      /\ object' \in [alive : BOOLEAN, refs : Nat, weakCtrl : Blocks \cup {None}]
      /\ reg' \in [Threads -> Blocks \cup {None}] /\ freed' = (freed \/ ~object.alive)
      /\ ~OwnRef'
    <2>1. t \in Firsts /\ t \in Sharers /\ t \notin Cloners /\ W = None
        BY DEF Allocate, Firsts, MakesFirst, MakerInv, Sharers, Cloners
    <2>2. object.alive /\ Deleting = {} /\ Deciding = {} /\ Weaks = {} /\ Cloners = {}
        BY <2>1, HoldersSafe DEF DeleterInv
    <2>3. PICK b \in Blocks :
            /\ ctrl' = [ctrl EXCEPT ![b] = NewCtrl]
            /\ object' = [object EXCEPT !.weakCtrl = b]
            /\ reg' = [reg EXCEPT ![t] = b]
            /\ freed' = (freed \/ ~object.alive)
        BY <2>1 DEF Allocate, UsesObject, W
    <2>4. /\ W' = b /\ object'.alive /\ object'.refs = object.refs
          /\ object' \in [alive : BOOLEAN, refs : Nat, weakCtrl : Blocks \cup {None}]
        BY <2>2, <2>3 DEF TypeOK, W
    <2>5. reg' \in [Threads -> Blocks \cup {None}] /\ reg'[t] = b
        BY <2>3 DEF TypeOK
    <2>6. /\ ctrl' \in [Blocks -> CtrlType] /\ ctrl'[b] = NewCtrl
          /\ \A c \in Blocks : c # b => ctrl'[c] = ctrl[c]
        <3>1. ctrl \in [Blocks -> CtrlType] /\ NewCtrl \in CtrlType
            BY DEF TypeOK, CtrlType, NewCtrl
        <3> QED
            BY <2>3, <3>1
    <2>7. \A c \in Blocks : ~ctrl[c].live
        BY <2>1 DEF BlockInv
    <2>8. ~OwnRef'
        BY DEF Allocate, Goes, OwnRef, TypeOK
    <2> QED
        BY <2>1, <2>2, <2>3, <2>4, <2>5, <2>6, <2>7, <2>8
<1>3. TypeOK'
    <2>1. pc' \in [Threads -> Places]
        BY DEF Allocate, Goes, Places, TypeOK
    <2>2. /\ shared' \in [Threads -> BOOLEAN]
          /\ weak' \in [Threads -> Blocks \cup {None}]
        BY DEF Allocate, TypeOK
    <2>3. freed' \in BOOLEAN /\ calls' \in 0..MaxCalls
        BY DEF Allocate, UsesObject, TypeOK
    <2> QED
        BY <1>2, <2>1, <2>2, <2>3 DEF TypeOK, CtrlType
<1>4. CountInv'
    <2>1. Cardinality({}) = 0 /\ NewCtrl.refs = 0 /\ NewCtrl.clones = 0
        BY FS_EmptySet DEF NewCtrl
    <2> QED
        BY <1>1, <1>2, <2>1 DEF CountInv
<1>5. BlockInv'
    <2>1. NewCtrl.live /\ NewCtrl.refs = 0
        BY DEF NewCtrl
    <2>2. \A u \in Threads : weak'[u] = None
        BY <1>2 DEF Allocate, Weaks
    <2> QED
        BY <1>1, <1>2, <2>1, <2>2 DEF BlockInv
<1>6. MakerInv'
    <2>1. pc' = [pc EXCEPT ![t] = "addForShared"] /\ UNCHANGED <<shared, weak>>
        BY DEF Allocate, Goes
    <2>2. \A u \in Threads : pc[u] \notin {"addForShared", "addForWeak"}
        BY <1>2 DEF MakerInv
    <2>3. \A u \in Threads \ {t} : pc[u] # "allocate"
        BY <1>2 DEF MakerInv, Firsts, MakesFirst
    <2>4. pc[t] = "allocate" /\ shared[t] /\ weak[t] = None
        BY DEF Allocate, MakerInv
    <2>5. \A u \in Threads : pc'[u] \in {"allocate", "addForShared", "addForWeak"}
                              => u = t /\ pc'[u] = "addForShared"
        BY <2>1, <2>2, <2>3 DEF TypeOK
    <2> QED
        BY <1>1, <1>2, <2>1, <2>4, <2>5 DEF MakerInv
<1>7. ClonerInv'
    BY <1>1, <1>2 DEF ClonerInv, Cloners, Allocate, UsesObject, Goes, TypeOK
<1>8. DeleterInv'
    <2>1. NewCtrl.live /\ ~NewCtrl.deleting /\ NewCtrl.sharedObj
        BY DEF NewCtrl
    <2>2. \A u \in Threads : pc'[u] \notin {"lockForDelete", "clear", "releaseCtrl"}
        BY <1>1, <1>2 DEF Deciding, Deleting
    <2> QED
        BY <1>1, <1>2, <2>1, <2>2 DEF DeleterInv
<1>9. NoUseAfterFree'
    BY <1>2, Zenon DEF NoUseAfterFree
<1> QED
    BY <1>3, <1>4, <1>5, <1>6, <1>7, <1>8, <1>9

\* The object gets its reference to the block.
LEMMA AddForSharedPreserves ==
    ASSUME Regular, IInv, NEW t \in Threads, AddForShared(t)
    PROVE  IInv'
<1> USE WeakPtrsAssumption DEF IInv
<1>1. /\ Sharers' = Sharers
      /\ Weaks' = Weaks
      /\ Cloners' = Cloners
      /\ Deciding' = Deciding
      /\ Deleting' = Deleting
      /\ Firsts' = Firsts \ {t}
    BY DEF AddForShared, Uses, Goes, TypeOK, Sharers, Weaks, Cloners, Deciding, Deleting,
           Firsts, MakesFirst
<1>2. /\ object' = object /\ W' = W /\ W \in Blocks /\ W # None /\ reg[t] = W /\ object.alive
      /\ t \in Sharers /\ Deleting = {} /\ Deciding = {} /\ Weaks = {} /\ Cloners = {}
      /\ Firsts' = {}
      /\ shared[t] /\ weak[t] = None /\ ctrl[W].live /\ ctrl[W].refs = 0
      /\ ctrl' = Referenced(W)
      /\ ctrl'[W].refs = ctrl[W].refs + 1 /\ ctrl'[W].live = ctrl[W].live
      /\ ctrl'[W].sharedObj = ctrl[W].sharedObj /\ ctrl'[W].clones = ctrl[W].clones
      /\ ctrl'[W].deleting = ctrl[W].deleting
      /\ \A b \in Blocks : b # W => ctrl'[b] = ctrl[b]
      /\ OwnRef'
    <2>1. /\ t \in Firsts /\ t \in Sharers /\ t \notin Cloners /\ shared[t] /\ weak[t] = None
          /\ W # None /\ reg[t] = W /\ Weaks = {}
        BY DEF AddForShared, Firsts, MakesFirst, MakerInv, Sharers, Cloners
    <2>2. /\ object.alive /\ Deleting = {} /\ Deciding = {} /\ Cloners = {} /\ W \in Blocks
          /\ ctrl[W].live
        BY <2>1, HoldersSafe DEF DeleterInv
    <2>3. Firsts \ {t} = {}
        BY <2>1 DEF MakerInv
    <2>4. object' = object /\ W' = W
        BY DEF AddForShared, W
    <2>5. /\ ctrl' = Referenced(W)
          /\ ctrl'[W].refs = ctrl[W].refs + 1 /\ ctrl'[W].live = ctrl[W].live
          /\ ctrl'[W].sharedObj = ctrl[W].sharedObj /\ ctrl'[W].clones = ctrl[W].clones
          /\ ctrl'[W].deleting = ctrl[W].deleting
          /\ \A b \in Blocks : b # W => ctrl'[b] = ctrl[b]
        <3>1. ctrl' = Referenced(W) /\ ctrl[W] \in CtrlType
            BY <2>1, <2>2 DEF AddForShared, TypeOK, CtrlType
        <3>2. ctrl'[W] = [ctrl[W] EXCEPT !.refs = @ + 1]
            BY <2>1, <2>2, <3>1, BlockUpdates
        <3>3. \A b \in Blocks : b # W => ctrl'[b] = ctrl[b]
            BY <2>1, <2>2, <3>1, BlockUpdates
        <3> QED
            BY <3>1, <3>2, <3>3 DEF CtrlType
    <2>6. ~OwnRef
        BY DEF AddForShared, OwnRef
    <2>7. OwnRef'
        BY <1>1, <2>1, <2>2, <2>3, <2>4
        DEF AddForShared, Goes, OwnRef, TypeOK, Deleting, Firsts, MakesFirst
    <2>8. ctrl[W].refs = 0
        BY <2>1, <2>6, FS_EmptySet DEF CountInv
    <2> QED
        BY <1>1, <2>1, <2>2, <2>3, <2>4, <2>5, <2>7, <2>8
<1>3. TypeOK'
    <2>1. object' \in ObjectType
        BY DEF AddForShared, TypeOK, ObjectType
    <2>2. ctrl' \in [Blocks -> CtrlType]
        BY <1>2, BlockUpdates
    <2>3. pc' \in [Threads -> Places]
        BY DEF AddForShared, Goes, Places, TypeOK
    <2>4. /\ shared' \in [Threads -> BOOLEAN]
          /\ weak' \in [Threads -> Blocks \cup {None}]
          /\ reg' \in [Threads -> Blocks \cup {None}]
        BY DEF AddForShared, TypeOK
    <2>5. freed' \in BOOLEAN /\ calls' \in 0..MaxCalls
        BY DEF AddForShared, Calls, Uses, TypeOK
    <2> QED
        BY <2>1, <2>2, <2>3, <2>4, <2>5 DEF TypeOK, ObjectType, CtrlType
<1>4. CountInv'
    <2>1. Cardinality({}) = 0
        BY FS_EmptySet
    <2> QED
        BY <1>1, <1>2, <2>1 DEF CountInv
<1>5. BlockInv'
    BY <1>1, <1>2 DEF BlockInv, AddForShared, Uses, Goes, TypeOK
<1>6. MakerInv'
    BY <1>1, <1>2 DEF MakerInv, Weaks, Firsts, MakesFirst, AddForShared, Uses, Goes, TypeOK
<1>7. ClonerInv'
    BY <1>1, <1>2 DEF ClonerInv, Cloners, AddForShared, Uses, Goes, TypeOK
<1>8. DeleterInv'
    BY <1>1, <1>2 DEF DeleterInv, Deciding, Deleting, Cloners, AddForShared, Uses, Goes, TypeOK
<1>9. NoUseAfterFree'
    <2>1. freed' = (freed \/ ~ctrl[W].live)
        BY <1>2 DEF AddForShared, Uses
    <2> QED
        BY <1>2, <2>1, Zenon DEF NoUseAfterFree
<1> QED
    BY <1>3, <1>4, <1>5, <1>6, <1>7, <1>8, <1>9

\* The weak pointer gets its reference to the block.
LEMMA AddForWeakPreserves ==
    ASSUME Regular, IInv, NEW t \in Threads, AddForWeak(t)
    PROVE  IInv'
<1> USE WeakPtrsAssumption DEF IInv
<1>1. /\ Sharers' = Sharers
      /\ Weaks' = Weaks \cup {t}
      /\ Cloners' = Cloners
      /\ Deciding' = Deciding
      /\ Deleting' = Deleting
      /\ Firsts' = Firsts
    BY DEF MakerInv, AddForWeak, Uses, Goes, TypeOK, Sharers, Weaks, Cloners, Deciding,
           Deleting, Firsts, MakesFirst
<1>2. /\ object' = object /\ W' = W /\ W \in Blocks /\ W # None /\ reg[t] = W /\ object.alive
      /\ t \in Sharers /\ t \notin Weaks /\ Deleting = {} /\ Deciding = {} /\ Firsts = {}
      /\ ctrl[W].live /\ Cardinality(Weaks') = Cardinality(Weaks) + 1
      /\ Cardinality(Weaks) \in Nat
      /\ ctrl' = Referenced(W)
      /\ ctrl'[W].refs = ctrl[W].refs + 1 /\ ctrl'[W].live = ctrl[W].live
      /\ ctrl'[W].sharedObj = ctrl[W].sharedObj /\ ctrl'[W].clones = ctrl[W].clones
      /\ ctrl'[W].deleting = ctrl[W].deleting
      /\ \A b \in Blocks : b # W => ctrl'[b] = ctrl[b]
      /\ OwnRef /\ OwnRef'
    <2>1. /\ t \in Sharers /\ t \notin Cloners /\ t \notin Weaks
          /\ W # None /\ reg[t] = W /\ Firsts = {}
        BY DEF AddForWeak, MakerInv, Sharers, Cloners, Weaks
    <2>2. /\ object.alive /\ Deleting = {} /\ Deciding = {} /\ W \in Blocks /\ ctrl[W].live
        BY <2>1, HoldersSafe DEF DeleterInv
    <2>3. Cardinality(Weaks') = Cardinality(Weaks) + 1 /\ Cardinality(Weaks) \in Nat
        BY <1>1, <2>1, SetsFinite, Counting
    <2>4. object' = object /\ W' = W
        BY DEF AddForWeak, W
    <2>5. /\ ctrl' = Referenced(W)
          /\ ctrl'[W].refs = ctrl[W].refs + 1 /\ ctrl'[W].live = ctrl[W].live
          /\ ctrl'[W].sharedObj = ctrl[W].sharedObj /\ ctrl'[W].clones = ctrl[W].clones
          /\ ctrl'[W].deleting = ctrl[W].deleting
          /\ \A b \in Blocks : b # W => ctrl'[b] = ctrl[b]
        <3>1. ctrl' = Referenced(W) /\ ctrl[W] \in CtrlType
            BY <2>1, <2>2 DEF AddForWeak, TypeOK, CtrlType
        <3>2. ctrl'[W] = [ctrl[W] EXCEPT !.refs = @ + 1]
            BY <2>1, <2>2, <3>1, BlockUpdates
        <3>3. \A b \in Blocks : b # W => ctrl'[b] = ctrl[b]
            BY <2>1, <2>2, <3>1, BlockUpdates
        <3> QED
            BY <3>1, <3>2, <3>3 DEF CtrlType
    <2>6. OwnRef /\ OwnRef'
        BY <2>1, <2>2, <2>4
        DEF AddForWeak, Goes, OwnRef, TypeOK, Deleting, Firsts, MakesFirst
    <2> QED
        BY <2>1, <2>2, <2>3, <2>4, <2>5, <2>6
<1>3. TypeOK'
    <2>1. object' \in ObjectType
        BY DEF AddForWeak, TypeOK, ObjectType
    <2>2. ctrl' \in [Blocks -> CtrlType]
        BY <1>2, BlockUpdates
    <2>3. pc' \in [Threads -> Places]
        BY DEF AddForWeak, Goes, Places, TypeOK
    <2>4. /\ shared' \in [Threads -> BOOLEAN]
          /\ weak' \in [Threads -> Blocks \cup {None}]
          /\ reg' \in [Threads -> Blocks \cup {None}]
        BY <1>2 DEF AddForWeak, TypeOK
    <2>5. freed' \in BOOLEAN /\ calls' \in 0..MaxCalls
        BY DEF AddForWeak, Calls, Uses, TypeOK
    <2> QED
        BY <2>1, <2>2, <2>3, <2>4, <2>5 DEF TypeOK, ObjectType, CtrlType
<1>4. CountInv'
    BY <1>1, <1>2 DEF CountInv, AddForWeak, Uses, Goes, TypeOK
<1>5. BlockInv'
    BY <1>1, <1>2 DEF BlockInv, AddForWeak, Uses, Goes, TypeOK
<1>6. MakerInv'
    BY <1>1, <1>2 DEF MakerInv, Weaks, Firsts, MakesFirst, AddForWeak, Uses, Goes, TypeOK
<1>7. ClonerInv'
    BY <1>1, <1>2 DEF ClonerInv, Cloners, AddForWeak, Uses, Goes, TypeOK
<1>8. DeleterInv'
    BY <1>1, <1>2 DEF DeleterInv, Deciding, Deleting, Cloners, AddForWeak, Uses, Goes, TypeOK
<1>9. NoUseAfterFree'
    <2>1. freed' = (freed \/ ~ctrl[W].live)
        BY <1>2 DEF AddForWeak, Uses
    <2> QED
        BY <1>2, <2>1, Zenon DEF NoUseAfterFree
<1> QED
    BY <1>3, <1>4, <1>5, <1>6, <1>7, <1>8, <1>9

\* A weak pointer is copied by a thread that holds it.
LEMMA CopyWeakPreserves ==
    ASSUME Regular, IInv, NEW t \in Threads, NEW u \in Threads \ {t}, CopyWeak(t, u)
    PROVE  IInv'
<1> USE WeakPtrsAssumption DEF IInv
<1>1. /\ Sharers' = Sharers
      /\ Weaks' = Weaks \cup {u}
      /\ Cloners' = Cloners
      /\ Deciding' = Deciding
      /\ Deleting' = Deleting
      /\ Firsts' = Firsts
    BY DEF CopyWeak, Calls, Uses, Goes, TypeOK, Sharers, Weaks, Cloners, Deciding, Deleting,
           Firsts, MakesFirst
<1>2. /\ object' = object /\ W' = W /\ W \in Blocks /\ W # None /\ weak[t] = W
      /\ t \in Weaks /\ u \notin Weaks /\ Firsts = {}
      /\ ctrl[W].live /\ Cardinality(Weaks') = Cardinality(Weaks) + 1
      /\ Cardinality(Weaks) \in Nat
      /\ ctrl' = Referenced(W)
      /\ ctrl'[W].refs = ctrl[W].refs + 1 /\ ctrl'[W].live = ctrl[W].live
      /\ ctrl'[W].sharedObj = ctrl[W].sharedObj /\ ctrl'[W].clones = ctrl[W].clones
      /\ ctrl'[W].deleting = ctrl[W].deleting
      /\ \A b \in Blocks : b # W => ctrl'[b] = ctrl[b]
      /\ OwnRef' <=> OwnRef
    <2>1. t \in Weaks /\ u \notin Weaks
        BY DEF CopyWeak, Weaks
    <2>2. weak[t] = W /\ W \in Blocks /\ W # None /\ ctrl[W].live
        BY <2>1, HoldersSafe
    <2>3. Cardinality(Weaks') = Cardinality(Weaks) + 1 /\ Cardinality(Weaks) \in Nat
        BY <1>1, <2>1, SetsFinite, Counting
    <2>4. object' = object /\ W' = W
        BY DEF CopyWeak, W
    <2>5. /\ ctrl' = Referenced(W)
          /\ ctrl'[W].refs = ctrl[W].refs + 1 /\ ctrl'[W].live = ctrl[W].live
          /\ ctrl'[W].sharedObj = ctrl[W].sharedObj /\ ctrl'[W].clones = ctrl[W].clones
          /\ ctrl'[W].deleting = ctrl[W].deleting
          /\ \A b \in Blocks : b # W => ctrl'[b] = ctrl[b]
        <3>1. ctrl' = Referenced(W) /\ ctrl[W] \in CtrlType
            BY <2>1, <2>2 DEF CopyWeak, TypeOK, CtrlType
        <3>2. ctrl'[W] = [ctrl[W] EXCEPT !.refs = @ + 1]
            BY <2>1, <2>2, <3>1, BlockUpdates
        <3>3. \A b \in Blocks : b # W => ctrl'[b] = ctrl[b]
            BY <2>1, <2>2, <3>1, BlockUpdates
        <3> QED
            BY <3>1, <3>2, <3>3 DEF CtrlType
    <2>6. OwnRef' <=> OwnRef
        BY <2>4 DEF CopyWeak, OwnRef
    <2>7. Firsts = {}
        BY <2>1, <2>2 DEF MakerInv, Firsts, MakesFirst
    <2> QED
        BY <2>1, <2>2, <2>3, <2>4, <2>5, <2>6, <2>7
<1>3. TypeOK'
    <2>1. object' \in ObjectType
        BY DEF CopyWeak, TypeOK, ObjectType
    <2>2. ctrl' \in [Blocks -> CtrlType]
        BY <1>2, BlockUpdates
    <2>3. pc' \in [Threads -> Places]
        BY DEF CopyWeak, Goes, Places, TypeOK
    <2>4. /\ shared' \in [Threads -> BOOLEAN]
          /\ weak' \in [Threads -> Blocks \cup {None}]
          /\ reg' \in [Threads -> Blocks \cup {None}]
        BY <1>2 DEF CopyWeak, TypeOK
    <2>5. freed' \in BOOLEAN /\ calls' \in 0..MaxCalls
        BY DEF CopyWeak, Calls, Uses, TypeOK
    <2> QED
        BY <2>1, <2>2, <2>3, <2>4, <2>5 DEF TypeOK, ObjectType, CtrlType
<1>4. CountInv'
    BY <1>1, <1>2 DEF CountInv, CopyWeak, Calls, Uses, Goes, TypeOK
<1>5. BlockInv'
    BY <1>1, <1>2 DEF BlockInv, CopyWeak, Calls, Uses, Goes, TypeOK
<1>6. MakerInv'
    BY <1>1, <1>2 DEF MakerInv, Weaks, Firsts, MakesFirst, CopyWeak, Calls, Uses, Goes, TypeOK
<1>7. ClonerInv'
    BY <1>1, <1>2 DEF ClonerInv, Cloners, CopyWeak, Calls, Uses, Goes, TypeOK
<1>8. DeleterInv'
    BY <1>1, <1>2 DEF DeleterInv, Deciding, Deleting, Cloners, CopyWeak, Calls, Uses, Goes,
           TypeOK
<1>9. NoUseAfterFree'
    <2>1. freed' = (freed \/ ~ctrl[W].live)
        BY <1>2 DEF CopyWeak, Uses
    <2> QED
        BY <1>2, <2>1, Zenon DEF NoUseAfterFree
<1> QED
    BY <1>3, <1>4, <1>5, <1>6, <1>7, <1>8, <1>9

\* A lock() begins, or is refused by a block locked for deletion.
LEMMA LockForClonePreserves ==
    ASSUME Regular, IInv, NEW t \in Threads, LockForClone(t)
    PROVE  IInv'
<1> USE WeakPtrsAssumption DEF IInv
<1>1. /\ Sharers' = Sharers
      /\ Weaks' = Weaks
      /\ Cloners' = IF ctrl[weak[t]].deleting THEN Cloners ELSE Cloners \cup {t}
      /\ Deciding' = Deciding
      /\ Deleting' = Deleting
      /\ Firsts' = Firsts
    BY DEF LockForClone, Calls, Uses, Goes, TypeOK, Sharers, Weaks, Cloners, Deciding, Deleting,
           Firsts, MakesFirst
<1>2. /\ object' = object /\ W' = W /\ W \in Blocks /\ W # None /\ weak[t] = W
      /\ t \in Weaks /\ t \notin Cloners /\ t \notin Sharers
      /\ ctrl[W].live /\ Cardinality(Cloners \cup {t}) = Cardinality(Cloners) + 1
      /\ ctrl[W].deleting => Cloners = {}
      /\ ~ctrl[W].deleting => object.alive /\ Deleting = {} /\ ctrl[W].sharedObj
      /\ ctrl' \in [Blocks -> CtrlType] /\ \A b \in Blocks : b # W => ctrl'[b] = ctrl[b]
      /\ ctrl'[W].live = ctrl[W].live /\ ctrl'[W].refs = ctrl[W].refs
      /\ ctrl'[W].sharedObj = ctrl[W].sharedObj /\ ctrl'[W].deleting = ctrl[W].deleting
      /\ ctrl'[W].clones = ctrl[W].clones + 1
      /\ OwnRef' <=> OwnRef
    <2>1. t \in Weaks /\ t \notin Cloners /\ t \notin Sharers
        BY DEF LockForClone, Calls, Weaks, Cloners, Sharers
    <2>2. weak[t] = W /\ W \in Blocks /\ W # None /\ ctrl[W].live
        BY <2>1, HoldersSafe
    <2>3. Cardinality(Cloners \cup {t}) = Cardinality(Cloners) + 1
        BY <2>1, SetsFinite, Counting
    <2>4. object' = object /\ W' = W
        BY DEF LockForClone, W
    <2>5. /\ ctrl' \in [Blocks -> CtrlType] /\ \A b \in Blocks : b # W => ctrl'[b] = ctrl[b]
          /\ ctrl'[W].live = ctrl[W].live /\ ctrl'[W].refs = ctrl[W].refs
          /\ ctrl'[W].sharedObj = ctrl[W].sharedObj /\ ctrl'[W].deleting = ctrl[W].deleting
          /\ ctrl'[W].clones = ctrl[W].clones + 1
        <3>1. ctrl \in [Blocks -> CtrlType]
            BY DEF TypeOK, CtrlType
        <3>2. ctrl' = [ctrl EXCEPT ![W].clones = @ + 1]
            BY <2>2 DEF LockForClone
        <3>3. ctrl'[W] = [ctrl[W] EXCEPT !.clones = @ + 1] /\ ctrl[W] \in CtrlType
            BY <2>2, <3>1, <3>2
        <3>4. \A b \in Blocks : b # W => ctrl'[b] = ctrl[b]
            BY <2>2, <3>1, <3>2
        <3>5. ctrl' \in [Blocks -> CtrlType]
            BY <2>2, <3>1, <3>2 DEF CtrlType
        <3> QED
            BY <3>3, <3>4, <3>5 DEF CtrlType
    <2>6. OwnRef' <=> OwnRef
        BY <2>4 DEF LockForClone, Calls, Goes, OwnRef, TypeOK
    <2>7. /\ ctrl[W].deleting => Cloners = {}
          /\ ~ctrl[W].deleting => object.alive /\ Deleting = {} /\ ctrl[W].sharedObj
        BY <2>2 DEF ClonerInv, DeleterInv
    <2> QED
        BY <2>1, <2>2, <2>3, <2>4, <2>5, <2>6, <2>7
<1>3. TypeOK'
    <2>1. object' \in ObjectType
        BY DEF LockForClone, TypeOK, ObjectType
    <2>2. ctrl' \in [Blocks -> CtrlType]
        BY <1>2 DEF LockForClone, TypeOK, CtrlType
    <2>3. pc' \in [Threads -> Places]
        BY DEF LockForClone, Goes, Places, TypeOK
    <2>4. /\ shared' \in [Threads -> BOOLEAN]
          /\ weak' \in [Threads -> Blocks \cup {None}]
          /\ reg' \in [Threads -> Blocks \cup {None}]
        BY DEF LockForClone, TypeOK
    <2>5. freed' \in BOOLEAN /\ calls' \in 0..MaxCalls
        BY DEF LockForClone, Calls, Uses, UsesObject, TypeOK
    <2> QED
        BY <2>1, <2>2, <2>3, <2>4, <2>5 DEF TypeOK, ObjectType, CtrlType
<1>4. CountInv'
    BY <1>1, <1>2 DEF CountInv, LockForClone, Calls, Uses, Goes, TypeOK
<1>5. BlockInv'
    BY <1>1, <1>2 DEF BlockInv, LockForClone, Calls, Uses, Goes, TypeOK
<1>6. MakerInv'
    BY <1>1, <1>2 DEF MakerInv, Weaks, Firsts, MakesFirst, LockForClone, Calls, Uses, Goes,
           TypeOK
<1>7. ClonerInv'
    BY <1>1, <1>2 DEF ClonerInv, Cloners, LockForClone, Calls, Uses, Goes, TypeOK, Weaks,
           Sharers
<1>8. DeleterInv'
    <2>1. \A v \in Threads : pc'[v] \in {"lockForDelete", "clear", "releaseCtrl"}
                    => pc'[v] = pc[v]
        BY DEF LockForClone, Goes, TypeOK
    <2>2. UNCHANGED reg
        BY DEF LockForClone
    <2> QED
        BY <1>1, <1>2, <2>1, <2>2 DEF DeleterInv
<1>9. NoUseAfterFree'
    <2>1. freed' = (freed \/ ~ctrl[W].live)
        BY <1>2 DEF LockForClone, Uses
    <2> QED
        BY <1>2, <2>1, Zenon DEF NoUseAfterFree
<1> QED
    BY <1>3, <1>4, <1>5, <1>6, <1>7, <1>8, <1>9

\* A lock() finds the object.
LEMMA ClonePreserves ==
    ASSUME Regular, IInv, NEW t \in Threads, Clone(t)
    PROVE  IInv'
<1> USE WeakPtrsAssumption DEF IInv
<1>1. /\ Sharers' = Sharers
      /\ Weaks' = Weaks
      /\ Cloners' = Cloners
      /\ Deciding' = Deciding
      /\ Deleting' = Deleting
      /\ Firsts' = Firsts
    BY DEF Clone, Uses, Goes, TypeOK, Sharers, Weaks, Cloners, Deciding, Deleting, Firsts,
           MakesFirst
<1>2. /\ object' = object /\ ctrl' = ctrl /\ W' = W /\ weak[t] = W /\ ctrl[W].live
      /\ t \in Cloners
      /\ pc' = [pc EXCEPT ![t] = "addRef"]
      /\ OwnRef' <=> OwnRef
    <2>1. t \in Cloners /\ t \in Weaks
        BY DEF Clone, Cloners, Weaks, ClonerInv
    <2>2. weak[t] = W /\ W \in Blocks /\ ctrl[W].live
        BY <2>1, HoldersSafe
    <2>3. ctrl[W].sharedObj
        BY <2>1 DEF ClonerInv
    <2>4. pc' = [pc EXCEPT ![t] = "addRef"]
        BY <2>2, <2>3 DEF Clone, Goes
    <2>5. object' = object /\ ctrl' = ctrl /\ W' = W
        BY DEF Clone, W
    <2>6. OwnRef' <=> OwnRef
        BY <2>4, <2>5 DEF Clone, OwnRef, TypeOK
    <2> QED
        BY <2>1, <2>2, <2>4, <2>5, <2>6
<1>3. TypeOK'
    <2>1. object' \in ObjectType
        BY DEF Clone, TypeOK, ObjectType
    <2>2. ctrl' \in [Blocks -> CtrlType]
        BY DEF Clone, TypeOK, CtrlType
    <2>3. pc' \in [Threads -> Places]
        BY DEF Clone, Goes, Places, TypeOK
    <2>4. /\ shared' \in [Threads -> BOOLEAN]
          /\ weak' \in [Threads -> Blocks \cup {None}]
          /\ reg' \in [Threads -> Blocks \cup {None}]
        BY DEF Clone, TypeOK
    <2>5. freed' \in BOOLEAN /\ calls' \in 0..MaxCalls
        BY DEF Clone, Uses, UsesObject, TypeOK
    <2> QED
        BY <2>1, <2>2, <2>3, <2>4, <2>5 DEF TypeOK, ObjectType, CtrlType
<1>4. CountInv'
    BY <1>1, <1>2 DEF CountInv, Clone, Uses, Goes, TypeOK
<1>5. BlockInv'
    BY <1>1, <1>2 DEF BlockInv, Clone, Uses, Goes, TypeOK
<1>6. MakerInv'
    BY <1>1, <1>2 DEF MakerInv, Weaks, Firsts, MakesFirst, Clone, Uses, Goes, TypeOK
<1>7. ClonerInv'
    BY <1>1, <1>2 DEF ClonerInv, Cloners, Clone, Uses, Goes, TypeOK
<1>8. DeleterInv'
    BY <1>1, <1>2 DEF DeleterInv, Deciding, Deleting, Cloners, Clone, Uses, Goes, TypeOK
<1>9. NoUseAfterFree'
    <2>1. freed' = (freed \/ ~ctrl[W].live)
        BY <1>2 DEF Clone, Uses
    <2> QED
        BY <1>2, <2>1, Zenon DEF NoUseAfterFree
<1> QED
    BY <1>3, <1>4, <1>5, <1>6, <1>7, <1>8, <1>9

\* A lock() makes a shared pointer.
LEMMA AddRefPreserves ==
    ASSUME Regular, IInv, NEW t \in Threads, AddRef(t)
    PROVE  IInv'
<1> USE WeakPtrsAssumption DEF IInv
<1>1. /\ Sharers' = Sharers \cup {t}
      /\ Weaks' = Weaks
      /\ Cloners' = Cloners
      /\ Deciding' = Deciding
      /\ Deleting' = Deleting
      /\ Firsts' = Firsts
    BY DEF AddRef, UsesObject, Goes, TypeOK, Sharers, Weaks, Cloners, Deciding, Deleting,
           Firsts, MakesFirst
<1>2. /\ ctrl' = ctrl /\ W' = W /\ object.alive /\ object'.alive
      /\ object'.refs = object.refs + 1
      /\ t \in Cloners /\ t \notin Sharers /\ Deleting = {}
      /\ Cardinality(Sharers \cup {t}) = Cardinality(Sharers) + 1
      /\ OwnRef' <=> OwnRef
    <2>1. t \in Cloners /\ t \notin Sharers
        BY DEF AddRef, Cloners, Sharers, ClonerInv
    <2>2. object.alive /\ Deleting = {}
        BY <2>1 DEF ClonerInv, DeleterInv
    <2>3. object'.alive /\ object'.refs = object.refs + 1 /\ W' = W /\ ctrl' = ctrl
        BY <2>2 DEF AddRef, W, TypeOK
    <2>4. Cardinality(Sharers \cup {t}) = Cardinality(Sharers) + 1
        BY <2>1, SetsFinite, Counting
    <2>5. OwnRef' <=> OwnRef
        BY <2>2, <2>3 DEF AddRef, Goes, OwnRef, TypeOK
    <2> QED
        BY <2>1, <2>2, <2>3, <2>4, <2>5
<1>3. TypeOK'
    <2>1. object' \in ObjectType
        BY <1>2 DEF AddRef, TypeOK, ObjectType
    <2>2. ctrl' \in [Blocks -> CtrlType]
        BY DEF AddRef, TypeOK, CtrlType
    <2>3. pc' \in [Threads -> Places]
        BY DEF AddRef, Goes, Places, TypeOK
    <2>4. /\ shared' \in [Threads -> BOOLEAN]
          /\ weak' \in [Threads -> Blocks \cup {None}]
          /\ reg' \in [Threads -> Blocks \cup {None}]
        BY DEF AddRef, TypeOK
    <2>5. freed' \in BOOLEAN /\ calls' \in 0..MaxCalls
        BY DEF AddRef, Uses, UsesObject, TypeOK
    <2> QED
        BY <2>1, <2>2, <2>3, <2>4, <2>5 DEF TypeOK, ObjectType, CtrlType
<1>4. CountInv'
    BY <1>1, <1>2 DEF CountInv, AddRef, UsesObject, Goes, TypeOK
<1>5. BlockInv'
    BY <1>1, <1>2 DEF BlockInv, AddRef, UsesObject, Goes, TypeOK
<1>6. MakerInv'
    BY <1>1, <1>2 DEF MakerInv, Weaks, Firsts, MakesFirst, AddRef, UsesObject, Goes, TypeOK
<1>7. ClonerInv'
    BY <1>1, <1>2 DEF ClonerInv, Cloners, AddRef, UsesObject, Goes, TypeOK
<1>8. DeleterInv'
    BY <1>1, <1>2 DEF DeleterInv, Deciding, Deleting, Cloners, AddRef, UsesObject, Goes, TypeOK
<1>9. NoUseAfterFree'
    BY <1>2, Zenon DEF AddRef, UsesObject, NoUseAfterFree
<1> QED
    BY <1>3, <1>4, <1>5, <1>6, <1>7, <1>8, <1>9

\* A lock() ends.
LEMMA UnlockForClonePreserves ==
    ASSUME Regular, IInv, NEW t \in Threads, UnlockForClone(t)
    PROVE  IInv'
<1> USE WeakPtrsAssumption DEF IInv
<1>1. /\ Sharers' = Sharers
      /\ Weaks' = Weaks
      /\ Cloners' = Cloners \ {t}
      /\ Deciding' = Deciding
      /\ Deleting' = Deleting
      /\ Firsts' = Firsts
    BY DEF UnlockForClone, Uses, Goes, TypeOK, Sharers, Weaks, Cloners, Deciding, Deleting,
           Firsts, MakesFirst
<1>2. /\ object' = object /\ W' = W /\ W \in Blocks /\ W # None /\ weak[t] = W
      /\ t \in Cloners /\ t \in Sharers /\ Deciding = {} /\ Deleting = {} /\ object.alive
      /\ ctrl[W].live /\ ~ctrl[W].deleting
      /\ Cardinality(Cloners \ {t}) = Cardinality(Cloners) - 1
      /\ ctrl' \in [Blocks -> CtrlType] /\ \A b \in Blocks : b # W => ctrl'[b] = ctrl[b]
      /\ ctrl'[W].live = ctrl[W].live /\ ctrl'[W].refs = ctrl[W].refs
      /\ ctrl'[W].sharedObj = ctrl[W].sharedObj /\ ctrl'[W].deleting = ctrl[W].deleting
      /\ ctrl'[W].clones = ctrl[W].clones - 1
      /\ OwnRef' <=> OwnRef
    <2>1. t \in Cloners /\ t \in Sharers /\ t \in Weaks
        BY DEF UnlockForClone, Weaks, Cloners, Sharers, ClonerInv
    <2>2. weak[t] = W /\ W \in Blocks /\ W # None /\ ctrl[W].live
        BY <2>1, HoldersSafe
    <2>3. Deciding = {}
        BY DEF UnlockForClone, May, Regular, Deciding
    <2>4. Deleting = {} /\ object.alive /\ ~ctrl[W].deleting
        BY <2>1 DEF ClonerInv, DeleterInv
    <2>5. /\ Cardinality(Cloners \ {t}) = Cardinality(Cloners) - 1
          /\ Cardinality(Cloners) > 0 /\ Cardinality(Cloners) \in Nat
        BY <2>1, SetsFinite, Counting
    <2>6. ctrl[W].clones > 0
        BY <2>2, <2>4, <2>5 DEF CountInv
    <2>7. object' = object /\ W' = W
        BY DEF UnlockForClone, W
    <2>8. /\ ctrl' \in [Blocks -> CtrlType] /\ \A b \in Blocks : b # W => ctrl'[b] = ctrl[b]
          /\ ctrl'[W].live = ctrl[W].live /\ ctrl'[W].refs = ctrl[W].refs
          /\ ctrl'[W].sharedObj = ctrl[W].sharedObj /\ ctrl'[W].deleting = ctrl[W].deleting
          /\ ctrl'[W].clones = ctrl[W].clones - 1
        <3>1. ctrl \in [Blocks -> CtrlType]
            BY DEF TypeOK, CtrlType
        <3>2. ctrl' = [ctrl EXCEPT ![W].clones = @ - 1]
            BY <2>2, <2>6 DEF UnlockForClone
        <3>3. ctrl'[W] = [ctrl[W] EXCEPT !.clones = @ - 1] /\ ctrl[W] \in CtrlType
            BY <2>2, <2>6, <3>1, <3>2
        <3>4. \A b \in Blocks : b # W => ctrl'[b] = ctrl[b]
            BY <2>2, <2>6, <3>1, <3>2
        <3>5. ctrl' \in [Blocks -> CtrlType]
            BY <2>2, <2>6, <3>1, <3>2 DEF CtrlType
        <3> QED
            BY <3>3, <3>4, <3>5 DEF CtrlType
    <2>9. OwnRef' <=> OwnRef
        BY <2>7 DEF UnlockForClone, Goes, OwnRef, TypeOK
    <2> QED
        BY <2>1, <2>2, <2>3, <2>4, <2>5, <2>7, <2>8, <2>9
<1>3. TypeOK'
    <2>1. object' \in ObjectType
        BY DEF UnlockForClone, TypeOK, ObjectType
    <2>2. ctrl' \in [Blocks -> CtrlType]
        BY <1>2 DEF UnlockForClone, TypeOK, CtrlType
    <2>3. pc' \in [Threads -> Places]
        BY DEF UnlockForClone, Goes, Places, TypeOK
    <2>4. /\ shared' \in [Threads -> BOOLEAN]
          /\ weak' \in [Threads -> Blocks \cup {None}]
          /\ reg' \in [Threads -> Blocks \cup {None}]
        BY DEF UnlockForClone, TypeOK
    <2>5. freed' \in BOOLEAN /\ calls' \in 0..MaxCalls
        BY DEF UnlockForClone, Uses, UsesObject, TypeOK
    <2> QED
        BY <2>1, <2>2, <2>3, <2>4, <2>5 DEF TypeOK, ObjectType, CtrlType
<1>4. CountInv'
    BY <1>1, <1>2 DEF CountInv, UnlockForClone, Uses, Goes, TypeOK
<1>5. BlockInv'
    BY <1>1, <1>2 DEF BlockInv, UnlockForClone, Uses, Goes, TypeOK
<1>6. MakerInv'
    BY <1>1, <1>2 DEF MakerInv, Weaks, Firsts, MakesFirst, UnlockForClone, Uses, Goes, TypeOK
<1>7. ClonerInv'
    BY <1>1, <1>2 DEF ClonerInv, Cloners, UnlockForClone, Uses, Goes, TypeOK
<1>8. DeleterInv'
    BY <1>1, <1>2 DEF DeleterInv, Deciding, Deleting, Cloners, UnlockForClone, Uses, Goes,
           TypeOK
<1>9. NoUseAfterFree'
    <2>1. freed' = (freed \/ ~ctrl[W].live)
        BY <1>2 DEF UnlockForClone, Uses
    <2> QED
        BY <1>2, <2>1, Zenon DEF NoUseAfterFree
<1> QED
    BY <1>3, <1>4, <1>5, <1>6, <1>7, <1>8, <1>9

\* A weak pointer is given up, perhaps the last reference.
LEMMA ResetWeakPreserves ==
    ASSUME Regular, IInv, NEW t \in Threads, ResetWeak(t)
    PROVE  IInv'
<1> USE WeakPtrsAssumption DEF IInv
<1>1. /\ Sharers' = Sharers
      /\ Weaks' = Weaks \ {t}
      /\ Cloners' = Cloners
      /\ Deciding' = Deciding
      /\ Deleting' = Deleting
      /\ Firsts' = Firsts
    BY DEF ResetWeak, Calls, Uses, Goes, TypeOK, Sharers, Weaks, Cloners, Deciding, Deleting,
           Firsts, MakesFirst
<1>2. /\ object' = object /\ W' = W /\ W \in Blocks /\ W # None /\ weak[t] = W
      /\ t \in Weaks /\ Firsts = {} /\ Cloners \subseteq Weaks' /\ ctrl[W].live
      /\ \A b \in Blocks : b # W => ctrl'[b] = ctrl[b]
      /\ ctrl' = Released(W) /\ ctrl[W].refs > 0 /\ ctrl'[W].refs = ctrl[W].refs - 1
      /\ Cardinality(Weaks') = Cardinality(Weaks) - 1 /\ Cardinality(Weaks) \in Nat
      /\ Cardinality(Weaks) > 0
      /\ OwnRef' <=> OwnRef
      /\ \/ ctrl[W].refs = 1 /\ ctrl'[W] = NoCtrl /\ Weaks' = {} /\ Cloners = {} /\ ~OwnRef
         \/ /\ ctrl[W].refs > 1 /\ ctrl'[W].live /\ ctrl'[W].deleting = ctrl[W].deleting
            /\ ctrl'[W].sharedObj = ctrl[W].sharedObj /\ ctrl'[W].clones = ctrl[W].clones
    <2>1. t \in Weaks /\ t \notin Cloners
        BY DEF ResetWeak, Calls, Weaks, Cloners
    <2>2. weak[t] = W /\ W \in Blocks /\ W # None /\ ctrl[W].live
        BY <2>1, HoldersSafe
    <2>3. Firsts = {} /\ Cloners \subseteq Weaks'
        BY <1>1, <2>1, <2>2 DEF MakerInv, Firsts, MakesFirst, ClonerInv, Cloners, Weaks
    <2>4. object' = object /\ W' = W /\ ctrl' = Released(W)
        BY <2>2 DEF ResetWeak, W
    <2>5. OwnRef' <=> OwnRef
        BY <2>4 DEF ResetWeak, OwnRef
    <2>6. /\ Cardinality(Weaks') = Cardinality(Weaks) - 1 /\ Cardinality(Weaks) \in Nat
          /\ Cardinality(Weaks) > 0
        BY <1>1, <2>1, SetsFinite, Counting
    <2>7. ctrl[W].refs = Cardinality(Weaks) + IF OwnRef THEN 1 ELSE 0
        BY <2>2 DEF CountInv
    <2>8. \A b \in Blocks : b # W => ctrl'[b] = ctrl[b]
        BY <2>2, <2>4, BlockUpdates
    <2>9. CASE ctrl[W].refs = 1
        <3>1. Cardinality(Weaks') = 0 /\ ~OwnRef
            BY <2>6, <2>7, <2>9
        <3>2. IsFiniteSet(Weaks')
            BY <1>1, SetsFinite, FS_Subset
        <3>3. Weaks' = {} /\ Cloners = {}
            BY <2>3, <3>1, <3>2, FS_EmptySet
        <3>4. ctrl'[W] = NoCtrl /\ NoCtrl.refs = 0
            BY <2>2, <2>4, <2>9, BlockUpdates DEF NoCtrl
        <3> QED
            <4>1. ctrl'[W].refs = ctrl[W].refs - 1 /\ ctrl[W].refs > 0
                BY <2>9, <3>4
            <4> QED
                BY <2>1, <2>2, <2>3, <2>4, <2>5, <2>6, <2>8, <2>9, <3>1, <3>3, <3>4, <4>1
    <2>10. CASE ctrl[W].refs # 1
        <3>1. ctrl[W].refs > 1 /\ ctrl[W].refs > 0
            BY <2>6, <2>7, <2>10
        <3>2. ctrl'[W] = [ctrl[W] EXCEPT !.refs = @ - 1] /\ ctrl[W] \in CtrlType
            BY <2>2, <2>4, <2>10, BlockUpdates DEF TypeOK, CtrlType
        <3>3. /\ ctrl'[W].live /\ ctrl'[W].deleting = ctrl[W].deleting
              /\ ctrl'[W].sharedObj = ctrl[W].sharedObj /\ ctrl'[W].clones = ctrl[W].clones
              /\ ctrl'[W].refs = ctrl[W].refs - 1
            BY <2>2, <3>2 DEF CtrlType
        <3> QED
            BY <2>1, <2>2, <2>3, <2>4, <2>5, <2>6, <2>8, <3>1, <3>3
    <2> QED
        BY <2>9, <2>10
<1>3. TypeOK'
    <2>1. object' \in ObjectType
        BY DEF ResetWeak, TypeOK, ObjectType
    <2>2. ctrl' \in [Blocks -> CtrlType]
        BY <1>2, BlockUpdates
    <2>3. pc' \in [Threads -> Places]
        BY DEF ResetWeak, Goes, Places, TypeOK
    <2>4. /\ shared' \in [Threads -> BOOLEAN]
          /\ weak' \in [Threads -> Blocks \cup {None}]
          /\ reg' \in [Threads -> Blocks \cup {None}]
        BY DEF ResetWeak, TypeOK
    <2>5. freed' \in BOOLEAN /\ calls' \in 0..MaxCalls
        BY DEF ResetWeak, Calls, Uses, TypeOK
    <2> QED
        BY <2>1, <2>2, <2>3, <2>4, <2>5 DEF TypeOK, ObjectType, CtrlType
<1>4. CountInv'
    <2>1. Cloners = {} => Cardinality(Cloners) = 0
        BY FS_EmptySet
    <2>2. ~ctrl'[W].deleting => ctrl'[W].clones = Cardinality(Cloners)
        BY <1>2, <2>1 DEF CountInv, NoCtrl
    <2>3. ctrl[W].refs = Cardinality(Weaks) + IF OwnRef THEN 1 ELSE 0
        BY <1>2 DEF CountInv
    <2>4. Sharers' = Sharers /\ object' = object /\ object.refs = Cardinality(Sharers)
        BY <1>1, <1>2 DEF CountInv
    <2>5. ctrl'[W].refs = Cardinality(Weaks') + IF OwnRef THEN 1 ELSE 0
        BY <1>2, <2>3
    <2> QED
        BY <1>1, <1>2, <2>2, <2>4, <2>5 DEF CountInv
<1>5. BlockInv'
    BY <1>1, <1>2 DEF BlockInv, ResetWeak, Calls, Uses, Goes, TypeOK, NoCtrl
<1>6. MakerInv'
    BY <1>1, <1>2 DEF MakerInv, Weaks, Firsts, MakesFirst, ResetWeak, Calls, Uses, Goes, TypeOK
<1>7. ClonerInv'
    BY <1>1, <1>2 DEF ClonerInv, Cloners, ResetWeak, Calls, Uses, Goes, TypeOK
<1>8. DeleterInv'
    <2>1. UNCHANGED <<pc, reg>>
        BY DEF ResetWeak
    <2>2. ~OwnRef => Deleting # {} \/ ~object.alive
        BY <1>2 DEF OwnRef, Deleting, Firsts, MakesFirst
    <2>3. Deciding # {} => ~ctrl'[W].deleting
        BY <1>2 DEF DeleterInv, NoCtrl
    <2>4. ctrl'[W].live => (ctrl'[W].deleting <=> Deleting # {} \/ ~object.alive)
        BY <1>2 DEF DeleterInv, NoCtrl
    <2>5. object.alive /\ Deleting = {} => ctrl'[W].sharedObj
        BY <1>2, <2>2 DEF DeleterInv
    <2> QED
        BY <1>1, <1>2, <2>1, <2>3, <2>4, <2>5 DEF DeleterInv
<1>9. NoUseAfterFree'
    <2>1. freed' = (freed \/ ~ctrl[W].live)
        BY <1>2 DEF ResetWeak, Uses
    <2> QED
        BY <1>2, <2>1, Zenon DEF NoUseAfterFree
<1> QED
    BY <1>3, <1>4, <1>5, <1>6, <1>7, <1>8, <1>9

(***************************************************************************)
(* The theorems                                                             *)
(***************************************************************************)

\* The invariant holds at the start: the creator holds the only pointer.
LEMMA InitInv == Init => IInv
<1> SUFFICES ASSUME Init PROVE IInv
    OBVIOUS
<1> USE WeakPtrsAssumption DEF Init
<1>1. /\ Sharers = {Creator} /\ Weaks = {} /\ Cloners = {} /\ Deciding = {} /\ Deleting = {}
      /\ Firsts = {} /\ W = None
    BY DEF Sharers, Weaks, Cloners, Deciding, Deleting, Firsts, MakesFirst, W
<1>2. TypeOK
    <2>1. ctrl \in [Blocks -> CtrlType]
        BY DEF NoCtrl, CtrlType
    <2>2. shared \in [Threads -> BOOLEAN] /\ freed \in BOOLEAN
        BY Zenon
    <2>3. object \in ObjectType
        BY DEF ObjectType
    <2>4. pc \in [Threads -> Places]
        BY DEF Places
    <2>5. /\ weak \in [Threads -> Blocks \cup {None}]
          /\ reg \in [Threads -> Blocks \cup {None}]
          /\ calls \in 0..MaxCalls
        OBVIOUS
    <2> QED
        BY <2>1, <2>2, <2>3, <2>4, <2>5 DEF TypeOK, ObjectType, CtrlType
<1>3. Cardinality({Creator}) = 1
    BY FS_Singleton
<1>4. CountInv
    BY <1>1, <1>3 DEF CountInv
<1>5. BlockInv /\ MakerInv
    BY <1>1 DEF BlockInv, MakerInv, NoCtrl
<1>6. ClonerInv /\ DeleterInv
    BY <1>1 DEF ClonerInv, DeleterInv
<1>7. NoUseAfterFree
    BY Zenon DEF NoUseAfterFree
<1> QED
    BY <1>2, <1>4, <1>5, <1>6, <1>7 DEF IInv

\* Every step preserves the invariant.
LEMMA NextInv ==
    ASSUME Regular
    PROVE  IInv /\ [Next]_vars => IInv'
<1> SUFFICES ASSUME IInv, [Next]_vars PROVE IInv'
    OBVIOUS
<1>1. CASE Next
    <2>1. PICK t \in Threads :
            \/ \E u \in Threads \ {t} : CopyShared(t, u) \/ CopyWeak(t, u)
            \/ DropShared(t) \/ LoadCtrl(t) \/ LockForDelete(t) \/ ClearSharedPtr(t)
            \/ ReleaseCtrl(t) \/ Destroy(t)
            \/ MakeWeak(t) \/ Allocate(t) \/ AddForShared(t) \/ AddForWeak(t)
            \/ ResetWeak(t)
            \/ LockForClone(t) \/ Clone(t) \/ AddRef(t) \/ UnlockForClone(t)
        BY <1>1 DEF Next
    <2>2. CASE \E u \in Threads \ {t} : CopyShared(t, u) \/ CopyWeak(t, u)
        BY <2>2, CopySharedPreserves, CopyWeakPreserves
    <2>3. CASE DropShared(t) \/ LoadCtrl(t) \/ LockForDelete(t) \/ ClearSharedPtr(t)
        BY <2>3, DropSharedPreserves, LoadCtrlPreserves, LockForDeletePreserves,
           ClearSharedPtrPreserves
    <2>4. CASE ReleaseCtrl(t) \/ Destroy(t)
        BY <2>4, ReleaseCtrlPreserves, DestroyPreserves
    <2>5. CASE MakeWeak(t) \/ Allocate(t) \/ AddForShared(t) \/ AddForWeak(t)
        BY <2>5, MakeWeakPreserves, AllocatePreserves, AddForSharedPreserves,
           AddForWeakPreserves
    <2>6. CASE ResetWeak(t)
        BY <2>6, ResetWeakPreserves
    <2>7. CASE LockForClone(t) \/ Clone(t) \/ AddRef(t) \/ UnlockForClone(t)
        BY <2>7, LockForClonePreserves, ClonePreserves, AddRefPreserves,
           UnlockForClonePreserves
    <2> QED
        BY <2>1, <2>2, <2>3, <2>4, <2>5, <2>6, <2>7
<1>2. CASE UNCHANGED vars
    <2> USE <1>2 DEF vars
    <2>1. /\ W' = W /\ Sharers' = Sharers /\ Weaks' = Weaks /\ Cloners' = Cloners
          /\ Deciding' = Deciding /\ Deleting' = Deleting /\ Firsts' = Firsts
          /\ (OwnRef' <=> OwnRef)
        BY DEF W, Sharers, Weaks, Cloners, Deciding, Deleting, Firsts, MakesFirst, OwnRef
    <2>2. TypeOK' /\ CountInv' /\ BlockInv'
        BY <2>1 DEF IInv, TypeOK, CountInv, BlockInv
    <2>3. MakerInv' /\ ClonerInv' /\ DeleterInv'
        BY <2>1 DEF IInv, MakerInv, ClonerInv, DeleterInv
    <2>4. NoUseAfterFree'
        BY Zenon DEF IInv, NoUseAfterFree
    <2> QED
        BY <2>2, <2>3, <2>4 DEF IInv
<1> QED
    BY <1>1, <1>2

\* The inductive invariant holds in every state: counts are exact, the block
\* lives as long as it is referenced, and lock() and reset() exclude each other.
THEOREM PointersInvariant ==
    ASSUME Regular
    PROVE  Spec => []IInv
BY InitInv, NextInv, PTL DEF Spec

\* Every variable keeps its type; no count of SharedPtr or WeakCtrl goes below 0.
THEOREM TypeCorrect ==
    ASSUME Regular
    PROVE  Spec => []TypeOK
<1>1. IInv => TypeOK
    BY DEF IInv
<1> QED
    BY <1>1, PointersInvariant, PTL

\* Who holds a shared pointer, made by WeakPtr::lock or not, holds an object
\* that exists and that no SharedPtr::reset has begun to destroy.
THEOREM HoldersHoldLiveObject ==
    ASSUME Regular
    PROVE  Spec => []HeldIsAlive
<1>1. IInv => HeldIsAlive
    <2> SUFFICES ASSUME IInv, NEW t \in Threads, shared[t]
                 PROVE  object.alive /\ (W # None => ~ctrl[W].deleting)
        BY DEF HeldIsAlive, W
    <2>1. t \in Sharers
        BY DEF Sharers
    <2>2. object.alive /\ Deleting = {} /\ (W # None => ctrl[W].live)
        BY <2>1, HoldersSafe
    <2> QED
        BY <2>2 DEF IInv, DeleterInv
<1> QED
    BY <1>1, PointersInvariant, PTL

\* Neither the object nor a control block is touched once it is destroyed, by
\* any interleaving of copies, resets and locks of the pointers.
THEOREM NothingUsedAfterFree ==
    ASSUME Regular
    PROVE  Spec => []NoUseAfterFree
<1>1. IInv => NoUseAfterFree
    BY DEF IInv
<1> QED
    BY <1>1, PointersInvariant, PTL

\* When no pointer is left and no call is under way, the object and its
\* control block have been destroyed.
THEOREM NothingIsLeaked ==
    ASSUME Regular
    PROVE  Spec => []NothingLeaks
<1>1. IInv => NothingLeaks
    <2> SUFFICES ASSUME IInv,
                        \A t \in Threads : ~shared[t] /\ weak[t] = None /\ pc[t] = "idle"
                 PROVE  ~object.alive /\ \A b \in Blocks : ~ctrl[b].live
        BY DEF NothingLeaks
    <2>1. /\ Sharers = {} /\ Weaks = {} /\ Cloners = {} /\ Deciding = {} /\ Deleting = {}
          /\ Firsts = {}
        BY DEF Sharers, Weaks, Cloners, Deciding, Deleting, Firsts, MakesFirst
    <2>2. ~object.alive
        BY <2>1 DEF IInv, DeleterInv
    <2>3. ~OwnRef /\ Cardinality({}) = 0
        BY <2>2, FS_EmptySet DEF OwnRef
    <2>4. W # None => ctrl[W].refs = 0
        BY <2>1, <2>3 DEF IInv, CountInv
    <2>5. W # None => ~ctrl[W].live
        BY <2>1, <2>4 DEF IInv, BlockInv
    <2> QED
        BY <2>2, <2>5, WeakPtrsAssumption DEF IInv, BlockInv
<1> QED
    BY <1>1, PointersInvariant, PTL

==============================================================================
