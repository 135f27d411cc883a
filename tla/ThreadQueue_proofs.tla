------------------------ MODULE ThreadQueue_proofs ------------------------
(***************************************************************************)
(* Proofs about ThreadQueue for every number of producers, every loop       *)
(* limit and every bound: type correctness, that no wake-up of taskLoop is  *)
(* lost, and that every task posted is in one place.                        *)
(***************************************************************************)
EXTENDS ThreadQueue, FiniteSetTheorems, TLAPS

(***************************************************************************)
(* Sequences of handlers as sets                                            *)
(***************************************************************************)

\* What push_back adds to the io_context's handlers is there, and nothing
\* else is lost: the memberships of a sequence under Append.
LEMMA SetOfAppend ==
    ASSUME NEW S, NEW s \in Seq(S), NEW x \in S
    PROVE  SetOf(Append(s, x)) = SetOf(s) \cup {x}
<1>1. /\ DOMAIN Append(s, x) = 1..(Len(s) + 1)
      /\ DOMAIN s = 1..Len(s)
      /\ \A i \in 1..Len(s) : Append(s, x)[i] = s[i]
      /\ Append(s, x)[Len(s) + 1] = x
      /\ Len(s) \in Nat
    OBVIOUS
<1>2. ASSUME NEW y \in SetOf(Append(s, x)) PROVE y \in SetOf(s) \cup {x}
    BY <1>1 DEF SetOf
<1>3. ASSUME NEW y \in SetOf(s) PROVE y \in SetOf(Append(s, x))
    BY <1>1 DEF SetOf
<1>4. x \in SetOf(Append(s, x))
    BY <1>1 DEF SetOf
<1> QED
    BY <1>2, <1>3, <1>4

\* Taking the oldest handler leaves every other one in place.
LEMMA SetOfTail ==
    ASSUME NEW S, NEW s \in Seq(S), s # <<>>
    PROVE  \A y \in SetOf(s) : y # Head(s) => y \in SetOf(Tail(s))
<1>1. SUFFICES ASSUME NEW i \in DOMAIN s, s[i] # Head(s)
               PROVE  s[i] \in SetOf(Tail(s))
    BY DEF SetOf
<1>2. i \in 2..Len(s)
    BY <1>1
<1>3. i - 1 \in DOMAIN Tail(s) /\ Tail(s)[i - 1] = s[i]
    BY <1>2
<1> QED
    BY <1>3 DEF SetOf

\* The elements of a sequence over a set belong to that set.
LEMMA SetOfSubset ==
    ASSUME NEW S, NEW s \in Seq(S)
    PROVE  SetOf(s) \subseteq S
BY DEF SetOf

(***************************************************************************)
(* Type correctness                                                         *)
(***************************************************************************)

\* A handler is a taskLoop, a clear() or the packaged task of a caller, and
\* running a synchronous one keeps queue, dropped and ran typed.
LEMMA RunSyncHandlerTyped ==
    ASSUME TypeOK, NEW h \in Handler, h # TaskLoop, RunSyncHandler(h)
    PROVE  queue' \in Seq(Task) /\ dropped' \subseteq Task /\ ran' \subseteq Callers
<1>1. CASE h.kind = "sync"
    <2>1. h.caller \in Callers
        BY <1>1 DEF Handler, TaskLoop
    <2> QED
        BY <1>1, <2>1 DEF RunSyncHandler, TypeOK
<1>2. CASE h.kind = "clear"
    <2>1. SetOf(queue) \subseteq Task
        BY SetOfSubset DEF TypeOK
    <2> QED
        BY <1>2, <2>1 DEF RunSyncHandler, ClearQueueNow, TypeOK
<1> QED
    BY <1>1, <1>2 DEF RunSyncHandler

\* A thread constructed by Thread_p, not started and with an empty queue, is
\* well typed.
LEMMA InitTyped == Init => TypeOK
<1> SUFFICES ASSUME Init PROVE TypeOK
    OBVIOUS
<1>1. /\ queue \in Seq(Task) /\ currentTask \in Seq(Task) /\ executed \in Seq(Task)
      /\ handlers \in Seq(Handler)
    BY DEF Init
<1>2. /\ scheduleAsync \in [Posters -> BOOLEAN]
      /\ running \in BOOLEAN /\ stopped \in BOOLEAN /\ firstRun \in BOOLEAN
      /\ ioStopped \in BOOLEAN /\ swallowed \in BOOLEAN
    BY Zenon DEF Init
<1>3. /\ pc \in [Posters -> {"idle", "check", "push", "dec", "wake"}]
      /\ pushed \in [Posters -> Nat]
      /\ call \in [Callers -> {"idle", "waiting", "ok", "timeout"}]
    BY DEF Init
<1>4. /\ postingRefCount \in Int /\ processedCount \in Nat
      /\ starts \in Nat /\ clears \in Nat
      /\ worker \in WorkerPC /\ ctl \in CtlPC
      /\ ran \subseteq Callers /\ dropped \subseteq Task
    BY DEF Init, WorkerPC, CtlPC
<1> QED
    BY <1>1, <1>2, <1>3, <1>4 DEF TypeOK

\* Every step of a poster, the worker, the controlling thread or a caller of
\* execSync keeps the types, one case per action.
LEMMA NextTyped == TypeOK /\ [Next]_vars => TypeOK'
<1> SUFFICES ASSUME TypeOK, [Next]_vars PROVE TypeOK'
    OBVIOUS
<1> USE DEF TypeOK
<1>1. ASSUME NEW p \in Posters, PostBegin(p) PROVE TypeOK'
    BY <1>1 DEF PostBegin, workerVars, flagVars, ctlVars, callVars
<1>2. ASSUME NEW p \in Posters, PostCheck(p) PROVE TypeOK'
    BY <1>2 DEF PostCheck, workerVars, flagVars, ctlVars, callVars
<1>3. ASSUME NEW p \in Posters, PostPush(p) PROVE TypeOK'
    <2>1. [by |-> p, n |-> pushed[p]] \in Task
        BY <1>3 DEF Task
    <2> QED
        BY <1>3, <2>1 DEF PostPush, workerVars, flagVars, ctlVars, callVars
<1>4. ASSUME NEW p \in Posters, PostDec(p) PROVE TypeOK'
    BY <1>4 DEF PostDec, workerVars, flagVars, ctlVars, callVars
<1>5. ASSUME NEW p \in Posters, PostWake(p) PROVE TypeOK'
    <2>1. TaskLoop \in Handler
        BY DEF Handler
    <2> QED
        BY <1>5, <2>1 DEF PostWake, workerVars, flagVars, ctlVars, callVars
<1>6. CASE RunEnter
    BY <1>6 DEF RunEnter, WorkerPC, queueVars, ctlVars, callVars
<1>7. CASE RunStarted
    BY <1>7 DEF RunStarted, WorkerPC, queueVars, ctlVars, callVars
<1>8. CASE RunReturns
    BY <1>8 DEF RunReturns, WorkerPC, queueVars, flagVars, ctlVars, callVars
<1>9. CASE RunEnd
    BY <1>9 DEF RunEnd, WorkerPC, queueVars, ctlVars, callVars
<1>10. CASE SelectTaskLoop
    BY <1>10 DEF SelectTaskLoop, WorkerPC, InLoop, queueVars, flagVars, ctlVars, callVars
<1>11. CASE SelectSync
    <2>1. Head(handlers) \in Handler /\ Tail(handlers) \in Seq(Handler)
        BY <1>11 DEF SelectSync
    <2>2. queue' \in Seq(Task) /\ dropped' \subseteq Task /\ ran' \subseteq Callers
        BY <1>11, <2>1, RunSyncHandlerTyped DEF SelectSync
    <2>3. ctl' \in CtlPC
        BY <1>11 DEF SelectSync, CtlPC
    <2> QED
        BY <1>11, <2>1, <2>2, <2>3 DEF SelectSync, workerVars, flagVars
<1>12. CASE LoopPop
    <2>1. worker' \in WorkerPC
        BY <1>12 DEF LoopPop, WorkerPC, InLoop
    <2>2. queue' \in Seq(Task) /\ currentTask' \in Seq(Task)
        <3>1. CASE queue = <<>>
            BY <1>12, <3>1 DEF LoopPop
        <3>2. CASE queue # <<>>
            <4>1. Head(queue) \in Task /\ Tail(queue) \in Seq(Task)
                BY <3>2
            <4> QED
                <5>1. currentTask' = <<Head(queue)>> /\ queue' = Tail(queue)
                    BY <1>12, <3>2 DEF LoopPop
                <5> QED
                    BY <4>1, <5>1
        <3> QED
            BY <3>1, <3>2
    <2> QED
        BY <1>12, <2>1, <2>2 DEF LoopPop, flagVars, ctlVars, callVars
<1>13. CASE LoopTaskDone
    <2>1. TaskLoop \in Handler
        BY DEF Handler
    <2> QED
        BY <1>13, <2>1 DEF LoopTaskDone, WorkerPC, InLoop, queueVars, flagVars, ctlVars, callVars
<1>14. CASE LoopReadCount
    BY <1>14 DEF LoopReadCount, WorkerPC, InLoop, queueVars, flagVars, ctlVars, callVars
<1>15. CASE LoopReadEmpty
    BY <1>15 DEF LoopReadEmpty, WorkerPC, InLoop, queueVars, flagVars, ctlVars, callVars
<1>16. CASE Start
    <2>1. /\ worker' \in WorkerPC /\ ctl' \in CtlPC /\ starts' \in Nat
          /\ ioStopped' \in BOOLEAN /\ stopped' \in BOOLEAN
        <3>1. worker' \in WorkerPC /\ ctl' \in CtlPC /\ starts' \in Nat
            BY <1>16 DEF Start, WorkerPC, CtlPC
        <3>2. ioStopped' \in BOOLEAN /\ stopped' \in BOOLEAN
            BY <1>16, Zenon DEF Start
        <3> QED
            BY <3>1, <3>2
    <2> QED
        BY <1>16, <2>1 DEF Start, queueVars, callVars
<1>17. CASE StartReturns
    BY <1>17 DEF StartReturns, CtlPC, queueVars, workerVars, flagVars, callVars
<1>18. CASE Stop
    BY <1>18 DEF Stop, CtlPC, queueVars, workerVars, callVars
<1>19. CASE StopJoined
    BY <1>19 DEF StopJoined, WorkerPC, CtlPC, queueVars, callVars
<1>20. CASE StopPollOne
    <2>1. CASE handlers = <<>>
        BY <1>20, <2>1 DEF StopPollOne, CtlPC, workerVars, flagVars
    <2>2. CASE handlers # <<>> /\ Head(handlers) = TaskLoop
        <3>1. ctl' \in CtlPC /\ Tail(handlers) \in Seq(Handler)
            BY <1>20, <2>2 DEF StopPollOne, CtlPC
        <3>2. handlers' = Tail(handlers) /\ swallowed' = TRUE /\ UNCHANGED <<queue, dropped, ran>>
            BY <1>20, <2>2, Zenon DEF StopPollOne
        <3> QED
            BY <1>20, <3>1, <3>2 DEF StopPollOne, workerVars, flagVars
    <2>3. CASE handlers # <<>> /\ Head(handlers) # TaskLoop
        <3>1. Head(handlers) \in Handler /\ Tail(handlers) \in Seq(Handler)
            BY <2>3
        <3>2. queue' \in Seq(Task) /\ dropped' \subseteq Task /\ ran' \subseteq Callers
            BY <1>20, <2>3, <3>1, RunSyncHandlerTyped DEF StopPollOne
        <3> QED
            BY <1>20, <2>3, <3>1, <3>2 DEF StopPollOne, CtlPC, workerVars, flagVars
    <2> QED
        BY <2>1, <2>2, <2>3
<1>21. CASE ClearQueue
    <2>1. ClearTask(clears') \in Handler /\ clears' \in Nat
        BY <1>21 DEF ClearQueue, ClearTask, Handler
    <2>2. SetOf(queue) \subseteq Task
        BY SetOfSubset
    <2>3. /\ queue' \in Seq(Task) /\ dropped' \subseteq Task
          /\ handlers' \in Seq(Handler) /\ ctl' \in CtlPC
        <3>1. CASE ClearQueueNow /\ UNCHANGED <<handlers, ctl>>
            BY <2>2, <3>1 DEF ClearQueueNow
        <3>2. CASE /\ handlers' = Append(handlers, ClearTask(clears'))
                   /\ ctl' = "clearWait"
                   /\ UNCHANGED <<queue, dropped>>
            BY <2>1, <3>2 DEF CtlPC
        <3> QED
            BY <1>21, <3>1, <3>2 DEF ClearQueue
    <2> QED
        BY <1>21, <2>1, <2>3 DEF ClearQueue, workerVars, flagVars, callVars
<1>22. CASE ClearReturns
    BY <1>22 DEF ClearReturns, CtlPC, queueVars, workerVars, flagVars, callVars
<1>23. ASSUME NEW c \in Callers, ExecSync(c) PROVE TypeOK'
    <2>1. SyncTask(c) \in Handler
        BY <1>23 DEF SyncTask, Handler
    <2> QED
        BY <1>23, <2>1 DEF ExecSync, queueVars, workerVars, flagVars, ctlVars
<1>24. ASSUME NEW c \in Callers, ExecSyncReturns(c) PROVE TypeOK'
    BY <1>24 DEF ExecSyncReturns, queueVars, workerVars, flagVars, ctlVars
<1>25. ASSUME NEW c \in Callers, ExecSyncTimeout(c) PROVE TypeOK'
    BY <1>25 DEF ExecSyncTimeout, queueVars, workerVars, flagVars, ctlVars
<1>26. CASE UNCHANGED vars
    BY <1>26 DEF vars, queueVars, workerVars, flagVars, ctlVars, callVars
<1> QED
    BY <1>1, <1>2, <1>3, <1>4, <1>5, <1>6, <1>7, <1>8, <1>9, <1>10, <1>11, <1>12, <1>13,
       <1>14, <1>15, <1>16, <1>17, <1>18, <1>19, <1>20, <1>21, <1>22, <1>23, <1>24, <1>25,
       <1>26
    DEF Next, Post, WorkerNext, CtlNext, CallNext

\* Every variable of Thread and ThreadWithQueue keeps its type in every
\* interleaving of posters, worker, controlling thread and execSync callers.
THEOREM TypeCorrect == Spec => []TypeOK
<1>1. Init => TypeOK
    BY InitTyped
<1>2. TypeOK /\ [Next]_vars => TypeOK'
    BY NextTyped
<1> QED
    BY <1>1, <1>2, PTL DEF Spec

(***************************************************************************)
(* The posting reference count                                              *)
(***************************************************************************)

\* Only doPost writes what doPost uses besides the queue.
LEMMA OthersKeepPosting ==
    ASSUME WorkerNext \/ CtlNext \/ (\E c \in Callers : CallNext(c)) \/ UNCHANGED vars
    PROVE  UNCHANGED <<postingRefCount, pc, scheduleAsync, pushed>>
<1>1. CASE WorkerNext
    BY <1>1 DEF WorkerNext, RunEnter, RunStarted, RunReturns, RunEnd, SelectTaskLoop,
        SelectSync, LoopPop, LoopTaskDone, LoopReadCount, LoopReadEmpty, queueVars
<1>2. CASE CtlNext
    BY <1>2 DEF CtlNext, Start, StartReturns, Stop, StopJoined, StopPollOne, ClearQueue,
        ClearReturns, queueVars
<1>3. CASE \E c \in Callers : CallNext(c)
    BY <1>3 DEF CallNext, ExecSync, ExecSyncReturns, ExecSyncTimeout, queueVars
<1>4. CASE UNCHANGED vars
    BY <1>4 DEF vars, queueVars
<1> QED
    BY <1>1, <1>2, <1>3, <1>4

\* The posters between increment and decrement are finitely many.
LEMMA PostingFinite == IsFiniteSet(Posting)
<1>1. IsFiniteSet(Posters)
    BY ThreadQueueAssumption, FS_AddElement DEF Posters
<1> QED
    BY <1>1, FS_Subset DEF Posting

\* Nobody is posting when the queue is created with a zero count.
LEMMA InitRefCount == Init => RefCountExact
<1> SUFFICES ASSUME Init PROVE RefCountExact
    OBVIOUS
<1>1. Posting = {}
    BY DEF Init, Posting
<1> QED
    BY <1>1, FS_EmptySet DEF Init, RefCountExact

\* Each step of doPost moves at most one poster in or out of Posting, with
\* the matching change of m_postingRefCount.
LEMMA NextRefCount == TypeOK /\ RefCountExact /\ [Next]_vars => RefCountExact'
<1> SUFFICES ASSUME TypeOK, RefCountExact, [Next]_vars PROVE RefCountExact'
    OBVIOUS
<1>1. ASSUME NEW p \in Posters, PostBegin(p) PROVE RefCountExact'
    <2>1. Posting' = Posting \cup {p} /\ p \notin Posting
        BY <1>1 DEF PostBegin, Posting, TypeOK
    <2>2. Cardinality(Posting') = Cardinality(Posting) + 1
        BY <2>1, PostingFinite, FS_AddElement
    <2> QED
        BY <1>1, <2>2 DEF PostBegin, RefCountExact
<1>2. ASSUME NEW p \in Posters, PostCheck(p) \/ PostPush(p) \/ PostWake(p)
      PROVE  RefCountExact'
    <2>1. Posting' = Posting
        BY <1>2 DEF PostCheck, PostPush, PostWake, Posting, TypeOK
    <2> QED
        BY <1>2, <2>1 DEF PostCheck, PostPush, PostWake, RefCountExact
<1>3. ASSUME NEW p \in Posters, PostDec(p) PROVE RefCountExact'
    <2>1. Posting' = Posting \ {p} /\ p \in Posting
        BY <1>3 DEF PostDec, Posting, TypeOK
    <2>2. Cardinality(Posting') = Cardinality(Posting) - 1
        BY <2>1, PostingFinite, FS_RemoveElement
    <2> QED
        BY <1>3, <2>2 DEF PostDec, RefCountExact
<1>4. CASE UNCHANGED <<postingRefCount, pc>>
    BY <1>4 DEF RefCountExact, Posting
<1> QED
    BY <1>1, <1>2, <1>3, <1>4, OthersKeepPosting DEF Next, Post

\* A taskLoop that reads the count 0 knows that nobody is posting.
LEMMA CountZeroMeansNobody ==
    ASSUME RefCountExact, postingRefCount = 0
    PROVE  Posting = {}
BY PostingFinite, FS_EmptySet DEF RefCountExact

(***************************************************************************)
(* The thread's flags                                                       *)
(***************************************************************************)

\* A thread that was never started is neither started nor stopped.
LEMMA InitFlags == Init => LoopOnlyWhileRunning
BY DEF Init, LoopOnlyWhileRunning, isStarted, isStopped, InLoop

\* start(), run() and stop() keep running, firstRun and the OS thread in step.
LEMMA NextFlags == TypeOK /\ LoopOnlyWhileRunning /\ [Next]_vars => LoopOnlyWhileRunning'
<1> SUFFICES ASSUME TypeOK, LoopOnlyWhileRunning, [Next]_vars PROVE LoopOnlyWhileRunning'
    OBVIOUS
<1> USE DEF LoopOnlyWhileRunning, isStarted, isStopped, InLoop
<1>1. CASE UNCHANGED <<running, firstRun, worker, ctl>>
    BY <1>1
<1>2. ASSUME NEW p \in Posters, Post(p) PROVE UNCHANGED <<running, firstRun, worker, ctl>>
    BY <1>2 DEF Post, PostBegin, PostCheck, PostPush, PostDec, PostWake, workerVars,
        flagVars, ctlVars
<1>3. ASSUME NEW c \in Callers, CallNext(c) PROVE UNCHANGED <<running, firstRun, worker, ctl>>
    BY <1>3 DEF CallNext, ExecSync, ExecSyncReturns, ExecSyncTimeout, workerVars, flagVars,
        ctlVars
<1>4. CASE RunEnter
    BY <1>4 DEF RunEnter, ctlVars
<1>5. CASE RunStarted
    BY <1>5 DEF RunStarted, ctlVars
<1>6. CASE RunReturns
    BY <1>6 DEF RunReturns, flagVars, ctlVars
<1>7. CASE RunEnd
    BY <1>7 DEF RunEnd, ctlVars
<1>8. CASE SelectTaskLoop
    BY <1>8 DEF SelectTaskLoop, flagVars, ctlVars
<1>9. CASE SelectSync
    BY <1>9 DEF SelectSync, workerVars, flagVars
<1>10. CASE LoopPop
    BY <1>10 DEF LoopPop, flagVars, ctlVars
<1>11. CASE LoopTaskDone
    BY <1>11 DEF LoopTaskDone, flagVars, ctlVars
<1>12. CASE LoopReadCount
    BY <1>12 DEF LoopReadCount, flagVars, ctlVars
<1>13. CASE LoopReadEmpty
    BY <1>13 DEF LoopReadEmpty, flagVars, ctlVars
<1>14. CASE Start
    BY <1>14 DEF Start
<1>15. CASE StartReturns
    BY <1>15 DEF StartReturns, workerVars, flagVars
<1>16. CASE Stop
    BY <1>16 DEF Stop, workerVars
<1>17. CASE StopJoined
    BY <1>17 DEF StopJoined
<1>18. CASE StopPollOne
    BY <1>18 DEF StopPollOne, workerVars, flagVars
<1>19. CASE ClearQueue
    BY <1>19 DEF ClearQueue, workerVars, flagVars
<1>20. CASE ClearReturns
    BY <1>20 DEF ClearReturns, workerVars, flagVars
<1>21. CASE UNCHANGED vars
    BY <1>1, <1>21 DEF vars, workerVars, flagVars, ctlVars
<1> QED
    BY <1>1, <1>2, <1>3, <1>4, <1>5, <1>6, <1>7, <1>8, <1>9, <1>10, <1>11, <1>12, <1>13,
       <1>14, <1>15, <1>16, <1>17, <1>18, <1>19, <1>20, <1>21
    DEF Next, WorkerNext, CtlNext

(***************************************************************************)
(* No wake-up is lost                                                       *)
(***************************************************************************)

\* Somebody depends on a taskLoop that he will not schedule himself.
Needed ==
    /\ ~swallowed
    /\ queue # <<>> \/ \E p \in Posters : pc[p] = "push" /\ ~scheduleAsync[p]

\* NoLostWakeup is not inductive alone: the promise must already hold for a
\* silent poster between its isEmpty() and its push.
LEMMA WakeupInvariants == NoLostWakeup /\ SilentPostCovered <=> (Needed => WakeupDue)
BY DEF NoLostWakeup, SilentPostCovered, Needed

\* The inductive invariant.
WakeupInv ==
    /\ TypeOK
    /\ RefCountExact
    /\ LoopOnlyWhileRunning
    /\ Needed => WakeupDue

\* A step that leaves queue and posters alone, only adds handlers and does
\* not enter or leave the task loop keeps the promise.
LEMMA WakeupFrame ==
    ASSUME Needed => WakeupDue,
           UNCHANGED <<queue, pc, scheduleAsync, swallowed>>,
           SetOf(handlers) \subseteq SetOf(handlers'),
           worker' = worker \/ (worker \notin InLoop /\ worker' \notin InLoop)
    PROVE  Needed' => WakeupDue'
BY DEF Needed, WakeupDue, WakeupOwed, LoopScheduled, LoopWillLook, InLoop

\* doPost: a poster that saw the empty queue owes a wake-up until it has
\* scheduled it, and the others rely on one that is already due.
LEMMA PostKeepsWakeup ==
    ASSUME WakeupInv, NEW p \in Posters, Post(p)
    PROVE  Needed' => WakeupDue'
<1> USE DEF WakeupInv, WakeupDue, WakeupOwed, LoopWillLook, LoopScheduled, Needed
<1>1. CASE PostBegin(p)
    BY <1>1 DEF PostBegin, TypeOK, workerVars, ctlVars
<1>2. CASE PostCheck(p)
    BY <1>2 DEF PostCheck, TypeOK, workerVars, ctlVars
<1>3. CASE PostPush(p)
    <2>1. CASE scheduleAsync[p]
        BY <1>3, <2>1 DEF PostPush, TypeOK, workerVars, ctlVars
    <2>2. CASE ~scheduleAsync[p]
        <3>1. queue' # <<>>
            BY <1>3 DEF PostPush, TypeOK
        <3>2. ~swallowed => WakeupDue
            BY <1>3, <2>2 DEF PostPush
        <3> QED
            BY <1>3, <2>2, <3>1, <3>2 DEF PostPush, TypeOK, workerVars, ctlVars
    <2> QED
        BY <2>1, <2>2
<1>4. CASE PostDec(p)
    BY <1>4 DEF PostDec, TypeOK, workerVars, ctlVars
<1>5. CASE PostWake(p)
    <2>1. SetOf(handlers') = SetOf(handlers) \cup {TaskLoop}
        BY <1>5, SetOfAppend DEF PostWake, TypeOK, Handler
    <2> QED
        BY <2>1
<1> QED
    BY <1>1, <1>2, <1>3, <1>4, <1>5 DEF Post

\* The worker: a taskLoop taken from the io_context is entered, and it ends
\* only when nobody was posting and the queue was empty after that.
LEMMA WorkerKeepsWakeup ==
    ASSUME WakeupInv, WorkerNext
    PROVE  Needed' => WakeupDue'
<1> USE DEF WakeupInv
<1>1. CASE RunEnter \/ RunStarted \/ RunReturns \/ RunEnd
    BY <1>1, WakeupFrame DEF RunEnter, RunStarted, RunReturns, RunEnd, InLoop, queueVars,
        ctlVars
<1>2. CASE SelectTaskLoop
    <2>1. worker' = "pop"
        BY <1>2 DEF SelectTaskLoop, LoopOnlyWhileRunning, isStarted, isStopped
    <2> QED
        BY <2>1 DEF WakeupDue, LoopWillLook
<1>3. CASE SelectSync
    <2>1. /\ worker = "select" /\ worker' = worker
          /\ UNCHANGED <<pc, scheduleAsync, swallowed>>
          /\ queue' # <<>> => queue # <<>>
        BY <1>3 DEF SelectSync, RunSyncHandler, ClearQueueNow, workerVars
    <2>2. TaskLoop \in SetOf(handlers) => TaskLoop \in SetOf(handlers')
        BY <1>3, SetOfTail DEF SelectSync, TypeOK
    <2> QED
        BY <2>1, <2>2 DEF Needed, WakeupDue, WakeupOwed, LoopScheduled, LoopWillLook
<1>4. CASE LoopPop
    BY <1>4 DEF LoopPop, WakeupDue, LoopWillLook
<1>5. CASE LoopTaskDone
    <2>1. CASE worker' = "pop"
        BY <2>1 DEF WakeupDue, LoopWillLook
    <2>2. CASE worker' # "pop"
        <3>1. handlers' = Append(handlers, TaskLoop)
            BY <1>5, <2>2 DEF LoopTaskDone
        <3>2. TaskLoop \in SetOf(handlers')
            <4>1. TaskLoop \in Handler /\ handlers \in Seq(Handler)
                BY DEF Handler, TypeOK
            <4>2. SetOf(Append(handlers, TaskLoop)) = SetOf(handlers) \cup {TaskLoop}
                BY <4>1, SetOfAppend
            <4> QED
                BY <3>1, <4>2
        <3> QED
            BY <3>2 DEF WakeupDue, LoopScheduled
    <2> QED
        BY <2>1, <2>2
<1>6. CASE LoopReadCount
    <2>1. CASE postingRefCount = 0
        <3>1. \A p \in Posters : pc[p] # "push"
            BY <2>1, CountZeroMeansNobody DEF Posting
        <3>2. worker' = "empty" /\ UNCHANGED <<queue, pc>>
            BY <1>6, <2>1 DEF LoopReadCount, queueVars
        <3> QED
            BY <3>1, <3>2 DEF Needed, WakeupDue, LoopWillLook
    <2>2. CASE postingRefCount # 0
        BY <1>6, <2>2 DEF LoopReadCount, WakeupDue, LoopWillLook
    <2> QED
        BY <2>1, <2>2
<1>7. CASE LoopReadEmpty
    BY <1>7 DEF LoopReadEmpty, Needed, WakeupDue, WakeupOwed, LoopScheduled, LoopWillLook,
        queueVars, ctlVars
<1> QED
    BY <1>1, <1>2, <1>3, <1>4, <1>5, <1>6, <1>7 DEF WorkerNext

\* The controlling thread: it clears the queue itself only when the worker
\* is not in the loop, and records the wake-up that stop() consumes.
LEMMA CtlKeepsWakeup ==
    ASSUME WakeupInv, CtlNext
    PROVE  Needed' => WakeupDue'
<1> USE DEF WakeupInv
<1>1. CASE Start \/ StartReturns \/ Stop \/ StopJoined \/ ClearReturns
    BY <1>1, WakeupFrame DEF Start, StartReturns, Stop, StopJoined, ClearReturns, InLoop,
        queueVars, workerVars
<1>2. CASE StopPollOne
    <2>1. worker = "none" /\ worker' = worker /\ UNCHANGED <<pc, scheduleAsync>>
        BY <1>2 DEF StopPollOne, LoopOnlyWhileRunning, workerVars
    <2>2. CASE handlers = <<>>
        BY <1>2, <2>1, <2>2, WakeupFrame DEF StopPollOne
    <2>3. CASE handlers # <<>> /\ Head(handlers) = TaskLoop
        BY <1>2, <2>3 DEF StopPollOne, Needed
    <2>4. CASE handlers # <<>> /\ Head(handlers) # TaskLoop
        <3>1. UNCHANGED swallowed /\ (queue' # <<>> => queue # <<>>)
            BY <1>2, <2>4 DEF StopPollOne, RunSyncHandler, ClearQueueNow
        <3>2. TaskLoop \in SetOf(handlers) => TaskLoop \in SetOf(handlers')
            BY <1>2, <2>4, SetOfTail DEF StopPollOne, TypeOK
        <3> QED
            BY <2>1, <3>1, <3>2
            DEF Needed, WakeupDue, WakeupOwed, LoopScheduled, LoopWillLook
    <2> QED
        BY <2>2, <2>3, <2>4
<1>3. CASE ClearQueue
    <2>1. worker' = worker /\ UNCHANGED <<pc, scheduleAsync, swallowed>>
        BY <1>3 DEF ClearQueue, workerVars
    <2>2. CASE ~isStarted
        <3>1. worker \notin InLoop
            BY <2>2 DEF LoopOnlyWhileRunning
        <3>2. UNCHANGED handlers /\ queue' = <<>>
            BY <1>3, <2>2 DEF ClearQueue, ClearQueueNow
        <3> QED
            BY <2>1, <3>1, <3>2
            DEF Needed, WakeupDue, WakeupOwed, LoopScheduled, LoopWillLook, InLoop
    <2>3. CASE isStarted
        <3>1. handlers' = Append(handlers, ClearTask(clears')) /\ UNCHANGED queue
            BY <1>3, <2>3 DEF ClearQueue, isStarted, isStopped
        <3>2. ClearTask(clears') \in Handler
            BY <1>3 DEF ClearQueue, ClearTask, Handler, TypeOK
        <3>3. SetOf(handlers) \subseteq SetOf(handlers')
            BY <3>1, <3>2, SetOfAppend DEF TypeOK
        <3> QED
            BY <2>1, <3>1, <3>3, WakeupFrame
    <2> QED
        BY <2>2, <2>3
<1> QED
    BY <1>1, <1>2, <1>3 DEF CtlNext

\* execSync only adds handlers.
LEMMA CallKeepsWakeup ==
    ASSUME WakeupInv, NEW c \in Callers, CallNext(c)
    PROVE  Needed' => WakeupDue'
<1>1. SetOf(handlers) \subseteq SetOf(handlers')
    <2>1. SyncTask(c) \in Handler
        BY DEF SyncTask, Handler
    <2> QED
        <3>1. CASE ExecSync(c)
            BY <2>1, <3>1, SetOfAppend DEF WakeupInv, TypeOK, ExecSync
        <3>2. CASE ExecSyncReturns(c) \/ ExecSyncTimeout(c)
            BY <3>2 DEF ExecSyncReturns, ExecSyncTimeout
        <3> QED
            BY <3>1, <3>2 DEF CallNext
<1> QED
    BY <1>1, WakeupFrame DEF WakeupInv, CallNext, ExecSync, ExecSyncReturns,
        ExecSyncTimeout, queueVars, workerVars, ctlVars

\* The wake-up invariant holds throughout, for every number of producers,
\* every loop limit and every schedule of start, stop, clearQueue and post.
THEOREM WakeupInvariant == Spec => []WakeupInv
<1>1. Init => WakeupInv
    <2>1. Init => ~Needed
        BY DEF Init, Needed
    <2> QED
        BY <2>1, InitTyped, InitRefCount, InitFlags DEF WakeupInv
<1>2. WakeupInv /\ [Next]_vars => WakeupInv'
    <2> SUFFICES ASSUME WakeupInv, [Next]_vars PROVE WakeupInv'
        OBVIOUS
    <2>1. TypeOK' /\ RefCountExact' /\ LoopOnlyWhileRunning'
        BY NextTyped, NextRefCount, NextFlags DEF WakeupInv
    <2>2. Needed' => WakeupDue'
        <3>1. CASE UNCHANGED vars
            BY <3>1, WakeupFrame DEF WakeupInv, vars, queueVars, workerVars, ctlVars
        <3> QED
            BY <3>1, PostKeepsWakeup, WorkerKeepsWakeup, CtlKeepsWakeup, CallKeepsWakeup
            DEF Next
    <2> QED
        BY <2>1, <2>2 DEF WakeupInv
<1> QED
    BY <1>1, <1>2, PTL DEF Spec

\* doPost and taskLoop lose no wake-up: as long as a task is queued, and
\* stop() has not consumed a scheduled taskLoop, a taskLoop is scheduled,
\* owed by a poster or about to look at the queue again.
THEOREM NoWakeupIsLost == Spec => []NoLostWakeup
<1>1. WakeupInv => NoLostWakeup
    BY WakeupInvariants DEF WakeupInv
<1> QED
    BY <1>1, WakeupInvariant, PTL

\* The decision of doPost not to schedule a taskLoop is still right when it
\* pushes, although it read isEmpty() before.
THEOREM SilentPostIsCovered == Spec => []SilentPostCovered
<1>1. WakeupInv => SilentPostCovered
    BY WakeupInvariants DEF WakeupInv
<1> QED
    BY <1>1, WakeupInvariant, PTL

\* running, firstRun and the state of the OS thread agree, and the
\* poll_one of stop() never runs a taskLoop next to the worker.
THEOREM FlagsFollowTheThread == Spec => []LoopOnlyWhileRunning
<1>1. WakeupInv => LoopOnlyWhileRunning
    BY DEF WakeupInv
<1> QED
    BY <1>1, WakeupInvariant, PTL

\* m_postingRefCount is the number of posters between their increment and
\* their decrement.
THEOREM RefCountIsExact == Spec => []RefCountExact
<1>1. WakeupInv => RefCountExact
    BY DEF WakeupInv
<1> QED
    BY <1>1, WakeupInvariant, PTL

(***************************************************************************)
(* Every task is in one place                                               *)
(***************************************************************************)

\* The tasks that have been run, are running or queued, oldest first.
Known == executed \o currentTask \o queue

\* The tasks numbered below a poster's count, and only those, are in the
\* sequence once, or among those that are gone.
Accounts(known, gone, count) ==
    /\ \A i, j \in DOMAIN known : known[i] = known[j] => i = j
    /\ \A t \in SetOf(known) : t.n < count[t.by] /\ t \notin gone
    /\ \A t \in gone : t.n < count[t.by]
    /\ \A p \in Posters : \A k \in 0..(count[p] - 1) :
         [by |-> p, n |-> k] \in SetOf(known) \cup gone

AccountInv ==
    /\ worker # "run" => currentTask = <<>>
    /\ Accounts(Known, dropped, pushed)

\* A poster's next task is new.
LEMMA PushAccounts ==
    ASSUME NEW known \in Seq(Task), NEW gone \in SUBSET Task, NEW count \in [Posters -> Nat],
           NEW p \in Posters, Accounts(known, gone, count)
    PROVE  Accounts(Append(known, [by |-> p, n |-> count[p]]), gone, [count EXCEPT ![p] = @ + 1])
<1> DEFINE x == [by |-> p, n |-> count[p]]
           more == [count EXCEPT ![p] = @ + 1]
           longer == Append(known, x)
<1>1. x \in Task /\ x.by = p /\ x.n = count[p]
    BY DEF Task
<1>2. SetOf(longer) = SetOf(known) \cup {x} /\ SetOf(known) \subseteq Task
    BY <1>1, SetOfAppend, SetOfSubset
<1>3. x \notin SetOf(known) /\ x \notin gone
    BY <1>1 DEF Accounts
<1>4. \A t \in Task : t.n < count[t.by] => t.n < more[t.by]
    BY DEF Task
<1>5. ASSUME NEW i \in DOMAIN longer, NEW j \in DOMAIN longer, longer[i] = longer[j]
      PROVE  i = j
    <2>1. /\ DOMAIN longer = 1..(Len(known) + 1) /\ DOMAIN known = 1..Len(known)
          /\ Len(known) \in Nat /\ longer[Len(known) + 1] = x
          /\ \A k \in 1..Len(known) : longer[k] = known[k] /\ longer[k] \in SetOf(known)
        BY <1>1 DEF SetOf
    <2>2. CASE i \in 1..Len(known) /\ j \in 1..Len(known)
        BY <1>5, <2>1, <2>2 DEF Accounts
    <2>3. CASE i = Len(known) + 1 \/ j = Len(known) + 1
        BY <1>3, <1>5, <2>1, <2>3
    <2> QED
        BY <2>1, <2>2, <2>3
<1>6. \A t \in SetOf(longer) : t.n < more[t.by] /\ t \notin gone
    <2>1. x.n < more[x.by]
        BY <1>1
    <2> QED
        BY <1>2, <1>3, <1>4, <2>1 DEF Accounts
<1>7. \A t \in gone : t.n < more[t.by]
    BY <1>4 DEF Accounts
<1>8. ASSUME NEW q \in Posters, NEW k \in 0..(more[q] - 1)
      PROVE  [by |-> q, n |-> k] \in SetOf(longer) \cup gone
    <2>1. CASE q = p /\ k = count[p]
        BY <1>2, <2>1
    <2>2. CASE ~(q = p /\ k = count[p])
        <3>1. k \in 0..(count[q] - 1)
            BY <2>2
        <3> QED
            BY <1>2, <3>1 DEF Accounts
    <2> QED
        BY <2>1, <2>2
<1>9. Accounts(longer, gone, more)
    BY <1>5, <1>6, <1>7, <1>8 DEF Accounts
<1> QED
    BY <1>9

\* What clear() frees moves from the queue to those that are gone.
LEMMA ClearAccounts ==
    ASSUME NEW front \in Seq(Task), NEW back \in Seq(Task), NEW gone \in SUBSET Task,
           NEW count \in [Posters -> Nat], Accounts(front \o back, gone, count)
    PROVE  Accounts(front, gone \cup SetOf(back), count)
<1> DEFINE whole == front \o back
<1>1. /\ DOMAIN whole = 1..(Len(front) + Len(back)) /\ Len(front) \in Nat /\ Len(back) \in Nat
      /\ DOMAIN front = 1..Len(front) /\ DOMAIN back = 1..Len(back)
      /\ \A i \in 1..Len(front) : whole[i] = front[i]
      /\ \A i \in 1..Len(back) : whole[Len(front) + i] = back[i]
    OBVIOUS
<1>2. SetOf(whole) = SetOf(front) \cup SetOf(back)
    <2>1. ASSUME NEW i \in DOMAIN whole PROVE whole[i] \in SetOf(front) \cup SetOf(back)
        <3>1. CASE i \in 1..Len(front)
            BY <1>1, <3>1 DEF SetOf
        <3>2. CASE i \notin 1..Len(front)
            <4>1. i - Len(front) \in 1..Len(back) /\ whole[i] = back[i - Len(front)]
                BY <1>1, <3>2
            <4> QED
                BY <1>1, <4>1 DEF SetOf
        <3> QED
            BY <3>1, <3>2
    <2>2. SetOf(front) \subseteq SetOf(whole)
        BY <1>1 DEF SetOf
    <2>3. ASSUME NEW i \in DOMAIN back PROVE back[i] \in SetOf(whole)
        <3>1. Len(front) + i \in DOMAIN whole /\ whole[Len(front) + i] = back[i]
            BY <1>1
        <3> QED
            BY <3>1 DEF SetOf
    <2> QED
        BY <2>1, <2>2, <2>3 DEF SetOf
<1>3. \A i, j \in DOMAIN front : front[i] = front[j] => i = j
    BY <1>1 DEF Accounts
<1>4. ASSUME NEW i \in DOMAIN front, NEW j \in DOMAIN back PROVE front[i] # back[j]
    <2>1. /\ i \in DOMAIN whole /\ Len(front) + j \in DOMAIN whole /\ i # Len(front) + j
          /\ whole[i] = front[i] /\ whole[Len(front) + j] = back[j]
        BY <1>1
    <2> QED
        BY <2>1 DEF Accounts
<1>5. \A t \in SetOf(front) : t.n < count[t.by] /\ t \notin gone \cup SetOf(back)
    BY <1>2, <1>4 DEF Accounts, SetOf
<1>6. \A t \in gone \cup SetOf(back) : t.n < count[t.by]
    BY <1>2 DEF Accounts
<1>7. \A p \in Posters : \A k \in 0..(count[p] - 1) :
         [by |-> p, n |-> k] \in SetOf(front) \cup (gone \cup SetOf(back))
    BY <1>2 DEF Accounts
<1> QED
    BY <1>3, <1>5, <1>6, <1>7 DEF Accounts

\* A task that is popped and run stays where it is among the known ones.
LEMMA KnownStays ==
    ASSUME NEW e \in Seq(Task), NEW c \in Seq(Task), NEW q \in Seq(Task)
    PROVE  /\ \A x \in Task : e \o c \o Append(q, x) = Append(e \o c \o q, x)
           /\ q # <<>> => e \o <<Head(q)>> \o Tail(q) = e \o <<>> \o q
           /\ (e \o c) \o <<>> \o q = e \o c \o q
           /\ e \o c \o <<>> = e \o c
<1>1. ASSUME NEW x \in Task PROVE e \o c \o Append(q, x) = Append(e \o c \o q, x)
    <2>1. e \o c \in Seq(Task)
        OBVIOUS
    <2>2. \A f \in Seq(Task) : f \o Append(q, x) = Append(f \o q, x)
        OBVIOUS
    <2> QED
        BY <2>1, <2>2
<1>2. ASSUME q # <<>> PROVE e \o <<Head(q)>> \o Tail(q) = e \o <<>> \o q
    <2>1. /\ Len(q) \in Nat \ {0} /\ Len(e) \in Nat /\ Tail(q) \in Seq(Task)
          /\ Len(Tail(q)) = Len(q) - 1 /\ Head(q) = q[1] /\ q[1] \in Task
          /\ \A i \in 1..(Len(q) - 1) : Tail(q)[i] = q[i + 1]
        BY <1>2
    <2>2. /\ e \o <<Head(q)>> \in Seq(Task) /\ Len(e \o <<Head(q)>>) = Len(e) + 1
          /\ e \o <<>> = e
        BY <2>1
    <2> DEFINE l == (e \o <<Head(q)>>) \o Tail(q)
               r == e \o q
    <2>3. /\ l \in Seq(Task) /\ r \in Seq(Task) /\ Len(l) = Len(e) + Len(q) /\ Len(r) = Len(l)
        BY <2>1, <2>2
    <2>4. ASSUME NEW i \in 1..(Len(e) + Len(q)) PROVE l[i] = r[i]
        <3>1. CASE i <= Len(e)
            BY <2>1, <2>2, <3>1
        <3>2. CASE i = Len(e) + 1
            BY <2>1, <2>2, <3>2
        <3>3. CASE i > Len(e) + 1
            <4>1. l[i] = Tail(q)[i - (Len(e) + 1)]
                BY <2>1, <2>2, <3>3
            <4>2. r[i] = q[i - Len(e)]
                BY <2>1, <3>3
            <4>3. i - (Len(e) + 1) \in 1..(Len(q) - 1)
                BY <2>1, <3>3
            <4>4. Tail(q)[i - (Len(e) + 1)] = q[(i - (Len(e) + 1)) + 1]
                BY <2>1, <4>3
            <4>5. (i - (Len(e) + 1)) + 1 = i - Len(e)
                BY <2>1
            <4> QED
                BY <4>1, <4>2, <4>4, <4>5
        <3> QED
            BY <2>1, <3>1, <3>2, <3>3
    <2>5. l = r
        BY <2>3, <2>4
    <2> QED
        BY <2>2, <2>5
<1>3. (e \o c) \o <<>> \o q = e \o c \o q /\ e \o c \o <<>> = e \o c
    OBVIOUS
<1> QED
    BY <1>1, <1>2, <1>3

\* A step that moves no task and leaves the loop's place with the task alone.
LEMMA AccountFrame ==
    ASSUME AccountInv, UNCHANGED <<executed, currentTask, queue, dropped, pushed>>,
           worker = "run" => worker' = "run" \/ currentTask = <<>>
    PROVE  AccountInv'
BY DEF AccountInv, Known

\* A posted task is a new one, and everything else about a post moves none.
LEMMA PostKeepsAccount ==
    ASSUME TypeOK, AccountInv, NEW p \in Posters, Post(p)
    PROVE  AccountInv'
<1>1. CASE PostPush(p)
    <2> DEFINE x == [by |-> p, n |-> pushed[p]]
    <2>1. /\ queue' = Append(queue, x) /\ pushed' = [pushed EXCEPT ![p] = @ + 1]
          /\ UNCHANGED <<executed, currentTask, dropped, worker>>
        BY <1>1 DEF PostPush, workerVars, ctlVars
    <2>2. x \in Task /\ Known \in Seq(Task)
        BY DEF TypeOK, Task, Known
    <2>3. Known' = Append(Known, x)
        <3>1. /\ executed \in Seq(Task) /\ currentTask \in Seq(Task) /\ queue \in Seq(Task)
            BY DEF TypeOK
        <3>2. executed \o currentTask \o Append(queue, x)
                = Append(executed \o currentTask \o queue, x)
            BY <2>2, <3>1, KnownStays
        <3>3. Known' = executed \o currentTask \o Append(queue, x)
            BY <2>1 DEF Known
        <3> QED
            BY <3>2, <3>3 DEF Known
    <2>4. Accounts(Append(Known, x), dropped, [pushed EXCEPT ![p] = @ + 1])
        BY <2>2, PushAccounts DEF AccountInv, TypeOK
    <2>5. Accounts(Known', dropped', pushed')
        BY <2>1, <2>3, <2>4
    <2> QED
        BY <2>1, <2>5 DEF AccountInv
<1>2. CASE PostBegin(p) \/ PostCheck(p) \/ PostDec(p) \/ PostWake(p)
    BY <1>2, AccountFrame DEF PostBegin, PostCheck, PostDec, PostWake, workerVars, ctlVars
<1> QED
    BY <1>1, <1>2 DEF Post

\* Queue::clear, in the worker or in the controlling thread, moves the queued
\* tasks to the freed ones.
LEMMA ClearKeepsAccount ==
    ASSUME TypeOK, AccountInv, ClearQueueNow, UNCHANGED <<executed, currentTask, pushed, worker>>
    PROVE  AccountInv'
<1>1. queue' = <<>> /\ dropped' = dropped \cup SetOf(queue)
    BY DEF ClearQueueNow
<1>2. executed \o currentTask \in Seq(Task)
    BY DEF TypeOK
<1>3. Known' = executed \o currentTask
    BY <1>1, KnownStays DEF Known, TypeOK
<1>4. Accounts(executed \o currentTask, dropped \cup SetOf(queue), pushed)
    BY <1>2, ClearAccounts DEF AccountInv, Known, TypeOK
<1>5. Accounts(Known', dropped', pushed')
    BY <1>1, <1>3, <1>4
<1> QED
    BY <1>5 DEF AccountInv

\* The synchronous handlers: the packaged task of a caller, or a clear().
LEMMA SyncKeepsAccount ==
    ASSUME TypeOK, AccountInv, NEW h, RunSyncHandler(h),
           UNCHANGED <<executed, currentTask, pushed, worker>>
    PROVE  AccountInv'
BY ClearKeepsAccount, AccountFrame DEF RunSyncHandler

\* taskLoop takes a task from the queue, runs it, and frees it once it ran.
LEMMA WorkerKeepsAccount ==
    ASSUME TypeOK, AccountInv, WorkerNext
    PROVE  AccountInv'
<1>1. CASE LoopPop /\ queue # <<>>
    <2>1. /\ currentTask' = <<Head(queue)>> /\ queue' = Tail(queue) /\ worker' = "run"
          /\ currentTask = <<>> /\ UNCHANGED <<executed, dropped, pushed>>
        BY <1>1 DEF LoopPop, AccountInv, ctlVars
    <2>2. Known' = Known
        BY <1>1, <2>1, KnownStays DEF Known, TypeOK
    <2> QED
        BY <2>1, <2>2 DEF AccountInv
<1>2. CASE LoopTaskDone
    <2>1. /\ executed' = executed \o currentTask /\ currentTask' = <<>>
          /\ UNCHANGED <<queue, dropped, pushed>>
        BY <1>2 DEF LoopTaskDone, queueVars, ctlVars
    <2>2. Known' = Known
        BY <2>1, KnownStays DEF Known, TypeOK
    <2> QED
        BY <2>1, <2>2 DEF AccountInv
<1>3. CASE SelectSync
    BY <1>3, SyncKeepsAccount DEF SelectSync, workerVars
<1>4. CASE LoopPop /\ queue = <<>>
    BY <1>4, AccountFrame DEF LoopPop, ctlVars
<1>5. CASE RunEnter \/ RunStarted \/ RunReturns \/ RunEnd
    BY <1>5, AccountFrame DEF RunEnter, RunStarted, RunReturns, RunEnd, queueVars, ctlVars
<1>6. CASE SelectTaskLoop \/ LoopReadCount \/ LoopReadEmpty
    BY <1>6, AccountFrame DEF SelectTaskLoop, LoopReadCount, LoopReadEmpty, queueVars, ctlVars
<1> QED
    BY <1>1, <1>2, <1>3, <1>4, <1>5, <1>6 DEF WorkerNext

\* The controlling thread moves tasks by clear() only, its own or one that
\* its poll_one runs.
LEMMA CtlKeepsAccount ==
    ASSUME TypeOK, AccountInv, CtlNext
    PROVE  AccountInv'
<1>1. CASE StopPollOne
    <2>1. UNCHANGED <<executed, currentTask, pushed, worker>>
        BY <1>1 DEF StopPollOne, workerVars
    <2>2. CASE UNCHANGED <<queue, dropped>>
        BY <2>1, <2>2, AccountFrame
    <2>3. CASE RunSyncHandler(Head(handlers))
        BY <2>1, <2>3, SyncKeepsAccount
    <2> QED
        BY <1>1, <2>2, <2>3 DEF StopPollOne
<1>2. CASE ClearQueue
    <2>1. UNCHANGED <<executed, currentTask, pushed, worker>>
        BY <1>2 DEF ClearQueue, workerVars
    <2>2. CASE UNCHANGED <<queue, dropped>>
        BY <2>1, <2>2, AccountFrame
    <2>3. CASE ClearQueueNow
        BY <2>1, <2>3, ClearKeepsAccount
    <2> QED
        BY <1>2, <2>2, <2>3 DEF ClearQueue
<1>3. CASE Start \/ StopJoined
    <2>1. worker # "run"
        BY <1>3 DEF Start, StopJoined
    <2> QED
        BY <1>3, <2>1, AccountFrame DEF Start, StopJoined, queueVars
<1>4. CASE StartReturns \/ Stop \/ ClearReturns
    BY <1>4, AccountFrame DEF StartReturns, Stop, ClearReturns, queueVars, workerVars
<1> QED
    BY <1>1, <1>2, <1>3, <1>4 DEF CtlNext

\* The accounts are right at the start, and every step keeps them.
LEMMA AccountInvariant == Spec => [](TypeOK /\ AccountInv)
<1>1. Init => TypeOK /\ AccountInv
    <2> SUFFICES ASSUME Init PROVE AccountInv
        BY InitTyped
    <2>1. Known = <<>> /\ dropped = {} /\ pushed = [p \in Posters |-> 0] /\ currentTask = <<>>
        BY DEF Init, Known
    <2>2. Accounts(<<>>, {}, [p \in Posters |-> 0])
        BY DEF Accounts, SetOf
    <2> QED
        BY <2>1, <2>2 DEF AccountInv
<1>2. TypeOK /\ AccountInv /\ [Next]_vars => (TypeOK /\ AccountInv)'
    <2> SUFFICES ASSUME TypeOK, AccountInv, [Next]_vars PROVE AccountInv'
        BY NextTyped
    <2>1. ASSUME NEW c \in Callers, CallNext(c) PROVE AccountInv'
        BY <2>1, AccountFrame DEF CallNext, ExecSync, ExecSyncReturns, ExecSyncTimeout,
           queueVars, workerVars, ctlVars
    <2>2. CASE UNCHANGED vars
        BY <2>2, AccountFrame DEF vars, queueVars, workerVars, ctlVars
    <2> QED
        BY <2>1, <2>2, PostKeepsAccount, WorkerKeepsAccount, CtlKeepsAccount DEF Next
<1> QED
    BY <1>1, <1>2, PTL DEF Spec

\* A task that has been pushed is queued, running, run once or freed by
\* clear(), and in one of these places only: post, taskLoop, clearQueue and
\* stop neither lose nor repeat one, however they interleave.
THEOREM EveryTaskIsAccounted == Spec => []EveryTaskAccounted
<1>1. TypeOK /\ AccountInv => EveryTaskAccounted
    <2> SUFFICES ASSUME TypeOK, AccountInv PROVE EveryTaskAccounted
        OBVIOUS
    <2>1. Known \in Seq(Task) /\ Accounts(Known, dropped, pushed)
        BY DEF TypeOK, AccountInv, Known
    <2>2. Len(Known) = Cardinality(SetOf(Known))
        <3>1. Known \in Bijection(1..Len(Known), SetOf(Known))
            <4>1. Known \in [1..Len(Known) -> SetOf(Known)]
                BY <2>1 DEF SetOf
            <4>2. \A i, j \in 1..Len(Known) : Known[i] = Known[j] => i = j
                BY <2>1 DEF Accounts
            <4>3. \A t \in SetOf(Known) : \E i \in 1..Len(Known) : Known[i] = t
                BY <2>1 DEF SetOf
            <4> QED
                BY <4>1, <4>2, <4>3 DEF Bijection, Injection, Surjection, IsInjective
        <3>2. ExistsBijection(1..Len(Known), SetOf(Known)) /\ Len(Known) \in Nat
            BY <2>1, <3>1 DEF ExistsBijection
        <3> QED
            BY <3>2, FS_CountingElements
    <2>3. \A p \in Posters : \A k \in 0..(pushed[p] - 1) :
            ([by |-> p, n |-> k] \in SetOf(Known)) # ([by |-> p, n |-> k] \in dropped)
        BY <2>1 DEF Accounts
    <2> QED
        BY <2>2, <2>3 DEF EveryTaskAccounted, Known
<1> QED
    BY <1>1, AccountInvariant, PTL
=============================================================================
