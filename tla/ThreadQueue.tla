---------------------------- MODULE ThreadQueue ----------------------------
(***************************************************************************)
(* hatn::common::Thread and ThreadWithQueue: an OS thread that runs a       *)
(* boost::asio io_context, and a task queue drained by a handler            *)
(* (taskLoop) which posters schedule on that io_context only when they      *)
(* find the queue empty.                                                    *)
(*                                                                          *)
(* Every step below is one access to state that two threads share: an       *)
(* atomic, a critical section of the queue's mutex, or an io_context call.  *)
(* Posters are the other threads and the worker itself, whose tasks may     *)
(* post.  One controlling thread owns the object and calls start, stop      *)
(* and clearQueue.  The queue is the default MutexQueue, whose push, pop    *)
(* and isEmpty are atomic; MPSCQueue has a module of its own.               *)
(***************************************************************************)
EXTENDS Integers, Sequences, FiniteSets

CONSTANTS
    Producers,          \* threads that post tasks
    Worker,             \* the thread itself, posting from a task it runs
    Callers,            \* threads that call execSync
    MaxHandlersPerLoop, \* setMaxTasksPerLoop; 0 is "no limit"
    WaitForStarted,     \* the argument of Thread::start
    SpuriousWakeups,    \* condition variables may wake up unnotified
    MaxPosts,           \* bound: tasks each poster posts, [Posters -> Nat]
    MaxStarts,          \* bound: calls of start
    MaxClears           \* bound: calls of clearQueue

Posters == Producers \cup {Worker}

ASSUME ThreadQueueAssumption ==
    /\ IsFiniteSet(Producers)
    /\ Worker \notin Producers
    /\ MaxHandlersPerLoop \in Nat
    /\ WaitForStarted \in BOOLEAN /\ SpuriousWakeups \in BOOLEAN
    /\ MaxPosts \in [Posters -> Nat]
    /\ MaxStarts \in Nat
    /\ MaxClears \in Nat

VARIABLES
    queue,           \* the tasks in the MutexQueue, oldest first
    postingRefCount, \* Queue::m_postingRefCount
    pc,              \* where each poster is in doPost
    scheduleAsync,   \* doPost's local: the queue was empty
    pushed,          \* how many tasks each poster has pushed
    handlers,        \* the io_context's ready handlers, oldest first
    worker,          \* where the OS thread is in run and taskLoop
    currentTask,     \* the task taskLoop is running, as a sequence of 0 or 1
    processedCount,  \* tasks run by the current call of taskLoop
    running, stopped, firstRun, \* the atomics of Thread_p
    ioStopped,       \* the io_context's own stopped flag
    ctl,             \* where the controlling thread is
    starts, clears,  \* calls made so far
    call,            \* what each execSync caller has seen
    ran,             \* the execSync handlers that have run
    executed,        \* history: tasks run, in order
    dropped,         \* history: tasks freed by clear()
    swallowed        \* history: stop() consumed a scheduled taskLoop

queueVars  == <<queue, postingRefCount, pc, scheduleAsync, pushed>>
workerVars == <<worker, currentTask, processedCount, executed>>
flagVars   == <<running, stopped, firstRun, ioStopped>>
ctlVars    == <<ctl, starts, clears, dropped, swallowed>>
callVars   == <<call, ran>>
vars == <<queueVars, handlers, workerVars, flagVars, ctlVars, callVars>>

Task == [by : Posters, n : Nat]

TaskLoop == [kind |-> "taskLoop"]
ClearTask(k) == [kind |-> "clear", n |-> k]
SyncTask(c) == [kind |-> "sync", caller |-> c]
Handler == {TaskLoop} \cup [kind : {"clear"}, n : Nat] \cup [kind : {"sync"}, caller : Callers]

SetOf(s) == {s[i] : i \in DOMAIN s}

InLoop == {"pop", "run", "count", "empty"}
WorkerPC == {"none", "entry", "restarted", "select", "exit", "exited"} \cup InLoop
CtlPC == {"idle", "waitStarted", "join", "poll", "clearWait", "cleared"}

\* Thread::isStopped and Thread::isStarted
isStopped == ~running /\ ~firstRun
isStarted == running

Init ==
    /\ queue = <<>>
    /\ postingRefCount = 0
    /\ pc = [p \in Posters |-> "idle"]
    /\ scheduleAsync = [p \in Posters |-> FALSE]
    /\ pushed = [p \in Posters |-> 0]
    /\ handlers = <<>>
    /\ worker = "none"
    /\ currentTask = <<>>
    /\ processedCount = 0
    /\ running = FALSE /\ stopped = FALSE /\ firstRun = TRUE
    /\ ioStopped = FALSE
    /\ ctl = "idle"
    /\ starts = 0 /\ clears = 0
    /\ call = [c \in Callers |-> "idle"]
    /\ ran = {}
    /\ executed = <<>>
    /\ dropped = {}
    /\ swallowed = FALSE

-----------------------------------------------------------------------------
(* ThreadWithQueueTraits::doPost                                            *)

\* incPostingRefCount.  The worker posts from inside a task.
PostBegin(p) ==
    /\ pc[p] = "idle"
    /\ pushed[p] < MaxPosts[p]
    /\ p = Worker => worker = "run"
    /\ postingRefCount' = postingRefCount + 1
    /\ pc' = [pc EXCEPT ![p] = "check"]
    /\ UNCHANGED <<queue, scheduleAsync, pushed, handlers, workerVars, flagVars, ctlVars, callVars>>

\* scheduleAsync=isEmpty()
PostCheck(p) ==
    /\ pc[p] = "check"
    /\ scheduleAsync' = [scheduleAsync EXCEPT ![p] = queue = <<>>]
    /\ pc' = [pc EXCEPT ![p] = "push"]
    /\ UNCHANGED <<queue, postingRefCount, pushed, handlers, workerVars, flagVars, ctlVars, callVars>>

PostPush(p) ==
    /\ pc[p] = "push"
    /\ queue' = Append(queue, [by |-> p, n |-> pushed[p]])
    /\ pushed' = [pushed EXCEPT ![p] = @ + 1]
    /\ pc' = [pc EXCEPT ![p] = "dec"]
    /\ UNCHANGED <<postingRefCount, scheduleAsync, handlers, workerVars, flagVars, ctlVars, callVars>>

\* decPostingRefCount
PostDec(p) ==
    /\ pc[p] = "dec"
    /\ postingRefCount' = postingRefCount - 1
    /\ pc' = [pc EXCEPT ![p] = IF scheduleAsync[p] THEN "wake" ELSE "idle"]
    /\ UNCHANGED <<queue, scheduleAsync, pushed, handlers, workerVars, flagVars, ctlVars, callVars>>

\* Variant with a bug: a taskLoop is scheduled only if nothing else is.
PostWakeIfIdle(p) ==
    /\ pc[p] = "wake"
    /\ handlers' = IF handlers = <<>> THEN Append(handlers, TaskLoop) ELSE handlers
    /\ pc' = [pc EXCEPT ![p] = "idle"]
    /\ UNCHANGED <<queue, postingRefCount, scheduleAsync, pushed, workerVars, flagVars, ctlVars, callVars>>

\* execAsync(taskLoop)
PostWake(p) ==
    /\ pc[p] = "wake"
    /\ handlers' = Append(handlers, TaskLoop)
    /\ pc' = [pc EXCEPT ![p] = "idle"]
    /\ UNCHANGED <<queue, postingRefCount, scheduleAsync, pushed, workerVars, flagVars, ctlVars, callVars>>

Post(p) == PostBegin(p) \/ PostCheck(p) \/ PostPush(p) \/ PostDec(p) \/ PostWake(p)

-----------------------------------------------------------------------------
(* Thread::run                                                              *)

\* A second run() restarts the io_context.
RunEnter ==
    /\ worker = "entry"
    /\ ioStopped' = IF firstRun THEN ioStopped ELSE FALSE
    /\ worker' = "restarted"
    /\ UNCHANGED <<queueVars, handlers, currentTask, processedCount, executed,
                   running, stopped, firstRun, ctlVars, callVars>>

RunStarted ==
    /\ worker = "restarted"
    /\ firstRun' = FALSE
    /\ running' = TRUE
    /\ worker' = "select"
    /\ UNCHANGED <<queueVars, handlers, currentTask, processedCount, executed,
                   stopped, ioStopped, ctlVars, callVars>>

\* io_context::run returns once the context is stopped.
RunReturns ==
    /\ worker = "select"
    /\ ioStopped
    /\ worker' = "exit"
    /\ UNCHANGED <<queueVars, handlers, currentTask, processedCount, executed,
                   flagVars, ctlVars, callVars>>

RunEnd ==
    /\ worker = "exit"
    /\ running' = FALSE
    /\ worker' = "exited"
    /\ UNCHANGED <<queueVars, handlers, currentTask, processedCount, executed,
                   stopped, firstRun, ioStopped, ctlVars, callVars>>

-----------------------------------------------------------------------------
(* The handlers of the io_context                                           *)

\* Queue::clear
ClearQueueNow ==
    /\ queue' = <<>>
    /\ dropped' = dropped \cup SetOf(queue)

\* What an execSync handler does: run the packaged task of caller c, or the
\* clear() that the controlling thread may still be waiting for.
RunSyncHandler(h) ==
    \/ /\ h.kind = "sync"
       /\ ran' = ran \cup {h.caller}
       /\ UNCHANGED <<queue, dropped>>
    \/ /\ h.kind = "clear"
       /\ ClearQueueNow
       /\ UNCHANGED ran

SelectTaskLoop ==
    /\ worker = "select" /\ ~ioStopped
    /\ handlers # <<>> /\ Head(handlers) = TaskLoop
    /\ handlers' = Tail(handlers)
    /\ processedCount' = 0
    /\ worker' = IF isStopped THEN "select" ELSE "pop"
    /\ UNCHANGED <<queueVars, currentTask, executed, flagVars, ctlVars, callVars>>

SelectSync ==
    /\ worker = "select" /\ ~ioStopped
    /\ handlers # <<>> /\ Head(handlers) # TaskLoop
    /\ handlers' = Tail(handlers)
    /\ RunSyncHandler(Head(handlers))
    /\ ctl' = IF ctl = "clearWait" /\ Head(handlers) = ClearTask(clears) THEN "cleared" ELSE ctl
    /\ UNCHANGED <<postingRefCount, pc, scheduleAsync, pushed, workerVars, flagVars,
                   starts, clears, swallowed, call>>

-----------------------------------------------------------------------------
(* ThreadWithQueueTraits_p::taskLoop, run by the worker                     *)

LoopPop ==
    /\ worker = "pop"
    /\ \/ /\ queue # <<>>
          /\ currentTask' = <<Head(queue)>>
          /\ queue' = Tail(queue)
          /\ worker' = "run"
       \/ /\ queue = <<>>
          /\ worker' = "count"
          /\ UNCHANGED <<queue, currentTask>>
    /\ UNCHANGED <<postingRefCount, pc, scheduleAsync, pushed, handlers, processedCount,
                   executed, flagVars, ctlVars, callVars>>

\* Variant with a bug: a loop that has reached its limit frees the next
\* item as well.
LoopTaskDoneFreesNext ==
    LET yield == MaxHandlersPerLoop # 0 /\ processedCount + 1 >= MaxHandlersPerLoop
    IN  /\ worker = "run"
        /\ pc[Worker] = "idle"
        /\ executed' = executed \o currentTask
        /\ currentTask' = <<>>
        /\ queue' = IF yield /\ queue # <<>> THEN Tail(queue) ELSE queue
        /\ processedCount' = processedCount + 1
        /\ handlers' = IF yield THEN Append(handlers, TaskLoop) ELSE handlers
        /\ worker' = IF yield THEN "select" ELSE "pop"
        /\ UNCHANGED <<postingRefCount, pc, scheduleAsync, pushed, flagVars, ctlVars, callVars>>

\* The task returns and its item is freed.  processedCount is counted also
\* when there is no limit, where the code leaves its counter alone and unread.
LoopTaskDone ==
    LET yield == MaxHandlersPerLoop # 0 /\ processedCount + 1 >= MaxHandlersPerLoop
    IN  /\ worker = "run"
        /\ pc[Worker] = "idle"
        /\ executed' = executed \o currentTask
        /\ currentTask' = <<>>
        /\ processedCount' = processedCount + 1
        /\ handlers' = IF yield THEN Append(handlers, TaskLoop) ELSE handlers
        /\ worker' = IF yield THEN "select" ELSE "pop"
        /\ UNCHANGED <<queueVars, flagVars, ctlVars, callVars>>

\* Variant with a bug: posters in progress are not waited for.
LoopReadCountIgnored ==
    /\ worker = "count"
    /\ worker' = "empty"
    /\ UNCHANGED <<queueVars, handlers, currentTask, processedCount, executed, flagVars,
                   ctlVars, callVars>>

\* breakLoop=!dequeued && postingRefCount()==0
LoopReadCount ==
    /\ worker = "count"
    /\ worker' = IF postingRefCount = 0 THEN "empty" ELSE "pop"
    /\ UNCHANGED <<queueVars, handlers, currentTask, processedCount, executed, flagVars,
                   ctlVars, callVars>>

\* Variant with a bug: the queue is not looked at again.
LoopReadEmptySkipped ==
    /\ worker = "empty"
    /\ worker' = "select"
    /\ UNCHANGED <<queueVars, handlers, currentTask, processedCount, executed, flagVars,
                   ctlVars, callVars>>

\* if (breakLoop && isEmpty()) break
LoopReadEmpty ==
    /\ worker = "empty"
    /\ worker' = IF queue = <<>> THEN "select" ELSE "pop"
    /\ UNCHANGED <<queueVars, handlers, currentTask, processedCount, executed, flagVars,
                   ctlVars, callVars>>

WorkerNext ==
    \/ RunEnter \/ RunStarted \/ RunReturns \/ RunEnd
    \/ SelectTaskLoop \/ SelectSync
    \/ LoopPop \/ LoopTaskDone \/ LoopReadCount \/ LoopReadEmpty

-----------------------------------------------------------------------------
(* The controlling thread: Thread::start, Thread::stop, clearQueue          *)

\* start() is not called while a thread that was started has not been joined.
Start ==
    /\ ctl = "idle" /\ worker = "none" /\ starts < MaxStarts
    /\ ~running
    /\ ioStopped' = IF stopped THEN FALSE ELSE ioStopped
    /\ stopped' = FALSE
    /\ starts' = starts + 1
    /\ worker' = "entry"
    /\ ctl' = IF WaitForStarted THEN "waitStarted" ELSE "idle"
    /\ UNCHANGED <<queueVars, handlers, currentTask, processedCount, executed, running,
                   firstRun, clears, dropped, swallowed, callVars>>

\* startedCondition.wait, which has no predicate: it also returns on a
\* spurious wake-up.
StartReturns ==
    /\ ctl = "waitStarted"
    /\ running \/ stopped \/ SpuriousWakeups
    /\ ctl' = "idle"
    /\ UNCHANGED <<queueVars, handlers, workerVars, flagVars, starts, clears, dropped,
                   swallowed, callVars>>

\* Variant with a bug: the thread is joined before its io_context is stopped.
StopJoinsFirst ==
    /\ ctl = "idle" /\ ~stopped
    /\ stopped' = TRUE
    /\ ioStopped' = IF worker = "none" THEN TRUE ELSE ioStopped
    /\ ctl' = IF worker = "none" THEN "idle" ELSE "join"
    /\ UNCHANGED <<queueVars, handlers, workerVars, running, firstRun, starts, clears,
                   dropped, swallowed, callVars>>

\* Only the call that sets stopped does anything; it joins a joinable thread.
Stop ==
    /\ ctl = "idle" /\ ~stopped
    /\ stopped' = TRUE
    /\ ioStopped' = TRUE
    /\ ctl' = IF worker = "none" THEN "idle" ELSE "join"
    /\ UNCHANGED <<queueVars, handlers, workerVars, running, firstRun, starts, clears,
                   dropped, swallowed, callVars>>

StopJoined ==
    /\ ctl = "join" /\ worker = "exited"
    /\ worker' = "none"
    /\ ioStopped' = FALSE
    /\ ctl' = "poll"
    /\ UNCHANGED <<queueVars, handlers, currentTask, processedCount, executed, running,
                   stopped, firstRun, starts, clears, dropped, swallowed, callVars>>

\* poll_one runs the oldest handler in the controlling thread.  A taskLoop
\* finds isStopped() true and returns at once: the wake-up is gone.
StopPollOne ==
    /\ ctl = "poll"
    /\ ctl' = "idle"
    /\ \/ handlers = <<>> /\ UNCHANGED <<handlers, queue, dropped, ran, swallowed>>
       \/ /\ handlers # <<>>
          /\ handlers' = Tail(handlers)
          /\ IF Head(handlers) = TaskLoop
             THEN /\ isStopped
                  /\ swallowed' = TRUE
                  /\ UNCHANGED <<queue, dropped, ran>>
             ELSE RunSyncHandler(Head(handlers)) /\ UNCHANGED swallowed
    /\ UNCHANGED <<postingRefCount, pc, scheduleAsync, pushed, workerVars, flagVars,
                   starts, clears, call>>

ClearQueue ==
    /\ ctl = "idle" /\ clears < MaxClears
    /\ clears' = clears + 1
    /\ \/ /\ isStopped \/ ~isStarted
          /\ ClearQueueNow
          /\ UNCHANGED <<handlers, ctl>>
       \/ /\ ~(isStopped \/ ~isStarted)
          /\ handlers' = Append(handlers, ClearTask(clears'))
          /\ ctl' = "clearWait"
          /\ UNCHANGED <<queue, dropped>>
    /\ UNCHANGED <<postingRefCount, pc, scheduleAsync, pushed, workerVars, flagVars,
                   starts, swallowed, callVars>>

\* execSync of the clear() returns: it ran, or the wait timed out and the
\* handler stays queued.
ClearReturns ==
    /\ ctl \in {"clearWait", "cleared"}
    /\ ctl' = "idle"
    /\ UNCHANGED <<queueVars, handlers, workerVars, flagVars, starts, clears, dropped,
                   swallowed, callVars>>

CtlNext ==
    \/ Start \/ StartReturns \/ Stop \/ StopJoined \/ StopPollOne
    \/ ClearQueue \/ ClearReturns

-----------------------------------------------------------------------------
(* Thread::execSync called from another thread                              *)

ExecSync(c) ==
    /\ call[c] = "idle"
    /\ call' = [call EXCEPT ![c] = "waiting"]
    /\ handlers' = Append(handlers, SyncTask(c))
    /\ UNCHANGED <<queueVars, workerVars, flagVars, ctlVars, ran>>

ExecSyncReturns(c) ==
    /\ call[c] = "waiting" /\ c \in ran
    /\ call' = [call EXCEPT ![c] = "ok"]
    /\ UNCHANGED <<queueVars, handlers, workerVars, flagVars, ctlVars, ran>>

ExecSyncTimeout(c) ==
    /\ call[c] = "waiting" /\ c \notin ran
    /\ call' = [call EXCEPT ![c] = "timeout"]
    /\ UNCHANGED <<queueVars, handlers, workerVars, flagVars, ctlVars, ran>>

CallNext(c) == ExecSync(c) \/ ExecSyncReturns(c) \/ ExecSyncTimeout(c)

Next ==
    \/ \E p \in Posters : Post(p)
    \/ WorkerNext
    \/ CtlNext
    \/ \E c \in Callers : CallNext(c)

Spec == Init /\ [][Next]_vars

\* Every thread runs on; nobody is obliged to call start, stop, clearQueue,
\* post or execSync.
Fairness ==
    /\ \A p \in Posters : WF_vars(PostCheck(p) \/ PostPush(p) \/ PostDec(p) \/ PostWake(p))
    /\ WF_vars(WorkerNext)
    /\ WF_vars(StartReturns \/ StopJoined \/ StopPollOne \/ ClearReturns)
    /\ \A c \in Callers : WF_vars(ExecSyncReturns(c) \/ ExecSyncTimeout(c))

FairSpec == Spec /\ Fairness

-----------------------------------------------------------------------------
(* Properties                                                               *)

\* Every variable keeps its type.
TypeOK ==
    /\ queue \in Seq(Task) /\ currentTask \in Seq(Task) /\ executed \in Seq(Task)
    /\ postingRefCount \in Int
    /\ pc \in [Posters -> {"idle", "check", "push", "dec", "wake"}]
    /\ scheduleAsync \in [Posters -> BOOLEAN]
    /\ pushed \in [Posters -> Nat]
    /\ handlers \in Seq(Handler)
    /\ worker \in WorkerPC
    /\ processedCount \in Nat
    /\ running \in BOOLEAN /\ stopped \in BOOLEAN /\ firstRun \in BOOLEAN
    /\ ioStopped \in BOOLEAN /\ swallowed \in BOOLEAN
    /\ ctl \in CtlPC
    /\ starts \in Nat /\ clears \in Nat
    /\ call \in [Callers -> {"idle", "waiting", "ok", "timeout"}]
    /\ ran \subseteq Callers
    /\ dropped \subseteq Task

LoopScheduled == TaskLoop \in SetOf(handlers)

\* Somebody has seen the empty queue and not yet scheduled the loop for it.
WakeupOwed == \E p \in Posters : pc[p] \in {"push", "dec", "wake"} /\ scheduleAsync[p]

\* The loop is running and will look at the queue again before it ends.
LoopWillLook == worker \in {"pop", "run", "count"} \/ (worker = "empty" /\ queue # <<>>)

WakeupDue == LoopScheduled \/ WakeupOwed \/ LoopWillLook

\* Tasks are never left in the queue with nobody to run them: as long as
\* they are there, a taskLoop is scheduled, owed by a poster, or running
\* and about to look again.  The only thing that breaks this is a stop()
\* whose poll_one has consumed a scheduled taskLoop.
NoLostWakeup == queue # <<>> /\ ~swallowed => WakeupDue

\* A poster that found the queue non-empty, and will therefore schedule
\* nothing, is covered by a wake-up already when it pushes.
SilentPostCovered ==
    \A p \in Posters :
        pc[p] = "push" /\ ~scheduleAsync[p] /\ ~swallowed => WakeupDue

\* A pushed task is in exactly one place: queued, running, run once, or
\* freed by clear().
EveryTaskAccounted ==
    LET all == executed \o currentTask \o queue
    IN  /\ \A p \in Posters : \A k \in 0..(pushed[p] - 1) :
              LET t == [by |-> p, n |-> k] IN (t \in SetOf(all)) # (t \in dropped)
        /\ Len(all) = Cardinality(SetOf(all))

\* isStarted() and isStopped(), which taskLoop, clearQueue and execSync
\* decide by, tell where the OS thread is: running holds exactly between its
\* announcement in run() and its end, and poll_one is called by stop() when
\* the thread is gone, so a taskLoop it runs there always returns at once.
LoopOnlyWhileRunning ==
    /\ isStarted <=> worker \in InLoop \cup {"select", "exit"}
    /\ worker \in InLoop \cup {"select", "exit", "exited"} => ~firstRun
    /\ ctl = "poll" => worker = "none" /\ isStopped

Posting == {p \in Posters : pc[p] \in {"check", "push", "dec"}}

\* m_postingRefCount counts the posters that may have read isEmpty() and
\* not yet finished their push, so a taskLoop that reads 0 has seen the
\* result of every one of them.
RefCountExact == postingRefCount = Cardinality(Posting)

\* A task that is being posted while the thread stays up is run or cleared.
TasksComplete ==
    \A p \in Posters :
        <>[](running /\ ~swallowed)
            => (pc[p] = "push" ~> (pc[p] = "idle" /\ queue = <<>> /\ currentTask = <<>>))

\* stop() returns: the thread it stops always leaves its event loop.  That
\* takes a start() that waited until the thread had announced itself.
StopReturns == ctl = "join" ~> ctl # "join"

=============================================================================
