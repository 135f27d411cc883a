----------------------------- MODULE ApiClient -----------------------------
(***************************************************************************)
(* hatn::api::client::Client and Session: requests go from caller threads   *)
(* into priority queues, the client's thread sends them through the         *)
(* transport, and a request that meets an invalid session waits until the   *)
(* session has been refreshed and is then executed again.                   *)
(*                                                                          *)
(* Each request is executed by a thread of its own, in the steps of doExec  *)
(* that read shared state.  The client's thread takes posted tasks          *)
(* (postAsync: the thread's task queue) and handlers (execAsync: its        *)
(* io_context); each channel is FIFO, and between the two there is no       *)
(* order.  Where the client's thread re-reads an atomic that callers        *)
(* change, its task is split at that read (busy).  The transport is         *)
(* abstract: it accepts a bounded number of requests and ends each of them  *)
(* with one call of the callback, on the client's thread.                   *)
(***************************************************************************)
EXTENDS Integers, Sequences, FiniteSets

CONSTANTS
    Requests,
    Sessions,
    NoSession,        \* a request without session
    Priority,         \* [Requests -> 1..Priorities], 1 is Priority::Highest
    SessionOf,        \* [Requests -> Sessions \cup {NoSession}]
    Priorities,       \* number of priorities
    MaxQueueDepth,    \* config max_queue_depth
    MaxInFlight,      \* what the transport's canSend admits
    CallbackRequests, \* the argument of close()
    MaxAuthErrors,    \* bound: AuthError answers of the server
    MaxOutsideEvents  \* bound: calls of updateNetworkState, refreshes by other clients

Prios == 1..Priorities

ASSUME ApiClientAssumption ==
    /\ IsFiniteSet(Requests)
    /\ Priorities \in Nat \ {0}
    /\ Priority \in [Requests -> Prios]
    /\ NoSession \notin Sessions
    /\ SessionOf \in [Requests -> Sessions \cup {NoSession}]
    /\ MaxQueueDepth \in Nat
    /\ MaxInFlight \in Nat \ {0}
    /\ CallbackRequests \in BOOLEAN
    /\ MaxAuthErrors \in Nat /\ MaxOutsideEvents \in Nat

VARIABLES
    exec,         \* where each caller is in doExec
    full,         \* doExec's locals: the queue was found filled
    queues,       \* m_queues: per priority, requests to send
    waiting,      \* m_sessionWaitingQueues: the requests of each queue ...
    waitingKeys,  \* ... and the sessions that have one
    waitCount,    \* m_sessionWaitingReqCount
    tasks,        \* tasks posted to the client's thread
    handlers,     \* handlers of its io_context
    busy,         \* the task the client's thread is in the middle of
    closed,       \* m_closed
    disconnected, \* m_networkDisconnected
    valid, refreshing, \* Session::m_valid, m_refreshing
    refreshCb,    \* sessions in whose m_callbacks the client's callback is
    inflight,     \* requests the transport holds
    cancelled,    \* Request::m_cancelled
    answers,      \* results passed to the callback of each request
    dropped,      \* requests the client let go without calling them back
    gen,          \* request id: how often regenId was called
    lastSent,     \* the id with which the request was last sent, or -1
    racing,       \* history: callers between check and push when close() came
    otherRefreshed, \* history: sessions that another client has refreshed
    authErrors, outsideEvents \* counters of the bounds

callerVars  == <<exec, full>>
waitVars    == <<waiting, waitingKeys, waitCount>>
threadVars  == <<tasks, handlers, busy>>
flagVars    == <<closed, disconnected, racing>>
sessionVars == <<valid, refreshing, refreshCb>>
resultVars  == <<answers, dropped>>
idVars      == <<gen, lastSent>>
boundVars   == <<authErrors, outsideEvents, otherRefreshed>>
vars == <<callerVars, queues, waitVars, threadVars, flagVars, sessionVars, inflight,
          cancelled, resultVars, idVars, boundVars>>

Result == {"ok", "failed", "aborted", "notConnected", "overflow", "refreshFailed"}

DequeueTask    == [op |-> "dequeue"]
RefreshTask(r) == [op |-> "refreshSession", req |-> r]
WaitTask(r)    == [op |-> "pushToSessionWaitingQueue", req |-> r]
Idle           == [op |-> "idle"]

SetOf(s) == {s[i] : i \in DOMAIN s}

Init ==
    /\ exec = [r \in Requests |-> "new"]
    /\ full = [r \in Requests |-> FALSE]
    /\ queues = [p \in Prios |-> <<>>]
    /\ waiting = [s \in Sessions |-> <<>>]
    /\ waitingKeys = {}
    /\ waitCount = [p \in Prios |-> 0]
    /\ tasks = <<>> /\ handlers = <<>> /\ busy = Idle
    /\ closed = FALSE /\ disconnected = FALSE /\ racing = {}
    /\ valid \in [Sessions -> BOOLEAN]
    /\ refreshing = [s \in Sessions |-> FALSE]
    /\ refreshCb = {}
    /\ inflight = {} /\ cancelled = {}
    /\ answers = [r \in Requests |-> <<>>]
    /\ dropped = {}
    /\ gen = [r \in Requests |-> 0]
    /\ lastSent = [r \in Requests |-> -1]
    /\ authErrors = 0 /\ outsideEvents = 0 /\ otherRefreshed = {}

-----------------------------------------------------------------------------
(* doExec, shared by the callers and by the client's thread                 *)

HasSession(r) == SessionOf[r] # NoSession
SessionReady(r) == HasSession(r) => valid[SessionOf[r]]

\* Priority::Highest is exempt; the comparison is with >, so one request
\* more than max_queue_depth fits.
QueueFilled(r, counts) ==
    /\ Priority[r] # 1
    /\ Len(queues[Priority[r]]) > MaxQueueDepth + counts[Priority[r]]

\* The error that doExec reports at once, if any.
Refusal(isFull) ==
    IF closed THEN "aborted"
    ELSE IF disconnected THEN "notConnected"
    ELSE IF isFull THEN "overflow"
    ELSE "none"

Answer(r, result) == answers' = [answers EXCEPT ![r] = Append(@, result)]

\* Lines of doExec on a caller's thread.  Serialization in exec() either
\* fails, with nothing done, or precedes the first step.
ExecRead(r) ==
    /\ exec[r] = "new"
    /\ full' = [full EXCEPT ![r] = QueueFilled(r, waitCount)]
    /\ exec' = [exec EXCEPT ![r] = "check"]
    /\ UNCHANGED <<queues, waitVars, threadVars, flagVars, sessionVars, inflight, cancelled,
                   resultVars, idVars, boundVars>>

ExecCheck(r) ==
    /\ exec[r] = "check"
    /\ \/ /\ Refusal(full[r]) # "none"
          /\ Answer(r, Refusal(full[r]))
          /\ exec' = [exec EXCEPT ![r] = "done"]
       \/ /\ Refusal(full[r]) = "none"
          /\ exec' = [exec EXCEPT ![r] = "route"]
          /\ UNCHANGED answers
    /\ UNCHANGED <<full, queues, waitVars, threadVars, flagVars, sessionVars, inflight,
                   cancelled, dropped, idVars, boundVars>>

\* Variant with a bug: a request whose session is not ready is refused and
\* posted all the same.
ExecRouteAnswers(r) ==
    /\ exec[r] = "route"
    /\ \/ /\ ~SessionReady(r)
          /\ tasks' = Append(tasks, WaitTask(r))
          /\ Answer(r, "failed")
          /\ exec' = [exec EXCEPT ![r] = "done"]
       \/ /\ SessionReady(r)
          /\ exec' = [exec EXCEPT ![r] = "push"]
          /\ UNCHANGED <<tasks, answers>>
    /\ UNCHANGED <<full, queues, waitVars, handlers, busy, flagVars, sessionVars, inflight,
                   cancelled, dropped, idVars, boundVars>>

\* if session not ready then push to waiting queue for this session
ExecRoute(r) ==
    /\ exec[r] = "route"
    /\ \/ /\ ~SessionReady(r)
          /\ tasks' = Append(tasks, WaitTask(r))
          /\ exec' = [exec EXCEPT ![r] = "done"]
       \/ /\ SessionReady(r)
          /\ exec' = [exec EXCEPT ![r] = "push"]
          /\ UNCHANGED tasks
    /\ UNCHANGED <<full, queues, waitVars, handlers, busy, flagVars, sessionVars, inflight,
                   cancelled, resultVars, idVars, boundVars>>

ExecPush(r) ==
    /\ exec[r] = "push"
    /\ queues' = [queues EXCEPT ![Priority[r]] = Append(@, r)]
    /\ tasks' = Append(tasks, DequeueTask)
    /\ exec' = [exec EXCEPT ![r] = "done"]
    /\ UNCHANGED <<full, waitVars, handlers, busy, flagVars, sessionVars, inflight, cancelled,
                   resultVars, idVars, boundVars>>

\* Variant with a bug: the id is not regenerated.
DoExecAgainSameId(r, rest, counts) ==
    LET refusal == Refusal(QueueFilled(r, counts)) IN
    \/ /\ refusal # "none"
       /\ Answer(r, refusal)
       /\ tasks' = rest
       /\ UNCHANGED <<queues, gen>>
    \/ /\ refusal = "none" /\ ~SessionReady(r)
       /\ tasks' = Append(rest, WaitTask(r))
       /\ UNCHANGED <<queues, gen, answers>>
    \/ /\ refusal = "none" /\ SessionReady(r)
       /\ queues' = [queues EXCEPT ![Priority[r]] = Append(@, r)]
       /\ tasks' = Append(rest, DequeueTask)
       /\ UNCHANGED <<answers, gen>>

\* doExec(..., regenId=true) on the client's thread, with the tasks that the
\* step leaves and the waiting counters it has just changed.
DoExecAgain(r, rest, counts) ==
    LET refusal == Refusal(QueueFilled(r, counts)) IN
    \/ /\ refusal # "none"
       /\ Answer(r, refusal)
       /\ tasks' = rest
       /\ UNCHANGED <<queues, gen>>
    \/ /\ refusal = "none" /\ ~SessionReady(r)
       /\ tasks' = Append(rest, WaitTask(r))
       /\ UNCHANGED <<queues, gen, answers>>
    \/ /\ refusal = "none" /\ SessionReady(r)
       /\ gen' = [gen EXCEPT ![r] = @ + 1]
       /\ queues' = [queues EXCEPT ![Priority[r]] = Append(@, r)]
       /\ tasks' = Append(rest, DequeueTask)
       /\ UNCHANGED answers

-----------------------------------------------------------------------------
(* dequeue and sendRequest                                                  *)

NextTask(op) == busy = Idle /\ tasks # <<>> /\ Head(tasks).op = op

DequeueBegin ==
    /\ NextTask("dequeue")
    /\ tasks' = Tail(tasks)
    /\ busy' = IF closed THEN Idle ELSE [op |-> "dequeue", p |-> 1]
    /\ UNCHANGED <<callerVars, queues, waitVars, handlers, flagVars, sessionVars, inflight,
                   cancelled, resultVars, idVars, boundVars>>

canSend == Cardinality(inflight) < MaxInFlight

\* The queue of this priority is done: empty, or the transport is busy.
DequeueNextPriority ==
    /\ busy.op = "dequeue"
    /\ \/ queues[busy.p] = <<>>
       \/ /\ queues[busy.p] # <<>> /\ Head(queues[busy.p]) \notin cancelled
          /\ ~canSend
    /\ busy' = IF busy.p = Priorities THEN Idle ELSE [busy EXCEPT !.p = @ + 1]
    /\ UNCHANGED <<callerVars, queues, waitVars, tasks, handlers, flagVars, sessionVars,
                   inflight, cancelled, resultVars, idVars, boundVars>>

DequeueCancelled ==
    /\ busy.op = "dequeue"
    /\ queues[busy.p] # <<>> /\ Head(queues[busy.p]) \in cancelled
    /\ queues' = [queues EXCEPT ![busy.p] = Tail(@)]
    /\ dropped' = dropped \cup {Head(queues[busy.p])}
    /\ UNCHANGED <<callerVars, waitVars, threadVars, flagVars, sessionVars, inflight,
                   cancelled, answers, idVars, boundVars>>

\* sendRequest: the client may have been closed meanwhile, and serializing
\* may fail; then another dequeue is posted and the request called back.
DequeueSend ==
    /\ busy.op = "dequeue"
    /\ queues[busy.p] # <<>> /\ Head(queues[busy.p]) \notin cancelled /\ canSend
    /\ queues' = [queues EXCEPT ![busy.p] = Tail(@)]
    /\ LET r == Head(queues[busy.p]) IN
       \/ /\ Answer(r, IF closed THEN "aborted" ELSE "failed")
          /\ tasks' = Append(tasks, DequeueTask)
          /\ UNCHANGED <<inflight, lastSent>>
       \/ /\ ~closed
          /\ inflight' = inflight \cup {r}
          /\ lastSent' = [lastSent EXCEPT ![r] = gen[r]]
          /\ UNCHANGED <<tasks, answers>>
    /\ UNCHANGED <<callerVars, waitVars, handlers, busy, flagVars, sessionVars, cancelled,
                   dropped, gen, boundVars>>

-----------------------------------------------------------------------------
(* The callback that sendRequest gives to the transport                     *)

\* Variant with a bug: after an error the next request is not sent.
SendFailedStops(r) ==
    /\ busy = Idle /\ r \in inflight
    /\ inflight' = inflight \ {r}
    /\ IF r \in cancelled
       THEN dropped' = dropped \cup {r} /\ UNCHANGED answers
       ELSE Answer(r, "failed") /\ UNCHANGED dropped
    /\ UNCHANGED <<callerVars, queues, waitVars, threadVars, flagVars, sessionVars,
                   cancelled, idVars, boundVars>>

\* Sending or receiving failed.
SendFailed(r) ==
    /\ busy = Idle /\ r \in inflight
    /\ inflight' = inflight \ {r}
    /\ IF r \in cancelled
       THEN dropped' = dropped \cup {r} /\ UNCHANGED answers
       ELSE Answer(r, "failed") /\ UNCHANGED dropped
    /\ tasks' = IF closed THEN tasks ELSE Append(tasks, DequeueTask)
    /\ UNCHANGED <<callerVars, queues, waitVars, handlers, busy, flagVars, sessionVars,
                   cancelled, idVars, boundVars>>

\* A response arrived, whose status is anything but an authentication error
\* that the session can deal with.
Responded(r) ==
    /\ busy = Idle /\ r \in inflight
    /\ inflight' = inflight \ {r}
    /\ IF r \in cancelled
       THEN dropped' = dropped \cup {r} /\ UNCHANGED answers
       ELSE Answer(r, "ok") /\ UNCHANGED dropped
    /\ tasks' = Append(tasks, DequeueTask)
    /\ UNCHANGED <<callerVars, queues, waitVars, handlers, busy, flagVars, sessionVars,
                   cancelled, idVars, boundVars>>

\* AuthError: the request is not called back, its session is refreshed.
AuthErrorResponded(r) ==
    /\ busy = Idle /\ r \in inflight \ cancelled
    /\ HasSession(r) /\ ~closed
    /\ authErrors < MaxAuthErrors
    /\ authErrors' = authErrors + 1
    /\ inflight' = inflight \ {r}
    /\ valid' = [valid EXCEPT ![SessionOf[r]] = FALSE]
    /\ tasks' = tasks \o <<RefreshTask(r), DequeueTask>>
    /\ UNCHANGED <<callerVars, queues, waitVars, handlers, busy, flagVars, refreshing, refreshCb,
                   cancelled, resultVars, idVars, outsideEvents, otherRefreshed>>

-----------------------------------------------------------------------------
(* refreshSession and pushToSessionWaitingQueue                             *)

\* A closed client lets the request go.
SessionTaskClosed ==
    /\ busy = Idle /\ tasks # <<>> /\ Head(tasks) # DequeueTask
    /\ closed
    /\ dropped' = dropped \cup {Head(tasks).req}
    /\ tasks' = Tail(tasks)
    /\ UNCHANGED <<callerVars, queues, waitVars, handlers, busy, flagVars, sessionVars, inflight,
                   cancelled, answers, idVars, boundVars>>

\* The session was refreshed before the task ran: execute the request again.
RefreshNotNeeded ==
    /\ NextTask("refreshSession") /\ ~closed
    /\ valid[SessionOf[Head(tasks).req]]
    /\ busy' = [op |-> "reexec", req |-> Head(tasks).req]
    /\ tasks' = Tail(tasks)
    /\ UNCHANGED <<callerVars, queues, waitVars, handlers, flagVars, sessionVars, inflight,
                   cancelled, resultVars, idVars, boundVars>>

Reexec ==
    /\ busy.op = "reexec"
    /\ DoExecAgain(busy.req, tasks, waitCount)
    /\ busy' = Idle
    /\ UNCHANGED <<callerVars, waitVars, handlers, flagVars, sessionVars, inflight, cancelled,
                   dropped, lastSent, boundVars>>

Enqueue(r) ==
    /\ waiting' = [waiting EXCEPT ![SessionOf[r]] = Append(@, r)]
    /\ waitCount' = [waitCount EXCEPT ![Priority[r]] = @ + 1]

\* Wait for the session, and call Session::refresh with the client's
\* callback unless the session is being refreshed already.
RefreshBegin ==
    /\ NextTask("refreshSession") /\ ~closed
    /\ LET r == Head(tasks).req
           s == SessionOf[r]
       IN  /\ ~valid[s]
           /\ Enqueue(r)
           /\ waitingKeys' = waitingKeys \cup {s}
           /\ refreshCb' = IF refreshing[s] THEN refreshCb ELSE refreshCb \cup {s}
           /\ refreshing' = [refreshing EXCEPT ![s] = TRUE]
    /\ tasks' = Tail(tasks)
    /\ UNCHANGED <<callerVars, queues, handlers, busy, flagVars, valid, inflight, cancelled,
                   resultVars, idVars, boundVars>>

\* Join the queue of the session if it has one; otherwise refreshSession,
\* which posts.
PushToWaiting ==
    /\ NextTask("pushToSessionWaitingQueue") /\ ~closed
    /\ LET r == Head(tasks).req IN
       \/ /\ SessionOf[r] \in waitingKeys
          /\ Enqueue(r)
          /\ tasks' = Tail(tasks)
       \/ /\ SessionOf[r] \notin waitingKeys
          /\ tasks' = Append(Tail(tasks), RefreshTask(r))
          /\ UNCHANGED <<waiting, waitCount>>
    /\ UNCHANGED <<callerVars, queues, waitingKeys, handlers, busy, flagVars, sessionVars,
                   inflight, cancelled, resultVars, idVars, boundVars>>

\* Session::refresh completes and runs the callbacks it has collected; the
\* client's callback does nothing for a closed client or a missing queue.
RefreshDone(s, ok) ==
    /\ busy = Idle /\ refreshing[s]
    /\ refreshing' = [refreshing EXCEPT ![s] = FALSE]
    /\ valid' = [valid EXCEPT ![s] = ok]
    /\ refreshCb' = refreshCb \ {s}
    /\ busy' = IF s \in refreshCb /\ ~closed /\ s \in waitingKeys
               THEN [op |-> "drain", s |-> s, ok |-> ok] ELSE Idle
    /\ UNCHANGED <<callerVars, queues, waitVars, tasks, handlers, flagVars, inflight, cancelled,
                   resultVars, idVars, boundVars>>

\* Another client of the session calls Session::refresh.
RefreshByOther(s) ==
    /\ busy = Idle /\ ~refreshing[s]
    /\ outsideEvents < MaxOutsideEvents
    /\ outsideEvents' = outsideEvents + 1
    /\ refreshing' = [refreshing EXCEPT ![s] = TRUE]
    /\ otherRefreshed' = otherRefreshed \cup {s}
    /\ UNCHANGED <<callerVars, queues, waitVars, threadVars, flagVars, valid, refreshCb,
                   inflight, cancelled, resultVars, idVars, authErrors>>

\* The client's callback takes the waiting requests one by one.
DrainStep ==
    /\ busy.op = "drain" /\ waiting[busy.s] # <<>>
    /\ LET r == Head(waiting[busy.s])
           counts == [waitCount EXCEPT ![Priority[r]] = IF @ > 0 THEN @ - 1 ELSE @]
       IN  /\ waitCount' = counts
           /\ \/ ~busy.ok /\ Answer(r, "refreshFailed") /\ UNCHANGED <<tasks, queues, gen>>
              \/ busy.ok /\ DoExecAgain(r, tasks, counts)
    /\ waiting' = [waiting EXCEPT ![busy.s] = Tail(@)]
    /\ UNCHANGED <<callerVars, waitingKeys, handlers, busy, flagVars, sessionVars, inflight,
                   cancelled, dropped, lastSent, boundVars>>

DrainEnd ==
    /\ busy.op = "drain" /\ waiting[busy.s] = <<>>
    /\ waitingKeys' = waitingKeys \ {busy.s}
    /\ busy' = Idle
    /\ UNCHANGED <<callerVars, queues, waiting, waitCount, tasks, handlers, flagVars, sessionVars,
                   inflight, cancelled, resultVars, idVars, boundVars>>

-----------------------------------------------------------------------------
(* cancel, close, updateNetworkState                                        *)

Cancel(r) ==
    /\ exec[r] # "new" /\ r \notin cancelled
    /\ cancelled' = cancelled \cup {r}
    /\ UNCHANGED <<callerVars, queues, waitVars, threadVars, flagVars, sessionVars, inflight,
                   resultVars, idVars, boundVars>>

Close ==
    /\ ~closed
    /\ closed' = TRUE
    /\ racing' = {r \in Requests : exec[r] \in {"route", "push"}}
    /\ handlers' = Append(handlers, "close")
    /\ UNCHANGED <<callerVars, queues, waitVars, tasks, busy, disconnected, sessionVars, inflight,
                   cancelled, resultVars, idVars, boundVars>>

UpdateNetworkState(down) ==
    /\ outsideEvents < MaxOutsideEvents
    /\ outsideEvents' = outsideEvents + 1
    /\ disconnected' = down
    /\ handlers' = Append(handlers, IF down THEN "netDown" ELSE "netUp")
    /\ UNCHANGED <<callerVars, queues, waitVars, tasks, busy, closed, racing, sessionVars,
                   inflight, cancelled, resultVars, idVars, authErrors, otherRefreshed>>

\* Variant with a bug: requests that wait for their session are forgotten.
HeldInQueues == UNION {SetOf(queues[p]) : p \in Prios}

Held ==
    (UNION {SetOf(queues[p]) : p \in Prios}) \cup (UNION {SetOf(waiting[s]) : s \in waitingKeys})

\* Empty all queues; the requests are called back with ABORTED, unless they
\* were cancelled or nobody asked for it.
AbortAll(callBack) ==
    LET aborted == IF callBack THEN Held \ cancelled ELSE {} IN
    /\ answers' = [r \in Requests |->
                      IF r \in aborted THEN Append(answers[r], "aborted") ELSE answers[r]]
    /\ dropped' = dropped \cup (Held \ aborted)
    /\ queues' = [p \in Prios |-> <<>>]
    /\ waiting' = [s \in Sessions |-> <<>>]
    /\ waitingKeys' = {}
    /\ waitCount' = [p \in Prios |-> 0]

\* Variant with a bug: only the send queues are emptied.
CloseHandlerQueuesOnly ==
    /\ busy = Idle /\ handlers # <<>> /\ Head(handlers) = "close"
    /\ handlers' = Tail(handlers)
    /\ dropped' = dropped \cup UNION {SetOf(queues[p]) : p \in Prios}
    /\ queues' = [p \in Prios |-> <<>>]
    /\ UNCHANGED <<callerVars, waitVars, answers, tasks, busy, flagVars, sessionVars, inflight,
                   cancelled, idVars, boundVars>>

\* The transport ends what it holds on its own (SendFailed).
CloseHandler ==
    /\ busy = Idle /\ handlers # <<>> /\ Head(handlers) = "close"
    /\ handlers' = Tail(handlers)
    /\ AbortAll(CallbackRequests)
    /\ UNCHANGED <<callerVars, tasks, busy, flagVars, sessionVars, inflight, cancelled, idVars,
                   boundVars>>

NetworkHandler ==
    /\ busy = Idle /\ handlers # <<>> /\ Head(handlers) \in {"netDown", "netUp"}
    /\ handlers' = Tail(handlers)
    /\ IF ~closed /\ Head(handlers) = "netDown"
       THEN AbortAll(TRUE)
       ELSE UNCHANGED <<queues, waitVars, resultVars>>
    /\ UNCHANGED <<callerVars, tasks, busy, flagVars, sessionVars, inflight, cancelled, idVars,
                   boundVars>>

-----------------------------------------------------------------------------
ExecStep(r) == ExecRead(r) \/ ExecCheck(r) \/ ExecRoute(r) \/ ExecPush(r)

ThreadStep ==
    \/ DequeueBegin \/ DequeueNextPriority \/ DequeueCancelled \/ DequeueSend
    \/ SessionTaskClosed \/ RefreshNotNeeded \/ Reexec \/ RefreshBegin \/ PushToWaiting
    \/ DrainStep \/ DrainEnd \/ CloseHandler \/ NetworkHandler

TransportStep(r) == SendFailed(r) \/ Responded(r) \/ AuthErrorResponded(r)

Next ==
    \/ \E r \in Requests : ExecStep(r) \/ TransportStep(r) \/ Cancel(r)
    \/ ThreadStep
    \/ \E s \in Sessions : RefreshDone(s, TRUE) \/ RefreshDone(s, FALSE) \/ RefreshByOther(s)
    \/ Close
    \/ \E down \in BOOLEAN : UpdateNetworkState(down)

Spec == Init /\ [][Next]_vars

\* Callers finish exec(), the client's thread serves what is posted to it,
\* the transport ends every request it took, and a session's refresh ends.
\* Nobody has to submit, cancel, close or change the network.
FairSpec ==
    /\ Spec
    /\ \A r \in Requests : WF_vars(ExecCheck(r) \/ ExecRoute(r) \/ ExecPush(r))
    /\ WF_vars(ThreadStep)
    /\ \A r \in Requests : WF_vars(TransportStep(r))
    /\ \A s \in Sessions : WF_vars(RefreshDone(s, TRUE) \/ RefreshDone(s, FALSE))

-----------------------------------------------------------------------------
(* Properties                                                               *)

TaskType ==
    {DequeueTask} \cup [op : {"refreshSession", "pushToSessionWaitingQueue"}, req : Requests]

BusyType ==
    {Idle} \cup [op : {"dequeue"}, p : Prios] \cup [op : {"reexec"}, req : Requests]
           \cup [op : {"drain"}, s : Sessions, ok : BOOLEAN]

\* Every variable keeps its type.
TypeOK ==
    /\ exec \in [Requests -> {"new", "check", "route", "push", "done"}]
    /\ full \in [Requests -> BOOLEAN]
    /\ queues \in [Prios -> Seq(Requests)]
    /\ waiting \in [Sessions -> Seq(Requests)]
    /\ waitingKeys \subseteq Sessions
    /\ waitCount \in [Prios -> Nat]
    /\ tasks \in Seq(TaskType)
    /\ handlers \in Seq({"close", "netDown", "netUp"})
    /\ busy \in BusyType
    /\ closed \in BOOLEAN /\ disconnected \in BOOLEAN
    /\ racing \subseteq Requests
    /\ valid \in [Sessions -> BOOLEAN] /\ refreshing \in [Sessions -> BOOLEAN]
    /\ refreshCb \subseteq Sessions
    /\ inflight \subseteq Requests /\ cancelled \subseteq Requests /\ dropped \subseteq Requests
    /\ answers \in [Requests -> Seq(Result)]
    /\ gen \in [Requests -> Nat] /\ lastSent \in [Requests -> Int]
    /\ authErrors \in Nat /\ outsideEvents \in Nat /\ otherRefreshed \subseteq Sessions

\* Where a request is: each place that holds it or has settled it.
Slots(tag, seq, r) == {<<tag, i>> : i \in {j \in DOMAIN seq : seq[j] = r}}

Places(r) ==
    UNION {
        {<<"caller", pc>> : pc \in {exec[r]} \ {"new", "done"}},
        UNION {Slots(<<"queue", p>>, queues[p], r) : p \in Prios},
        UNION {Slots(<<"waiting", s>>, waiting[s], r) : s \in Sessions},
        Slots("task", tasks, RefreshTask(r)), Slots("task", tasks, WaitTask(r)),
        {<<"reexec">> : b \in {busy} \cap {[op |-> "reexec", req |-> r]}},
        {<<"transport">> : q \in inflight \cap {r}},
        {<<"answer", i>> : i \in DOMAIN answers[r]},
        {<<"dropped">> : q \in dropped \cap {r}} }

\* A request given to exec() is at every moment in exactly one place: with
\* its caller, in one queue once, in one posted task, with the transport, or
\* settled.  It is never lost between two threads and never held twice.
OnePlace == \A r \in Requests : Cardinality(Places(r)) = IF exec[r] = "new" THEN 0 ELSE 1

\* Callbacks: at most one per request, none left out unless the request was
\* cancelled or the client closed (specification ApiRequests).
status ==
    [r \in Requests |->
        CASE Len(answers[r]) > 1 -> "answered again"
          [] Len(answers[r]) = 1 -> "answered"
          [] r \in dropped       -> "dropped"
          [] exec[r] = "new"     -> "new"
          [] OTHER               -> "pending"]

Lifecycle == INSTANCE ApiRequests
CallsBackOnce == Lifecycle!Spec

\* A request is never sent twice under one id: what is queued for sending
\* again after a refresh has got a new id.
IdsAreFresh ==
    \A p \in Prios : \A i \in DOMAIN queues[p] :
        lastSent[queues[p][i]] # gen[queues[p][i]]

\* Once the handler of close() has run, only a request whose exec() had
\* passed its check when close() was called can be left in a queue, where
\* nobody will call it back.
CloseLeavesOnlyRacers == closed /\ "close" \notin SetOf(handlers) => Held \subseteq racing

\* Every request given to exec() is settled, unless the client is closed or
\* another client has refreshed the request's session; requests cannot be
\* stuck in a queue with nobody to send them.
RequestsSettle ==
    \A r \in Requests :
        exec[r] = "check" ~> \/ answers[r] # <<>> \/ r \in dropped
                             \/ closed \/ SessionOf[r] \in otherRefreshed
=============================================================================
