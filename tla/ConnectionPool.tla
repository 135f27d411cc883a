--------------------------- MODULE ConnectionPool ---------------------------
(***************************************************************************)
(* hatn::api::ConnectionPool in single connection mode, under               *)
(* RawTransport::sendRequest: a request is sent (header, then message) and  *)
(* its response received (header, then message) over one connection that    *)
(* is opened on demand, closed on error and reopened once when a header     *)
(* cannot be sent.                                                          *)
(*                                                                          *)
(* Everything runs on one thread; what interleaves are the completions of   *)
(* the connection's asynchronous operations, new requests and close().      *)
(* The stream below is external: each operation ends once, well or badly,   *)
(* and closing a closed stream calls back at once.                          *)
(***************************************************************************)
EXTENDS Naturals, Sequences

CONSTANTS
    Requests,
    Oversized,     \* requests whose message exceeds m_maxMessageSize
    EmptyResponse, \* requests that are answered with an empty message
    AutoReconnect  \* m_autoReconnect

ASSUME ConnectionPoolAssumption ==
    /\ Oversized \subseteq Requests /\ EmptyResponse \subseteq Requests
    /\ AutoReconnect \in BOOLEAN

VARIABLES
    state,          \* ConnectionContext::state
    hasCtx,         \* ConnectionContext::ctx is set
    sendTriesCount,
    m_closed,
    closing,        \* where close() is
    stage,          \* what each request waits for
    moved,          \* requests whose callback has been moved away
    answers,        \* results passed to the callback of each request
    wedged,         \* history: a finished request has left Busy behind
    crashed         \* "emptyCallback", "nullContext" or "no"

connVars  == <<state, hasCtx, sendTriesCount>>
closeVars == <<m_closed, closing>>
reqVars   == <<stage, moved, answers>>
vars == <<connVars, closeVars, reqVars, wedged, crashed>>

Reconnecting == {"connect", "close", "closed"}
Transfers    == {"sendHeader", "sendMessage", "recvHeader", "recvMessage"}

Init ==
    /\ state = "Disconnected" /\ hasCtx = FALSE /\ sendTriesCount = 0
    /\ m_closed = FALSE /\ closing = "no"
    /\ stage = [r \in Requests |-> "new"]
    /\ moved = {}
    /\ answers = [r \in Requests |-> <<>>]
    /\ wedged = FALSE /\ crashed = "no"

-----------------------------------------------------------------------------
(* How a step goes on for a request                                         *)

\* The callback of r is called and the connection is left in state st.
Finish(r, st, result) ==
    /\ state' = st
    /\ stage' = [stage EXCEPT ![r] = "done"]
    /\ answers' = [answers EXCEPT ![r] = Append(@, result)]
    /\ UNCHANGED <<moved, crashed>>

\* Calling a callback that has been moved away ends the program.
EmptyCallback(st) ==
    /\ crashed' = "emptyCallback"
    /\ state' = st
    /\ UNCHANGED reqVars

\* The callback is called through an object that may have been moved away.
FinishMoved(r, st, result) ==
    IF r \in moved THEN EmptyCallback(st) ELSE Finish(r, st, result)

\* A completion handler follows the null ConnectionContext::ctx.
NullContext ==
    /\ crashed' = "nullContext"
    /\ UNCHANGED <<connVars, closeVars, reqVars, wedged>>

\* r goes on with an operation of the connection, which is Busy.
Await(r, op) ==
    /\ state' = "Busy"
    /\ stage' = [stage EXCEPT ![r] = op]
    /\ UNCHANGED <<answers, moved, crashed>>

\* TOO_BIG_TX_MESSAGE leaves the connection Busy.
sendToConnection(r) ==
    \/ /\ r \in Oversized
       /\ FinishMoved(r, "Busy", "tooBig") /\ wedged' = TRUE
    \/ /\ r \notin Oversized
       /\ Await(r, "sendHeader") /\ UNCHANGED wedged

-----------------------------------------------------------------------------
(* Variants with a bug, used to show that the properties notice             *)

\* A busy connection is not refused.
SendWhenBusy(r) ==
    /\ crashed = "no" /\ stage[r] = "new"
    /\ IF m_closed THEN Finish(r, state, "aborted") /\ UNCHANGED wedged
       ELSE IF hasCtx THEN sendToConnection(r)
       ELSE Await(r, "connect") /\ UNCHANGED wedged
    /\ UNCHANGED <<hasCtx, sendTriesCount, closeVars>>

\* The continuation is forgotten once the connection has been closed.
CloseDoneForgets(r) ==
    /\ crashed = "no" /\ stage[r] = "close"
    /\ state' = "Disconnected" /\ hasCtx' = FALSE /\ sendTriesCount' = 0
    /\ stage' = [stage EXCEPT ![r] = "lost"]
    /\ UNCHANGED <<closeVars, moved, answers, wedged, crashed>>

\* The state is not restored after the response has been received.
RecvMessageDoneStaysBusy(r, ok) ==
    /\ crashed = "no" /\ stage[r] = "recvMessage" /\ hasCtx
    /\ Finish(r, "Busy", IF ok THEN "ok" ELSE "failed")
    /\ UNCHANGED <<hasCtx, sendTriesCount, closeVars, wedged>>

-----------------------------------------------------------------------------
(* send                                                                     *)

Send(r) ==
    /\ crashed = "no" /\ stage[r] = "new"
    /\ \/ /\ m_closed \/ state = "Busy"
          /\ Finish(r, state, IF m_closed THEN "aborted" ELSE "busy")
          /\ UNCHANGED wedged
       \/ /\ ~m_closed /\ state = "Ready"
          /\ sendToConnection(r)
       \/ /\ ~m_closed /\ state = "Disconnected"
          /\ Await(r, "connect") /\ UNCHANGED wedged
       \/ /\ ~m_closed /\ state = "Error"
          /\ Await(r, "close") /\ UNCHANGED wedged
    /\ UNCHANGED <<hasCtx, sendTriesCount, closeVars>>

\* An operation of r ends.  What closeConnection has posted to the thread
\* runs before the completion of anything started later.
Completes(r, op) ==
    /\ crashed = "no" /\ stage[r] = op
    /\ op # "closed" => \A q \in Requests : stage[q] # "closed"

\* connect's makeCb, which does not look at m_closed; reconnectCb counts the
\* second try.
ConnectDone(r) ==
    /\ Completes(r, "connect")
    /\ \/ /\ hasCtx' = TRUE
          /\ sendTriesCount' = IF r \in moved THEN sendTriesCount + 1 ELSE sendTriesCount
          /\ sendToConnection(r)
       \/ /\ FinishMoved(r, "Disconnected", "failed")
          /\ UNCHANGED <<hasCtx, sendTriesCount, wedged>>
    /\ UNCHANGED closeVars

\* closeConnection's cb1, which posts what follows.
CloseDone(r) ==
    /\ Completes(r, "close")
    /\ state' = "Disconnected" /\ hasCtx' = FALSE /\ sendTriesCount' = 0
    /\ stage' = [stage EXCEPT ![r] = "closed"]
    /\ UNCHANGED <<closeVars, moved, answers, wedged, crashed>>

\* The posted continuation connects, unless a request sent since does.
Reconnect(r) ==
    /\ Completes(r, "closed")
    /\ \/ state = "Busy" /\ FinishMoved(r, "Busy", "busy")
       \/ state # "Busy" /\ Await(r, "connect")
    /\ UNCHANGED <<hasCtx, sendTriesCount, closeVars, wedged>>

\* sendHeaderCb.  Its callback was moved to sendMessageCb before, so that an
\* error either ends the program here or leads to a second try with an empty
\* callback.
SendHeaderDone(r, ok) ==
    /\ Completes(r, "sendHeader")
    /\ \/ ~hasCtx /\ NullContext
       \/ /\ hasCtx /\ ok
          /\ Await(r, "sendMessage")
          /\ UNCHANGED <<hasCtx, sendTriesCount, closeVars, wedged>>
       \/ /\ hasCtx /\ ~ok
          /\ sendTriesCount > 0 \/ ~AutoReconnect \/ m_closed
          /\ EmptyCallback("Error")
          /\ sendTriesCount' = 0
          /\ UNCHANGED <<hasCtx, closeVars, wedged>>
       \/ /\ hasCtx /\ ~ok
          /\ sendTriesCount = 0 /\ AutoReconnect /\ ~m_closed
          /\ state' = "Busy"
          /\ stage' = [stage EXCEPT ![r] = "close"]
          /\ moved' = moved \cup {r}
          /\ UNCHANGED <<hasCtx, sendTriesCount, closeVars, answers, wedged, crashed>>

\* sendMessageCb; RawTransport goes on with recv.
SendMessageDone(r, ok) ==
    /\ Completes(r, "sendMessage")
    /\ \/ ~hasCtx /\ NullContext
       \/ /\ hasCtx
          /\ \/ ~ok /\ FinishMoved(r, "Error", "failed")
             \/ ok /\ (m_closed \/ r \in moved) /\ FinishMoved(r, "Ready", "aborted")
             \/ ok /\ ~m_closed /\ r \notin moved /\ Await(r, "recvHeader")
          /\ UNCHANGED <<hasCtx, sendTriesCount, closeVars, wedged>>

\* recvHeaderCb.  An empty message leaves the connection Busy.
RecvHeaderDone(r, result) ==
    /\ Completes(r, "recvHeader")
    /\ \/ ~hasCtx /\ NullContext
       \/ /\ hasCtx
          /\ \/ result # "ok" /\ Finish(r, "Error", result) /\ UNCHANGED wedged
             \/ /\ result = "ok" /\ r \in EmptyResponse
                /\ Finish(r, "Busy", "ok") /\ wedged' = TRUE
             \/ /\ result = "ok" /\ r \notin EmptyResponse
                /\ Await(r, "recvMessage") /\ UNCHANGED wedged
          /\ UNCHANGED <<hasCtx, sendTriesCount, closeVars>>

RecvMessageDone(r, ok) ==
    /\ Completes(r, "recvMessage")
    /\ \/ ~hasCtx /\ NullContext
       \/ /\ hasCtx
          /\ \/ ok /\ Finish(r, "Ready", "ok")
             \/ ~ok /\ Finish(r, "Error", "failed")
          /\ UNCHANGED <<hasCtx, sendTriesCount, closeVars, wedged>>

-----------------------------------------------------------------------------
(* close                                                                    *)

\* Only a connection with a context is closed.  If a request is closing it
\* already, the stream calls back at once.
Close ==
    /\ crashed = "no" /\ ~m_closed
    /\ m_closed' = TRUE
    /\ \/ /\ ~hasCtx
          /\ closing' = "done"
          /\ UNCHANGED connVars
       \/ /\ hasCtx /\ \E r \in Requests : stage[r] = "close"
          /\ closing' = "done"
          /\ state' = "Disconnected" /\ hasCtx' = FALSE /\ sendTriesCount' = 0
       \/ /\ hasCtx /\ \A r \in Requests : stage[r] # "close"
          /\ closing' = "closing"
          /\ state' = "Busy"
          /\ UNCHANGED <<hasCtx, sendTriesCount>>
    /\ UNCHANGED <<reqVars, wedged, crashed>>

CloseCompletes ==
    /\ crashed = "no" /\ closing = "closing"
    /\ closing' = "done"
    /\ state' = "Disconnected" /\ hasCtx' = FALSE /\ sendTriesCount' = 0
    /\ UNCHANGED <<m_closed, reqVars, wedged, crashed>>

Completion(r) ==
    \/ ConnectDone(r) \/ CloseDone(r) \/ Reconnect(r)
    \/ \E ok \in BOOLEAN :
         SendHeaderDone(r, ok) \/ SendMessageDone(r, ok) \/ RecvMessageDone(r, ok)
    \/ \E result \in {"ok", "failed", "tooBig"} : RecvHeaderDone(r, result)

Next == (\E r \in Requests : Send(r) \/ Completion(r)) \/ Close \/ CloseCompletes

Spec == Init /\ [][Next]_vars

\* The stream ends every operation.
FairSpec ==
    Spec /\ (\A r \in Requests : WF_vars(Completion(r))) /\ WF_vars(CloseCompletes)

-----------------------------------------------------------------------------
(* Properties                                                               *)

\* Every variable keeps its type.
TypeOK ==
    /\ state \in {"Disconnected", "Ready", "Busy", "Error"}
    /\ hasCtx \in BOOLEAN /\ sendTriesCount \in 0..1
    /\ m_closed \in BOOLEAN /\ closing \in {"no", "closing", "done"}
    /\ stage \in [Requests -> {"new", "done"} \cup Reconnecting \cup Transfers]
    /\ moved \subseteq Requests
    /\ answers \in [Requests -> Seq({"ok", "failed", "tooBig", "busy", "aborted"})]
    /\ wedged \in BOOLEAN
    /\ crashed \in {"no", "emptyCallback", "nullContext"}

\* The requests whose operation is under way on the connection.
Users == {r \in Requests : stage[r] \in Transfers \cup {"connect", "close"}}

\* canSend() is false only while somebody uses or closes the connection, or
\* after a request that was too big or was answered with nothing: those two
\* leave the connection Busy for good (connectionpool.h:547 and 296).
BusyHasReason ==
    state = "Busy" /\ crashed = "no" => Users # {} \/ closing = "closing" \/ wedged

\* One request at a time uses the connection, so its header, message and
\* response are never mixed with another's, and while it does the connection
\* is Busy; only close() may change that state under it.  This must survive
\* the window in closeConnection between cb1 and what cb1 posts.
ExclusiveUse ==
    /\ \A r, q \in Users : r = q
    /\ Users # {} /\ ~m_closed /\ crashed = "no" => state = "Busy"

\* Every request given to send() is called back, unless the program ends, and
\* exactly once: when it is done with, and never before.
RequestsAnsweredOnce ==
    /\ [](\A r \in Requests : Len(answers[r]) = IF stage[r] = "done" THEN 1 ELSE 0)
    /\ \A r \in Requests : stage[r] # "new" ~> answers[r] # <<>> \/ crashed # "no"

=============================================================================
