--------------------------- MODULE Network_proofs ---------------------------
(***************************************************************************)
(* Proofs about the network library.                                        *)
(*                                                                          *)
(* ConnectionPool, for every set of requests, whichever are too big or      *)
(* answered with nothing, and with or without reconnecting: type            *)
(* correctness, exclusive use of the connection, the reasons for Busy, one  *)
(* answer per request, and when a completion can find no context.           *)
(*                                                                          *)
(* CaResolver, for every set of queries, whatever they ask for and whatever *)
(* the zones say: a query is posted and called back at most once at a time. *)
(***************************************************************************)
EXTENDS ConnectionPool, CaResolver, FiniteSetTheorems, SequenceTheorems, TLAPS

(***************************************************************************)
(* ConnectionPool: the inductive invariant                                  *)
(***************************************************************************)

\* While a continuation posted by closeConnection waits, there is no context
\* and no error, it is the only one, and whoever uses the connection is a
\* request that came in between and waits for connect.
PostedInv ==
    \A r \in Requests : stage[r] = "closed" =>
        /\ ~hasCtx
        /\ crashed = "no" => state # "Error"
        /\ \A q \in Requests : stage[q] = "closed" => q = r
        /\ \A q \in Users : stage[q] = "connect" /\ (crashed = "no" => state = "Busy")

\* ConnectionContext::ctx: none while connect is under way, and there is one
\* while a transfer is, until close() takes it.
ContextInv ==
    /\ \A r \in Requests : stage[r] = "connect" => ~hasCtx
    /\ \A r \in Requests : stage[r] \in Transfers => hasCtx \/ m_closed
    /\ state = "Ready" => hasCtx
    /\ state = "Disconnected" => ~hasCtx
    /\ crashed = "nullContext" => m_closed

\* close() waits for the stream only if nobody else closes it.
CloseInv ==
    closing = "closing" =>
        hasCtx /\ m_closed /\ \A r \in Requests : stage[r] \notin {"close", "closed"}

\* A callback is moved away by a header that could not be sent, so its request
\* is on its second try; it never gets as far as a response.
MovedInv ==
    /\ \A r \in moved : stage[r] \in Reconnecting \cup {"sendHeader", "sendMessage"}
    /\ \A r \in Requests : stage[r] \in Transfers => r \notin Oversized
    /\ moved \cap Oversized = {}
    /\ \/ sendTriesCount = 0 \/ crashed # "no"
       \/ \E r \in moved : stage[r] \in {"sendHeader", "sendMessage"}

\* A request has one answer when it is done with, and none before.
AnsweredOnce == \A r \in Requests : Len(answers[r]) = IF stage[r] = "done" THEN 1 ELSE 0

IInv ==
    /\ TypeOK /\ ExclusiveUse /\ PostedInv /\ ContextInv /\ CloseInv /\ MovedInv
    /\ BusyHasReason /\ AnsweredOnce

(***************************************************************************)
(* How a request leaves, goes on or is lost                                 *)
(***************************************************************************)

\* TypeOK by the provers that can deal with each part.
FlagsTyped == hasCtx \in BOOLEAN /\ m_closed \in BOOLEAN /\ wedged \in BOOLEAN

ConnTyped ==
    /\ state \in {"Disconnected", "Ready", "Busy", "Error"}
    /\ sendTriesCount \in 0..1
    /\ closing \in {"no", "closing", "done"}

Result == {"ok", "failed", "tooBig", "busy", "aborted"}

ReqTyped ==
    /\ stage \in [Requests -> {"new", "done"} \cup Reconnecting \cup Transfers]
    /\ moved \subseteq Requests
    /\ answers \in [Requests -> Seq(Result)]
    /\ crashed \in {"no", "emptyCallback", "nullContext"}

LEMMA TypeOKParts == TypeOK <=> FlagsTyped /\ ConnTyped /\ ReqTyped
BY DEF TypeOK, FlagsTyped, ConnTyped, ReqTyped, Result

\* Finish calls the callback of a request for the first time and takes the
\* request off the connection.
LEMMA FinishOnce ==
    ASSUME ReqTyped, AnsweredOnce, NEW r \in Requests, NEW st, NEW answer \in Result,
           stage[r] # "done", Finish(r, st, answer)
    PROVE  /\ ReqTyped' /\ AnsweredOnce'
           /\ Users' = Users \ {r}
<1>1. answers[r] \in Seq(Result) /\ Len(answers[r]) = 0
    BY DEF ReqTyped, AnsweredOnce
<1>2. /\ Append(answers[r], answer) \in Seq(Result)
      /\ Len(Append(answers[r], answer)) = 1
    BY <1>1
<1>3. ReqTyped'
    BY <1>2 DEF ReqTyped, Finish
<1>4. AnsweredOnce'
    BY <1>2 DEF ReqTyped, Finish, AnsweredOnce
<1>5. Users' = Users \ {r}
    BY DEF ReqTyped, Finish, Users, Transfers
<1> QED
    BY <1>3, <1>4, <1>5

\* The same through a callback that may be empty: then the program ends and
\* the request stays where it is.
LEMMA FinishMovedOnce ==
    ASSUME ReqTyped, AnsweredOnce, NEW r \in Requests, NEW st, NEW answer \in Result,
           stage[r] # "done", FinishMoved(r, st, answer)
    PROVE  /\ ReqTyped' /\ AnsweredOnce' /\ state' = st
           /\ \/ /\ r \in moved /\ crashed' = "emptyCallback" /\ UNCHANGED reqVars
                 /\ Users' = Users
              \/ r \notin moved /\ Finish(r, st, answer) /\ Users' = Users \ {r}
<1>1. CASE r \in moved
    BY <1>1 DEF FinishMoved, EmptyCallback, reqVars, ReqTyped, AnsweredOnce, Users
<1>2. CASE r \notin moved
    BY <1>2, FinishOnce DEF FinishMoved, Finish
<1> QED
    BY <1>1, <1>2

\* Await puts a request on the connection, or lets it go on there.
LEMMA AwaitUses ==
    ASSUME ReqTyped, AnsweredOnce, NEW r \in Requests,
           NEW op \in {"connect", "close"} \cup Transfers,
           stage[r] # "done", Await(r, op)
    PROVE  /\ ReqTyped' /\ AnsweredOnce'
           /\ Users' = Users \cup {r}
BY DEF Await, ReqTyped, AnsweredOnce, Users, Reconnecting, Transfers

(***************************************************************************)
(* Every action preserves the invariant                                     *)
(***************************************************************************)

\* cb1 of closeConnection: the posted continuation is not a user any more.
LEMMA CloseDonePreserves ==
    ASSUME IInv, NEW r \in Requests, CloseDone(r)
    PROVE  IInv'
<1> USE ConnectionPoolAssumption, TypeOKParts DEF IInv
<1>1. FlagsTyped'
    BY Zenon DEF FlagsTyped, CloseDone, Completes, closeVars
<1>2. ConnTyped'
    BY DEF ConnTyped, MovedInv, ReqTyped, ExclusiveUse, Users, CloseDone, Completes, closeVars,
           Finish, Await, Reconnecting, Transfers
<1>3. /\ ReqTyped' /\ AnsweredOnce'
      /\ Users' = Users \ {r}
      /\ r \in Users
    BY DEF CloseDone, Completes, ReqTyped, AnsweredOnce, Users, Reconnecting, Transfers
<1>4. ExclusiveUse'
    BY <1>3 DEF ReqTyped, ExclusiveUse, PostedInv, CloseInv,
           CloseDone, Completes, closeVars, Finish, Await, Reconnecting, Transfers
<1>5. PostedInv'
    BY <1>3 DEF ReqTyped, ConnTyped, ExclusiveUse, PostedInv, CloseInv, Users,
           CloseDone, Completes, closeVars, Finish, Await, Reconnecting, Transfers
<1>6. ContextInv'
    BY <1>3 DEF ReqTyped, ContextInv, ExclusiveUse, PostedInv, CloseInv, Users,
           CloseDone, Completes, closeVars, Finish, Await, Reconnecting, Transfers
<1>7. CloseInv'
    BY <1>3 DEF ReqTyped, CloseInv, PostedInv, ContextInv, ExclusiveUse, Users,
           CloseDone, Completes, closeVars, Finish, Await, Reconnecting, Transfers
<1>8. MovedInv'
    BY <1>3 DEF ReqTyped, MovedInv, ExclusiveUse, Users,
           CloseDone, Completes, closeVars, Finish, Await, Reconnecting, Transfers
<1>9. BusyHasReason'
    BY <1>3 DEF ReqTyped, BusyHasReason, CloseInv,
           CloseDone, Completes, closeVars, Finish, Await, Reconnecting, Transfers
<1> QED
    BY <1>1, <1>2, <1>3, <1>4, <1>5, <1>6, <1>7, <1>8, <1>9
    DEF TypeOK, FlagsTyped, ConnTyped, ReqTyped, Result

\* close() changes no request.
LEMMA ClosePreserves ==
    ASSUME IInv, Close
    PROVE  IInv'
<1> USE ConnectionPoolAssumption, TypeOKParts DEF IInv
<1>1. FlagsTyped'
    BY Zenon DEF FlagsTyped, Close, connVars, reqVars
<1>2. ConnTyped'
    BY DEF ConnTyped, MovedInv, ReqTyped, ExclusiveUse, Users, Close, connVars, reqVars, Finish,
           Await, Reconnecting, Transfers
<1>3. ReqTyped' /\ AnsweredOnce' /\ Users' = Users /\ UNCHANGED <<stage, moved, crashed>>
    BY DEF Close, ReqTyped, AnsweredOnce, Users, reqVars
<1>4. ExclusiveUse'
    BY <1>3 DEF ReqTyped, ExclusiveUse, PostedInv, CloseInv,
           Close, connVars, reqVars, Finish, Await, Reconnecting, Transfers
<1>5. PostedInv'
    BY <1>3 DEF ReqTyped, ConnTyped, ExclusiveUse, PostedInv, CloseInv, Users,
           Close, connVars, reqVars, Finish, Await, Reconnecting, Transfers
<1>6. ContextInv'
    BY <1>3 DEF ReqTyped, ContextInv, ExclusiveUse, PostedInv, CloseInv, Users,
           Close, connVars, reqVars, Finish, Await, Reconnecting, Transfers
<1>7. CloseInv'
    BY <1>3 DEF ReqTyped, CloseInv, PostedInv, ContextInv, ExclusiveUse, Users,
           Close, connVars, reqVars, Finish, Await, Reconnecting, Transfers
<1>8. MovedInv'
    BY <1>3 DEF ReqTyped, MovedInv, ExclusiveUse, Users,
           Close, connVars, reqVars, Finish, Await, Reconnecting, Transfers
<1>9. BusyHasReason'
    BY <1>3 DEF ReqTyped, BusyHasReason, CloseInv,
           Close, connVars, reqVars, Finish, Await, Reconnecting, Transfers
<1> QED
    BY <1>1, <1>2, <1>3, <1>4, <1>5, <1>6, <1>7, <1>8, <1>9
    DEF TypeOK, FlagsTyped, ConnTyped, ReqTyped, Result

\* Nor does its end.
LEMMA CloseCompletesPreserves ==
    ASSUME IInv, CloseCompletes
    PROVE  IInv'
<1> USE ConnectionPoolAssumption, TypeOKParts DEF IInv
<1>1. FlagsTyped'
    BY Zenon DEF FlagsTyped, CloseCompletes, reqVars
<1>2. ConnTyped'
    BY DEF ConnTyped, MovedInv, ReqTyped, ExclusiveUse, Users, CloseCompletes, reqVars, Finish,
           Await, Reconnecting, Transfers
<1>3. ReqTyped' /\ AnsweredOnce' /\ Users' = Users /\ UNCHANGED <<stage, moved, crashed>>
    BY DEF CloseCompletes, ReqTyped, AnsweredOnce, Users, reqVars
<1>4. ExclusiveUse'
    BY <1>3 DEF ReqTyped, ExclusiveUse, PostedInv, CloseInv,
           CloseCompletes, reqVars, Finish, Await, Reconnecting, Transfers
<1>5. PostedInv'
    BY <1>3 DEF ReqTyped, ConnTyped, ExclusiveUse, PostedInv, CloseInv, Users,
           CloseCompletes, reqVars, Finish, Await, Reconnecting, Transfers
<1>6. ContextInv'
    BY <1>3 DEF ReqTyped, ContextInv, ExclusiveUse, PostedInv, CloseInv, Users,
           CloseCompletes, reqVars, Finish, Await, Reconnecting, Transfers
<1>7. CloseInv'
    BY <1>3 DEF ReqTyped, CloseInv, PostedInv, ContextInv, ExclusiveUse, Users,
           CloseCompletes, reqVars, Finish, Await, Reconnecting, Transfers
<1>8. MovedInv'
    BY <1>3 DEF ReqTyped, MovedInv, ExclusiveUse, Users,
           CloseCompletes, reqVars, Finish, Await, Reconnecting, Transfers
<1>9. BusyHasReason'
    BY <1>3 DEF ReqTyped, BusyHasReason, CloseInv,
           CloseCompletes, reqVars, Finish, Await, Reconnecting, Transfers
<1> QED
    BY <1>1, <1>2, <1>3, <1>4, <1>5, <1>6, <1>7, <1>8, <1>9
    DEF TypeOK, FlagsTyped, ConnTyped, ReqTyped, Result

\* The response has been received.
LEMMA RecvMessageDonePreserves ==
    ASSUME IInv, NEW r \in Requests, NEW ok \in BOOLEAN, RecvMessageDone(r, ok)
    PROVE  IInv'
<1> USE ConnectionPoolAssumption, TypeOKParts DEF IInv
<1>1. FlagsTyped'
    BY Zenon DEF FlagsTyped, RecvMessageDone, Completes, NullContext, connVars, closeVars,
           reqVars
<1>2. ConnTyped'
    BY DEF ConnTyped, MovedInv, ReqTyped, ExclusiveUse, Users, RecvMessageDone, Completes,
           NullContext, connVars, closeVars, reqVars, Finish, Await, Reconnecting, Transfers
<1>3. /\ ReqTyped' /\ AnsweredOnce' /\ r \in Users
      /\ \/ NullContext /\ ~hasCtx /\ Users' = Users
         \/ /\ \E answer \in Result : Finish(r, state', answer)
            /\ Users' = Users \ {r}
    <2>1. r \in Users /\ stage[r] # "done"
        BY DEF RecvMessageDone, Completes, Users, Transfers
    <2>2. CASE ~hasCtx
        <3>1. NullContext
            BY <2>2, Zenon DEF RecvMessageDone
        <3> QED
            BY <2>1, <2>2, <3>1 DEF NullContext, ReqTyped, AnsweredOnce, Users, reqVars
    <2>3. CASE hasCtx
        <3>1. PICK answer \in Result : Finish(r, state', answer)
            BY <2>3 DEF RecvMessageDone, Finish, Result
        <3> QED
            BY <2>1, <3>1, FinishOnce
    <2> QED
        BY <2>2, <2>3
<1>4. ExclusiveUse'
    BY <1>3 DEF ReqTyped, ExclusiveUse, PostedInv, CloseInv,
           RecvMessageDone, Completes, NullContext, connVars, closeVars, reqVars, Finish, Await,
           Reconnecting, Transfers
<1>5. PostedInv'
    BY <1>3 DEF ReqTyped, ConnTyped, ExclusiveUse, PostedInv, CloseInv, Users,
           RecvMessageDone, Completes, NullContext, connVars, closeVars, reqVars, Finish, Await,
           Reconnecting, Transfers
<1>6. ContextInv'
    BY <1>3 DEF ReqTyped, ContextInv, ExclusiveUse, PostedInv, CloseInv, Users,
           RecvMessageDone, Completes, NullContext, connVars, closeVars, reqVars, Finish, Await,
           Reconnecting, Transfers
<1>7. CloseInv'
    BY <1>3 DEF ReqTyped, CloseInv, PostedInv, ContextInv, ExclusiveUse, Users,
           RecvMessageDone, Completes, NullContext, connVars, closeVars, reqVars, Finish, Await,
           Reconnecting, Transfers
<1>8. MovedInv'
    BY <1>3 DEF ReqTyped, MovedInv, ExclusiveUse, Users,
           RecvMessageDone, Completes, NullContext, connVars, closeVars, reqVars, Finish, Await,
           Reconnecting, Transfers
<1>9. BusyHasReason'
    BY <1>3 DEF ReqTyped, BusyHasReason, CloseInv,
           RecvMessageDone, Completes, NullContext, connVars, closeVars, reqVars, Finish, Await,
           Reconnecting, Transfers
<1> QED
    BY <1>1, <1>2, <1>3, <1>4, <1>5, <1>6, <1>7, <1>8, <1>9
    DEF TypeOK, FlagsTyped, ConnTyped, ReqTyped, Result

\* The header of the response has been received, or not.
LEMMA RecvHeaderDonePreserves ==
    ASSUME IInv, NEW r \in Requests, NEW answer \in {"ok", "failed", "tooBig"},
           RecvHeaderDone(r, answer)
    PROVE  IInv'
<1> USE ConnectionPoolAssumption, TypeOKParts DEF IInv
<1>1. FlagsTyped'
    BY Zenon DEF FlagsTyped, RecvHeaderDone, Completes, NullContext, connVars, closeVars,
           reqVars
<1>2. ConnTyped'
    BY DEF ConnTyped, MovedInv, ReqTyped, ExclusiveUse, Users, RecvHeaderDone, Completes,
           NullContext, connVars, closeVars, reqVars, Finish, Await, Reconnecting, Transfers
<1>3. /\ ReqTyped' /\ AnsweredOnce' /\ r \in Users
      /\ \/ NullContext /\ ~hasCtx /\ Users' = Users
         \/ Finish(r, state', answer) /\ hasCtx /\ Users' = Users \ {r}
         \/ Await(r, "recvMessage") /\ hasCtx /\ Users' = Users \cup {r}
    <2>1. r \in Users /\ stage[r] # "done"
        BY DEF RecvHeaderDone, Completes, Users, Transfers
    <2>2. CASE ~hasCtx
        <3>1. NullContext
            BY <2>2, Zenon DEF RecvHeaderDone
        <3> QED
            BY <2>1, <2>2, <3>1 DEF NullContext, ReqTyped, AnsweredOnce, Users, reqVars
    <2>3. CASE hasCtx
        <3>1. Finish(r, state', answer) \/ Await(r, "recvMessage")
            BY <2>3 DEF RecvHeaderDone, Finish
        <3>2. answer \in Result /\ "recvMessage" \in Transfers
            BY DEF Result, Transfers
        <3> QED
            BY <2>1, <2>3, <3>1, <3>2, FinishOnce, AwaitUses
    <2> QED
        BY <2>2, <2>3
<1>4. ExclusiveUse'
    BY <1>3 DEF ReqTyped, ExclusiveUse, PostedInv, CloseInv,
           RecvHeaderDone, Completes, NullContext, connVars, closeVars, reqVars, Finish, Await,
           Reconnecting, Transfers
<1>5. PostedInv'
    BY <1>3 DEF ReqTyped, ConnTyped, ExclusiveUse, PostedInv, CloseInv, Users,
           RecvHeaderDone, Completes, NullContext, connVars, closeVars, reqVars, Finish, Await,
           Reconnecting, Transfers
<1>6. ContextInv'
    BY <1>3 DEF ReqTyped, ContextInv, ExclusiveUse, PostedInv, CloseInv, Users,
           RecvHeaderDone, Completes, NullContext, connVars, closeVars, reqVars, Finish, Await,
           Reconnecting, Transfers
<1>7. CloseInv'
    BY <1>3 DEF ReqTyped, CloseInv, PostedInv, ContextInv, ExclusiveUse, Users,
           RecvHeaderDone, Completes, NullContext, connVars, closeVars, reqVars, Finish, Await,
           Reconnecting, Transfers
<1>8. MovedInv'
    BY <1>3 DEF ReqTyped, MovedInv, ExclusiveUse, Users,
           RecvHeaderDone, Completes, NullContext, connVars, closeVars, reqVars, Finish, Await,
           Reconnecting, Transfers
<1>9. BusyHasReason'
    BY <1>3 DEF ReqTyped, BusyHasReason, CloseInv,
           RecvHeaderDone, Completes, NullContext, connVars, closeVars, reqVars, Finish, Await,
           Reconnecting, Transfers
<1> QED
    BY <1>1, <1>2, <1>3, <1>4, <1>5, <1>6, <1>7, <1>8, <1>9
    DEF TypeOK, FlagsTyped, ConnTyped, ReqTyped, Result

\* The message has been sent, or not.
LEMMA SendMessageDonePreserves ==
    ASSUME IInv, NEW r \in Requests, NEW ok \in BOOLEAN, SendMessageDone(r, ok)
    PROVE  IInv'
<1> USE ConnectionPoolAssumption, TypeOKParts DEF IInv
<1>1. FlagsTyped'
    BY Zenon DEF FlagsTyped, SendMessageDone, Completes, NullContext, FinishMoved,
           EmptyCallback,
           connVars, closeVars, reqVars
<1>2. ConnTyped'
    BY DEF ConnTyped, MovedInv, ReqTyped, ExclusiveUse, Users, SendMessageDone, Completes,
           NullContext, FinishMoved, EmptyCallback,
           connVars, closeVars, reqVars, Finish, Await, Reconnecting, Transfers
<1>3. /\ ReqTyped' /\ AnsweredOnce' /\ r \in Users
      /\ \/ NullContext /\ ~hasCtx /\ Users' = Users
         \/ /\ hasCtx /\ r \in moved /\ crashed' = "emptyCallback" /\ UNCHANGED reqVars
            /\ Users' = Users
         \/ /\ hasCtx /\ r \notin moved /\ Users' = Users \ {r}
            /\ \E answer \in Result : Finish(r, state', answer)
         \/ hasCtx /\ r \notin moved /\ Await(r, "recvHeader") /\ Users' = Users \cup {r}
    <2>1. r \in Users /\ stage[r] # "done"
        BY DEF SendMessageDone, Completes, Users, Transfers
    <2>2. CASE ~hasCtx
        <3>1. NullContext
            BY <2>2, Zenon DEF SendMessageDone
        <3> QED
            BY <2>1, <2>2, <3>1 DEF NullContext, ReqTyped, AnsweredOnce, Users, reqVars
    <2>3. CASE hasCtx
        <3>1. CASE \E answer \in Result : FinishMoved(r, state', answer)
            BY <2>1, <2>3, <3>1, FinishMovedOnce
        <3>2. CASE r \notin moved /\ Await(r, "recvHeader")
            BY <2>1, <2>3, <3>2, AwaitUses DEF Transfers
        <3>3. FinishMoved(r, "Error", "failed") => FinishMoved(r, state', "failed")
            BY DEF FinishMoved, Finish, EmptyCallback
        <3>4. FinishMoved(r, "Ready", "aborted") => FinishMoved(r, state', "aborted")
            BY DEF FinishMoved, Finish, EmptyCallback
        <3> QED
            BY <2>3, <3>1, <3>2, <3>3, <3>4 DEF SendMessageDone, Result
    <2> QED
        BY <2>2, <2>3
<1>4. ExclusiveUse'
    BY <1>3 DEF ReqTyped, ExclusiveUse, PostedInv, CloseInv,
           SendMessageDone, Completes, NullContext, FinishMoved, EmptyCallback,
           connVars, closeVars, reqVars, Finish, Await, Reconnecting, Transfers
<1>5. PostedInv'
    BY <1>3 DEF ReqTyped, ConnTyped, ExclusiveUse, PostedInv, CloseInv, Users,
           SendMessageDone, Completes, NullContext, FinishMoved, EmptyCallback,
           connVars, closeVars, reqVars, Finish, Await, Reconnecting, Transfers
<1>6. ContextInv'
    BY <1>3 DEF ReqTyped, ContextInv, ExclusiveUse, PostedInv, CloseInv, Users,
           SendMessageDone, Completes, NullContext, FinishMoved, EmptyCallback,
           connVars, closeVars, reqVars, Finish, Await, Reconnecting, Transfers
<1>7. CloseInv'
    BY <1>3 DEF ReqTyped, CloseInv, PostedInv, ContextInv, ExclusiveUse, Users,
           SendMessageDone, Completes, NullContext, FinishMoved, EmptyCallback,
           connVars, closeVars, reqVars, Finish, Await, Reconnecting, Transfers
<1>8. MovedInv'
    <2>1. UNCHANGED sendTriesCount
        BY DEF SendMessageDone, NullContext, connVars
    <2> QED
        BY <1>3, <2>1 DEF ReqTyped, MovedInv, ExclusiveUse, Users, NullContext,
               Completes, SendMessageDone, reqVars, Finish, Await, Reconnecting, Transfers
<1>9. BusyHasReason'
    BY <1>3 DEF ReqTyped, BusyHasReason, CloseInv,
           SendMessageDone, Completes, NullContext, FinishMoved, EmptyCallback,
           connVars, closeVars, reqVars, Finish, Await, Reconnecting, Transfers
<1> QED
    BY <1>1, <1>2, <1>3, <1>4, <1>5, <1>6, <1>7, <1>8, <1>9
    DEF TypeOK, FlagsTyped, ConnTyped, ReqTyped, Result

\* The header has been sent, or the program ends, or a second try begins.
LEMMA SendHeaderDonePreserves ==
    ASSUME IInv, NEW r \in Requests, NEW ok \in BOOLEAN, SendHeaderDone(r, ok)
    PROVE  IInv'
<1> USE ConnectionPoolAssumption, TypeOKParts DEF IInv
<1>1. FlagsTyped'
    BY Zenon DEF FlagsTyped, SendHeaderDone, Completes, NullContext, EmptyCallback, connVars,
           closeVars, reqVars
<1>2. ConnTyped'
    BY DEF ConnTyped, MovedInv, ReqTyped, ExclusiveUse, Users, SendHeaderDone, Completes,
           NullContext, EmptyCallback, connVars, closeVars, reqVars, Finish, Await,
           Reconnecting, Transfers
<1>3. /\ ReqTyped' /\ AnsweredOnce' /\ r \in Users /\ Users' = Users
    <2>1. r \in Users /\ stage[r] # "done"
        BY DEF SendHeaderDone, Completes, Users, Transfers
    <2>2. CASE ~hasCtx
        <3>1. NullContext
            BY <2>2, Zenon DEF SendHeaderDone
        <3> QED
            BY <2>1, <2>2, <3>1 DEF NullContext, ReqTyped, AnsweredOnce, Users, reqVars
    <2>3. CASE hasCtx
        <3>1. CASE Await(r, "sendMessage")
            BY <2>1, <3>1, AwaitUses DEF Transfers
        <3>2. CASE EmptyCallback("Error")
            BY <2>1, <3>2 DEF EmptyCallback, reqVars, ReqTyped, AnsweredOnce, Users
        <3>3. CASE /\ stage' = [stage EXCEPT ![r] = "close"] /\ moved' = moved \cup {r}
                   /\ UNCHANGED <<answers, crashed>>
            BY <2>1, <3>3 DEF ReqTyped, AnsweredOnce, Users, Reconnecting, Transfers
        <3> QED
            BY <2>3, <3>1, <3>2, <3>3 DEF SendHeaderDone
    <2> QED
        BY <2>2, <2>3
<1>4. ExclusiveUse'
    BY <1>3 DEF ReqTyped, ExclusiveUse, PostedInv, CloseInv,
           SendHeaderDone, Completes, NullContext, EmptyCallback, connVars, closeVars, reqVars,
           Finish, Await, Reconnecting, Transfers
<1>5. PostedInv'
    BY <1>3 DEF ReqTyped, ConnTyped, ExclusiveUse, PostedInv, CloseInv, Users,
           SendHeaderDone, Completes, NullContext, EmptyCallback, connVars, closeVars, reqVars,
           Finish, Await, Reconnecting, Transfers
<1>6. ContextInv'
    BY <1>3 DEF ReqTyped, ContextInv, ExclusiveUse, PostedInv, CloseInv, Users,
           SendHeaderDone, Completes, NullContext, EmptyCallback, connVars, closeVars, reqVars,
           Finish, Await, Reconnecting, Transfers
<1>7. CloseInv'
    BY <1>3 DEF ReqTyped, CloseInv, PostedInv, ContextInv, ExclusiveUse, Users,
           SendHeaderDone, Completes, NullContext, EmptyCallback, connVars, closeVars, reqVars,
           Finish, Await, Reconnecting, Transfers
<1>8. MovedInv'
    BY <1>3 DEF ReqTyped, MovedInv, ExclusiveUse, Users,
           SendHeaderDone, Completes, NullContext, EmptyCallback, connVars, closeVars, reqVars,
           Finish, Await, Reconnecting, Transfers
<1>9. BusyHasReason'
    BY <1>3 DEF ReqTyped, BusyHasReason, CloseInv,
           SendHeaderDone, Completes, NullContext, EmptyCallback, connVars, closeVars, reqVars,
           Finish, Await, Reconnecting, Transfers
<1> QED
    BY <1>1, <1>2, <1>3, <1>4, <1>5, <1>6, <1>7, <1>8, <1>9
    DEF TypeOK, FlagsTyped, ConnTyped, ReqTyped, Result

\* The continuation of closeConnection finds the connection taken, or takes it.
LEMMA ReconnectPreserves ==
    ASSUME IInv, NEW r \in Requests, Reconnect(r)
    PROVE  IInv'
<1> USE ConnectionPoolAssumption, TypeOKParts DEF IInv
<1>1. FlagsTyped'
    BY Zenon DEF FlagsTyped, Reconnect, Completes, FinishMoved, EmptyCallback, connVars,
           closeVars, reqVars
<1>2. ConnTyped'
    BY DEF ConnTyped, MovedInv, ReqTyped, ExclusiveUse, Users, Reconnect, Completes,
           FinishMoved, EmptyCallback, connVars, closeVars, reqVars, Finish, Await,
           Reconnecting, Transfers
<1>3. /\ ReqTyped' /\ AnsweredOnce' /\ r \notin Users
      /\ \/ /\ state = "Busy" /\ state' = "Busy" /\ r \in moved
            /\ crashed' = "emptyCallback" /\ UNCHANGED reqVars /\ Users' = Users
         \/ /\ state = "Busy" /\ r \notin moved /\ Finish(r, "Busy", "busy")
            /\ Users' = Users \ {r}
         \/ state # "Busy" /\ Await(r, "connect") /\ Users' = Users \cup {r}
    <2>1. r \notin Users /\ stage[r] # "done" /\ "busy" \in Result
        BY DEF Reconnect, Completes, Users, Transfers, Result
    <2> QED
        BY <2>1, FinishMovedOnce, AwaitUses DEF Reconnect
<1>4. ExclusiveUse'
    BY <1>3 DEF ReqTyped, ExclusiveUse, PostedInv, CloseInv,
           Reconnect, Completes, FinishMoved, EmptyCallback, connVars, closeVars, reqVars,
           Finish, Await, Reconnecting, Transfers
<1>5. PostedInv'
    BY <1>3 DEF ReqTyped, PostedInv, Reconnect, Completes, Finish, Await, reqVars, Users
<1>6. ContextInv'
    BY <1>3 DEF ReqTyped, ContextInv, ExclusiveUse, PostedInv, CloseInv, Users,
           Reconnect, Completes, FinishMoved, EmptyCallback, connVars, closeVars, reqVars,
           Finish, Await, Reconnecting, Transfers
<1>7. CloseInv'
    BY <1>3 DEF ReqTyped, CloseInv, PostedInv, ContextInv, ExclusiveUse, Users,
           Reconnect, Completes, FinishMoved, EmptyCallback, connVars, closeVars, reqVars,
           Finish, Await, Reconnecting, Transfers
<1>8. MovedInv'
    <2>1. r \in Requests /\ stage[r] = "closed" /\ crashed = "no" /\ UNCHANGED sendTriesCount
        BY DEF Reconnect, Completes
    <2> QED
        BY <1>3, <2>1 DEF ReqTyped, MovedInv, Finish, Await, reqVars, Reconnecting, Transfers
<1>9. BusyHasReason'
    BY <1>3 DEF ReqTyped, BusyHasReason, CloseInv,
           Reconnect, Completes, FinishMoved, EmptyCallback, connVars, closeVars, reqVars,
           Finish, Await, Reconnecting, Transfers
<1> QED
    BY <1>1, <1>2, <1>3, <1>4, <1>5, <1>6, <1>7, <1>8, <1>9
    DEF TypeOK, FlagsTyped, ConnTyped, ReqTyped, Result

\* connect has ended: the request is sent, refused or called back.
LEMMA ConnectDonePreserves ==
    ASSUME IInv, NEW r \in Requests, ConnectDone(r)
    PROVE  IInv'
<1> USE ConnectionPoolAssumption, TypeOKParts DEF IInv
<1>1. FlagsTyped'
    BY Zenon DEF FlagsTyped, ConnectDone, Completes, sendToConnection, FinishMoved,
           EmptyCallback,
           connVars, closeVars, reqVars
<1>2. ConnTyped'
    BY DEF ConnTyped, MovedInv, ReqTyped, ExclusiveUse, Users, ConnectDone, Completes,
           sendToConnection, FinishMoved, EmptyCallback,
           connVars, closeVars, reqVars, Finish, Await, Reconnecting, Transfers
<1>3. /\ ReqTyped' /\ AnsweredOnce' /\ r \in Users
      /\ \/ /\ state' = "Disconnected" /\ r \in moved /\ crashed' = "emptyCallback"
            /\ UNCHANGED reqVars /\ Users' = Users
         \/ r \notin moved /\ Finish(r, "Disconnected", "failed") /\ Users' = Users \ {r}
         \/ /\ r \notin moved /\ r \in Oversized /\ Finish(r, "Busy", "tooBig")
            /\ wedged' = TRUE /\ hasCtx' = TRUE /\ Users' = Users \ {r}
         \/ /\ r \notin Oversized /\ Await(r, "sendHeader") /\ hasCtx' = TRUE
            /\ Users' = Users \cup {r}
    <2>1. r \in Users /\ stage[r] # "done"
        BY DEF ConnectDone, Completes, Users
    <2>2. CASE FinishMoved(r, "Disconnected", "failed")
        BY <2>1, <2>2, FinishMovedOnce DEF Result
    <2>3. CASE sendToConnection(r) /\ hasCtx' = TRUE
        <3>1. r \in Oversized => r \notin moved
            BY DEF MovedInv
        <3> QED
            BY <2>1, <2>3, <3>1, FinishMovedOnce, AwaitUses DEF sendToConnection, Result,
            Transfers
    <2> QED
        BY <2>2, <2>3 DEF ConnectDone
<1>4. ExclusiveUse'
    BY <1>3 DEF ReqTyped, ExclusiveUse, PostedInv, CloseInv,
           ConnectDone, Completes, sendToConnection, FinishMoved, EmptyCallback,
           connVars, closeVars, reqVars, Finish, Await, Reconnecting, Transfers
<1>5. PostedInv'
    BY <1>3 DEF ReqTyped, ConnTyped, ExclusiveUse, PostedInv, CloseInv, Users,
           ConnectDone, Completes, sendToConnection, FinishMoved, EmptyCallback,
           connVars, closeVars, reqVars, Finish, Await, Reconnecting, Transfers
<1>6. ContextInv'
    BY <1>3 DEF ReqTyped, ContextInv, ExclusiveUse, PostedInv, CloseInv, Users,
           ConnectDone, Completes, sendToConnection, FinishMoved, EmptyCallback,
           connVars, closeVars, reqVars, Finish, Await, Reconnecting, Transfers
<1>7. CloseInv'
    BY <1>3 DEF ReqTyped, CloseInv, PostedInv, ContextInv, ExclusiveUse, Users,
           ConnectDone, Completes, sendToConnection, FinishMoved, EmptyCallback,
           connVars, closeVars, reqVars, Finish, Await, Reconnecting, Transfers
<1>8. MovedInv'
    <2>1. /\ stage[r] = "connect" /\ crashed = "no"
          /\ \/ r \notin moved /\ UNCHANGED sendTriesCount
             \/ r \in moved
        BY DEF ConnectDone, Completes
    <2> QED
        BY <1>3, <2>1 DEF ReqTyped, MovedInv, Finish, Await, reqVars, Reconnecting, Transfers
<1>9. BusyHasReason'
    BY <1>3 DEF ReqTyped, BusyHasReason, CloseInv,
           ConnectDone, Completes, sendToConnection, FinishMoved, EmptyCallback,
           connVars, closeVars, reqVars, Finish, Await, Reconnecting, Transfers
<1> QED
    BY <1>1, <1>2, <1>3, <1>4, <1>5, <1>6, <1>7, <1>8, <1>9
    DEF TypeOK, FlagsTyped, ConnTyped, ReqTyped, Result

\* A new request is refused or takes the connection, which nobody uses.
LEMMA SendPreserves ==
    ASSUME IInv, NEW r \in Requests, Send(r)
    PROVE  IInv'
<1> USE ConnectionPoolAssumption, TypeOKParts DEF IInv
<1>1. FlagsTyped'
    BY Zenon DEF FlagsTyped, Send, sendToConnection, FinishMoved, EmptyCallback, connVars,
           closeVars, reqVars
<1>2. ConnTyped'
    BY DEF ConnTyped, MovedInv, ReqTyped, ExclusiveUse, Users, Send, sendToConnection,
           FinishMoved, EmptyCallback, connVars, closeVars, reqVars, Finish, Await,
           Reconnecting, Transfers
<1>3. /\ ReqTyped' /\ AnsweredOnce' /\ r \notin Users /\ r \notin moved
      /\ crashed = "no" /\ stage[r] = "new"
      /\ \/ /\ m_closed \/ state = "Busy"
            /\ \E answer \in Result : Finish(r, state, answer)
            /\ Users' = Users \ {r} /\ UNCHANGED wedged
         \/ /\ ~m_closed /\ state = "Ready" /\ Finish(r, "Busy", "tooBig")
            /\ wedged' = TRUE /\ Users' = Users \ {r}
         \/ /\ ~m_closed /\ state = "Ready" /\ r \notin Oversized
            /\ Await(r, "sendHeader") /\ Users' = Users \cup {r} /\ UNCHANGED wedged
         \/ /\ ~m_closed /\ state = "Disconnected" /\ Await(r, "connect")
            /\ Users' = Users \cup {r} /\ UNCHANGED wedged
         \/ /\ ~m_closed /\ state = "Error" /\ Await(r, "close")
            /\ Users' = Users \cup {r} /\ UNCHANGED wedged
    <2>1. /\ r \notin Users /\ stage[r] # "done" /\ r \notin moved /\ crashed = "no"
          /\ stage[r] = "new"
        BY DEF Send, Users, MovedInv, Reconnecting, Transfers
    <2>2. ASSUME NEW answer \in Result, NEW st, Finish(r, st, answer)
          PROVE  ReqTyped' /\ AnsweredOnce' /\ Users' = Users \ {r}
        BY <2>1, <2>2, FinishOnce
    <2>3. ASSUME NEW op \in {"connect", "close"} \cup Transfers, Await(r, op)
          PROVE  ReqTyped' /\ AnsweredOnce' /\ Users' = Users \cup {r}
        BY <2>1, <2>3, AwaitUses
    <2> QED
        BY <2>1, <2>2, <2>3 DEF Send, sendToConnection, FinishMoved, Result, Transfers
<1>4. ExclusiveUse'
    BY <1>3 DEF ReqTyped, ExclusiveUse, PostedInv, CloseInv,
           Send, sendToConnection, FinishMoved, EmptyCallback, connVars, closeVars, reqVars,
           Finish, Await, Reconnecting, Transfers
<1>5. PostedInv'
    <2>1. UNCHANGED hasCtx
        BY DEF Send
    <2>2. state = "Busy" \/ m_closed \/ Users = {}
        BY <1>3 DEF ExclusiveUse
    <2> QED
        BY <1>3, <2>1, <2>2 DEF ReqTyped, PostedInv, ContextInv, Finish, Await, Users, Transfers
<1>6. ContextInv'
    BY <1>3 DEF ReqTyped, ContextInv, ExclusiveUse, PostedInv, CloseInv, Users,
           Send, sendToConnection, FinishMoved, EmptyCallback, connVars, closeVars, reqVars,
           Finish, Await, Reconnecting, Transfers
<1>7. CloseInv'
    BY <1>3 DEF ReqTyped, CloseInv, PostedInv, ContextInv, ExclusiveUse, Users,
           Send, sendToConnection, FinishMoved, EmptyCallback, connVars, closeVars, reqVars,
           Finish, Await, Reconnecting, Transfers
<1>8. MovedInv'
    <2>1. UNCHANGED sendTriesCount
        BY DEF Send
    <2> QED
        BY <1>3, <2>1 DEF ReqTyped, MovedInv, Finish, Await, Reconnecting, Transfers
<1>9. BusyHasReason'
    BY <1>3 DEF ReqTyped, BusyHasReason, CloseInv,
           Send, sendToConnection, FinishMoved, EmptyCallback, connVars, closeVars, reqVars,
           Finish, Await, Reconnecting, Transfers
<1> QED
    BY <1>1, <1>2, <1>3, <1>4, <1>5, <1>6, <1>7, <1>8, <1>9
    DEF TypeOK, FlagsTyped, ConnTyped, ReqTyped, Result

(***************************************************************************)
(* The theorems                                                             *)
(***************************************************************************)

\* A pool that has never been used.
LEMMA InitInv == Init => IInv
<1> SUFFICES ASSUME Init PROVE IInv
    OBVIOUS
<1>1. FlagsTyped
    BY Zenon DEF Init, FlagsTyped
<1>2. ConnTyped /\ ReqTyped /\ AnsweredOnce
    BY DEF Init, ConnTyped, ReqTyped, Result, AnsweredOnce
<1>3. Users = {}
    BY DEF Init, Users, Transfers
<1> QED
    BY <1>1, <1>2, <1>3, TypeOKParts
    DEF Init, IInv, ExclusiveUse, PostedInv, ContextInv, CloseInv, MovedInv, BusyHasReason,
        Transfers

\* One step, by the lemma of its action.
LEMMA NextInv == IInv /\ [Next]_vars => IInv'
<1> SUFFICES ASSUME IInv, [Next]_vars PROVE IInv'
    OBVIOUS
<1>1. ASSUME NEW r \in Requests, Completion(r) PROVE IInv'
    BY <1>1, ConnectDonePreserves, CloseDonePreserves, ReconnectPreserves,
       SendHeaderDonePreserves, SendMessageDonePreserves, RecvHeaderDonePreserves,
       RecvMessageDonePreserves
    DEF Completion
<1>2. CASE UNCHANGED vars
    BY <1>2 DEF vars, connVars, closeVars, reqVars, IInv, TypeOK, ExclusiveUse, PostedInv,
        ContextInv, CloseInv, MovedInv, BusyHasReason, AnsweredOnce, Users
<1> QED
    BY <1>1, <1>2, SendPreserves, ClosePreserves, CloseCompletesPreserves DEF Next

\* The conjunction is an invariant of the pool.
THEOREM PoolInvariant == Spec => []IInv
BY InitInv, NextInv, PTL DEF Spec

\* Every variable keeps its type; in particular a request is tried at most
\* twice (sendTriesCount in sendHeaderCb).
THEOREM TypeCorrect == Spec => []TypeOK
<1>1. IInv => TypeOK
    BY DEF IInv
<1> QED
    BY <1>1, PoolInvariant, PTL

\* One request at a time uses the connection between canSend() and the end of
\* recv(), and the window that closeConnection leaves between cb1 and what it
\* posts does not let a second one in.
THEOREM UseIsExclusive == Spec => []ExclusiveUse
<1>1. IInv => ExclusiveUse
    BY DEF IInv
<1> QED
    BY <1>1, PoolInvariant, PTL

\* canSend() is false only while somebody uses or closes the connection, or
\* for good after one of the two requests that leave it Busy.
THEOREM BusyIsExplained == Spec => []BusyHasReason
<1>1. IInv => BusyHasReason
    BY DEF IInv
<1> QED
    BY <1>1, PoolInvariant, PTL

\* The callback of send() is called exactly once, when the request is done
\* with, whatever fails and however often the connection is reopened.
THEOREM CalledBackOnce == Spec => []AnsweredOnce
<1>1. IInv => AnsweredOnce
    BY DEF IInv
<1> QED
    BY <1>1, PoolInvariant, PTL

\* A completion handler finds no ConnectionContext::ctx only after close():
\* reconnecting alone never takes the context from under a transfer.
THEOREM ContextLostOnlyByClose == Spec => [](crashed = "nullContext" => m_closed)
<1>1. IInv => (crashed = "nullContext" => m_closed)
    BY DEF IInv, ContextInv
<1> QED
    BY <1>1, PoolInvariant, PTL

(***************************************************************************)
(* CaResolver: every query runs once                                        *)
(***************************************************************************)

\* Where a query is agrees with the tasks, and only a query that is over has
\* called its callback.
Waits(queue, q) == \E i \in 1..Len(queue) : queue[i] = q

RunInv ==
    /\ place \in [Queries -> {"caller", "posted", "asked", "over"}]
    /\ tasks \in Seq(Queries) /\ DOMAIN result = Queries
    /\ \A i, j \in 1..Len(tasks) : tasks[i] = tasks[j] => i = j
    /\ \A q \in Queries :
         /\ place[q] = "posted" <=> Waits(tasks, q)
         /\ \/ result[q] = <<>>
            \/ place[q] = "over" /\ \E c : result[q] = <<c>>

\* What the end of a step may be.
IsOutcome(o) ==
    /\ o.to \in {"posted", "asked", "over"}
    /\ \/ o.calls = <<>>
       \/ o.to = "over" /\ \E c : o.calls = <<c>>

LEMMA OutcomeIs ==
    ASSUME NEW d, NEW t \in {"posted", "asked", "over"}, NEW c
    PROVE  /\ IsOutcome([d |-> d, to |-> t, calls |-> <<>>])
           /\ IsOutcome([d |-> d, to |-> "over", calls |-> <<c>>])
<1> DEFINE a == [d |-> d, to |-> t, calls |-> <<>>]
           b == [d |-> d, to |-> "over", calls |-> <<c>>]
<1>1. a.to = t /\ a.calls = <<>>
    OBVIOUS
<1>2. b.to = "over" /\ b.calls = <<c>>
    OBVIOUS
<1> HIDE DEF a, b
<1>3. IsOutcome(a)
    <2>1. a.to \in {"posted", "asked", "over"}
        BY <1>1
    <2> QED
        BY <1>1, <2>1, Zenon DEF IsOutcome
<1>4. IsOutcome(b)
    <2>1. \E e : b.calls = <<e>>
        BY <1>2
    <2> QED
        BY <1>2, <2>1 DEF IsOutcome
<1> QED
    BY <1>3, <1>4 DEF a, b

LEMMA EndedIs ==
    ASSUME NEW d, NEW c
    PROVE  IsOutcome(Ended(d, <<>>)) /\ IsOutcome(Ended(d, <<c>>))
<1>1. /\ Ended(d, <<>>) = [d |-> [d EXCEPT !.ref = FALSE], to |-> "over", calls |-> <<>>]
      /\ Ended(d, <<c>>) = [d |-> [d EXCEPT !.ref = FALSE], to |-> "over", calls |-> <<c>>]
    BY DEF Ended
<1> QED
    BY <1>1, OutcomeIs, Zenon

LEMMA ProcessQueryIs ==
    ASSUME NEW q, NEW d
    PROVE  IsOutcome(ProcessQuery(q, d))
<1> DEFINE o == [d |-> d, to |-> "posted", calls |-> <<>>]
<1>1. IsOutcome(o)
    BY OutcomeIs
<1>2. ProcessQuery(q, d) \in {Ended(d, <<>>), Ended(d, <<Aborted>>), o}
    BY DEF ProcessQuery
<1> HIDE DEF o
<1> QED
    BY <1>1, <1>2, EndedIs

LEMMA StepOutcomeIs ==
    ASSUME NEW q, NEW d
    PROVE  IsOutcome(StepOutcome(q, d))
<1>1. IsOutcome(StepDone(d))
    BY EndedIs DEF StepDone
<1>2. IsOutcome(AresQuery(d))
    BY OutcomeIs DEF AresQuery
<1>3. \/ \E e : StepOutcome(q, d) = ProcessQuery(q, e)
      \/ StepOutcome(q, d) \in {StepDone(d), AresQuery(d)}
    BY DEF StepOutcome
<1> QED
    BY <1>1, <1>2, <1>3, ProcessQueryIs

\* A step of a query that is not, or no longer, among the tasks.
LEMMA ApplyKeeps ==
    ASSUME RunInv, NEW q \in Queries, result[q] = <<>>, NEW o, IsOutcome(o),
           NEW rest \in Seq(Queries),
           \A i, j \in 1..Len(rest) : rest[i] = rest[j] => i = j,
           \A p \in Queries : Waits(rest, p) <=> p # q /\ Waits(tasks, p),
           Apply(q, o, rest)
    PROVE  RunInv'
<1>1. /\ place \in [Queries -> {"caller", "posted", "asked", "over"}]
      /\ DOMAIN result = Queries
      /\ o.to \in {"posted", "asked", "over"}
    BY DEF RunInv, IsOutcome
<1>2. /\ place' = [place EXCEPT ![q] = o.to]
      /\ result' = [result EXCEPT ![q] = @ \o o.calls]
      /\ tasks' = IF o.to = "posted" THEN Append(rest, q) ELSE rest
    BY DEF Apply
<1>3. place' \in [Queries -> {"caller", "posted", "asked", "over"}] /\ DOMAIN result' = Queries
    BY <1>1, <1>2
<1>4. ASSUME NEW p \in Queries
      PROVE  \/ result'[p] = <<>>
             \/ place'[p] = "over" /\ \E c : result'[p] = <<c>>
    <2>1. CASE p = q
        <3>1. result'[p] = <<>> \o o.calls /\ place'[p] = o.to
            BY <1>1, <1>2, <2>1
        <3>2. <<>> \o <<>> = <<>> /\ \A c : <<>> \o <<c>> = <<c>>
            OBVIOUS
        <3> QED
            BY <3>1, <3>2 DEF IsOutcome
    <2>2. CASE p # q
        <3>1. result'[p] = result[p] /\ place'[p] = place[p]
            BY <1>1, <1>2, <2>2
        <3> QED
            BY <3>1 DEF RunInv
    <2> QED
        BY <2>1, <2>2
<1>5. CASE o.to = "posted"
    <2> DEFINE t == Append(rest, q)
    <2>1. /\ t \in Seq(Queries) /\ Len(t) = Len(rest) + 1 /\ t[Len(rest) + 1] = q
          /\ \A i \in 1..Len(rest) : t[i] = rest[i]
          /\ Len(rest) \in Nat
        BY AppendProperties
    <2> HIDE DEF t
    <2>2. \A i \in 1..Len(rest) : rest[i] # q
        BY DEF Waits
    <2>3. \A i \in 1..(Len(rest) + 1) : i \in 1..Len(rest) \/ i = Len(rest) + 1
        BY <2>1
    <2>4. \A i, j \in 1..Len(t) : t[i] = t[j] => i = j
        BY <2>1, <2>2, <2>3
    <2>5. Waits(t, q)
        <3>1. Len(rest) + 1 \in 1..Len(t)
            BY <2>1
        <3> QED
            BY <2>1, <3>1 DEF Waits
    <2>6. ASSUME NEW p \in Queries, p # q PROVE Waits(t, p) <=> Waits(rest, p)
        <3>1. ASSUME NEW i \in 1..Len(t), t[i] = p PROVE Waits(rest, p)
            BY <2>1, <2>3, <2>6, <3>1 DEF Waits
        <3>2. ASSUME NEW i \in 1..Len(rest), rest[i] = p PROVE Waits(t, p)
            <4>1. i \in 1..Len(t) /\ t[i] = p
                BY <2>1, <3>2
            <4> QED
                BY <4>1 DEF Waits
        <3> QED
            BY <3>1, <3>2 DEF Waits
    <2>7. ASSUME NEW p \in Queries PROVE place'[p] = "posted" <=> Waits(t, p)
        <3>1. CASE p = q
            BY <1>1, <1>2, <1>5, <2>5, <3>1
        <3>2. CASE p # q
            <4>1. place'[p] = place[p]
                BY <1>1, <1>2, <3>2
            <4>2. place[p] = "posted" <=> Waits(tasks, p)
                BY DEF RunInv
            <4>3. Waits(t, p) <=> Waits(tasks, p)
                BY <2>6, <3>2
            <4> QED
                BY <4>1, <4>2, <4>3
        <3> QED
            BY <3>1, <3>2
    <2>8. tasks' = t
        BY <1>2, <1>5 DEF t
    <2> QED
        BY <1>3, <1>4, <2>1, <2>4, <2>7, <2>8 DEF RunInv
<1>6. CASE o.to # "posted"
    <2>1. tasks' = rest
        BY <1>2, <1>6
    <2>2. ASSUME NEW p \in Queries PROVE place'[p] = "posted" <=> Waits(rest, p)
        <3>1. CASE p = q
            BY <1>1, <1>2, <1>6, <3>1
        <3>2. CASE p # q
            <4>1. place'[p] = place[p]
                BY <1>1, <1>2, <3>2
            <4>2. place[p] = "posted" <=> Waits(tasks, p)
                BY DEF RunInv
            <4> QED
                BY <3>2, <4>1, <4>2
        <3> QED
            BY <3>1, <3>2
    <2> QED
        BY <1>3, <1>4, <2>1, <2>2 DEF RunInv
<1> QED
    BY <1>5, <1>6

\* A query that is with its caller or with c-ares is none of the tasks.
LEMMA ApplyOutside ==
    ASSUME RunInv, NEW q \in Queries, place[q] \in {"caller", "asked"},
           NEW o, IsOutcome(o), Apply(q, o, tasks)
    PROVE  RunInv'
<1>1. result[q] = <<>> /\ ~Waits(tasks, q)
    BY DEF RunInv
<1>2. /\ tasks \in Seq(Queries)
      /\ \A i, j \in 1..Len(tasks) : tasks[i] = tasks[j] => i = j
    BY DEF RunInv
<1>3. \A p \in Queries : Waits(tasks, p) <=> p # q /\ Waits(tasks, p)
    BY <1>1
<1> QED
    BY <1>1, <1>2, <1>3, ApplyKeeps

\* The first of the tasks.
LEMMA HeadRuns ==
    ASSUME RunInv, tasks # <<>>, NEW o, IsOutcome(o), Apply(Head(tasks), o, Tail(tasks))
    PROVE  RunInv'
<1> DEFINE q == Head(tasks)
           rest == Tail(tasks)
<1>1. /\ tasks \in Seq(Queries)
      /\ \A i, j \in 1..Len(tasks) : tasks[i] = tasks[j] => i = j
    BY DEF RunInv
<1>2. /\ q \in Queries /\ q = tasks[1] /\ Len(tasks) \in Nat \ {0}
      /\ rest \in Seq(Queries) /\ Len(rest) = Len(tasks) - 1
      /\ \A i \in 1..(Len(tasks) - 1) : rest[i] = tasks[i + 1]
    BY <1>1
<1> HIDE DEF q, rest
<1>3. \A i, j \in 1..Len(rest) : rest[i] = rest[j] => i = j
    <2>1. ASSUME NEW i \in 1..Len(rest), NEW j \in 1..Len(rest), rest[i] = rest[j] PROVE i = j
        <3>1. i + 1 \in 1..Len(tasks) /\ j + 1 \in 1..Len(tasks) /\ tasks[i + 1] = tasks[j + 1]
            BY <1>2, <2>1
        <3> QED
            BY <1>1, <3>1
    <2> QED
        BY <2>1
<1>4. ASSUME NEW p \in Queries PROVE Waits(rest, p) <=> p # q /\ Waits(tasks, p)
    <2>1. ASSUME NEW i \in 1..Len(rest), rest[i] = p PROVE p # q /\ Waits(tasks, p)
        <3>1. i + 1 \in 1..Len(tasks) /\ tasks[i + 1] = p /\ i + 1 # 1 /\ 1 \in 1..Len(tasks)
            BY <1>2, <2>1
        <3> QED
            BY <1>1, <1>2, <3>1 DEF Waits
    <2>2. ASSUME NEW i \in 1..Len(tasks), tasks[i] = p, p # q PROVE Waits(rest, p)
        <3>1. i - 1 \in 1..Len(rest) /\ (i - 1) + 1 = i
            BY <1>2, <2>2
        <3>2. rest[i - 1] = p
            BY <1>2, <2>2, <3>1
        <3> QED
            BY <3>1, <3>2 DEF Waits
    <2> QED
        BY <2>1, <2>2 DEF Waits
<1>5. result[q] = <<>>
    <2>1. 1 \in 1..Len(tasks)
        BY <1>2
    <2>2. Waits(tasks, q)
        BY <1>2, <2>1 DEF Waits
    <2> QED
        BY <1>2, <2>2 DEF RunInv
<1>6. Apply(q, o, rest)
    BY DEF q, rest
<1> QED
    BY <1>2, <1>3, <1>4, <1>5, <1>6, ApplyKeeps

LEMMA CancelKeeps ==
    ASSUME RunInv, AresCancel
    PROVE  RunInv'
<1>1. /\ tasks' = tasks
      /\ place' = [q \in Queries |-> IF place[q] = "asked" THEN "over" ELSE place[q]]
      /\ DOMAIN result' = Queries
    BY DEF AresCancel
<1>2. /\ place \in [Queries -> {"caller", "posted", "asked", "over"}]
      /\ tasks \in Seq(Queries)
      /\ \A i, j \in 1..Len(tasks) : tasks[i] = tasks[j] => i = j
    BY DEF RunInv
<1>3. place' \in [Queries -> {"caller", "posted", "asked", "over"}]
    BY <1>1, <1>2
<1>4. ASSUME NEW q \in Queries
      PROVE  /\ place'[q] = "posted" <=> Waits(tasks, q)
             /\ \/ result'[q] = <<>>
                \/ place'[q] = "over" /\ \E c : result'[q] = <<c>>
    <2>1. /\ place[q] = "posted" <=> Waits(tasks, q)
          /\ \/ result[q] = <<>>
             \/ place[q] = "over" /\ \E c : result[q] = <<c>>
        BY DEF RunInv
    <2>2. /\ place'[q] = IF place[q] = "asked" THEN "over" ELSE place[q]
          /\ result'[q] = IF place[q] = "asked" /\ q \notin gone
                          THEN Append(result[q], Aborted) ELSE result[q]
        BY <1>1 DEF AresCancel
    <2>3. CASE place[q] = "asked"
        <3>1. Append(<<>>, Aborted) = <<Aborted>>
            OBVIOUS
        <3>2. result[q] = <<>> /\ place'[q] = "over"
            BY <2>1, <2>2, <2>3
        <3>3. result'[q] \in {<<>>, <<Aborted>>}
            BY <2>2, <2>3, <3>1, <3>2
        <3> QED
            BY <2>1, <2>3, <3>2, <3>3
    <2>4. CASE place[q] # "asked"
        <3>1. place'[q] = place[q] /\ result'[q] = result[q]
            BY <2>2, <2>4
        <3> QED
            BY <2>1, <3>1
    <2> QED
        BY <2>3, <2>4
<1> QED
    BY <1>1, <1>2, <1>3, <1>4 DEF RunInv

LEMMA RunInvInit ==
    ResolverInit => RunInv
<1> SUFFICES ASSUME ResolverInit PROVE RunInv
    OBVIOUS
<1>1. /\ place = [q \in Queries |-> "caller"] /\ tasks = <<>>
      /\ result = [q \in Queries |-> <<>>]
    BY DEF ResolverInit
<1>2. tasks \in Seq(Queries) /\ 1..Len(tasks) = {}
    BY <1>1
<1> QED
    BY <1>1, <1>2 DEF RunInv, Waits

LEMMA RunInvStep ==
    ASSUME RunInv, [ResolverNext]_resolverVars
    PROVE  RunInv'
<1>1. ASSUME NEW q \in Queries, Resolve(q) PROVE RunInv'
    BY <1>1, ApplyOutside, ProcessQueryIs DEF Resolve
<1>2. ASSUME NEW q \in Queries, QueryCb(q) PROVE RunInv'
    BY <1>2, ApplyOutside, ProcessQueryIs DEF QueryCb
<1>3. CASE ProcessQueryAsync
    <2> DEFINE q == Head(tasks)
               o == CASE q \in gone -> Ended(query[q], <<>>)
                      [] q \notin gone /\ cancel -> Ended(query[q], <<Aborted>>)
                      [] OTHER -> StepOutcome(q, query[q])
    <2>1. tasks # <<>> /\ Apply(q, o, Tail(tasks))
        BY <1>3 DEF ProcessQueryAsync
    <2>2. IsOutcome(o)
        BY EndedIs, StepOutcomeIs
    <2> HIDE DEF o
    <2> QED
        BY <2>1, <2>2, HeadRuns
<1>4. CASE AresCancel
    BY <1>4, CancelKeeps
<1>5. CASE UNCHANGED resolverVars \/ Cancel \/ \E q \in Queries : DropContext(q)
    BY <1>5 DEF Cancel, DropContext, resolverVars, RunInv, Waits
<1> QED
    BY <1>1, <1>2, <1>3, <1>4, <1>5 DEF ResolverNext

LEMMA RunInvTells ==
    RunInv => QueriesRunOnce
<1> SUFFICES ASSUME RunInv, NEW q \in Queries
             PROVE  /\ Len(result[q]) <= IF place[q] = "over" THEN 1 ELSE 0
                    /\ Cardinality({i \in DOMAIN tasks : tasks[i] = q})
                         = IF place[q] = "posted" THEN 1 ELSE 0
    BY DEF QueriesRunOnce
<1>1. /\ DOMAIN tasks = 1..Len(tasks)
      /\ \A i, j \in 1..Len(tasks) : tasks[i] = tasks[j] => i = j
      /\ place[q] = "posted" <=> Waits(tasks, q)
    BY DEF RunInv
<1>2. Len(result[q]) <= IF place[q] = "over" THEN 1 ELSE 0
    <2>1. CASE result[q] = <<>>
        BY <2>1
    <2>2. CASE result[q] # <<>>
        <3>1. PICK c : place[q] = "over" /\ result[q] = <<c>>
            BY <2>2 DEF RunInv
        <3> QED
            BY <3>1
    <2> QED
        BY <2>1, <2>2
<1>3. CASE Waits(tasks, q)
    <2>1. PICK i \in 1..Len(tasks) : tasks[i] = q
        BY <1>3 DEF Waits
    <2>2. {j \in DOMAIN tasks : tasks[j] = q} = {i}
        BY <1>1, <2>1
    <2>3. Cardinality({i}) = 1
        BY FS_Singleton
    <2> QED
        BY <1>1, <1>2, <1>3, <2>2, <2>3
<1>4. CASE ~Waits(tasks, q)
    <2>1. {j \in DOMAIN tasks : tasks[j] = q} = {}
        BY <1>1, <1>4 DEF Waits
    <2>2. Cardinality({}) = 0
        BY FS_EmptySet
    <2> QED
        BY <1>1, <1>2, <1>4, <2>1, <2>2
<1> QED
    BY <1>3, <1>4

\* caresolver.cpp: whatever c-ares answers, and whenever cancel() or the end
\* of a caller's context comes in between, a callback is called at most once,
\* when its query is over, and a query is posted once while a step is due and
\* never while c-ares has it.
THEOREM QueriesKeepRunningOnce == ResolverSpec => []QueriesRunOnce
BY RunInvInit, RunInvStep, RunInvTells, PTL DEF ResolverSpec
=============================================================================
