----------------------------- MODULE ApiServer -----------------------------
(***************************************************************************)
(* The connections of an API server (api/server/server.h,                  *)
(* connectionsstore.h, tcpserver.h) from accepting them to closing the     *)
(* server, over TcpStream.  A connection receives a header and a body,     *)
(* lets the request be authenticated and dispatched in another thread,     *)
(* sends the response and waits for the next request.  While a request is  *)
(* dispatched the connection is watched: its socket becomes readable only  *)
(* if the peer is gone or sends what nobody has asked for.                 *)
(*                                                                         *)
(* The handlers of a connection run one after another in its thread; each  *)
(* is one step.  The accepting thread and the thread that closes the       *)
(* server are others, and their steps are the accesses to what they share  *)
(* with connections.  A context lives as long as something holds a shared  *)
(* pointer to it: the store, a handler that is outstanding or queued.      *)
(***************************************************************************)
EXTENDS Naturals, Sequences, FiniteSetsExt

CONSTANTS Conns,
          Nobody,       \* no connection
          UseAuth,      \* there is an authentication dispatcher
          Kinds,        \* of messages: good, malformed, empty, tooBig
          MaxMessages,  \* bound: messages of all clients
          Avoided       \* irregular behaviour left out, see May

ASSUME ApiServerAssumption ==
    /\ Nobody \notin Conns
    /\ UseAuth \in BOOLEAN
    /\ Kinds \subseteq {"good", "malformed", "empty", "tooBig"}
    /\ MaxMessages \in Nat

VARIABLES
    closed,    \* Server::m_closed
    closer,    \* how far NetworkMicroService::close is
    acceptor,  \* what the accepting thread does, and with which connection
    conn,      \* the connections
    peer,      \* their clients: requests sent and finished, bytes under way
    freed      \* history: what was used after it had been destroyed

vars == <<closed, closer, acceptor, conn, peer, freed>>

\* What goes wrong when it happens:
\*   lostInAuth     the peer is found to be gone during authentication
\*   earlyHandler   a handler of a connection runs while the accepting
\*                  thread is still in waitForRequest
\*   lateRegister   a connection is registered after the store was cleared
\*   pipelining     a client sends without waiting for the response
\*   unreadBody     a message too big is answered and its body not read
May(irregular) == irregular \notin Avoided

--------------------------------------------------------------------------
(* A connection.                                                           *)

\* op is the transfer under way, task the request in a dispatcher; a watch is
\* a waitForRead that is registered, and handlers of it may be queued.
NewConnection == [op |-> "none", task |-> "none", watching |-> FALSE, watchQueued |-> 0,
                  stored |-> FALSE, closing |-> FALSE, open |-> TRUE, kind |-> "none",
                  request |-> 0, parent |-> 0, forced |-> FALSE]

\* The context has an owner.
Alive(c) ==
    \/ conn[c].stored \/ conn[c].closing
    \/ conn[c].op # "none"
    \/ conn[c].watching \/ conn[c].watchQueued > 0
    \/ acceptor.conn = c

\* The first request of a connection has an owner.
FirstRequestAlive(c) ==
    \/ conn[c].parent = 1
    \/ conn[c].request = 1 /\ (conn[c].op # "none" \/ conn[c].task # "none")

\* The next handler of c may run in its thread.
Runs(c) == acceptor.conn # c \/ May("earlyHandler")

\* Closing the socket drops a watch; a transfer under way fails.
SocketClosed(k) == [k EXCEPT !.open = FALSE, !.watching = FALSE]
ResetConnection(k) == [k EXCEPT !.stored = FALSE, !.parent = 0]
CloseConnection(k) == ResetConnection(SocketClosed(k))

\* cancel() ends a watch that is registered, not one whose handler is queued.
CancelWatch(k) == [k EXCEPT !.watching = FALSE]
WatchConnection(k) == IF k.open THEN [k EXCEPT !.watching = TRUE]
                                ELSE [k EXCEPT !.watchQueued = @ + 1]

WaitForRequest(k) ==
    IF closed THEN [k EXCEPT !.op = "none"]
    ELSE [k EXCEPT !.op = "recvHeader", !.request = @ + 1, !.parent = k.request + 1]

CloseRequest(k) == [k EXCEPT !.op = "none", !.task = "none"]

SendResponse(k) == IF closed THEN CloseRequest(k)
                   ELSE [k EXCEPT !.op = "sendHeader", !.task = "none"]

DispatchRequest(k) == IF closed THEN CloseRequest(k)
                      ELSE WatchConnection([k EXCEPT !.op = "none", !.task = "dispatch"])

AuthRequest(k) == IF closed THEN CloseRequest(k)
                  ELSE WatchConnection([k EXCEPT !.op = "none", !.task = "auth"])

Becomes(c, k) == conn' = [conn EXCEPT ![c] = k]

--------------------------------------------------------------------------
(* Clients and the network.                                                *)

NewPeer == [gone |-> FALSE, sent |-> 0, finished |-> 0, bytes |-> <<>>]

\* An empty message is a header only.
Parts(kind) == IF kind = "empty" THEN <<[part |-> "header", kind |-> kind]>>
               ELSE <<[part |-> "header", kind |-> kind], [part |-> "body", kind |-> kind]>>

Send(c, kind) ==
    /\ conn[c].request > 0 /\ ~peer[c].gone
    /\ MapThenSumSet(LAMBDA d : peer[d].sent, Conns) < MaxMessages
    /\ peer[c].sent = peer[c].finished \/ May("pipelining")
    /\ kind = "tooBig" => May("unreadBody")
    /\ peer' = [peer EXCEPT ![c].sent = @ + 1, ![c].bytes = @ \o Parts(kind)]
    /\ UNCHANGED <<closed, closer, acceptor, conn, freed>>

Leave(c) ==
    /\ conn[c].request > 0 /\ ~peer[c].gone
    /\ peer' = [peer EXCEPT ![c].gone = TRUE]
    /\ UNCHANGED <<closed, closer, acceptor, conn, freed>>

\* The socket is readable: a watch completes and its handler is queued.
Readable(c) == peer[c].gone \/ peer[c].bytes # <<>>
WatchCompletes(c) ==
    /\ conn[c].watching
    /\ Readable(c)
    /\ Becomes(c, [conn[c] EXCEPT !.watching = FALSE, !.watchQueued = @ + 1])
    /\ UNCHANGED <<closed, closer, acceptor, peer, freed>>

Finished(c) == peer' = [peer EXCEPT ![c].finished = @ + 1]
Taken(c) == peer' = [peer EXCEPT ![c].bytes = Tail(@)]

--------------------------------------------------------------------------
(* Accepting.                                                              *)

\* acceptNext: the server that is closed lets the new connection go and
\* accepts no other.
Accept(c) ==
    /\ acceptor.does = "accept"
    /\ conn[c].request = 0
    /\ acceptor' = IF closer = "done" \/ closed THEN [does |-> "stopped", conn |-> Nobody]
                   ELSE [does |-> "register", conn |-> c]
    /\ UNCHANGED <<closed, closer, conn, peer, freed>>

Register ==
    /\ acceptor.does = "register"
    /\ acceptor' = [acceptor EXCEPT !.does = "wait"]
    /\ conn' = [conn EXCEPT ![acceptor.conn].stored = TRUE]
    /\ UNCHANGED <<closed, closer, peer, freed>>

FirstWait ==
    /\ acceptor.does = "wait"
    /\ acceptor' = [acceptor EXCEPT !.does = IF closed THEN "next" ELSE "after"]
    /\ Becomes(acceptor.conn, WaitForRequest(conn[acceptor.conn]))
    /\ UNCHANGED <<closed, closer, peer, freed>>

\* The end of waitForRequest touches the request it has given away.
FirstWaitEnds ==
    /\ acceptor.does = "after"
    /\ acceptor' = [acceptor EXCEPT !.does = "next"]
    /\ freed' = IF FirstRequestAlive(acceptor.conn) THEN freed ELSE freed \cup {"request"}
    /\ UNCHANGED <<closed, closer, conn, peer>>

AcceptNext ==
    /\ acceptor.does = "next"
    /\ acceptor' = [does |-> "accept", conn |-> Nobody]
    /\ UNCHANGED <<closed, closer, conn, peer, freed>>

--------------------------------------------------------------------------
(* Receiving a request.                                                    *)

\* A transfer that can no longer succeed, or is refused by a closed stream.
Broken(c) == \/ ~conn[c].open
             \/ peer[c].gone /\ (conn[c].op \in {"recvHeader", "recvBody"} => peer[c].bytes = <<>>)

Received(c, part) ==
    /\ Runs(c)
    /\ conn[c].op = part
    /\ conn[c].open
    /\ peer[c].bytes # <<>>
    /\ UNCHANGED <<closed, closer, acceptor, freed>>

\* A bug: the message is parsed before its body has been received.
HeaderThenParse(c) ==
    /\ Received(c, "recvHeader")
    /\ Taken(c)
    /\ Becomes(c, IF UseAuth THEN AuthRequest(conn[c]) ELSE DispatchRequest(conn[c]))

\* What stands where a header is expected is taken for one.
HeaderReceived(c) ==
    /\ Received(c, "recvHeader")
    /\ LET first == Head(peer[c].bytes)
       IN \E kind \in IF first.part = "header" THEN {first.kind} ELSE Kinds :
            LET k == [conn[c] EXCEPT !.kind = kind] IN
              CASE kind = "empty"  -> /\ Becomes(c, WaitForRequest(CloseRequest(k)))
                                      /\ peer' = [peer EXCEPT ![c].bytes = Tail(@), ![c].finished = @ + 1]
                [] kind = "tooBig" -> Becomes(c, SendResponse(k)) /\ Taken(c)
                [] OTHER           -> Becomes(c, [k EXCEPT !.op = "recvBody"]) /\ Taken(c)

BodyReceived(c) ==
    /\ Received(c, "recvBody")
    /\ Taken(c)
    /\ Becomes(c, IF conn[c].kind = "malformed" THEN SendResponse(conn[c])
                  ELSE IF UseAuth THEN AuthRequest(conn[c])
                  ELSE DispatchRequest(conn[c]))

ReceiveFails(c) ==
    /\ Runs(c)
    /\ conn[c].op \in {"recvHeader", "recvBody"}
    /\ Broken(c)
    /\ Becomes(c, ResetConnection(CloseRequest(conn[c])))
    /\ UNCHANGED <<closed, closer, acceptor, peer, freed>>

--------------------------------------------------------------------------
(* Dispatchers.  They run in the thread of the request, and their callback *)
(* is queued in the thread of the connection.                              *)

\* A request is authenticated or not, or the connection is to be closed.
AuthDone(c, result) ==
    /\ conn[c].task = "auth"
    /\ Becomes(c, [conn[c] EXCEPT !.task = IF result = "ok" THEN "authOk"
                                           ELSE IF result = "failed" THEN "authFailed"
                                           ELSE "authForced"])
    /\ UNCHANGED <<closed, closer, acceptor, peer, freed>>

DispatchDone(c, result) ==
    /\ conn[c].task = "dispatch"
    /\ Becomes(c, [conn[c] EXCEPT !.task = IF result = "forced" THEN "dispatchForced"
                                           ELSE "dispatched"])
    /\ UNCHANGED <<closed, closer, acceptor, peer, freed>>

\* The callback of authentication goes on with the connection whether or not
\* its context could be locked.
AuthCallback(c) ==
    LET k  == conn[c]
        on(x) == IF k.task = "authFailed" THEN SendResponse(x) ELSE DispatchRequest(x)
    IN  /\ Runs(c)
        /\ k.task \in {"authOk", "authFailed", "authForced"}
        /\ UNCHANGED <<closed, closer, acceptor, peer>>
        /\ \/ /\ closed
              /\ Becomes(c, CloseRequest(k))
              /\ UNCHANGED freed
           \/ /\ ~closed /\ Alive(c)
              /\ Becomes(c, IF k.task = "authForced"
                            THEN [CloseConnection(CloseRequest(k)) EXCEPT !.forced = TRUE]
                            ELSE on(CancelWatch(k)))
              /\ UNCHANGED freed
           \/ /\ ~closed /\ ~Alive(c)
              /\ Becomes(c, CloseRequest(k))
              /\ freed' = freed \cup {"connection"}

\* A bug: the watch is not cancelled.
DispatchCallbackWatched(c) ==
    LET k == conn[c]
    IN  /\ Runs(c)
        /\ k.task \in {"dispatched", "dispatchForced"}
        /\ Becomes(c, IF closed \/ ~Alive(c) THEN CloseRequest(k)
                      ELSE IF k.task = "dispatchForced"
                      THEN [CloseConnection(CloseRequest(k)) EXCEPT !.forced = TRUE]
                      ELSE SendResponse(k))
        /\ UNCHANGED <<closed, closer, acceptor, peer, freed>>

\* A bug: the context is not looked at.
DispatchCallbackUnchecked(c) ==
    LET k == conn[c]
    IN  /\ Runs(c)
        /\ k.task \in {"dispatched", "dispatchForced"}
        /\ Becomes(c, IF closed THEN CloseRequest(k) ELSE SendResponse(CancelWatch(k)))
        /\ freed' = IF closed \/ Alive(c) THEN freed ELSE freed \cup {"connection"}
        /\ UNCHANGED <<closed, closer, acceptor, peer>>

DispatchCallback(c) ==
    LET k == conn[c]
    IN  /\ Runs(c)
        /\ k.task \in {"dispatched", "dispatchForced"}
        /\ Becomes(c, IF closed \/ ~Alive(c) THEN CloseRequest(k)
                      ELSE IF k.task = "dispatchForced"
                      THEN [CloseConnection(CloseRequest(k)) EXCEPT !.forced = TRUE]
                      ELSE SendResponse(CancelWatch(k)))
        /\ UNCHANGED <<closed, closer, acceptor, peer, freed>>

\* watchConnection's handler.
WatchHandler(c) ==
    /\ conn[c].watchQueued > 0
    /\ conn[c].task \notin {"auth", "authOk", "authFailed", "authForced"} \/ May("lostInAuth")
    /\ Becomes(c, CloseConnection([conn[c] EXCEPT !.watchQueued = @ - 1]))
    /\ UNCHANGED <<closed, closer, acceptor, peer, freed>>

--------------------------------------------------------------------------
(* Sending the response.                                                   *)

HeaderSent(c) ==
    /\ Runs(c)
    /\ conn[c].op = "sendHeader"
    /\ conn[c].open
    /\ Becomes(c, IF closed THEN CloseRequest(conn[c]) ELSE [conn[c] EXCEPT !.op = "sendBody"])
    /\ UNCHANGED <<closed, closer, acceptor, peer, freed>>

BodySent(c) ==
    /\ Runs(c)
    /\ conn[c].op = "sendBody"
    /\ conn[c].open
    /\ Finished(c)
    /\ Becomes(c, WaitForRequest(CloseRequest(conn[c])))
    /\ UNCHANGED <<closed, closer, acceptor, freed>>

\* A bug: the connection stays registered.
SendFailsStored(c) ==
    /\ Runs(c)
    /\ conn[c].op \in {"sendHeader", "sendBody"}
    /\ Broken(c)
    /\ Becomes(c, CloseRequest(conn[c]))
    /\ UNCHANGED <<closed, closer, acceptor, peer, freed>>

SendFails(c) ==
    /\ Runs(c)
    /\ conn[c].op \in {"sendHeader", "sendBody"}
    /\ Broken(c)
    /\ Becomes(c, IF closed /\ conn[c].op = "sendHeader" THEN CloseRequest(conn[c])
                  ELSE ResetConnection(CloseRequest(conn[c])))
    /\ UNCHANGED <<closed, closer, acceptor, peer, freed>>

--------------------------------------------------------------------------
(* Closing the server, then the network server, in a thread of its own.    *)

CloseServer ==
    /\ closer = "none"
    /\ closer' = "flagged"
    /\ closed' = TRUE
    /\ UNCHANGED <<acceptor, conn, peer, freed>>

\* A bug: the connections are forgotten, not closed.
ClearForgets ==
    /\ closer = "flagged"
    /\ closer' = "cleared"
    /\ conn' = [c \in Conns |-> [conn[c] EXCEPT !.stored = FALSE]]
    /\ UNCHANGED <<closed, acceptor, peer, freed>>

\* ConnectionsStore::clear: every connection is closed in its own thread.
Clear ==
    /\ closer = "flagged"
    /\ acceptor.does = "register" => May("lateRegister")
    /\ closer' = "cleared"
    /\ conn' = [c \in Conns |-> [conn[c] EXCEPT !.closing = @ \/ conn[c].stored, !.stored = FALSE]]
    /\ UNCHANGED <<closed, acceptor, peer, freed>>

CloseNetworkServer ==
    /\ closer = "cleared"
    /\ closer' = "done"
    /\ acceptor' = IF acceptor.does = "accept" THEN [acceptor EXCEPT !.does = "stopped"] ELSE acceptor
    /\ UNCHANGED <<closed, conn, peer, freed>>

\* TcpStream's close, posted to the thread of the connection.
DoClose(c) ==
    /\ conn[c].closing
    /\ Becomes(c, [SocketClosed(conn[c]) EXCEPT !.closing = FALSE])
    /\ UNCHANGED <<closed, closer, acceptor, peer, freed>>

--------------------------------------------------------------------------
Init ==
    /\ closed = FALSE
    /\ closer = "none"
    /\ acceptor = [does |-> "accept", conn |-> Nobody]
    /\ conn = [c \in Conns |-> NewConnection]
    /\ peer = [c \in Conns |-> NewPeer]
    /\ freed = {}

Handler(c) ==
    \/ HeaderReceived(c) \/ BodyReceived(c) \/ ReceiveFails(c)
    \/ AuthCallback(c) \/ DispatchCallback(c) \/ WatchHandler(c)
    \/ HeaderSent(c) \/ BodySent(c) \/ SendFails(c) \/ DoClose(c)

Dispatcher(c) ==
    \/ \E result \in {"ok", "failed", "forced"} : AuthDone(c, result)
    \/ \E result \in {"ok", "forced"} : DispatchDone(c, result)

Acceptor == Register \/ FirstWait \/ FirstWaitEnds \/ AcceptNext

Next ==
    \/ \E c \in Conns : \/ \E kind \in Kinds : Send(c, kind)
                        \/ Leave(c) \/ WatchCompletes(c)
                        \/ Accept(c)
                        \/ Handler(c) \/ Dispatcher(c)
    \/ Acceptor
    \/ CloseServer \/ Clear \/ CloseNetworkServer

Spec == Init /\ [][Next]_vars

\* Handlers that are queued run, dispatchers call back, a close goes on to
\* its end.  Clients promise nothing.
Fairness ==
    /\ WF_vars(Acceptor)
    /\ WF_vars(Clear \/ CloseNetworkServer)
    /\ \A c \in Conns : /\ WF_vars(Handler(c)) /\ WF_vars(Dispatcher(c))
                        /\ WF_vars(WatchCompletes(c))

LiveSpec == Spec /\ Fairness

--------------------------------------------------------------------------
(* What it promises.                                                       *)

Connection ==
    [op : {"none", "recvHeader", "recvBody", "sendHeader", "sendBody"},
     task : {"none", "auth", "authOk", "authFailed", "authForced",
             "dispatch", "dispatched", "dispatchForced"},
     watching : BOOLEAN, watchQueued : Nat, stored : BOOLEAN, closing : BOOLEAN,
     open : BOOLEAN, kind : Kinds \cup {"none"}, request : Nat, parent : Nat, forced : BOOLEAN]

Part == [part : {"header", "body"}, kind : Kinds]
Peer == [gone : BOOLEAN, sent : Nat, finished : Nat, bytes : Seq(Part)]

\* Every variable keeps its type.
TypeOK ==
    /\ closed \in BOOLEAN
    /\ closer \in {"none", "flagged", "cleared", "done"}
    /\ acceptor \in [does : {"accept", "register", "wait", "after", "next", "stopped"},
                     conn : Conns \cup {Nobody}]
    /\ conn \in [Conns -> Connection]
    /\ peer \in [Conns -> Peer]
    /\ freed \subseteq {"connection", "request"}

\* No handler uses a connection or a request whose context has been
\* destroyed: handlers refer to them by reference and plain pointer
\* (server.h, &connection and reqPtr), and must know them alive.
NothingUsedAfterFree == freed = {}

\* A client that waits for its responses and stays is not disconnected while
\* the server is open, unless a service asked for it: the watch that looks
\* for a broken connection never mistakes the next request for one.
PatientClientsAreKept ==
    \A c \in Conns :
        conn[c].request > 0 /\ ~peer[c].gone /\ ~closed /\ ~conn[c].forced
          => conn[c].open /\ conn[c].stored

\* A header is read only where a message begins.
HeadersBeginMessages ==
    \A c \in Conns : conn[c].op = "recvHeader" /\ peer[c].bytes # <<>>
                       => Head(peer[c].bytes).part = "header"

\* Once the server is closed every connection is let go, the ones whose
\* requests were being received, dispatched or answered and the one being
\* accepted included.
ClosedServerLetsGo ==
    closed ~> (\A c \in Conns : ~Alive(c) /\ conn[c].task = "none")

\* A request that was sent is answered or its connection is let go.
ServerRequestsEnd ==
    \A c \in Conns :
        peer[c].sent > peer[c].finished ~> (peer[c].sent = peer[c].finished \/ ~Alive(c))

============================================================================
